-------------------------- MODULE ChannelReloadProofs --------------------------
(***************************************************************************)
(* Types, no stray channel, and channels that follow the file once the     *)
(* watcher sleeps, for any channels, sections and edits.                   *)
(***************************************************************************)
EXTENDS ChannelReload, TLAPS

Busy == {"starting", "undoing", "stopping"}

\* What the reload has in hand is not in the table, and only a reload under way has
\* something in hand; a clone is started for a name that is in the table and that has a
\* section.  Once the
\* watcher's stop has returned nothing is in hand any more.
HandInv ==
  /\ at \notin Busy => hand = None
  /\ at \in Busy => \A n \in Names : table[n] # hand
  /\ at \in {"starting", "undoing"} => table[Name] # None /\ cfg[Name] # None
  /\ \A n \in todo : cfg[n] # None
  /\ stop \in {"watched", "stopped"} => at = "ended"
  /\ \A c \in open : ~Unused(c)

Checking == at = "channels" \/ at \in Busy

\* v is what the channel of n runs, or was taken as applied without it.
Applied(n, v) == v = version[table[n]] \/ v \in skipped[n]

\* The check has still to deal with n, or is starting its new channel.
Pending(n) == n \in todo \/ (at \in {"starting", "undoing"} /\ n = Name)

\* What a channel runs is what the snapshot says of it: the old snapshot as long as
\* the check has not dealt with it, then the new one.  A snapshot is what the file
\* says, except for what was refused or is not in the file, unless that has changed.
SnapshotInv ==
  /\ \A n \in Names : table[n] # None =>
       /\ at \in {"off", "asleep", "loading"} \/ (Checking /\ Pending(n))
            => seen[n] = None \/ Applied(n, seen[n])
       /\ Checking /\ ~Pending(n) => cfg[n] = None \/ Applied(n, cfg[n])
  /\ at \in {"starting", "undoing"} => version[hand] = cfg[Name] /\ Name \notin todo
  /\ Checking /\ ~unread =>
       cfgHb = heartbeat /\ \A n \in Names : file[n] \in {None, cfg[n]} \/ n \in refused
  /\ at = "asleep" /\ legible /\ ~unread =>
       seenHb = heartbeat /\ \A n \in Names : file[n] \in {None, seen[n]} \/ n \in refused
  /\ at # "ended" => seenHb \in {None, skippedHb} \/ cronHb = Built(seenHb)

CInv == TypeOK /\ HandInv /\ NoStrayChannel /\ SnapshotInv
-----------------------------------------------------------------------------
\* What the channels part says of a name is a version or nothing, and the heartbeat has
\* a job of its section or none.
LEMMA FileType == \A f \in Files : f \in [Names -> Versions \cup {None}]
BY DEF Files

LEMMA BuiltType == \A v \in Beats \cup {None} : Built(v) \in {v, None}
BY DEF Built

LEMMA CInvInit == Init => CInv
<1> SUFFICES ASSUME Init PROVE CInv
  OBVIOUS
<1>1. PICK enabled \in SUBSET {n \in Names : file[n] # None} :
        /\ table = [n \in Names |-> IF n \in enabled THEN First[n] ELSE None]
        /\ name = [c \in Channels |-> IF \E n \in enabled : First[n] = c
                                        THEN CHOOSE n \in enabled : First[n] = c
                                        ELSE None]
        /\ open = {First[n] : n \in enabled}
  BY DEF Init
<1>2. /\ file \in Files /\ at = "off" /\ hand = None /\ stop = "no"
      /\ version = [c \in Channels |-> IF name[c] = None THEN None ELSE file[name[c]]]
      /\ injected = open /\ todo = {}
  BY DEF Init
<1>3. name \in [Channels -> Names \cup {None}]
  BY <1>1
<1>4. \A n \in enabled : First[n] \in Channels /\ name[First[n]] = n
  BY <1>1, FirstAssumption
<1>5. \A n \in Names : table[n] # None => n \in enabled /\ table[n] = First[n]
  BY <1>1
<1>6. version \in [Channels -> Versions \cup {None}]
  BY <1>2, <1>3, FileType
<1>7. table \in [Names -> Channels \cup {None}] /\ open \subseteq Channels
  BY <1>1, <1>4
<1>8. TypeOK
  <2>1. /\ legible \in BOOLEAN /\ unread \in BOOLEAN /\ edits \in 0 .. MaxEdits
        /\ heartbeat \in Beats /\ cfg = file /\ cfgHb = heartbeat /\ cronHb = heartbeat
        /\ seen \in [Names -> Versions \cup {None}] /\ seenHb = None /\ todo = {}
        /\ cancelled = FALSE /\ refused = {} /\ skippedHb = None /\ cut = {}
        /\ skipped \in [Names -> SUBSET Versions]
    <3>1. /\ legible = TRUE /\ unread = FALSE /\ edits = 0
          /\ heartbeat \in Beats \ Broken /\ cfg = file /\ cfgHb = heartbeat /\ cronHb = heartbeat
          /\ seen = [n \in Names |-> None] /\ seenHb = None /\ todo = {}
          /\ cancelled = FALSE /\ refused = {} /\ skippedHb = None /\ cut = {}
          /\ skipped = [n \in Names |-> {}]
      BY Zenon DEF Init
    <3>2. edits \in 0 .. MaxEdits
      BY <3>1, MaxEditsAssumption
    <3>3. seen \in [Names -> Versions \cup {None}] /\ skipped \in [Names -> SUBSET Versions]
      BY <3>1
    <3> QED
      BY <3>1, <3>2, <3>3, Zenon
  <2> QED
    BY <1>2, <1>3, <1>4, <1>5, <1>6, <1>7, <2>1, FileType DEF TypeOK, Places
<1>9. HandInv
  <2>1. \A c \in open : ~Unused(c)
    BY <1>1, <1>4, NoneAssumption DEF Unused
  <2> QED
    BY <1>2, <2>1 DEF HandInv, Busy
<1>10. NoStrayChannel
  <2>1. \A c \in open : \E n \in Names : table[n] = c
    BY <1>1
  <2> QED
    BY <1>2, <2>1 DEF NoStrayChannel
<1>11. SnapshotInv
  BY Zenon DEF Init, SnapshotInv, Checking, Busy
<1> QED
  BY <1>8, <1>9, <1>10, <1>11 DEF CInv
-----------------------------------------------------------------------------
LEMMA TypeStep == TypeOK /\ HandInv /\ [Next]_vars => TypeOK'
<1> SUFFICES ASSUME TypeOK, HandInv, [Next]_vars PROVE TypeOK'
  OBVIOUS
<1> USE NoneAssumption DEF TypeOK, HandInv, Busy, Places, Unused, Name, fileVars, watcherVars, chVars, tableVars, stopVars, skipVars
<1>1. CASE Edit
  <2>1. /\ edits' \in 0 .. MaxEdits /\ unread' \in BOOLEAN
    BY <1>1, MaxEditsAssumption DEF Edit
  <2>2. file' \in Files /\ heartbeat' \in Beats /\ legible' \in BOOLEAN
    <3>1. CASE file' \in Files \ {file} /\ legible' = TRUE /\ UNCHANGED heartbeat
      BY <3>1
    <3>2. CASE heartbeat' \in Beats \ {heartbeat} /\ legible' = TRUE /\ UNCHANGED file
      BY <3>2
    <3>3. CASE legible' = ~legible /\ UNCHANGED <<file, heartbeat>>
      BY <3>3
    <3> QED
      BY <1>1, <3>1, <3>2, <3>3 DEF Edit
  <2>3. UNCHANGED <<at, watcherVars, hand, tableVars, cronHb, stopVars, skipVars, cut>>
    BY <1>1 DEF Edit
  <2> QED
    BY <2>1, <2>2, <2>3
<1>2. CASE StartWatcher
  <2>1. seen' = [n \in Names |-> IF legible THEN file[n] ELSE None]
    BY <1>2 DEF StartWatcher
  <2>2. seen' \in [Names -> Versions \cup {None}]
    BY <2>1, FileType
  <2>3. skipped' = [n \in Names |-> {seen'[n]} \ {None}]
    BY <1>2 DEF StartWatcher
  <2>4. skipped' \in [Names -> SUBSET Versions]
    BY <2>2, <2>3
  <2>5. seenHb' \in Beats \cup {None} /\ skippedHb' \in Beats \cup {None}
    BY <1>2 DEF StartWatcher
  <2>6. /\ at' = "asleep" /\ unread' = FALSE
        /\ UNCHANGED <<fileVars, cfg, cfgHb, todo, hand, tableVars, cronHb, stopVars,
                       refused, cut>>
    BY <1>2 DEF StartWatcher
  <2> QED
    BY <2>2, <2>4, <2>5, <2>6
<1>3. CASE Check
  BY <1>3 DEF Check
<1>4. CASE Load
  <2>1. cfg' \in [Names -> Versions \cup {None}] /\ cfgHb' \in Beats
    BY <1>4, FileType DEF Load
  <2> QED
    BY <1>4, <2>1 DEF Load
<1>5. CASE LoadFails
  BY <1>5 DEF LoadFails
<1>6. CASE SkipName
  BY <1>6 DEF SkipName
<1>7. CASE StartChannel
  BY <1>7 DEF StartChannel, Build
<1>8. CASE SwapIn
  BY <1>8 DEF SwapIn
<1>9. CASE StartFails
  BY <1>9 DEF StartFails
<1>10. CASE Undone
  BY <1>10 DEF Undone, Drop
<1>11. CASE OldStopped
  BY <1>11 DEF OldStopped, Drop
<1>12. CASE CheckEnds
  <2>1. Rescheduled \in Beats \cup {None}
    BY DEF Rescheduled
  <2>2. cronHb' \in Beats \cup {None} /\ skippedHb' \in Beats \cup {None}
    BY <1>12, <2>1, BuiltType DEF CheckEnds
  <2> QED
    BY <1>12, <2>2 DEF CheckEnds
<1>13. CASE Interrupted
  BY <1>13 DEF Interrupted
<1>14. CASE Swallowed
  BY <1>14, ZenonT(60) DEF Swallowed, Drop
<1>15. CASE StopWatcher
  BY <1>15 DEF StopWatcher, Waits
<1>16. CASE StopReturns
  BY <1>16 DEF StopReturns
<1>17. CASE StopChannels
  BY <1>17 DEF StopChannels
<1>18. CASE UNCHANGED vars
  BY <1>18 DEF vars
<1> QED
  BY <1>1, <1>2, <1>3, <1>4, <1>5, <1>6, <1>7, <1>8, <1>9, <1>10, <1>11, <1>12, <1>13, <1>14, <1>15, <1>16, <1>17, <1>18
     DEF Next, Watcher, Reload, Shutdown

LEMMA HandStep == TypeOK /\ HandInv /\ [Next]_vars => HandInv'
<1> SUFFICES ASSUME TypeOK, HandInv, [Next]_vars PROVE HandInv'
  OBVIOUS
<1> USE NoneAssumption DEF TypeOK, HandInv, Busy, Unused, Name, fileVars, watcherVars, chVars, tableVars, stopVars, skipVars
<1>1. CASE Edit
  BY <1>1 DEF Edit
<1>2. CASE StartWatcher
  BY <1>2 DEF StartWatcher
<1>3. CASE Check
  BY <1>3 DEF Check
<1>4. CASE Load
  BY <1>4 DEF Load, Absent
<1>5. CASE LoadFails
  BY <1>5 DEF LoadFails
<1>6. CASE SkipName
  BY <1>6 DEF SkipName
<1>7. CASE StartChannel
  BY <1>7 DEF StartChannel, Build
<1>8. CASE SwapIn
  BY <1>8 DEF SwapIn
<1>9. CASE StartFails
  BY <1>9 DEF StartFails
<1>10. CASE Undone
  BY <1>10 DEF Undone, Drop
<1>11. CASE OldStopped
  BY <1>11 DEF OldStopped, Drop
<1>12. CASE CheckEnds
  BY <1>12 DEF CheckEnds, Rescheduled
<1>13. CASE Interrupted
  BY <1>13 DEF Interrupted
<1>14. CASE Swallowed
  BY <1>14 DEF Swallowed, Drop
<1>15. CASE StopWatcher
  BY <1>15 DEF StopWatcher, Waits
<1>16. CASE StopReturns
  BY <1>16 DEF StopReturns
<1>17. CASE StopChannels
  BY <1>17 DEF StopChannels
<1>18. CASE UNCHANGED vars
  BY <1>18 DEF vars
<1> QED
  BY <1>1, <1>2, <1>3, <1>4, <1>5, <1>6, <1>7, <1>8, <1>9, <1>10, <1>11, <1>12, <1>13, <1>14, <1>15, <1>16, <1>17, <1>18
     DEF Next, Watcher, Reload, Shutdown

LEMMA StrayStep == TypeOK /\ HandInv /\ NoStrayChannel /\ [Next]_vars => NoStrayChannel'
<1> SUFFICES ASSUME TypeOK, HandInv, NoStrayChannel, [Next]_vars PROVE NoStrayChannel'
  OBVIOUS
<1> USE NoneAssumption DEF TypeOK, HandInv, Busy, Unused, Name, NoStrayChannel, fileVars, watcherVars, chVars, tableVars, stopVars, skipVars
<1>1. CASE Edit
  BY <1>1 DEF Edit
<1>2. CASE StartWatcher
  BY <1>2 DEF StartWatcher
<1>3. CASE Check
  BY <1>3 DEF Check
<1>4. CASE Load
  BY <1>4 DEF Load, Absent
<1>5. CASE LoadFails
  BY <1>5 DEF LoadFails
<1>6. CASE SkipName
  BY <1>6 DEF SkipName
<1>7. CASE StartChannel
  BY <1>7 DEF StartChannel, Build
<1>8. CASE SwapIn
  BY <1>8 DEF SwapIn
<1>9. CASE StartFails
  BY <1>9 DEF StartFails
<1>10. CASE Undone
  BY <1>10 DEF Undone, Drop
<1>11. CASE OldStopped
  BY <1>11 DEF OldStopped, Drop
<1>12. CASE CheckEnds
  BY <1>12 DEF CheckEnds, Rescheduled
<1>13. CASE Interrupted
  BY <1>13 DEF Interrupted
<1>14. CASE Swallowed
  BY <1>14 DEF Swallowed, Drop
<1>15. CASE StopWatcher
  BY <1>15 DEF StopWatcher, Waits
<1>16. CASE StopReturns
  BY <1>16 DEF StopReturns
<1>17. CASE StopChannels
  BY <1>17 DEF StopChannels
<1>18. CASE UNCHANGED vars
  BY <1>18 DEF vars
<1> QED
  BY <1>1, <1>2, <1>3, <1>4, <1>5, <1>6, <1>7, <1>8, <1>9, <1>10, <1>11, <1>12, <1>13, <1>14, <1>15, <1>16, <1>17, <1>18
     DEF Next, Watcher, Reload, Shutdown

LEMMA SnapshotStep == TypeOK /\ HandInv /\ SnapshotInv /\ [Next]_vars => SnapshotInv'
<1> SUFFICES ASSUME TypeOK, HandInv, SnapshotInv, [Next]_vars PROVE SnapshotInv'
  OBVIOUS
<1> USE NoneAssumption DEF TypeOK, HandInv, Busy, Unused, Name, SnapshotInv, Applied, Pending, Checking, fileVars, watcherVars, chVars, tableVars, stopVars, skipVars
<1>1. CASE Edit
  BY <1>1 DEF Edit
<1>2. CASE StartWatcher
  BY <1>2 DEF StartWatcher
<1>3. CASE Check
  BY <1>3 DEF Check
<1>4. CASE Load
  BY <1>4 DEF Load, Absent
<1>5. CASE LoadFails
  BY <1>5 DEF LoadFails
<1>6. CASE SkipName
  BY <1>6 DEF SkipName
<1>7. CASE StartChannel
  BY <1>7 DEF StartChannel, Build
<1>8. CASE SwapIn
  <2>1. /\ at = "starting" /\ Name \in Names /\ at' = "stopping"
        /\ version[hand] = cfg[Name] /\ hand' = table[Name]
        /\ UNCHANGED <<fileVars, unread, watcherVars, chVars, cronHb, refused, skippedHb>>
    BY <1>8 DEF SwapIn
  <2>2. /\ \A n \in Names : table'[n] = IF n = Name THEN hand ELSE table[n]
        /\ \A n \in Names : skipped'[n] = IF n = Name THEN {} ELSE skipped[n]
    BY <1>8 DEF SwapIn
  <2>3. name[table[Name]] = Name
    BY <2>1
  <2>4. ASSUME NEW n \in Names, table'[n] # None
        PROVE  /\ n \in todo => seen[n] = None \/ Applied(n, seen[n])'
               /\ n \notin todo => cfg[n] = None \/ Applied(n, cfg[n])'
    <3>1. CASE n = Name
      BY <2>1, <2>2, <2>3, <3>1
    <3>2. CASE n # Name
      BY <2>1, <2>2, <2>4, <3>2
    <3> QED
      BY <3>1, <3>2
  <2> QED
    BY <2>1, <2>3, <2>4
<1>9. CASE StartFails
  BY <1>9 DEF StartFails
<1>10. CASE Undone
  BY <1>10 DEF Undone, Drop
<1>11. CASE OldStopped
  BY <1>11 DEF OldStopped, Drop
<1>12. CASE CheckEnds
  BY <1>12 DEF CheckEnds, Rescheduled
<1>13. CASE Interrupted
  BY <1>13 DEF Interrupted
<1>14. CASE Swallowed
  BY <1>14 DEF Swallowed, Drop
<1>15. CASE StopWatcher
  BY <1>15 DEF StopWatcher, Waits
<1>16. CASE StopReturns
  BY <1>16 DEF StopReturns
<1>17. CASE StopChannels
  BY <1>17 DEF StopChannels
<1>18. CASE UNCHANGED vars
  BY <1>18 DEF vars
<1> QED
  BY <1>1, <1>2, <1>3, <1>4, <1>5, <1>6, <1>7, <1>8, <1>9, <1>10, <1>11, <1>12, <1>13, <1>14, <1>15, <1>16, <1>17, <1>18
     DEF Next, Watcher, Reload, Shutdown

LEMMA CInvStep == CInv /\ [Next]_vars => CInv'
BY TypeStep, HandStep, StrayStep, SnapshotStep DEF CInv

LEMMA CInvAlways == Spec => []CInv
BY CInvInit, CInvStep, PTL DEF Spec
-----------------------------------------------------------------------------
\* Every variable has its type in every reachable state.
THEOREM TypeCorrect == Spec => []TypeOK
<1>1. CInv => TypeOK
  BY DEF CInv
<1> QED
  BY <1>1, CInvAlways, PTL

\* Whatever is edited, refused and cancelled, the channels that are open are in the
\* table or in the hands of the reload, or were cut off; after the shutdown only
\* those that were cut off are.
THEOREM NoStrayChannelAlways == Spec => []NoStrayChannel
<1>1. CInv => NoStrayChannel
  BY DEF CInv
<1> QED
  BY <1>1, CInvAlways, PTL

\* When the watcher sleeps over a file it has read, channels run what the file says,
\* and the heartbeat has the job its section asks for, or none when that section has no
\* trigger; except for what the latest check could not start and what was passed over.
THEOREM SettledFollowsFileAlways == Spec => []SettledFollowsFile
<1>1. CInv => SettledFollowsFile
  <2> SUFFICES ASSUME CInv, at = "asleep", legible, ~unread
               PROVE  /\ \A n \in Names : Current(n)
                      /\ cronHb = Built(heartbeat) \/ skippedHb = heartbeat
    BY DEF SettledFollowsFile
  <2>1. ASSUME NEW n \in Names PROVE Current(n)
    <3>1. file[n] \in {None, seen[n]} \/ n \in refused
      BY NoneAssumption DEF CInv, SnapshotInv, TypeOK
    <3> QED
      BY <3>1 DEF CInv, SnapshotInv, Applied, Current
  <2>2. cronHb = Built(heartbeat) \/ skippedHb = heartbeat
    BY NoneAssumption DEF CInv, SnapshotInv, TypeOK
  <2> QED
    BY <2>1, <2>2
<1> QED
  BY <1>1, CInvAlways, PTL
================================================================================
