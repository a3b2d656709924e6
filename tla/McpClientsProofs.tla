---------------------------- MODULE McpClientsProofs ----------------------------
(***************************************************************************)
(* Types, and no server that is lost silently, for any keys, versions,     *)
(* clients, edits and losses.                                              *)
(***************************************************************************)
EXTENDS McpClients, TLAPS

\* The changing task has a client in hand exactly at the steps that await one, and
\* there is no such task once the watcher has stopped, hence during the shutdown;
\* before that nothing is being closed.
TaskInv ==
  /\ task = "choose" => hand = None
  /\ task \notin {"none", "choose"} => hand # None
  /\ watcher = "stopped" => task = "none"
  /\ shutdown # "no" => watcher = "stopped"
  /\ shutdown = "no" => closing = {}

MInv == TypeOK /\ TaskInv /\ NoSilentLeak
-----------------------------------------------------------------------------
LEMMA MInvInit == Init => MInv
<1> SUFFICES ASSUME Init PROVE MInv
  OBVIOUS
<1>1. TypeOK
  <2>1. key \in Keys
    BY KeysAssumption DEF Init
  <2>2. file \in Configs /\ target \in Configs
    BY ConfigAssumption DEF Init
  <2>3. fails \in [Keys -> [count : Nat, of : Versions \cup {Off}]]
    BY DEF Init
  <2>4. applied = AllOff /\ edits = 0 /\ losses = 0 /\ built = 0
    BY DEF Init
  <2>5. edits \in 0 .. MaxEdits /\ losses \in 0 .. MaxLosses /\ built \in 0 .. NClients
    BY <2>4, BoundAssumption
  <2>6. /\ version \in [Clients -> Versions \cup {Off}] /\ life \in [Clients -> LifeSteps]
        /\ stop \in [Clients -> BOOLEAN]
        /\ lost \in [Clients -> {"no", "unclosed", "interrupted"}]
        /\ table \in [Keys -> Clients \cup {None}]
    BY DEF Init, LifeSteps
  <2>7. /\ dirty \in BOOLEAN /\ watcher \in WatcherStates /\ task \in TaskSteps
        /\ todo \subseteq Keys /\ hand = None /\ woken \in BOOLEAN
        /\ shutdown \in {"no", "closing", "done"} /\ closing \subseteq Clients
        /\ last = None /\ request \in BOOLEAN
    BY DEF Init, WatcherStates, TaskSteps
  <2> QED
    BY <2>1, <2>2, <2>3, <2>4, <2>5, <2>6, <2>7 DEF TypeOK
<1>2. TaskInv
  BY DEF Init, TaskInv
<1>3. NoSilentLeak
  BY DEF Init, NoSilentLeak, Alive
<1> QED
  BY <1>1, <1>2, <1>3 DEF MInv
-----------------------------------------------------------------------------
LEMMA NoneIsNoClient == None \notin Clients
BY DEF None, Clients

LEMMA KeyDoneType ==
  ASSUME TypeOK, NEW k \in Keys, KeyDone(k)
  PROVE  fails' \in [Keys -> [count : Nat, of : Versions \cup {Off}]]
BY DEF TypeOK, KeyDone

LEMMA KeyFailedType ==
  ASSUME TypeOK, NEW k \in Keys, KeyFailed(k)
  PROVE  fails' \in [Keys -> [count : Nat, of : Versions \cup {Off}]]
<1>1. target[k] \in Versions \cup {Off}
  BY ConfigAssumption DEF TypeOK
<1>2. fails[k].count + 1 \in Nat
  BY DEF TypeOK
<1>3. CASE Starting
  BY <1>3 DEF TypeOK, KeyFailed
<1>4. CASE ~Starting
  <2>1. PICK n \in Nat : fails' = [fails EXCEPT ![k] = [count |-> n, of |-> target[k]]]
    BY <1>2, <1>4 DEF KeyFailed
  <2> QED
    BY <1>1, <2>1 DEF TypeOK
<1> QED
  BY <1>3, <1>4

LEMMA CloseType ==
  ASSUME TypeOK, NEW c \in Clients \cup {None}, CloseBegins(c)
  PROVE  /\ stop' \in [Clients -> BOOLEAN]
         /\ lost' \in [Clients -> {"no", "unclosed", "interrupted"}]
BY DEF TypeOK, CloseBegins

\* After close, a client whose lifecycle task runs is awaited or marked as lost;
\* no mark is taken away.
LEMMA CloseMarks ==
  ASSUME TypeOK, NEW c \in Clients \cup {None}, CloseBegins(c), NEW d \in Clients,
         lost'[d] = "no"
  PROVE  lost[d] = "no" /\ (d = c /\ Alive(d) => Awaited(c))
BY NoneIsNoClient DEF TypeOK, CloseBegins, Awaited

LEMMA TypeStep == TypeOK /\ TaskInv /\ [Next]_vars => TypeOK'
<1> SUFFICES ASSUME TypeOK, TaskInv, [Next]_vars PROVE TypeOK'
  OBVIOUS
<1> USE ConfigAssumption, BoundAssumption
        DEF TypeOK, TaskInv, WatcherStates, TaskSteps, LifeSteps, Clients, None,
            watching, changer, objects, ending
<1>1. ASSUME NEW c \in Clients, LoopTop(c) PROVE TypeOK'
  BY <1>1 DEF LoopTop
<1>2. ASSUME NEW c \in Clients, Connected(c) PROVE TypeOK'
  BY <1>2 DEF Connected
<1>3. ASSUME NEW c \in Clients, Refused(c) PROVE TypeOK'
  BY <1>3 DEF Refused
<1>4. ASSUME NEW c \in Clients, Broken(c) PROVE TypeOK'
  BY <1>4 DEF Broken
<1>5. ASSUME NEW c \in Clients, SeeStop(c) PROVE TypeOK'
  BY <1>5 DEF SeeStop
<1>6. ASSUME NEW c \in Clients, RetryLater(c) PROVE TypeOK'
  BY <1>6 DEF RetryLater
<1>7. CASE HandleKey
  <2>1. PICK k \in todo : /\ todo' = todo \ {k}
                          /\ key' = k
                          /\ RemoveKey(k) \/ ConnectKey(k) \/ KeepKey(k)
    BY <1>7 DEF HandleKey
  <2>2. k \in Keys /\ todo' \subseteq Keys /\ key' \in Keys
    BY <2>1
  <2>3. UNCHANGED <<file, dirty, watcher, applied, target, losses, ending, request, edits>>
    BY <1>7 DEF HandleKey
  <2>4. CASE RemoveKey(k)
    <3>1. /\ table' \in [Keys -> Clients \cup {None}]
          /\ UNCHANGED <<woken, built, version, life>>
      BY <2>4 DEF RemoveKey
    <3>2. /\ stop' \in [Clients -> BOOLEAN]
          /\ lost' \in [Clients -> {"no", "unclosed", "interrupted"}]
      BY <2>2, <2>4, CloseType DEF RemoveKey
    <3>3. /\ fails' \in [Keys -> [count : Nat, of : Versions \cup {Off}]]
          /\ task' \in TaskSteps /\ hand' \in Clients \cup {None}
      BY <2>2, <2>4, KeyDoneType DEF RemoveKey, KeyDone
    <3> QED
      BY <2>2, <2>3, <3>1, <3>2, <3>3
  <2>5. CASE ConnectKey(k)
    <3>1. target[k] \in Versions \cup {Off}
      BY <2>2
    <3>2. /\ built < NClients /\ built' = built + 1 /\ hand' = built'
          /\ version' = [version EXCEPT ![built'] = target[k]]
          /\ life' = [life EXCEPT ![built'] = "top"]
          /\ task' = "connect" /\ woken' = FALSE
          /\ UNCHANGED <<table, stop, lost, fails>>
      BY <2>5 DEF ConnectKey
    <3>3. built' \in 0 .. NClients /\ hand' \in Clients
      BY <3>2
    <3>4. version' \in [Clients -> Versions \cup {Off}] /\ life' \in [Clients -> LifeSteps]
      BY <3>1, <3>2
    <3> QED
      BY <2>2, <2>3, <3>2, <3>3, <3>4
  <2>6. CASE KeepKey(k)
    BY <2>2, <2>3, <2>6 DEF KeepKey
  <2> QED
    BY <2>1, <2>4, <2>5, <2>6
<1>8. CASE Swap
  <2>1. /\ table' \in [Keys -> Clients \cup {None}] /\ woken' = FALSE
        /\ UNCHANGED <<file, dirty, watcher, applied, edits, target, todo, key,
                       built, version, life, losses, ending, request>>
    BY <1>8 DEF Swap
  <2>2. /\ stop' \in [Clients -> BOOLEAN]
        /\ lost' \in [Clients -> {"no", "unclosed", "interrupted"}]
    BY <1>8, CloseType DEF Swap
  <2>3. /\ fails' \in [Keys -> [count : Nat, of : Versions \cup {Off}]]
        /\ task' \in TaskSteps /\ hand' \in Clients \cup {None}
    BY <1>8, KeyDoneType DEF Swap, KeyDone
  <2> QED
    BY <2>1, <2>2, <2>3
<1>9. CASE ConnectTimeout
  BY <1>9 DEF ConnectTimeout
<1>10. CASE ConnectFails
  <2>1. /\ life' \in [Clients -> LifeSteps]
        /\ UNCHANGED <<file, dirty, watcher, applied, edits, target, todo, key, woken,
                       table, built, version, stop, lost, losses, ending, request>>
    BY <1>10 DEF ConnectFails, Cancelled
  <2>2. /\ fails' \in [Keys -> [count : Nat, of : Versions \cup {Off}]]
        /\ task' = "choose" /\ hand' = None
    BY <1>10, KeyFailedType DEF ConnectFails, KeyFailed
  <2> QED
    BY <2>1, <2>2
<1>11. CASE OldClosed
  BY <1>11 DEF OldClosed, KeyDone
<1>12. CASE TaskEnds
  BY <1>12 DEF TaskEnds
<1>13. CASE Edit
  BY <1>13 DEF Edit
<1>14. CASE StartWatcher
  BY <1>14 DEF StartWatcher
<1>15. CASE Check
  BY <1>15 DEF Check
<1>16. CASE StopWatcher
  BY <1>16 DEF StopWatcher
<1>17. CASE StopWaits
  BY <1>17 DEF StopWaits
<1>18. CASE StopCancels
  BY <1>18 DEF StopCancels, Cancelled
<1>19. CASE CloseAll
  BY <1>19 DEF CloseAll
<1>20. CASE CloseNext
  BY <1>20 DEF CloseNext, CloseBegins, Awaited
<1>21. CASE CloseEnds
  BY <1>21 DEF CloseEnds
<1>22. CASE Ask
  BY <1>22 DEF Ask
<1>23. CASE Answer
  BY <1>23 DEF Answer
<1>24. CASE UNCHANGED vars
  BY <1>24 DEF vars
<1> QED
  BY <1>1, <1>2, <1>3, <1>4, <1>5, <1>6, <1>7, <1>8, <1>9, <1>10, <1>11, <1>12, <1>13,
     <1>14, <1>15, <1>16, <1>17, <1>18, <1>19, <1>20, <1>21, <1>22, <1>23, <1>24
     DEF Next, Lifecycle, Server, Change, Stopping, Closing

LEMMA TaskStep == TypeOK /\ TaskInv /\ [Next]_vars => TaskInv'
<1> SUFFICES ASSUME TypeOK, TaskInv, [Next]_vars PROVE TaskInv'
  OBVIOUS
<1> USE DEF TypeOK, TaskInv, Starting, Clients, None, watching, changer, objects, ending
<1>1. ASSUME NEW c \in Clients, LoopTop(c) PROVE TaskInv'
  BY <1>1 DEF LoopTop
<1>2. ASSUME NEW c \in Clients, Connected(c) PROVE TaskInv'
  BY <1>2 DEF Connected
<1>3. ASSUME NEW c \in Clients, Refused(c) PROVE TaskInv'
  BY <1>3 DEF Refused
<1>4. ASSUME NEW c \in Clients, Broken(c) PROVE TaskInv'
  BY <1>4 DEF Broken
<1>5. ASSUME NEW c \in Clients, SeeStop(c) PROVE TaskInv'
  BY <1>5 DEF SeeStop
<1>6. ASSUME NEW c \in Clients, RetryLater(c) PROVE TaskInv'
  BY <1>6 DEF RetryLater
<1>7. CASE HandleKey
  BY <1>7 DEF HandleKey, RemoveKey, ConnectKey, KeepKey, CloseBegins, Awaited, KeyDone
<1>8. CASE Swap
  BY <1>8 DEF Swap, CloseBegins, Awaited, KeyDone
<1>9. CASE ConnectTimeout
  BY <1>9 DEF ConnectTimeout
<1>10. CASE ConnectFails
  BY <1>10 DEF ConnectFails, Cancelled, KeyFailed
<1>11. CASE OldClosed
  BY <1>11 DEF OldClosed, KeyDone
<1>12. CASE TaskEnds
  BY <1>12 DEF TaskEnds
<1>13. CASE Edit
  BY <1>13 DEF Edit
<1>14. CASE StartWatcher
  BY <1>14 DEF StartWatcher
<1>15. CASE Check
  BY <1>15 DEF Check
<1>16. CASE StopWatcher
  BY <1>16 DEF StopWatcher
<1>17. CASE StopWaits
  BY <1>17 DEF StopWaits
<1>18. CASE StopCancels
  BY <1>18 DEF StopCancels, Cancelled
<1>19. CASE CloseAll
  BY <1>19 DEF CloseAll
<1>20. CASE CloseNext
  BY <1>20 DEF CloseNext, CloseBegins, Awaited
<1>21. CASE CloseEnds
  BY <1>21 DEF CloseEnds
<1>22. CASE Ask
  BY <1>22 DEF Ask
<1>23. CASE Answer
  BY <1>23 DEF Answer
<1>24. CASE UNCHANGED vars
  BY <1>24 DEF vars
<1> QED
  BY <1>1, <1>2, <1>3, <1>4, <1>5, <1>6, <1>7, <1>8, <1>9, <1>10, <1>11, <1>12, <1>13,
     <1>14, <1>15, <1>16, <1>17, <1>18, <1>19, <1>20, <1>21, <1>22, <1>23, <1>24
     DEF Next, Lifecycle, Server, Change, Stopping, Closing

LEMMA LeakStep == TypeOK /\ TaskInv /\ NoSilentLeak /\ [Next]_vars => NoSilentLeak'
<1> SUFFICES ASSUME TypeOK, TaskInv, NoSilentLeak, [Next]_vars PROVE NoSilentLeak'
  OBVIOUS
<1> USE NoneIsNoClient DEF TypeOK, TaskInv, NoSilentLeak, Owned, Alive, IsConnected, LifeSteps, None, watching, changer, objects, ending
<1>1. ASSUME NEW c \in Clients, LoopTop(c) PROVE NoSilentLeak'
  BY <1>1 DEF LoopTop
<1>2. ASSUME NEW c \in Clients, Connected(c) PROVE NoSilentLeak'
  BY <1>2 DEF Connected
<1>3. ASSUME NEW c \in Clients, Refused(c) PROVE NoSilentLeak'
  BY <1>3 DEF Refused
<1>4. ASSUME NEW c \in Clients, Broken(c) PROVE NoSilentLeak'
  BY <1>4 DEF Broken
<1>5. ASSUME NEW c \in Clients, SeeStop(c) PROVE NoSilentLeak'
  BY <1>5 DEF SeeStop
<1>6. ASSUME NEW c \in Clients, RetryLater(c) PROVE NoSilentLeak'
  BY <1>6 DEF RetryLater
<1>7. CASE HandleKey
  <2>1. PICK k \in todo : RemoveKey(k) \/ ConnectKey(k) \/ KeepKey(k)
    BY <1>7 DEF HandleKey
  <2>2. k \in Keys /\ task = "choose" /\ hand = None /\ UNCHANGED ending
    BY <1>7, <2>1 DEF HandleKey
  <2> SUFFICES ASSUME NEW d \in Clients, Alive(d)', lost'[d] = "no" PROVE Owned(d)'
    OBVIOUS
  <2>3. CASE RemoveKey(k)
    <3>1. life' = life /\ table' = [table EXCEPT ![k] = None] /\ CloseBegins(table[k])
      BY <2>3 DEF RemoveKey
    <3>2. lost[d] = "no" /\ (d = table[k] /\ Alive(d) => Awaited(table[k]))
      BY <2>2, <3>1, CloseMarks
    <3>3. CASE d = table[k]
      BY <2>3, <3>1, <3>2, <3>3 DEF RemoveKey
    <3>4. CASE d # table[k]
      <4>1. Owned(d)
        BY <3>1, <3>2
      <4> QED
        BY <2>2, <3>1, <3>4, <4>1
    <3> QED
      BY <3>3, <3>4
  <2>4. CASE ConnectKey(k)
    <3>1. /\ hand' = built' /\ task' = "connect" /\ table' = table /\ lost' = lost
          /\ life' = [life EXCEPT ![built'] = "top"]
      BY <2>4 DEF ConnectKey
    <3>2. CASE d = built'
      BY <3>1, <3>2
    <3>3. CASE d # built'
      BY <2>2, <3>1, <3>3
    <3> QED
      BY <3>2, <3>3
  <2>5. CASE KeepKey(k)
    BY <2>2, <2>5 DEF KeepKey
  <2> QED
    BY <2>1, <2>3, <2>4, <2>5
<1>8. CASE Swap
  BY <1>8 DEF Swap, CloseBegins, Awaited, KeyDone
<1>9. CASE ConnectTimeout
  BY <1>9 DEF ConnectTimeout
<1>10. CASE ConnectFails
  BY <1>10 DEF ConnectFails, Cancelled, KeyFailed
<1>11. CASE OldClosed
  BY <1>11 DEF OldClosed, KeyDone
<1>12. CASE TaskEnds
  BY <1>12 DEF TaskEnds
<1>13. CASE Edit
  BY <1>13 DEF Edit
<1>14. CASE StartWatcher
  BY <1>14 DEF StartWatcher
<1>15. CASE Check
  BY <1>15 DEF Check
<1>16. CASE StopWatcher
  BY <1>16 DEF StopWatcher
<1>17. CASE StopWaits
  BY <1>17 DEF StopWaits
<1>18. CASE StopCancels
  <2> SUFFICES ASSUME NEW d \in Clients, Alive(d)', lost'[d] = "no" PROVE Owned(d)'
    OBVIOUS
  <2>1. table' = table /\ shutdown' = shutdown /\ closing' = closing /\ last' = last
    BY <1>18 DEF StopCancels
  <2>2. d # hand
    BY <1>18 DEF StopCancels, Cancelled, TaskSteps
  <2>3. Alive(d) /\ lost[d] = "no"
    BY <1>18, <2>2 DEF StopCancels
  <2> QED
    BY <2>1, <2>2, <2>3
<1>19. CASE CloseAll
  <2>1. /\ closing' = {table[k] : k \in Keys} \ {None} /\ shutdown = "no" /\ task = "none"
        /\ life' = life /\ lost' = lost /\ last' = last
    BY <1>19 DEF CloseAll
  <2> SUFFICES ASSUME NEW d \in Clients, Alive(d), lost[d] = "no" PROVE Owned(d)'
    BY <2>1
  <2>2. (\E k \in Keys : table[k] = d) \/ d \in closing \/ last = d
    BY <2>1
  <2>3. closing = {}
    BY <2>1
  <2> QED
    BY <2>1, <2>2, <2>3
<1>20. CASE CloseNext
  <2>1. PICK c \in closing : /\ closing' = closing \ {c}
                             /\ CloseBegins(c)
                             /\ last' = IF Awaited(c) THEN c ELSE None
    BY <1>20 DEF CloseNext
  <2>2. /\ last # None => ~Alive(last)
        /\ task = "none" /\ shutdown # "no" /\ life' = life
    BY <1>20 DEF CloseNext
  <2> SUFFICES ASSUME NEW d \in Clients, Alive(d), lost'[d] = "no" PROVE Owned(d)'
    BY <2>2
  <2>3. lost[d] = "no" /\ (d = c /\ Alive(d) => Awaited(c))
    BY <2>1, CloseMarks
  <2>4. d \in closing
    BY <2>2, <2>3
  <2> QED
    BY <2>1, <2>3, <2>4
<1>21. CASE CloseEnds
  BY <1>21 DEF CloseEnds
<1>22. CASE Ask
  BY <1>22 DEF Ask
<1>23. CASE Answer
  BY <1>23 DEF Answer
<1>24. CASE UNCHANGED vars
  BY <1>24 DEF vars
<1> QED
  BY <1>1, <1>2, <1>3, <1>4, <1>5, <1>6, <1>7, <1>8, <1>9, <1>10, <1>11, <1>12, <1>13,
     <1>14, <1>15, <1>16, <1>17, <1>18, <1>19, <1>20, <1>21, <1>22, <1>23, <1>24
     DEF Next, Lifecycle, Server, Change, Stopping, Closing

LEMMA MInvStep == MInv /\ [Next]_vars => MInv'
BY TypeStep, TaskStep, LeakStep DEF MInv

LEMMA MInvAlways == Spec => []MInv
BY MInvInit, MInvStep, PTL DEF Spec
-----------------------------------------------------------------------------
\* Every variable has its type in every reachable state.
THEOREM TypeCorrect == Spec => []TypeOK
<1>1. MInv => TypeOK
  BY DEF MInv
<1> QED
  BY <1>1, MInvAlways, PTL

\* However reloads, lost connections, timeouts and the shutdown interleave, a client
\* that has or seeks a server is owned, or was let go of in one of the two ways
\* that the code has.
THEOREM NoSilentLeakAlways == Spec => []NoSilentLeak
<1>1. MInv => NoSilentLeak
  BY DEF MInv
<1> QED
  BY <1>1, MInvAlways, PTL
================================================================================
