------------------------------ MODULE ChannelReload ------------------------------
(***************************************************************************)
(* The hot reload of channels: AgentConfigWatcher                          *)
(* (app/agent_config_watcher.py) polls agent.json, and for each channel    *)
(* whose section changed it clones the channel and has ChannelManager      *)
(* (app/channels/manager.py) start the clone, put it in the table and stop *)
(* the old one.  A changed heartbeat section makes the cron manager        *)
(* rebuild its heartbeat job.                                              *)
(*                                                                         *)
(* The file is edited by anybody at any moment, also between two           *)
(* statements of the watcher.  A cancelled task gets its CancelledError at *)
(* the await it waits in, and only there.  Of the shutdown of a workspace  *)
(* the module has what follows its watcher: the watcher is stopped, then   *)
(* the channels are.                                                       *)
(***************************************************************************)
EXTENDS Naturals, FiniteSets

CONSTANTS
  Names,      \* channel names
  Optional,   \* names of plug-in channels: their section may be missing, where a
              \*   built-in channel then has its default one
  Versions,   \* what the section of a channel may say
  Beats,      \* what the heartbeat section may say
  Broken,     \* the heartbeat sections no trigger can be built from ("99 * * * *")
  None,       \* no name, no section, no channel, no job
  Channels,   \* identities of channel objects
  First,      \* [Names -> Channels]: the objects the workspace starts with
  MaxEdits    \* bound: edits of the file

ASSUME NoneAssumption == None \notin Names \cup Versions \cup Beats \cup Channels
ASSUME OptionalAssumption == Optional \subseteq Names /\ Optional # Names
ASSUME BrokenAssumption == Broken \subseteq Beats
ASSUME FirstAssumption == /\ First \in [Names -> Channels]
                          /\ \A n, m \in Names : First[n] = First[m] => n = m
ASSUME MaxEditsAssumption == MaxEdits \in Nat

VARIABLES
  file,       \* [Names -> Versions or None]: the channels part of agent.json
  heartbeat,  \* the heartbeat section
  legible,    \* the file can be parsed
  unread,     \* its mtime differs from _last_mtime
  edits       \* edits so far

VARIABLES
  at,         \* where the watcher's task is
  seen,       \* [Names -> Versions or None]: _last_channels
  seenHb,     \* _last_heartbeat_hash
  cfg,        \* the configuration _check works on: the snapshot-to-be of its channels
  cfgHb,      \*   and its heartbeat
  todo,       \* names whose section differs and that are still to be looked at
  hand        \* the channel it starts, undoes or stops

VARIABLES
  table,      \* [Names -> Channels or None]: ChannelManager.channels
  name,       \* [Channels -> Names or None]: what a channel object is for
  version,    \* [Channels -> Versions or None]: the section it was built from
  open,       \* the channels that are started, or being started
  injected,   \* the channels with the workspace
  cronHb,     \* the heartbeat section the scheduler's job was built from, or None
  stop,       \* the shutdown: "no", "asked", "watched" (watcher gone), "stopped"
  cancelled   \* a CancelledError is on its way to the watcher's task

VARIABLES     \* history
  skipped,    \* [Names -> SUBSET Versions]: versions taken as applied that the
              \*   channel never ran
  refused,    \* names whose channel did not start in the latest check
  skippedHb,  \* heartbeat section taken as applied that the job was not built from
  cut         \* channels whose start or stop a cancellation has cut off

fileVars == <<file, heartbeat, legible, edits>>
watcherVars == <<seen, seenHb, cfg, cfgHb, todo>>
chVars == <<name, version, open, injected>>
tableVars == <<table, chVars>>
stopVars == <<stop, cancelled>>
skipVars == <<skipped, refused, skippedHb>>
vars == <<fileVars, unread, at, watcherVars, hand, tableVars, cronHb, stopVars,
          skipVars, cut>>

Places == {"off", "asleep", "loading", "channels", "starting", "undoing",
           "stopping", "ended"}

\* The places where the task waits for something.
Waits == {"asleep", "starting", "undoing", "stopping"}

\* What the channels part may say; all None where there is no such part at all.
Absent == [n \in Names |-> None]
Files == {f \in [Names -> Versions \cup {None}] :
            f = Absent \/ \A n \in Names \ Optional : f[n] # None}

\* The heartbeat job of a section.
Built(v) == IF v \in Broken THEN None ELSE v

Unused(c) == name[c] = None

\* A channel as from_config builds it: no workspace, about to be started.
Build(c, n, v) ==
  /\ name' = [name EXCEPT ![c] = n]
  /\ version' = [version EXCEPT ![c] = v]
  /\ open' = open \cup {c}
  /\ UNCHANGED injected

\* A channel that has stopped, and that nobody refers to any more.
Drop(c) ==
  /\ name' = [name EXCEPT ![c] = None]
  /\ version' = [version EXCEPT ![c] = None]
  /\ open' = open \ {c}
  /\ injected' = injected \ {c}

\* The name that the reload in progress is about.
Name == name[hand]

----------------------------------------------------------------------------
(* The file. *)

\* One section is changed, or the channels part taken out or put in, or the file
\* damaged or repaired; several edits may come between two checks.
Edit ==
  /\ edits < MaxEdits
  /\ edits' = edits + 1
  /\ unread' = TRUE
  /\ \/ /\ file' \in Files \ {file}
        /\ \/ Absent \in {file, file'}
           \/ \E n \in Names : file' = [file EXCEPT ![n] = file'[n]]
        /\ legible' = TRUE
        /\ UNCHANGED heartbeat
     \/ /\ heartbeat' \in Beats \ {heartbeat}
        /\ legible' = TRUE
        /\ UNCHANGED file
     \/ /\ legible' = ~legible
        /\ UNCHANGED <<file, heartbeat>>
  /\ UNCHANGED <<at, watcherVars, hand, tableVars, cronHb, stopVars, skipVars, cut>>

----------------------------------------------------------------------------
(* The watcher. *)

\* start: the file is taken as applied, though the channels were built from what
\* it said when the workspace read it.
StartWatcher ==
  /\ at = "off"
  /\ at' = "asleep"
  /\ unread' = FALSE
  /\ seen' = [n \in Names |-> IF legible THEN file[n] ELSE None]
  /\ seenHb' = IF legible THEN heartbeat ELSE None
  /\ skipped' = [n \in Names |-> {seen'[n]} \ {None}]
  /\ skippedHb' = seenHb'
  /\ UNCHANGED <<fileVars, cfg, cfgHb, todo, hand, tableVars, cronHb, stopVars,
                 refused, cut>>

\* _check: the mtime is noted before the file is read.
Check ==
  /\ at = "asleep"
  /\ ~cancelled
  /\ unread
  /\ unread' = FALSE
  /\ at' = "loading"
  /\ UNCHANGED <<fileVars, watcherVars, hand, tableVars, cronHb, stopVars, skipVars, cut>>

\* load_agent_config returns, and the sections that differ are found.  A section
\* that is gone changes nothing but the snapshot, and without a channels part that
\* is kept too.
Load ==
  /\ at = "loading"
  /\ legible
  /\ cfg' = IF file = Absent THEN seen ELSE file
  /\ cfgHb' = heartbeat
  /\ todo' = {n \in Names : file[n] \notin {None, seen[n]}}
  /\ at' = "channels"
  /\ refused' = {}
  /\ UNCHANGED <<fileVars, unread, seen, seenHb, hand, tableVars, cronHb, stopVars,
                 skipped, skippedHb, cut>>

\* Mutation of LoadFails: the exception ends the poll loop.
LoadFailsForGood ==
  /\ at = "loading"
  /\ ~legible
  /\ at' = "ended"
  /\ UNCHANGED <<fileVars, unread, watcherVars, hand, tableVars, cronHb, stopVars,
                 skipVars, cut>>

LoadFails ==
  /\ at = "loading"
  /\ ~legible
  /\ at' = "asleep"
  /\ UNCHANGED <<fileVars, unread, watcherVars, hand, tableVars, cronHb, stopVars,
                 skipVars, cut>>

\* A channel that was disabled when the workspace started is not in the table.
SkipName ==
  /\ at = "channels"
  /\ \E n \in todo :
       /\ table[n] = None
       /\ todo' = todo \ {n}
  /\ UNCHANGED <<fileVars, unread, at, seen, seenHb, cfg, cfgHb, hand, tableVars,
                 cronHb, stopVars, skipVars, cut>>

\* The channel is cloned with its new section, and the clone is started.
StartChannel ==
  /\ at = "channels"
  /\ \E c \in Channels : Unused(c)
  /\ hand' = CHOOSE c \in Channels : Unused(c)
  /\ \E n \in todo :
       /\ table[n] # None
       /\ Build(hand', n, cfg[n])
       /\ todo' = todo \ {n}
  /\ at' = "starting"
  /\ UNCHANGED <<fileVars, unread, seen, seenHb, cfg, cfgHb, table, cronHb, stopVars,
                 skipVars, cut>>

\* Mutation of SwapIn: the old channel is dropped without being stopped.
SwapInOnly ==
  /\ at = "starting"
  /\ ~cancelled
  /\ table' = [table EXCEPT ![Name] = hand]
  /\ hand' = None
  /\ at' = "channels"
  /\ skipped' = [skipped EXCEPT ![Name] = {}]
  /\ UNCHANGED <<fileVars, unread, watcherVars, chVars, cronHb, stopVars, refused,
                 skippedHb, cut>>

\* replace_channel: the new channel is up and takes the place of the old one,
\* which is being stopped.  Nothing injects the workspace into the new one.
SwapIn ==
  /\ at = "starting"
  /\ ~cancelled
  /\ table' = [table EXCEPT ![Name] = hand]
  /\ hand' = table[Name]
  /\ at' = "stopping"
  /\ skipped' = [skipped EXCEPT ![Name] = {}]
  /\ UNCHANGED <<fileVars, unread, watcherVars, chVars, cronHb, stopVars, refused,
                 skippedHb, cut>>

\* start raises, and the new channel is stopped.
StartFails ==
  /\ at = "starting"
  /\ ~cancelled
  /\ at' = "undoing"
  /\ UNCHANGED <<fileVars, unread, watcherVars, hand, tableVars, cronHb, stopVars,
                 skipVars, cut>>

\* Mutation of Undone: the entry of the snapshot is not reverted.
UndoneNotReverted ==
  /\ at = "undoing"
  /\ ~cancelled
  /\ Drop(hand)
  /\ hand' = None
  /\ at' = "channels"
  /\ refused' = refused \cup {Name}
  /\ skipped' = IF seen[Name] # None THEN skipped
                ELSE [skipped EXCEPT ![Name] = @ \cup {cfg[Name]}]
  /\ UNCHANGED <<fileVars, unread, watcherVars, table, cronHb, stopVars, skippedHb, cut>>

\* replace_channel raises, and _reload_one_channel reverts the snapshot's entry:
\* the section is compared again after the next edit.  Where the snapshot has no
\* entry the section is taken as applied.
Undone ==
  /\ at = "undoing"
  /\ ~cancelled
  /\ Drop(hand)
  /\ hand' = None
  /\ at' = "channels"
  /\ refused' = refused \cup {Name}
  /\ IF seen[Name] # None
       THEN cfg' = [cfg EXCEPT ![Name] = seen[Name]] /\ UNCHANGED skipped
       ELSE skipped' = [skipped EXCEPT ![Name] = @ \cup {cfg[Name]}] /\ UNCHANGED cfg
  /\ UNCHANGED <<fileVars, unread, seen, seenHb, cfgHb, todo, table, cronHb, stopVars,
                 skippedHb, cut>>

\* Mutation of OldStopped: the channel now in the table is stopped.
NewStopped ==
  /\ at = "stopping"
  /\ ~cancelled
  /\ Drop(table[Name])
  /\ hand' = None
  /\ at' = "channels"
  /\ UNCHANGED <<fileVars, unread, watcherVars, table, cronHb, stopVars, skipVars, cut>>

\* The old channel has stopped, or its stop has raised, which is logged.
OldStopped ==
  /\ at = "stopping"
  /\ ~cancelled
  /\ Drop(hand)
  /\ hand' = None
  /\ at' = "channels"
  /\ UNCHANGED <<fileVars, unread, watcherVars, table, cronHb, stopVars, skipVars, cut>>

\* reschedule_heartbeat reads the file again, which may have changed while channels
\* were reloaded; what cannot be parsed counts as the default section, here None.
Rescheduled == IF legible THEN heartbeat ELSE None

\* The end of _apply_channel_changes, and _apply_heartbeat_change: the hash is noted,
\* the job is removed, and the one of the new section added.  When its trigger cannot
\* be built the exception is logged and there is no job.
CheckEnds ==
  /\ at = "channels"
  /\ todo = {}
  /\ seen' = cfg
  /\ seenHb' = cfgHb
  /\ IF cfgHb # seenHb
       THEN /\ cronHb' = Built(Rescheduled)
            /\ skippedHb' = IF Rescheduled = cfgHb THEN None ELSE cfgHb
       ELSE UNCHANGED <<cronHb, skippedHb>>
  /\ at' = "asleep"
  /\ UNCHANGED <<fileVars, unread, cfg, cfgHb, todo, hand, tableVars, stopVars, skipped,
                 refused, cut>>

----------------------------------------------------------------------------
(* The shutdown of the workspace. *)

\* stop of the watcher: cancel, then wait for the task.
StopWatcher ==
  /\ stop = "no"
  /\ at \in Waits
  /\ stop' = "asked"
  /\ cancelled' = TRUE
  /\ UNCHANGED <<fileVars, unread, at, watcherVars, hand, tableVars, cronHb, skipVars,
                 cut>>

\* The CancelledError passes every handler, since it is no Exception: a channel
\* that is being started, or undone, is left as it is.
Interrupted ==
  /\ cancelled
  /\ at \in {"asleep", "starting", "undoing"}
  /\ cancelled' = FALSE
  /\ at' = "ended"
  /\ hand' = None
  /\ cut' = cut \cup ({hand} \ {None})
  /\ UNCHANGED <<fileVars, unread, watcherVars, tableVars, cronHb, stop, skipVars>>

\* replace_channel takes the CancelledError for one of the old channel's stop, and
\* goes on.  The old channel may have been stopped in spite of it.
Swallowed ==
  /\ cancelled
  /\ at = "stopping"
  /\ cancelled' = FALSE
  /\ at' = "channels"
  /\ hand' = None
  /\ \/ Drop(hand) /\ UNCHANGED cut
     \/ cut' = cut \cup {hand} /\ UNCHANGED chVars
  /\ UNCHANGED <<fileVars, unread, watcherVars, table, cronHb, stop, skipVars>>

\* The watcher's task has ended, and its stop returns.
StopReturns ==
  /\ stop = "asked"
  /\ at = "ended"
  /\ stop' = "watched"
  /\ UNCHANGED <<fileVars, unread, at, watcherVars, hand, tableVars, cronHb, cancelled,
                 skipVars, cut>>

\* stop_all of the channel manager stops what is in the table.
StopChannels ==
  /\ stop = "watched"
  /\ stop' = "stopped"
  /\ open' = open \ {table[n] : n \in Names}
  /\ UNCHANGED <<fileVars, unread, at, watcherVars, hand, table, name, version, injected,
                 cronHb, cancelled, skipVars, cut>>

----------------------------------------------------------------------------

\* The channel manager holds the channels that are enabled, started from the file
\* and with the workspace injected; the watcher is not started yet.  A workspace whose
\* heartbeat has no trigger does not start.
Init ==
  /\ file \in Files
  /\ heartbeat \in Beats \ Broken
  /\ legible = TRUE /\ unread = FALSE /\ edits = 0
  /\ at = "off"
  /\ seen = [n \in Names |-> None] /\ seenHb = None
  /\ cfg = file /\ cfgHb = heartbeat /\ todo = {} /\ hand = None
  /\ \E enabled \in SUBSET {n \in Names : file[n] # None} :
       /\ table = [n \in Names |-> IF n \in enabled THEN First[n] ELSE None]
       /\ name = [c \in Channels |-> IF \E n \in enabled : First[n] = c
                                       THEN CHOOSE n \in enabled : First[n] = c
                                       ELSE None]
       /\ open = {First[n] : n \in enabled}
  /\ version = [c \in Channels |-> IF name[c] = None THEN None ELSE file[name[c]]]
  /\ injected = open
  /\ cronHb = heartbeat
  /\ stop = "no" /\ cancelled = FALSE
  /\ skipped = [n \in Names |-> {}] /\ refused = {} /\ skippedHb = None
  /\ cut = {}

Reload ==
  SkipName \/ StartChannel \/ SwapIn \/ StartFails \/ Undone \/ OldStopped

Watcher == Check \/ Load \/ LoadFails \/ Reload \/ CheckEnds \/ Interrupted \/ Swallowed

Shutdown == StopWatcher \/ StopReturns \/ StopChannels

Next == Edit \/ StartWatcher \/ Watcher \/ Shutdown

\* The event loop runs the watcher and the shutdown once it is asked for; a
\* channel's start and stop end, one way or the other.
Fairness == WF_vars(Watcher) /\ WF_vars(StopReturns) /\ WF_vars(StopChannels)

Spec == Init /\ [][Next]_vars /\ Fairness

----------------------------------------------------------------------------
(* Properties. *)

\* The types of the variables; what the watcher has in hand is a channel that was
\* built (_reload_one_channel, replace_channel).
TypeOK ==
  /\ file \in Files /\ heartbeat \in Beats
  /\ legible \in BOOLEAN /\ unread \in BOOLEAN /\ edits \in 0 .. MaxEdits
  /\ at \in Places
  /\ seen \in [Names -> Versions \cup {None}] /\ seenHb \in Beats \cup {None}
  /\ cfg \in [Names -> Versions \cup {None}] /\ cfgHb \in Beats
  /\ todo \subseteq Names
  /\ hand \in Channels \cup {None}
  /\ at \in {"starting", "undoing", "stopping"} => hand # None
  /\ table \in [Names -> Channels \cup {None}]
  /\ name \in [Channels -> Names \cup {None}]
  /\ version \in [Channels -> Versions \cup {None}]
  /\ open \subseteq Channels /\ injected \subseteq Channels
  /\ hand # None => ~Unused(hand)
  /\ \A n \in Names : table[n] # None => name[table[n]] = n
  /\ cronHb \in Beats \cup {None}
  /\ stop \in {"no", "asked", "watched", "stopped"} /\ cancelled \in BOOLEAN
  /\ skipped \in [Names -> SUBSET Versions] /\ refused \subseteq Names
  /\ skippedHb \in Beats \cup {None}
  /\ cut \subseteq Channels

\* A channel runs what the file says of it, if anything, unless the latest check could
\* not start it with that, or that was passed over: there when the watcher started.
Current(n) ==
  table[n] # None /\ file[n] # None =>
                     \/ version[table[n]] = file[n]
                     \/ n \in refused
                     \/ file[n] \in skipped[n]

\* When the watcher sleeps and has read the file, every channel runs what the file
\* says, and the heartbeat job is the one its section asks for, or there is none when
\* no trigger can be built from that: whatever was edited, removed, broken, refused or
\* retried before, except what that check could not start or an earlier one passed
\* over (_check, _reload_one_channel, _apply_channel_changes, _apply_heartbeat_change).
SettledFollowsFile ==
  at = "asleep" /\ legible /\ ~unread =>
    /\ \A n \in Names : Current(n)
    /\ cronHb = Built(heartbeat) \/ skippedHb = heartbeat

\* A channel that is open is the one in the table, or in the hands of the reload,
\* or one whose start or stop was cut off by the shutdown; after the shutdown only
\* the last kind is (replace_channel, stop_all).
NoStrayChannel ==
  /\ \A c \in open \ (cut \cup {hand}) : \E n \in Names : table[n] = c
  /\ stop = "stopped" => open \subseteq cut

\* An edit is applied in the end, or passed over, unless the file cannot be parsed
\* or the workspace stops (_poll_loop).
EditTakesEffect ==
  \A n \in Names :
    at # "off" /\ ~Current(n) ~> Current(n) \/ ~legible \/ stop # "no"

\* The workspace is injected into all channels (service_factories.py:101).
InjectedEverywhere ==
  \A n \in Names : table[n] # None => table[n] \in injected

\* Stopping the polling task ends (agent_config_watcher.py:87).
StopEnds == stop = "asked" ~> stop # "asked"

==================================================================================
