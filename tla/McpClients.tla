----------------------------- MODULE McpClients -----------------------------
(***************************************************************************)
(* The MCP clients of one agent: the client objects, each with a lifecycle *)
(* task that connects, keeps and reconnects its server                     *)
(* (copaw/app/mcp/stateful_client.py), the manager that owns them          *)
(* (copaw/app/mcp/manager.py) and the watcher that applies an edited       *)
(* configuration in a background task (copaw/app/mcp/watcher.py).          *)
(*                                                                         *)
(* One task at a time changes the manager's table: the start of the        *)
(* workspace, then one reload task after the other.  Only a replacement    *)
(* holds the manager's lock across an await.  All run on one event loop.   *)
(***************************************************************************)
EXTENDS Naturals, FiniteSets

CONSTANTS
  Keys,       \* the clients' names in the configuration
  Versions,   \* the configurations that an enabled client can have
  Off,        \* absent from the configuration, or disabled
  Configs,    \* the configurations that agent.json can hold
  Initial,    \* those at the start of the workspace
  NClients,   \* bound: client objects built
  MaxEdits,   \* bound: edits of agent.json
  MaxLosses   \* bound: established connections that break

ASSUME KeysAssumption == Keys # {}
ASSUME OffAssumption == Off \notin Versions
ASSUME BoundAssumption == {NClients, MaxEdits, MaxLosses} \subseteq Nat

Clients == 1 .. NClients
None == 0
AllOff == [k \in Keys |-> Off]

ASSUME ConfigAssumption ==
  /\ Initial \subseteq Configs
  /\ Configs \subseteq [Keys -> Versions \cup {Off}]

VARIABLES
  file,     \* the MCP section of agent.json
  dirty,    \* the file's mtime differs from _last_mtime
  watcher,  \* "absent" until the workspace starts it, then see WatcherStates
  applied,  \* _last_mcp: the configuration of the last reload that ended
  fails,    \* _client_failures: how often in a row, and with which configuration
  task,     \* what the task that changes the table awaits, see TaskSteps
  target,   \* the configuration it applies
  todo,     \* the keys it still has to handle
  key,      \* the key it handles
  hand,     \* the client it connects or closes
  woken,    \* the ready event it waits for has been set
  table,    \* _clients of the manager
  built,    \* how many client objects exist
  version,  \* version[c]: the configuration client c was built from
  life,     \* life[c]: where its lifecycle task is, see LifeSteps
  stop,     \* stop[c]: its _stop_event
  lost,     \* history, lost[c]: who let go of c without stopping it
  shutdown, \* close_all: "no", "closing" or "done"
  closing,  \* the clients it still has to close
  last,     \* the client it awaits
  request,  \* a request is waiting in get_clients
  edits, losses

watching == <<file, dirty, watcher, applied, fails, edits>>
changer == <<task, target, todo, key, hand, woken>>
objects == <<built, version, life, stop, lost, losses>>
ending == <<shutdown, closing, last>>
vars == <<file, dirty, watcher, applied, fails, task, target, todo, key, hand,
          woken, table, built, version, life, stop, lost, shutdown, closing,
          last, request, edits, losses>>

WatcherStates == {"absent", "polling", "stopping", "stopped"}
\* "choose" is between two keys; "join" awaits the lifecycle task of a client
\* that did not connect in time; the two closes await that of an old client.
TaskSteps == {"none", "choose", "connect", "join", "closeReplaced", "closeRemoved"}
\* "top" is the test of the loop, "leave" the exit of the context, "retry" the
\* second after an exception; "cut": cancelled while connected.
LifeSteps == {"unbuilt", "top", "connecting", "up", "leave", "retry", "ended", "cut"}

\* is_connected: only the lifecycle task resets it, and not when cancelled.
IsConnected(c) == life[c] \in {"up", "cut"}
\* The lifecycle task runs, so the client has or seeks a server.
Alive(c) == life[c] \in {"top", "connecting", "up", "leave", "retry"}
\* What a cancelled lifecycle task leaves.
Cancelled(c) == IF life[c] = "up" THEN "cut" ELSE IF Alive(c) THEN "ended" ELSE life[c]
\* The manager's lock is held across an await only by a swap.
Locked == task = "closeReplaced"
Starting == watcher = "absent"
-----------------------------------------------------------------------------
(* The lifecycle task of a client                                          *)

LoopTop(c) ==
  /\ life[c] = "top"
  /\ life' = [life EXCEPT ![c] = IF stop[c] THEN "ended" ELSE "connecting"]
  /\ UNCHANGED <<watching, changer, table, built, version, stop, lost, losses, ending, request>>

\* The server answers: is_connected is set, and whoever waits for ready wakes.
Connected(c) ==
  /\ life[c] = "connecting"
  /\ life' = [life EXCEPT ![c] = "up"]
  /\ woken' = (woken \/ (task = "connect" /\ hand = c))
  /\ UNCHANGED <<watching, task, target, todo, key, hand, table, built, version,
                 stop, lost, losses, ending, request>>

Refused(c) ==
  /\ life[c] = "connecting"
  /\ life' = [life EXCEPT ![c] = "retry"]
  /\ UNCHANGED <<watching, changer, table, built, version, stop, lost, losses, ending, request>>

\* The server dies under an established session.
Broken(c) ==
  /\ life[c] = "up" /\ losses < MaxLosses
  /\ life' = [life EXCEPT ![c] = "retry"]
  /\ losses' = losses + 1
  /\ UNCHANGED <<watching, changer, table, built, version, stop, lost, ending, request>>

\* Mutation of SeeStop: a client that reconnects forgets the request to stop.
StopForgotten(c) ==
  /\ life[c] \in {"up", "leave"}
  /\ life[c] = "up" => stop[c]
  /\ life' = [life EXCEPT ![c] = IF @ = "up" THEN "leave" ELSE "top"]
  /\ stop' = [stop EXCEPT ![c] = FALSE]
  /\ UNCHANGED <<watching, changer, table, built, version, lost, losses, ending, request>>

\* The poll of the stop event ends the wait, then the context exits.
SeeStop(c) ==
  /\ life[c] \in {"up", "leave"}
  /\ life[c] = "up" => stop[c]
  /\ life' = [life EXCEPT ![c] = IF @ = "up" THEN "leave" ELSE "top"]
  /\ UNCHANGED <<watching, changer, table, built, version, stop, lost, losses, ending, request>>

RetryLater(c) ==
  /\ life[c] = "retry"
  /\ life' = [life EXCEPT ![c] = "top"]
  /\ UNCHANGED <<watching, changer, table, built, version, stop, lost, losses, ending, request>>
-----------------------------------------------------------------------------
(* The task that changes the table                                         *)

\* close of client c: it does nothing unless c is connected.
CloseBegins(c) ==
  IF c # None /\ IsConnected(c)
    THEN stop' = [stop EXCEPT ![c] = TRUE] /\ UNCHANGED lost
    ELSE /\ lost' = IF c # None /\ Alive(c) THEN [lost EXCEPT ![c] = "unclosed"] ELSE lost
         /\ UNCHANGED stop
Awaited(c) == c # None /\ IsConnected(c)

\* The reload of one key is over, and its failures are forgotten.
KeyDone(k) ==
  /\ task' = "choose"
  /\ hand' = None
  /\ fails' = [fails EXCEPT ![k] = [count |-> 0, of |-> Off]]

\* _track_client_failure.
KeyFailed(k) ==
  /\ task' = "choose"
  /\ hand' = None
  /\ fails' = IF Starting THEN fails
      ELSE [fails EXCEPT ![k] =
             [count |-> IF @.of = target[k] THEN @.count + 1 ELSE 1, of |-> target[k]]]

MaxRetries == 3
ShouldSkip(k) == fails[k].of = target[k] /\ fails[k].count >= MaxRetries

\* _handle_client_update and _handle_client_removal: a key that is off.
RemoveKey(k) ==
  /\ target[k] = Off /\ applied[k] # Off
  /\ table' = [table EXCEPT ![k] = None]
  /\ CloseBegins(table[k])
  /\ IF Awaited(table[k])
       THEN task' = "closeRemoved" /\ hand' = table[k] /\ UNCHANGED fails
       ELSE KeyDone(k)
  /\ UNCHANGED <<woken, built, version, life>>

\* An enabled key whose configuration changed: _build_client and connect.
ConnectKey(k) ==
  /\ target[k] # Off /\ applied[k] # target[k] /\ ~ShouldSkip(k)
  /\ built < NClients
  /\ built' = built + 1
  /\ hand' = built'
  /\ version' = [version EXCEPT ![built'] = target[k]]
  /\ life' = [life EXCEPT ![built'] = "top"]
  /\ task' = "connect"
  /\ woken' = FALSE
  /\ UNCHANGED <<table, stop, lost, fails>>

KeepKey(k) ==
  /\ applied[k] = target[k] \/ (target[k] # Off /\ ShouldSkip(k))
  /\ UNCHANGED <<task, hand, woken, table, built, version, life, stop, lost, fails>>

\* The loop of init_from_config, or of _reload_changed_clients.
HandleKey ==
  /\ task = "choose"
  /\ \E k \in todo :
       /\ todo' = todo \ {k}
       /\ key' = k
       /\ RemoveKey(k) \/ ConnectKey(k) \/ KeepKey(k)
  /\ UNCHANGED <<file, dirty, watcher, applied, target, losses, ending, request, edits>>

\* Mutation of Swap: the old client of the key is not closed.
SwapWithoutClose ==
  /\ task = "connect" /\ woken
  /\ table' = [table EXCEPT ![key] = hand]
  /\ KeyDone(key)
  /\ woken' = FALSE
  /\ UNCHANGED <<file, dirty, watcher, applied, edits, target, todo, key,
                 objects, ending, request>>

\* The new client is connected: under the lock it replaces the old one, which
\* is closed before the lock is released.  At the start there is no old one.
Swap ==
  /\ task = "connect" /\ woken
  /\ table' = [table EXCEPT ![key] = hand]
  /\ CloseBegins(table[key])
  /\ woken' = FALSE
  /\ IF Awaited(table[key])
       THEN task' = "closeReplaced" /\ hand' = table[key] /\ UNCHANGED fails
       ELSE KeyDone(key)
  /\ UNCHANGED <<file, dirty, watcher, applied, edits, target, todo, key,
                 built, version, life, losses, ending, request>>

\* connect waits 30 s, then asks the lifecycle task to stop and awaits it.
ConnectTimeout ==
  /\ task = "connect" /\ ~woken
  /\ stop' = [stop EXCEPT ![hand] = TRUE]
  /\ task' = "join"
  /\ UNCHANGED <<watching, target, todo, key, hand, woken, table, built, version,
                 life, lost, losses, ending, request>>

\* It has ended, or the manager's 60 s are over and cancel it.
ConnectFails ==
  /\ task = "join"
  /\ life' = [life EXCEPT ![hand] = Cancelled(hand)]
  /\ KeyFailed(key)
  /\ UNCHANGED <<file, dirty, watcher, applied, edits, target, todo, key, woken,
                 table, built, version, stop, lost, losses, ending, request>>

OldClosed ==
  /\ task \in {"closeReplaced", "closeRemoved"}
  /\ ~Alive(hand)
  /\ KeyDone(key)
  /\ UNCHANGED <<file, dirty, watcher, applied, edits, target, todo, key, woken,
                 table, objects, ending, request>>

\* _reload_changed_clients_wrapper notes the configuration: no failure of a
\* client reaches it.
TaskEnds ==
  /\ task = "choose" /\ todo = {}
  /\ task' = "none"
  /\ applied' = IF Starting THEN applied ELSE target
  /\ UNCHANGED <<file, dirty, watcher, fails, edits, target, todo, key, hand, woken,
                 table, objects, ending, request>>
-----------------------------------------------------------------------------
(* The watcher, the file and the end of the workspace                      *)

Edit ==
  /\ edits < MaxEdits
  /\ edits' = edits + 1
  /\ file' \in Configs \ {file}
  /\ dirty' = TRUE
  /\ UNCHANGED <<watcher, applied, fails, changer, table, objects, ending, request>>

\* start: the snapshot is of the file as it is now, whatever the clients were
\* built from.
StartWatcher ==
  /\ Starting /\ task = "none"
  /\ watcher' = "polling"
  /\ applied' = file
  /\ dirty' = FALSE
  /\ UNCHANGED <<file, fails, edits, changer, table, objects, ending, request>>

\* Mutation of Check: the reload in progress is not looked at.
CheckUnguarded ==
  /\ watcher = "polling" /\ dirty
  /\ dirty' = FALSE
  /\ IF file # applied
       THEN task' = "choose" /\ target' = file /\ todo' = Keys /\ hand' = None
       ELSE UNCHANGED <<task, target, todo, hand>>
  /\ UNCHANGED <<file, watcher, applied, fails, edits, key, woken, table, objects, ending, request>>

\* _check: the mtime is noted first, then an edit that comes while a reload
\* runs is skipped.
Check ==
  /\ watcher = "polling" /\ dirty
  /\ dirty' = FALSE
  /\ IF file # applied /\ task = "none"
       THEN task' = "choose" /\ target' = file /\ todo' = Keys /\ hand' = None
       ELSE UNCHANGED <<task, target, todo, hand>>
  /\ UNCHANGED <<file, watcher, applied, fails, edits, key, woken, table, objects, ending, request>>

StopWatcher ==
  /\ watcher = "polling"
  /\ watcher' = "stopping"
  /\ UNCHANGED <<file, dirty, applied, fails, edits, changer, table, objects, ending, request>>

\* Mutation of StopWaits: the reload task is left running.
StopWithoutReload ==
  /\ watcher = "stopping"
  /\ watcher' = "stopped"
  /\ UNCHANGED <<file, dirty, applied, fails, edits, changer, table, objects, ending, request>>

StopWaits ==
  /\ watcher = "stopping" /\ task = "none"
  /\ watcher' = "stopped"
  /\ UNCHANGED <<file, dirty, applied, fails, edits, changer, table, objects, ending, request>>

\* After 5 s the reload task is cancelled where it waits.  A cancelled await of
\* a lifecycle task cancels that too; a cancelled wait for ready does not, and
\* _force_cleanup_client finds no stack to close.
StopCancels ==
  /\ watcher = "stopping" /\ task # "none"
  /\ watcher' = "stopped"
  /\ task' = "none"
  /\ woken' = FALSE
  /\ lost' = IF task = "connect" THEN [lost EXCEPT ![hand] = "interrupted"] ELSE lost
  /\ life' = IF task \in {"join", "closeReplaced", "closeRemoved"}
               THEN [life EXCEPT ![hand] = Cancelled(hand)] ELSE life
  /\ UNCHANGED <<file, dirty, applied, fails, edits, target, todo, key, hand,
                 table, built, version, stop, losses, ending, request>>

\* Mutation of CloseAll: the snapshot is not filtered for keys without a client.
CloseAllUnfiltered ==
  /\ watcher = "stopped" /\ shutdown = "no"
  /\ shutdown' = "closing"
  /\ closing' = {table[k] : k \in Keys}
  /\ table' = [k \in Keys |-> None]
  /\ UNCHANGED <<watching, changer, objects, last, request>>

\* close_all takes all clients out of the table and closes one after the other.  It
\* comes after the stops of the agent's configuration watcher and channels, which
\* need not return.
CloseAll ==
  /\ watcher = "stopped" /\ shutdown = "no"
  /\ shutdown' = "closing"
  /\ closing' = {table[k] : k \in Keys} \ {None}
  /\ table' = [k \in Keys |-> None]
  /\ UNCHANGED <<watching, changer, objects, last, request>>

CloseNext ==
  /\ shutdown = "closing"
  /\ last # None => ~Alive(last)
  /\ \E c \in closing :
       /\ closing' = closing \ {c}
       /\ CloseBegins(c)
       /\ last' = IF Awaited(c) THEN c ELSE None
  /\ UNCHANGED <<watching, changer, table, built, version, life, losses, shutdown, request>>

CloseEnds ==
  /\ shutdown = "closing" /\ closing = {}
  /\ last # None => ~Alive(last)
  /\ shutdown' = "done"
  /\ last' = None
  /\ UNCHANGED <<watching, changer, table, objects, closing, request>>

\* get_clients, at the beginning of every request of a user.
Ask ==
  /\ ~Starting /\ ~request
  /\ request' = TRUE
  /\ UNCHANGED <<watching, changer, table, objects, ending>>

Answer ==
  /\ request /\ ~Locked
  /\ request' = FALSE
  /\ UNCHANGED <<watching, changer, table, objects, ending>>
-----------------------------------------------------------------------------
Init ==
  /\ file \in Initial
  /\ target = file
  /\ dirty = FALSE /\ edits = 0 /\ losses = 0
  /\ watcher = "absent"
  /\ applied = AllOff
  /\ fails = [k \in Keys |-> [count |-> 0, of |-> Off]]
  /\ task = "choose" /\ todo = Keys /\ hand = None /\ woken = FALSE
  /\ key = CHOOSE k \in Keys : TRUE
  /\ table = [k \in Keys |-> None]
  /\ built = 0
  /\ version = [c \in Clients |-> Off]
  /\ life = [c \in Clients |-> "unbuilt"]
  /\ stop = [c \in Clients |-> FALSE]
  /\ lost = [c \in Clients |-> "no"]
  /\ shutdown = "no" /\ closing = {} /\ last = None
  /\ request = FALSE

\* What the event loop runs as soon as it can.
Lifecycle(c) == LoopTop(c) \/ SeeStop(c) \/ RetryLater(c)
Server(c) == Connected(c) \/ Refused(c) \/ Broken(c)
Change ==
  HandleKey \/ Swap \/ ConnectTimeout \/ ConnectFails \/ OldClosed \/ TaskEnds
Stopping == StopWaits \/ StopCancels
Closing == CloseNext \/ CloseEnds

Next ==
  \/ \E c \in Clients : Lifecycle(c) \/ Server(c)
  \/ Change \/ Edit \/ StartWatcher \/ Check \/ StopWatcher \/ Stopping
  \/ CloseAll \/ Closing \/ Ask \/ Answer

\* Timers fire and ready tasks run; a server need not answer or break, nothing need be
\* edited, and close_all need not begin.
Fairness ==
  /\ \A c \in Clients : WF_vars(Lifecycle(c))
  /\ WF_vars(Change) /\ WF_vars(Stopping) /\ WF_vars(Closing) /\ WF_vars(Answer)

Spec == Init /\ [][Next]_vars /\ Fairness
-----------------------------------------------------------------------------
TypeOK ==
  /\ file \in Configs /\ dirty \in BOOLEAN /\ edits \in 0 .. MaxEdits
  /\ watcher \in WatcherStates
  /\ applied \in Configs \cup {AllOff}
  /\ fails \in [Keys -> [count : Nat, of : Versions \cup {Off}]]
  /\ task \in TaskSteps /\ target \in Configs /\ todo \subseteq Keys /\ key \in Keys
  /\ hand \in Clients \cup {None} /\ woken \in BOOLEAN
  /\ table \in [Keys -> Clients \cup {None}]
  /\ built \in 0 .. NClients
  /\ version \in [Clients -> Versions \cup {Off}]
  /\ life \in [Clients -> LifeSteps]
  /\ stop \in [Clients -> BOOLEAN]
  /\ lost \in [Clients -> {"no", "unclosed", "interrupted"}]
  /\ losses \in 0 .. MaxLosses
  /\ shutdown \in {"no", "closing", "done"}
  /\ closing \subseteq Clients /\ last \in Clients \cup {None}
  /\ request \in BOOLEAN

\* Somebody will close c: the table until close_all, or a task that holds it.
Owned(c) ==
  \/ shutdown = "no" /\ \E k \in Keys : table[k] = c
  \/ task # "none" /\ hand = c
  \/ c \in closing \/ last = c

\* A client whose lifecycle task runs is owned, unless close found it between
\* two connections or its connect was interrupted: replacing, removing and
\* shutting down lose a server in no other way, and nothing is added to the
\* table after close_all (manager.py:90, :133, :149; watcher.py:79).
NoSilentLeak == \A c \in Clients : Alive(c) /\ lost[c] = "no" => Owned(c)

\* A swap holds the lock while it closes the old client: a request still gets
\* its clients; the stop of the watcher, and close_all once it has begun, end,
\* whatever the servers do (manager.py:112-130, :149-164, stateful_client.py:227,
\* watcher.py:89).
NobodyWaitsForever ==
  /\ request ~> ~request
  /\ watcher = "stopping" ~> watcher = "stopped"
  /\ shutdown = "closing" ~> shutdown = "done"
=============================================================================
