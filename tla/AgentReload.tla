---------------------------- MODULE AgentReload ----------------------------
(***************************************************************************)
(* copaw/app/multi_agent_manager.py: the instances (Workspaces) of one     *)
(* agent, started on demand, replaced while they serve, and stopped.       *)
(*                                                                         *)
(* get_agent and stop_agent await a start or a stop inside the manager's   *)
(* lock, so the lock is contended and part of the state; reload_agent      *)
(* starts the new instance and stops the old one outside it.  Operations   *)
(* on other agents only delay the lock further.                            *)
(*                                                                         *)
(* Instances are numbered in the order of creation.  An instance's         *)
(* reusable services (memory_manager, chat_manager) are one object, named  *)
(* by the instance that created it.                                        *)
(*                                                                         *)
(* WorkspaceProofs extends this module and TaskTracker: what both would    *)
(* call Init, Next, Spec, vars or TypeOK has a name of its own here.       *)
(***************************************************************************)
EXTENDS Naturals, FiniteSets

CONSTANTS
  Caller,       \* tasks that call the manager: requests, watchers, the API
  MaxInstance,  \* bound: Workspace objects created
  None

Instance == 1..MaxInstance

ASSUME MaxInstanceAssumption == MaxInstance \in Nat
ASSUME NoneAssumption == None \notin Instance /\ None \notin Caller

VARIABLES
  agent,     \* the entry of agents, None when there is none
  lock,      \* the caller that holds _lock across an await, None when free
  pc,        \* pc[c]: what caller c is doing, see Steps
  new,       \* new[c]: the instance c creates
  old,       \* old[c]: the instance c stops
  inst,      \* inst[i]: state of the Workspace, see InstanceState
  service,   \* service[i]: the reusable services i works with
  closed,    \* the services that have been stopped
  active,    \* the instances whose task tracker has an active task
  cleanup,   \* the instances a delayed_cleanup task waits for
  phase,     \* stop_all: "up", "closing", "closed"
  retired,   \* history: the instances that have been swapped out
  crossed    \* history: the agent was removed while a reload was under way

reloadVars == <<agent, lock, pc, new, old, inst, service, closed, active, cleanup,
                phase, retired, crossed>>

callers == <<lock, pc, new, old>>
workspaces == <<inst, service, closed>>
background == <<active, cleanup>>

(***************************************************************************)
(* "starting": inside instance.start() of get_agent, holding the lock.     *)
(* "removing": inside instance.stop() of stop_agent, holding the lock.     *)
(* "checked": reload_agent has seen the agent.  "preparing": inside        *)
(* new_instance.start().  "swapping": the new instance is up.              *)
(* "aborting": inside new_instance.stop(), holding the lock.               *)
(* "retiring": inside old_instance.stop(final=False).                      *)
(***************************************************************************)
Steps == {"idle", "starting", "removing", "checked", "preparing", "swapping",
          "aborting", "retiring"}

\* "up": _started.  "failed": start() raised.
InstanceState == {"unused", "starting", "up", "stopping", "stopped", "failed"}

Reloading(c) == pc[c] \in {"checked", "preparing", "swapping"}
IsFresh(i) == inst[i] = "unused" /\ \A j \in 1..(i - 1) : inst[j] # "unused"
Goto(c, step) == pc' = [pc EXCEPT ![c] = step]

ReloadInit ==
  /\ agent = None
  /\ lock = None
  /\ pc = [c \in Caller |-> "idle"]
  /\ new = [c \in Caller |-> None]
  /\ old = [c \in Caller |-> None]
  /\ inst = [i \in Instance |-> "unused"]
  /\ service = [i \in Instance |-> None]
  /\ closed = {}
  /\ active = {}
  /\ cleanup = {}
  /\ phase = "up"
  /\ retired = {}
  /\ crossed = FALSE
-----------------------------------------------------------------------------
(* A Workspace                                                             *)

\* start() begins, with the services of instance j when there is one to reuse.
StartInstance(i, j) ==
  /\ IsFresh(i)
  /\ inst' = [inst EXCEPT ![i] = "starting"]
  /\ service' = [service EXCEPT ![i] = IF j = None THEN i ELSE service[j]]

\* start() returns, or raises; what it had started by then is not kept track of
\* (self.stop() returns at once, because _started is still False).
StartSucceeds(i) ==
  /\ inst' = [inst EXCEPT ![i] = "up"]
  /\ UNCHANGED <<service, closed>>

StartFails(i) ==
  /\ inst' = [inst EXCEPT ![i] = "failed"]
  /\ UNCHANGED <<service, closed>>

\* stop(): a workspace that is not started is left alone.
StopBegins(i) == inst' = [inst EXCEPT ![i] = IF @ = "up" THEN "stopping" ELSE @]

StopEnds(i) == inst' = [inst EXCEPT ![i] = IF @ = "stopping" THEN "stopped" ELSE @]

\* Mutation of NonFinalStopEnds: the default, final=True.
StopEndsByDefault(i) ==
  /\ StopEnds(i)
  /\ closed' = closed \cup {service[i]}
  /\ UNCHANGED <<service>>

\* With final=False the reusable services go on.
NonFinalStopEnds(i) ==
  /\ StopEnds(i)
  /\ UNCHANGED <<service, closed>>

\* With final=True they stop as well.
FinalStopEnds(i) ==
  /\ StopEnds(i)
  /\ closed' = closed \cup {service[i]}
  /\ UNCHANGED <<service>>
-----------------------------------------------------------------------------
(* get_agent and stop_agent                                                *)

\* get_agent with no entry; with one it returns the entry at once.
GetAgent(c) ==
  /\ pc[c] = "idle"
  /\ phase # "closed"
  /\ lock = None
  /\ agent = None
  /\ \E i \in Instance : /\ StartInstance(i, None)
                         /\ new' = [new EXCEPT ![c] = i]
  /\ lock' = c
  /\ Goto(c, "starting")
  /\ UNCHANGED <<agent, old, closed, background, phase, retired,
                 crossed>>

GetAgentDone(c) ==
  /\ pc[c] = "starting"
  /\ \/ StartSucceeds(new[c]) /\ agent' = new[c]
     \/ StartFails(new[c]) /\ UNCHANGED agent
  /\ lock' = None
  /\ Goto(c, "idle")
  /\ new' = [new EXCEPT ![c] = None]
  /\ UNCHANGED <<old, background, phase, retired, crossed>>

StopAgent(c) ==
  /\ pc[c] = "idle"
  /\ phase = "up"
  /\ lock = None
  /\ agent # None
  /\ StopBegins(agent)
  /\ lock' = c
  /\ old' = [old EXCEPT ![c] = agent]
  /\ Goto(c, "removing")
  /\ crossed' = (crossed \/ \E d \in Caller : Reloading(d))
  /\ UNCHANGED <<agent, new, service, closed, background, phase,
                 retired>>

\* Mutation of StopAgentDone: the entry stays.
StopAgentKeepsEntry(c) ==
  /\ pc[c] = "removing"
  /\ FinalStopEnds(old[c])
  /\ lock' = None
  /\ Goto(c, "idle")
  /\ old' = [old EXCEPT ![c] = None]
  /\ UNCHANGED <<agent, new, background, phase, retired, crossed>>

StopAgentDone(c) ==
  /\ pc[c] = "removing"
  /\ FinalStopEnds(old[c])
  /\ agent' = None
  /\ lock' = None
  /\ Goto(c, "idle")
  /\ old' = [old EXCEPT ![c] = None]
  /\ UNCHANGED <<new, background, phase, retired, crossed>>
-----------------------------------------------------------------------------
(* reload_agent                                                            *)

\* Step 1.
ReloadCheck(c) ==
  /\ pc[c] = "idle"
  /\ phase # "closed"
  /\ lock = None
  /\ agent # None
  /\ Goto(c, "checked")
  /\ UNCHANGED <<agent, lock, new, old, workspaces, background, phase, retired,
                 crossed>>

\* Steps 2 to 3.5: the reusable services of the entry there is now.
ReloadPrepare(c) ==
  /\ pc[c] = "checked"
  /\ lock = None
  /\ \E i \in Instance : /\ StartInstance(i, agent)
                         /\ new' = [new EXCEPT ![c] = i]
  /\ Goto(c, "preparing")
  /\ UNCHANGED <<agent, lock, old, closed, background, phase, retired,
                 crossed>>

\* The agent is gone from the configuration, or start() fails: False.
ReloadGivesUp(c) ==
  /\ \/ pc[c] = "checked" /\ UNCHANGED workspaces
     \/ pc[c] = "preparing" /\ StartFails(new[c])
  /\ Goto(c, "idle")
  /\ new' = [new EXCEPT ![c] = None]
  /\ UNCHANGED <<agent, lock, old, background, phase, retired, crossed>>

ReloadStarted(c) ==
  /\ pc[c] = "preparing"
  /\ StartSucceeds(new[c])
  /\ Goto(c, "swapping")
  /\ UNCHANGED <<agent, lock, new, old, background, phase, retired, crossed>>

\* Mutation of Retire: an old instance with active tasks is forgotten.
RetireIdleOnly(c, i) ==
  IF i \in active
  THEN /\ Goto(c, "idle")
       /\ UNCHANGED <<old, inst, cleanup>>
  ELSE /\ StopBegins(i)
       /\ old' = [old EXCEPT ![c] = i]
       /\ Goto(c, "retiring")
       /\ UNCHANGED cleanup

\* _graceful_stop_old_instance: delayed clean-up with active tasks, else stop.
Retire(c, i) ==
  IF i \in active
  THEN /\ cleanup' = cleanup \cup {i}
       /\ Goto(c, "idle")
       /\ UNCHANGED <<old, inst>>
  ELSE /\ StopBegins(i)
       /\ old' = [old EXCEPT ![c] = i]
       /\ Goto(c, "retiring")
       /\ UNCHANGED cleanup

\* Mutation of Swap: the entry is not looked up again.
SwapUnchecked(c) ==
  /\ pc[c] = "swapping"
  /\ lock = None
  /\ agent' = new[c]
  /\ retired' = retired \cup {agent}
  /\ Retire(c, agent)
  /\ new' = [new EXCEPT ![c] = None]
  /\ UNCHANGED <<lock, service, closed, active, phase, crossed>>

\* Steps 4 and 5: from the release of the lock to the stop nothing suspends.
Swap(c) ==
  /\ pc[c] = "swapping"
  /\ lock = None
  /\ agent # None
  /\ agent' = new[c]
  /\ retired' = retired \cup {agent}
  /\ Retire(c, agent)
  /\ new' = [new EXCEPT ![c] = None]
  /\ UNCHANGED <<lock, service, closed, active, phase, crossed>>

\* The agent was removed during the reload: the new instance stops.
Abort(c) ==
  /\ pc[c] = "swapping"
  /\ lock = None
  /\ agent = None
  /\ lock' = c
  /\ StopBegins(new[c])
  /\ Goto(c, "aborting")
  /\ UNCHANGED <<agent, new, old, service, closed, background, phase,
                 retired, crossed>>

AbortDone(c) ==
  /\ pc[c] = "aborting"
  /\ FinalStopEnds(new[c])
  /\ lock' = None
  /\ Goto(c, "idle")
  /\ new' = [new EXCEPT ![c] = None]
  /\ UNCHANGED <<agent, old, background, phase, retired, crossed>>

RetireDone(c) ==
  /\ pc[c] = "retiring"
  /\ NonFinalStopEnds(old[c])
  /\ Goto(c, "idle")
  /\ old' = [old EXCEPT ![c] = None]
  /\ UNCHANGED <<agent, lock, new, background, phase, retired, crossed>>
-----------------------------------------------------------------------------
(* Tasks on an instance, and the clean-up that waits for them              *)

\* Channels give an instance tasks while it is up; a request that looked the
\* instance up earlier may still start one when it has been stopped.
BeginTask(i) ==
  /\ inst[i] \in {"up", "stopping", "stopped"}
  /\ active' = active \cup {i}
  /\ i \notin active
  /\ UNCHANGED <<agent, callers, workspaces, cleanup, phase, retired, crossed>>

EndTask(i) ==
  /\ i \in active
  /\ active' = active \ {i}
  /\ UNCHANGED <<agent, callers, workspaces, cleanup, phase, retired, crossed>>

\* Mutation of CleanupStop: wait_all_done waits without a timeout.
CleanupStopWhenIdle(i) ==
  /\ i \in cleanup
  /\ inst[i] = "up"
  /\ i \notin active
  /\ StopBegins(i)
  /\ UNCHANGED <<agent, callers, service, closed, background, phase,
                 retired, crossed>>

\* wait_all_done returns: no task is active or 60 s are over.
CleanupStop(i) ==
  /\ i \in cleanup
  /\ inst[i] = "up"
  /\ StopBegins(i)
  /\ UNCHANGED <<agent, callers, service, closed, background, phase,
                 retired, crossed>>

CleanupDone(i) ==
  /\ i \in cleanup
  /\ inst[i] = "stopping"
  /\ NonFinalStopEnds(i)
  /\ cleanup' = cleanup \ {i}
  /\ UNCHANGED <<agent, callers, active, phase, retired, crossed>>
-----------------------------------------------------------------------------
(* stop_all takes no lock                                                  *)

\* The clean-up tasks are cancelled, wherever they are; then the agent stops.
CloseBegin ==
  /\ phase = "up"
  /\ phase' = "closing"
  /\ cleanup' = {}
  /\ IF agent = None THEN UNCHANGED inst ELSE StopBegins(agent)
  /\ UNCHANGED <<agent, callers, service, closed, active, retired,
                 crossed>>

CloseDone ==
  /\ phase = "closing"
  /\ phase' = "closed"
  /\ agent' = None
  /\ IF agent = None \/ inst[agent] # "stopping"
     THEN UNCHANGED workspaces
     ELSE FinalStopEnds(agent)
  /\ UNCHANGED <<callers, background, retired, crossed>>
-----------------------------------------------------------------------------
Call(c) ==
  \/ GetAgentDone(c) \/ StopAgentDone(c)
  \/ ReloadPrepare(c) \/ ReloadGivesUp(c) \/ ReloadStarted(c)
  \/ Swap(c) \/ Abort(c) \/ AbortDone(c) \/ RetireDone(c)

ReloadNext ==
  \/ \E c \in Caller : GetAgent(c) \/ StopAgent(c) \/ ReloadCheck(c) \/ Call(c)
  \/ \E i \in Instance :
       BeginTask(i) \/ EndTask(i) \/ CleanupStop(i) \/ CleanupDone(i)
  \/ CloseBegin \/ CloseDone

ReloadSpec == ReloadInit /\ [][ReloadNext]_reloadVars

\* wait_all_done has a timer.  Nothing else need go on: tasks need not end, and a
\* start or a stop waits for services without a timeout.
ReloadFairness == \A i \in Instance : WF_reloadVars(CleanupStop(i))

FairReloadSpec == ReloadSpec /\ ReloadFairness
-----------------------------------------------------------------------------
(* Properties                                                              *)

\* Every variable has its type.
ReloadTypeOK ==
  /\ agent \in Instance \cup {None}
  /\ lock \in Caller \cup {None}
  /\ pc \in [Caller -> Steps]
  /\ new \in [Caller -> Instance \cup {None}]
  /\ old \in [Caller -> Instance \cup {None}]
  /\ inst \in [Instance -> InstanceState]
  /\ service \in [Instance -> Instance \cup {None}]
  /\ closed \subseteq Instance
  /\ active \subseteq Instance
  /\ cleanup \subseteq Instance
  /\ phase \in {"up", "closing", "closed"}
  /\ retired \subseteq Instance
  /\ crossed \in BOOLEAN

\* Whoever gets the lock finds no entry or a started instance: get_agent never
\* returns an instance that is still starting, stopping or stopped.
EntryIsUp ==
  phase = "up" /\ lock = None /\ agent # None => inst[agent] = "up"

InHand(i) ==
  \/ agent = i
  \/ i \in cleanup
  \/ \E c \in Caller : new[c] = i \/ old[c] = i

\* Until shutdown, a started instance is the entry, or somebody is bound to
\* make it so or to stop it, and nobody is bound to do both.
NoOrphan ==
  phase = "up" =>
    \A i \in Instance :
      inst[i] \in {"starting", "up", "stopping"} =>
        /\ InHand(i)
        /\ agent = i => i \notin cleanup \cup retired

\* As long as no removal crosses a reload, the instance that serves works with
\* open services, and open services belong to an instance that may serve.
ReusableServices ==
  phase = "up" /\ ~crossed =>
    /\ lock = None /\ agent # None => service[agent] \notin closed
    /\ \A i \in Instance \ closed :
         service[i] = i =>
           \/ \E j \in Instance : service[j] = i /\ inst[j] \in {"starting", "up", "stopping"}
           \/ inst[i] = "failed"

\* Workspace.stop returns, which nothing in the code ensures.
StopsReturn ==
  /\ \A c \in Caller : WF_reloadVars(RetireDone(c))
  /\ \A i \in Instance : WF_reloadVars(CleanupDone(i))

\* The stop of an instance that has been swapped out begins, whether or not its
\* tasks end, and whatever else is stuck, unless the application shuts down first;
\* where stops return, the instance is stopped (multi_agent_manager.py:107-186).
OldInstanceStops ==
  /\ \A i \in Instance :
       i \in retired /\ inst[i] = "up" ~> inst[i] # "up" \/ phase # "up"
  /\ StopsReturn =>
       \A i \in Instance : i \in retired ~> inst[i] = "stopped" \/ phase # "up"
=============================================================================
