------------------------------ MODULE CronJobs ------------------------------
(***************************************************************************)
(* One scheduled job of an agent (copaw/app/crons): its record in          *)
(* jobs.json, and the managers of the two instances of the agent that      *)
(* share the file while a reload replaces one by the other.  A manager has *)
(* a scheduler, a semaphore that limits the executions, and a state that   *)
(* the executions write.                                                   *)
(*                                                                         *)
(* Jobs share nothing but the file, which is read, changed and written     *)
(* without an await in between: every operation under the manager's lock   *)
(* is one step, and an execution is cut at its waits.                      *)
(***************************************************************************)
EXTENDS Naturals, FiniteSets

CONSTANTS
  Exec,    \* bound: executions in flight
  NSems,   \* bound: semaphores in use
  NStates, \* bound: CronJobState objects in use
  Jobs,    \* the records the job can have
  MaxSaves,\* bound: changes of the job through the API
  None

ASSUME NoneAssumption == None \notin Nat /\ None \notin Jobs
\* max: max_concurrency; valid: a trigger can be built from its five fields.
ASSUME JobAssumption ==
  /\ Jobs \subseteq [max : Nat \ {0}, enabled : BOOLEAN, valid : BOOLEAN]
  /\ \A job \in Jobs : ~job.valid => [job EXCEPT !.enabled = FALSE] \in Jobs
ASSUME BoundAssumption == {NSems, NStates, MaxSaves} \subseteq Nat /\ IsFiniteSet(Exec)

Manager == {"old", "new"}
Sem == 1 .. NSems
State == 1 .. NStates

VARIABLES
  store,   \* the job in jobs.json
  up,      \* up[m]: whether manager m is "new", "started" or "stopped"
  serving, \* the manager of the instance that requests get
  entry,   \* entry[m]: the job in m's scheduler
  rt,      \* _rt: the semaphore that an execution of m gets
  limit,   \* limit[s]: the value semaphore s was created with
  state,   \* _states: the state object
  status,  \* status[o]: last_status of a state object
  run,     \* run[e]: execution e, see Execution
  saves,
  mixed,   \* history, mixed[m]: an execution of m in flight began before the
           \* job was last changed
  missed   \* history: the old manager changed the job after the new one had
           \* read the file

managers == <<up, serving>>
tables == <<store, entry, rt, limit, saves, missed>>
vars == <<store, up, serving, entry, rt, limit, state, status, run, saves, mixed, missed>>

\* by: the manager; fired: by its scheduler, not by run_job; max: the limit in
\* the job it got; sem, st: its semaphore and the state object it writes.
Execution == [at : {"free", "created", "waiting", "running"}, by : Manager,
              fired : BOOLEAN, max : Nat, sem : Sem \cup {None}, st : State \cup {None}]
Free == [at |-> "free", by |-> "old", fired |-> FALSE, max |-> 0, sem |-> None, st |-> None]
Statuses == {"none", "running", "success", "error", "cancelled"}

InFlight(m) == {e \in Exec : run[e].at # "free" /\ run[e].by = m}
Running(m) == {e \in InFlight(m) : run[e].at = "running"}
Holders(s) == {e \in Exec : run[e].at = "running" /\ run[e].sem = s}
Waiters(s) == {e \in Exec : run[e].at = "waiting" /\ run[e].sem = s}

\* New objects: nothing refers to them, and they are taken in order.
UsedSems == {rt[m] : m \in Manager} \cup {run[e].sem : e \in {f \in Exec : run[f].at \in {"waiting", "running"}}}
UsedStates == {state[m] : m \in Manager} \cup {run[e].st : e \in {f \in Exec : run[f].at = "running"}}
FreshSem(s) == s \notin UsedSems /\ 1 .. (s - 1) \subseteq UsedSems
FreshState(o) == o \notin UsedStates /\ 1 .. (o - 1) \subseteq UsedStates
-----------------------------------------------------------------------------
(* Registration                                                            *)

\* Mutation of Register: a job that has a semaphore keeps it.
RegisterKeepsSem(m, job) ==
  /\ IF rt[m] # None
       THEN UNCHANGED <<rt, limit>>
       ELSE \E s \in Sem :
              /\ FreshSem(s)
              /\ rt' = [rt EXCEPT ![m] = s]
              /\ limit' = [limit EXCEPT ![s] = job.max]
  /\ entry' = [entry EXCEPT ![m] = IF job.enabled THEN "active" ELSE "paused"]
  /\ IF state[m] # None
       THEN UNCHANGED <<state, status>>
       ELSE \E o \in State :
              /\ FreshState(o)
              /\ state' = [state EXCEPT ![m] = o]
              /\ status' = [status EXCEPT ![o] = "none"]

\* _register_or_update of a valid job: a new semaphore, a new entry, and a
\* state if there is none.
Register(m, job) ==
  /\ \E s \in Sem :
       /\ FreshSem(s)
       /\ rt' = [rt EXCEPT ![m] = s]
       /\ limit' = [limit EXCEPT ![s] = job.max]
  /\ entry' = [entry EXCEPT ![m] = IF job.enabled THEN "active" ELSE "paused"]
  /\ IF state[m] # None
       THEN UNCHANGED <<state, status>>
       ELSE \E o \in State :
              /\ FreshState(o)
              /\ state' = [state EXCEPT ![m] = o]
              /\ status' = [status EXCEPT ![o] = "none"]

NothingRegistered == UNCHANGED <<rt, limit, entry, state, status>>

\* start: a job that cannot be registered is disabled in the file.
Start(m) ==
  /\ up[m] = "new"
  /\ m = "new" => up["old"] = "started"
  /\ up' = [up EXCEPT ![m] = "started"]
  /\ IF store # None /\ store.valid THEN Register(m, store) ELSE NothingRegistered
  /\ store' = IF store # None /\ ~store.valid THEN [store EXCEPT !.enabled = FALSE] ELSE store
  /\ UNCHANGED <<serving, run, saves, mixed, missed>>

\* The new instance replaces the old one, which is stopped later.
Swap ==
  /\ serving = "old" /\ up["new"] = "started"
  /\ serving' = "new"
  /\ UNCHANGED <<up, tables, run, state, status, mixed>>

\* A change through the API, by the manager that serves.
Changing ==
  /\ up[serving] = "started"
  /\ saves < MaxSaves
  /\ saves' = saves + 1
  /\ missed' = (serving = "old" /\ up["new"] = "started")
  /\ mixed' = [m \in Manager |-> InFlight(m) # {}]

\* Mutation of Save: a job that cannot be registered loses its entry.
SaveDropsInvalid(job) ==
  /\ Changing
  /\ store' = IF job.valid THEN job ELSE store
  /\ IF job.valid
       THEN Register(serving, job)
       ELSE entry' = [entry EXCEPT ![serving] = "none"] /\ UNCHANGED <<rt, limit, state, status>>
  /\ UNCHANGED <<managers, run>>

\* create_or_replace_job saves first: an invalid job stays in the file, and
\* what was registered goes on.
Save(job) ==
  /\ Changing
  /\ store' = job
  /\ IF job.valid THEN Register(serving, job) ELSE NothingRegistered
  /\ UNCHANGED <<managers, run>>

\* Mutation of Delete: the entry of a paused job is overlooked.
DeleteActiveOnly ==
  /\ Changing
  /\ store' = None
  /\ entry' = [entry EXCEPT ![serving] = IF @ = "active" THEN "none" ELSE @]
  /\ rt' = [rt EXCEPT ![serving] = None]
  /\ state' = [state EXCEPT ![serving] = None]
  /\ UNCHANGED <<managers, run, limit, status>>

\* delete_job: executions in flight keep their semaphore and state object.
Delete ==
  /\ Changing
  /\ store' = None
  /\ entry' = [entry EXCEPT ![serving] = "none"]
  /\ rt' = [rt EXCEPT ![serving] = None]
  /\ state' = [state EXCEPT ![serving] = None]
  /\ UNCHANGED <<managers, run, limit, status>>

\* pause_job and resume_job touch the scheduler only.
PauseOrResume ==
  /\ up[serving] = "started" /\ entry[serving] # "none"
  /\ entry' = [entry EXCEPT ![serving] = IF @ = "active" THEN "paused" ELSE "active"]
  /\ UNCHANGED <<managers, store, rt, limit, saves, missed, run, state, status, mixed>>
-----------------------------------------------------------------------------
(* Executions                                                              *)

\* Execution e of manager m has semaphore s: it runs at once if s is free, and
\* the state object says so, or waits.
Runs(e, m, now) ==
  \E o \in State :
    /\ IF state[m] # None THEN o = state[m] ELSE FreshState(o)
    /\ state' = [state EXCEPT ![m] = o]
    /\ status' = [status EXCEPT ![o] = "running"]
    /\ run' = [run EXCEPT ![e] = [now EXCEPT !.at = "running", !.st = o]]
Reaches(e, m, now) ==
  IF Waiters(now.sem) = {} /\ Cardinality(Holders(now.sem)) < limit'[now.sem]
    THEN Runs(e, m, now)
    ELSE run' = [run EXCEPT ![e] = [now EXCEPT !.at = "waiting"]] /\ UNCHANGED <<state, status>>

\* Mutation of Execute: the runtime is taken for granted.
ExecuteUnchecked(e, now) ==
  /\ UNCHANGED <<rt, limit, state, status>>
  /\ run' = [run EXCEPT ![e] = [now EXCEPT !.at = "waiting", !.sem = rt[now.by]]]

\* _execute_once, up to the semaphore: whoever finds no runtime creates one.
Execute(e, now) ==
  \E s \in Sem :
    /\ IF rt[now.by] # None
         THEN s = rt[now.by] /\ UNCHANGED <<rt, limit>>
         ELSE /\ FreshSem(s)
              /\ rt' = [rt EXCEPT ![now.by] = s]
              /\ limit' = [limit EXCEPT ![s] = now.max]
    /\ Reaches(e, now.by, [now EXCEPT !.sem = s])

New(m, scheduled) == [Free EXCEPT !.by = m, !.fired = scheduled, !.max = store.max]

\* run_job: a task is created with the job as it is in the file.
RunJob(e) ==
  /\ up[serving] = "started" /\ store # None
  /\ run[e].at = "free"
  /\ run' = [run EXCEPT ![e] = [New(serving, FALSE) EXCEPT !.at = "created"]]
  /\ UNCHANGED <<managers, tables, state, status, mixed>>

RunTask(e) ==
  /\ run[e].at = "created"
  /\ Execute(e, run[e])
  /\ UNCHANGED <<managers, store, entry, saves, missed, mixed>>

\* _scheduled_callback: the scheduler fires unless an execution it started is in
\* flight, and the job is read again.
Fire(e, m) ==
  /\ up[m] = "started" /\ entry[m] = "active" /\ store # None
  /\ run[e].at = "free"
  /\ \A f \in InFlight(m) : ~run[f].fired
  /\ Execute(e, New(m, TRUE))
  /\ UNCHANGED <<managers, store, entry, saves, missed, mixed>>

\* A waiter gets the permit.
Acquire(e) ==
  /\ run[e].at = "waiting"
  /\ Cardinality(Holders(run[e].sem)) < limit[run[e].sem]
  /\ Runs(e, run[e].by, run[e])
  /\ UNCHANGED <<managers, tables, mixed>>

\* What the finally of _execute_once does: the object it holds is the state
\* again, whatever happened to the job meanwhile.
Finish(e) ==
  /\ run[e].at = "running"
  /\ \E outcome \in {"success", "error"} :
       status' = [status EXCEPT ![run[e].st] = outcome]
  /\ state' = [state EXCEPT ![run[e].by] = run[e].st]
  /\ run' = [run EXCEPT ![e] = Free]
  /\ mixed' = [mixed EXCEPT ![run[e].by] = @ /\ InFlight(run[e].by) # {e}]
  /\ UNCHANGED <<managers, tables>>

Cancelled(m) == {e \in InFlight(m) : run[e].fired}

\* Mutation of Stop: the status of a cancelled execution stays.
StopKeepsStatus(m) ==
  /\ up[m] = "started"
  /\ m = "old" => serving = "new"
  /\ up' = [up EXCEPT ![m] = "stopped"]
  /\ entry' = [entry EXCEPT ![m] = "none"]
  /\ run' = [e \in Exec |-> IF e \in Cancelled(m) THEN Free ELSE run[e]]
  /\ mixed' = [mixed EXCEPT ![m] = @ /\ InFlight(m) # Cancelled(m)]
  /\ UNCHANGED <<serving, store, rt, limit, saves, missed, state, status>>

\* stop: the scheduler's executor cancels what it runs, of which there is one
\* execution at most; the tasks of run_job go on.  The runner may turn the
\* cancellation into an error.
Stop(m) ==
  /\ up[m] = "started"
  /\ m = "old" => serving = "new"
  /\ up' = [up EXCEPT ![m] = "stopped"]
  /\ entry' = [entry EXCEPT ![m] = "none"]
  /\ run' = [e \in Exec |-> IF e \in Cancelled(m) THEN Free ELSE run[e]]
  /\ mixed' = [mixed EXCEPT ![m] = @ /\ InFlight(m) # Cancelled(m)]
  /\ \/ /\ \A e \in Cancelled(m) : run[e].at # "running"
        /\ UNCHANGED <<state, status>>
     \/ \E e \in Cancelled(m) :
          /\ run[e].at = "running"
          /\ \E outcome \in {"cancelled", "error"} :
               status' = [status EXCEPT ![run[e].st] = outcome]
          /\ state' = [state EXCEPT ![m] = run[e].st]
  /\ UNCHANGED <<serving, store, rt, limit, saves, missed>>
-----------------------------------------------------------------------------
Init ==
  /\ store \in Jobs \cup {None}
  /\ up = [m \in Manager |-> "new"]
  /\ serving = "old"
  /\ entry = [m \in Manager |-> "none"]
  /\ rt = [m \in Manager |-> None]
  /\ limit = [s \in Sem |-> 0]
  /\ state = [m \in Manager |-> None]
  /\ status = [o \in State |-> "none"]
  /\ run = [e \in Exec |-> Free]
  /\ saves = 0
  /\ mixed = [m \in Manager |-> FALSE]
  /\ missed = FALSE

Next ==
  \/ \E m \in Manager : Start(m) \/ Stop(m)
  \/ Swap \/ Delete \/ PauseOrResume
  \/ \E job \in Jobs : Save(job)
  \/ \E e \in Exec :
       \/ RunJob(e) \/ Finish(e)
       \/ \E m \in Manager : Fire(e, m)
       \/ RunTask(e) \/ Acquire(e)

Spec == Init /\ [][Next]_vars
-----------------------------------------------------------------------------
TypeOK ==
  /\ store \in Jobs \cup {None}
  /\ up \in [Manager -> {"new", "started", "stopped"}]
  /\ serving \in Manager
  /\ entry \in [Manager -> {"none", "active", "paused"}]
  /\ rt \in [Manager -> Sem \cup {None}]
  /\ limit \in [Sem -> Nat]
  /\ state \in [Manager -> State \cup {None}]
  /\ status \in [State -> Statuses]
  /\ run \in [Exec -> Execution]
  /\ saves \in 0 .. MaxSaves
  /\ mixed \in [Manager -> BOOLEAN]
  /\ missed \in BOOLEAN
  /\ \A e \in Exec :
       /\ run[e].at \in {"waiting", "running"} => run[e].sem # None
       /\ run[e].at = "running" => run[e].st # None

\* A state that says "running" is the state of an execution that does run: no
\* deletion, re-creation, cancellation or shared state object leaves a job
\* running for ever in the console (manager.py:349-387).
RunningIsTrue ==
  \A m \in Manager :
    state[m] # None /\ status[state[m]] = "running" =>
      \E e \in Running(m) : run[e].st = state[m]

\* The scheduler of the instance that serves has the job exactly when the file
\* has it, unless the other one changed it in the middle of a reload; an
\* invalid job may be in either (manager.py:63-92, :132-144, :242-272).
ScheduleFollowsStore ==
  up[serving] = "started" /\ ~missed =>
    /\ store = None => entry[serving] = "none"
    /\ store # None /\ store.valid => entry[serving] # "none"

\* The limit is an instance's: in each, no more than max_concurrency executions
\* run at once, by hand or by schedule, unless one of them began before the job
\* was last changed.  During a reload, and while tasks of run_job outlive the
\* old instance, the executions of the two add up (manager.py:248, :349-355).
ConcurrencyLimit ==
  store # None /\ store.valid /\ ~missed =>
    \A m \in Manager : ~mixed[m] => Cardinality(Running(m)) <= store.max
=============================================================================
