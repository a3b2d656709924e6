----------------------------- MODULE CronJobsProofs -----------------------------
(***************************************************************************)
(* Types; that a state says "running" only while an execution runs; that   *)
(* the scheduler has the job exactly when the file has it; and that no     *)
(* more than max_concurrency executions run in an instance: for any number *)
(* of executions, semaphores, states, jobs and saves.                      *)
(***************************************************************************)
EXTENDS CronJobs, FiniteSetTheorems, TLAPS

\* A state object belongs to one manager: it is the state of that one only, and
\* only executions of that one write it.
OneOwner ==
  /\ \A m, n \in Manager : state[m] # None /\ state[m] = state[n] => m = n
  /\ \A e \in Exec : \A m \in Manager :
       run[e].at = "running" /\ run[e].st = state[m] => run[e].by = m
  /\ \A e, f \in Exec :
       run[e].at = "running" /\ run[f].at = "running" /\ run[e].st = run[f].st
         => run[e].by = run[f].by

JInv == TypeOK /\ OneOwner /\ RunningIsTrue

\* What is registered in m should agree with the file: it serves, or is about to.
Current(m) == up[m] # "new" /\ (m = serving \/ (serving = "old" /\ up[m] = "started"))

\* A manager that has not started has nothing.
Untouched ==
  \A m \in Manager : up[m] = "new" => entry[m] = "none" /\ InFlight(m) = {}

Scheduled ==
  ~missed =>
    \A m \in Manager : Current(m) /\ up[m] = "started" =>
      /\ store = None => entry[m] = "none"
      /\ store # None /\ store.valid => entry[m] # "none"

\* The semaphore of a job that is registered has the limit in the file.
RightLimit ==
  ~missed /\ store # None /\ store.valid =>
    \A m \in Manager : Current(m) => rt[m] # None /\ limit[rt[m]] = store.max

\* Executions that began since the job was last changed share its semaphore.
SharedSem ==
  \A m \in Manager : ~mixed[m] =>
    \A e \in InFlight(m) : run[e].at \in {"waiting", "running"} => run[e].sem = rt[m]

\* A semaphore gives no more permits than it has.
Permits == \A s \in Sem : Cardinality(Holders(s)) <= limit[s]

\* A scheduler has one execution in flight, and only the manager that serves runs
\* the job by hand.
Fired ==
  /\ \A m \in Manager : \A e, f \in InFlight(m) : run[e].fired /\ run[f].fired => e = f
  /\ serving = "old" => \A e \in InFlight("new") : run[e].fired

\* Once it is replaced, the old manager has the semaphore of the job as it is in
\* the file, or no executions but the one its scheduler started.
OldLimit ==
  serving = "new" /\ ~missed /\ ~mixed["old"] /\ store # None /\ store.valid =>
    \/ rt["old"] # None /\ limit[rt["old"]] = store.max
    \/ \A e \in InFlight("old") : run[e].fired

LimitInv ==
  Untouched /\ Scheduled /\ RightLimit /\ SharedSem /\ Permits /\ Fired /\ OldLimit
-----------------------------------------------------------------------------
(* The objects                                                             *)

LEMMA NoneIsNoObject == None \notin State /\ None \notin Sem
BY NoneAssumption, BoundAssumption DEF State, Sem

LEMMA FreeIsExecution == Free \in Execution /\ Free.at = "free" /\ Free.by = "old"
BY DEF Free, Execution, Manager

LEMMA JobFields ==
  ASSUME NEW job \in Jobs
  PROVE  job.max \in Nat \ {0} /\ job.enabled \in BOOLEAN /\ job.valid \in BOOLEAN
BY JobAssumption

LEMMA NewIsExecution ==
  ASSUME TypeOK, store # None, NEW m \in Manager, NEW b \in BOOLEAN
  PROVE  /\ New(m, b) \in Execution
         /\ New(m, b).by = m /\ New(m, b).at = "free" /\ New(m, b).fired = b
<1>1. store.max \in Nat
  BY JobFields DEF TypeOK
<1> QED
  BY <1>1 DEF New, Free, Execution

\* Nobody refers to a fresh state object.
LEMMA FreshIsUnused ==
  ASSUME NEW o \in State, FreshState(o)
  PROVE  /\ \A m \in Manager : state[m] # o
         /\ \A e \in Exec : run[e].at = "running" => run[e].st # o
BY DEF FreshState, UsedStates

\* An execution starts to run.
LEMMA RunsEffect ==
  ASSUME TypeOK, NEW e \in Exec, NEW m \in Manager, NEW now \in Execution,
         now.by = m, now.sem # None, Runs(e, m, now)
  PROVE  \E o \in State : \E r \in Execution :
           /\ o = state[m] \/ (state[m] = None /\ FreshState(o))
           /\ state' = [state EXCEPT ![m] = o]
           /\ status' = [status EXCEPT ![o] = "running"]
           /\ run' = [run EXCEPT ![e] = r]
           /\ r.at = "running" /\ r.by = m /\ r.st = o /\ r.sem = now.sem /\ r.fired = now.fired
<1>1. PICK o \in State :
        /\ IF state[m] # None THEN o = state[m] ELSE FreshState(o)
        /\ state' = [state EXCEPT ![m] = o]
        /\ status' = [status EXCEPT ![o] = "running"]
        /\ run' = [run EXCEPT ![e] = [now EXCEPT !.at = "running", !.st = o]]
  BY DEF Runs
<1> DEFINE r == [now EXCEPT !.at = "running", !.st = o]
<1>2. /\ r \in Execution
      /\ r.at = "running" /\ r.by = m /\ r.st = o /\ r.sem = now.sem /\ r.fired = now.fired
  BY DEF Execution
<1> QED
  BY <1>1, <1>2
-----------------------------------------------------------------------------
(* Types                                                                   *)

LEMMA RunsType ==
  ASSUME TypeOK, NEW e \in Exec, NEW m \in Manager, NEW now \in Execution,
         now.by = m, now.sem # None, Runs(e, m, now)
  PROVE  /\ state' \in [Manager -> State \cup {None}]
         /\ status' \in [State -> Statuses]
         /\ run' \in [Exec -> Execution]
         /\ \A f \in Exec :
              /\ run'[f].at \in {"waiting", "running"} => run'[f].sem # None
              /\ run'[f].at = "running" => run'[f].st # None
<1>1. PICK o \in State, r \in Execution :
        /\ state' = [state EXCEPT ![m] = o]
        /\ status' = [status EXCEPT ![o] = "running"]
        /\ run' = [run EXCEPT ![e] = r]
        /\ r.at = "running" /\ r.st = o /\ r.sem # None
  BY RunsEffect
<1> QED
  BY <1>1, NoneIsNoObject DEF TypeOK, Statuses

LEMMA RegisterType ==
  ASSUME TypeOK, NEW m \in Manager, NEW job \in Jobs, Register(m, job)
  PROVE  /\ rt' \in [Manager -> Sem \cup {None}] /\ limit' \in [Sem -> Nat]
         /\ entry' \in [Manager -> {"none", "active", "paused"}]
         /\ state' \in [Manager -> State \cup {None}] /\ status' \in [State -> Statuses]
<1>1. rt' \in [Manager -> Sem \cup {None}] /\ limit' \in [Sem -> Nat]
  BY JobFields DEF TypeOK, Register
<1>2. state' \in [Manager -> State \cup {None}] /\ status' \in [State -> Statuses]
  BY DEF TypeOK, Register, Statuses
<1>3. entry' \in [Manager -> {"none", "active", "paused"}]
  BY DEF TypeOK, Register
<1> QED
  BY <1>1, <1>2, <1>3

LEMMA ExecuteType ==
  ASSUME TypeOK, NEW e \in Exec, NEW now \in Execution, Execute(e, now)
  PROVE  /\ rt' \in [Manager -> Sem \cup {None}] /\ limit' \in [Sem -> Nat]
         /\ state' \in [Manager -> State \cup {None}] /\ status' \in [State -> Statuses]
         /\ run' \in [Exec -> Execution]
         /\ \A f \in Exec :
              /\ run'[f].at \in {"waiting", "running"} => run'[f].sem # None
              /\ run'[f].at = "running" => run'[f].st # None
<1>1. PICK s \in Sem :
        /\ IF rt[now.by] # None
             THEN s = rt[now.by] /\ UNCHANGED <<rt, limit>>
             ELSE /\ FreshSem(s)
                  /\ rt' = [rt EXCEPT ![now.by] = s]
                  /\ limit' = [limit EXCEPT ![s] = now.max]
        /\ Reaches(e, now.by, [now EXCEPT !.sem = s])
  BY DEF Execute
<1>2. now.by \in Manager /\ now.max \in Nat
  BY DEF Execution
<1>3. rt' \in [Manager -> Sem \cup {None}] /\ limit' \in [Sem -> Nat]
  BY <1>1, <1>2 DEF TypeOK
<1> DEFINE now2 == [now EXCEPT !.sem = s]
<1>4. now2 \in Execution /\ now2.by = now.by /\ now2.sem # None
  BY NoneIsNoObject DEF Execution
<1>5. CASE Runs(e, now.by, now2)
  BY <1>2, <1>3, <1>4, <1>5, RunsType
<1>6. CASE run' = [run EXCEPT ![e] = [now2 EXCEPT !.at = "waiting"]] /\ UNCHANGED <<state, status>>
  <2>1. PICK r \in Execution : r = [now2 EXCEPT !.at = "waiting"]
    BY <1>4 DEF Execution
  <2>2. r.at = "waiting" /\ r.sem # None
    BY <1>4, <2>1 DEF Execution
  <2> QED
    BY <1>3, <1>6, <2>1, <2>2 DEF TypeOK
<1> QED
  BY <1>1, <1>5, <1>6 DEF Reaches

LEMMA TypeStep == TypeOK /\ [Next]_vars => TypeOK'
<1> SUFFICES ASSUME TypeOK, [Next]_vars PROVE TypeOK'
  OBVIOUS
<1> USE DEF managers, tables
<1>1. ASSUME NEW m \in Manager, Start(m) PROVE TypeOK'
  <2>1. /\ up' \in [Manager -> {"new", "started", "stopped"}]
        /\ UNCHANGED <<serving, run, saves, mixed, missed>>
    BY <1>1 DEF Start, TypeOK
  <2>2. store' \in Jobs \cup {None}
    BY <1>1, JobAssumption DEF Start, TypeOK
  <2>3. CASE store # None /\ store.valid
    <3>1. Register(m, store) /\ store \in Jobs
      BY <1>1, <2>3 DEF Start, TypeOK
    <3> QED
      BY <2>1, <2>2, <3>1, RegisterType DEF TypeOK
  <2>4. CASE ~(store # None /\ store.valid)
    BY <1>1, <2>1, <2>2, <2>4 DEF Start, NothingRegistered, TypeOK
  <2> QED
    BY <2>3, <2>4
<1>2. ASSUME NEW m \in Manager, Stop(m) PROVE TypeOK'
  <2>1. /\ up' \in [Manager -> {"new", "started", "stopped"}]
        /\ entry' \in [Manager -> {"none", "active", "paused"}]
        /\ mixed' \in [Manager -> BOOLEAN]
        /\ UNCHANGED <<serving, store, rt, limit, saves, missed>>
    BY <1>2 DEF Stop, TypeOK
  <2>2. run' = [e \in Exec |-> IF e \in Cancelled(m) THEN Free ELSE run[e]]
    BY <1>2 DEF Stop
  <2>3. /\ run' \in [Exec -> Execution]
        /\ \A e \in Exec :
             /\ run'[e].at \in {"waiting", "running"} => run'[e].sem # None
             /\ run'[e].at = "running" => run'[e].st # None
    BY <2>2, FreeIsExecution DEF TypeOK
  <2>4. state' \in [Manager -> State \cup {None}] /\ status' \in [State -> Statuses]
    <3>1. CASE UNCHANGED <<state, status>>
      BY <3>1 DEF TypeOK
    <3>2. ASSUME NEW e \in Exec, run[e].at = "running",
                 NEW end \in {"cancelled", "error"},
                 status' = [status EXCEPT ![run[e].st] = end],
                 state' = [state EXCEPT ![m] = run[e].st]
          PROVE  state' \in [Manager -> State \cup {None}] /\ status' \in [State -> Statuses]
      <4>1. run[e].st \in State \cup {None}
        BY DEF TypeOK, Execution
      <4> QED
        BY <3>2, <4>1 DEF TypeOK, Statuses
    <3> QED
      BY <1>2, <3>1, <3>2 DEF Stop, Cancelled, InFlight
  <2> QED
    BY <2>1, <2>3, <2>4 DEF TypeOK
<1>3. CASE Swap
  BY <1>3 DEF Swap, TypeOK, Manager
<1>4. CASE Delete
  <2>1. /\ saves' \in 0 .. MaxSaves /\ missed' \in BOOLEAN /\ mixed' \in [Manager -> BOOLEAN]
        /\ UNCHANGED <<managers, run, limit, status>>
    BY <1>4, BoundAssumption DEF Delete, Changing, TypeOK
  <2> QED
    BY <1>4, <2>1 DEF Delete, TypeOK
<1>5. CASE PauseOrResume
  BY <1>5 DEF PauseOrResume, TypeOK
<1>6. ASSUME NEW job \in Jobs, Save(job) PROVE TypeOK'
  <2>1. /\ saves' \in 0 .. MaxSaves /\ missed' \in BOOLEAN /\ mixed' \in [Manager -> BOOLEAN]
        /\ store' = job /\ UNCHANGED <<managers, run>>
    BY <1>6, BoundAssumption DEF Save, Changing, TypeOK
  <2>2. CASE Register(serving, job)
    <3>1. serving \in Manager
      BY DEF TypeOK
    <3> QED
      BY <2>1, <2>2, <3>1, RegisterType DEF TypeOK
  <2>3. CASE NothingRegistered
    BY <2>1, <2>3 DEF NothingRegistered, TypeOK
  <2> QED
    BY <1>6, <2>2, <2>3 DEF Save
<1>7. ASSUME NEW e \in Exec, RunJob(e) PROVE TypeOK'
  <2>1. PICK r \in Execution : r.at = "created" /\ run' = [run EXCEPT ![e] = r]
    <3>1. New(serving, FALSE) \in Execution
      BY <1>7, NewIsExecution DEF RunJob, TypeOK
    <3> DEFINE r == [New(serving, FALSE) EXCEPT !.at = "created"]
    <3>2. r \in Execution /\ r.at = "created"
      BY <3>1 DEF Execution
    <3>3. run' = [run EXCEPT ![e] = r]
      BY <1>7 DEF RunJob
    <3> QED
      BY <3>2, <3>3
  <2>2. UNCHANGED <<managers, tables, state, status, mixed>>
    BY <1>7 DEF RunJob
  <2> QED
    BY <2>1, <2>2 DEF TypeOK
<1>8. ASSUME NEW e \in Exec, Finish(e) PROVE TypeOK'
  <2>1. run[e].at = "running" /\ run[e].st \in State /\ run[e].by \in Manager
    BY <1>8 DEF Finish, TypeOK, Execution
  <2>2. state' \in [Manager -> State \cup {None}] /\ status' \in [State -> Statuses]
    BY <1>8, <2>1 DEF Finish, TypeOK, Statuses
  <2>3. mixed' \in [Manager -> BOOLEAN] /\ run' = [run EXCEPT ![e] = Free] /\ UNCHANGED <<managers, tables>>
    BY <1>8 DEF Finish, TypeOK
  <2> QED
    BY <2>2, <2>3, FreeIsExecution DEF TypeOK
<1>9. ASSUME NEW e \in Exec, NEW m \in Manager, Fire(e, m) PROVE TypeOK'
  <2>1. Execute(e, New(m, TRUE)) /\ UNCHANGED <<managers, store, entry, saves, missed, mixed>>
    BY <1>9 DEF Fire
  <2>2. New(m, TRUE) \in Execution
    BY <1>9, NewIsExecution DEF Fire
  <2> QED
    BY <2>1, <2>2, ExecuteType DEF TypeOK
<1>10. ASSUME NEW e \in Exec, RunTask(e) PROVE TypeOK'
  <2>1. Execute(e, run[e]) /\ UNCHANGED <<managers, store, entry, saves, missed, mixed>>
    BY <1>10 DEF RunTask
  <2>2. run[e] \in Execution
    BY DEF TypeOK
  <2> QED
    BY <2>1, <2>2, ExecuteType DEF TypeOK
<1>11. ASSUME NEW e \in Exec, Acquire(e) PROVE TypeOK'
  <2>1. Runs(e, run[e].by, run[e]) /\ UNCHANGED <<managers, tables, mixed>>
    BY <1>11 DEF Acquire
  <2>2. run[e] \in Execution /\ run[e].by \in Manager /\ run[e].sem # None
    BY <1>11 DEF Acquire, TypeOK, Execution
  <2> QED
    BY <2>1, <2>2, RunsType DEF TypeOK
<1>12. CASE UNCHANGED vars
  BY <1>12 DEF vars, TypeOK
<1> QED
  BY <1>1, <1>2, <1>3, <1>4, <1>5, <1>6, <1>7, <1>8, <1>9, <1>10, <1>11, <1>12 DEF Next
-----------------------------------------------------------------------------
(* The states                                                              *)

\* An execution that starts to run says so in its own manager's state.
LEMMA RunsKeeps ==
  ASSUME TypeOK, OneOwner, RunningIsTrue, NEW e \in Exec, run[e].at # "running",
         NEW m \in Manager, NEW now \in Execution, now.by = m, now.sem # None,
         Runs(e, m, now)
  PROVE  OneOwner' /\ RunningIsTrue'
<1>1. PICK o \in State, r \in Execution :
        /\ o = state[m] \/ (state[m] = None /\ FreshState(o))
        /\ state' = [state EXCEPT ![m] = o]
        /\ status' = [status EXCEPT ![o] = "running"]
        /\ run' = [run EXCEPT ![e] = r]
        /\ r.at = "running" /\ r.by = m /\ r.st = o
  BY RunsEffect
<1>2. \A n \in Manager : state[n] = o => n = m
  BY <1>1, FreshIsUnused, NoneIsNoObject DEF OneOwner
<1>3. \A f \in Exec : run[f].at = "running" /\ run[f].st = o => run[f].by = m
  BY <1>1, FreshIsUnused DEF OneOwner
<1>4. run'[e] = r /\ (\A f \in Exec : f # e => run'[f] = run[f])
  BY <1>1 DEF TypeOK
<1>5. state'[m] = o /\ (\A n \in Manager : n # m => state'[n] = state[n])
  BY <1>1 DEF TypeOK
<1>6. OneOwner'
  BY <1>1, <1>2, <1>3, <1>4, <1>5 DEF OneOwner
<1>7. RunningIsTrue'
  <2> SUFFICES ASSUME NEW n \in Manager, state'[n] # None, status'[state'[n]] = "running"
               PROVE  \E f \in Exec : /\ run'[f].at = "running" /\ run'[f].by = n
                                      /\ run'[f].st = state'[n]
    BY DEF RunningIsTrue, Running, InFlight
  <2>1. CASE n = m
    BY <1>1, <1>4, <1>5, <2>1
  <2>2. CASE n # m
    <3>1. state[n] # None /\ state[n] # o /\ state[n] \in State
      BY <1>2, <1>5, <2>2 DEF TypeOK
    <3>2. status[state[n]] = "running"
      BY <1>1, <1>5, <2>2, <3>1 DEF TypeOK
    <3>3. PICK f \in Exec : run[f].at = "running" /\ run[f].by = n /\ run[f].st = state[n]
      BY <3>1, <3>2 DEF RunningIsTrue, Running, InFlight
    <3> QED
      BY <1>4, <1>5, <2>2, <3>3
  <2> QED
    BY <2>1, <2>2
<1> QED
  BY <1>6, <1>7

\* Executions that do not run do not matter.
LEMMA OthersKeep ==
  ASSUME OneOwner, RunningIsTrue, UNCHANGED <<state, status>>,
         \A e \in Exec : run'[e].at = "running" <=> run[e].at = "running",
         \A e \in Exec : run[e].at = "running" => run'[e] = run[e]
  PROVE  OneOwner' /\ RunningIsTrue'
<1>1. OneOwner'
  BY DEF OneOwner
<1>2. \A m \in Manager : Running(m)' = Running(m)
  BY DEF Running, InFlight
<1>3. RunningIsTrue'
  BY <1>2 DEF RunningIsTrue, Running, InFlight
<1> QED
  BY <1>1, <1>3

\* A registration makes a state object that nobody else refers to.
LEMMA RegisterKeeps ==
  ASSUME TypeOK, OneOwner, RunningIsTrue, NEW m \in Manager, NEW job, Register(m, job),
         run' = run
  PROVE  OneOwner' /\ RunningIsTrue'
<1>1. CASE UNCHANGED <<state, status>>
  BY <1>1, OthersKeep
<1>2. ASSUME NEW o \in State, FreshState(o),
             state' = [state EXCEPT ![m] = o],
             status' = [status EXCEPT ![o] = "none"]
      PROVE  OneOwner' /\ RunningIsTrue'
  <2>1. /\ \A n \in Manager : state[n] # o
        /\ \A e \in Exec : run[e].at = "running" => run[e].st # o
    BY <1>2, FreshIsUnused
  <2>2. state'[m] = o /\ (\A n \in Manager : n # m => state'[n] = state[n])
    BY <1>2 DEF TypeOK
  <2>3. OneOwner'
    BY <2>1, <2>2 DEF OneOwner
  <2>4. \A n \in Manager : state'[n] # None /\ status'[state'[n]] = "running"
                             => n # m /\ status[state[n]] = "running"
    BY <1>2, <2>1, <2>2 DEF TypeOK
  <2>5. RunningIsTrue'
    BY <2>2, <2>4 DEF RunningIsTrue, Running, InFlight
  <2> QED
    BY <2>3, <2>5
<1> QED
  BY <1>1, <1>2 DEF Register

\* An execution that ends, or is cancelled while it runs, puts another status in
\* the state object it holds, which becomes its manager's state.
LEMMA EndKeeps ==
  ASSUME TypeOK, OneOwner, RunningIsTrue, NEW e \in Exec, run[e].at = "running",
         NEW end \in {"success", "error", "cancelled"},
         status' = [status EXCEPT ![run[e].st] = end],
         state' = [state EXCEPT ![run[e].by] = run[e].st],
         \A f \in Exec : run'[f] = run[f] \/ run'[f] = Free,
         \A f \in Exec : run'[f] # run[f] => run[f].by = run[e].by
  PROVE  OneOwner' /\ RunningIsTrue'
<1> DEFINE m == run[e].by
           o == run[e].st
<1>1. m \in Manager /\ o \in State
  BY DEF TypeOK, Execution
<1>2. state'[m] = o /\ (\A n \in Manager : n # m => state'[n] = state[n])
  BY <1>1 DEF TypeOK
<1>3. \A f \in Exec : run'[f].at = "running" => run'[f] = run[f]
  BY FreeIsExecution
<1>4. \A n \in Manager : state[n] = o => n = m
  BY DEF OneOwner
<1>5. OneOwner'
  <2>1. \A n, p \in Manager : state'[n] # None /\ state'[n] = state'[p] => n = p
    BY <1>2, <1>4 DEF OneOwner
  <2>2. \A f \in Exec : \A n \in Manager :
          run'[f].at = "running" /\ run'[f].st = state'[n] => run'[f].by = n
    <3> TAKE f \in Exec
    <3> TAKE n \in Manager
    <3>1. CASE n = m
      BY <1>2, <1>3, <3>1 DEF OneOwner
    <3>2. CASE n # m
      BY <1>2, <1>3, <3>2 DEF OneOwner
    <3> QED
      BY <3>1, <3>2
  <2> QED
    BY <1>3, <2>1, <2>2 DEF OneOwner
<1>6. RunningIsTrue'
  <2> SUFFICES ASSUME NEW n \in Manager, state'[n] # None, status'[state'[n]] = "running"
               PROVE  \E f \in Exec : /\ run'[f].at = "running" /\ run'[f].by = n
                                      /\ run'[f].st = state'[n]
    BY DEF RunningIsTrue, Running, InFlight
  <2>1. n # m
    BY <1>1, <1>2 DEF TypeOK
  <2>2. state[n] \in State /\ state[n] # o /\ status[state[n]] = "running"
    BY <1>1, <1>2, <1>4, <2>1 DEF TypeOK
  <2>3. PICK f \in Exec : run[f].at = "running" /\ run[f].by = n /\ run[f].st = state[n]
    BY <1>2, <2>1, <2>2 DEF RunningIsTrue, Running, InFlight
  <2>4. run'[f] = run[f]
    BY <2>1, <2>3
  <2> QED
    BY <1>2, <2>1, <2>3, <2>4
<1> QED
  BY <1>5, <1>6

\* Up to the semaphore, then running or waiting.
LEMMA ExecuteKeeps ==
  ASSUME TypeOK, OneOwner, RunningIsTrue, NEW e \in Exec, run[e].at # "running",
         NEW now \in Execution, Execute(e, now)
  PROVE  OneOwner' /\ RunningIsTrue'
<1>1. PICK s \in Sem : Reaches(e, now.by, [now EXCEPT !.sem = s])
  BY DEF Execute
<1> DEFINE now2 == [now EXCEPT !.sem = s]
<1>2. now2 \in Execution /\ now2.by = now.by /\ now2.sem # None /\ now.by \in Manager
  BY NoneIsNoObject DEF Execution
<1>3. CASE Runs(e, now.by, now2)
  BY <1>2, <1>3, RunsKeeps
<1>4. CASE run' = [run EXCEPT ![e] = [now2 EXCEPT !.at = "waiting"]] /\ UNCHANGED <<state, status>>
  <2>1. [now2 EXCEPT !.at = "waiting"].at = "waiting"
    BY <1>2 DEF Execution
  <2>2. /\ run'[e].at = "waiting"
        /\ \A f \in Exec : f # e => run'[f] = run[f]
    BY <1>4, <2>1 DEF TypeOK
  <2>3. \A f \in Exec : run'[f].at = "running" <=> run[f].at = "running"
    BY <2>2
  <2>4. \A f \in Exec : run[f].at = "running" => run'[f] = run[f]
    BY <2>2
  <2> QED
    BY <1>4, <2>3, <2>4, OthersKeep
<1> QED
  BY <1>1, <1>3, <1>4 DEF Reaches

LEMMA StateStep ==
  TypeOK /\ OneOwner /\ RunningIsTrue /\ [Next]_vars => OneOwner' /\ RunningIsTrue'
<1> SUFFICES ASSUME TypeOK, OneOwner, RunningIsTrue, [Next]_vars
             PROVE  OneOwner' /\ RunningIsTrue'
  OBVIOUS
<1>1. ASSUME NEW m \in Manager, Start(m) PROVE OneOwner' /\ RunningIsTrue'
  <2>1. CASE Register(m, store)
    BY <1>1, <2>1, RegisterKeeps DEF Start
  <2>2. CASE NothingRegistered
    BY <1>1, <2>2, OthersKeep DEF Start, NothingRegistered
  <2> QED
    BY <1>1, <2>1, <2>2 DEF Start
<1>2. ASSUME NEW m \in Manager, Stop(m) PROVE OneOwner' /\ RunningIsTrue'
  <2>1. /\ run' = [e \in Exec |-> IF e \in Cancelled(m) THEN Free ELSE run[e]]
        /\ \A e \in Cancelled(m) : e \in Exec /\ run[e].by = m
    BY <1>2 DEF Stop, Cancelled, InFlight
  <2>2. CASE (\A e \in Cancelled(m) : run[e].at # "running") /\ UNCHANGED <<state, status>>
    <3>1. \A e \in Exec : run'[e].at = "running" <=> run[e].at = "running"
      BY <2>1, <2>2, FreeIsExecution
    <3>2. \A e \in Exec : run[e].at = "running" => run'[e] = run[e]
      BY <2>1, <2>2
    <3> QED
      BY <2>2, <3>1, <3>2, OthersKeep
  <2>3. ASSUME NEW e \in Cancelled(m), run[e].at = "running",
               NEW end \in {"cancelled", "error"},
               status' = [status EXCEPT ![run[e].st] = end],
               state' = [state EXCEPT ![m] = run[e].st]
        PROVE  OneOwner' /\ RunningIsTrue'
    <3>1. e \in Exec /\ run[e].by = m
      BY <2>1
    <3>2. \A f \in Exec : run'[f] = run[f] \/ run'[f] = Free
      BY <2>1
    <3>3. \A f \in Exec : run'[f] # run[f] => run[f].by = run[e].by
      BY <2>1, <3>1
    <3> QED
      BY <2>3, <3>1, <3>2, <3>3, EndKeeps
  <2> QED
    BY <1>2, <2>2, <2>3 DEF Stop
<1>3. CASE Swap
  BY <1>3, OthersKeep DEF Swap
<1>4. CASE Delete
  <2>1. state' = [state EXCEPT ![serving] = None] /\ UNCHANGED <<run, status>> /\ serving \in Manager
    BY <1>4 DEF Delete, TypeOK
  <2>2. state'[serving] = None /\ (\A n \in Manager : n # serving => state'[n] = state[n])
    BY <2>1 DEF TypeOK
  <2>3. \A e \in Exec : run[e].at = "running" => run[e].st # None
    BY DEF TypeOK
  <2>4. OneOwner'
    BY <2>1, <2>2, <2>3 DEF OneOwner
  <2>5. RunningIsTrue'
    BY <2>1, <2>2 DEF RunningIsTrue, Running, InFlight
  <2> QED
    BY <2>4, <2>5
<1>5. CASE PauseOrResume
  BY <1>5, OthersKeep DEF PauseOrResume
<1>6. ASSUME NEW job \in Jobs, Save(job) PROVE OneOwner' /\ RunningIsTrue'
  <2>1. serving \in Manager /\ run' = run
    BY <1>6 DEF Save, TypeOK
  <2>2. CASE Register(serving, job)
    BY <2>1, <2>2, RegisterKeeps
  <2>3. CASE NothingRegistered
    BY <2>1, <2>3, OthersKeep DEF NothingRegistered
  <2> QED
    BY <1>6, <2>2, <2>3 DEF Save
<1>7. ASSUME NEW e \in Exec, RunJob(e) PROVE OneOwner' /\ RunningIsTrue'
  <2>1. New(serving, FALSE) \in Execution
    BY <1>7, NewIsExecution DEF RunJob, TypeOK
  <2>2. [New(serving, FALSE) EXCEPT !.at = "created"].at = "created"
    BY <2>1 DEF Execution
  <2>3. /\ run[e].at = "free" /\ run'[e].at = "created"
        /\ \A f \in Exec : f # e => run'[f] = run[f]
        /\ UNCHANGED <<state, status>>
    BY <1>7, <2>2 DEF RunJob, TypeOK
  <2>4. \A f \in Exec : run'[f].at = "running" <=> run[f].at = "running"
    BY <2>3
  <2>5. \A f \in Exec : run[f].at = "running" => run'[f] = run[f]
    BY <2>3
  <2> QED
    BY <2>3, <2>4, <2>5, OthersKeep
<1>8. ASSUME NEW e \in Exec, Finish(e) PROVE OneOwner' /\ RunningIsTrue'
  <2>1. PICK end \in {"success", "error"} : status' = [status EXCEPT ![run[e].st] = end]
    BY <1>8 DEF Finish
  <2>2. /\ run[e].at = "running"
        /\ state' = [state EXCEPT ![run[e].by] = run[e].st]
        /\ run' = [run EXCEPT ![e] = Free]
    BY <1>8 DEF Finish
  <2>3. \A f \in Exec : run'[f] = run[f] \/ run'[f] = Free
    BY <2>2 DEF TypeOK
  <2>4. \A f \in Exec : run'[f] # run[f] => run[f].by = run[e].by
    BY <2>2 DEF TypeOK
  <2> QED
    BY <2>1, <2>2, <2>3, <2>4, EndKeeps
<1>9. ASSUME NEW e \in Exec, NEW m \in Manager, Fire(e, m)
      PROVE  OneOwner' /\ RunningIsTrue'
  <2>1. Execute(e, New(m, TRUE)) /\ run[e].at = "free" /\ New(m, TRUE) \in Execution
    BY <1>9, NewIsExecution DEF Fire
  <2> QED
    BY <2>1, ExecuteKeeps
<1>10. ASSUME NEW e \in Exec, RunTask(e) PROVE OneOwner' /\ RunningIsTrue'
  <2>1. Execute(e, run[e]) /\ run[e].at = "created" /\ run[e] \in Execution
    BY <1>10 DEF RunTask, TypeOK
  <2> QED
    BY <2>1, ExecuteKeeps
<1>11. ASSUME NEW e \in Exec, Acquire(e) PROVE OneOwner' /\ RunningIsTrue'
  <2>1. /\ Runs(e, run[e].by, run[e]) /\ run[e].at = "waiting"
        /\ run[e] \in Execution /\ run[e].by \in Manager /\ run[e].sem # None
    BY <1>11 DEF Acquire, TypeOK, Execution
  <2> QED
    BY <2>1, RunsKeeps
<1>12. CASE UNCHANGED vars
  BY <1>12, OthersKeep DEF vars
<1> QED
  BY <1>1, <1>2, <1>3, <1>4, <1>5, <1>6, <1>7, <1>8, <1>9, <1>10, <1>11, <1>12 DEF Next
-----------------------------------------------------------------------------
(* The semaphores                                                          *)

LEMMA FreshSemIsUnused ==
  ASSUME NEW s \in Sem, FreshSem(s)
  PROVE  (\A m \in Manager : rt[m] # s) /\ Holders(s) = {}
BY DEF FreshSem, UsedSems, Holders

LEMMA HoldersAreFinite == \A s : IsFiniteSet(Holders(s)) /\ Cardinality(Holders(s)) \in Nat
<1> TAKE s
<1>1. Holders(s) \subseteq Exec /\ IsFiniteSet(Exec)
  BY BoundAssumption DEF Holders
<1>2. IsFiniteSet(Holders(s))
  BY <1>1, FS_Subset
<1> QED
  BY <1>2, FS_CardinalityType

\* What happens to the semaphores when an execution gets to one.
LEMMA ExecuteEffect ==
  ASSUME TypeOK, NEW e \in Exec, NEW now \in Execution, Execute(e, now)
  PROVE  \E r \in Execution :
           /\ run' = [run EXCEPT ![e] = r]
           /\ r.at \in {"waiting", "running"} /\ r.by = now.by /\ r.sem \in Sem
           /\ r.sem = rt'[r.by] /\ r.fired = now.fired
           /\ \/ rt[r.by] # None /\ UNCHANGED <<rt, limit>>
              \/ /\ rt[r.by] = None /\ FreshSem(r.sem)
                 /\ rt' = [rt EXCEPT ![r.by] = r.sem]
                 /\ limit' = [limit EXCEPT ![r.sem] = now.max]
           /\ r.at = "running" => Cardinality(Holders(r.sem)) < limit'[r.sem]
<1>1. PICK s \in Sem :
        /\ IF rt[now.by] # None
             THEN s = rt[now.by] /\ UNCHANGED <<rt, limit>>
             ELSE /\ FreshSem(s)
                  /\ rt' = [rt EXCEPT ![now.by] = s]
                  /\ limit' = [limit EXCEPT ![s] = now.max]
        /\ Reaches(e, now.by, [now EXCEPT !.sem = s])
  BY DEF Execute
<1>2. now.by \in Manager
  BY DEF Execution
<1>3. s = rt'[now.by]
  BY <1>1, <1>2 DEF TypeOK
<1> DEFINE now2 == [now EXCEPT !.sem = s]
<1>4. /\ now2 \in Execution /\ now2.fired = now.fired
      /\ now2.by = now.by /\ now2.sem = s /\ now2.sem # None
  BY NoneIsNoObject DEF Execution
<1> HIDE DEF now2
<1>5. Reaches(e, now.by, now2)
  BY <1>1 DEF now2
<1>6. CASE Cardinality(Holders(s)) < limit'[s] /\ Runs(e, now.by, now2)
  <2>1. PICK r \in Execution : /\ run' = [run EXCEPT ![e] = r]
                               /\ r.at = "running" /\ r.by = now.by /\ r.sem = s
                               /\ r.fired = now.fired
    BY <1>2, <1>4, <1>6, RunsEffect
  <2> QED
    BY <1>1, <1>3, <1>6, <2>1
<1>7. CASE run' = [run EXCEPT ![e] = [now2 EXCEPT !.at = "waiting"]]
  <2>1. PICK r : r = [now2 EXCEPT !.at = "waiting"]
    OBVIOUS
  <2>2. r \in Execution /\ r.at = "waiting" /\ r.by = now.by /\ r.sem = s /\ r.fired = now.fired
    BY <1>4, <2>1 DEF Execution
  <2> QED
    BY <1>1, <1>3, <1>7, <2>1, <2>2
<1> QED
  BY <1>4, <1>5, <1>6, <1>7 DEF Reaches

\* What a step of an execution does to the rest: it touches no manager and no
\* entry, it may give its manager the first semaphore, and it stays with one.
OneExecution(e, r) ==
  /\ run' = [run EXCEPT ![e] = r]
  /\ UNCHANGED <<managers, store, entry, missed>>
  /\ r.at # "free" =>
       /\ up[r.by] # "new"
       /\ \/ run[e].at # "free" /\ r.by = run[e].by /\ r.fired = run[e].fired
          \/ r.fired /\ \A f \in InFlight(r.by) : ~run[f].fired
          \/ ~r.fired /\ r.by = serving
  /\ \/ UNCHANGED <<rt, limit>>
     \/ \E n \in Nat :
          /\ rt[r.by] = None /\ r.sem \in Sem /\ FreshSem(r.sem)
          /\ rt' = [rt EXCEPT ![r.by] = r.sem] /\ limit' = [limit EXCEPT ![r.sem] = n]
  /\ r.at \in {"waiting", "running"} =>
       /\ r.sem \in Sem
       /\ \/ r.sem = rt'[r.by]
          \/ /\ UNCHANGED <<rt, limit>>
             /\ run[e].at = "waiting" /\ r.sem = run[e].sem /\ r.by = run[e].by
  /\ r.at = "running" => Cardinality(Holders(r.sem)) < limit'[r.sem] /\ run[e].at # "running"
  /\ \/ UNCHANGED mixed
     \/ /\ r.at = "free" /\ run[e].by \in Manager
        /\ mixed' = [mixed EXCEPT ![run[e].by] = @ /\ InFlight(run[e].by) # {e}]

LEMMA ExecutionEffect ==
  ASSUME TypeOK, Untouched, NEW e \in Exec,
         \/ RunJob(e) \/ Finish(e)
         \/ \E m \in Manager : Fire(e, m)
         \/ RunTask(e) \/ Acquire(e)
  PROVE  \E r \in Execution : OneExecution(e, r)
<1>0. run[e] \in Execution /\ run[e].by \in Manager /\ serving \in Manager
  BY DEF TypeOK, Execution
<1>00. run[e].at # "free" => up[run[e].by] # "new"
  BY <1>0 DEF Untouched, InFlight
<1>1. CASE RunJob(e)
  <2>1. /\ New(serving, FALSE) \in Execution
        /\ New(serving, FALSE).by = serving /\ ~New(serving, FALSE).fired
    BY <1>0, <1>1, NewIsExecution DEF RunJob
  <2> DEFINE r == [New(serving, FALSE) EXCEPT !.at = "created"]
  <2>2. r \in Execution /\ r.at = "created" /\ r.by = serving /\ ~r.fired
    BY <2>1 DEF Execution
  <2>3. run' = [run EXCEPT ![e] = r] /\ up[serving] = "started"
    BY <1>1 DEF RunJob
  <2>4. UNCHANGED <<managers, store, entry, missed, rt, limit, mixed>>
    BY <1>1 DEF RunJob, tables
  <2> HIDE DEF r
  <2> QED
    BY <2>2, <2>3, <2>4 DEF OneExecution
<1>2. CASE Finish(e)
  <2>1. /\ run' = [run EXCEPT ![e] = Free]
        /\ mixed' = [mixed EXCEPT ![run[e].by] = @ /\ InFlight(run[e].by) # {e}]
        /\ UNCHANGED <<managers, store, entry, missed, rt, limit>>
    BY <1>2 DEF Finish, tables
  <2> QED
    BY <1>0, <2>1, FreeIsExecution DEF OneExecution
<1>3. ASSUME NEW now \in Execution, Execute(e, now), up[now.by] # "new",
             run[e].at \in {"free", "created"},
             \/ run[e].at # "free" /\ now = run[e]
             \/ now.fired /\ \A f \in InFlight(now.by) : ~run[f].fired,
             UNCHANGED <<managers, store, entry, saves, missed, mixed>>
      PROVE  \E r \in Execution : OneExecution(e, r)
  <2>1. PICK r \in Execution :
           /\ run' = [run EXCEPT ![e] = r]
           /\ r.at \in {"waiting", "running"} /\ r.by = now.by /\ r.sem \in Sem
           /\ r.sem = rt'[r.by] /\ r.fired = now.fired
           /\ \/ rt[r.by] # None /\ UNCHANGED <<rt, limit>>
              \/ /\ rt[r.by] = None /\ FreshSem(r.sem)
                 /\ rt' = [rt EXCEPT ![r.by] = r.sem]
                 /\ limit' = [limit EXCEPT ![r.sem] = now.max]
           /\ r.at = "running" => Cardinality(Holders(r.sem)) < limit'[r.sem]
    BY <1>3, ExecuteEffect
  <2>2. now.max \in Nat
    BY DEF Execution
  <2> QED
    BY <1>3, <2>1, <2>2 DEF OneExecution
<1>4. ASSUME NEW m \in Manager, Fire(e, m) PROVE \E r \in Execution : OneExecution(e, r)
  <2>1. New(m, TRUE) \in Execution /\ New(m, TRUE).by = m /\ New(m, TRUE).fired
    BY <1>4, NewIsExecution DEF Fire
  <2>2. /\ Execute(e, New(m, TRUE)) /\ up[m] = "started" /\ run[e].at = "free"
        /\ \A f \in InFlight(m) : ~run[f].fired
        /\ UNCHANGED <<managers, store, entry, saves, missed, mixed>>
    BY <1>4 DEF Fire
  <2> QED
    BY <1>3, <2>1, <2>2
<1>5. CASE RunTask(e)
  <2>1. /\ Execute(e, run[e]) /\ run[e].at = "created"
        /\ UNCHANGED <<managers, store, entry, saves, missed, mixed>>
    BY <1>5 DEF RunTask
  <2> QED
    BY <1>0, <1>00, <1>3, <2>1
<1>6. CASE Acquire(e)
  <2>1. /\ run[e].at = "waiting" /\ Runs(e, run[e].by, run[e])
        /\ Cardinality(Holders(run[e].sem)) < limit[run[e].sem]
        /\ UNCHANGED <<managers, store, entry, missed, rt, limit, mixed>>
    BY <1>6 DEF Acquire, tables
  <2>2. run[e].sem # None /\ run[e].sem \in Sem
    BY <2>1 DEF TypeOK, Execution
  <2>3. PICK r \in Execution :
          /\ run' = [run EXCEPT ![e] = r]
          /\ r.at = "running" /\ r.by = run[e].by /\ r.sem = run[e].sem
          /\ r.fired = run[e].fired
    BY <1>0, <2>1, <2>2, RunsEffect
  <2> QED
    BY <1>00, <2>1, <2>2, <2>3 DEF OneExecution
<1> QED
  BY <1>1, <1>2, <1>4, <1>5, <1>6
-----------------------------------------------------------------------------
(* Managers that have not started, and the schedule                        *)

LEMMA UntouchedStep == TypeOK /\ Untouched /\ [Next]_vars => Untouched'
<1> SUFFICES ASSUME TypeOK, Untouched, [Next]_vars,
                    NEW n \in Manager, up'[n] = "new"
             PROVE  entry'[n] = "none" /\ InFlight(n)' = {}
  BY DEF Untouched
<1>0. serving \in Manager /\ (up[n] = "new" => entry[n] = "none" /\ InFlight(n) = {})
  BY DEF TypeOK, Untouched
<1> USE DEF InFlight
<1>1. ASSUME NEW m \in Manager, Start(m) PROVE entry'[n] = "none" /\ InFlight(n)' = {}
  <2>1. n # m /\ up[n] = "new" /\ run' = run
    BY <1>1 DEF Start, TypeOK
  <2>2. entry'[n] = entry[n]
    BY <1>1, <2>1 DEF Start, Register, NothingRegistered, TypeOK
  <2> QED
    BY <1>0, <2>1, <2>2
<1>2. ASSUME NEW m \in Manager, Stop(m) PROVE entry'[n] = "none" /\ InFlight(n)' = {}
  <2>1. n # m /\ up[n] = "new" /\ entry'[n] = entry[n]
    BY <1>2 DEF Stop, TypeOK
  <2>2. \A f \in Exec : run'[f] = run[f] \/ run'[f] = Free
    BY <1>2 DEF Stop
  <2> QED
    BY <1>0, <2>1, <2>2, FreeIsExecution
<1>3. ASSUME UNCHANGED <<up, run>>, up[serving] # "new",
             \A m \in Manager : m # serving => entry'[m] = entry[m]
      PROVE  entry'[n] = "none" /\ InFlight(n)' = {}
  BY <1>0, <1>3
<1>4. CASE Swap
  BY <1>0, <1>4 DEF Swap, managers, tables
<1>5. CASE Delete
  BY <1>3, <1>5 DEF Delete, Changing, managers, TypeOK
<1>6. CASE PauseOrResume
  BY <1>3, <1>6 DEF PauseOrResume, managers, TypeOK
<1>7. ASSUME NEW job \in Jobs, Save(job) PROVE entry'[n] = "none" /\ InFlight(n)' = {}
  <2>1. UNCHANGED <<up, run>> /\ up[serving] # "new"
    BY <1>7 DEF Save, Changing, managers
  <2>2. \A m \in Manager : m # serving => entry'[m] = entry[m]
    BY <1>7 DEF Save, Register, NothingRegistered, TypeOK
  <2> QED
    BY <1>3, <2>1, <2>2
<1>8. ASSUME NEW e \in Exec, NEW r \in Execution, OneExecution(e, r)
      PROVE  entry'[n] = "none" /\ InFlight(n)' = {}
  <2>1. run'[e] = r /\ (\A f \in Exec : f # e => run'[f] = run[f])
    BY <1>8 DEF OneExecution, TypeOK
  <2>2. UNCHANGED <<up, entry>> /\ (r.at # "free" => up[r.by] # "new")
    BY <1>8 DEF OneExecution, managers
  <2> QED
    BY <1>0, <2>1, <2>2
<1>9. CASE UNCHANGED vars
  BY <1>0, <1>9 DEF vars
<1> QED
  BY <1>1, <1>2, <1>4, <1>5, <1>6, <1>7, <1>8, <1>9, ExecutionEffect DEF Next

LEMMA ScheduledStep == TypeOK /\ Untouched /\ Scheduled /\ [Next]_vars => Scheduled'
<1> SUFFICES ASSUME TypeOK, Untouched, Scheduled, [Next]_vars, ~missed',
                    NEW n \in Manager, Current(n)', up'[n] = "started"
             PROVE  /\ store' = None => entry'[n] = "none"
                    /\ store' # None /\ store'.valid => entry'[n] # "none"
  BY DEF Scheduled
<1> DEFINE Goal == /\ store' = None => entry'[n] = "none"
                   /\ store' # None /\ store'.valid => entry'[n] # "none"
<1> HIDE DEF Goal
<1> SUFFICES Goal
  BY DEF Goal
<1>0. serving \in Manager /\ serving' \in Manager
  BY TypeStep DEF TypeOK
<1>00. \A job \in Jobs : job # None
  BY NoneAssumption
<1>1. ASSUME NEW m \in Manager, Start(m) PROVE Goal
  <2>1. UNCHANGED <<serving, missed>> /\ up' = [up EXCEPT ![m] = "started"]
    BY <1>1 DEF Start
  <2>2. (store' = None <=> store = None) /\ (store' # None => (store'.valid <=> store.valid))
    BY <1>1, <1>00, JobAssumption DEF Start, TypeOK
  <2>3. CASE n = m
    <3>1. up[m] = "new" /\ entry[m] = "none"
      BY <1>1 DEF Start, Untouched
    <3>2. CASE store # None /\ store.valid
      BY <1>1, <2>2, <2>3, <3>2 DEF Start, Register, Goal, TypeOK
    <3>3. CASE ~(store # None /\ store.valid)
      BY <1>1, <2>2, <2>3, <3>1, <3>3 DEF Start, NothingRegistered, Goal
    <3> QED
      BY <3>2, <3>3
  <2>4. CASE n # m
    <3>1. entry'[n] = entry[n]
      BY <1>1, <2>4 DEF Start, Register, NothingRegistered, TypeOK
    <3>2. up[n] = "started" /\ Current(n)
      BY <2>1, <2>4 DEF Current, TypeOK
    <3> QED
      BY <2>1, <2>2, <3>1, <3>2 DEF Scheduled, Goal
  <2> QED
    BY <2>3, <2>4
<1>2. ASSUME UNCHANGED <<store, entry, missed>>, Current(n), up[n] = "started" PROVE Goal
  BY <1>2 DEF Scheduled, Goal
<1>3. ASSUME NEW m \in Manager, Stop(m) PROVE Goal
  <2>1. n # m /\ up[n] = "started" /\ Current(n) /\ entry'[n] = entry[n]
    BY <1>3 DEF Stop, Current, TypeOK
  <2>2. UNCHANGED <<store, missed>>
    BY <1>3 DEF Stop
  <2> QED
    BY <2>1, <2>2 DEF Scheduled, Goal
<1>4. CASE Swap
  BY <1>2, <1>4 DEF Swap, tables, Current
<1>5. ASSUME Changing, UNCHANGED managers PROVE n = serving
  BY <1>0, <1>5 DEF Changing, managers, Current, Manager
<1>6. CASE Delete
  <2>1. n = serving /\ store' = None /\ entry' = [entry EXCEPT ![serving] = "none"]
    BY <1>5, <1>6 DEF Delete
  <2> QED
    BY <2>1 DEF Goal, TypeOK
<1>7. ASSUME NEW job \in Jobs, Save(job) PROVE Goal
  <2>1. n = serving /\ store' = job /\ store' # None
    BY <1>00, <1>5, <1>7 DEF Save
  <2>2. CASE job.valid
    BY <1>0, <1>7, <2>1, <2>2 DEF Save, Register, Goal, TypeOK
  <2>3. CASE ~job.valid
    BY <2>1, <2>3 DEF Goal
  <2> QED
    BY <2>2, <2>3
<1>8. CASE PauseOrResume
  <2>1. UNCHANGED <<managers, store, missed>> /\ entry[serving] # "none"
    BY <1>8 DEF PauseOrResume
  <2>2. up[n] = "started" /\ Current(n)
    BY <2>1 DEF managers, Current
  <2>3. entry'[n] = "none" <=> entry[n] = "none"
    BY <1>0, <1>8, <2>1 DEF PauseOrResume, TypeOK
  <2> QED
    BY <2>1, <2>2, <2>3 DEF Scheduled, Goal
<1>9. ASSUME NEW e \in Exec, NEW r \in Execution, OneExecution(e, r) PROVE Goal
  BY <1>2, <1>9 DEF OneExecution, managers, Current
<1>10. CASE UNCHANGED vars
  BY <1>2, <1>10 DEF vars, Current
<1> QED
  BY <1>1, <1>3, <1>4, <1>6, <1>7, <1>8, <1>9, <1>10, ExecutionEffect DEF Next
-----------------------------------------------------------------------------
(* The limit                                                               *)

\* A registration: the new semaphore has the limit of the job.
LEMMA RegisterEffect ==
  ASSUME TypeOK, NEW m \in Manager, NEW job \in Jobs, Register(m, job)
  PROVE  \E s \in Sem :
           /\ FreshSem(s)
           /\ rt' = [rt EXCEPT ![m] = s] /\ rt'[m] = s
           /\ limit' = [limit EXCEPT ![s] = job.max] /\ limit'[s] = job.max
BY DEF Register, TypeOK

LEMMA RightLimitStep ==
  TypeOK /\ Untouched /\ RightLimit /\ [Next]_vars => RightLimit'
<1> SUFFICES ASSUME TypeOK, Untouched, RightLimit, [Next]_vars,
                    ~missed', store' # None, store'.valid,
                    NEW n \in Manager, Current(n)'
             PROVE  rt'[n] # None /\ limit'[rt'[n]] = store'.max
  BY DEF RightLimit
<1> DEFINE Goal == rt'[n] # None /\ limit'[rt'[n]] = store'.max
<1> HIDE DEF Goal
<1> SUFFICES Goal
  BY DEF Goal
<1>0. serving \in Manager /\ \A job \in Jobs : job # None
  BY NoneAssumption DEF TypeOK
<1>1. ASSUME NEW m \in Manager, NEW job \in Jobs, Register(m, job), store' = job, n = m
      PROVE  Goal
  BY <1>1, RegisterEffect, NoneIsNoObject DEF Goal
<1>2. ASSUME UNCHANGED <<store, missed>>, Current(n),
             rt[n] # None => rt'[n] = rt[n] /\ limit'[rt[n]] = limit[rt[n]]
      PROVE  Goal
  BY <1>2 DEF RightLimit, Goal
<1>3. ASSUME NEW m \in Manager, Start(m) PROVE Goal
  <2>1. UNCHANGED <<serving, missed>> /\ up' = [up EXCEPT ![m] = "started"]
    BY <1>3 DEF Start
  <2>2. store # None /\ store.valid /\ store' = store /\ Register(m, store)
    BY <1>3, JobAssumption DEF Start, TypeOK
  <2>3. CASE n = m
    BY <1>1, <2>2, <2>3 DEF TypeOK
  <2>4. CASE n # m
    <3>1. Current(n)
      BY <2>1, <2>4 DEF Current, TypeOK
    <3>2. PICK s \in Sem : /\ FreshSem(s) /\ rt' = [rt EXCEPT ![m] = s]
                           /\ limit' = [limit EXCEPT ![s] = store.max]
      BY <2>2, RegisterEffect DEF TypeOK
    <3>3. rt[n] # s /\ rt'[n] = rt[n]
      BY <2>4, <3>2, FreshSemIsUnused DEF TypeOK
    <3>4. rt[n] # None => limit'[rt[n]] = limit[rt[n]]
      BY <3>2, <3>3 DEF TypeOK
    <3> QED
      BY <1>2, <2>1, <2>2, <3>1, <3>3, <3>4
  <2> QED
    BY <2>3, <2>4
<1>4. ASSUME NEW m \in Manager, Stop(m) PROVE Goal
  <2>1. Current(n)
    BY <1>4 DEF Stop, Current, TypeOK, Manager
  <2> QED
    BY <1>2, <1>4, <2>1 DEF Stop
<1>5. CASE Swap
  BY <1>2, <1>5 DEF Swap, tables, Current
<1>6. CASE Delete
  BY <1>6 DEF Delete
<1>7. ASSUME NEW job \in Jobs, Save(job) PROVE Goal
  <2>1. n = serving
    BY <1>0, <1>7 DEF Save, Changing, managers, Current, Manager
  <2>2. store' = job /\ Register(serving, job)
    BY <1>7 DEF Save
  <2> QED
    BY <1>0, <1>1, <2>1, <2>2
<1>8. CASE PauseOrResume
  BY <1>2, <1>8 DEF PauseOrResume, managers, Current
<1>9. ASSUME NEW e \in Exec, NEW r \in Execution, OneExecution(e, r) PROVE Goal
  <2>1. UNCHANGED <<store, missed>> /\ Current(n)
    BY <1>9 DEF OneExecution, managers, Current
  <2>2. CASE UNCHANGED <<rt, limit>>
    BY <1>2, <2>1, <2>2
  <2>3. ASSUME NEW k \in Nat, rt[r.by] = None, r.sem \in Sem, FreshSem(r.sem),
               rt' = [rt EXCEPT ![r.by] = r.sem], limit' = [limit EXCEPT ![r.sem] = k]
        PROVE  Goal
    <3>1. rt[n] # r.sem
      BY <2>3, FreshSemIsUnused
    <3>2. rt[n] # None => rt'[n] = rt[n] /\ limit'[rt[n]] = limit[rt[n]]
      BY <2>3, <3>1 DEF TypeOK
    <3> QED
      BY <1>2, <2>1, <3>2
  <2> QED
    BY <1>9, <2>2, <2>3 DEF OneExecution
<1>10. CASE UNCHANGED vars
  BY <1>2, <1>10 DEF vars, Current
<1> QED
  BY <1>3, <1>4, <1>5, <1>6, <1>7, <1>8, <1>9, <1>10, ExecutionEffect DEF Next

LEMMA SharedSemStep ==
  TypeOK /\ Untouched /\ SharedSem /\ [Next]_vars => SharedSem'
<1> SUFFICES ASSUME TypeOK, Untouched, SharedSem, [Next]_vars,
                    NEW n \in Manager, ~mixed'[n], NEW f \in Exec,
                    run'[f].at \in {"waiting", "running"}, run'[f].by = n
             PROVE  run'[f].sem = rt'[n]
  BY DEF SharedSem, InFlight
<1>0. serving \in Manager
  BY DEF TypeOK
<1>1. \A m \in Manager : ~mixed[m] =>
        \A g \in Exec : run[g].at \in {"waiting", "running"} /\ run[g].by = m
                          => run[g].sem = rt[m] /\ rt[m] # None
  BY DEF SharedSem, InFlight, TypeOK
\* The execution is where it was, and so is its manager's semaphore.
<1>2. ASSUME run'[f] = run[f], mixed'[n] = mixed[n], rt'[n] = rt[n]
      PROVE  run'[f].sem = rt'[n]
  BY <1>1, <1>2
\* The job is changed while nothing is in flight.
<1>3. ASSUME run' = run, Changing PROVE FALSE
  BY <1>3 DEF Changing, InFlight
<1>4. ASSUME NEW m \in Manager, Start(m) PROVE run'[f].sem = rt'[n]
  <2>1. run' = run /\ mixed' = mixed /\ n # m
    BY <1>4 DEF Start, Untouched, InFlight
  <2>2. rt'[n] = rt[n]
    BY <1>4, <2>1 DEF Start, Register, NothingRegistered, TypeOK
  <2> QED
    BY <1>2, <2>1, <2>2
<1>6. ASSUME NEW m \in Manager, Stop(m) PROVE run'[f].sem = rt'[n]
  <2>1. /\ run' = [e \in Exec |-> IF e \in Cancelled(m) THEN Free ELSE run[e]]
        /\ mixed' = [mixed EXCEPT ![m] = @ /\ InFlight(m) # Cancelled(m)]
        /\ rt' = rt
    BY <1>6 DEF Stop
  <2>2. run'[f] = run[f] /\ f \notin Cancelled(m)
    BY <2>1, FreeIsExecution
  <2>3. n = m => f \in InFlight(m)
    BY <2>2 DEF InFlight
  <2>4. mixed'[n] = mixed[n]
    BY <2>1, <2>2, <2>3 DEF TypeOK
  <2> QED
    BY <1>2, <2>1, <2>2, <2>4
<1>7. CASE Swap
  BY <1>2, <1>7 DEF Swap, tables
<1>8. CASE Delete
  BY <1>3, <1>8 DEF Delete
<1>9. ASSUME NEW job \in Jobs, Save(job) PROVE run'[f].sem = rt'[n]
  BY <1>3, <1>9 DEF Save
<1>10. CASE PauseOrResume
  BY <1>2, <1>10 DEF PauseOrResume
<1>11. ASSUME NEW e \in Exec, NEW r \in Execution, OneExecution(e, r)
       PROVE  run'[f].sem = rt'[n]
  <2>1. run' = [run EXCEPT ![e] = r]
    BY <1>11 DEF OneExecution
  <2>2. run'[e] = r /\ (f # e => run'[f] = run[f])
    BY <2>1 DEF TypeOK
  <2>3. f # e => mixed'[n] = mixed[n]
    <3>1. CASE UNCHANGED mixed
      BY <3>1
    <3>2. CASE /\ r.at = "free" /\ run[e].by \in Manager
               /\ mixed' = [mixed EXCEPT ![run[e].by] = @ /\ InFlight(run[e].by) # {e}]
      <4>1. f # e => run[f].at # "free" /\ run[f].by = n
        BY <2>2
      <4>2. f # e /\ n = run[e].by => f \in InFlight(n)
        BY <4>1 DEF InFlight
      <4> QED
        BY <3>2, <4>2 DEF TypeOK
    <3> QED
      BY <1>11, <3>1, <3>2 DEF OneExecution
  <2>4. rt[n] # None => rt'[n] = rt[n]
    BY <1>11 DEF OneExecution, TypeOK
  <2>5. CASE f # e
    BY <1>1, <2>2, <2>3, <2>4, <2>5
  <2>6. CASE f = e
    <3>1. r.at \in {"waiting", "running"} /\ r.by = n
      BY <2>2, <2>6
    <3>2. ~mixed[n]
      BY <1>11, <3>1 DEF OneExecution
    <3>3. \/ r.sem = rt'[r.by]
          \/ rt' = rt /\ run[e].at = "waiting" /\ r.sem = run[e].sem /\ r.by = run[e].by
      BY <1>11, <3>1 DEF OneExecution
    <3> QED
      BY <1>1, <2>2, <2>6, <3>1, <3>2, <3>3
  <2> QED
    BY <2>5, <2>6
<1>12. CASE UNCHANGED vars
  BY <1>2, <1>12 DEF vars
<1> QED
  BY <1>4, <1>6, <1>7, <1>8, <1>9, <1>10, <1>11, <1>12, ExecutionEffect DEF Next

\* Executions end, or wait, or a new semaphore is made: no permit is given.
LEMMA NoPermitGiven ==
  ASSUME Permits, \A f \in Exec : run'[f].at = "running" => run'[f] = run[f],
         limit' \in [Sem -> Nat],
         \A s \in Sem : limit'[s] = limit[s] \/ Holders(s) = {}
  PROVE  Permits'
<1> SUFFICES ASSUME NEW s \in Sem PROVE Cardinality(Holders(s)') <= limit'[s]
  BY DEF Permits
<1>1. Holders(s)' \subseteq Holders(s)
  BY DEF Holders
<1>2. Cardinality(Holders(s)') <= Cardinality(Holders(s)) /\ Cardinality(Holders(s)') \in Nat
  BY <1>1, HoldersAreFinite, FS_Subset, FS_CardinalityType
<1>3. CASE Holders(s) = {}
  <2>1. Cardinality(Holders(s)') = 0
    BY <1>1, <1>3, FS_EmptySet
  <2> QED
    BY <2>1
<1>4. CASE limit'[s] = limit[s]
  <2>1. Cardinality(Holders(s)) <= limit'[s] /\ limit'[s] \in Nat
    BY <1>4 DEF Permits
  <2> QED
    BY <1>2, <2>1, HoldersAreFinite
<1> QED
  BY <1>3, <1>4

\* One execution gets a permit that is there.
LEMMA PermitGiven ==
  ASSUME Permits, NEW e \in Exec, \A f \in Exec : f # e => run'[f] = run[f],
         run'[e].at = "running" => Cardinality(Holders(run'[e].sem)) < limit'[run'[e].sem],
         limit' \in [Sem -> Nat],
         \A s \in Sem : limit'[s] = limit[s] \/ Holders(s) = {}
  PROVE  Permits'
<1> SUFFICES ASSUME NEW s \in Sem PROVE Cardinality(Holders(s)') <= limit'[s]
  BY DEF Permits
<1>0. IsFiniteSet(Holders(s)) /\ Cardinality(Holders(s)) \in Nat /\ limit'[s] \in Nat
  BY HoldersAreFinite
<1>1. CASE run'[e].at = "running" /\ run'[e].sem = s
  <2>1. Holders(s)' \subseteq Holders(s) \cup {e}
    BY DEF Holders
  <2>2. /\ IsFiniteSet(Holders(s) \cup {e})
        /\ Cardinality(Holders(s) \cup {e}) \in Nat
        /\ Cardinality(Holders(s) \cup {e}) <= Cardinality(Holders(s)) + 1
    <3>1. /\ IsFiniteSet(Holders(s) \cup {e})
          /\ Cardinality(Holders(s) \cup {e})
               = IF e \in Holders(s) THEN Cardinality(Holders(s)) ELSE Cardinality(Holders(s)) + 1
      BY <1>0, FS_AddElement, Zenon
    <3> QED
      BY <1>0, <3>1
  <2>3. /\ Cardinality(Holders(s)') <= Cardinality(Holders(s) \cup {e})
        /\ Cardinality(Holders(s)') \in Nat
    BY <2>1, <2>2, FS_Subset, FS_CardinalityType
  <2>4. Cardinality(Holders(s)) < limit'[s]
    BY <1>1
  <2> QED
    BY <1>0, <2>2, <2>3, <2>4
<1>2. CASE ~(run'[e].at = "running" /\ run'[e].sem = s)
  <2>1. Holders(s)' \subseteq Holders(s)
    BY <1>2 DEF Holders
  <2>2. Cardinality(Holders(s)') <= Cardinality(Holders(s)) /\ Cardinality(Holders(s)') \in Nat
    BY <2>1, <1>0, FS_Subset, FS_CardinalityType
  <2>3. CASE Holders(s) = {}
    <3>1. Cardinality(Holders(s)') = 0
      BY <2>1, <2>3, FS_EmptySet
    <3> QED
      BY <1>0, <3>1
  <2>4. CASE limit'[s] = limit[s]
    <3>1. Cardinality(Holders(s)) <= limit'[s]
      BY <2>4 DEF Permits
    <3> QED
      BY <1>0, <2>2, <3>1
  <2> QED
    BY <2>3, <2>4
<1> QED
  BY <1>1, <1>2

LEMMA PermitsStep == TypeOK /\ Untouched /\ Permits /\ [Next]_vars => Permits'
<1> SUFFICES ASSUME TypeOK, Untouched, Permits, [Next]_vars PROVE Permits'
  OBVIOUS
<1>0. serving \in Manager /\ limit' \in [Sem -> Nat]
  BY TypeStep DEF TypeOK
<1>1. ASSUME UNCHANGED <<run, limit>> PROVE Permits'
  BY <1>1 DEF Permits, Holders
<1>2. ASSUME NEW m \in Manager, NEW job \in Jobs, Register(m, job), run' = run PROVE Permits'
  <2>1. PICK s \in Sem : FreshSem(s) /\ limit' = [limit EXCEPT ![s] = job.max]
    BY <1>2, RegisterEffect
  <2>2. \A t \in Sem : limit'[t] = limit[t] \/ Holders(t) = {}
    BY <2>1, FreshSemIsUnused DEF TypeOK
  <2> QED
    BY <1>0, <1>2, <2>2, NoPermitGiven
<1>3. ASSUME NEW m \in Manager, Start(m) PROVE Permits'
  <2>1. CASE store # None /\ store.valid
    BY <1>2, <1>3, <2>1 DEF Start, TypeOK
  <2>2. CASE ~(store # None /\ store.valid)
    BY <1>1, <1>3, <2>2 DEF Start, NothingRegistered
  <2> QED
    BY <2>1, <2>2
<1>4. ASSUME NEW m \in Manager, Stop(m) PROVE Permits'
  <2>1. /\ run' = [e \in Exec |-> IF e \in Cancelled(m) THEN Free ELSE run[e]]
        /\ limit' = limit
    BY <1>4 DEF Stop
  <2>2. \A f \in Exec : run'[f].at = "running" => run'[f] = run[f]
    BY <2>1, FreeIsExecution
  <2> QED
    BY <1>0, <2>1, <2>2, NoPermitGiven
<1>5. CASE Swap
  BY <1>1, <1>5 DEF Swap, tables
<1>6. CASE Delete
  BY <1>1, <1>6 DEF Delete
<1>7. ASSUME NEW job \in Jobs, Save(job) PROVE Permits'
  <2>1. CASE job.valid
    BY <1>0, <1>2, <1>7, <2>1 DEF Save
  <2>2. CASE ~job.valid
    BY <1>1, <1>7, <2>2 DEF Save, NothingRegistered
  <2> QED
    BY <2>1, <2>2
<1>8. CASE PauseOrResume
  BY <1>1, <1>8 DEF PauseOrResume
<1>9. ASSUME NEW e \in Exec, NEW r \in Execution, OneExecution(e, r) PROVE Permits'
  <2>1. run'[e] = r /\ \A f \in Exec : f # e => run'[f] = run[f]
    BY <1>9 DEF OneExecution, TypeOK
  <2>2. r.at = "running" => Cardinality(Holders(r.sem)) < limit'[r.sem]
    BY <1>9 DEF OneExecution
  <2>3. \A s \in Sem : limit'[s] = limit[s] \/ Holders(s) = {}
    BY <1>9, FreshSemIsUnused DEF OneExecution, TypeOK
  <2> QED
    BY <1>0, <2>1, <2>2, <2>3, PermitGiven
<1>10. CASE UNCHANGED vars
  BY <1>1, <1>10 DEF vars
<1> QED
  BY <1>3, <1>4, <1>5, <1>6, <1>7, <1>8, <1>9, <1>10, ExecutionEffect DEF Next
-----------------------------------------------------------------------------
(* The two managers                                                        *)

\* An execution of the next state: one that was in flight, one that a scheduler
\* started when it had none, or one begun by hand in the manager that serves.
LEMMA ExecutionFired ==
  ASSUME TypeOK, NEW e \in Exec, NEW r \in Execution, OneExecution(e, r),
         NEW m \in Manager, NEW f \in Exec, run'[f].at # "free", run'[f].by = m
  PROVE  \/ f \in InFlight(m) /\ run'[f].fired = run[f].fired
         \/ f = e /\ run'[f].fired /\ \A g \in InFlight(m) : ~run[g].fired
         \/ f = e /\ ~run'[f].fired /\ m = serving
<1>1. run'[e] = r /\ (f # e => run'[f] = run[f])
  BY DEF OneExecution, TypeOK
<1>2. CASE f = e
  BY <1>1, <1>2 DEF OneExecution, InFlight
<1>3. CASE f # e
  BY <1>1, <1>3 DEF InFlight
<1> QED
  BY <1>2, <1>3

LEMMA FiredStep == TypeOK /\ Untouched /\ Fired /\ [Next]_vars => Fired'
<1> SUFFICES ASSUME TypeOK, Untouched, Fired, [Next]_vars PROVE Fired'
  OBVIOUS
<1>0. Manager = {"old", "new"} /\ serving \in Manager
  BY DEF Manager, TypeOK
\* Executions only end.
<1>1. ASSUME \A f \in Exec : run'[f] = run[f] \/ run'[f] = Free,
             serving' = "old" => serving = "old"
      PROVE  Fired'
  <2>1. \A m \in Manager : \A f \in InFlight(m)' : f \in InFlight(m) /\ run'[f] = run[f]
    BY <1>1, FreeIsExecution DEF InFlight
  <2> QED
    BY <1>0, <1>1, <2>1 DEF Fired
<1>2. ASSUME UNCHANGED <<serving, run>> PROVE Fired'
  BY <1>1, <1>2
<1>3. ASSUME NEW m \in Manager, Start(m) PROVE Fired'
  BY <1>2, <1>3 DEF Start
<1>4. ASSUME NEW m \in Manager, Stop(m) PROVE Fired'
  BY <1>1, <1>4 DEF Stop
<1>5. CASE Swap
  BY <1>1, <1>5 DEF Swap
<1>6. CASE Delete
  BY <1>2, <1>6 DEF Delete, managers
<1>7. ASSUME NEW job \in Jobs, Save(job) PROVE Fired'
  BY <1>2, <1>7 DEF Save, managers
<1>8. CASE PauseOrResume
  BY <1>2, <1>8 DEF PauseOrResume, managers
<1>9. ASSUME NEW e \in Exec, NEW r \in Execution, OneExecution(e, r) PROVE Fired'
  <2>1. serving' = serving
    BY <1>9 DEF OneExecution, managers
  <2>2. \A m \in Manager : \A f \in InFlight(m)' :
          \/ f \in InFlight(m) /\ run'[f].fired = run[f].fired
          \/ f = e /\ run'[f].fired /\ \A g \in InFlight(m) : ~run[g].fired
          \/ f = e /\ ~run'[f].fired /\ m = serving
    BY <1>9, ExecutionFired DEF InFlight
  <2>3. ASSUME NEW m \in Manager, NEW f \in InFlight(m)', NEW g \in InFlight(m)',
               run'[f].fired, run'[g].fired
        PROVE  f = g
    BY <2>2, <2>3 DEF Fired
  <2>4. ASSUME serving = "old", NEW f \in InFlight("new")' PROVE run'[f].fired
    BY <1>0, <2>2, <2>4 DEF Fired
  <2> QED
    BY <2>1, <2>3, <2>4 DEF Fired
<1>10. CASE UNCHANGED vars
  BY <1>2, <1>10 DEF vars
<1> QED
  BY <1>3, <1>4, <1>5, <1>6, <1>7, <1>8, <1>9, <1>10, ExecutionEffect DEF Next

LEMMA OldLimitStep ==
  TypeOK /\ Untouched /\ RightLimit /\ OldLimit /\ [Next]_vars => OldLimit'
<1> SUFFICES ASSUME TypeOK, Untouched, RightLimit, OldLimit, [Next]_vars,
                    serving' = "new", ~missed', ~mixed'["old"], store' # None, store'.valid
             PROVE  \/ rt'["old"] # None /\ limit'[rt'["old"]] = store'.max
                    \/ \A f \in InFlight("old")' : run'[f].fired
  BY DEF OldLimit
<1> DEFINE Goal == \/ rt'["old"] # None /\ limit'[rt'["old"]] = store'.max
                   \/ \A f \in InFlight("old")' : run'[f].fired
<1> HIDE DEF Goal
<1> SUFFICES Goal
  BY DEF Goal
<1>0. "old" \in Manager /\ serving \in Manager
  BY DEF Manager, TypeOK
<1>1. ASSUME InFlight("old")' = {} PROVE Goal
  BY <1>1 DEF Goal
\* The semaphore stays, and executions only end.
<1>2. ASSUME serving = "new", ~missed, ~mixed["old"], store' = store,
             rt["old"] # None => rt'["old"] = rt["old"] /\ limit'[rt["old"]] = limit[rt["old"]],
             \A f \in InFlight("old")' : f \in InFlight("old") /\ run'[f].fired = run[f].fired
      PROVE  Goal
  BY <1>2 DEF OldLimit, Goal
<1>3. ASSUME UNCHANGED <<serving, missed, mixed, store, rt, limit, run>> PROVE Goal
  BY <1>2, <1>3 DEF InFlight
<1>4. ASSUME Changing, run' = run PROVE Goal
  <2>1. InFlight("old") = {}
    BY <1>0, <1>4 DEF Changing
  <2> QED
    BY <1>1, <1>4, <2>1 DEF InFlight
<1>5. ASSUME NEW m \in Manager, Start(m) PROVE Goal
  <2>1. UNCHANGED <<serving, run, missed, mixed>> /\ up[m] = "new"
    BY <1>5 DEF Start
  <2>2. CASE m = "old"
    BY <1>1, <2>1, <2>2 DEF Untouched, InFlight
  <2>3. CASE m # "old"
    <3>1. store # None /\ store.valid /\ store' = store /\ Register(m, store)
      BY <1>5, JobAssumption DEF Start, TypeOK
    <3>2. PICK s \in Sem : /\ FreshSem(s) /\ rt' = [rt EXCEPT ![m] = s]
                           /\ limit' = [limit EXCEPT ![s] = store.max]
      BY <3>1, RegisterEffect DEF TypeOK
    <3>3. rt["old"] # s /\ rt'["old"] = rt["old"]
      BY <1>0, <2>3, <3>2, FreshSemIsUnused DEF TypeOK
    <3>4. rt["old"] # None => limit'[rt["old"]] = limit[rt["old"]]
      BY <1>0, <3>2, <3>3 DEF TypeOK
    <3>5. \A f \in InFlight("old")' : f \in InFlight("old") /\ run'[f].fired = run[f].fired
      BY <2>1 DEF InFlight
    <3> QED
      BY <1>2, <2>1, <3>1, <3>3, <3>4, <3>5
  <2> QED
    BY <2>2, <2>3
<1>6. ASSUME NEW m \in Manager, Stop(m) PROVE Goal
  <2>1. /\ run' = [f \in Exec |-> IF f \in Cancelled(m) THEN Free ELSE run[f]]
        /\ mixed' = [mixed EXCEPT ![m] = @ /\ InFlight(m) # Cancelled(m)]
        /\ UNCHANGED <<serving, store, rt, limit, missed>>
    BY <1>6 DEF Stop
  <2>2. \A f \in InFlight("old")' : f \in InFlight("old") \ Cancelled(m) /\ run'[f] = run[f]
    BY <2>1, FreeIsExecution DEF InFlight
  <2>3. CASE mixed["old"]
    <3>1. m = "old" /\ InFlight("old") = Cancelled(m)
      BY <1>0, <2>1, <2>3 DEF TypeOK
    <3> QED
      BY <1>1, <2>2, <3>1
  <2>4. CASE ~mixed["old"]
    BY <1>2, <2>1, <2>2, <2>4
  <2> QED
    BY <2>3, <2>4
<1>7. CASE Swap
  <2>1. serving = "old" /\ UNCHANGED <<store, rt, limit, missed, run>>
    BY <1>7 DEF Swap, tables
  <2>2. CASE up["old"] = "new"
    BY <1>0, <1>1, <2>1, <2>2 DEF Untouched, InFlight
  <2>3. CASE up["old"] # "new"
    <3>1. Current("old")
      BY <2>1, <2>3 DEF Current
    <3> QED
      BY <1>0, <2>1, <3>1 DEF RightLimit, Goal
  <2> QED
    BY <2>2, <2>3
<1>8. CASE Delete
  BY <1>4, <1>8 DEF Delete
<1>9. ASSUME NEW job \in Jobs, Save(job) PROVE Goal
  BY <1>4, <1>9 DEF Save
<1>10. CASE PauseOrResume
  BY <1>3, <1>10 DEF PauseOrResume, managers
<1>11. ASSUME NEW e \in Exec, NEW r \in Execution, OneExecution(e, r) PROVE Goal
  <2>1. serving = "new" /\ ~missed /\ store' = store
    BY <1>11 DEF OneExecution, managers
  <2>2. run'[e] = r /\ (\A f \in Exec : f # e => run'[f] = run[f])
    BY <1>11 DEF OneExecution, TypeOK
  <2>3. \A f \in InFlight("old")' :
          run'[f].fired \/ (f \in InFlight("old") /\ run'[f].fired = run[f].fired)
    BY <1>0, <1>11, <2>1, ExecutionFired DEF InFlight
  <2>4. CASE mixed["old"]
    <3>1. mixed'["old"] # mixed["old"]
      BY <2>4
    <3>2. /\ r.at = "free" /\ run[e].by \in Manager
          /\ mixed' = [mixed EXCEPT ![run[e].by] = @ /\ InFlight(run[e].by) # {e}]
      BY <1>11, <3>1 DEF OneExecution
    <3>3. run[e].by = "old"
      BY <1>0, <3>1, <3>2 DEF TypeOK
    <3>4. r.at = "free" /\ InFlight("old") = {e}
      BY <1>0, <2>4, <3>2, <3>3 DEF TypeOK
    <3> QED
      BY <1>1, <2>2, <3>4 DEF InFlight
  <2>5. CASE ~mixed["old"]
    <3>1. rt["old"] # None => rt'["old"] = rt["old"] /\ limit'[rt["old"]] = limit[rt["old"]]
      BY <1>0, <1>11, FreshSemIsUnused DEF OneExecution, TypeOK
    <3> QED
      BY <2>1, <2>3, <2>5, <3>1 DEF OldLimit, Goal
  <2> QED
    BY <2>4, <2>5
<1>12. CASE UNCHANGED vars
  BY <1>3, <1>12 DEF vars
<1> QED
  BY <1>5, <1>6, <1>7, <1>8, <1>9, <1>10, <1>11, <1>12, ExecutionEffect DEF Next
-----------------------------------------------------------------------------
LEMMA JInvInit == Init => JInv
<1> SUFFICES ASSUME Init PROVE JInv
  OBVIOUS
<1>1. run = [e \in Exec |-> Free] /\ state = [m \in Manager |-> None]
  BY DEF Init
<1>2. TypeOK
  <2>1. saves \in 0 .. MaxSaves
    BY BoundAssumption DEF Init
  <2>2. \A e \in Exec : run[e] \in Execution /\ run[e].at = "free"
    BY <1>1, FreeIsExecution
  <2>3. run \in [Exec -> Execution] /\ state \in [Manager -> State \cup {None}]
    BY <1>1, FreeIsExecution
  <2>4. /\ store \in Jobs \cup {None} /\ up \in [Manager -> {"new", "started", "stopped"}]
        /\ serving \in Manager /\ entry \in [Manager -> {"none", "active", "paused"}]
        /\ rt \in [Manager -> Sem \cup {None}] /\ limit \in [Sem -> Nat]
        /\ status \in [State -> Statuses]
        /\ mixed \in [Manager -> BOOLEAN] /\ missed \in BOOLEAN
    BY DEF Init, Statuses, Manager
  <2> QED
    BY <2>1, <2>2, <2>3, <2>4 DEF TypeOK
<1>3. OneOwner
  BY <1>1, FreeIsExecution DEF OneOwner
<1>4. RunningIsTrue
  BY <1>1 DEF RunningIsTrue
<1> QED
  BY <1>2, <1>3, <1>4 DEF JInv

LEMMA JInvAlways == Spec => []JInv
<1>1. JInv /\ [Next]_vars => JInv'
  BY TypeStep, StateStep DEF JInv
<1> QED
  BY JInvInit, <1>1, PTL DEF Spec

LEMMA LimitInvInit == Init => LimitInv
<1> SUFFICES ASSUME Init PROVE LimitInv
  OBVIOUS
<1>1. /\ run = [e \in Exec |-> Free] /\ entry = [m \in Manager |-> "none"]
      /\ up = [m \in Manager |-> "new"] /\ limit = [s \in Sem |-> 0]
  BY DEF Init
<1>2. \A m \in Manager : InFlight(m) = {}
  BY <1>1, FreeIsExecution DEF InFlight
<1>3. \A m \in Manager : ~Current(m)
  BY <1>1 DEF Current
<1>4. Permits
  <2>1. \A s \in Sem : Holders(s) = {}
    BY <1>1, FreeIsExecution DEF Holders
  <2>2. \A s \in Sem : Cardinality(Holders(s)) = 0 /\ limit[s] = 0
    BY <1>1, <2>1, FS_EmptySet
  <2> QED
    BY <2>2 DEF Permits
<1>5. Fired /\ OldLimit
  <2>1. InFlight("old") = {} /\ InFlight("new") = {}
    BY <1>2 DEF Manager
  <2> QED
    BY <1>2, <2>1 DEF Fired, OldLimit
<1> QED
  BY <1>1, <1>2, <1>3, <1>4, <1>5
  DEF LimitInv, Untouched, Scheduled, RightLimit, SharedSem

LEMMA LimitInvAlways == Spec => [](TypeOK /\ LimitInv)
<1>1. Init => TypeOK /\ LimitInv
  BY JInvInit, LimitInvInit DEF JInv
<1>2. TypeOK /\ LimitInv /\ [Next]_vars => (TypeOK /\ LimitInv)'
  BY TypeStep, UntouchedStep, ScheduledStep, RightLimitStep, SharedSemStep, PermitsStep,
     FiredStep, OldLimitStep
  DEF LimitInv
<1> QED
  BY <1>1, <1>2, PTL DEF Spec
-----------------------------------------------------------------------------
\* Every variable has its type in every reachable state.
THEOREM TypeCorrect == Spec => []TypeOK
<1>1. JInv => TypeOK
  BY DEF JInv
<1> QED
  BY <1>1, JInvAlways, PTL

\* Whatever is saved, deleted, fired, run by hand, cancelled and reloaded, a job that
\* is shown as running does run.
THEOREM RunningIsTrueAlways == Spec => []RunningIsTrue
<1>1. JInv => RunningIsTrue
  BY DEF JInv
<1> QED
  BY <1>1, JInvAlways, PTL

\* Through changes, invalid jobs, and the reload of the agent, the scheduler has
\* the job exactly when the file has it.
THEOREM ScheduleFollowsStoreAlways == Spec => []ScheduleFollowsStore
<1>1. TypeOK /\ LimitInv => ScheduleFollowsStore
  <2> SUFFICES ASSUME TypeOK, Scheduled, up[serving] = "started", ~missed
               PROVE  /\ store = None => entry[serving] = "none"
                      /\ store # None /\ store.valid => entry[serving] # "none"
    BY DEF LimitInv, ScheduleFollowsStore
  <2>1. serving \in Manager /\ Current(serving)
    BY DEF TypeOK, Current
  <2> QED
    BY <2>1 DEF Scheduled
<1> QED
  BY <1>1, LimitInvAlways, PTL

\* Whatever semaphores were made and dropped, no more executions of a job run at
\* once in an instance of the agent than the file allows, by hand and by schedule
\* together.
THEOREM ConcurrencyLimitAlways == Spec => []ConcurrencyLimit
<1>1. TypeOK /\ LimitInv => ConcurrencyLimit
  <2> SUFFICES ASSUME TypeOK, LimitInv, store # None, store.valid, ~missed,
                      NEW m \in Manager, ~mixed[m]
               PROVE  Cardinality(Running(m)) <= store.max
    BY DEF ConcurrencyLimit
  <2>1. /\ serving \in {"old", "new"} /\ m \in {"old", "new"}
        /\ store.max \in Nat \ {0}
    BY JobFields DEF TypeOK, Manager
  \* They hold the permits of one semaphore.
  <2>2. ASSUME rt[m] # None, limit[rt[m]] = store.max
        PROVE  Cardinality(Running(m)) <= store.max
    <3>1. rt[m] \in Sem
      BY <2>2 DEF TypeOK
    <3>2. Running(m) \subseteq Holders(rt[m])
      BY DEF LimitInv, SharedSem, Running, InFlight, Holders
    <3>3. /\ Cardinality(Running(m)) <= Cardinality(Holders(rt[m]))
          /\ Cardinality(Running(m)) \in Nat
      <4>1. IsFiniteSet(Holders(rt[m])) /\ IsFiniteSet(Running(m))
        BY <3>2, HoldersAreFinite, FS_Subset
      <4> QED
        BY <3>2, <4>1, FS_Subset, FS_CardinalityType
    <3>4. Cardinality(Holders(rt[m])) <= store.max
      BY <2>2, <3>1 DEF LimitInv, Permits
    <3> QED
      BY <2>1, <3>3, <3>4, HoldersAreFinite
  \* The scheduler started them: there is one.
  <2>3. ASSUME \A e \in InFlight(m) : run[e].fired
        PROVE  Cardinality(Running(m)) <= store.max
    <3>1. \A e, f \in Running(m) : e = f
      BY <2>3 DEF LimitInv, Fired, Running
    <3>2. CASE Running(m) = {}
      BY <2>1, <3>2, FS_EmptySet
    <3>3. ASSUME NEW e \in Running(m) PROVE Cardinality(Running(m)) <= store.max
      <4>1. Running(m) = {e}
        BY <3>1, <3>3
      <4>2. Cardinality(Running(m)) = 1
        BY <4>1, FS_Singleton
      <4> QED
        BY <2>1, <4>2
    <3> QED
      BY <3>2, <3>3
  <2>4. CASE m = serving
    <3>1. CASE Running(m) = {}
      BY <2>1, <3>1, FS_EmptySet
    <3>2. CASE Running(m) # {}
      <4>1. Current(m)
        BY <2>4, <3>2 DEF LimitInv, Untouched, Running, Current
      <4> QED
        BY <2>2, <4>1 DEF LimitInv, RightLimit
    <3> QED
      BY <3>1, <3>2
  <2>5. CASE m = "new" /\ serving = "old"
    BY <2>3, <2>5 DEF LimitInv, Fired
  <2>6. CASE m = "old" /\ serving = "new"
    BY <2>2, <2>3, <2>6 DEF LimitInv, OldLimit
  <2> QED
    BY <2>1, <2>4, <2>5, <2>6
<1> QED
  BY <1>1, LimitInvAlways, PTL
================================================================================
