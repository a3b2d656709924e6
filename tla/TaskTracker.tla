---------------------------- MODULE TaskTracker ----------------------------
(***************************************************************************)
(* copaw/app/runner/task_tracker.py: background runs of agent queries,     *)
(* their subscribers, and reconnection.                                    *)
(*                                                                         *)
(* Every critical section of the tracker's asyncio.Lock is free of awaits, *)
(* so the lock is never contended, acquiring it never suspends, and a      *)
(* coroutine runs from one suspension point to the next as one step.  The  *)
(* suspension points are those of stream_fn (the agent's event stream),    *)
(* of queue.get() in stream_from_queue, and the first step of the task     *)
(* that create_task only schedules.                                        *)
(*                                                                         *)
(* One queue belongs to one connection, so queues carry its name.          *)
(***************************************************************************)
EXTENDS Naturals, Sequences, FiniteSets

CONSTANTS
  Key,         \* run keys: ChatSpec.id
  Run,         \* identities of _RunState objects
  Conn,        \* identities of subscriber queues; one per HTTP stream or consumer
  Event,       \* values a stream_fn yields
  ErrorEvent,  \* err_sse
  Sentinel,    \* _SENTINEL
  NoRun, NoKey,
  MaxEvents    \* bound: events one stream_fn yields

ASSUME SentinelAssumption == Sentinel \notin Event \cup {ErrorEvent}
ASSUME NoRunAssumption == NoRun \notin Run
ASSUME NoKeyAssumption == NoKey \notin Key
ASSUME MaxEventsAssumption == MaxEvents \in Nat

VARIABLES
  runs,     \* runs[k]: the entry of _runs, NoRun when there is none
  runKey,   \* runKey[r]: the key r was started under (its producer's closure)
  task,     \* task[r]: state of the producer task, see TaskState
  buffer,   \* buffer[r]: _RunState.buffer
  queues,   \* queues[r]: _RunState.queues, the connections subscribed to r
  stream,   \* stream[c]: where connection c is in stream_from_queue
  of,       \* of[c]: the run whose queue list c was put on
  queue,    \* queue[c]: contents of c's asyncio.Queue
  got       \* got[c]: history, the events c has yielded

vars == <<runs, runKey, task, buffer, queues, stream, of, queue, got>>

(***************************************************************************)
(* "created": create_task has scheduled the producer's first step.         *)
(* "doomed": cancelled before that step; the coroutine will not be entered.*)
(* "running": suspended inside stream_fn.  "stopping": the same, with a    *)
(* cancellation delivered or about to be.  "done": left through finally.   *)
(* "dead": done without ever entering the body.                            *)
(***************************************************************************)
TaskState ==
  {"unused", "created", "doomed", "running", "stopping", "done", "dead"}

\* "attached": the queue exists, nothing reads it yet.  "abandoned": dropped
\* in that state, so no stream_from_queue ever detaches it.
StreamState == {"new", "attached", "reading", "closed", "left", "abandoned"}

Done(r) == task[r] \in {"done", "dead"}
Live(r) == task[r] \in {"created", "doomed", "running", "stopping"}
Open(c) == stream[c] \in {"attached", "reading"}

\* Mutation of Active: a task counts only once its first step has run.
ActiveOnceBegun(k) == runs[k] # NoRun /\ task[runs[k]] \in {"running", "stopping"}

\* state is not None and not state.task.done()
Active(k) == runs[k] # NoRun /\ ~Done(runs[k])

Init ==
  /\ runs   = [k \in Key |-> NoRun]
  /\ runKey = [r \in Run |-> NoKey]
  /\ task   = [r \in Run |-> "unused"]
  /\ buffer = [r \in Run |-> <<>>]
  /\ queues = [r \in Run |-> {}]
  /\ stream = [c \in Conn |-> "new"]
  /\ of     = [c \in Conn |-> NoRun]
  /\ queue  = [c \in Conn |-> <<>>]
  /\ got    = [c \in Conn |-> <<>>]
-----------------------------------------------------------------------------
(* Subscribing                                                             *)

\* Mutation of Subscribe: the queue of a late joiner starts empty.
SubscribeNoReplay(c, r, replay) ==
  /\ stream[c] = "new"
  /\ stream' = [stream EXCEPT ![c] = "attached"]
  /\ of'     = [of EXCEPT ![c] = r]
  /\ queue'  = [queue EXCEPT ![c] = <<>>]
  /\ queues' = [queues EXCEPT ![r] = @ \cup {c}]
  /\ UNCHANGED got

\* A new queue, pre-filled with the run's buffer, joins the run's list.
Subscribe(c, r, replay) ==
  /\ stream[c] = "new"
  /\ stream' = [stream EXCEPT ![c] = "attached"]
  /\ of'     = [of EXCEPT ![c] = r]
  /\ queue'  = [queue EXCEPT ![c] = replay]
  /\ queues' = [queues EXCEPT ![r] = @ \cup {c}]
  /\ UNCHANGED got

\* attach, and attach_or_start when a run is active: is_new_run is False.
Attach(c, k) ==
  /\ Active(k)
  /\ Subscribe(c, runs[k], buffer[runs[k]])
  /\ UNCHANGED <<runs, runKey, task, buffer>>

\* attach_or_start when none is: an entry whose task is done is overwritten.
Start(c, k, r) ==
  /\ ~Active(k)
  /\ task[r] = "unused"
  /\ runs'   = [runs EXCEPT ![k] = r]
  /\ runKey' = [runKey EXCEPT ![r] = k]
  /\ task'   = [task EXCEPT ![r] = "created"]
  /\ Subscribe(c, r, <<>>)
  /\ UNCHANGED buffer
-----------------------------------------------------------------------------
(* The producer task                                                       *)

\* The events put on every queue of r.
Broadcast(r, events) ==
  queue' = [c \in Conn |-> IF c \in queues[r] THEN queue[c] \o events
                                              ELSE queue[c]]

\* The first step of the task: a cancelled one ends without entering
\* _producer, so neither its except clauses nor its finally runs.
Begin(r) ==
  /\ \/ task[r] = "created" /\ task' = [task EXCEPT ![r] = "running"]
     \/ task[r] = "doomed"  /\ task' = [task EXCEPT ![r] = "dead"]
  /\ UNCHANGED <<runs, runKey, buffer, queues, stream, of, queue, got>>

\* A cancelled stream may still yield: runner.py turns the cancellation into
\* an error response, which is an event like any other.
Emit(r, e) ==
  /\ task[r] \in {"running", "stopping"}
  /\ Len(buffer[r]) < MaxEvents
  /\ buffer' = [buffer EXCEPT ![r] = Append(@, e)]
  /\ Broadcast(r, <<e>>)
  /\ UNCHANGED <<runs, runKey, task, queues, stream, of, got>>

\* finally: a sentinel on every queue, and the entry of the key removed.
Finally(r) ==
  /\ task' = [task EXCEPT ![r] = "done"]
  /\ runs' = [runs EXCEPT ![runKey[r]] = NoRun]
  /\ UNCHANGED <<runKey, queues, stream, of, got>>

\* Mutation of Finish: the entry is popped, the subscribers are not told.
FinishSilently(r) ==
  /\ task[r] \in {"running", "stopping"}
  /\ UNCHANGED <<buffer, queue>>
  /\ Finally(r)

\* The stream ends, or CancelledError leaves it and is swallowed.
Finish(r) ==
  /\ task[r] \in {"running", "stopping"}
  /\ Broadcast(r, <<Sentinel>>)
  /\ UNCHANGED buffer
  /\ Finally(r)

\* Mutation of Fail: the error goes to the queues but not to the buffer.
FailUnbuffered(r) ==
  /\ task[r] \in {"running", "stopping"}
  /\ Broadcast(r, <<ErrorEvent, Sentinel>>)
  /\ UNCHANGED buffer
  /\ Finally(r)

\* The stream raises: the error event is buffered and broadcast first.
Fail(r) ==
  /\ task[r] \in {"running", "stopping"}
  /\ buffer' = [buffer EXCEPT ![r] = Append(@, ErrorEvent)]
  /\ Broadcast(r, <<ErrorEvent, Sentinel>>)
  /\ Finally(r)

\* request_stop: a further cancel of a task already cancelled changes nothing.
RequestStop(k) ==
  /\ Active(k)
  /\ LET r == runs[k] IN
     \/ task[r] = "created" /\ task' = [task EXCEPT ![r] = "doomed"]
     \/ task[r] = "running" /\ task' = [task EXCEPT ![r] = "stopping"]
  /\ UNCHANGED <<runs, runKey, buffer, queues, stream, of, queue, got>>
-----------------------------------------------------------------------------
(* stream_from_queue                                                       *)

\* Mutation of Detach: the queue stays on the list.
DetachNothing(c) == UNCHANGED queues

\* detach_subscriber looks the list up by key, not by run: it takes the queue
\* off whichever run the key has now, if that run lists it.
Detach(c) ==
  LET cur == runs[runKey[of[c]]] IN
  queues' = IF cur = NoRun THEN queues
                           ELSE [queues EXCEPT ![cur] = @ \ {c}]

\* Mutation of Read: the sentinel is yielded like an event.
ReadAnything(c) ==
  /\ Open(c)
  /\ queue[c] # <<>>
  /\ got'    = [got EXCEPT ![c] = Append(@, Head(queue[c]))]
  /\ queue'  = [queue EXCEPT ![c] = Tail(@)]
  /\ stream' = [stream EXCEPT ![c] = "reading"]
  /\ UNCHANGED <<runs, runKey, task, buffer, queues, of>>

Read(c) ==
  /\ Open(c)
  /\ queue[c] # <<>>
  /\ Head(queue[c]) # Sentinel
  /\ got'    = [got EXCEPT ![c] = Append(@, Head(queue[c]))]
  /\ queue'  = [queue EXCEPT ![c] = Tail(@)]
  /\ stream' = [stream EXCEPT ![c] = "reading"]
  /\ UNCHANGED <<runs, runKey, task, buffer, queues, of>>

ReadSentinel(c) ==
  /\ Open(c)
  /\ queue[c] # <<>>
  /\ Head(queue[c]) = Sentinel
  /\ queue'  = [queue EXCEPT ![c] = Tail(@)]
  /\ stream' = [stream EXCEPT ![c] = "closed"]
  /\ Detach(c)
  /\ UNCHANGED <<runs, runKey, task, buffer, of, got>>

\* The client goes away, or the reading task is cancelled: queue.get()'s
\* CancelledError and the generator's close both end in the finally clause.
Disconnect(c) ==
  /\ Open(c)
  /\ stream' = [stream EXCEPT ![c] = "left"]
  /\ Detach(c)
  /\ UNCHANGED <<runs, runKey, task, buffer, of, queue, got>>

\* The holder of a queue drops it before it iterates: the branch of
\* BaseChannel._consume_with_tracker that ignores a message, or a request
\* whose response never starts.
Abandon(c) ==
  /\ stream[c] = "attached"
  /\ stream' = [stream EXCEPT ![c] = "abandoned"]
  /\ UNCHANGED <<runs, runKey, task, buffer, queues, of, queue, got>>
-----------------------------------------------------------------------------
Next ==
  \/ \E c \in Conn, k \in Key : Attach(c, k)
  \/ \E c \in Conn, k \in Key, r \in Run : Start(c, k, r)
  \/ \E r \in Run : Begin(r)
  \/ \E r \in Run, e \in Event : Emit(r, e)
  \/ \E r \in Run : Finish(r)
  \/ \E r \in Run : Fail(r)
  \/ \E k \in Key : RequestStop(k)
  \/ \E c \in Conn : Read(c)
  \/ \E c \in Conn : ReadSentinel(c)
  \/ \E c \in Conn : Disconnect(c)
  \/ \E c \in Conn : Abandon(c)

Spec == Init /\ [][Next]_vars

(***************************************************************************)
(* The event loop runs every ready callback: scheduled tasks take their    *)
(* first step and a reader with a non-empty queue resumes.  A stream that  *)
(* has been cancelled unwinds: its handlers (base.py, runner.py) await     *)
(* bounded work and re-raise.  Nothing is assumed of a stream that nobody  *)
(* cancels, nor of clients.                                                *)
(***************************************************************************)
Unwind(r) == task[r] = "stopping" /\ (Finish(r) \/ Fail(r))

Fairness ==
  /\ \A r \in Run : WF_vars(Begin(r)) /\ WF_vars(Unwind(r))
  /\ \A c \in Conn : WF_vars(Read(c) \/ ReadSentinel(c))

FairSpec == Spec /\ Fairness
-----------------------------------------------------------------------------
(* Properties                                                              *)

\* Types, and the two facts a record of the code would give: a run in use has
\* a key, and a subscribed connection names its run.
TypeOK ==
  /\ runs   \in [Key -> Run \cup {NoRun}]
  /\ runKey \in [Run -> Key \cup {NoKey}]
  /\ task   \in [Run -> TaskState]
  /\ buffer \in [Run -> Seq(Event \cup {ErrorEvent})]
  /\ queues \in [Run -> SUBSET Conn]
  /\ stream \in [Conn -> StreamState]
  /\ of     \in [Conn -> Run \cup {NoRun}]
  /\ queue  \in [Conn -> Seq(Event \cup {ErrorEvent, Sentinel})]
  /\ got    \in [Conn -> Seq(Event \cup {ErrorEvent})]
  /\ \A r \in Run : task[r] # "unused" <=> runKey[r] # NoKey
  /\ \A c \in Conn : stream[c] # "new" <=> of[c] # NoRun

\* A key never has two producers at work, and the one at work is the one the
\* key's entry leads to, so that reconnecting, stopping and detaching reach it.
\* The finally clause pops by key: this says it never pops another run.
OneLiveRunPerKey ==
  \A r \in Run : Live(r) => runs[runKey[r]] = r

\* All that a connection of a run has been, or will be, handed so far.
Expected(c) ==
  IF task[of[c]] = "done" THEN Append(buffer[of[c]], Sentinel)
                          ELSE buffer[of[c]]

\* Whenever a connection joined, what it has read followed by what waits in
\* its queue is the run's whole log, each event once and in order, with the
\* sentinel after it exactly when the run has ended through its finally.
StreamExact == \A c \in Conn : Open(c) => got[c] \o queue[c] = Expected(c)

\* A connection that disconnected or read its end is on no live run's list:
\* detach_subscriber works by key, and reconnects must not leak queues.
NoLeakedQueue ==
  \A r \in Run : Live(r) =>
    \A c \in queues[r] : of[c] = r /\ stream[c] \notin {"new", "closed", "left"}

\* Once a run that had begun is told to stop, or has ended by itself, every
\* connection still open on it reaches its end.
StopReleasesReaders ==
  \A c \in Conn :
    (Open(c) /\ task[of[c]] \in {"stopping", "done"}) ~> ~Open(c)

(***************************************************************************)
(* The tracker implements RunStreams: a run's log is its buffer, and what  *)
(* a connection has seen is what it has yielded.  The queues, the entries  *)
(* and the sentinels disappear.                                            *)
(***************************************************************************)
AbsPhase == [r \in Run |->
  IF task[r] = "unused" THEN "unused" ELSE IF Done(r) THEN "over" ELSE "live"]

AbsMode == [c \in Conn |->
  CASE stream[c] = "new" -> "new"
    [] Open(c) -> "open"
    [] stream[c] = "closed" -> "eof"
    [] OTHER -> "left"]

Abs == INSTANCE RunStreams WITH
  phase <- AbsPhase, chat <- runKey, log <- buffer,
  sub <- of, mode <- AbsMode, seen <- got

\* Every step is a step of RunStreams or leaves its variables alone: a stream
\* that reports its end has delivered the whole log of a finished run.
ImplementsRunStreams == Abs!Spec
=============================================================================
