--------------------------- MODULE RetryChatModel ---------------------------
(***************************************************************************)
(* copaw/providers/retry_chat_model.py: a call of a chat model that waits  *)
(* for the rate limiter, runs, and is retried, while other tasks do the    *)
(* same.  A permit is held from acquire() to the reply, or to the first    *)
(* chunk of a streamed one.                                                *)
(*                                                                         *)
(* An action is what a task does between two suspensions.  The consumer of *)
(* a stream iterates it at once, as the agents do; the model a task calls  *)
(* streams always or never.  acquire_timeout may expire at any time.       *)
(***************************************************************************)
EXTENDS RateLimiter

CONSTANTS
  Streaming,    \* the callers whose model streams
  Attempts,     \* max_retries + 1, 1 when retries are disabled
  PauseTimes,   \* the pauses a 429 asks for: default or Retry-After
  MaxJitter,    \* jitter_range
  BackoffBase,  \* backoff_base
  BackoffCap    \* backoff_cap

ASSUME CallAssumption ==
  /\ Streaming \subseteq Caller
  /\ Attempts \in Nat \ {0}
  /\ PauseTimes \subseteq Nat
  /\ MaxJitter \in Nat
  /\ BackoffBase \in Nat
  /\ BackoffCap \in Nat

VARIABLES
  pc,       \* pc[c]: where the call of c is, see Steps
  attempt,  \* attempt[c]
  timer,    \* timer[c]: the time left of the sleep c is in
  owed      \* history, owed[c]: what is left of the longest pause that a 429
            \* has asked for when c was not past the cooldown check

vars == <<permits, waiters, granted, inFlight, pause, stamps, pc, attempt,
          timer, owed>>

(***************************************************************************)
(* "entering": about to run acquire().  "paused": in its first sleep.      *)
(* "throttled": in the sleep of _acquire_qpm_slot.  "waiting": on the      *)
(* semaphore.  "calling": awaiting the inner model.  "opening": awaiting   *)
(* the first chunk.  "streaming": the others.  "backoff": in the sleep     *)
(* between two attempts; "holding": the same, with the permit.             *)
(***************************************************************************)
Acquiring == {"paused", "throttled", "waiting"}
Holding == {"calling", "opening", "holding"}
Steps == {"idle", "entering", "streaming", "backoff"} \cup Acquiring \cup Holding

\* "rate": 429.  "transient": another retryable error.  "fatal": any other.
Errors == {"rate", "transient", "fatal"}

\* _compute_backoff.
Delay(n) ==
  LET d == BackoffBase * 2^(n - 1) IN IF d < BackoffCap THEN d ELSE BackoffCap

Goto(c, step) == pc' = [pc EXCEPT ![c] = step]
SleepAt(c, step, t) == Goto(c, step) /\ timer' = [timer EXCEPT ![c] = t]
Awake(c, step) == pc[c] = step /\ timer[c] = 0

\* Callers that no longer look at the pause before their next call.
PastCooldown(c) == pc[c] \in {"throttled", "waiting"}

Init ==
  /\ InitLimiter
  /\ pc = [c \in Caller |-> "idle"]
  /\ attempt = [c \in Caller |-> 0]
  /\ timer = [c \in Caller |-> 0]
  /\ owed = [c \in Caller |-> 0]

Start(c) ==
  /\ pc[c] = "idle"
  /\ Goto(c, "entering")
  /\ attempt' = [attempt EXCEPT ![c] = 1]
  /\ UNCHANGED <<limiter, timer, owed>>
-----------------------------------------------------------------------------
(* acquire() under wait_for                                                *)

\* Step 3.
TakeSlot(c) ==
  IF Locked
  THEN Enqueue(c) /\ Goto(c, "waiting") /\ UNCHANGED inFlight
  ELSE TakePermit /\ Goto(c, "calling") /\ inFlight' = inFlight + 1

\* Steps 2 and 3.
ClaimSlot(c) ==
  IF WindowFull
  THEN /\ Evict
       /\ SleepAt(c, "throttled", WindowWait)
       /\ UNCHANGED <<semaphore, inFlight>>
  ELSE /\ ClaimWindow
       /\ TakeSlot(c)
       /\ UNCHANGED timer

\* Mutation of Cooldown: the pause is not looked at again after the sleep.
CooldownOnce(c) ==
  /\ pc[c] = "entering" \/ Awake(c, "paused")
  /\ IF pause > 0 /\ pc[c] = "entering"
     THEN /\ \E j \in 0..MaxJitter : SleepAt(c, "paused", pause + j)
          /\ UNCHANGED <<semaphore, inFlight, stamps>>
     ELSE ClaimSlot(c)
  /\ UNCHANGED <<pause, attempt, owed>>

\* Step 1, and the steps after it when there is no pause.
Cooldown(c) ==
  /\ pc[c] = "entering" \/ Awake(c, "paused")
  /\ IF pause > 0
     THEN /\ \E j \in 0..MaxJitter : SleepAt(c, "paused", pause + j)
          /\ UNCHANGED <<semaphore, inFlight, stamps>>
     ELSE ClaimSlot(c)
  /\ UNCHANGED <<pause, attempt, owed>>

\* The window is looked at again, the pause is not.
Throttled(c) ==
  /\ Awake(c, "throttled")
  /\ ClaimSlot(c)
  /\ UNCHANGED <<pause, attempt, owed>>

\* The semaphore has handed c a permit.
Granted(c) ==
  /\ c \in granted
  /\ Wake(c)
  /\ inFlight' = inFlight + 1
  /\ Goto(c, "calling")
  /\ UNCHANGED <<pause, stamps, attempt, timer, owed>>

\* The wait ends without a permit: a timestamp in the window stays there.
Withdraw(c) ==
  /\ IF pc[c] = "waiting" THEN Leave(c) ELSE UNCHANGED semaphore
  /\ Goto(c, "idle")
  /\ timer' = [timer EXCEPT ![c] = 0]
  /\ UNCHANGED inFlight

\* wait_for gives up: RateLimitExceededException, which is not retried.
AcquireTimeout(c) ==
  /\ pc[c] \in Acquiring
  /\ Withdraw(c)
  /\ UNCHANGED <<pause, stamps, attempt, owed>>
-----------------------------------------------------------------------------
(* The call, its stream and the retries                                    *)

LeaveSlot(c) ==
  IF pc[c] \in Holding THEN Release ELSE UNCHANGED <<semaphore, inFlight>>

\* The inner model returns a stream, which takes over the permit.
OpenStream(c) ==
  /\ pc[c] = "calling"
  /\ c \in Streaming
  /\ Goto(c, "opening")
  /\ UNCHANGED <<limiter, attempt, timer, owed>>

\* Mutation of FirstChunk: the finally block releases what is released here.
FirstChunkReleasesLater(c) ==
  /\ pc[c] = "opening"
  /\ Goto(c, "streaming")
  /\ UNCHANGED <<limiter, attempt, timer, owed>>

FirstChunk(c) ==
  /\ pc[c] = "opening"
  /\ Release
  /\ Goto(c, "streaming")
  /\ UNCHANGED <<pause, stamps, attempt, timer, owed>>

\* The reply is complete; a stream may end without a chunk.
Reply(c) ==
  /\ \/ pc[c] = "calling" /\ c \notin Streaming
     \/ pc[c] \in {"opening", "streaming"}
  /\ LeaveSlot(c)
  /\ Goto(c, "idle")
  /\ UNCHANGED <<pause, stamps, attempt, timer, owed>>

Owe(p) ==
  owed' = [c \in Caller |->
             IF PastCooldown(c) \/ p <= owed[c] THEN owed[c] ELSE p]

Report(e) ==
  IF e = "rate"
  THEN \E p \in PauseTimes : ReportRateLimit(p) /\ Owe(p)
  ELSE UNCHANGED <<pause, owed>>

Retries(c, e) == e # "fatal" /\ attempt[c] < Attempts

\* Mutation of StreamFails: the slot is left to the next attempt.
StreamFailsHolding(c, e) ==
  /\ pc[c] \in {"opening", "streaming"}
  /\ Report(e)
  /\ UNCHANGED <<semaphore, inFlight>>
  /\ IF Retries(c, e)
     THEN SleepAt(c, "backoff", Delay(attempt[c]))
     ELSE Goto(c, "idle") /\ UNCHANGED timer
  /\ UNCHANGED <<stamps, attempt>>

\* The stream raises: its finally block leaves the slot before the retry.
StreamFails(c, e) ==
  /\ pc[c] \in {"opening", "streaming"}
  /\ Report(e)
  /\ LeaveSlot(c)
  /\ IF Retries(c, e)
     THEN SleepAt(c, "backoff", Delay(attempt[c]))
     ELSE Goto(c, "idle") /\ UNCHANGED timer
  /\ UNCHANGED <<stamps, attempt>>

\* The inner model raises: the sleep comes before the finally block.
CallFails(c, e) ==
  /\ pc[c] = "calling"
  /\ Report(e)
  /\ IF Retries(c, e)
     THEN /\ SleepAt(c, "holding", Delay(attempt[c]))
          /\ UNCHANGED <<semaphore, inFlight>>
     ELSE /\ Goto(c, "idle")
          /\ Release
          /\ UNCHANGED timer
  /\ UNCHANGED <<stamps, attempt>>

NextAttempt(c) ==
  /\ Awake(c, "backoff") \/ Awake(c, "holding")
  /\ LeaveSlot(c)
  /\ Goto(c, "entering")
  /\ attempt' = [attempt EXCEPT ![c] = @ + 1]
  /\ UNCHANGED <<pause, stamps, timer, owed>>

\* The task is cancelled wherever it is, or drops its stream.
Cancel(c) ==
  /\ pc[c] # "idle"
  /\ IF pc[c] \in Acquiring
     THEN Withdraw(c)
     ELSE /\ LeaveSlot(c)
          /\ Goto(c, "idle")
          /\ timer' = [timer EXCEPT ![c] = 0]
  /\ UNCHANGED <<pause, stamps, attempt, owed>>

Tick ==
  /\ LimiterTick
  /\ timer' = [c \in Caller |-> Earlier(timer[c])]
  /\ owed' = [c \in Caller |-> Earlier(owed[c])]
  /\ UNCHANGED <<semaphore, inFlight, pc, attempt>>

\* What the inner model and its stream do.
Inner(c) ==
  \/ Reply(c) \/ OpenStream(c) \/ FirstChunk(c)
  \/ \E e \in Errors : CallFails(c, e) \/ StreamFails(c, e)

Run(c) == Cooldown(c) \/ Throttled(c) \/ Granted(c) \/ NextAttempt(c)

Next ==
  \/ \E c \in Caller :
       Start(c) \/ Run(c) \/ Inner(c) \/ AcquireTimeout(c) \/ Cancel(c)
  \/ Tick

Spec == Init /\ [][Next]_vars

\* asyncio runs every task that is ready, time passes, and the inner model
\* replies or fails within the timeouts of its HTTP client.
Fairness ==
  /\ WF_vars(Tick)
  /\ \A c \in Caller : WF_vars(Run(c)) /\ WF_vars(Inner(c))

FairSpec == Spec /\ Fairness
-----------------------------------------------------------------------------
(* Properties                                                              *)

Holders == {c \in Caller : pc[c] \in Holding}

\* Every variable has its type.
TypeOK ==
  /\ TypeOKLimiter
  /\ pc \in [Caller -> Steps]
  /\ attempt \in [Caller -> 0..Attempts]
  /\ timer \in [Caller -> Nat]
  /\ owed \in [Caller -> Nat]

\* A permit is free, on its way to a waiter, or with one call: none is lost or
\* released twice, over replies, streams, retries, timeouts and cancellations.
PermitsConserved ==
  /\ permits + Cardinality(granted) + Cardinality(Holders) = MaxConcurrent
  /\ inFlight = Cardinality(Holders)

Calls(c) == pc[c] # "calling" /\ pc'[c] = "calling"

\* "Every subsequent acquire() waits until the pause expires": a caller that was
\* not past the cooldown check when a 429 came calls the model only when the
\* pause of that 429 is over, whatever others report meanwhile.
CooldownBinds == [][\A c \in Caller : Calls(c) => owed[c] = 0]_vars

\* Whoever waits for a permit gets one, even without the timeout of acquire();
\* with it every call ends, retries included.
EveryCallEnds ==
  /\ \A c \in Caller : pc[c] = "waiting" ~> pc[c] # "waiting"
  /\ (\A c \in Caller : WF_vars(AcquireTimeout(c))) =>
       \A c \in Caller : pc[c] # "idle" ~> pc[c] = "idle"
=============================================================================
