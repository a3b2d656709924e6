---------------------------- MODULE RateLimiter ----------------------------
(***************************************************************************)
(* copaw/providers/rate_limiter.py: LLMRateLimiter, the one object every   *)
(* LLM call passes: a pause after a 429, a sliding window of requests and  *)
(* a semaphore.  RetryChatModel.tla uses it.                               *)
(*                                                                         *)
(* Time is discrete and relative: the pause counts down, the timestamps of *)
(* the window are ages that count up.  Both locks of the class guard code  *)
(* without an await, so they are never contended.                          *)
(***************************************************************************)
EXTENDS Naturals, Sequences, FiniteSets, SequencesExt

CONSTANTS
  Caller,         \* tasks that call a chat model
  MaxConcurrent,  \* max_concurrent
  MaxQpm,         \* max_qpm, 0 when the window is disabled
  Window          \* length of the sliding window, 60 s in the code

ASSUME LimitsAssumption ==
  /\ MaxConcurrent \in Nat \ {0}
  /\ MaxQpm \in Nat
  /\ Window \in Nat \ {0}

VARIABLES
  permits,   \* _semaphore: the free permits
  waiters,   \* _semaphore: the callers that wait, in order
  granted,   \* _semaphore: waiters that own a permit and have not run yet
  inFlight,  \* _in_flight
  pause,     \* _pause_until, as the time left
  stamps     \* _request_times, as ages, the oldest first

semaphore == <<permits, waiters, granted>>
limiter == <<permits, waiters, granted, inFlight, pause, stamps>>

InitLimiter ==
  /\ permits = MaxConcurrent
  /\ waiters = <<>>
  /\ granted = {}
  /\ inFlight = 0
  /\ pause = 0
  /\ stamps = <<>>
-----------------------------------------------------------------------------
(* asyncio.Semaphore: a free permit goes to the first waiter               *)

Locked == permits = 0 \/ waiters # <<>> \/ granted # {}

TakePermit == permits' = permits - 1 /\ UNCHANGED <<waiters, granted>>

Enqueue(c) == waiters' = Append(waiters, c) /\ UNCHANGED <<permits, granted>>

\* n permits are free, q wait, g have been granted one: the first of q gets one.
Offer(n, q, g) ==
  IF n > 0 /\ q # <<>>
  THEN permits' = n - 1 /\ waiters' = Tail(q) /\ granted' = g \cup {Head(q)}
  ELSE permits' = n /\ waiters' = q /\ granted' = g

\* A waiter runs with its permit, and passes on what else is free.
Wake(c) == Offer(permits, waiters, granted \ {c})

\* A waiter is cancelled: a permit it was granted goes to the next.
Leave(c) ==
  \/ /\ c \in granted
     /\ Offer(permits + 1, waiters, granted \ {c})
  \/ \E i \in DOMAIN waiters :
       /\ waiters[i] = c
       /\ waiters' = RemoveAt(waiters, i)
       /\ UNCHANGED <<permits, granted>>
-----------------------------------------------------------------------------
(* LLMRateLimiter                                                          *)

\* release().
Release == Offer(permits + 1, waiters, granted) /\ inFlight' = inFlight - 1

\* How many timestamps popleft takes: those in front that have left the window.
Expired ==
  Cardinality({i \in DOMAIN stamps : \A j \in 1..i : stamps[j] > Window})

\* The timestamps that are still in the window.
Live == SubSeq(stamps, Expired + 1, Len(stamps))

WindowFull == MaxQpm > 0 /\ Len(Live) >= MaxQpm

\* The time until the oldest timestamp has left the window, with the margin.
WindowWait == Window - Head(Live) + 1

Evict == stamps' = IF MaxQpm > 0 THEN Live ELSE stamps

\* Mutation of ClaimWindow: the old timestamps stay.
ClaimWithoutEvict == stamps' = IF MaxQpm > 0 THEN Append(stamps, 0) ELSE stamps

ClaimWindow == stamps' = IF MaxQpm > 0 THEN Append(Live, 0) ELSE stamps

\* Mutation of ReportRateLimit: the last report wins.
ReportOverwrites(p) == pause' = p

\* report_rate_limit: a pause is never shortened.
ReportRateLimit(p) == pause' = IF p > pause THEN p ELSE pause

Earlier(t) == IF t = 0 THEN 0 ELSE t - 1

\* One tick of time.time(): ages beyond the window are all alike.
LimiterTick ==
  /\ pause' = Earlier(pause)
  /\ stamps' = [i \in DOMAIN stamps |->
                  IF stamps[i] > Window THEN stamps[i] ELSE stamps[i] + 1]

TypeOKLimiter ==
  /\ permits \in 0..MaxConcurrent
  /\ waiters \in Seq(Caller)
  /\ granted \subseteq Caller
  /\ inFlight \in 0..MaxConcurrent
  /\ pause \in Nat
  /\ stamps \in Seq(0..(Window + 1))
  /\ Len(stamps) <= MaxQpm
=============================================================================
