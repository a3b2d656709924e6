------------------------ MODULE RetryChatModelProofs ------------------------
(***************************************************************************)
(* The permits of the rate limiter, its cooldown, its window and the       *)
(* attempts of its callers, for every set of callers, every limit and      *)
(* every length of a pause.                                                *)
(***************************************************************************)
EXTENDS RetryChatModel, SequenceTheorems, FiniteSetTheorems, TLAPS

Waiting == {c \in Caller : pc[c] = "waiting"}

Elements(q) == {q[i] : i \in 1..Len(q)}

Unique(q) == \A i, j \in 1..Len(q) : q[i] = q[j] => i = j

(***************************************************************************)
(* The cooldown: what a caller owes is no more than what is left of the    *)
(* pause, and a caller past the check owes nothing.                        *)
(***************************************************************************)
CInv ==
  /\ pause \in Nat
  /\ pc \in [Caller -> Steps]
  /\ owed \in [Caller -> Nat]
  /\ \A c \in Caller : owed[c] <= pause
  /\ \A c \in Caller : PastCooldown(c) => owed[c] = 0

(***************************************************************************)
(* The permits: the queue holds each waiter once, no queued waiter has a   *)
(* permit, and the permits add up.                                         *)
(***************************************************************************)
PInv ==
  /\ pc \in [Caller -> Steps]
  /\ permits \in Nat
  /\ waiters \in Seq(Caller)
  /\ Unique(waiters)
  /\ Elements(waiters) \subseteq Waiting
  /\ granted \subseteq Waiting
  /\ Elements(waiters) \cap granted = {}
  /\ IsFiniteSet(granted)
  /\ IsFiniteSet(Holders)
  /\ PermitsConserved
(***************************************************************************)
(* The window holds no more claims than it may, whatever ages they have.   *)
(***************************************************************************)
WInv ==
  /\ stamps \in Seq(0..(Window + 1))
  /\ Len(stamps) <= MaxQpm

(***************************************************************************)
(* The attempts: a call that runs is on one of them, and a call that       *)
(* sleeps before another has one left.                                     *)
(***************************************************************************)
AInv ==
  /\ pc \in [Caller -> Steps]
  /\ attempt \in [Caller -> 0..Attempts]
  /\ timer \in [Caller -> Nat]
  /\ \A c \in Caller :
       /\ pc[c] # "idle" => attempt[c] > 0
       /\ pc[c] \in {"backoff", "holding"} => attempt[c] < Attempts
-----------------------------------------------------------------------------
(* Queues                                                                  *)

LEMMA TailFacts ==
  ASSUME NEW q \in Seq(Caller), q # <<>>, Unique(q)
  PROVE  /\ Head(q) \in Elements(q)
         /\ Tail(q) \in Seq(Caller)
         /\ Unique(Tail(q))
         /\ Elements(Tail(q)) \subseteq Elements(q)
         /\ Head(q) \notin Elements(Tail(q))
<1> DEFINE t == Tail(q)
           n == Len(q)
<1>1. /\ t \in Seq(Caller)
      /\ Len(t) = n - 1
      /\ \A i \in 1..Len(t) : t[i] = q[i + 1]
  BY HeadTailProperties
<1>2. n \in Nat /\ n > 0 /\ Head(q) = q[1]
  BY EmptySeq, LenProperties
<1> HIDE DEF t, n
<1>3. \A i \in 1..Len(t) : i + 1 \in 1..n /\ i + 1 # 1
  BY <1>1, <1>2
<1>4. Head(q) \in Elements(q)
  BY <1>2 DEF Elements, n
<1>5. Elements(t) \subseteq Elements(q)
  BY <1>1, <1>3 DEF Elements, n
<1>6. Head(q) \notin Elements(t)
  BY <1>1, <1>2, <1>3 DEF Elements, Unique, n
<1>7. Unique(t)
  <2> SUFFICES ASSUME NEW i \in 1..Len(t), NEW j \in 1..Len(t), t[i] = t[j]
               PROVE  i = j
    BY DEF Unique
  <2>1. q[i + 1] = q[j + 1]
    BY <1>1
  <2>2. i + 1 = j + 1
    BY <2>1, <1>3 DEF Unique, n
  <2> QED
    BY <2>2
<1> QED
  BY <1>1, <1>4, <1>5, <1>6, <1>7 DEF t

LEMMA AppendFacts ==
  ASSUME NEW q \in Seq(Caller), NEW c \in Caller, Unique(q), c \notin Elements(q)
  PROVE  /\ Append(q, c) \in Seq(Caller)
         /\ Unique(Append(q, c))
         /\ Elements(Append(q, c)) = Elements(q) \cup {c}
<1> DEFINE a == Append(q, c)
           n == Len(q)
<1>1. /\ a \in Seq(Caller)
      /\ Len(a) = n + 1
      /\ \A i \in 1..n : a[i] = q[i]
      /\ a[n + 1] = c
  BY AppendProperties
<1>2. n \in Nat
  BY LenProperties
<1> HIDE DEF a, n
<1>3. Elements(a) = Elements(q) \cup {c}
  BY <1>1, <1>2 DEF Elements, n
<1>4. Unique(a)
  BY <1>1, <1>2 DEF Elements, Unique, n
<1> QED
  BY <1>1, <1>3, <1>4 DEF a

LEMMA RemoveFacts ==
  ASSUME NEW q \in Seq(Caller), NEW k \in 1..Len(q), Unique(q)
  PROVE  /\ RemoveAt(q, k) \in Seq(Caller)
         /\ Unique(RemoveAt(q, k))
         /\ Elements(RemoveAt(q, k)) \subseteq Elements(q) \ {q[k]}
<1> DEFINE n == Len(q)
           l == SubSeq(q, 1, k - 1)
           r == SubSeq(q, k + 1, n)
           a == l \o r
<1>1. n \in Nat /\ \A i \in 1..n : q[i] \in Caller
  BY LenProperties, ElementOfSeq
<1>2. /\ l \in Seq(Caller)
      /\ Len(l) = k - 1
      /\ \A i \in 1..(k - 1) : l[i] = q[i]
  <2>1. \A i \in 1..(k - 1) : q[i] \in Caller
    BY <1>1
  <2>2. /\ l \in Seq(Caller)
        /\ Len(l) = IF 1 <= k - 1 THEN (k - 1) - 1 + 1 ELSE 0
        /\ \A i \in 1..((k - 1) - 1 + 1) : l[i] = q[1 + i - 1]
    BY <2>1, SubSeqProperties
  <2> QED
    BY <2>2, <1>1
<1>3. /\ r \in Seq(Caller)
      /\ Len(r) = n - k
      /\ \A i \in 1..(n - k) : r[i] = q[k + i]
  <2>1. \A i \in (k + 1)..n : q[i] \in Caller
    BY <1>1
  <2>2. /\ r \in Seq(Caller)
        /\ Len(r) = IF k + 1 <= n THEN n - (k + 1) + 1 ELSE 0
        /\ \A i \in 1..(n - (k + 1) + 1) : r[i] = q[(k + 1) + i - 1]
    BY <1>1, <2>1, SubSeqProperties
  <2> QED
    BY <2>2, <1>1
<1> HIDE DEF l, r, n
<1>4. /\ a \in Seq(Caller)
      /\ Len(a) = n - 1
      /\ \A i \in 1..(n - 1) : a[i] = IF i < k THEN q[i] ELSE q[i + 1]
  <2>1. /\ a \in Seq(Caller)
        /\ Len(a) = Len(l) + Len(r)
        /\ \A i \in 1..(Len(l) + Len(r)) :
             a[i] = IF i <= Len(l) THEN l[i] ELSE r[i - Len(l)]
    BY <1>2, <1>3, ConcatProperties
  <2> HIDE DEF a
  <2>2. Len(l) + Len(r) = n - 1
    BY <1>1, <1>2, <1>3
  <2>3. \A i \in 1..(n - 1) : i < k => a[i] = q[i]
    BY <1>1, <1>2, <2>1, <2>2 DEF n
  <2>4. ASSUME NEW i \in 1..(n - 1), ~(i < k)
        PROVE  a[i] = q[i + 1]
    <3>1. a[i] = r[i - (k - 1)]
      BY <1>1, <1>2, <2>1, <2>2, <2>4 DEF n
    <3>2. i - (k - 1) \in 1..(n - k)
      BY <1>1, <2>4 DEF n
    <3>3. r[i - (k - 1)] = q[k + (i - (k - 1))]
      BY <1>3, <3>2
    <3>4. k + (i - (k - 1)) = i + 1
      BY <1>1
    <3> QED
      BY <3>1, <3>3, <3>4
  <2> QED
    BY <2>1, <2>2, <2>3, <2>4
<1>5. a = RemoveAt(q, k)
  BY DEF RemoveAt, l, r, n
<1> HIDE DEF a
<1>6. Elements(a) \subseteq Elements(q) \ {q[k]}
  BY <1>1, <1>4 DEF Elements, Unique, n
<1>7. Unique(a)
  BY <1>1, <1>4 DEF Unique, n
<1> QED
  BY <1>4, <1>5, <1>6, <1>7
-----------------------------------------------------------------------------
(* Cardinalities                                                           *)

LEMMA AddOne ==
  ASSUME NEW S, NEW x, IsFiniteSet(S), x \notin S
  PROVE  /\ IsFiniteSet(S \cup {x})
         /\ Cardinality(S \cup {x}) = Cardinality(S) + 1
  BY FS_AddElement

LEMMA DropOne ==
  ASSUME NEW S, NEW x, IsFiniteSet(S), x \in S
  PROVE  /\ IsFiniteSet(S \ {x})
         /\ Cardinality(S \ {x}) = Cardinality(S) - 1
  BY FS_RemoveElement

\* What Offer does to n free permits, the queue q and the waiters g that own
\* one: free and owned permits add up, and a permit goes to a queued waiter.
LEMMA OfferFacts ==
  ASSUME NEW n \in Nat, NEW q \in Seq(Caller), NEW g, IsFiniteSet(g),
         Unique(q), Elements(q) \cap g = {}, Offer(n, q, g)
  PROVE  /\ permits' \in Nat
         /\ waiters' \in Seq(Caller)
         /\ Unique(waiters)'
         /\ Elements(waiters)' \subseteq Elements(q)
         /\ g \subseteq granted'
         /\ granted' \subseteq g \cup Elements(q)
         /\ Elements(waiters)' \cap granted' = {}
         /\ IsFiniteSet(granted)'
         /\ permits' + Cardinality(granted)' = n + Cardinality(g)
<1>1. Cardinality(g) \in Nat
  BY FS_CardinalityType
<1>2. CASE n > 0 /\ q # <<>>
  <2>1. permits' = n - 1 /\ waiters' = Tail(q) /\ granted' = g \cup {Head(q)}
    BY <1>2 DEF Offer
  <2>2. /\ Head(q) \in Elements(q)
        /\ Tail(q) \in Seq(Caller)
        /\ Unique(Tail(q))
        /\ Elements(Tail(q)) \subseteq Elements(q)
        /\ Head(q) \notin Elements(Tail(q))
    BY <1>2, TailFacts
  <2>3. Head(q) \notin g
    BY <2>2
  <2>4. /\ IsFiniteSet(g \cup {Head(q)})
        /\ Cardinality(g \cup {Head(q)}) = Cardinality(g) + 1
    BY <2>3, AddOne
  <2>5. Unique(waiters)' /\ Elements(waiters)' = Elements(Tail(q))
    BY <2>1, <2>2 DEF Unique, Elements
  <2>6. permits' + Cardinality(granted)' = n + Cardinality(g)
    <3>1. Cardinality(granted)' = Cardinality(g) + 1
      BY <2>1, <2>4
    <3> QED
      BY <1>1, <2>1, <3>1
  <2>7. permits' \in Nat
    BY <1>2, <2>1
  <2>8. IsFiniteSet(granted)'
    BY <2>1, <2>4
  <2> QED
    BY <2>1, <2>2, <2>5, <2>6, <2>7, <2>8
<1>3. CASE ~(n > 0 /\ q # <<>>)
  <2>1. permits' = n /\ waiters' = q /\ granted' = g
    BY <1>3 DEF Offer
  <2>2. Unique(waiters)' /\ Elements(waiters)' = Elements(q)
    BY <2>1 DEF Unique, Elements
  <2>3. Cardinality(granted)' = Cardinality(g) /\ IsFiniteSet(granted)'
    BY <2>1
  <2> QED
    BY <2>1, <2>2, <2>3
<1> QED
  BY <1>2, <1>3

\* Who holds a permit, and who waits, after c goes to a step.
LEMMA GotoFacts ==
  ASSUME pc \in [Caller -> Steps], NEW c \in Caller, NEW step \in Steps,
         Goto(c, step)
  PROVE  /\ pc' \in [Caller -> Steps]
         /\ pc[c] \in Holding /\ step \in Holding => Holders' = Holders
         /\ pc[c] \notin Holding /\ step \notin Holding => Holders' = Holders
         /\ pc[c] \in Holding /\ step \notin Holding =>
              c \in Holders /\ Holders' = Holders \ {c}
         /\ pc[c] \notin Holding /\ step \in Holding =>
              c \notin Holders /\ Holders' = Holders \cup {c}
         /\ Waiting \ {c} \subseteq Waiting'
         /\ pc[c] # "waiting" => Waiting \subseteq Waiting'
         /\ step = "waiting" => Waiting \cup {c} \subseteq Waiting'
<1> USE DEF Goto
<1>1. pc' \in [Caller -> Steps] /\ pc'[c] = step
  OBVIOUS
<1>2. \A d \in Caller : d # c => pc'[d] = pc[d]
  OBVIOUS
<1> QED
  BY <1>1, <1>2 DEF Holders, Waiting
-----------------------------------------------------------------------------
(* PInv after each thing a caller does with its permit                     *)

\* c moves on with the permit it has, or without one.
LEMMA KeepPermit ==
  ASSUME PInv, NEW c \in Caller, NEW step \in Steps, Goto(c, step),
         UNCHANGED <<semaphore, inFlight>>,
         pc[c] # "waiting",
         pc[c] \in Holding <=> step \in Holding
  PROVE  PInv'
<1>1. /\ pc' \in [Caller -> Steps]
      /\ Holders' = Holders
      /\ Waiting \subseteq Waiting'
  BY GotoFacts DEF PInv
<1>2. /\ permits' = permits /\ waiters' = waiters /\ granted' = granted
      /\ inFlight' = inFlight
  BY DEF semaphore
<1>3. Unique(waiters)' /\ Elements(waiters)' = Elements(waiters)
  BY <1>2 DEF PInv, Unique, Elements
<1> QED
  BY <1>1, <1>2, <1>3 DEF PInv, PermitsConserved

\* c gives its permit back.
LEMMA GiveBack ==
  ASSUME PInv, NEW c \in Caller, NEW step \in Steps, Goto(c, step),
         Release, pc[c] \in Holding, step \notin Holding
  PROVE  PInv'
<1>1. /\ pc' \in [Caller -> Steps]
      /\ c \in Holders
      /\ Holders' = Holders \ {c}
  BY GotoFacts DEF PInv
<1>2. Waiting \subseteq Waiting'
  BY GotoFacts DEF PInv, Holding
<1>3. /\ IsFiniteSet(Holders')
      /\ Cardinality(Holders') = Cardinality(Holders) - 1
  BY <1>1, DropOne DEF PInv
<1>4. /\ permits' \in Nat
      /\ waiters' \in Seq(Caller)
      /\ Unique(waiters)'
      /\ Elements(waiters)' \subseteq Elements(waiters)
      /\ granted' \subseteq granted \cup Elements(waiters)
      /\ Elements(waiters)' \cap granted' = {}
      /\ IsFiniteSet(granted)'
      /\ permits' + Cardinality(granted)' = permits + 1 + Cardinality(granted)
  <2>1. Offer(permits + 1, waiters, granted)
    BY DEF Release
  <2>2. permits + 1 \in Nat
    BY DEF PInv
  <2> QED
    BY <2>1, <2>2, OfferFacts DEF PInv
<1>5. PermitsConserved'
  <2>1. /\ Cardinality(Holders) \in Nat
        /\ Cardinality(granted) \in Nat
        /\ Cardinality(granted)' \in Nat
    BY <1>4, FS_CardinalityType DEF PInv
  <2>2. inFlight' = inFlight - 1
    BY DEF Release
  <2>3. /\ permits + Cardinality(granted) + Cardinality(Holders) = MaxConcurrent
        /\ inFlight = Cardinality(Holders)
        /\ permits \in Nat
    BY DEF PInv, PermitsConserved
  <2>4. permits' + Cardinality(granted)' + Cardinality(Holders') = MaxConcurrent
    BY <1>3, <1>4, <2>1, <2>3
  <2>5. inFlight' = Cardinality(Holders')
    BY <1>3, <2>2, <2>3
  <2> QED
    BY <2>4, <2>5 DEF PermitsConserved
<1> QED
  BY <1>1, <1>2, <1>3, <1>4, <1>5 DEF PInv

\* c takes a free permit, or queues for one.
LEMMA Takes ==
  ASSUME PInv, NEW c \in Caller, TakeSlot(c),
         pc[c] \notin Holding, pc[c] # "waiting"
  PROVE  PInv'
<1>1. CASE Locked
  <2>1. Enqueue(c) /\ Goto(c, "waiting") /\ inFlight' = inFlight
    BY <1>1 DEF TakeSlot
  <2>2. /\ waiters' = Append(waiters, c)
        /\ permits' = permits /\ granted' = granted
    BY <2>1 DEF Enqueue
  <2>3. "waiting" \in Steps /\ "waiting" \notin Holding
    BY DEF Steps, Acquiring, Holding
  <2>4. /\ pc' \in [Caller -> Steps]
        /\ Holders' = Holders
        /\ Waiting \cup {c} \subseteq Waiting'
    BY <2>1, <2>3, GotoFacts DEF PInv
  <2>5. c \notin Elements(waiters) /\ c \notin granted
    BY DEF PInv, Waiting
  <2>6. /\ waiters' \in Seq(Caller)
        /\ Unique(Append(waiters, c))
        /\ Elements(Append(waiters, c)) = Elements(waiters) \cup {c}
    BY <2>2, <2>5, AppendFacts DEF PInv
  <2>7. Unique(waiters)' /\ Elements(waiters)' = Elements(waiters) \cup {c}
    BY <2>2, <2>6 DEF Unique, Elements
  <2> QED
    BY <2>1, <2>2, <2>4, <2>5, <2>6, <2>7 DEF PInv, PermitsConserved
<1>2. CASE ~Locked
  <2>1. /\ permits' = permits - 1 /\ waiters' = waiters /\ granted' = granted
        /\ Goto(c, "calling")
        /\ inFlight' = inFlight + 1
    BY <1>2 DEF TakeSlot, TakePermit
  <2>2. "calling" \in Steps /\ "calling" \in Holding
    BY DEF Steps, Holding
  <2>3. /\ pc' \in [Caller -> Steps]
        /\ c \notin Holders
        /\ Holders' = Holders \cup {c}
        /\ Waiting \subseteq Waiting'
    BY <2>1, <2>2, GotoFacts DEF PInv
  <2>4. /\ IsFiniteSet(Holders')
        /\ Cardinality(Holders') = Cardinality(Holders) + 1
    BY <2>3, AddOne DEF PInv
  <2>5. permits' \in Nat
    BY <1>2, <2>1 DEF Locked, PInv
  <2>6. PermitsConserved'
    <3>1. /\ Cardinality(Holders) \in Nat
          /\ Cardinality(granted) \in Nat
          /\ Cardinality(granted)' = Cardinality(granted)
      BY <2>1, FS_CardinalityType DEF PInv
    <3>2. /\ permits + Cardinality(granted) + Cardinality(Holders) = MaxConcurrent
          /\ inFlight = Cardinality(Holders)
          /\ permits \in Nat
      BY DEF PInv, PermitsConserved
    <3>3. permits' + Cardinality(granted)' + Cardinality(Holders') = MaxConcurrent
      BY <2>1, <2>4, <3>1, <3>2
    <3>4. inFlight' = Cardinality(Holders')
      BY <2>1, <2>4, <3>2
    <3> QED
      BY <3>3, <3>4 DEF PermitsConserved
  <2>7. Unique(waiters)' /\ Elements(waiters)' = Elements(waiters)
    BY <2>1 DEF PInv, Unique, Elements
  <2> QED
    BY <2>1, <2>3, <2>4, <2>5, <2>6, <2>7 DEF PInv
<1> QED
  BY <1>1, <1>2

\* c runs with the permit it was granted.
LEMMA Wakes ==
  ASSUME PInv, NEW c \in Caller, Granted(c)
  PROVE  PInv'
<1>1. /\ c \in granted
      /\ Offer(permits, waiters, granted \ {c})
      /\ inFlight' = inFlight + 1
      /\ Goto(c, "calling")
  BY DEF Granted, Wake
<1>2. pc[c] = "waiting" /\ pc[c] \notin Holding
  BY <1>1 DEF PInv, Waiting, Holding
<1>3. "calling" \in Steps /\ "calling" \in Holding
  BY DEF Steps, Holding
<1>4. /\ pc' \in [Caller -> Steps]
      /\ c \notin Holders
      /\ Holders' = Holders \cup {c}
      /\ Waiting \ {c} \subseteq Waiting'
  BY <1>1, <1>2, <1>3, GotoFacts DEF PInv
<1>5. /\ IsFiniteSet(Holders')
      /\ Cardinality(Holders') = Cardinality(Holders) + 1
  BY <1>4, AddOne DEF PInv
<1>6. /\ IsFiniteSet(granted \ {c})
      /\ Cardinality(granted \ {c}) = Cardinality(granted) - 1
  BY <1>1, DropOne DEF PInv
<1>7. /\ permits' \in Nat
      /\ waiters' \in Seq(Caller)
      /\ Unique(waiters)'
      /\ Elements(waiters)' \subseteq Elements(waiters)
      /\ granted' \subseteq (granted \ {c}) \cup Elements(waiters)
      /\ Elements(waiters)' \cap granted' = {}
      /\ IsFiniteSet(granted)'
      /\ permits' + Cardinality(granted)' = permits + Cardinality(granted \ {c})
  <2>1. Elements(waiters) \cap (granted \ {c}) = {}
    BY DEF PInv
  <2> QED
    BY <1>1, <1>6, <2>1, OfferFacts DEF PInv
<1>8. c \notin Elements(waiters)
  BY <1>1 DEF PInv
<1>9. PermitsConserved'
  <2>1. /\ Cardinality(Holders) \in Nat
        /\ Cardinality(granted) \in Nat
        /\ Cardinality(granted)' \in Nat
    BY <1>7, FS_CardinalityType DEF PInv
  <2>2. /\ permits + Cardinality(granted) + Cardinality(Holders) = MaxConcurrent
        /\ inFlight = Cardinality(Holders)
        /\ permits \in Nat
    BY DEF PInv, PermitsConserved
  <2>3. permits' + Cardinality(granted)' + Cardinality(Holders') = MaxConcurrent
    BY <1>5, <1>6, <1>7, <2>1, <2>2
  <2>4. inFlight' = Cardinality(Holders')
    BY <1>1, <1>5, <2>2
  <2> QED
    BY <2>3, <2>4 DEF PermitsConserved
<1> QED
  BY <1>4, <1>5, <1>7, <1>8, <1>9 DEF PInv

\* c gives up its wait.
LEMMA Withdraws ==
  ASSUME PInv, NEW c \in Caller, pc[c] \in Acquiring, Withdraw(c)
  PROVE  PInv'
<1>1. Goto(c, "idle") /\ inFlight' = inFlight
  BY DEF Withdraw
<1>2. "idle" \in Steps /\ "idle" \notin Holding /\ pc[c] \notin Holding
  BY DEF Steps, Acquiring, Holding
<1>3. /\ pc' \in [Caller -> Steps]
      /\ Holders' = Holders
      /\ Waiting \ {c} \subseteq Waiting'
  BY <1>1, <1>2, GotoFacts DEF PInv
<1>4. CASE pc[c] # "waiting"
  BY <1>1, <1>2, <1>4, KeepPermit DEF Withdraw
<1>5. CASE pc[c] = "waiting" /\ c \in granted /\ Offer(permits + 1, waiters, granted \ {c})
  <2>1. /\ IsFiniteSet(granted \ {c})
        /\ Cardinality(granted \ {c}) = Cardinality(granted) - 1
    BY <1>5, DropOne DEF PInv
  <2>2. /\ permits' \in Nat
        /\ waiters' \in Seq(Caller)
        /\ Unique(waiters)'
        /\ Elements(waiters)' \subseteq Elements(waiters)
        /\ granted' \subseteq (granted \ {c}) \cup Elements(waiters)
        /\ Elements(waiters)' \cap granted' = {}
        /\ IsFiniteSet(granted)'
        /\ permits' + Cardinality(granted)' = permits + 1 + Cardinality(granted \ {c})
    <3>1. Elements(waiters) \cap (granted \ {c}) = {} /\ permits + 1 \in Nat
      BY DEF PInv
    <3> QED
      BY <1>5, <2>1, <3>1, OfferFacts DEF PInv
  <2>3. c \notin Elements(waiters)
    BY <1>5 DEF PInv
  <2>4. PermitsConserved'
    <3>1. Cardinality(granted) \in Nat /\ Cardinality(granted)' \in Nat
      BY <2>2, FS_CardinalityType DEF PInv
    <3>2. permits' + Cardinality(granted)' = permits + Cardinality(granted)
      BY <2>1, <2>2, <3>1 DEF PInv
    <3> QED
      BY <1>1, <1>3, <3>2 DEF PInv, PermitsConserved
  <2> QED
    BY <1>3, <2>2, <2>3, <2>4 DEF PInv
<1>6. ASSUME pc[c] = "waiting", NEW i \in DOMAIN waiters, waiters[i] = c,
             waiters' = RemoveAt(waiters, i), UNCHANGED <<permits, granted>>
      PROVE  PInv'
  <2>1. i \in 1..Len(waiters)
    BY LenProperties DEF PInv
  <2>2. /\ waiters' \in Seq(Caller)
        /\ Unique(RemoveAt(waiters, i))
        /\ Elements(RemoveAt(waiters, i)) \subseteq Elements(waiters) \ {c}
    BY <1>6, <2>1, RemoveFacts DEF PInv
  <2>3. Unique(waiters)' /\ Elements(waiters)' \subseteq Elements(waiters) \ {c}
    BY <1>6, <2>2 DEF Unique, Elements
  <2>4. c \notin granted
    BY <1>6, <2>1 DEF PInv, Elements
  <2>5. PermitsConserved'
    BY <1>1, <1>3, <1>6 DEF PInv, PermitsConserved
  <2> QED
    BY <1>3, <1>6, <2>2, <2>3, <2>4, <2>5 DEF PInv
<1> QED
  BY <1>4, <1>5, <1>6 DEF Withdraw, Leave
-----------------------------------------------------------------------------
(* The permits                                                             *)

LEMMA PInvInit == Init => PInv
<1> SUFFICES ASSUME Init PROVE PInv
  OBVIOUS
<1>1. /\ pc \in [Caller -> Steps]
      /\ Holders = {}
  BY DEF Init, Holders, Holding, Steps
<1>2. /\ permits \in Nat /\ permits = MaxConcurrent
      /\ waiters = <<>> /\ granted = {} /\ inFlight = 0
  BY LimitsAssumption DEF Init, InitLimiter
<1>3. /\ waiters \in Seq(Caller)
      /\ Unique(waiters)
      /\ Elements(waiters) = {}
  BY <1>2, EmptySeq DEF Unique, Elements
<1>4. IsFiniteSet({}) /\ Cardinality({}) = 0
  BY FS_EmptySet
<1>5. PermitsConserved
  BY <1>1, <1>2, <1>4, LimitsAssumption DEF PermitsConserved
<1> QED
  BY <1>1, <1>2, <1>3, <1>4, <1>5 DEF PInv

LEMMA PInvNext == PInv /\ [Next]_vars => PInv'
<1> SUFFICES ASSUME PInv, [Next]_vars PROVE PInv'
  OBVIOUS
<1> USE DEF Steps, Acquiring, Holding
<1>1. ASSUME NEW c \in Caller, Start(c) PROVE PInv'
  <2>1. Goto(c, "entering") /\ UNCHANGED <<semaphore, inFlight>> /\ pc[c] = "idle"
    BY <1>1 DEF Start, limiter, semaphore
  <2> QED
    BY <2>1, KeepPermit
<1>2. ASSUME NEW c \in Caller, pc[c] \notin Holding, pc[c] # "waiting", ClaimSlot(c)
      PROVE  PInv'
  <2>1. CASE WindowFull
    <3>1. Goto(c, "throttled") /\ UNCHANGED <<semaphore, inFlight>>
      BY <1>2, <2>1 DEF ClaimSlot, SleepAt
    <3> QED
      BY <1>2, <3>1, KeepPermit
  <2>2. CASE ~WindowFull
    BY <1>2, <2>2, Takes DEF ClaimSlot
  <2> QED
    BY <2>1, <2>2
<1>3. ASSUME NEW c \in Caller, Cooldown(c) PROVE PInv'
  <2>1. pc[c] = "entering" \/ pc[c] = "paused"
    BY <1>3 DEF Cooldown, Awake
  <2>2. CASE pause > 0
    <3>1. Goto(c, "paused") /\ UNCHANGED <<semaphore, inFlight>>
      BY <1>3, <2>2 DEF Cooldown, SleepAt
    <3> QED
      BY <2>1, <3>1, KeepPermit
  <2>3. CASE ~(pause > 0)
    BY <1>2, <1>3, <2>1, <2>3 DEF Cooldown
  <2> QED
    BY <2>2, <2>3
<1>4. ASSUME NEW c \in Caller, Throttled(c) PROVE PInv'
  <2>1. pc[c] = "throttled" /\ ClaimSlot(c)
    BY <1>4 DEF Throttled, Awake
  <2> QED
    BY <1>2, <2>1
<1>5. ASSUME NEW c \in Caller, Granted(c) PROVE PInv'
  BY <1>5, Wakes
<1>6. ASSUME NEW c \in Caller, AcquireTimeout(c) PROVE PInv'
  BY <1>6, Withdraws DEF AcquireTimeout
<1>7. ASSUME NEW c \in Caller, NEW step \in Steps \ (Holding \cup {"waiting"}),
             pc[c] # "waiting", LeaveSlot(c), Goto(c, step)
      PROVE  PInv'
  <2>1. CASE pc[c] \in Holding
    BY <1>7, <2>1, GiveBack DEF LeaveSlot
  <2>2. CASE pc[c] \notin Holding
    BY <1>7, <2>2, KeepPermit DEF LeaveSlot
  <2> QED
    BY <2>1, <2>2
<1>8. ASSUME NEW c \in Caller, OpenStream(c) PROVE PInv'
  <2>1. /\ pc[c] = "calling" /\ Goto(c, "opening")
        /\ UNCHANGED <<semaphore, inFlight>>
    BY <1>8 DEF OpenStream, limiter, semaphore
  <2> QED
    BY <2>1, KeepPermit
<1>9. ASSUME NEW c \in Caller, FirstChunk(c) PROVE PInv'
  <2>1. pc[c] = "opening" /\ Release /\ Goto(c, "streaming")
    BY <1>9 DEF FirstChunk
  <2> QED
    BY <2>1, GiveBack
<1>10. ASSUME NEW c \in Caller, Reply(c) PROVE PInv'
  <2>1. pc[c] # "waiting" /\ LeaveSlot(c) /\ Goto(c, "idle")
    BY <1>10 DEF Reply
  <2> QED
    BY <1>7, <2>1
<1>11. ASSUME NEW c \in Caller, NEW e \in Errors, CallFails(c, e) PROVE PInv'
  <2>1. pc[c] = "calling"
    BY <1>11 DEF CallFails
  <2>2. CASE Retries(c, e)
    <3>1. Goto(c, "holding") /\ UNCHANGED <<semaphore, inFlight>>
      BY <1>11, <2>2 DEF CallFails, SleepAt
    <3> QED
      BY <2>1, <3>1, KeepPermit
  <2>3. CASE ~Retries(c, e)
    <3>1. Goto(c, "idle") /\ Release
      BY <1>11, <2>3 DEF CallFails
    <3> QED
      BY <2>1, <3>1, GiveBack
  <2> QED
    BY <2>2, <2>3
<1>12. ASSUME NEW c \in Caller, NEW e \in Errors, StreamFails(c, e) PROVE PInv'
  <2>1. pc[c] # "waiting" /\ LeaveSlot(c) /\ (Goto(c, "backoff") \/ Goto(c, "idle"))
    BY <1>12 DEF StreamFails, SleepAt
  <2> QED
    BY <1>7, <2>1
<1>13. ASSUME NEW c \in Caller, NextAttempt(c) PROVE PInv'
  <2>1. pc[c] # "waiting" /\ LeaveSlot(c) /\ Goto(c, "entering")
    BY <1>13 DEF NextAttempt, Awake
  <2> QED
    BY <1>7, <2>1
<1>14. ASSUME NEW c \in Caller, Cancel(c) PROVE PInv'
  <2>1. CASE pc[c] \in Acquiring
    <3>1. Withdraw(c)
      BY <1>14, <2>1 DEF Cancel
    <3> QED
      BY <2>1, <3>1, Withdraws
  <2>2. CASE pc[c] \notin Acquiring
    <3>1. pc[c] # "waiting" /\ LeaveSlot(c) /\ Goto(c, "idle")
      BY <1>14, <2>2 DEF Cancel
    <3> QED
      BY <1>7, <3>1
  <2> QED
    BY <2>1, <2>2
<1>15. ASSUME UNCHANGED <<semaphore, inFlight, pc>> PROVE PInv'
  BY <1>15 DEF PInv, semaphore, Unique, Elements, Waiting, Holders, PermitsConserved
<1>16. CASE Tick
  BY <1>15, <1>16 DEF Tick
<1>17. CASE UNCHANGED vars
  BY <1>15, <1>17 DEF vars, semaphore
<1> QED
  BY <1>1, <1>3, <1>4, <1>5, <1>6, <1>8, <1>9, <1>10, <1>11, <1>12, <1>13,
     <1>14, <1>16, <1>17 DEF Next, Run, Inner

\* No permit is lost, and none is released twice.
THEOREM PermitsSafe == Spec => []PermitsConserved
<1>1. PInv => PermitsConserved
  BY DEF PInv
<1> QED
  BY <1>1, PInvInit, PInvNext, PTL DEF Spec
-----------------------------------------------------------------------------
(* The cooldown                                                            *)

LEMMA CInvInit == Init => CInv
  BY DEF Init, InitLimiter, CInv, PastCooldown, Steps

\* A step that leaves the pause alone and takes nobody past the check.
LEMMA StaysBehind ==
  ASSUME CInv, NEW c \in Caller, NEW step \in Steps, Goto(c, step),
         UNCHANGED <<pause, owed>>,
         step \in {"throttled", "waiting"} => owed[c] = 0
  PROVE  CInv'
  BY DEF CInv, Goto, PastCooldown

\* A failure: the pause grows to cover what is owed.
LEMMA Fails ==
  ASSUME CInv, NEW c \in Caller, NEW e \in Errors, Report(e),
         NEW step \in {"backoff", "holding", "idle"}, Goto(c, step)
  PROVE  CInv'
<1>1. step \in Steps /\ step \notin {"throttled", "waiting"}
  BY DEF Steps, Acquiring, Holding
<1>2. CASE e # "rate"
  BY <1>1, <1>2, StaysBehind DEF Report
<1>3. CASE e = "rate"
  <2>1. PICK p \in PauseTimes : ReportRateLimit(p) /\ Owe(p)
    BY <1>3 DEF Report
  <2>2. p \in Nat
    BY CallAssumption
  <2>3. pause' = IF p > pause THEN p ELSE pause
    BY <2>1 DEF ReportRateLimit
  <2>4. owed' = [d \in Caller |->
                   IF PastCooldown(d) \/ p <= owed[d] THEN owed[d] ELSE p]
    BY <2>1 DEF Owe
  <2>5. pc' \in [Caller -> Steps] /\ pause' \in Nat /\ owed' \in [Caller -> Nat]
    BY <1>1, <2>2, <2>3, <2>4 DEF CInv, Goto
  <2>6. ASSUME NEW d \in Caller PROVE owed'[d] <= pause'
    <3>1. owed'[d] = owed[d] \/ owed'[d] = p
      BY <2>4
    <3>2. owed[d] \in Nat /\ pause \in Nat /\ owed[d] <= pause
      BY DEF CInv
    <3> QED
      BY <2>2, <2>3, <3>1, <3>2
  <2>7. ASSUME NEW d \in Caller, PastCooldown(d)' PROVE owed'[d] = 0
    <3>1. d # c /\ pc'[d] = pc[d]
      BY <1>1, <2>7 DEF PastCooldown, Goto, CInv
    <3>2. PastCooldown(d)
      BY <2>7, <3>1 DEF PastCooldown
    <3> QED
      BY <2>4, <3>2 DEF CInv
  <2> QED
    BY <2>5, <2>6, <2>7 DEF CInv
<1> QED
  BY <1>2, <1>3

\* Whoever claims a slot owes nothing: the window and the semaphore may follow.
LEMMA Claims ==
  ASSUME CInv, NEW c \in Caller, ClaimSlot(c), UNCHANGED <<pause, owed>>, owed[c] = 0
  PROVE  CInv'
<1>1. PICK step \in {"throttled", "waiting", "calling"} : Goto(c, step)
  BY DEF ClaimSlot, TakeSlot, SleepAt
<1>2. step \in Steps
  BY DEF Steps, Acquiring, Holding
<1> QED
  BY <1>1, <1>2, StaysBehind

\* At the check without a pause, and past the check, nothing is owed.
LEMMA NothingOwed ==
  ASSUME CInv, NEW c \in Caller, ~(pause > 0) \/ PastCooldown(c)
  PROVE  owed[c] = 0
<1>1. owed[c] \in Nat /\ pause \in Nat /\ owed[c] <= pause
  BY DEF CInv
<1> QED
  BY <1>1 DEF CInv

LEMMA CInvNext == CInv /\ PInv /\ [Next]_vars => CInv'
<1> SUFFICES ASSUME CInv, PInv, [Next]_vars PROVE CInv'
  OBVIOUS
<1>1. ASSUME NEW c \in Caller, NEW step \in Steps \ {"throttled", "waiting"},
             Goto(c, step), UNCHANGED <<pause, owed>>
      PROVE  CInv'
  BY <1>1, StaysBehind
<1>2. /\ {"idle", "entering", "paused", "calling", "opening", "streaming"}
           \subseteq Steps \ {"throttled", "waiting"}
  BY DEF Steps, Acquiring, Holding
<1>3. ASSUME NEW c \in Caller, Cooldown(c) PROVE CInv'
  <2>1. UNCHANGED <<pause, owed>>
    BY <1>3 DEF Cooldown
  <2>2. CASE pause > 0
    BY <1>1, <1>2, <1>3, <2>1, <2>2 DEF Cooldown, SleepAt
  <2>3. CASE ~(pause > 0)
    BY <1>3, <2>1, <2>3, Claims, NothingOwed DEF Cooldown
  <2> QED
    BY <2>2, <2>3
<1>4. ASSUME NEW c \in Caller, Throttled(c) PROVE CInv'
  <2>1. PastCooldown(c) /\ ClaimSlot(c) /\ UNCHANGED <<pause, owed>>
    BY <1>4 DEF Throttled, Awake, PastCooldown
  <2> QED
    BY <2>1, Claims, NothingOwed
<1>5. ASSUME NEW c \in Caller,
             Start(c) \/ Granted(c) \/ AcquireTimeout(c) \/ Cancel(c)
               \/ OpenStream(c) \/ FirstChunk(c) \/ Reply(c) \/ NextAttempt(c)
      PROVE  CInv'
  <2>1. UNCHANGED <<pause, owed>>
    BY <1>5 DEF Start, Granted, AcquireTimeout, Cancel, OpenStream, FirstChunk,
                Reply, NextAttempt, limiter
  <2>2. \E step \in {"idle", "entering", "calling", "opening", "streaming"} :
          Goto(c, step)
    BY <1>5 DEF Start, Granted, AcquireTimeout, Cancel, Withdraw, OpenStream,
                FirstChunk, Reply, NextAttempt
  <2> QED
    BY <1>1, <1>2, <2>1, <2>2
<1>6. ASSUME NEW c \in Caller, NEW e \in Errors, CallFails(c, e) \/ StreamFails(c, e)
      PROVE  CInv'
  <2>1. Report(e) /\ \E step \in {"backoff", "holding", "idle"} : Goto(c, step)
    BY <1>6 DEF CallFails, StreamFails, SleepAt
  <2> QED
    BY <2>1, Fails
<1>7. CASE Tick
  <2>1. /\ pause' = Earlier(pause)
        /\ owed' = [c \in Caller |-> Earlier(owed[c])]
        /\ pc' = pc
    BY <1>7 DEF Tick, LimiterTick
  <2>2. pause' \in Nat /\ owed' \in [Caller -> Nat]
    BY <2>1 DEF CInv, Earlier
  <2>3. \A c \in Caller : owed'[c] <= pause'
    BY <2>1 DEF CInv, Earlier
  <2>4. \A c \in Caller : PastCooldown(c)' => owed'[c] = 0
    BY <2>1 DEF CInv, Earlier, PastCooldown
  <2> QED
    BY <2>1, <2>2, <2>3, <2>4 DEF CInv
<1>8. CASE UNCHANGED vars
  BY <1>8 DEF vars, CInv, PastCooldown
<1> QED
  BY <1>3, <1>4, <1>5, <1>6, <1>7, <1>8 DEF Next, Run, Inner

\* A call starts from the check without a pause, or from beyond it.
LEMMA CallsFreely ==
  ASSUME CInv, PInv, [Next]_vars, NEW c \in Caller, Calls(c)
  PROVE  owed[c] = 0
<1> SUFFICES ASSUME ~PastCooldown(c), pause > 0
             PROVE  FALSE
  BY NothingOwed
<1>1. pc[c] \in Steps /\ pc[c] # "calling" /\ pc'[c] = "calling"
  BY DEF Calls, CInv
<1>2. ASSUME NEW d \in Caller, NEW step \in Steps \ {"calling"}, Goto(d, step)
      PROVE  FALSE
  BY <1>1, <1>2 DEF Goto, CInv
<1>3. ASSUME NEW d \in Caller, d # c, NEW step \in Steps, Goto(d, step)
      PROVE  FALSE
  BY <1>1, <1>3 DEF Goto, CInv
<1>4. {"idle", "entering", "paused", "throttled", "opening", "streaming", "backoff",
       "holding"} \subseteq Steps \ {"calling"} /\ {"waiting", "calling"} \subseteq Steps
  BY DEF Steps, Acquiring, Holding
<1>5. ASSUME NEW d \in Caller, Cooldown(d) PROVE FALSE
  BY <1>2, <1>4, <1>5 DEF Cooldown, SleepAt
<1>6. ASSUME NEW d \in Caller, Throttled(d) PROVE FALSE
  <2>1. d # c
    BY <1>6 DEF Throttled, Awake, PastCooldown
  <2>2. \E step \in {"throttled", "waiting", "calling"} : Goto(d, step)
    BY <1>6 DEF Throttled, ClaimSlot, TakeSlot, SleepAt
  <2> QED
    BY <1>3, <1>4, <2>1, <2>2
<1>7. ASSUME NEW d \in Caller, Granted(d) PROVE FALSE
  <2>1. d # c
    BY <1>7 DEF Granted, PInv, Waiting, PastCooldown
  <2> QED
    BY <1>3, <1>4, <1>7, <2>1 DEF Granted
<1>8. ASSUME NEW d \in Caller,
             Start(d) \/ AcquireTimeout(d) \/ Cancel(d) \/ OpenStream(d)
               \/ FirstChunk(d) \/ Reply(d) \/ NextAttempt(d)
      PROVE  FALSE
  BY <1>2, <1>4, <1>8 DEF Start, AcquireTimeout, Cancel, Withdraw, OpenStream,
                          FirstChunk, Reply, NextAttempt
<1>9. ASSUME NEW d \in Caller, NEW e \in Errors, CallFails(d, e) \/ StreamFails(d, e)
      PROVE  FALSE
  BY <1>2, <1>4, <1>9 DEF CallFails, StreamFails, SleepAt
<1>10. CASE Tick \/ UNCHANGED vars
  BY <1>1, <1>10 DEF Tick, vars
<1> QED
  BY <1>5, <1>6, <1>7, <1>8, <1>9, <1>10 DEF Next, Run, Inner

\* A 429 keeps every caller that is not past the check from its next call until
\* the pause it asked for is over.
THEOREM CooldownSafe == Spec => CooldownBinds
<1>1. CInv /\ PInv /\ [Next]_vars => [\A c \in Caller : Calls(c) => owed[c] = 0]_vars
  BY CallsFreely
<1> QED
  BY <1>1, CInvInit, CInvNext, PInvInit, PInvNext, PTL DEF Spec, CooldownBinds
-----------------------------------------------------------------------------
(* The window                                                              *)

LEMMA LiveFacts ==
  ASSUME WInv
  PROVE  /\ Live \in Seq(0..(Window + 1))
         /\ Len(Live) <= Len(stamps)
<1> DEFINE n == Len(stamps)
           D == {i \in DOMAIN stamps : \A j \in 1..i : stamps[j] > Window}
<1>1. n \in Nat /\ DOMAIN stamps = 1..n /\ \A i \in 1..n : stamps[i] \in 0..(Window + 1)
  BY LenProperties, ElementOfSeq DEF WInv
<1>2. IsFiniteSet(1..n) /\ D \in SUBSET (1..n)
  BY <1>1, FS_Interval
<1>3. Expired \in Nat
  <2>1. IsFiniteSet(D)
    BY <1>2, FS_Subset
  <2> QED
    BY <2>1, FS_CardinalityType DEF Expired
<1> HIDE DEF n, D
<1>4. \A i \in (Expired + 1)..n : stamps[i] \in 0..(Window + 1)
  BY <1>1, <1>3
<1>5. /\ Live \in Seq(0..(Window + 1))
      /\ Len(Live) = IF Expired + 1 <= n THEN n - (Expired + 1) + 1 ELSE 0
  <2>1. Expired + 1 \in Int /\ n \in Int
    BY <1>1, <1>3
  <2> QED
    BY <1>4, <2>1, SubSeqProperties DEF Live, n
<1>6. Len(Live) <= n
  BY <1>1, <1>3, <1>5
<1> QED
  BY <1>5, <1>6 DEF n

\* A claim finds room in what is left of the window.
LEMMA ClaimFits ==
  ASSUME WInv, NEW c \in Caller, ClaimSlot(c)
  PROVE  WInv'
<1>1. Live \in Seq(0..(Window + 1)) /\ Len(Live) \in Nat /\ Len(Live) <= Len(stamps)
  BY LiveFacts, LenProperties
<1>2. Len(stamps) \in Nat /\ Len(stamps) <= MaxQpm
  BY LenProperties DEF WInv
<1>3. CASE stamps' = stamps
  BY <1>3 DEF WInv
<1>4. CASE stamps' = Live
  BY <1>1, <1>2, <1>4, LimitsAssumption DEF WInv
<1>5. CASE MaxQpm > 0 /\ ~WindowFull /\ stamps' = Append(Live, 0)
  <2>1. Len(Live) < MaxQpm
    BY <1>1, <1>5, LimitsAssumption DEF WindowFull
  <2>2. 0 \in 0..(Window + 1)
    BY LimitsAssumption
  <2>3. stamps' \in Seq(0..(Window + 1)) /\ Len(stamps') = Len(Live) + 1
    BY <1>1, <1>5, <2>2, AppendProperties
  <2> QED
    BY <1>1, <2>1, <2>3, LimitsAssumption DEF WInv
<1> QED
  BY <1>3, <1>4, <1>5 DEF ClaimSlot, Evict, ClaimWindow

LEMMA WInvInit == Init => WInv
  BY EmptySeq, LimitsAssumption DEF Init, InitLimiter, WInv

LEMMA WInvNext == WInv /\ [Next]_vars => WInv'
<1> SUFFICES ASSUME WInv, [Next]_vars PROVE WInv'
  OBVIOUS
<1>1. CASE UNCHANGED stamps
  BY <1>1 DEF WInv
<1>2. ASSUME NEW c \in Caller, Cooldown(c) \/ Throttled(c) PROVE WInv'
  BY <1>1, <1>2, ClaimFits DEF Cooldown, Throttled
<1>3. ASSUME NEW c \in Caller,
             Start(c) \/ Granted(c) \/ AcquireTimeout(c) \/ Cancel(c)
               \/ OpenStream(c) \/ FirstChunk(c) \/ Reply(c) \/ NextAttempt(c)
      PROVE  WInv'
  BY <1>1, <1>3 DEF Start, Granted, AcquireTimeout, Cancel, OpenStream,
                    FirstChunk, Reply, NextAttempt, limiter
<1>4. ASSUME NEW c \in Caller, NEW e \in Errors, CallFails(c, e) \/ StreamFails(c, e)
      PROVE  WInv'
  BY <1>1, <1>4 DEF CallFails, StreamFails
<1>5. CASE Tick
  <2>1. stamps' = [i \in DOMAIN stamps |->
                     IF stamps[i] > Window THEN stamps[i] ELSE stamps[i] + 1]
    BY <1>5 DEF Tick, LimiterTick
  <2>2. /\ DOMAIN stamps = 1..Len(stamps) /\ Len(stamps) \in Nat
        /\ \A i \in 1..Len(stamps) : stamps[i] \in 0..(Window + 1)
    BY LenProperties, ElementOfSeq DEF WInv
  <2>3. \A i \in 1..Len(stamps) :
          (IF stamps[i] > Window THEN stamps[i] ELSE stamps[i] + 1) \in 0..(Window + 1)
    BY <2>2, LimitsAssumption
  <2>4. stamps' = [i \in 1..Len(stamps) |->
                     IF stamps[i] > Window THEN stamps[i] ELSE stamps[i] + 1]
    BY <2>1, <2>2
  <2>5. stamps' \in Seq(0..(Window + 1)) /\ Len(stamps') = Len(stamps)
    BY <2>2, <2>3, <2>4
  <2> QED
    BY <2>5 DEF WInv
<1>6. CASE UNCHANGED vars
  BY <1>1, <1>6 DEF vars
<1> QED
  BY <1>2, <1>3, <1>4, <1>5, <1>6 DEF Next, Run, Inner
-----------------------------------------------------------------------------
(* The attempts and the types                                              *)

\* 2^n counts the subsets of 1..n.
LEMMA PowerOfTwo ==
  ASSUME NEW n \in Nat
  PROVE  2^n \in Nat
<1>1. IsFiniteSet(1..n) /\ Cardinality(1..n) = n
  BY FS_Interval
<1>2. /\ IsFiniteSet(SUBSET (1..n))
      /\ Cardinality(SUBSET (1..n)) = 2^Cardinality(1..n)
  BY <1>1, FS_SUBSET
<1>3. Cardinality(SUBSET (1..n)) \in Nat
  BY <1>2, FS_CardinalityType
<1> QED
  BY <1>1, <1>2, <1>3

LEMMA DelayIsTime ==
  ASSUME NEW n \in Nat \ {0}
  PROVE  Delay(n) \in Nat
<1> DEFINE d == BackoffBase * 2^(n - 1)
<1>1. 2^(n - 1) \in Nat
  BY PowerOfTwo
<1>2. d \in Nat
  BY <1>1, CallAssumption
<1> HIDE DEF d
<1>3. (IF d < BackoffCap THEN d ELSE BackoffCap) \in Nat
  BY <1>2, CallAssumption
<1> QED
  BY <1>3 DEF Delay, d

\* The wait for a full window is a time: there is an oldest timestamp.
LEMMA WindowWaitIsTime ==
  ASSUME WInv, WindowFull
  PROVE  WindowWait \in Nat
<1>1. Live \in Seq(0..(Window + 1)) /\ Len(Live) \in Nat
  BY LiveFacts, LenProperties
<1>2. Len(Live) > 0
  BY <1>1, LimitsAssumption DEF WindowFull
<1>3. Live[1] \in 0..(Window + 1)
  <2>1. 1 \in 1..Len(Live)
    BY <1>1, <1>2
  <2> QED
    BY <1>1, <2>1, ElementOfSeq
<1>4. Head(Live) \in 0..(Window + 1)
  BY <1>1, <1>3
<1> QED
  BY <1>4, LimitsAssumption DEF WindowWait

\* A call goes to a step; its timer is set, or left alone.
LEMMA Moves ==
  ASSUME AInv, NEW c \in Caller, NEW step \in Steps, Goto(c, step),
         attempt' = attempt,
         \/ timer' = timer
         \/ \E t \in Nat : timer' = [timer EXCEPT ![c] = t],
         step # "idle" => pc[c] # "idle",
         step \in {"backoff", "holding"} => attempt[c] < Attempts
  PROVE  AInv'
<1>1. pc' = [pc EXCEPT ![c] = step]
  BY DEF Goto
<1>2. pc' \in [Caller -> Steps] /\ timer' \in [Caller -> Nat]
  BY <1>1 DEF AInv
<1>3. ASSUME NEW d \in Caller
      PROVE  /\ pc'[d] # "idle" => attempt[d] > 0
             /\ pc'[d] \in {"backoff", "holding"} => attempt[d] < Attempts
  BY <1>1 DEF AInv
<1> QED
  BY <1>2, <1>3 DEF AInv

\* A claim calls, queues, or sleeps until the window moves on.
LEMMA ClaimMoves ==
  ASSUME AInv, WInv, NEW c \in Caller, pc[c] # "idle", ClaimSlot(c), attempt' = attempt
  PROVE  AInv'
<1> USE DEF Steps, Acquiring, Holding
<1>1. CASE WindowFull
  <2>1. Goto(c, "throttled") /\ timer' = [timer EXCEPT ![c] = WindowWait]
    BY <1>1 DEF ClaimSlot, SleepAt
  <2>2. WindowWait \in Nat
    BY <1>1, WindowWaitIsTime
  <2> QED
    BY <2>1, <2>2, Moves
<1>2. CASE ~WindowFull
  <2>1. (Goto(c, "waiting") \/ Goto(c, "calling")) /\ timer' = timer
    BY <1>2 DEF ClaimSlot, TakeSlot
  <2> QED
    BY <2>1, Moves
<1> QED
  BY <1>1, <1>2

\* A failed call sleeps when it has an attempt left, and ends otherwise.
LEMMA FailureMoves ==
  ASSUME AInv, NEW c \in Caller, NEW e \in Errors, CallFails(c, e) \/ StreamFails(c, e)
  PROVE  AInv'
<1> USE DEF Steps, Acquiring, Holding
<1>1. pc[c] # "idle" /\ attempt' = attempt
  BY DEF CallFails, StreamFails
<1>2. CASE Retries(c, e)
  <2>1. PICK step \in {"backoff", "holding"} :
          Goto(c, step) /\ timer' = [timer EXCEPT ![c] = Delay(attempt[c])]
    BY <1>2 DEF CallFails, StreamFails, SleepAt
  <2>2. attempt[c] \in Nat \ {0} /\ attempt[c] < Attempts
    BY <1>1, <1>2 DEF AInv, Retries
  <2>3. Delay(attempt[c]) \in Nat
    BY <2>2, DelayIsTime
  <2> QED
    BY <1>1, <2>1, <2>2, <2>3, Moves
<1>3. CASE ~Retries(c, e)
  <2>1. Goto(c, "idle") /\ timer' = timer
    BY <1>3 DEF CallFails, StreamFails
  <2> QED
    BY <1>1, <2>1, Moves
<1> QED
  BY <1>2, <1>3

LEMMA AInvInit == Init => AInv
  BY CallAssumption DEF Init, AInv, Steps

LEMMA AInvNext == AInv /\ CInv /\ PInv /\ WInv /\ [Next]_vars => AInv'
<1> SUFFICES ASSUME AInv, CInv, PInv, WInv, [Next]_vars PROVE AInv'
  OBVIOUS
<1> USE DEF Steps, Acquiring, Holding
<1>1. ASSUME NEW c \in Caller, Start(c) PROVE AInv'
  <2>1. /\ pc' = [pc EXCEPT ![c] = "entering"]
        /\ attempt' = [attempt EXCEPT ![c] = 1]
        /\ timer' = timer
    BY <1>1 DEF Start, Goto
  <2>2. 1 \in 0..Attempts
    BY CallAssumption
  <2>3. ASSUME NEW d \in Caller
        PROVE  /\ pc'[d] # "idle" => attempt'[d] > 0
               /\ pc'[d] \in {"backoff", "holding"} => attempt'[d] < Attempts
    BY <2>1 DEF AInv
  <2> QED
    BY <2>1, <2>2, <2>3 DEF AInv
<1>2. ASSUME NEW c \in Caller, Cooldown(c) PROVE AInv'
  <2>1. pc[c] # "idle" /\ attempt' = attempt
    BY <1>2 DEF Cooldown, Awake
  <2>2. CASE pause > 0
    <3>1. PICK j \in 0..MaxJitter : SleepAt(c, "paused", pause + j)
      BY <1>2, <2>2 DEF Cooldown
    <3>2. pause + j \in Nat
      BY CallAssumption DEF CInv
    <3>3. Goto(c, "paused") /\ timer' = [timer EXCEPT ![c] = pause + j]
      BY <3>1 DEF SleepAt
    <3> QED
      BY <2>1, <3>2, <3>3, Moves
  <2>3. CASE ~(pause > 0)
    BY <1>2, <2>1, <2>3, ClaimMoves DEF Cooldown
  <2> QED
    BY <2>2, <2>3
<1>3. ASSUME NEW c \in Caller, Throttled(c) PROVE AInv'
  BY <1>3, ClaimMoves DEF Throttled, Awake
<1>4. ASSUME NEW c \in Caller, Granted(c) PROVE AInv'
  <2>1. Goto(c, "calling") /\ timer' = timer /\ attempt' = attempt
    BY <1>4 DEF Granted
  <2>2. pc[c] # "idle"
    BY <1>4 DEF Granted, PInv, Waiting
  <2> QED
    BY <2>1, <2>2, Moves
<1>5. ASSUME NEW c \in Caller, AcquireTimeout(c) \/ Cancel(c) PROVE AInv'
  <2>1. Goto(c, "idle") /\ timer' = [timer EXCEPT ![c] = 0] /\ attempt' = attempt
    BY <1>5 DEF AcquireTimeout, Cancel, Withdraw
  <2> QED
    BY <2>1, Moves
<1>6. ASSUME NEW c \in Caller, OpenStream(c) \/ FirstChunk(c) \/ Reply(c)
      PROVE  AInv'
  <2>1. PICK step \in {"opening", "streaming", "idle"} : Goto(c, step)
    BY <1>6 DEF OpenStream, FirstChunk, Reply
  <2>2. pc[c] # "idle" /\ timer' = timer /\ attempt' = attempt
    BY <1>6 DEF OpenStream, FirstChunk, Reply
  <2> QED
    BY <2>1, <2>2, Moves
<1>7. ASSUME NEW c \in Caller, NEW e \in Errors, CallFails(c, e) \/ StreamFails(c, e)
      PROVE  AInv'
  BY <1>7, FailureMoves
<1>8. ASSUME NEW c \in Caller, NextAttempt(c) PROVE AInv'
  <2>1. /\ pc' = [pc EXCEPT ![c] = "entering"]
        /\ attempt' = [attempt EXCEPT ![c] = attempt[c] + 1]
        /\ timer' = timer
    BY <1>8 DEF NextAttempt, Goto
  <2>2. pc[c] \in {"backoff", "holding"}
    BY <1>8 DEF NextAttempt, Awake
  <2>3. attempt[c] + 1 \in 0..Attempts /\ attempt[c] + 1 > 0
    BY <2>2, CallAssumption DEF AInv
  <2>4. ASSUME NEW d \in Caller
        PROVE  /\ pc'[d] # "idle" => attempt'[d] > 0
               /\ pc'[d] \in {"backoff", "holding"} => attempt'[d] < Attempts
    BY <2>1, <2>3 DEF AInv
  <2> QED
    BY <2>1, <2>3, <2>4 DEF AInv
<1>9. CASE Tick
  <2>1. /\ timer' = [c \in Caller |-> Earlier(timer[c])]
        /\ pc' = pc /\ attempt' = attempt
    BY <1>9 DEF Tick
  <2>2. timer' \in [Caller -> Nat]
    BY <2>1 DEF AInv, Earlier
  <2> QED
    BY <2>1, <2>2 DEF AInv
<1>10. CASE UNCHANGED vars
  BY <1>10 DEF vars, AInv
<1> QED
  BY <1>1, <1>2, <1>3, <1>4, <1>5, <1>6, <1>7, <1>8, <1>9, <1>10 DEF Next, Run, Inner

\* Every variable keeps its type: the window never holds more than max_qpm
\* claims, no call starts an attempt beyond the last, and every sleep is a time.
THEOREM TypeCorrect == Spec => []TypeOK
<1>1. PInv /\ CInv /\ WInv /\ AInv => TypeOK
  <2> SUFFICES ASSUME PInv, CInv, WInv, AInv PROVE TypeOK
    OBVIOUS
  <2>1. /\ Cardinality(Holders) \in Nat /\ Cardinality(granted) \in Nat
        /\ permits \in Nat
    BY FS_CardinalityType DEF PInv
  <2>2. permits \in 0..MaxConcurrent /\ inFlight \in 0..MaxConcurrent
    BY <2>1, LimitsAssumption DEF PInv, PermitsConserved
  <2>3. granted \subseteq Caller /\ waiters \in Seq(Caller)
    BY DEF PInv, Waiting
  <2>4. TypeOKLimiter
    BY <2>2, <2>3 DEF CInv, WInv, TypeOKLimiter
  <2> QED
    BY <2>4 DEF CInv, AInv, TypeOK
<1> QED
  BY <1>1, PInvInit, PInvNext, CInvInit, CInvNext, WInvInit, WInvNext, AInvInit,
     AInvNext, PTL DEF Spec
=============================================================================
