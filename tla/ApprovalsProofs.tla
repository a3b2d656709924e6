-------------------------- MODULE ApprovalsProofs --------------------------
(***************************************************************************)
(* Proofs about Approvals: type correctness, that an approval is good for  *)
(* one execution whatever the runs do at once, and, for runs that follow   *)
(* one another, that no call is executed twice and none is forgotten.      *)
(***************************************************************************)
EXTENDS Approvals, SequenceTheorems, FiniteSetTheorems, TLAPS

-----------------------------------------------------------------------------
(* The inductive invariant                                                 *)

AgentSteps == {"reason", "act", "exec"}

\* The sets that the variables range over.
Types ==
  /\ pending \in Seq(Record)
  /\ tokens \in Seq(Call)
  /\ pc \in [Run -> Steps]
  /\ forced \in [Run -> Record \cup {None}]
  /\ todo \in [Run -> Seq(Call)]
  /\ queue \in [Run -> Seq(Call) \cup {None}]
  /\ active \in [Run -> BOOLEAN]
  /\ done \in [Run -> Seq(Call)]
  /\ blocked \in [Run -> BOOLEAN]
  /\ memory \in [Run -> Memory]
  /\ saved \in Memory
  /\ used \in SUBSET Call
  /\ granted \in [Call -> Nat]
  /\ started \in [Call -> Nat]
  /\ waived \in SUBSET Call
  /\ disturbed \in BOOLEAN

\* No queue is longer than a message can be.
Within(r) ==
  /\ forced[r] # None => Len(forced[r].rest) <= MaxSiblings
  /\ Len(todo[r]) <= MaxSiblings
  /\ queue[r] # None => Len(queue[r]) <= MaxSiblings
  /\ Len(done[r]) <= MaxSiblings

Short ==
  /\ \A i \in DOMAIN pending : Len(pending[i].rest) <= MaxSiblings
  /\ \A r \in Run : Within(r)

\* A call waits in one request only.
Distinct == \A i, j \in DOMAIN pending : pending[i].call = pending[j].call => i = j

\* What a run has in hand, by what it does. A replay that was asked about stays
\* active, but its agent is blocked.
Mode(r) ==
  /\ todo[r] # <<>> <=> pc[r] \in {"act", "exec"}
  /\ pc[r] \notin AgentSteps =>
       /\ forced[r] = None /\ queue[r] = None /\ done[r] = <<>>
       /\ ~active[r] /\ ~blocked[r]
  /\ pc[r] = "off" => memory[r] = Empty
  /\ forced[r] # None =>
       /\ pc[r] = "reason" /\ queue[r] = None /\ done[r] = <<>>
       /\ ~active[r]
  /\ active[r] /\ pc[r] # "reason" =>
       /\ Len(todo[r]) = 1 /\ queue[r] # None /\ done[r] = <<>>
  /\ active[r] /\ pc[r] = "reason" =>
       /\ blocked[r] /\ queue[r] = None /\ done[r] = <<>>
  /\ done[r] # <<>> => pc[r] = "reason" /\ queue[r] = done[r]
  /\ queue[r] # None /\ ~active[r] =>
       ToSet(queue[r]) \subseteq memory[r].results \cup ToSet(done[r])

Modes == \A r \in Run : Mode(r)

\* The language model has made every call that is anywhere.
Knows(r) ==
  /\ forced[r] # None => Calls(forced[r]) \subseteq used
  /\ queue[r] # None => ToSet(queue[r]) \subseteq used
  /\ ToSet(todo[r]) \cup ToSet(done[r]) \subseteq used
  /\ memory[r].results \cup memory[r].denials \subseteq used

Known ==
  /\ \A i \in DOMAIN pending : Calls(pending[i]) \subseteq used
  /\ \A r \in Run : Knows(r)
  /\ saved.results \cup saved.denials \subseteq used
  /\ waived \subseteq used
  /\ \A c \in Call : started[c] > 0 => c \in used

TypeInv == Types /\ Short /\ Distinct /\ Modes /\ Known

\* Where s has calls in S; the tokens of the calls in S.
Places(s, S) == {i \in DOMAIN s : s[i] \in S}
Spare(S) == Places(tokens, S)

\* The executions and the tokens of a call, or of the calls with its input, are
\* together no more than its approvals.
Balance ==
  /\ IsFiniteSet(Times(started, Call))
  /\ IsFiniteSet(Times(granted, Call))
  /\ \A c \in Guarded \cap Risky :
       Cardinality(Times(started, Same(c))) + Cardinality(Spare(Same(c)))
         <= Cardinality(Times(granted, Same(c)))

\* As long as runs follow one another, at most one is under way.
Solo ==
  /\ \A r, o \in Run : pc[r] # "off" /\ pc[o] # "off" => r = o
  /\ \A r \in Run : pc[r] # "off" => saved.results \subseteq memory[r].results
  /\ \A r \in Run : pc[r] \in {"cleanup", "command"} => memory[r] = saved
  /\ \A r \in Run : pc[r] = "command" => pending = <<>>

\* The calls that have results, in the memory of the agent or in the file.
Answered == saved.results \cup UNION {memory[r].results : r \in Run}

\* Call c is approved and about to be replayed.
Held(c) ==
  \E r \in Run :
    \/ forced[r] # None /\ forced[r].call = c
    \/ active[r] /\ pc[r] = "act" /\ Head(todo[r]) = c

Once ==
  /\ \A c \in Call : started[c] <= 1
  /\ \A c \in Call :
       started[c] > 0 =>
         c \in Answered \/ \E r \in Run : pc[r] = "exec" /\ c = Head(todo[r])
  /\ \A i \in DOMAIN pending :
       started[pending[i].call] = 0 /\ pending[i].call \in Risky
  /\ \A r \in Run : forced[r] # None => started[forced[r].call] = 0
  /\ \A r \in Run : IsInjective(todo[r])
  /\ \A r \in Run : \A k \in DOMAIN todo[r] :
       pc[r] = "act" \/ k > 1 => started[todo[r][k]] = 0

\* The token of a guarded call is there from its approval to its execution.
OneToken ==
  /\ \A i, j \in DOMAIN tokens : tokens[i] \in Guarded /\ tokens[j] \in Guarded => i = j
  /\ \A i \in DOMAIN tokens : tokens[i] \in Guarded => tokens[i] \notin Asked
  /\ \A i \in DOMAIN tokens : tokens[i] \in Guarded => Held(tokens[i]) /\ tokens[i] \in Risky
  /\ \A c \in Guarded : granted[c] > 0 => started[c] > 0 \/ c \in ToSet(tokens)

OnceInv == TypeInv /\ (~disturbed => Solo /\ Once /\ OneToken)

\* The calls of a request, and what run r has still to do, in order.
Line(p) == <<p.call>> \o p.rest

Hand(r) ==
  IF forced[r] # None THEN Line(forced[r])
  ELSE IF active[r] /\ queue[r] # None THEN todo[r] \o queue[r]
  ELSE IF todo[r] # <<>> THEN todo[r] ELSE done[r]

From(w, i) == {w[j] : j \in i..Len(w)}

Settled == Answered \cup waived

\* From a call on that the lines w and x share, all that is not in S is in x as
\* well if it is in w, provided that the call is not in A or is at one of the
\* places K of w.
Agree(w, x, K, A, S) ==
  \A i \in 1..Len(w), a \in 1..Len(x) :
    w[i] = x[a] /\ (w[i] \notin A \/ i \in K) => From(w, i) \subseteq From(x, a) \cup S

\* A request, and a call that is replayed, counts though the call has a result.
Lead(r) == IF forced[r] # None \/ active[r] THEN {1} ELSE {}

\* The line w agrees with the requests P.
Fits(w, K, P, A, S) ==
  \A i \in DOMAIN P : Agree(Line(P[i]), w, {1}, A, S) /\ Agree(w, Line(P[i]), K, A, S)

\* The requests P agree with one another.
Paired(P, A, S) ==
  \A i, j \in DOMAIN P : i # j => Agree(Line(P[i]), Line(P[j]), {1}, A, S)

Agreement ==
  /\ Paired(pending, Answered, Settled)
  /\ \A r \in Run : Fits(Hand(r), Lead(r), pending, Answered, Settled)

\* The calls of a new message are in no request and have no results until the run
\* gets to them; and what a finished replay has left in its queue is settled.
FreshRun(r) ==
  /\ ~active[r] =>
       \A k \in DOMAIN todo[r] :
         pc[r] = "act" \/ k > 1 => todo[r][k] \notin Answered
  /\ queue[r] # None /\ ~active[r] =>
       \A i \in DOMAIN pending :
         /\ ToSet(todo[r]) \cap Calls(pending[i]) = {}
         /\ done[r] = <<>> /\ pending[i].call \in ToSet(queue[r])
              => Calls(pending[i]) \subseteq Settled

Fresh == \A r \in Run : FreshRun(r)

\* Every call of the language model is settled, in a request or in hand.
Covered ==
  \A c \in used :
    \/ c \in Settled
    \/ \E i \in DOMAIN pending : c \in Calls(pending[i])
    \/ \E r \in Run : c \in ToSet(Hand(r))

Lost == Agreement /\ Fresh /\ Covered

LostInv == OnceInv /\ (~disturbed => Lost)
-----------------------------------------------------------------------------
(* Sequences                                                               *)

\* y consists of elements of s, at different places.
Thins(f, y, s) ==
  /\ f \in [DOMAIN y -> DOMAIN s]
  /\ \A i, j \in DOMAIN y : f[i] = f[j] => i = j
  /\ \A i \in DOMAIN y : y[i] = s[f[i]]

\* y is what s has at the places I, in order.
Selects(f, y, s, I) ==
  /\ Thins(f, y, s)
  /\ \A i \in DOMAIN y : f[i] \in I
  /\ \A k \in I : \E i \in DOMAIN y : f[i] = k
  /\ \A i, j \in DOMAIN y : i < j => f[i] < f[j]

\* A suffix is the sequence without some of its first elements.
LEMMA SuffixFacts ==
  ASSUME NEW T, NEW s \in Seq(T), NEW y \in Suffixes(s)
  PROVE  /\ y \in Seq(T)
         /\ Len(y) <= Len(s)
         /\ \E f : Thins(f, y, s)
<1>1. Len(s) \in Nat /\ DOMAIN s = 1..Len(s)
  OBVIOUS
<1>2. CASE y = <<>>
  <2>1. DOMAIN y = {} /\ Len(y) = 0 /\ y \in Seq(T)
    BY <1>2
  <2>2. Thins([i \in DOMAIN y |-> 1], y, s)
    BY <2>1 DEF Thins
  <2> QED
    BY <2>1, <2>2, <1>1
<1>3. CASE \E l \in 1..Len(s) : y = SubSeq(s, l, Len(s))
  <2>1. PICK l \in 1..Len(s) : y = SubSeq(s, l, Len(s))
    BY <1>3
  <2>2. /\ y \in Seq(T)
        /\ Len(y) = Len(s) - l + 1
        /\ \A i \in 1..Len(y) : y[i] = s[l + i - 1]
    BY <2>1, <1>1
  <2>3. DOMAIN y = 1..Len(y)
    BY <2>2
  <2>4. \A i \in 1..Len(y) : l + i - 1 \in 1..Len(s)
    BY <1>1, <2>2
  <2> DEFINE f == [i \in DOMAIN y |-> l + i - 1]
  <2>5. f \in [DOMAIN y -> DOMAIN s] /\ \A i \in DOMAIN y : f[i] = l + i - 1
    BY <1>1, <2>3, <2>4
  <2> HIDE DEF f
  <2>6. \A i \in DOMAIN y : i \in Nat
    BY <2>3
  <2>7. Thins(f, y, s)
    BY <2>2, <2>3, <2>5, <2>6 DEF Thins
  <2> QED
    BY <1>1, <2>2, <2>7
<1> QED
  BY <1>2, <1>3 DEF Suffixes

LEMMA OrdersFacts ==
  ASSUME NEW n \in Nat, NEW I \in SUBSET (1..n), NEW f \in Orders(I)
  PROVE  /\ Cardinality(I) \in Nat /\ Cardinality(I) <= n
         /\ DOMAIN f = 1..Cardinality(I)
         /\ f \in [1..Cardinality(I) -> I]
         /\ \A k \in I : \E i \in 1..Cardinality(I) : f[i] = k
         /\ \A i, j \in 1..Cardinality(I) : i < j => f[i] < f[j]
<1>1. IsFiniteSet(1..n) /\ Cardinality(1..n) = n
  BY FS_Interval
<1>2. IsFiniteSet(I) /\ Cardinality(I) <= n
  BY <1>1, FS_Subset
<1>3. Cardinality(I) \in Nat
  BY <1>2, FS_CardinalityType
<1>4. f \in [1..Cardinality(I) -> I] /\ I \subseteq Range(f)
  BY DEF Orders
<1>5. DOMAIN f = 1..Cardinality(I)
  BY <1>4
<1> QED
  BY <1>2, <1>3, <1>4, <1>5 DEF Orders, Range

\* What is kept of a sequence, in order.
LEMMA KeptFacts ==
  ASSUME NEW T, NEW s \in Seq(T), NEW I \in SUBSET DOMAIN s, NEW y \in Kept(s, I)
  PROVE  /\ y \in Seq(T)
         /\ Len(y) <= Len(s)
         /\ \E f : Selects(f, y, s, I)
<1> DEFINE n == Cardinality(I)
<1>1. PICK f \in Orders(I) : y = [i \in DOMAIN f |-> s[f[i]]]
  BY DEF Kept
<1>2. Len(s) \in Nat /\ DOMAIN s = 1..Len(s)
  OBVIOUS
<1>3. /\ n \in Nat /\ n <= Len(s)
      /\ DOMAIN f = 1..n
      /\ f \in [1..n -> I]
      /\ \A k \in I : \E i \in 1..n : f[i] = k
      /\ \A i, j \in 1..n : i < j => f[i] < f[j]
  BY <1>2, OrdersFacts
<1> HIDE DEF n
<1>4. y = [i \in 1..n |-> s[f[i]]]
  BY <1>1, <1>3
<1>5. \A i \in 1..n : f[i] \in I /\ f[i] \in 1..Len(s) /\ s[f[i]] \in T
  BY <1>2, <1>3
<1>6. y \in Seq(T) /\ Len(y) = n /\ DOMAIN y = 1..n
  BY <1>3, <1>4, <1>5
<1>7. \A i, j \in 1..n : f[i] = f[j] => i = j
  BY <1>2, <1>3, <1>5
<1>8. Thins(f, y, s)
  BY <1>2, <1>3, <1>4, <1>5, <1>6, <1>7 DEF Thins
<1>9. Selects(f, y, s, I)
  BY <1>3, <1>5, <1>6, <1>8 DEF Selects
<1> QED
  BY <1>3, <1>6, <1>9

LEMMA RemoveAtFacts ==
  ASSUME NEW T, NEW s \in Seq(T), NEW k \in DOMAIN s
  PROVE  /\ RemoveAt(s, k) \in Seq(T)
         /\ \E f : /\ Thins(f, RemoveAt(s, k), s)
                   /\ \A i \in DOMAIN RemoveAt(s, k) : f[i] # k
<1> DEFINE y == RemoveAt(s, k)
           a == SubSeq(s, 1, k - 1)
           b == SubSeq(s, k + 1, Len(s))
           g == [i \in 1..(Len(s) - 1) |-> IF i < k THEN i ELSE i + 1]
<1>1. Len(s) \in Nat /\ DOMAIN s = 1..Len(s) /\ k \in 1..Len(s)
  OBVIOUS
<1>2. /\ a \in Seq(T) /\ Len(a) = k - 1
      /\ \A i \in 1..(k - 1) : a[i] = s[i]
  BY <1>1
<1>3. /\ b \in Seq(T) /\ Len(b) = Len(s) - k
      /\ \A i \in 1..(Len(s) - k) : b[i] = s[k + i]
  <2>1. CASE k = Len(s)
    BY <1>1, <2>1
  <2>2. CASE k < Len(s)
    BY <1>1, <2>2
  <2> QED
    BY <1>1, <2>1, <2>2
<1>4. y = a \o b
  BY DEF RemoveAt
<1> HIDE DEF a, b
<1>5. /\ y \in Seq(T) /\ Len(y) = Len(s) - 1 /\ DOMAIN y = 1..(Len(s) - 1)
      /\ \A i \in 1..(Len(s) - 1) : y[i] = IF i < k THEN a[i] ELSE b[i - (k - 1)]
  <2>1. /\ a \o b \in Seq(T)
        /\ Len(a \o b) = Len(a) + Len(b)
        /\ \A i \in 1..(Len(a) + Len(b)) :
             (a \o b)[i] = IF i <= Len(a) THEN a[i] ELSE b[i - Len(a)]
    BY <1>2, <1>3, ConcatProperties
  <2>2. /\ y \in Seq(T) /\ Len(y) = Len(a) + Len(b)
        /\ \A i \in 1..(Len(a) + Len(b)) :
             y[i] = IF i <= Len(a) THEN a[i] ELSE b[i - Len(a)]
    BY <2>1, <1>4
  <2> HIDE DEF y
  <2>3. Len(a) + Len(b) = Len(s) - 1 /\ Len(s) - 1 \in Nat
    BY <1>1, <1>2, <1>3
  <2>4. y \in Seq(T) /\ Len(y) = Len(s) - 1 /\ DOMAIN y = 1..(Len(s) - 1)
    BY <2>2, <2>3
  <2>5. ASSUME NEW i \in 1..(Len(s) - 1)
        PROVE  y[i] = IF i < k THEN a[i] ELSE b[i - (k - 1)]
    <3>1. i \in 1..(Len(a) + Len(b)) /\ Len(a) = k - 1
      BY <1>2, <2>3
    <3>2. y[i] = IF i <= k - 1 THEN a[i] ELSE b[i - (k - 1)]
      BY <2>2, <3>1
    <3>3. i <= k - 1 <=> i < k
      BY <1>1
    <3> QED
      BY <3>2, <3>3
  <2> QED
    BY <2>4, <2>5
<1>6. \A i \in 1..(Len(s) - 1) : y[i] = s[g[i]] /\ g[i] \in 1..Len(s) /\ g[i] # k
  <2> HIDE DEF y, g
  <2> SUFFICES ASSUME NEW i \in 1..(Len(s) - 1)
               PROVE  y[i] = s[g[i]] /\ g[i] \in 1..Len(s) /\ g[i] # k
    OBVIOUS
  <2>1. g[i] = IF i < k THEN i ELSE i + 1
    BY DEF g
  <2>2. CASE i < k
    BY <1>1, <1>2, <1>5, <2>1, <2>2
  <2>3. CASE ~(i < k)
    <3>1. i - (k - 1) \in 1..(Len(s) - k) /\ k + (i - (k - 1)) = i + 1
      BY <1>1, <2>3
    <3>2. b[i - (k - 1)] = s[i + 1]
      BY <1>3, <3>1
    <3> QED
      BY <1>1, <1>5, <2>1, <2>3, <3>2
  <2> QED
    BY <2>2, <2>3
<1>7. Thins(g, y, s)
  <2> HIDE DEF y
  <2> QED
    BY <1>1, <1>5, <1>6 DEF Thins
<1> QED
  BY <1>5, <1>6, <1>7

LEMMA TailFacts ==
  ASSUME NEW T, NEW s \in Seq(T), s # <<>>
  PROVE  /\ Len(s) \in Nat /\ Len(s) > 0 /\ 1 \in DOMAIN s
         /\ Head(s) = s[1] /\ Head(s) \in T
         /\ Tail(s) \in Seq(T) /\ Len(Tail(s)) = Len(s) - 1
         /\ \A i \in DOMAIN Tail(s) :
              /\ i \in Nat /\ i + 1 \in DOMAIN s /\ i + 1 # 1
              /\ Tail(s)[i] = s[i + 1]
         /\ \A k \in DOMAIN s :
              k = 1 \/ (k \in Nat /\ k - 1 \in DOMAIN Tail(s) /\ Tail(s)[k - 1] = s[k])
         /\ Head(s) \in ToSet(s)
         /\ ToSet(Tail(s)) \subseteq ToSet(s)
         /\ \A x \in ToSet(s) : x = Head(s) \/ x \in ToSet(Tail(s))
<1> DEFINE t == Tail(s)
<1>1. Len(s) \in Nat /\ Len(s) > 0 /\ DOMAIN s = 1..Len(s)
  BY EmptySeq, LenProperties
<1>2. Head(s) = s[1] /\ s[1] \in T /\ 1 \in DOMAIN s
  BY <1>1
<1>3. /\ t \in Seq(T) /\ Len(t) = Len(s) - 1 /\ DOMAIN t = 1..(Len(s) - 1)
      /\ \A i \in 1..(Len(s) - 1) : t[i] = s[i + 1]
  BY <1>1, HeadTailProperties
<1> HIDE DEF t
<1>4. \A i \in DOMAIN t : /\ i \in Nat /\ i + 1 \in DOMAIN s /\ i + 1 # 1
                          /\ t[i] = s[i + 1]
  BY <1>1, <1>3
<1>5. ASSUME NEW k \in DOMAIN s, k # 1
      PROVE  k \in Nat /\ k - 1 \in DOMAIN t /\ t[k - 1] = s[k]
  <2>1. k \in Nat /\ k - 1 \in 1..(Len(s) - 1) /\ (k - 1) + 1 = k
    BY <1>1, <1>5
  <2> QED
    BY <1>3, <2>1
<1>6. ToSet(t) \subseteq ToSet(s)
  BY <1>4 DEF ToSet
<1>7. \A x \in ToSet(s) : x = Head(s) \/ x \in ToSet(t)
  BY <1>2, <1>5 DEF ToSet
<1>8. Head(s) \in ToSet(s)
  BY <1>2 DEF ToSet
<1> QED
  BY <1>1, <1>2, <1>3, <1>4, <1>5, <1>6, <1>7, <1>8 DEF t

LEMMA AppendFacts ==
  ASSUME NEW T, NEW s \in Seq(T), NEW x \in T
  PROVE  /\ Append(s, x) \in Seq(T)
         /\ Len(s) \in Nat
         /\ Len(s) + 1 \in DOMAIN Append(s, x) /\ Append(s, x)[Len(s) + 1] = x
         /\ \A i \in DOMAIN s : i \in DOMAIN Append(s, x) /\ Append(s, x)[i] = s[i]
         /\ \A i \in DOMAIN Append(s, x) :
              i = Len(s) + 1 \/ (i \in DOMAIN s /\ i # Len(s) + 1)
<1>1. Len(s) \in Nat /\ DOMAIN s = 1..Len(s)
  OBVIOUS
<1>2. /\ Append(s, x) \in Seq(T)
      /\ DOMAIN Append(s, x) = 1..(Len(s) + 1)
      /\ Append(s, x)[Len(s) + 1] = x
      /\ \A i \in 1..Len(s) : Append(s, x)[i] = s[i]
  BY <1>1, AppendProperties
<1> QED
  BY <1>1, <1>2

LEMMA ElementFacts ==
  ASSUME NEW T, NEW s \in Seq(T)
  PROVE  /\ ToSet(s) \subseteq T
         /\ Len(s) \in Nat
         /\ DOMAIN s = 1..Len(s)
         /\ \A i \in DOMAIN s : s[i] \in T /\ s[i] \in ToSet(s) /\ i \in Nat \ {0}
         /\ Len(s) > 0 <=> s # <<>>
         /\ s = <<>> => ToSet(s) = {}
<1>1. Len(s) \in Nat /\ DOMAIN s = 1..Len(s)
  OBVIOUS
<1>2. Len(s) > 0 <=> s # <<>>
  BY EmptySeq, LenProperties
<1>3. \A i \in DOMAIN s : s[i] \in T /\ s[i] \in ToSet(s) /\ i \in Nat \ {0}
  BY <1>1 DEF ToSet
<1>4. s = <<>> => ToSet(s) = {}
  BY DEF ToSet
<1>5. ToSet(s) \subseteq T
  BY <1>3 DEF ToSet
<1> QED
  BY <1>1, <1>2, <1>3, <1>4, <1>5

\* The initial segments of the places in I are ordered by inclusion, which is
\* well-founded.
LEMMA SmallestNumber ==
  ASSUME NEW I \in SUBSET Nat, I # {}
  PROVE  \E i \in I : \A j \in I : i <= j
<1> DEFINE T == {1..i : i \in I}
           R == StrictSubsetOrdering(Nat)
<1>1. \A i \in Nat : IsFiniteSet(1..i) /\ 1..i \in SUBSET Nat
  BY FS_Interval
<1>2. T \subseteq FiniteSubsetsOf(Nat) /\ T # {}
  BY <1>1 DEF FiniteSubsetsOf
<1>3. IsWellFoundedOn(R, FiniteSubsetsOf(Nat))
  BY FS_StrictSubsetOrderingWellFounded
<1>4. \E x \in T : \A y \in T : <<y, x>> \notin R
  <2> HIDE DEF T, R
  <2> QED
    BY <1>2, <1>3, WFMin
<1>5. PICK i \in I : \A y \in T : <<y, 1..i>> \notin R
  BY <1>4
<1>6. ASSUME NEW j \in I, j < i
      PROVE  FALSE
  <2>1. 1..j \subseteq 1..i /\ i \in 1..i /\ i \notin 1..j
    BY <1>6
  <2>2. <<1..j, 1..i>> \in R
    BY <1>1, <2>1 DEF StrictSubsetOrdering
  <2> QED
    BY <1>5, <2>2
<1> QED
  BY <1>6

-----------------------------------------------------------------------------
(* The operations of the service                                           *)

LEMMA RecordFacts ==
  ASSUME NEW p \in Record
  PROVE  /\ p.call \in Call /\ p.rest \in Seq(Call)
         /\ p.call \in Calls(p) /\ ToSet(p.rest) \subseteq Calls(p)
         /\ Calls(p) \subseteq Call
         /\ p # None
<1>1. p.call \in Call /\ p.rest \in Seq(Call)
  BY DEF Record
<1>2. ToSet(p.rest) \subseteq Call
  BY <1>1, ElementFacts
<1> QED
  BY <1>1, <1>2, NoneAssumption DEF Calls

\* An approval moves the oldest request to the tokens.
LEMMA ResolveFacts ==
  ASSUME Types, pending # <<>>, ResolveApproved
  PROVE  /\ Head(pending) \in Record /\ Head(pending) = pending[1] /\ 1 \in DOMAIN pending
         /\ pending' \in Seq(Record)
         /\ \A i \in DOMAIN pending' :
              i \in Nat /\ i + 1 \in DOMAIN pending /\ i + 1 # 1 /\ pending'[i] = pending[i + 1]
         /\ \A k \in DOMAIN pending :
              k = 1 \/ (k \in Nat /\ k - 1 \in DOMAIN pending' /\ pending'[k - 1] = pending[k])
         /\ tokens' \in Seq(Call)
         /\ \E kept \in Seq(Call) : /\ tokens' = Append(kept, Head(pending).call)
                                    /\ \E f : Thins(f, kept, tokens)
         /\ granted' = [granted EXCEPT ![Head(pending).call] = @ + 1]
         /\ granted' \in [Call -> Nat]
<1>1. pending \in Seq(Record) /\ tokens \in Seq(Call) /\ granted \in [Call -> Nat]
  BY DEF Types
<1>2. /\ Head(pending) \in Record /\ Head(pending) = pending[1] /\ 1 \in DOMAIN pending
      /\ Tail(pending) \in Seq(Record)
      /\ \A i \in DOMAIN Tail(pending) :
           /\ i \in Nat /\ i + 1 \in DOMAIN pending /\ i + 1 # 1
           /\ Tail(pending)[i] = pending[i + 1]
      /\ \A k \in DOMAIN pending :
           k = 1 \/ (k \in Nat /\ k - 1 \in DOMAIN Tail(pending) /\ Tail(pending)[k - 1] = pending[k])
  BY <1>1, TailFacts
<1>3. pending' = Tail(pending)
  BY DEF ResolveApproved
<1>4. Head(pending).call \in Call
  BY <1>2, RecordFacts
<1>5. PICK kept \in Suffixes(tokens) : tokens' = Append(kept, Head(pending).call)
  BY DEF ResolveApproved
<1>6. kept \in Seq(Call) /\ \E f : Thins(f, kept, tokens)
  BY <1>1, <1>5, SuffixFacts
<1>7. tokens' \in Seq(Call)
  BY <1>4, <1>5, <1>6, AppendFacts
<1>8. granted' = [granted EXCEPT ![Head(pending).call] = @ + 1]
  BY DEF ResolveApproved
<1>9. granted' \in [Call -> Nat]
  BY <1>1, <1>4, <1>8
<1> QED
  BY <1>2, <1>3, <1>5, <1>6, <1>7, <1>8, <1>9

\* The new request p goes behind old, the requests that remain.
Files(old, f, p, stale) ==
  /\ pending' = Append(old, p)
  /\ Thins(f, old, pending)
  /\ \A i \in DOMAIN old : pending[f[i]].call \notin stale
  /\ \A k \in DOMAIN pending :
       \/ pending[k].call \in stale
       \/ Calls(pending[k]) \subseteq waived'
       \/ \E i \in DOMAIN old : f[i] = k

\* A new request is the youngest; the older ones are still there, but for those
\* that it supersedes and those that the garbage collection has taken.
LEMMA CreateFacts ==
  ASSUME Types, Distinct, NEW p \in Record, NEW stale, NEW left \in Seq(Call),
         CreatePending(p, stale, left)
  PROVE  /\ pending' \in Seq(Record)
         /\ \E old \in Seq(Record) : \E f : Files(old, f, p, stale)
         /\ waived \subseteq waived'
         /\ \A c \in waived' : c \in waived \/ \E k \in DOMAIN pending : c \in Calls(pending[k])
         /\ waived' \in SUBSET Call
         /\ tokens' \in Seq(Call)
         /\ \E f : Thins(f, tokens', left)
<1> DEFINE I == {i \in DOMAIN pending : pending[i].call \notin stale}
<1>1. pending \in Seq(Record) /\ tokens \in Seq(Call) /\ waived \subseteq Call
  BY DEF Types
<1>1a. PICK live \in Kept(pending, I) : \E old \in Suffixes(live) :
        /\ pending' = Append(old, p)
        /\ tokens' \in Suffixes(left)
        /\ waived' = waived \cup UNION {Calls(q) : q \in ToSet(live) \ ToSet(old)}
  BY DEF CreatePending, CancelStale
<1>2. PICK old \in Suffixes(live) :
        /\ pending' = Append(old, p)
        /\ tokens' \in Suffixes(left)
        /\ waived' = waived \cup UNION {Calls(q) : q \in ToSet(live) \ ToSet(old)}
  BY <1>1a
<1>3. I \in SUBSET DOMAIN pending
  OBVIOUS
<1>4a. \E g : Selects(g, live, pending, I)
  <2> HIDE DEF I
  <2> QED
    BY <1>1, <1>1a, <1>3, KeptFacts
<1>4. PICK g : /\ Thins(g, live, pending)
               /\ \A i \in DOMAIN live : g[i] \in I
               /\ \A k \in I : \E i \in DOMAIN live : g[i] = k
  BY <1>4a DEF Selects
<1>5. live \in Seq(Record)
  <2> HIDE DEF I
  <2> QED
    BY <1>1, <1>1a, <1>3, KeptFacts
<1>6. old \in Seq(Record) /\ \E h : Thins(h, old, live)
  BY <1>2, <1>5, SuffixFacts
<1>7. PICK h : Thins(h, old, live)
  BY <1>6
<1> DEFINE f == [i \in DOMAIN old |-> g[h[i]]]
<1>8. /\ \A i \in DOMAIN old : h[i] \in DOMAIN live /\ g[h[i]] \in DOMAIN pending
      /\ \A i \in DOMAIN old : old[i] = pending[g[h[i]]]
      /\ \A i, j \in DOMAIN old : g[h[i]] = g[h[j]] => i = j
  BY <1>4, <1>7 DEF Thins
<1>9. Thins(f, old, pending)
  BY <1>8 DEF Thins
<1>10. \A i \in DOMAIN old : pending[f[i]].call \notin stale
  BY <1>4, <1>8
<1>11. ASSUME NEW k \in DOMAIN pending, pending[k].call \notin stale,
              \A i \in DOMAIN old : f[i] # k
       PROVE  Calls(pending[k]) \subseteq waived'
  <2>1. PICK i \in DOMAIN live : g[i] = k
    BY <1>4, <1>11
  <2>2. live[i] = pending[k] /\ live[i] \in ToSet(live)
    BY <1>4, <2>1 DEF Thins, ToSet
  <2>3. CASE live[i] \in ToSet(old)
    <3>1. PICK j \in DOMAIN old : old[j] = live[i]
      BY <2>3 DEF ToSet
    <3>2. live[h[j]] = live[i] /\ h[j] \in DOMAIN live
      BY <1>7, <3>1 DEF Thins
    <3>3. pending[g[h[j]]] = pending[k] /\ g[h[j]] \in DOMAIN pending
      BY <1>4, <2>2, <3>2 DEF Thins
    <3>4. g[h[j]] = k
      BY <3>3 DEF Distinct
    <3> QED
      BY <1>11, <3>1, <3>4
  <2>4. CASE live[i] \notin ToSet(old)
    BY <1>2, <2>2, <2>4
  <2> QED
    BY <2>3, <2>4
<1>12. waived' \in SUBSET Call /\ waived \subseteq waived'
       /\ \A c \in waived' : c \in waived \/ \E k \in DOMAIN pending : c \in Calls(pending[k])
  <2>1. \A q \in ToSet(live) : \E k \in DOMAIN pending : q = pending[k]
    BY <1>4 DEF Thins, ToSet
  <2>2. \A k \in DOMAIN pending : Calls(pending[k]) \subseteq Call
    BY <1>1, RecordFacts, ElementFacts
  <2> QED
    BY <1>1, <1>2, <2>1, <2>2
<1>13. tokens' \in Seq(Call) /\ \E e : Thins(e, tokens', left)
  BY <1>2, SuffixFacts
<1>14. pending' \in Seq(Record)
  BY <1>2, <1>6, AppendFacts
<1>15. \A k \in DOMAIN pending :
         \/ pending[k].call \in stale
         \/ Calls(pending[k]) \subseteq waived'
         \/ \E i \in DOMAIN old : f[i] = k
  BY <1>11
<1>16. Files(old, f, p, stale)
  BY <1>2, <1>9, <1>10, <1>15 DEF Files
<1> QED
  <2> HIDE DEF f, I
  <2> QED
    BY <1>6, <1>12, <1>13, <1>14, <1>16

\* A call consumes the first token of its tool.
LEMMA ConsumedFacts ==
  ASSUME Types, NEW c \in Call
  PROVE  /\ Consumed(c) \in Seq(Call)
         /\ \E f : Thins(f, Consumed(c), tokens)
         /\ Candidates(c) = {} => Consumed(c) = tokens
         /\ Candidates(c) # {} =>
              /\ First(c) \in DOMAIN tokens /\ First(c) \in Candidates(c)
              /\ \E f : /\ Thins(f, Consumed(c), tokens)
                        /\ \A i \in DOMAIN Consumed(c) : f[i] # First(c)
<1>1. tokens \in Seq(Call) /\ DOMAIN tokens = 1..Len(tokens) /\ Len(tokens) \in Nat
  BY DEF Types
<1>2. CASE Candidates(c) = {}
  <2>1. Consumed(c) = tokens
    BY <1>2 DEF Consumed
  <2>2. Thins([i \in DOMAIN tokens |-> i], tokens, tokens)
    BY DEF Thins
  <2> QED
    BY <1>1, <1>2, <2>1, <2>2
<1>3. CASE Candidates(c) # {}
  <2>1. First(c) \in Candidates(c)
    <3>1. PICK k \in Candidates(c) : TRUE
      BY <1>3
    <3>2. Candidates(c) \subseteq Nat
      BY <1>1 DEF Candidates
    <3>3. \E i \in Candidates(c) : \A j \in Candidates(c) : i <= j
      BY <3>1, <3>2, SmallestNumber
    <3> QED
      BY <3>3 DEF First
  <2>2. First(c) \in DOMAIN tokens
    BY <2>1 DEF Candidates
  <2>3. Consumed(c) = RemoveAt(tokens, First(c))
    BY <1>3 DEF Consumed
  <2> QED
    BY <1>1, <1>3, <2>1, <2>2, <2>3, RemoveAtFacts
<1> QED
  BY <1>2, <1>3

-----------------------------------------------------------------------------
(* Types                                                                   *)

LEMMA EnterTypes ==
  ASSUME Types, NEW r \in Run, NEW step \in Steps, NEW call \in Record \cup {None},
         Enter(r, step, call)
  PROVE  /\ pc' \in [Run -> Steps]
         /\ forced' \in [Run -> Record \cup {None}]
         /\ memory' \in [Run -> Memory]
         /\ disturbed' \in BOOLEAN
         /\ UNCHANGED <<todo, queue, active, done, blocked, saved, used>>
<1>1. disturbed' = (disturbed \/ \E o \in Run \ {r} : pc[o] # "off")
  BY DEF Enter
<1>2. disturbed' \in BOOLEAN
  BY <1>1 DEF Types
<1> QED
  BY <1>2 DEF Types, Enter

LEMMA EndTypes ==
  ASSUME Types, NEW r \in Run, NEW m \in Memory, End(r, m)
  PROVE  /\ pc' \in [Run -> Steps] /\ forced' \in [Run -> Record \cup {None}]
         /\ todo' \in [Run -> Seq(Call)] /\ queue' \in [Run -> Seq(Call) \cup {None}]
         /\ active' \in [Run -> BOOLEAN] /\ done' \in [Run -> Seq(Call)]
         /\ blocked' \in [Run -> BOOLEAN] /\ memory' \in [Run -> Memory]
         /\ saved' \in Memory
         /\ UNCHANGED <<pending, tokens, used, granted, started, waived>>
<1>1. Empty \in Memory /\ "off" \in Steps /\ <<>> \in Seq(Call)
  BY DEF Empty, Memory, Steps
<1> QED
  BY <1>1 DEF Types, End, service

\* What an agent that acts has in hand.
LEMMA HeadFacts ==
  ASSUME Types, Modes, NEW r \in Run, pc[r] \in {"act", "exec"}
  PROVE  /\ todo[r] \in Seq(Call) /\ todo[r] # <<>>
         /\ Head(todo[r]) \in Call /\ Head(todo[r]) = todo[r][1] /\ 1 \in DOMAIN todo[r]
         /\ Head(todo[r]) \in ToSet(todo[r])
         /\ Tail(todo[r]) \in Seq(Call)
         /\ Len(Tail(todo[r])) = Len(todo[r]) - 1
         /\ Len(todo[r]) \in Nat \ {0}
<1>1. todo[r] \in Seq(Call) /\ todo[r] # <<>>
  BY DEF Types, Modes, Mode
<1> QED
  BY <1>1, TailFacts

LEMMA MessageFacts ==
  ASSUME Types, NEW m \in Messages
  PROVE  /\ m \in Seq(Call) /\ m # <<>> /\ Len(m) \in Nat /\ Len(m) <= MaxSiblings
         /\ ToSet(m) \subseteq Call \ used
         /\ IsInjective(m)
<1>1. PICK n \in 1..MaxSiblings : m \in [1..n -> Call \ used]
  BY DEF Messages
<1>2. n \in Nat /\ n > 0 /\ MaxSiblings \in Nat
  BY BoundAssumption
<1>3. m \in Seq(Call \ used) /\ Len(m) = n
  BY <1>1, <1>2
<1>4. m \in Seq(Call)
  BY <1>1, <1>2
<1>5. ToSet(m) \subseteq Call \ used
  BY <1>3, ElementFacts
<1>6. m # <<>>
  BY <1>2, <1>3
<1>7. IsInjective(m)
  BY DEF Messages
<1> QED
  BY <1>2, <1>3, <1>4, <1>5, <1>6, <1>7

\* The sequence that a request stands for.
LEMMA RestFacts ==
  ASSUME Types, Modes, NEW r \in Run, pc[r] = "act"
  PROVE  /\ Rest(r) \in Seq(Call)
         /\ queue[r] # None => Rest(r) = queue[r] /\ Queued(r) = queue[r]
         /\ queue[r] = None => Rest(r) = Tail(todo[r]) /\ Queued(r) = <<>>
         /\ Queued(r) \in Seq(Call)
         /\ [call |-> Head(todo[r]), rest |-> Rest(r)] \in Record
<1>1. Head(todo[r]) \in Call /\ Tail(todo[r]) \in Seq(Call)
  BY HeadFacts
<1>2. queue[r] \in Seq(Call) \cup {None} /\ <<>> \in Seq(Call)
  BY DEF Types
<1>3. Rest(r) \in Seq(Call) /\ Queued(r) \in Seq(Call)
  BY <1>1, <1>2 DEF Rest, Queued
<1> QED
  BY <1>1, <1>3 DEF Rest, Queued, Record

LEMMA TypesStep ==
  ASSUME Types, Distinct, Modes, [Next]_vars
  PROVE  Types'
<1>1. CASE Ask
  <2>1. Enter("chat", "reason", None) /\ "chat" \in Run /\ "reason" \in Steps
    BY <1>1 DEF Ask, Run, Steps
  <2> QED
    BY <1>1, <2>1, EnterTypes DEF Ask, Types, service
<1>2. ASSUME NEW r \in Run, Deny(r)
      PROVE  Types'
  <2>1. Enter(r, "cleanup", None) /\ "cleanup" \in Steps
    BY <1>2 DEF Deny, Steps
  <2>2. Tail(pending) \in Seq(Record) /\ Calls(Head(pending)) \subseteq Call
    BY <1>2, TailFacts, RecordFacts DEF Deny, Types
  <2> QED
    BY <1>2, <2>1, <2>2, EnterTypes DEF Deny, Types
<1>3. CASE ApproveNothing
  <2>1. Enter("command", "command", None) /\ "command" \in Run /\ "command" \in Steps
    BY <1>3 DEF ApproveNothing, Run, Steps
  <2> QED
    BY <1>3, <2>1, EnterTypes DEF ApproveNothing, Types, service
<1>4. ASSUME NEW r \in Run, Approve(r)
      PROVE  Types'
  <2>1. /\ pending' \in Seq(Record) /\ tokens' \in Seq(Call) /\ granted' \in [Call -> Nat]
        /\ Head(pending) \in Record
    BY <1>4, ResolveFacts DEF Approve, CanApprove
  <2>2. Enter(r, "reason", Head(pending)) /\ "reason" \in Steps
    BY <1>4 DEF Approve, Steps
  <2> QED
    BY <1>4, <2>1, <2>2, EnterTypes DEF Approve, Types
<1>5. ASSUME NEW r \in Run, RunDaemonApprove(r)
      PROVE  Types'
  <2>1. pending' \in Seq(Record) /\ tokens' \in Seq(Call) /\ granted' \in [Call -> Nat]
    BY <1>5, ResolveFacts DEF RunDaemonApprove, CanApprove, Types, service
  <2>2. Empty \in Memory /\ "off" \in Steps
    BY DEF Empty, Memory, Steps
  <2> QED
    BY <1>5, <2>1, <2>2 DEF RunDaemonApprove, Types, agent
<1>6. ASSUME NEW r \in Run, CleanUp(r)
      PROVE  Types'
  <2>1. Empty \in Memory /\ "off" \in Steps
    BY DEF Empty, Memory, Steps
  <2>2. saved' \in Memory
    BY <1>6 DEF CleanUp, Types, Memory
  <2> QED
    BY <1>6, <2>1, <2>2 DEF CleanUp, Types, agent, service, history
<1>7. ASSUME NEW r \in Run, ReplayNext(r)
      PROVE  Types'
  <2>1. PICK left \in Kept(done[r], Unanswered(r)) : Replay(r, Head(left), Tail(left))
    BY <1>7 DEF ReplayNext
  <2>2. left \in Seq(Call) /\ \E f : Selects(f, left, done[r], Unanswered(r))
    <3>1. Unanswered(r) \in SUBSET DOMAIN done[r] /\ done[r] \in Seq(Call)
      BY DEF Unanswered, Types
    <3> QED
      BY <2>1, <3>1, KeptFacts
  <2>3. left # <<>>
    BY <1>7, <2>2 DEF ReplayNext, Selects
  <2>4. Head(left) \in Call /\ Tail(left) \in Seq(Call)
    BY <2>2, <2>3, TailFacts
  <2>5. <<Head(left)>> \in Seq(Call) /\ "act" \in Steps
    BY <2>4 DEF Steps
  <2>6. /\ todo' = [todo EXCEPT ![r] = <<Head(left)>>] /\ pc' = [pc EXCEPT ![r] = "act"]
        /\ queue' = [queue EXCEPT ![r] = Tail(left)] /\ active' = [active EXCEPT ![r] = TRUE]
        /\ done' = [done EXCEPT ![r] = <<>>]
        /\ UNCHANGED <<service, forced, blocked, memory, saved, used, history>>
    BY <1>7, <2>1 DEF ReplayNext, Replay, Says
  <2>7. <<>> \in Seq(Call)
    OBVIOUS
  <2> QED
    BY <2>4, <2>5, <2>6, <2>7 DEF Types, service, history
<1>8. ASSUME NEW r \in Run, ReplayForced(r)
      PROVE  Types'
  <2>1. forced[r] \in Record
    BY <1>8 DEF ReplayForced, Types
  <2>2. forced[r].call \in Call /\ forced[r].rest \in Seq(Call)
    BY <2>1, RecordFacts
  <2>3. <<forced[r].call>> \in Seq(Call) /\ "act" \in Steps
    BY <2>2 DEF Steps
  <2>4. /\ todo' = [todo EXCEPT ![r] = <<forced[r].call>>] /\ pc' = [pc EXCEPT ![r] = "act"]
        /\ queue' = [queue EXCEPT ![r] = forced[r].rest] /\ active' = [active EXCEPT ![r] = TRUE]
        /\ done' = [done EXCEPT ![r] = <<>>] /\ forced' = [forced EXCEPT ![r] = None]
        /\ UNCHANGED <<service, blocked, memory, saved, used, history>>
    BY <1>8 DEF ReplayForced, Replay, Says
  <2>5. <<>> \in Seq(Call)
    OBVIOUS
  <2>6. forced' \in [Run -> Record \cup {None}] /\ queue' \in [Run -> Seq(Call) \cup {None}]
    BY <2>2, <2>4 DEF Types
  <2>7. /\ todo' \in [Run -> Seq(Call)] /\ done' \in [Run -> Seq(Call)]
        /\ pc' \in [Run -> Steps] /\ active' \in [Run -> BOOLEAN]
    BY <2>3, <2>4, <2>5 DEF Types
  <2> QED
    BY <2>4, <2>6, <2>7 DEF Types, service, history
<1>9. ASSUME NEW r \in Run, Think(r)
      PROVE  Types'
  <2>1. PICK calls \in Messages : Says(r, calls) /\ used' = used \cup ToSet(calls)
    BY <1>9 DEF Think
  <2>2. calls \in Seq(Call) /\ ToSet(calls) \subseteq Call /\ "act" \in Steps
    BY <2>1, MessageFacts DEF Steps
  <2> QED
    BY <1>9, <2>1, <2>2 DEF Think, Says, Types, service, history
<1>10. ASSUME NEW r \in Run, Finish(r)
       PROVE  Types'
  <2>1. End(r, memory[r]) /\ memory[r] \in Memory /\ disturbed' \in BOOLEAN
    BY <1>10 DEF Finish, Types
  <2> QED
    BY <2>1, EndTypes DEF Types
<1>11. ASSUME NEW r \in Run, Stop(r)
       PROVE  Types'
  <2>1. disturbed' \in BOOLEAN /\ memory[r] \in Memory
    BY <1>11 DEF Stop, Types
  <2>2. CASE End(r, memory[r])
    BY <2>1, <2>2, EndTypes DEF Types
  <2>3. CASE pc[r] = "exec" /\ End(r, WithResult(memory[r], Head(todo[r])))
    <3>1. WithResult(memory[r], Head(todo[r])) \in Memory
      BY <2>1, <2>3, HeadFacts DEF WithResult, Memory
    <3> QED
      BY <2>1, <2>3, <3>1, EndTypes DEF Types
  <2> QED
    BY <1>11, <2>2, <2>3 DEF Stop
<1>12. ASSUME NEW r \in Run, Execute(r)
       PROVE  Types'
  <2>1. Head(todo[r]) \in Call /\ "exec" \in Steps
    BY <1>12, HeadFacts DEF Execute, Steps
  <2>2. tokens' \in Seq(Call)
    BY <1>12, <2>1, ConsumedFacts DEF Execute
  <2>3. memory' \in [Run -> Memory]
    BY <1>12 DEF Execute, Types, Memory
  <2>4. started' \in [Call -> Nat] /\ pc' \in [Run -> Steps]
    BY <1>12, <2>1 DEF Execute, Types
  <2> QED
    BY <1>12, <2>2, <2>3, <2>4 DEF Execute, Types, agent
<1>13. ASSUME NEW r \in Run, Result(r)
       PROVE  Types'
  <2>1. /\ Head(todo[r]) \in Call /\ Tail(todo[r]) \in Seq(Call)
        /\ "reason" \in Steps /\ "act" \in Steps
    BY <1>13, HeadFacts DEF Result, Steps
  <2>2. memory' \in [Run -> Memory]
    <3>1. WithResult(memory[r], Head(todo[r])) \in Memory
      BY <2>1 DEF WithResult, Types, Memory
    <3> QED
      BY <1>13, <3>1 DEF Result, Types
  <2>3. Queued(r) \in Seq(Call)
    BY DEF Queued, Types
  <2>4. done' \in [Run -> Seq(Call)]
    BY <1>13, <2>3 DEF Result, Types
  <2>5. todo' \in [Run -> Seq(Call)] /\ pc' \in [Run -> Steps]
    BY <1>13, <2>1 DEF Result, Acted, Types
  <2> QED
    BY <1>13, <2>2, <2>4, <2>5 DEF Result, Types, service, history
<1>14. ASSUME NEW r \in Run, Request(r)
       PROVE  Types'
  <2> DEFINE p == [call |-> Head(todo[r]), rest |-> Rest(r)]
             stale == {Head(todo[r])} \cup ToSet(Queued(r))
  <2>1. /\ Head(todo[r]) \in Call /\ Tail(todo[r]) \in Seq(Call)
        /\ "reason" \in Steps /\ "act" \in Steps
    BY <1>14, HeadFacts DEF Request, Steps
  <2>2. p \in Record /\ Consumed(Head(todo[r])) \in Seq(Call)
    BY <1>14, <2>1, RestFacts, ConsumedFacts DEF Request
  <2>3. CreatePending(p, stale, Consumed(Head(todo[r])))
    BY <1>14 DEF Request
  <2>4. pending' \in Seq(Record) /\ tokens' \in Seq(Call) /\ waived' \in SUBSET Call
    <3> HIDE DEF p, stale
    <3> QED
      BY <2>2, <2>3, CreateFacts
  <2>5. memory' \in [Run -> Memory]
    BY <1>14, <2>1 DEF Request, Types, Memory
  <2>6. todo' \in [Run -> Seq(Call)] /\ pc' \in [Run -> Steps]
    BY <1>14, <2>1 DEF Request, Acted, Types
  <2> QED
    BY <1>14, <2>4, <2>5, <2>6 DEF Request, Types
<1>15. CASE UNCHANGED vars
  BY <1>15 DEF Types, vars
<1> QED
  BY <1>1, <1>2, <1>3, <1>4, <1>5, <1>6, <1>7, <1>8, <1>9, <1>10, <1>11, <1>12, <1>13,
     <1>14, <1>15 DEF Next

-----------------------------------------------------------------------------
(* The modes of a run                                                      *)

\* Run r begins to replay c, with rest behind it.
Replays(r, c, rest) ==
  /\ pc[r] = "reason"
  /\ todo' = [todo EXCEPT ![r] = <<c>>]
  /\ pc' = [pc EXCEPT ![r] = "act"]
  /\ queue' = [queue EXCEPT ![r] = rest]
  /\ active' = [active EXCEPT ![r] = TRUE]
  /\ done' = [done EXCEPT ![r] = <<>>]
  /\ UNCHANGED <<pending, tokens, blocked, memory, saved, used, granted, started, waived,
                 disturbed>>

\* Run r goes on with left, which is what has no result of a finished replay.
Continues(r, left) ==
  /\ left # <<>> /\ Len(left) <= Len(done[r])
  /\ Head(left) \in Call /\ Tail(left) \in Seq(Call)
  /\ \E f : Selects(f, left, done[r], Unanswered(r))
  /\ Replays(r, Head(left), Tail(left))

LEMMA ReplayNextFacts ==
  ASSUME Types, NEW r \in Run, ReplayNext(r)
  PROVE  /\ forced' = forced /\ Unanswered(r) # {}
         /\ \E left \in Seq(Call) : Continues(r, left)
<1>1. PICK left \in Kept(done[r], Unanswered(r)) : Replay(r, Head(left), Tail(left))
  BY DEF ReplayNext
<1>2. /\ left \in Seq(Call) /\ Len(left) <= Len(done[r])
      /\ \E f : Selects(f, left, done[r], Unanswered(r))
  <2>1. Unanswered(r) \in SUBSET DOMAIN done[r] /\ done[r] \in Seq(Call)
    BY DEF Unanswered, Types
  <2> QED
    BY <1>1, <2>1, KeptFacts
<1>3. Unanswered(r) # {} /\ forced' = forced /\ done' = [done EXCEPT ![r] = <<>>]
  BY DEF ReplayNext
<1>4. left # <<>>
  BY <1>2, <1>3 DEF Selects
<1>5. Head(left) \in Call /\ Tail(left) \in Seq(Call)
  BY <1>2, <1>4, TailFacts
<1>6. Replays(r, Head(left), Tail(left))
  BY <1>1, <1>3 DEF Replay, Says, Replays, service, history
<1> QED
  BY <1>2, <1>3, <1>4, <1>5, <1>6 DEF Continues

LEMMA ReplayForcedFacts ==
  ASSUME Types, NEW r \in Run, ReplayForced(r)
  PROVE  /\ forced[r] \in Record /\ forced' = [forced EXCEPT ![r] = None]
         /\ forced[r].call \in Call /\ forced[r].rest \in Seq(Call)
         /\ Replays(r, forced[r].call, forced[r].rest)
<1>1. forced[r] \in Record
  BY DEF ReplayForced, Types
<1> QED
  BY <1>1, RecordFacts DEF ReplayForced, Replay, Says, Replays, service, history

\* The message m is the model's answer to run r.
Speaks(r, m) == todo' = [todo EXCEPT ![r] = m] /\ used' = used \cup ToSet(m)

LEMMA ThinkFacts ==
  ASSUME Types, NEW r \in Run, Think(r)
  PROVE  /\ pc[r] = "reason" /\ forced[r] = None /\ ~blocked[r] /\ Unanswered(r) = {}
         /\ \E m \in Messages : Speaks(r, m)
         /\ pc' = [pc EXCEPT ![r] = "act"]
         /\ done' = [done EXCEPT ![r] = <<>>]
         /\ UNCHANGED <<pending, tokens, forced, queue, active, blocked, memory, saved,
                        granted, started, waived, disturbed>>
  BY DEF Think, Replayed, Says, Speaks, service, history

LEMMA RequestFacts ==
  ASSUME Types, Distinct, Modes, NEW r \in Run, Request(r)
  PROVE  LET c == Head(todo[r])
             p == [call |-> c, rest |-> Rest(r)]
             stale == {c} \cup ToSet(Queued(r))
         IN
         /\ pc[r] = "act" /\ c \in Call /\ c \in Risky /\ ~Approved(c) /\ p \in Record
         /\ pending' \in Seq(Record)
         /\ \E old \in Seq(Record) : \E f : Files(old, f, p, stale)
         /\ waived \subseteq waived'
         /\ \A d \in waived' : d \in waived \/ \E k \in DOMAIN pending : d \in Calls(pending[k])
         /\ tokens' \in Seq(Call)
         /\ \E f : Thins(f, tokens', Consumed(c))
         /\ queue' = [queue EXCEPT ![r] = None]
         /\ blocked' = [blocked EXCEPT ![r] = TRUE]
         /\ memory' = [memory EXCEPT ![r].denials = @ \cup {c}]
         /\ todo' = [todo EXCEPT ![r] = Tail(@)]
         /\ pc' = [pc EXCEPT ![r] = IF Len(todo[r]) = 1 THEN "reason" ELSE "act"]
         /\ UNCHANGED <<forced, active, done, saved, used, granted, started, disturbed>>
<1> DEFINE c == Head(todo[r])
           p == [call |-> c, rest |-> Rest(r)]
           stale == {c} \cup ToSet(Queued(r))
<1>1. pc[r] = "act" /\ c \in Risky /\ ~Approved(c) /\ CreatePending(p, stale, Consumed(c))
  BY DEF Request
<1>2. c \in Call /\ p \in Record /\ Consumed(c) \in Seq(Call)
  BY <1>1, HeadFacts, RestFacts, ConsumedFacts
<1>3. /\ queue' = [queue EXCEPT ![r] = None]
      /\ blocked' = [blocked EXCEPT ![r] = TRUE]
      /\ memory' = [memory EXCEPT ![r].denials = @ \cup {c}]
      /\ todo' = [todo EXCEPT ![r] = Tail(@)]
      /\ pc' = [pc EXCEPT ![r] = IF Len(todo[r]) = 1 THEN "reason" ELSE "act"]
      /\ UNCHANGED <<forced, active, done, saved, used, granted, started, disturbed>>
  BY DEF Request, Acted
<1> HIDE DEF c, p, stale
<1>4. /\ pending' \in Seq(Record)
      /\ \E old \in Seq(Record) : \E f : Files(old, f, p, stale)
      /\ waived \subseteq waived'
      /\ \A d \in waived' : d \in waived \/ \E k \in DOMAIN pending : d \in Calls(pending[k])
      /\ tokens' \in Seq(Call)
      /\ \E f : Thins(f, tokens', Consumed(c))
  BY <1>1, <1>2, CreateFacts
<1> QED
  BY <1>1, <1>2, <1>3, <1>4 DEF c, p, stale

LEMMA ResultFacts ==
  ASSUME Types, Modes, NEW r \in Run, Result(r)
  PROVE  /\ pc[r] = "exec" /\ Head(todo[r]) \in Call
         /\ memory' = [memory EXCEPT ![r] = WithResult(@, Head(todo[r]))]
         /\ memory'[r].results = memory[r].results \cup {Head(todo[r])}
         /\ memory'[r].denials = memory[r].denials
         /\ \A o \in Run : o # r => memory'[o] = memory[o]
         /\ blocked' = [blocked EXCEPT ![r] = FALSE]
         /\ active[r] => queue[r] # None /\ done' = [done EXCEPT ![r] = queue[r]]
         /\ ~active[r] => done' = done
         /\ active' = [active EXCEPT ![r] = FALSE]
         /\ todo' = [todo EXCEPT ![r] = Tail(@)]
         /\ pc' = [pc EXCEPT ![r] = IF Len(todo[r]) = 1 THEN "reason" ELSE "act"]
         /\ UNCHANGED <<pending, tokens, forced, queue, saved, used, granted, started, waived,
                        disturbed>>
<1>1. pc[r] = "exec" /\ Head(todo[r]) \in Call
  BY HeadFacts DEF Result
<1>2. active[r] => queue[r] # None
  BY <1>1 DEF Modes, Mode
<1>3. done' = [done EXCEPT ![r] = IF active[r] THEN Queued(r) ELSE @]
  BY DEF Result
<1>4. /\ active[r] => done' = [done EXCEPT ![r] = queue[r]]
      /\ ~active[r] => done' = done
  BY <1>2, <1>3 DEF Queued, Types
<1>5. /\ memory' = [memory EXCEPT ![r] = WithResult(@, Head(todo[r]))]
      /\ memory'[r].results = memory[r].results \cup {Head(todo[r])}
      /\ memory'[r].denials = memory[r].denials
      /\ \A o \in Run : o # r => memory'[o] = memory[o]
  BY DEF Result, WithResult, Types, Memory
<1> QED
  BY <1>1, <1>2, <1>4, <1>5 DEF Result, Acted, service, history

LEMMA ExecuteFacts ==
  ASSUME Types, Modes, NEW r \in Run, Execute(r)
  PROVE  LET c == Head(todo[r]) IN
         /\ pc[r] = "act" /\ c \in Call
         /\ c \in Risky => Approved(c)
         /\ tokens' = Consumed(c)
         /\ \A o \in Run : /\ memory'[o].results = memory[o].results
                           /\ memory'[o].denials \subseteq memory[o].denials
                           /\ o # r => memory'[o] = memory[o]
         /\ pc' = [pc EXCEPT ![r] = "exec"]
         /\ started' = [started EXCEPT ![c] = @ + 1]
         /\ UNCHANGED <<pending, forced, todo, queue, active, done, blocked, saved, used,
                        granted, waived, disturbed>>
<1>1. pc[r] = "act" /\ Head(todo[r]) \in Call
  BY HeadFacts DEF Execute
<1>2. \A o \in Run : /\ memory'[o].results = memory[o].results
                     /\ memory'[o].denials \subseteq memory[o].denials
                     /\ o # r => memory'[o] = memory[o]
  BY DEF Execute, Types, Memory
<1> QED
  BY <1>1, <1>2 DEF Execute, agent

\* Run o has no part in the step.
Still(o) ==
  /\ pc'[o] = pc[o] /\ forced'[o] = forced[o] /\ todo'[o] = todo[o]
  /\ queue'[o] = queue[o] /\ active'[o] = active[o] /\ done'[o] = done[o]
  /\ blocked'[o] = blocked[o] /\ memory'[o] = memory[o]

LEMMA EnterFacts ==
  ASSUME Types, Modes, NEW r \in Run, NEW step, NEW call, Enter(r, step, call)
  PROVE  /\ pc[r] = "off" /\ pc'[r] = step /\ forced'[r] = call /\ memory'[r] = saved
         /\ forced[r] = None /\ memory[r] = Empty
         /\ todo'[r] = <<>> /\ queue'[r] = None /\ done'[r] = <<>>
         /\ ~active'[r] /\ ~blocked'[r]
         /\ \A o \in Run : o # r => Still(o)
         /\ disturbed' = (disturbed \/ \E o \in Run \ {r} : pc[o] # "off")
         /\ UNCHANGED <<saved, used>>
<1>1. /\ pc[r] = "off" /\ disturbed' = (disturbed \/ \E o \in Run \ {r} : pc[o] # "off")
      /\ UNCHANGED <<todo, queue, active, done, blocked, saved, used>>
  BY DEF Enter
<1>2. pc'[r] = step /\ forced'[r] = call /\ memory'[r] = saved
  BY DEF Enter, Types
<1>3. \A o \in Run : o # r => Still(o)
  BY <1>1 DEF Enter, Types, Still
<1>4. /\ forced[r] = None /\ memory[r] = Empty
      /\ todo[r] = <<>> /\ queue[r] = None /\ done[r] = <<>>
      /\ ~active[r] /\ ~blocked[r]
  BY <1>1 DEF Modes, Mode, AgentSteps
<1> QED
  BY <1>1, <1>2, <1>3, <1>4

LEMMA EndFacts ==
  ASSUME Types, NEW r \in Run, NEW m, End(r, m)
  PROVE  /\ pc'[r] = "off" /\ forced'[r] = None /\ memory'[r] = Empty
         /\ todo'[r] = <<>> /\ queue'[r] = None /\ done'[r] = <<>>
         /\ ~active'[r] /\ ~blocked'[r]
         /\ saved' = m
         /\ \A o \in Run : o # r => Still(o)
         /\ UNCHANGED <<pending, tokens, used, granted, started, waived>>
<1>1. \A o \in Run : o # r => Still(o)
  BY DEF End, Types, Still
<1> QED
  BY <1>1 DEF End, Types, service

\* A step of the clean-up or of the command ends a run that has no agent.
LEMMA LeaveFacts ==
  ASSUME Types, Modes, NEW r \in Run, CleanUp(r) \/ RunDaemonApprove(r)
  PROVE  /\ pc[r] \in {"cleanup", "command"} /\ pc[r] # "off"
         /\ pc'[r] = "off" /\ forced'[r] = None /\ memory'[r] = Empty
         /\ todo'[r] = <<>> /\ queue'[r] = None /\ done'[r] = <<>>
         /\ ~active'[r] /\ ~blocked'[r]
         /\ \A o \in Run : o # r => Still(o)
         /\ UNCHANGED <<used, started, waived, disturbed>>
<1>1. /\ pc[r] \in {"cleanup", "command"}
      /\ pc' = [pc EXCEPT ![r] = "off"] /\ memory' = [memory EXCEPT ![r] = Empty]
      /\ UNCHANGED <<forced, todo, queue, active, done, blocked, used, started, waived,
                     disturbed>>
  BY DEF CleanUp, RunDaemonApprove, agent, history
<1>2. pc'[r] = "off" /\ memory'[r] = Empty /\ \A o \in Run : o # r => Still(o)
  BY <1>1 DEF Types, Still
<1>3. pc[r] \notin AgentSteps
  BY <1>1 DEF AgentSteps
<1>4. /\ forced[r] = None /\ todo[r] = <<>> /\ queue[r] = None /\ done[r] = <<>>
      /\ ~active[r] /\ ~blocked[r]
  BY <1>1, <1>3 DEF Modes, Mode
<1> QED
  BY <1>1, <1>2, <1>4

LEMMA ReplaysFacts ==
  ASSUME Types, NEW r \in Run, NEW c \in Call, NEW rest \in Seq(Call), Replays(r, c, rest)
  PROVE  /\ pc[r] = "reason" /\ pc'[r] = "act" /\ todo'[r] = <<c>> /\ queue'[r] = rest
         /\ active'[r] /\ done'[r] = <<>> /\ memory'[r] = memory[r]
         /\ queue'[r] # None /\ todo'[r] # <<>> /\ Len(todo'[r]) = 1 /\ Head(todo'[r]) = c
         /\ ToSet(todo'[r]) = {c}
         /\ \A o \in Run : o # r /\ forced'[o] = forced[o] => Still(o)
         /\ UNCHANGED <<pending, tokens, blocked, memory, saved, used, granted, started, waived,
                        disturbed>>
<1>1. /\ pc[r] = "reason" /\ pc'[r] = "act" /\ todo'[r] = <<c>> /\ queue'[r] = rest
      /\ active'[r] /\ done'[r] = <<>> /\ memory'[r] = memory[r]
  BY DEF Replays, Types
<1>2. \A o \in Run : o # r /\ forced'[o] = forced[o] => Still(o)
  BY DEF Replays, Types, Still
<1>3. queue'[r] # None
  BY <1>1, NoneAssumption
<1>4. Len(todo'[r]) = 1 /\ Head(todo'[r]) = c /\ ToSet(todo'[r]) = {c} /\ todo'[r] # <<>>
  BY <1>1 DEF ToSet
<1> QED
  BY <1>1, <1>2, <1>3, <1>4 DEF Replays

\* What is left of a finished replay are calls of its queue that have no results.
LEMMA LeftFacts ==
  ASSUME Types, NEW r \in Run, NEW left \in Seq(Call), Continues(r, left)
  PROVE  /\ done[r] # <<>>
         /\ \A c \in ToSet(left) : c \in ToSet(done[r]) /\ c \notin memory[r].results
         /\ \A c \in ToSet(done[r]) : c \in ToSet(left) \/ c \in memory[r].results
         /\ ToSet(left) = {Head(left)} \cup ToSet(Tail(left))
<1>1. PICK f : Selects(f, left, done[r], Unanswered(r))
  BY DEF Continues
<1>2. \A c \in ToSet(left) : c \in ToSet(done[r]) /\ c \notin memory[r].results
  BY <1>1 DEF Selects, Thins, Unanswered, ToSet
<1>3. \A c \in ToSet(done[r]) : c \in ToSet(left) \/ c \in memory[r].results
  BY <1>1 DEF Selects, Thins, Unanswered, ToSet
<1>4. Head(left) \in ToSet(left) /\ ToSet(left) = {Head(left)} \cup ToSet(Tail(left))
  BY TailFacts DEF Continues
<1>5. done[r] # <<>>
  <2>1. done[r] = <<>> => ToSet(done[r]) = {}
    BY DEF ToSet
  <2> QED
    BY <1>2, <1>4, <2>1
<1> QED
  BY <1>2, <1>3, <1>4, <1>5

\* A step of one run leaves the other one alone.
LEMMA OthersStill ==
  ASSUME Types, Modes, NEW r \in Run, NEW o \in Run, o # r,
         \/ ReplayNext(r) \/ ReplayForced(r) \/ Think(r) \/ Finish(r) \/ Stop(r)
         \/ Execute(r) \/ Result(r) \/ Request(r)
  PROVE  Still(o)
<1>1. CASE ReplayNext(r)
  <2>1. PICK left \in Seq(Call) : Continues(r, left)
    BY <1>1, ReplayNextFacts
  <2> QED
    BY <1>1, <2>1, ReplayNextFacts, ReplaysFacts DEF Continues
<1>2. CASE ReplayForced(r)
  <2>1. forced'[o] = forced[o]
    BY <1>2, ReplayForcedFacts DEF Types
  <2> QED
    BY <1>2, <2>1, ReplayForcedFacts, ReplaysFacts
<1>3. CASE Think(r)
  <2>1. PICK m \in Messages : Speaks(r, m)
    BY <1>3, ThinkFacts
  <2>2. /\ pc' = [pc EXCEPT ![r] = "act"]
        /\ done' = [done EXCEPT ![r] = <<>>]
        /\ UNCHANGED <<forced, queue, active, blocked, memory>>
    BY <1>3, ThinkFacts
  <2> QED
    BY <2>1, <2>2 DEF Speaks, Still, Types
<1>4. CASE Finish(r)
  <2>1. End(r, memory[r])
    BY <1>4 DEF Finish
  <2> QED
    BY <2>1, EndFacts
<1>5. CASE Stop(r)
  <2>1. \E m : End(r, m)
    BY <1>5 DEF Stop
  <2> QED
    BY <2>1, EndFacts
<1>6. CASE Execute(r)
  <2>1. /\ memory'[o] = memory[o] /\ pc' = [pc EXCEPT ![r] = "exec"]
        /\ UNCHANGED <<forced, todo, queue, active, done, blocked>>
    BY <1>6, ExecuteFacts
  <2> QED
    BY <2>1 DEF Still, Types
<1>7. CASE Result(r)
  <2>1. /\ memory'[o] = memory[o]
        /\ blocked' = [blocked EXCEPT ![r] = FALSE]
        /\ done' = [done EXCEPT ![r] = queue[r]] \/ done' = done
        /\ active' = [active EXCEPT ![r] = FALSE]
        /\ todo' = [todo EXCEPT ![r] = Tail(@)]
        /\ pc' = [pc EXCEPT ![r] = IF Len(todo[r]) = 1 THEN "reason" ELSE "act"]
        /\ UNCHANGED <<forced, queue>>
    BY <1>7, ResultFacts
  <2> QED
    BY <2>1 DEF Still, Types
<1>8. CASE Request(r)
  <2>1. /\ queue' = [queue EXCEPT ![r] = None]
        /\ blocked' = [blocked EXCEPT ![r] = TRUE]
        /\ memory' = [memory EXCEPT ![r].denials = @ \cup {Head(todo[r])}]
        /\ todo' = [todo EXCEPT ![r] = Tail(@)]
        /\ pc' = [pc EXCEPT ![r] = IF Len(todo[r]) = 1 THEN "reason" ELSE "act"]
        /\ UNCHANGED <<forced, active, done>>
    BY <1>8 DEF Request, Acted
  <2> QED
    BY <2>1 DEF Still
<1> QED
  BY <1>1, <1>2, <1>3, <1>4, <1>5, <1>6, <1>7, <1>8

LEMMA ModeStill ==
  ASSUME NEW o \in Run, Mode(o), Still(o)
  PROVE  Mode(o)'
BY DEF Mode, Still

\* The agent of run r takes a step.
AgentStep(r) ==
  \/ ReplayNext(r) \/ ReplayForced(r) \/ Think(r) \/ Finish(r) \/ Stop(r)
  \/ Execute(r) \/ Result(r) \/ Request(r)

LEMMA ModeStep ==
  ASSUME Types, Types', Distinct, Modes, NEW r \in Run, AgentStep(r)
  PROVE  Mode(r)'
<1>0. Mode(r)
  BY DEF Modes
<1>1. CASE ReplayNext(r)
  <2>1. PICK left \in Seq(Call) : Continues(r, left)
    BY <1>1, ReplayNextFacts
  <2>2. Head(left) \in Call /\ Tail(left) \in Seq(Call) /\ Replays(r, Head(left), Tail(left))
    BY <2>1 DEF Continues
  <2>3. forced'[r] = None /\ done[r] # <<>>
    BY <1>0, <1>1, <2>1, LeftFacts, ReplayNextFacts DEF Mode
  <2> QED
    BY <2>2, <2>3, ReplaysFacts DEF Mode, AgentSteps
<1>2. CASE ReplayForced(r)
  <2>1. forced'[r] = None
    BY <1>2, ReplayForcedFacts DEF Types
  <2>2. /\ forced[r].call \in Call /\ forced[r].rest \in Seq(Call)
        /\ Replays(r, forced[r].call, forced[r].rest)
    BY <1>2, ReplayForcedFacts
  <2> QED
    BY <2>1, <2>2, ReplaysFacts DEF Mode, AgentSteps
<1>3. CASE Think(r)
  <2>1. PICK m \in Messages : Speaks(r, m)
    BY <1>3, ThinkFacts
  <2>1a. /\ pc[r] = "reason" /\ forced[r] = None /\ ~blocked[r] /\ Unanswered(r) = {}
         /\ pc' = [pc EXCEPT ![r] = "act"] /\ done' = [done EXCEPT ![r] = <<>>]
         /\ UNCHANGED <<forced, queue, active, blocked, memory>>
    BY <1>3, ThinkFacts
  <2>1b. m # <<>>
    BY MessageFacts
  <2>2. todo'[r] = m /\ pc'[r] = "act" /\ done'[r] = <<>>
    BY <2>1, <2>1a DEF Speaks, Types
  <2>3. ToSet(done[r]) \subseteq memory[r].results
    BY <2>1a DEF Unanswered, ToSet
  <2>4. ~active[r]
    BY <1>0, <2>1a DEF Mode
  <2> QED
    BY <1>0, <2>1a, <2>1b, <2>2, <2>3, <2>4 DEF Mode, AgentSteps
<1>4. CASE Finish(r) \/ Stop(r)
  <2>1. \E m : End(r, m)
    BY <1>4 DEF Finish, Stop
  <2>2. /\ pc'[r] = "off" /\ forced'[r] = None /\ memory'[r] = Empty
        /\ todo'[r] = <<>> /\ queue'[r] = None /\ done'[r] = <<>>
        /\ ~active'[r] /\ ~blocked'[r]
    BY <2>1, EndFacts
  <2> QED
    BY <2>2 DEF Mode
<1>6. CASE Execute(r)
  <2>1. /\ pc[r] = "act" /\ pc' = [pc EXCEPT ![r] = "exec"]
        /\ memory'[r].results = memory[r].results
        /\ UNCHANGED <<forced, todo, queue, active, done, blocked>>
    BY <1>6, ExecuteFacts
  <2>2. pc'[r] = "exec"
    BY <2>1 DEF Types
  <2> QED
    BY <1>0, <2>1, <2>2 DEF Mode, AgentSteps
<1>7. CASE Result(r)
  <2>1. /\ pc[r] = "exec" /\ pc'[r] = IF Len(todo[r]) = 1 THEN "reason" ELSE "act"
        /\ memory[r].results \subseteq memory'[r].results
        /\ todo'[r] = Tail(todo[r]) /\ ~active'[r]
        /\ active[r] => queue[r] # None /\ done'[r] = queue[r]
        /\ ~active[r] => done'[r] = done[r]
        /\ UNCHANGED <<forced, queue>>
    <3>1. /\ pc \in [Run -> Steps] /\ todo \in [Run -> Seq(Call)]
          /\ active \in [Run -> BOOLEAN] /\ done \in [Run -> Seq(Call)]
      BY DEF Types
    <3>2. /\ pc' = [pc EXCEPT ![r] = IF Len(todo[r]) = 1 THEN "reason" ELSE "act"]
          /\ todo' = [todo EXCEPT ![r] = Tail(@)] /\ active' = [active EXCEPT ![r] = FALSE]
          /\ active[r] => queue[r] # None /\ done' = [done EXCEPT ![r] = queue[r]]
          /\ ~active[r] => done' = done
      BY <1>7, ResultFacts
    <3>3. /\ pc'[r] = IF Len(todo[r]) = 1 THEN "reason" ELSE "act"
          /\ todo'[r] = Tail(todo[r]) /\ ~active'[r]
      BY <3>1, <3>2
    <3>4. /\ active[r] => queue[r] # None /\ done'[r] = queue[r]
          /\ ~active[r] => done'[r] = done[r]
      BY <3>1, <3>2
    <3>5. /\ pc[r] = "exec" /\ UNCHANGED <<forced, queue>>
          /\ memory[r].results \subseteq memory'[r].results
      BY <1>7, ResultFacts
    <3> QED
      BY <3>3, <3>4, <3>5
  <2>2. /\ Len(todo'[r]) = Len(todo[r]) - 1 /\ Len(todo[r]) \in Nat \ {0}
        /\ todo'[r] \in Seq(Call)
    BY <2>1, HeadFacts
  <2>2a. Len(todo'[r]) > 0 <=> todo'[r] # <<>>
    BY <2>2, ElementFacts
  <2>3. todo'[r] # <<>> <=> pc'[r] \in {"act", "exec"}
    <3>0. \A n \in Nat \ {0} : n = 1 <=> ~(n - 1 > 0)
      OBVIOUS
    <3>1. Len(todo[r]) = 1 <=> ~(Len(todo'[r]) > 0)
      BY <2>2, <3>0
    <3>2. pc'[r] = IF Len(todo[r]) = 1 THEN "reason" ELSE "act"
      BY <2>1
    <3>3. pc'[r] \in {"act", "exec"} <=> Len(todo[r]) # 1
      BY <3>2
    <3> QED
      BY <2>2a, <3>1, <3>3
  <2>4. pc'[r] \in AgentSteps /\ forced'[r] = None
    BY <1>0, <2>1 DEF Mode, AgentSteps
  <2>5. CASE active[r]
    <3>1. Len(todo[r]) = 1 /\ queue[r] # None
      BY <1>0, <2>1, <2>5 DEF Mode
    <3> QED
      BY <2>1, <2>3, <2>4, <2>5, <3>1 DEF Mode, AgentSteps
  <2>6. CASE ~active[r]
    <3>1. done[r] = <<>> /\ ToSet(done[r]) = {}
      BY <1>0, <2>1, ElementFacts DEF Mode, Types
    <3>2. queue[r] # None => ToSet(queue[r]) \subseteq memory'[r].results
      BY <1>0, <2>1, <2>6, <3>1 DEF Mode
    <3> QED
      BY <2>1, <2>3, <2>4, <2>6, <3>1, <3>2 DEF Mode, AgentSteps
  <2> QED
    BY <2>5, <2>6
<1>8. CASE Request(r)
  <2>1. /\ pc[r] = "act" /\ pc'[r] = IF Len(todo[r]) = 1 THEN "reason" ELSE "act"
        /\ todo'[r] = Tail(todo[r]) /\ queue'[r] = None /\ blocked'[r]
        /\ UNCHANGED <<forced, active, done>>
    BY <1>8 DEF Request, Acted, Types
  <2>2. /\ Len(todo'[r]) = Len(todo[r]) - 1 /\ Len(todo[r]) \in Nat \ {0}
        /\ todo'[r] \in Seq(Call)
    BY <2>1, HeadFacts
  <2>2a. Len(todo'[r]) > 0 <=> todo'[r] # <<>>
    BY <2>2, ElementFacts
  <2>3. todo'[r] # <<>> <=> pc'[r] \in {"act", "exec"}
    <3>0. \A n \in Nat \ {0} : n = 1 <=> ~(n - 1 > 0)
      OBVIOUS
    <3>1. Len(todo[r]) = 1 <=> ~(Len(todo'[r]) > 0)
      BY <2>2, <3>0
    <3>2. pc'[r] = IF Len(todo[r]) = 1 THEN "reason" ELSE "act"
      BY <2>1
    <3>3. pc'[r] \in {"act", "exec"} <=> Len(todo[r]) # 1
      BY <3>2
    <3> QED
      BY <2>2a, <3>1, <3>3
  <2> QED
    BY <1>0, <2>1, <2>3 DEF Mode, AgentSteps
<1> QED
  BY <1>1, <1>2, <1>3, <1>4, <1>6, <1>7, <1>8 DEF AgentStep

LEMMA ModesStep ==
  ASSUME Types, Types', Distinct, Modes, [Next]_vars
  PROVE  Modes'
<1>1. ASSUME NEW r \in Run, NEW step \in {"reason", "cleanup", "command"},
             NEW call \in Record \cup {None}, Enter(r, step, call),
             call # None => step = "reason"
      PROVE  Modes'
  <2>1. Mode(r)'
    BY <1>1, EnterFacts DEF Mode, AgentSteps
  <2>2. \A o \in Run : o # r => Mode(o)'
    BY <1>1, EnterFacts, ModeStill DEF Modes
  <2> QED
    BY <2>1, <2>2 DEF Modes
<1>2. CASE Ask
  BY <1>1, <1>2 DEF Ask, Run
<1>3. ASSUME NEW r \in Run, Deny(r)
      PROVE  Modes'
  BY <1>1, <1>3 DEF Deny
<1>4. CASE ApproveNothing
  BY <1>1, <1>4 DEF ApproveNothing, Run
<1>5. ASSUME NEW r \in Run, Approve(r)
      PROVE  Modes'
  <2>1. Head(pending) \in Record
    BY <1>5, TailFacts DEF Approve, CanApprove, Types
  <2> QED
    BY <1>1, <1>5, <2>1 DEF Approve
<1>6. ASSUME NEW r \in Run, CleanUp(r) \/ RunDaemonApprove(r)
      PROVE  Modes'
  <2>1. Mode(r)'
    BY <1>6, LeaveFacts DEF Mode
  <2>2. \A o \in Run : o # r => Mode(o)'
    BY <1>6, LeaveFacts, ModeStill DEF Modes
  <2> QED
    BY <2>1, <2>2 DEF Modes
<1>7. ASSUME NEW r \in Run,
             \/ ReplayNext(r) \/ ReplayForced(r) \/ Think(r) \/ Finish(r) \/ Stop(r)
             \/ Execute(r) \/ Result(r) \/ Request(r)
      PROVE  Modes'
  <2>9. Mode(r)'
    BY <1>7, ModeStep DEF AgentStep
  <2>10. \A o \in Run : o # r => Mode(o)'
    BY <1>7, OthersStill, ModeStill DEF Modes
  <2> QED
    BY <2>9, <2>10 DEF Modes
<1>8. CASE UNCHANGED vars
  BY <1>8 DEF vars, Modes, Mode
<1> QED
  BY <1>2, <1>3, <1>4, <1>5, <1>6, <1>7, <1>8 DEF Next

-----------------------------------------------------------------------------
(* The requests                                                            *)

\* Requests leave from the front, and come in by Request.
LEMMA PendingMoves ==
  ASSUME [Next]_vars
  PROVE  \/ pending' = pending
         \/ pending # <<>> /\ pending' = Tail(pending)
         \/ \E r \in Run : Request(r)
<1>1. CASE Ask \/ ApproveNothing
  BY <1>1 DEF Ask, ApproveNothing, service
<1>2. ASSUME NEW r \in Run, Deny(r) \/ Approve(r) \/ RunDaemonApprove(r) \/ CleanUp(r)
      PROVE  pending' = pending \/ (pending # <<>> /\ pending' = Tail(pending))
  BY <1>2 DEF Deny, Approve, RunDaemonApprove, CleanUp, CanApprove, ResolveApproved, service
<1>3. ASSUME NEW r \in Run, ReplayNext(r) \/ ReplayForced(r) \/ Think(r)
      PROVE  pending' = pending
  BY <1>3 DEF ReplayNext, ReplayForced, Replay, Think, service
<1>4. ASSUME NEW r \in Run, Finish(r) \/ Stop(r)
      PROVE  pending' = pending
  BY <1>4 DEF Finish, Stop, End, service
<1>5. ASSUME NEW r \in Run, Execute(r) \/ Result(r)
      PROVE  pending' = pending
  BY <1>5 DEF Execute, Result, service
<1>6. CASE UNCHANGED vars
  BY <1>6 DEF vars
<1> QED
  BY <1>1, <1>2, <1>3, <1>4, <1>5, <1>6 DEF Next

\* The request that run r makes.
Wanted(r) == [call |-> Head(todo[r]), rest |-> Rest(r)]

LEMMA WantedFacts ==
  ASSUME Types, Modes, NEW r \in Run, Request(r)
  PROVE  /\ Wanted(r) \in Record /\ Wanted(r).call = Head(todo[r])
         /\ Wanted(r).rest = Rest(r)
         /\ Calls(Wanted(r)) = {Head(todo[r])} \cup ToSet(Rest(r))
<1>1. pc[r] = "act"
  BY DEF Request
<1> QED
  BY <1>1, RestFacts DEF Wanted, Calls

\* Every request is an old one or the one that a run makes.
LEMMA PendingFacts ==
  ASSUME Types, Distinct, Modes, [Next]_vars
  PROVE  \A i \in DOMAIN pending' :
           \/ \E k \in DOMAIN pending : pending'[i] = pending[k]
           \/ \E r \in Run : Request(r) /\ pending'[i] = Wanted(r)
<1>1. CASE pending' = pending
  BY <1>1
<1>2. CASE pending # <<>> /\ pending' = Tail(pending)
  <2>1. \A i \in DOMAIN Tail(pending) :
          i + 1 \in DOMAIN pending /\ Tail(pending)[i] = pending[i + 1]
    BY <1>2, TailFacts DEF Types
  <2> QED
    BY <1>2, <2>1
<1>3. ASSUME NEW r \in Run, Request(r)
      PROVE  \A i \in DOMAIN pending' :
               (\E k \in DOMAIN pending : pending'[i] = pending[k]) \/ pending'[i] = Wanted(r)
  <2> DEFINE stale == {Head(todo[r])} \cup ToSet(Queued(r))
  <2>1. /\ Wanted(r) \in Record
        /\ \E old \in Seq(Record) : \E f : Files(old, f, Wanted(r), stale)
    BY <1>3, RequestFacts DEF Wanted
  <2> HIDE DEF stale
  <2>1a. PICK old \in Seq(Record) : \E f : Files(old, f, Wanted(r), stale)
    BY <2>1
  <2>2. PICK f : Files(old, f, Wanted(r), stale)
    BY <2>1a
  <2>3. \A i \in DOMAIN pending' :
          \/ i = Len(old) + 1 /\ pending'[i] = Wanted(r)
          \/ i \in DOMAIN old /\ pending'[i] = old[i]
    BY <2>1, <2>1a, <2>2, AppendFacts DEF Files
  <2>4. \A i \in DOMAIN old : f[i] \in DOMAIN pending /\ old[i] = pending[f[i]]
    BY <2>2 DEF Files, Thins
  <2> QED
    BY <2>3, <2>4
<1> QED
  BY <1>1, <1>2, <1>3, PendingMoves

LEMMA DistinctStep ==
  ASSUME Types, Distinct, Modes, [Next]_vars
  PROVE  Distinct'
<1>1. CASE pending' = pending
  BY <1>1 DEF Distinct
<1>2. CASE pending # <<>> /\ pending' = Tail(pending)
  <2>1. \A i \in DOMAIN pending' :
          i \in Nat /\ i + 1 \in DOMAIN pending /\ pending'[i] = pending[i + 1]
    BY <1>2, TailFacts DEF Types
  <2>2. ASSUME NEW i \in DOMAIN pending', NEW j \in DOMAIN pending',
               pending'[i].call = pending'[j].call
        PROVE  i = j
    <3>1. i + 1 = j + 1
      BY <2>1, <2>2 DEF Distinct
    <3> QED
      BY <2>1, <3>1
  <2> QED
    BY <2>2 DEF Distinct
<1>3. ASSUME NEW r \in Run, Request(r)
      PROVE  Distinct'
  <2> DEFINE stale == {Head(todo[r])} \cup ToSet(Queued(r))
  <2>1. /\ Wanted(r) \in Record /\ Wanted(r).call \in stale
        /\ \E old \in Seq(Record) : \E f : Files(old, f, Wanted(r), stale)
    BY <1>3, RequestFacts DEF Wanted
  <2> HIDE DEF stale
  <2>1a. PICK old \in Seq(Record) : \E f : Files(old, f, Wanted(r), stale)
    BY <2>1
  <2>2. PICK f : Files(old, f, Wanted(r), stale)
    BY <2>1a
  <2>3. \A i \in DOMAIN pending' :
          \/ i = Len(old) + 1 /\ pending'[i] = Wanted(r)
          \/ i \in DOMAIN old /\ pending'[i] = old[i]
    BY <2>1, <2>1a, <2>2, AppendFacts DEF Files
  <2>4. /\ \A i \in DOMAIN old : f[i] \in DOMAIN pending /\ old[i] = pending[f[i]]
        /\ \A i, j \in DOMAIN old : f[i] = f[j] => i = j
        /\ \A i \in DOMAIN old : pending[f[i]].call \notin stale
    BY <2>2 DEF Files, Thins
  <2>5. \A i \in DOMAIN old : old[i].call # Wanted(r).call
    BY <2>1, <2>4
  <2>6. \A i, j \in DOMAIN old : old[i].call = old[j].call => i = j
    BY <2>4 DEF Distinct
  <2> QED
    BY <2>3, <2>5, <2>6 DEF Distinct
<1> QED
  BY <1>1, <1>2, <1>3, PendingMoves

\* A run starts, or ends without an agent.
Starts(r) ==
  \/ Ask /\ r = "chat"
  \/ ApproveNothing /\ r = "command"
  \/ Deny(r) \/ Approve(r) \/ CleanUp(r) \/ RunDaemonApprove(r)

LEMMA StartEnd ==
  ASSUME Types, Modes, NEW r \in Run, Starts(r)
  PROVE  /\ forced'[r] # None => pending # <<>> /\ forced'[r] = Head(pending)
         /\ todo'[r] = <<>> /\ queue'[r] = None /\ done'[r] = <<>>
         /\ ~active'[r] /\ ~blocked'[r]
         /\ memory'[r] \in {saved, Empty}
         /\ \A o \in Run : o # r => Still(o)
         /\ UNCHANGED <<used, started>>
<1>1. CASE CleanUp(r) \/ RunDaemonApprove(r)
  BY <1>1, LeaveFacts
<1>2. CASE Approve(r)
  <2>1. Enter(r, "reason", Head(pending)) /\ pending # <<>> /\ started' = started
    BY <1>2 DEF Approve, CanApprove
  <2> QED
    BY <2>1, EnterFacts
<1>3. CASE Ask /\ r = "chat"
  <2>1. Enter(r, "reason", None) /\ started' = started
    BY <1>3 DEF Ask
  <2> QED
    BY <2>1, EnterFacts
<1>4. CASE Deny(r)
  <2>1. Enter(r, "cleanup", None) /\ started' = started
    BY <1>4 DEF Deny
  <2> QED
    BY <2>1, EnterFacts
<1>5. CASE ApproveNothing /\ r = "command"
  <2>1. Enter(r, "command", None) /\ started' = started
    BY <1>5 DEF ApproveNothing
  <2> QED
    BY <2>1, EnterFacts
<1> QED
  BY <1>1, <1>2, <1>3, <1>4, <1>5 DEF Starts

\* Every step is one of a run.
LEMMA Steppers ==
  ASSUME [Next]_vars
  PROVE  (\E r \in Run : Starts(r) \/ AgentStep(r)) \/ UNCHANGED vars
<1>1. "chat" \in Run /\ "command" \in Run
  BY DEF Run
<1>2. Ask => Starts("chat")
  BY DEF Starts
<1>3. ApproveNothing => Starts("command")
  BY DEF Starts
<1>4. \A r \in Run : Deny(r) \/ Approve(r) \/ CleanUp(r) \/ RunDaemonApprove(r) => Starts(r)
  BY DEF Starts
<1> QED
  BY <1>1, <1>2, <1>3, <1>4 DEF Next, AgentStep

-----------------------------------------------------------------------------
(* The bound of the queues, and the calls that are known                   *)

LEMMA WithinStep ==
  ASSUME Types, Types', Distinct, Modes, Short, NEW r \in Run, Starts(r) \/ AgentStep(r)
  PROVE  Within(r)'
<1>0. Within(r) /\ MaxSiblings \in Nat /\ MaxSiblings >= 1 /\ Len(<<>>) = 0
  BY BoundAssumption DEF Short
<1>1. CASE Starts(r)
  <2>1. forced'[r] # None => Len(forced'[r].rest) <= MaxSiblings
    <3> SUFFICES ASSUME forced'[r] # None
                 PROVE  Len(forced'[r].rest) <= MaxSiblings
      OBVIOUS
    <3>1. pending # <<>> /\ forced'[r] = Head(pending)
      BY <1>1, StartEnd
    <3>2. 1 \in DOMAIN pending /\ Head(pending) = pending[1]
      BY <3>1, TailFacts DEF Types
    <3> QED
      BY <3>1, <3>2 DEF Short
  <2>2. todo'[r] = <<>> /\ queue'[r] = None /\ done'[r] = <<>>
    BY <1>1, StartEnd
  <2> QED
    BY <1>0, <2>1, <2>2 DEF Within
<1>2. CASE ReplayNext(r)
  <2>1. PICK left \in Seq(Call) : Continues(r, left)
    BY <1>2, ReplayNextFacts
  <2>2. /\ Head(left) \in Call /\ Tail(left) \in Seq(Call) /\ Len(left) <= Len(done[r])
        /\ Replays(r, Head(left), Tail(left))
    BY <2>1 DEF Continues
  <2>3. /\ forced'[r] = forced[r] /\ Len(todo'[r]) = 1
        /\ queue'[r] = Tail(left) /\ done'[r] = <<>>
    BY <1>2, <2>2, ReplayNextFacts, ReplaysFacts
  <2>4. Len(Tail(left)) <= MaxSiblings
    <3>1. Len(Tail(left)) = Len(left) - 1 /\ Len(left) \in Nat
      BY <2>1, TailFacts DEF Continues
    <3>2. Len(left) <= Len(done[r]) /\ Len(done[r]) <= MaxSiblings /\ Len(done[r]) \in Nat
      BY <1>0, <2>2 DEF Within, Types
    <3> QED
      BY <1>0, <3>1, <3>2
  <2> QED
    BY <1>0, <2>3, <2>4 DEF Within
<1>3. CASE ReplayForced(r)
  <2>1. /\ forced[r] # None /\ forced'[r] = None
        /\ forced[r].call \in Call /\ forced[r].rest \in Seq(Call)
        /\ Replays(r, forced[r].call, forced[r].rest)
    <3>1. forced[r] # None
      BY <1>3 DEF ReplayForced
    <3>2. forced \in [Run -> Record \cup {None}]
      BY DEF Types
    <3> QED
      BY <1>3, <3>1, <3>2, ReplayForcedFacts
  <2>2. Len(todo'[r]) = 1 /\ queue'[r] = forced[r].rest /\ done'[r] = <<>>
    BY <2>1, ReplaysFacts
  <2> QED
    BY <1>0, <2>1, <2>2 DEF Within
<1>4. CASE Think(r)
  <2>1. PICK m \in Messages : Speaks(r, m)
    BY <1>4, ThinkFacts
  <2>2. /\ done' = [done EXCEPT ![r] = <<>>]
        /\ UNCHANGED <<forced, queue>>
    BY <1>4, ThinkFacts
  <2>3. todo'[r] = m /\ done'[r] = <<>>
    BY <2>1, <2>2 DEF Speaks, Types
  <2>4. Len(m) <= MaxSiblings
    BY MessageFacts
  <2> QED
    BY <1>0, <2>2, <2>3, <2>4 DEF Within
<1>5. CASE Finish(r) \/ Stop(r)
  <2>1. \E m : End(r, m)
    BY <1>5 DEF Finish, Stop
  <2>2. forced'[r] = None /\ todo'[r] = <<>> /\ queue'[r] = None /\ done'[r] = <<>>
    BY <2>1, EndFacts
  <2> QED
    BY <1>0, <2>2 DEF Within
<1>6. CASE Execute(r)
  <2>1. UNCHANGED <<forced, todo, queue, done>>
    BY <1>6, ExecuteFacts
  <2> QED
    BY <1>0, <2>1 DEF Within
<1>7. CASE Result(r) \/ Request(r)
  <2>1. /\ pc[r] \in {"act", "exec"} /\ todo'[r] = Tail(todo[r])
        /\ forced' = forced
        /\ queue'[r] \in {queue[r], None}
    BY <1>7 DEF Result, Request, Acted, Types
  <2>2. done'[r] = done[r] \/ (queue[r] # None /\ done'[r] = queue[r])
    <3>1. CASE Result(r)
      BY <3>1, ResultFacts DEF Types
    <3>2. CASE Request(r)
      BY <3>2 DEF Request
    <3> QED
      BY <1>7, <3>1, <3>2
  <2>3. Len(todo'[r]) = Len(todo[r]) - 1 /\ Len(todo[r]) \in Nat
    BY <2>1, HeadFacts
  <2>4. Len(todo'[r]) <= MaxSiblings
    BY <1>0, <2>3 DEF Within
  <2> QED
    BY <1>0, <2>1, <2>2, <2>4 DEF Within
<1> QED
  BY <1>1, <1>2, <1>3, <1>4, <1>5, <1>6, <1>7 DEF AgentStep

LEMMA RestWithin ==
  ASSUME Types, Modes, Short, NEW r \in Run, Request(r)
  PROVE  Len(Rest(r)) <= MaxSiblings
<1>1. pc[r] = "act" /\ Within(r) /\ MaxSiblings \in Nat
  BY BoundAssumption DEF Request, Short
<1>2. Len(Tail(todo[r])) = Len(todo[r]) - 1 /\ Len(todo[r]) \in Nat
  BY <1>1, HeadFacts
<1>3. queue[r] # None => Rest(r) = queue[r]
  BY <1>1, RestFacts
<1>4. queue[r] = None => Rest(r) = Tail(todo[r])
  BY <1>1, RestFacts
<1>5. Len(Tail(todo[r])) <= MaxSiblings
  BY <1>1, <1>2 DEF Within
<1> QED
  BY <1>1, <1>3, <1>4, <1>5 DEF Within

LEMMA ShortStep ==
  ASSUME Types, Types', Distinct, Modes, Short, [Next]_vars
  PROVE  Short'
<1>1. \A i \in DOMAIN pending' : Len(pending'[i].rest) <= MaxSiblings
  BY PendingFacts, WantedFacts, RestWithin DEF Short
<1>2. ASSUME NEW r \in Run, Starts(r) \/ AgentStep(r)
      PROVE  \A o \in Run : Within(o)'
  <2>1. Within(r)'
    BY <1>2, WithinStep
  <2>2. \A o \in Run : o # r => Still(o)
    BY <1>2, StartEnd, OthersStill DEF AgentStep
  <2>3. \A o \in Run : Within(o) /\ Still(o) => Within(o)'
    BY DEF Within, Still
  <2> QED
    BY <2>1, <2>2, <2>3 DEF Short
<1>3. CASE UNCHANGED vars
  BY <1>1, <1>3 DEF vars, Short, Within
<1> QED
  BY <1>1, <1>2, <1>3, Steppers DEF Short

LEMMA RestKnown ==
  ASSUME Types, Modes, Known, NEW r \in Run, Request(r)
  PROVE  Calls(Wanted(r)) \subseteq used
<1>1. pc[r] = "act" /\ Knows(r)
  BY DEF Request, Known
<1>2. Head(todo[r]) \in ToSet(todo[r]) /\ ToSet(Tail(todo[r])) \subseteq ToSet(todo[r])
  <2>1. todo[r] \in Seq(Call) /\ todo[r] # <<>>
    BY <1>1, HeadFacts
  <2> QED
    BY <2>1, TailFacts
<1>3. ToSet(Rest(r)) \subseteq used
  BY <1>1, <1>2, RestFacts DEF Knows
<1> QED
  BY <1>1, <1>2, <1>3, WantedFacts DEF Knows

LEMMA UsedGrows ==
  ASSUME Types, Modes, [Next]_vars
  PROVE  used \subseteq used'
<1>1. ASSUME NEW r \in Run, Starts(r)
      PROVE  used' = used
  BY <1>1, StartEnd
<1>2. ASSUME NEW r \in Run, AgentStep(r)
      PROVE  used \subseteq used'
  <2>1. CASE ReplayNext(r) \/ ReplayForced(r)
    BY <2>1 DEF ReplayNext, ReplayForced, Replay
  <2>2. CASE Think(r)
    BY <2>2 DEF Think
  <2>3. CASE Finish(r) \/ Stop(r)
    BY <2>3 DEF Finish, Stop, End
  <2>4. CASE Execute(r) \/ Result(r) \/ Request(r)
    BY <2>4 DEF Execute, Result, Request
  <2> QED
    BY <1>2, <2>1, <2>2, <2>3, <2>4 DEF AgentStep
<1>3. CASE UNCHANGED vars
  BY <1>3 DEF vars
<1> QED
  BY <1>1, <1>2, <1>3, Steppers

LEMMA KnowsStep ==
  ASSUME Types, Types', Distinct, Modes, Known, [Next]_vars,
         NEW r \in Run, Starts(r) \/ AgentStep(r)
  PROVE  Knows(r)'
<1>0. Knows(r) /\ used \subseteq used' /\ saved.results \cup saved.denials \subseteq used
      /\ ToSet(<<>>) = {} /\ Empty.results = {} /\ Empty.denials = {}
  BY UsedGrows DEF Known, ToSet, Empty
<1>1. CASE Starts(r)
  <2>1. forced'[r] # None => Calls(forced'[r]) \subseteq used
    <3> SUFFICES ASSUME forced'[r] # None
                 PROVE  Calls(forced'[r]) \subseteq used
      OBVIOUS
    <3>1. pending # <<>> /\ forced'[r] = Head(pending)
      BY <1>1, StartEnd
    <3>2. 1 \in DOMAIN pending /\ Head(pending) = pending[1]
      BY <3>1, TailFacts DEF Types
    <3> QED
      BY <3>1, <3>2 DEF Known
  <2>2. /\ todo'[r] = <<>> /\ queue'[r] = None /\ done'[r] = <<>>
        /\ memory'[r] \in {saved, Empty} /\ used' = used
    BY <1>1, StartEnd
  <2> QED
    BY <1>0, <2>1, <2>2 DEF Knows
<1>2. CASE ReplayNext(r)
  <2>1. PICK left \in Seq(Call) : Continues(r, left)
    BY <1>2, ReplayNextFacts
  <2>2. /\ Head(left) \in Call /\ Tail(left) \in Seq(Call)
        /\ Replays(r, Head(left), Tail(left))
    BY <2>1 DEF Continues
  <2>3. /\ forced'[r] = forced[r] /\ ToSet(todo'[r]) = {Head(left)}
        /\ queue'[r] = Tail(left) /\ done'[r] = <<>> /\ memory'[r] = memory[r]
    BY <1>2, <2>2, ReplayNextFacts, ReplaysFacts
  <2>4. ToSet(left) \subseteq used /\ ToSet(left) = {Head(left)} \cup ToSet(Tail(left))
    BY <1>0, <2>1, LeftFacts DEF Knows
  <2> QED
    BY <1>0, <2>3, <2>4 DEF Knows
<1>3. CASE ReplayForced(r)
  <2>1. /\ forced[r] # None /\ forced'[r] = None
        /\ forced[r].call \in Call /\ forced[r].rest \in Seq(Call)
        /\ Replays(r, forced[r].call, forced[r].rest)
    <3>1. forced[r] # None
      BY <1>3 DEF ReplayForced
    <3>2. forced \in [Run -> Record \cup {None}]
      BY DEF Types
    <3> QED
      BY <1>3, <3>1, <3>2, ReplayForcedFacts
  <2>2. /\ ToSet(todo'[r]) = {forced[r].call} /\ queue'[r] = forced[r].rest
        /\ done'[r] = <<>> /\ memory'[r] = memory[r]
    BY <2>1, ReplaysFacts
  <2>3. {forced[r].call} \cup ToSet(forced[r].rest) \subseteq used
    BY <1>0, <2>1 DEF Knows, Calls
  <2> QED
    BY <1>0, <2>1, <2>2, <2>3 DEF Knows
<1>4. CASE Think(r)
  <2>1. PICK m \in Messages : Speaks(r, m)
    BY <1>4, ThinkFacts
  <2>2. /\ done' = [done EXCEPT ![r] = <<>>]
        /\ UNCHANGED <<forced, queue, memory>>
    BY <1>4, ThinkFacts
  <2>3. todo'[r] = m /\ done'[r] = <<>> /\ ToSet(m) \subseteq used'
    BY <2>1, <2>2 DEF Speaks, Types
  <2> QED
    BY <1>0, <2>2, <2>3 DEF Knows
<1>5. CASE Finish(r) \/ Stop(r)
  <2>1. \E m : End(r, m)
    BY <1>5 DEF Finish, Stop
  <2>2. /\ forced'[r] = None /\ todo'[r] = <<>> /\ queue'[r] = None /\ done'[r] = <<>>
        /\ memory'[r] = Empty
    BY <2>1, EndFacts
  <2> QED
    BY <1>0, <2>2 DEF Knows
<1>6. CASE Execute(r)
  <2>1. /\ UNCHANGED <<forced, todo, queue, done, used>>
        /\ memory'[r].results = memory[r].results
        /\ memory'[r].denials \subseteq memory[r].denials
    BY <1>6, ExecuteFacts
  <2> QED
    BY <1>0, <2>1 DEF Knows
<1>7. CASE Result(r) \/ Request(r)
  <2>1. /\ pc[r] \in {"act", "exec"} /\ todo'[r] = Tail(todo[r])
        /\ forced' = forced
        /\ queue'[r] \in {queue[r], None}
    BY <1>7 DEF Result, Request, Acted, Types
  <2>2. done'[r] = done[r] \/ (queue[r] # None /\ done'[r] = queue[r])
    <3>1. CASE Result(r)
      BY <3>1, ResultFacts DEF Types
    <3>2. CASE Request(r)
      BY <3>2 DEF Request
    <3> QED
      BY <1>7, <3>1, <3>2
  <2>3. Head(todo[r]) \in ToSet(todo[r]) /\ ToSet(Tail(todo[r])) \subseteq ToSet(todo[r])
    <3>1. todo[r] \in Seq(Call) /\ todo[r] # <<>>
      BY <2>1, HeadFacts
    <3> QED
      BY <3>1, TailFacts
  <2>4. memory'[r].results \cup memory'[r].denials
          \subseteq memory[r].results \cup memory[r].denials \cup {Head(todo[r])}
    <3>1. CASE Result(r)
      BY <3>1, ResultFacts
    <3>2. CASE Request(r)
      BY <3>2 DEF Request, Types, Memory
    <3> QED
      BY <1>7, <3>1, <3>2
  <2> QED
    BY <1>0, <2>1, <2>2, <2>3, <2>4 DEF Knows
<1> QED
  BY <1>1, <1>2, <1>3, <1>4, <1>5, <1>6, <1>7 DEF AgentStep

\* What a step puts into the session file, and into the histories.
LEMMA HistoryKnown ==
  ASSUME Types, Types', Distinct, Modes, Known, [Next]_vars
  PROVE  /\ saved'.results \cup saved'.denials \subseteq used
         /\ waived' \subseteq used
         /\ \A c \in Call : started'[c] > 0 => c \in used
<1>1. ASSUME NEW r \in Run, Starts(r)
      PROVE  /\ saved'.results \cup saved'.denials = saved.results \cup saved.denials
             /\ started' = started
             /\ waived' = waived \/ \E k \in DOMAIN pending : waived' = waived \cup Calls(pending[k])
  <2>1. CASE Deny(r)
    <3>1. pending # <<>> /\ waived' = waived \cup Calls(Head(pending)) /\ saved' = saved
          /\ started' = started
      BY <2>1 DEF Deny, Enter
    <3>2. 1 \in DOMAIN pending /\ Head(pending) = pending[1]
      BY <3>1, TailFacts DEF Types
    <3> QED
      BY <3>1, <3>2
  <2>2. CASE Ask \/ ApproveNothing \/ Approve(r)
    BY <2>2 DEF Ask, ApproveNothing, Approve, Enter
  <2>3. CASE CleanUp(r)
    BY <2>3 DEF CleanUp, history
  <2>4. CASE RunDaemonApprove(r)
    BY <2>4 DEF RunDaemonApprove
  <2> QED
    BY <1>1, <2>1, <2>2, <2>3, <2>4 DEF Starts
<1>2. ASSUME NEW r \in Run, AgentStep(r)
      PROVE  /\ saved'.results \cup saved'.denials \subseteq used
             /\ waived' \subseteq used
             /\ \A c \in Call : started'[c] > 0 => c \in used
  <2>1. CASE ReplayNext(r) \/ ReplayForced(r) \/ Think(r) \/ Result(r)
    <3>1. UNCHANGED <<saved, waived, started>>
      BY <2>1 DEF ReplayNext, ReplayForced, Replay, Think, Result, history
    <3> QED
      BY <3>1 DEF Known
  <2>2. CASE Finish(r) \/ Stop(r)
    <3>1. /\ UNCHANGED <<waived, started>>
          /\ \/ saved' = memory[r]
             \/ pc[r] = "exec" /\ saved' = WithResult(memory[r], Head(todo[r]))
      BY <2>2 DEF Finish, Stop, End
    <3>2. Knows(r) /\ memory[r] \in Memory
      BY DEF Known, Types
    <3>3. ASSUME pc[r] = "exec"
          PROVE  Head(todo[r]) \in used
      BY <3>2, <3>3, HeadFacts DEF Knows
    <3>4. saved'.results \cup saved'.denials \subseteq used
      BY <3>1, <3>2, <3>3 DEF Knows, WithResult, Memory
    <3> QED
      BY <3>1, <3>4 DEF Known
  <2>3. CASE Execute(r)
    <3>1. /\ UNCHANGED <<saved, waived>> /\ pc[r] = "act" /\ Head(todo[r]) \in Call
          /\ started' = [started EXCEPT ![Head(todo[r])] = @ + 1]
      BY <2>3, ExecuteFacts
    <3>2. Head(todo[r]) \in used
      BY <3>1, HeadFacts DEF Known, Knows
    <3>3. \A c \in Call : c # Head(todo[r]) => started'[c] = started[c]
      BY <3>1 DEF Types
    <3> QED
      BY <3>1, <3>2, <3>3 DEF Known
  <2>4. CASE Request(r)
    <3>1. UNCHANGED <<saved, started>>
      BY <2>4 DEF Request
    <3>2. \A d \in waived' : d \in waived \/ \E k \in DOMAIN pending : d \in Calls(pending[k])
      BY <2>4, RequestFacts
    <3> QED
      BY <3>1, <3>2 DEF Known
  <2> QED
    BY <1>2, <2>1, <2>2, <2>3, <2>4 DEF AgentStep
<1>3. CASE UNCHANGED vars
  BY <1>3 DEF vars, Known
<1>4. ASSUME NEW r \in Run, Starts(r)
      PROVE  /\ saved'.results \cup saved'.denials \subseteq used
             /\ waived' \subseteq used
             /\ \A c \in Call : started'[c] > 0 => c \in used
  BY <1>1, <1>4 DEF Known
<1> QED
  BY <1>2, <1>3, <1>4, Steppers

LEMMA KnownStep ==
  ASSUME Types, Types', Distinct, Modes, Known, [Next]_vars
  PROVE  Known'
<1>0. used \subseteq used'
  BY UsedGrows
<1>1. \A i \in DOMAIN pending' : Calls(pending'[i]) \subseteq used'
  BY <1>0, PendingFacts, RestKnown DEF Known
<1>2. ASSUME NEW r \in Run, Starts(r) \/ AgentStep(r)
      PROVE  \A o \in Run : Knows(o)'
  <2>1. Knows(r)'
    BY <1>2, KnowsStep
  <2>2. \A o \in Run : o # r => Still(o)
    BY <1>2, StartEnd, OthersStill DEF AgentStep
  <2>3. \A o \in Run : Knows(o) /\ Still(o) => Knows(o)'
    BY <1>0 DEF Knows, Still
  <2> QED
    BY <2>1, <2>2, <2>3 DEF Known
<1>3. CASE UNCHANGED vars
  BY <1>1, <1>3 DEF vars, Known, Knows
<1>4. /\ saved'.results \cup saved'.denials \subseteq used'
      /\ waived' \subseteq used'
      /\ \A c \in Call : started'[c] > 0 => c \in used'
  BY <1>0, HistoryKnown
<1> QED
  BY <1>1, <1>2, <1>3, <1>4, Steppers DEF Known

-----------------------------------------------------------------------------
(* Type correctness                                                        *)

LEMMA QueueFacts ==
  ASSUME NEW q \in Seq(Call), Len(q) <= MaxSiblings
  PROVE  q \in Queue
<1>1. Len(q) \in Nat /\ MaxSiblings \in Nat
  BY BoundAssumption, ElementFacts
<1>2. CASE q = <<>>
  BY <1>2 DEF Queue
<1>3. CASE q # <<>>
  <2>1. Len(q) \in 1..MaxSiblings
    BY <1>1, <1>3, ElementFacts
  <2>2. q \in [1..Len(q) -> Call]
    BY LenProperties
  <2> QED
    BY <2>1, <2>2 DEF Queue
<1> QED
  BY <1>2, <1>3

LEMMA InitTypeInv ==
  ASSUME Init
  PROVE  TypeInv
<1>1. Empty \in Memory /\ "off" \in Steps /\ Empty.results = {} /\ Empty.denials = {}
  BY DEF Empty, Memory, Steps
<1>2. Types
  <2>1. pending \in Seq(Record) /\ tokens \in Seq(Call)
    BY DEF Init
  <2>2. /\ pc \in [Run -> Steps] /\ forced \in [Run -> Record \cup {None}]
        /\ todo \in [Run -> Seq(Call)] /\ queue \in [Run -> Seq(Call) \cup {None}]
    BY <1>1 DEF Init
  <2>3. /\ active \in [Run -> BOOLEAN] /\ done \in [Run -> Seq(Call)]
        /\ blocked \in [Run -> BOOLEAN] /\ memory \in [Run -> Memory]
    BY <1>1 DEF Init
  <2>4. /\ saved \in Memory /\ used \in SUBSET Call
        /\ granted \in [Call -> Nat] /\ started \in [Call -> Nat]
        /\ waived \in SUBSET Call /\ disturbed \in BOOLEAN
    BY <1>1 DEF Init
  <2> QED
    BY <2>1, <2>2, <2>3, <2>4 DEF Types
<1>3. MaxSiblings \in Nat /\ Len(<<>>) = 0 /\ DOMAIN <<>> = {} /\ ToSet(<<>>) = {}
  BY BoundAssumption DEF ToSet
<1>4. pending = <<>> /\ saved = Empty /\ waived = {} /\ \A c \in Call : started[c] = 0
  BY DEF Init
<1>5. \A r \in Run :
        /\ pc[r] = "off" /\ forced[r] = None /\ todo[r] = <<>> /\ queue[r] = None
        /\ ~active[r] /\ done[r] = <<>> /\ ~blocked[r] /\ memory[r] = Empty
  BY DEF Init
<1>6. Short
  BY <1>3, <1>4, <1>5 DEF Short, Within
<1>7. Distinct
  BY <1>3, <1>4 DEF Distinct
<1>8. Modes
  BY <1>3, <1>5 DEF Modes, Mode
<1>9. Known
  BY <1>1, <1>3, <1>4, <1>5 DEF Known, Knows
<1> QED
  BY <1>2, <1>6, <1>7, <1>8, <1>9 DEF TypeInv

LEMMA TypeInvStep ==
  ASSUME TypeInv, [Next]_vars
  PROVE  TypeInv'
<1>1. Types'
  BY TypesStep DEF TypeInv
<1>2. Distinct' /\ Modes' /\ Short' /\ Known'
  BY <1>1, DistinctStep, ModesStep, ShortStep, KnownStep DEF TypeInv
<1> QED
  BY <1>1, <1>2 DEF TypeInv

LEMMA TypeInvImpliesTypeOK ==
  ASSUME TypeInv
  PROVE  TypeOK
<1>1. Types /\ Short /\ Distinct /\ Modes /\ Known
  BY DEF TypeInv
<1>2. \A i \in DOMAIN pending : pending[i].call \in Call /\ pending[i].rest \in Queue
  <2>1. \A i \in DOMAIN pending :
          pending[i].call \in Call /\ pending[i].rest \in Seq(Call)
    BY <1>1, ElementFacts, RecordFacts DEF Types
  <2> QED
    BY <1>1, <2>1, QueueFacts DEF Short
<1>3. ToSet(tokens) \subseteq Call
  BY <1>1, ElementFacts DEF Types
<1>4. ASSUME NEW r \in Run
      PROVE  /\ todo[r] \in Queue
             /\ queue[r] = None \/ queue[r] \in Queue
             /\ done[r] \in Queue
  <2>1. Within(r) /\ todo[r] \in Seq(Call) /\ done[r] \in Seq(Call)
        /\ (queue[r] = None \/ queue[r] \in Seq(Call))
    BY <1>1 DEF Short, Types
  <2> QED
    BY <2>1, QueueFacts DEF Within
<1>5. ASSUME NEW r \in Run
      PROVE  /\ todo[r] # <<>> <=> pc[r] \in {"act", "exec"}
             /\ pc[r] = "off" => /\ forced[r] = None /\ queue[r] = None /\ done[r] = <<>>
                                 /\ ~active[r] /\ ~blocked[r] /\ memory[r] = Empty
             /\ memory[r] \in Memory
  <2>1. Mode(r) /\ memory[r] \in Memory
    BY <1>1 DEF Modes, Types
  <2> QED
    BY <2>1 DEF Mode, AgentSteps
<1>6. pc \in [Run -> Steps] /\ saved \in Memory
  BY <1>1 DEF Types
<1>7. used \subseteq Call /\ waived \subseteq used
  BY <1>1 DEF Types, Known
<1> QED
  BY <1>1, <1>2, <1>3, <1>4, <1>5, <1>6, <1>7 DEF TypeOK, Distinct

\* Whatever the runs do at once and wherever they are stopped, a call waits in one
\* request only, a run acts exactly when it has calls to act on, and an idle run
\* keeps no agent.
THEOREM TypeCorrect == Spec => []TypeOK
<1>1. Init => TypeInv
  BY InitTypeInv
<1>2. TypeInv /\ [Next]_vars => TypeInv'
  BY TypeInvStep
<1>3. TypeInv => TypeOK
  BY TypeInvImpliesTypeOK
<1> QED
  BY <1>1, <1>2, <1>3, PTL DEF Spec

-----------------------------------------------------------------------------
(* An approval is good for one execution                                   *)

LEMMA PlacesFacts ==
  ASSUME NEW s \in Seq(Call), NEW S
  PROVE  /\ IsFiniteSet(Places(s, S))
         /\ Cardinality(Places(s, S)) \in Nat
<1>1. IsFiniteSet(1..Len(s)) /\ DOMAIN s = 1..Len(s)
  BY FS_Interval, ElementFacts
<1>2. IsFiniteSet(Places(s, S))
  BY <1>1, FS_Subset DEF Places
<1> QED
  BY <1>2, FS_CardinalityType

\* What is thinned out has no more places, and fewer if one of them is lost.
LEMMA ThinsPlaces ==
  ASSUME NEW s \in Seq(Call), NEW y \in Seq(Call), NEW S, NEW f, Thins(f, y, s)
  PROVE  /\ Cardinality(Places(y, S)) <= Cardinality(Places(s, S))
         /\ \A k \in Places(s, S) :
              (\A i \in DOMAIN y : f[i] # k) =>
                Cardinality(Places(y, S)) + 1 <= Cardinality(Places(s, S))
<1> DEFINE P == Places(y, S)
           Q == Places(s, S)
           g == [i \in P |-> f[i]]
<1>1. /\ IsFiniteSet(P) /\ IsFiniteSet(Q)
      /\ Cardinality(P) \in Nat /\ Cardinality(Q) \in Nat
  BY PlacesFacts
<1>2. \A i \in P : i \in DOMAIN y /\ f[i] \in Q
  BY DEF Thins, Places
<1>3. \A i, j \in P : f[i] = f[j] => i = j
  BY <1>2 DEF Thins
<1>4. ASSUME NEW T, \A i \in P : f[i] \in T, IsFiniteSet(T)
      PROVE  Cardinality(P) <= Cardinality(T)
  <2> HIDE DEF P
  <2>1. g \in Injection(P, T)
    BY <1>3, <1>4 DEF Injection, IsInjective
  <2> HIDE DEF g
  <2> QED
    BY <1>1, <1>4, <2>1, FS_Injection
<1>5. ASSUME NEW k \in Q, \A i \in DOMAIN y : f[i] # k
      PROVE  Cardinality(P) + 1 <= Cardinality(Q)
  <2> HIDE DEF P, Q, g
  <2>1. IsFiniteSet(Q \ {k}) /\ Cardinality(Q \ {k}) = Cardinality(Q) - 1
    BY <1>1, <1>5, FS_RemoveElement
  <2>2. \A i \in P : f[i] \in Q \ {k}
    BY <1>2, <1>5
  <2>3. Cardinality(P) <= Cardinality(Q \ {k})
    BY <1>4, <2>1, <2>2
  <2> QED
    BY <1>1, <2>1, <2>3
<1> QED
  <2> HIDE DEF g
  <2> QED
    BY <1>1, <1>2, <1>4, <1>5

LEMMA AppendPlaces ==
  ASSUME NEW s \in Seq(Call), NEW x \in Call, NEW S
  PROVE  /\ x \in S => Cardinality(Places(Append(s, x), S)) <= Cardinality(Places(s, S)) + 1
         /\ x \notin S => Cardinality(Places(Append(s, x), S)) = Cardinality(Places(s, S))
<1> DEFINE y == Append(s, x)
<1>1. /\ Len(s) + 1 \in DOMAIN y /\ y[Len(s) + 1] = x
      /\ \A i \in DOMAIN s : i \in DOMAIN y /\ y[i] = s[i]
      /\ \A i \in DOMAIN y : i = Len(s) + 1 \/ (i \in DOMAIN s /\ i # Len(s) + 1)
  BY AppendFacts
<1> HIDE DEF y
<1>2. x \notin S => Places(y, S) = Places(s, S)
  BY <1>1 DEF Places
<1>3. x \in S => Places(y, S) = Places(s, S) \cup {Len(s) + 1}
  BY <1>1 DEF Places
<1>4. /\ IsFiniteSet(Places(s, S)) /\ Cardinality(Places(s, S)) \in Nat
      /\ Cardinality(Places(s, S) \cup {Len(s) + 1}) \in
           {Cardinality(Places(s, S)), Cardinality(Places(s, S)) + 1}
  BY PlacesFacts, FS_AddElement
<1>5. x \notin S => Cardinality(Places(y, S)) = Cardinality(Places(s, S))
  BY <1>2
<1>6. ASSUME x \in S
      PROVE  Cardinality(Places(y, S)) <= Cardinality(Places(s, S)) + 1
  <2>1. Cardinality(Places(y, S)) \in {Cardinality(Places(s, S)), Cardinality(Places(s, S)) + 1}
    BY <1>3, <1>4, <1>6
  <2> QED
    BY <1>4, <2>1
<1> QED
  BY <1>5, <1>6 DEF y

\* g counts one time more of c than f; and what that means for the calls in S.
Counts(f, g, c) ==
  /\ f \in [Call -> Nat] /\ c \in Call /\ g = [f EXCEPT ![c] = @ + 1]
  /\ IsFiniteSet(Times(f, Call))

OneMore(f, g, c, S) ==
  /\ Cardinality(Times(f, S)) \in Nat
  /\ c \in S => Cardinality(Times(g, S)) = Cardinality(Times(f, S)) + 1
  /\ c \notin S => Cardinality(Times(g, S)) = Cardinality(Times(f, S))

LEMMA TimesFacts ==
  ASSUME NEW f, NEW g, NEW c, Counts(f, g, c)
  PROVE  /\ IsFiniteSet(Times(g, Call))
         /\ \A S \in SUBSET Call : OneMore(f, g, c, S)
<1> DEFINE new == <<c, f[c] + 1>>
<1>0. c \in Call /\ IsFiniteSet(Times(f, Call))
  BY DEF Counts
<1>1. g[c] = f[c] + 1 /\ f[c] \in Nat /\ \A d \in Call : d # c => g[d] = f[d]
  BY DEF Counts
<1>2. 1..g[c] = 1..f[c] \cup {f[c] + 1}
  BY <1>1
<1>3. ASSUME NEW S \in SUBSET Call
      PROVE  /\ IsFiniteSet(Times(f, S)) /\ Cardinality(Times(f, S)) \in Nat
             /\ new \notin Times(f, S)
             /\ c \in S => Times(g, S) = Times(f, S) \cup {new}
             /\ c \notin S => Times(g, S) = Times(f, S)
  <2>1. Times(f, S) \subseteq Times(f, Call)
    BY DEF Times
  <2>2. IsFiniteSet(Times(f, S)) /\ Cardinality(Times(f, S)) \in Nat
    BY <1>0, <2>1, FS_Subset, FS_CardinalityType
  <2>3. new \notin Times(f, S)
    <3>1. \A d \in S : \A n \in 1..f[d] : <<d, n>> # new
      BY <1>1
    <3> QED
      BY <3>1 DEF Times
  <2>4. ASSUME c \notin S
        PROVE  Times(g, S) = Times(f, S)
    BY <1>1, <2>4 DEF Times
  <2>5. ASSUME c \in S
        PROVE  Times(g, S) = Times(f, S) \cup {new}
    <3>1. ASSUME NEW x \in Times(g, S)
          PROVE  x \in Times(f, S) \cup {new}
      <4>1. PICK d \in S : x \in {<<d, n>> : n \in 1..g[d]}
        BY <3>1 DEF Times
      <4>2. PICK n \in 1..g[d] : x = <<d, n>>
        BY <4>1
      <4>3. CASE d = c
        BY <1>2, <2>5, <4>1, <4>2, <4>3 DEF Times
      <4>4. CASE d # c
        BY <1>1, <4>1, <4>2, <4>4 DEF Times
      <4> QED
        BY <4>3, <4>4
    <3>2. ASSUME NEW x \in Times(f, S)
          PROVE  x \in Times(g, S)
      <4>1. PICK d \in S : x \in {<<d, n>> : n \in 1..f[d]}
        BY <3>2 DEF Times
      <4>2. PICK n \in 1..f[d] : x = <<d, n>>
        BY <4>1
      <4>3. n \in 1..g[d]
        BY <1>1, <1>2, <4>2
      <4> QED
        BY <4>2, <4>3 DEF Times
    <3>3. new \in Times(g, S)
      BY <1>1, <1>2, <2>5 DEF Times
    <3> QED
      BY <3>1, <3>2, <3>3
  <2> QED
    BY <2>2, <2>3, <2>4, <2>5
<1> HIDE DEF new
<1>4. IsFiniteSet(Times(g, Call))
  <2>1. Times(g, Call) = Times(f, Call) \cup {new}
    BY <1>0, <1>3
  <2>2. IsFiniteSet(Times(f, Call) \cup {new})
    BY <1>0, FS_AddElement
  <2> QED
    BY <2>1, <2>2
<1>5. ASSUME NEW S \in SUBSET Call, c \in S
      PROVE  Cardinality(Times(g, S)) = Cardinality(Times(f, S)) + 1
  <2>1. IsFiniteSet(Times(f, S)) /\ new \notin Times(f, S)
    BY <1>3
  <2>2. Cardinality(Times(f, S) \cup {new}) = Cardinality(Times(f, S)) + 1
    BY <2>1, FS_AddElement
  <2> QED
    BY <1>3, <1>5, <2>2
<1>6. \A S \in SUBSET Call : OneMore(f, g, c, S)
  BY <1>3, <1>5 DEF OneMore
<1> QED
  BY <1>4, <1>6

\* Calls are the same if they are calls of one tool with one input.
LEMMA SameFacts ==
  ASSUME NEW d \in Guarded \cap Risky, NEW c \in Same(d)
  PROVE  /\ Same(d) \subseteq Call
         /\ c \in Guarded \cap Risky
         /\ \A t \in Call : SameCall(t, c) => t \in Same(d)
BY CallAssumption DEF Same, SameCall, SameTool

\* What an approval does to the tokens of the calls in S.
LEMMA ResolveBalance ==
  ASSUME Types, Balance, pending # <<>>, ResolveApproved, started' = started
  PROVE  Balance'
<1> DEFINE c == Head(pending).call
<1>1. /\ granted \in [Call -> Nat] /\ tokens \in Seq(Call) /\ tokens' \in Seq(Call)
      /\ c \in Call /\ granted' = [granted EXCEPT ![c] = @ + 1]
      /\ \E kept \in Seq(Call) : /\ tokens' = Append(kept, c)
                                 /\ \E f : Thins(f, kept, tokens)
  BY ResolveFacts, RecordFacts DEF Types
<1> HIDE DEF c
<1>2. PICK kept \in Seq(Call) : tokens' = Append(kept, c) /\ \E f : Thins(f, kept, tokens)
  BY <1>1
<1>3. PICK f : Thins(f, kept, tokens)
  BY <1>2
<1>4. /\ IsFiniteSet(Times(granted, Call)) /\ IsFiniteSet(Times(started, Call))
  BY DEF Balance
<1>5. /\ IsFiniteSet(Times(granted', Call))
      /\ \A S \in SUBSET Call : OneMore(granted, granted', c, S)
  <2>1. Counts(granted, granted', c)
    BY <1>1, <1>4 DEF Counts
  <2> QED
    BY <2>1, TimesFacts
<1>6. ASSUME NEW d \in Guarded \cap Risky
      PROVE  Cardinality(Times(started, Same(d))) + Cardinality(Places(tokens', Same(d)))
               <= Cardinality(Times(granted', Same(d)))
  <2> DEFINE S == Same(d)
             n == Cardinality(Times(started, S))
             k == Cardinality(Places(tokens, S))
             q == Cardinality(Places(kept, S))
             l == Cardinality(Places(tokens', S))
             g == Cardinality(Times(granted, S))
             h == Cardinality(Times(granted', S))
  <2>1. S \in SUBSET Call
    BY DEF Same
  <2>2. n \in Nat
    <3>1. Times(started, S) \subseteq Times(started, Call)
      BY <2>1 DEF Times
    <3> QED
      BY <1>4, <3>1, FS_Subset, FS_CardinalityType
  <2>3. k \in Nat /\ l \in Nat /\ q \in Nat
    BY <1>1, PlacesFacts
  <2>4. q <= k
    BY <1>1, <1>3, ThinsPlaces
  <2>5. /\ c \in S => l <= q + 1
        /\ c \notin S => l = q
    BY <1>1, <1>2, AppendPlaces
  <2>6. n + k <= g /\ g \in Nat
    BY <1>5, <2>1 DEF Balance, Spare, OneMore
  <2>7. /\ c \in S => h = g + 1
        /\ c \notin S => h = g
    BY <1>5, <2>1 DEF OneMore
  <2> HIDE DEF n, k, q, l, g, h
  <2>8. n + l <= h
    BY <2>2, <2>3, <2>4, <2>5, <2>6, <2>7
  <2> QED
    BY <2>8 DEF n, l, h
<1> QED
  BY <1>4, <1>5, <1>6 DEF Balance, Spare

\* The tokens are thinned out at most.
LEMMA ThinnedBalance ==
  ASSUME Types, Types', Balance, UNCHANGED <<started, granted>>,
         NEW f, Thins(f, tokens', tokens)
  PROVE  Balance'
<1>1. tokens \in Seq(Call) /\ tokens' \in Seq(Call)
  BY DEF Types
<1>2. ASSUME NEW d \in Guarded \cap Risky
      PROVE  Cardinality(Times(started, Same(d))) + Cardinality(Places(tokens', Same(d)))
               <= Cardinality(Times(granted, Same(d)))
  <2> DEFINE S == Same(d)
             n == Cardinality(Times(started, S))
             k == Cardinality(Places(tokens, S))
             l == Cardinality(Places(tokens', S))
             g == Cardinality(Times(granted, S))
  <2>1. Same(d) \in SUBSET Call
    BY DEF Same
  <2>2. n \in Nat /\ g \in Nat
    <3>1. Times(started, S) \subseteq Times(started, Call)
      BY <2>1 DEF Times
    <3>2. Times(granted, S) \subseteq Times(granted, Call)
      BY <2>1 DEF Times
    <3>3. IsFiniteSet(Times(started, S)) /\ IsFiniteSet(Times(granted, S))
      BY <3>1, <3>2, FS_Subset DEF Balance
    <3> QED
      BY <3>3, FS_CardinalityType
  <2>3. k \in Nat /\ l \in Nat
    BY <1>1, PlacesFacts
  <2>4. l <= k
    BY <1>1, ThinsPlaces
  <2>5. n + k <= g
    BY DEF Balance, Spare
  <2> HIDE DEF n, k, l, g
  <2>6. n + l <= g
    BY <2>2, <2>3, <2>4, <2>5
  <2> QED
    BY <2>6 DEF n, l, g
<1> QED
  BY <1>2 DEF Balance, Spare

\* An execution of a call in S costs a token of a call in S.
LEMMA ExecuteBalance ==
  ASSUME Types, Types', Modes, Balance, NEW r \in Run, Execute(r)
  PROVE  Balance'
<1> DEFINE c == Head(todo[r])
<1>1. /\ c \in Call /\ (c \in Risky => Approved(c)) /\ tokens' = Consumed(c)
      /\ started' = [started EXCEPT ![c] = @ + 1] /\ granted' = granted
  BY ExecuteFacts
<1> HIDE DEF c
<1>2. tokens \in Seq(Call) /\ tokens' \in Seq(Call) /\ started \in [Call -> Nat]
  BY DEF Types
<1>3. /\ \E f : Thins(f, tokens', tokens)
      /\ Candidates(c) # {} =>
           /\ First(c) \in DOMAIN tokens
           /\ \E f : /\ Thins(f, tokens', tokens)
                     /\ \A i \in DOMAIN tokens' : f[i] # First(c)
  BY <1>1, ConsumedFacts
<1>4. /\ IsFiniteSet(Times(granted, Call)) /\ IsFiniteSet(Times(started, Call))
  BY DEF Balance
<1>5. /\ IsFiniteSet(Times(started', Call))
      /\ \A S \in SUBSET Call : OneMore(started, started', c, S)
  <2>1. Counts(started, started', c)
    BY <1>1, <1>2, <1>4 DEF Counts
  <2> QED
    BY <2>1, TimesFacts
<1>6. ASSUME NEW d \in Guarded \cap Risky
      PROVE  Cardinality(Times(started', Same(d))) + Cardinality(Places(tokens', Same(d)))
               <= Cardinality(Times(granted, Same(d)))
  <2> DEFINE S == Same(d)
             n == Cardinality(Times(started, S))
             m == Cardinality(Times(started', S))
             k == Cardinality(Places(tokens, S))
             l == Cardinality(Places(tokens', S))
             g == Cardinality(Times(granted, S))
  <2>1. S \in SUBSET Call
    BY DEF Same
  <2>2. g \in Nat
    <3>1. Times(granted, S) \subseteq Times(granted, Call)
      BY <2>1 DEF Times
    <3> QED
      BY <1>4, <3>1, FS_Subset, FS_CardinalityType
  <2>3. k \in Nat /\ l \in Nat /\ n \in Nat
    BY <1>2, <1>5, <2>1, PlacesFacts DEF OneMore
  <2>4. n + k <= g
    BY DEF Balance, Spare
  <2>5. CASE c \notin S
    <3>1. m = n
      BY <1>5, <2>1, <2>5 DEF OneMore
    <3>2. PICK f : Thins(f, tokens', tokens)
      BY <1>3
    <3>3. l <= k
      BY <1>2, <3>2, ThinsPlaces
    <3> HIDE DEF n, m, k, l, g
    <3>4. m + l <= g
      BY <2>2, <2>3, <2>4, <3>1, <3>3
    <3> QED
      BY <3>4 DEF m, l, g
  <2>6. CASE c \in S
    <3>1. m = n + 1
      BY <1>5, <2>1, <2>6 DEF OneMore
    <3>2. c \in Risky /\ \A t \in Call : SameCall(t, c) => t \in S
      BY <2>6, SameFacts
    <3>3. Candidates(c) # {} /\ SameCall(tokens[First(c)], c)
      BY <1>1, <3>2 DEF Approved
    <3>4. First(c) \in DOMAIN tokens /\ tokens[First(c)] \in Call
      BY <1>2, <1>3, <3>3, ElementFacts
    <3>5. First(c) \in Places(tokens, S)
      BY <3>2, <3>3, <3>4 DEF Places
    <3>6. PICK f : Thins(f, tokens', tokens) /\ \A i \in DOMAIN tokens' : f[i] # First(c)
      BY <1>3, <3>3
    <3>7. l + 1 <= k
      BY <1>2, <3>5, <3>6, ThinsPlaces
    <3> HIDE DEF n, m, k, l, g
    <3>8. m + l <= g
      BY <2>2, <2>3, <2>4, <3>1, <3>7
    <3> QED
      BY <3>8 DEF m, l, g
  <2> QED
    BY <2>5, <2>6
<1> QED
  BY <1>1, <1>4, <1>5, <1>6 DEF Balance, Spare

LEMMA ThinsTransitive ==
  ASSUME NEW x, NEW y, NEW z, NEW f, NEW g, Thins(f, x, y), Thins(g, y, z)
  PROVE  \E h : Thins(h, x, z)
<1> DEFINE h == [i \in DOMAIN x |-> g[f[i]]]
<1>1. /\ \A i \in DOMAIN x : f[i] \in DOMAIN y /\ g[f[i]] \in DOMAIN z
      /\ \A i \in DOMAIN x : x[i] = z[g[f[i]]]
      /\ \A i, j \in DOMAIN x : g[f[i]] = g[f[j]] => i = j
  BY DEF Thins
<1>2. Thins(h, x, z)
  BY <1>1 DEF Thins
<1> HIDE DEF h
<1> QED
  BY <1>2

LEMMA ThinsItself ==
  ASSUME NEW x
  PROVE  \E h : Thins(h, x, x)
<1> DEFINE h == [i \in DOMAIN x |-> i]
<1>1. Thins(h, x, x)
  BY DEF Thins
<1> HIDE DEF h
<1> QED
  BY <1>1

\* How the tokens and the histories of the approvals move.
LEMMA TokenMoves ==
  ASSUME Types, Distinct, Modes, [Next]_vars
  PROVE  \/ pending # <<>> /\ ResolveApproved /\ started' = started
         \/ \E r \in Run : Execute(r)
         \/ /\ UNCHANGED <<started, granted>>
            /\ \E f : Thins(f, tokens', tokens)
<1>1. tokens' = tokens => \E f : Thins(f, tokens', tokens)
  BY ThinsItself
<1>2. CASE Ask \/ ApproveNothing \/ \E r \in Run : Deny(r)
  <2>1. UNCHANGED <<tokens, started, granted>>
    BY <1>2 DEF Ask, Deny, ApproveNothing, service
  <2> QED
    BY <1>1, <2>1
<1>3. ASSUME NEW r \in Run, Approve(r) \/ RunDaemonApprove(r) \/ CleanUp(r)
      PROVE  \/ pending # <<>> /\ ResolveApproved /\ started' = started
             \/ UNCHANGED <<tokens, started, granted>>
  BY <1>3 DEF Approve, RunDaemonApprove, CleanUp, CanApprove, service, history
<1>4. ASSUME NEW r \in Run, ReplayNext(r) \/ ReplayForced(r) \/ Think(r)
      PROVE  UNCHANGED <<tokens, started, granted>>
  BY <1>4 DEF ReplayNext, ReplayForced, Replay, Think, service, history
<1>5. ASSUME NEW r \in Run, Finish(r) \/ Stop(r) \/ Result(r)
      PROVE  UNCHANGED <<tokens, started, granted>>
  BY <1>5 DEF Finish, Stop, End, Result, service, history
<1>6. ASSUME NEW r \in Run, Request(r)
      PROVE  UNCHANGED <<started, granted>> /\ \E f : Thins(f, tokens', tokens)
  <2> DEFINE left == Consumed(Head(todo[r]))
  <2>1. UNCHANGED <<started, granted>> /\ Head(todo[r]) \in Call /\ \E f : Thins(f, tokens', left)
    BY <1>6, RequestFacts
  <2>2. \E f : Thins(f, left, tokens)
    BY <2>1, ConsumedFacts
  <2> HIDE DEF left
  <2>3. PICK f : Thins(f, tokens', left)
    BY <2>1
  <2>4. PICK g : Thins(g, left, tokens)
    BY <2>2
  <2>5. \E h : Thins(h, tokens', tokens)
    BY <2>3, <2>4, ThinsTransitive
  <2> QED
    BY <2>1, <2>5
<1>7. CASE UNCHANGED vars
  BY <1>1, <1>7 DEF vars
<1> QED
  BY <1>1, <1>2, <1>3, <1>4, <1>5, <1>6, <1>7 DEF Next

LEMMA BalanceStep ==
  ASSUME Types, Types', Distinct, Modes, Balance, [Next]_vars
  PROVE  Balance'
<1>1. CASE pending # <<>> /\ ResolveApproved /\ started' = started
  BY <1>1, ResolveBalance
<1>2. CASE \E r \in Run : Execute(r)
  BY <1>2, ExecuteBalance
<1>3. CASE UNCHANGED <<started, granted>> /\ \E f : Thins(f, tokens', tokens)
  BY <1>3, ThinnedBalance
<1> QED
  BY <1>1, <1>2, <1>3, TokenMoves

LEMMA BalanceImpliesApprovedOnce ==
  ASSUME Types, Balance
  PROVE  ApprovedOnce
<1> SUFFICES ASSUME NEW c \in Guarded \cap Risky
             PROVE  Cardinality(Times(started, Same(c))) <= Cardinality(Times(granted, Same(c)))
  BY DEF ApprovedOnce
<1> DEFINE n == Cardinality(Times(started, Same(c)))
           k == Cardinality(Places(tokens, Same(c)))
           g == Cardinality(Times(granted, Same(c)))
<1>1. Times(started, Same(c)) \subseteq Times(started, Call)
  BY DEF Times, Same
<1>2. Times(granted, Same(c)) \subseteq Times(granted, Call)
  BY DEF Times, Same
<1>3. n \in Nat /\ g \in Nat
  <2>1. IsFiniteSet(Times(started, Same(c))) /\ IsFiniteSet(Times(granted, Same(c)))
    BY <1>1, <1>2, FS_Subset DEF Balance
  <2> QED
    BY <2>1, FS_CardinalityType
<1>4. k \in Nat
  BY PlacesFacts DEF Types
<1>5. n + k <= g
  BY DEF Balance, Spare
<1> HIDE DEF n, k, g
<1>6. n <= g
  BY <1>3, <1>4, <1>5
<1> QED
  BY <1>6 DEF n, g

LEMMA InitBalance ==
  ASSUME Init
  PROVE  Balance
<1>1. \A S \in SUBSET Call : Times(started, S) = {} /\ Times(granted, S) = {}
  <2>1. \A c \in Call : started[c] = 0 /\ granted[c] = 0
    BY DEF Init
  <2>2. 1..0 = {}
    OBVIOUS
  <2> QED
    BY <2>1, <2>2 DEF Times
<1>2. \A S : Spare(S) = {}
  BY DEF Init, Spare, Places
<1>3. IsFiniteSet({}) /\ Cardinality({}) = 0
  BY FS_EmptySet
<1>4. \A c : Same(c) \in SUBSET Call
  BY DEF Same
<1>5. \A c : /\ Times(started, Same(c)) = {} /\ Times(granted, Same(c)) = {}
             /\ Spare(Same(c)) = {}
  BY <1>1, <1>2, <1>4
<1>6. IsFiniteSet(Times(started, Call)) /\ IsFiniteSet(Times(granted, Call))
  BY <1>1, <1>3
<1>7. \A c : Cardinality(Times(started, Same(c))) + Cardinality(Spare(Same(c)))
               <= Cardinality(Times(granted, Same(c)))
  BY <1>3, <1>5
<1> QED
  BY <1>6, <1>7 DEF Balance

\* Whatever the runs do at once and wherever they are stopped, an approval is good
\* for one execution: consume_approval finds a token of the call, or of one with
\* the same input, and takes it, and nothing but an approval adds one.
THEOREM ApprovedOnceAlways == Spec => []ApprovedOnce
<1>1. Init => TypeInv /\ Balance
  BY InitTypeInv, InitBalance
<1>2. TypeInv /\ Balance /\ [Next]_vars => (TypeInv /\ Balance)'
  <2> SUFFICES ASSUME TypeInv, Balance, [Next]_vars
               PROVE  TypeInv' /\ Balance'
    OBVIOUS
  <2>1. TypeInv'
    BY TypeInvStep
  <2>2. Types /\ Types' /\ Distinct /\ Modes
    BY <2>1 DEF TypeInv
  <2> QED
    BY <2>1, <2>2, BalanceStep
<1>3. TypeInv /\ Balance => ApprovedOnce
  BY BalanceImpliesApprovedOnce DEF TypeInv
<1> QED
  BY <1>1, <1>2, <1>3, PTL DEF Spec

-----------------------------------------------------------------------------
(* Runs that follow one another                                            *)

\* The run that is under way is alone.
LEMMA AloneFacts ==
  ASSUME Types, Modes, Solo, NEW r \in Run, pc[r] # "off"
  PROVE  /\ \A o \in Run : o # r =>
              /\ pc[o] = "off" /\ forced[o] = None /\ todo[o] = <<>> /\ queue[o] = None
              /\ done[o] = <<>> /\ ~active[o] /\ memory[o] = Empty
         /\ Answered = memory[r].results
         /\ \A c : Held(c) => \/ forced[r] # None /\ forced[r].call = c
                              \/ active[r] /\ pc[r] = "act" /\ Head(todo[r]) = c
<1>1. ASSUME NEW o \in Run, o # r
      PROVE  /\ pc[o] = "off" /\ forced[o] = None /\ todo[o] = <<>> /\ queue[o] = None
             /\ done[o] = <<>> /\ ~active[o] /\ memory[o] = Empty
  <2>1. pc[o] = "off" /\ Mode(o)
    BY <1>1 DEF Solo, Modes
  <2> QED
    BY <2>1 DEF Mode, AgentSteps
<1>2. Answered = memory[r].results
  <2>1. Empty.results = {} /\ saved.results \subseteq memory[r].results
    BY DEF Empty, Solo
  <2> QED
    BY <1>1, <2>1 DEF Answered
<1>3. \A c : Held(c) => \/ forced[r] # None /\ forced[r].call = c
                        \/ active[r] /\ pc[r] = "act" /\ Head(todo[r]) = c
  BY <1>1 DEF Held
<1> QED
  BY <1>1, <1>2, <1>3

LEMMA IdleFacts ==
  ASSUME Types, Modes, \A r \in Run : pc[r] = "off"
  PROVE  Answered = saved.results /\ \A c : ~Held(c)
<1>1. ASSUME NEW r \in Run
      PROVE  forced[r] = None /\ ~active[r] /\ memory[r] = Empty
  <2>1. pc[r] = "off" /\ Mode(r)
    BY DEF Modes
  <2> QED
    BY <2>1 DEF Mode, AgentSteps
<1>2. Empty.results = {}
  BY DEF Empty
<1> QED
  BY <1>1, <1>2 DEF Answered, Held

\* A run starts when no other is under way.
LEMMA EnterAlone ==
  ASSUME Types, Modes, ~disturbed', NEW r \in Run, NEW step, NEW call, Enter(r, step, call)
  PROVE  /\ \A o \in Run : pc[o] = "off"
         /\ \A o \in Run : o # r => pc'[o] = "off"
<1>1. \A o \in Run \ {r} : pc[o] = "off"
  BY EnterFacts
<1>2. pc[r] = "off"
  BY EnterFacts
<1>3. \A o \in Run : o # r => pc'[o] = "off"
  BY <1>1, EnterFacts DEF Still
<1> QED
  BY <1>1, <1>2, <1>3

\* What a step leaves undisturbed was undisturbed before.
LEMMA Undisturbed ==
  ASSUME Types, Modes, [Next]_vars, ~disturbed'
  PROVE  ~disturbed
<1>1. ASSUME NEW r \in Run, NEW step, NEW call, Enter(r, step, call)
      PROVE  ~disturbed
  BY <1>1 DEF Enter
<1>2. CASE Ask \/ ApproveNothing
  BY <1>1, <1>2 DEF Ask, ApproveNothing, Run
<1>3. ASSUME NEW r \in Run, Deny(r) \/ Approve(r) \/ RunDaemonApprove(r) \/ CleanUp(r)
      PROVE  ~disturbed
  BY <1>1, <1>3, LeaveFacts DEF Deny, Approve
<1>4. ASSUME NEW r \in Run, AgentStep(r)
      PROVE  ~disturbed
  BY <1>4 DEF AgentStep, ReplayNext, ReplayForced, Replay, Think, Finish, Stop, Execute, Result,
              Request, history
<1>5. CASE UNCHANGED vars
  BY <1>5 DEF vars
<1> QED
  BY <1>2, <1>3, <1>4, <1>5 DEF Next, AgentStep

\* An agent does not stop of itself, and its memory keeps its results.
LEMMA AgentFacts ==
  ASSUME Types, Types', Distinct, Modes, ~disturbed', NEW r \in Run, AgentStep(r)
  PROVE  /\ pc[r] \in AgentSteps /\ pc[r] # "off"
         /\ \/ pc'[r] \in AgentSteps /\ saved' = saved
               /\ memory[r].results \subseteq memory'[r].results
            \/ /\ pc[r] = "reason" /\ forced[r] = None /\ Finish(r)
               /\ pc'[r] = "off" /\ saved' = memory[r]
<1>1. CASE ReplayNext(r) \/ ReplayForced(r)
  BY <1>1 DEF ReplayNext, ReplayForced, Replay, Replayed, Says, AgentSteps, Types
<1>2. CASE Think(r)
  <2>1. pc[r] = "reason" /\ pc' = [pc EXCEPT ![r] = "act"] /\ UNCHANGED <<memory, saved>>
    BY <1>2, ThinkFacts
  <2> QED
    BY <2>1 DEF AgentSteps, Types
<1>3. CASE Finish(r)
  BY <1>3 DEF Finish, Replayed, End, AgentSteps, Types
<1>4. CASE Stop(r)
  BY <1>4 DEF Stop
<1>5. CASE Execute(r)
  <2>1. /\ pc[r] = "act" /\ pc' = [pc EXCEPT ![r] = "exec"]
        /\ memory'[r].results = memory[r].results /\ saved' = saved
    BY <1>5, ExecuteFacts
  <2> QED
    BY <2>1 DEF AgentSteps, Types
<1>6. CASE Result(r)
  <2>1. /\ pc[r] = "exec" /\ saved' = saved
        /\ pc' = [pc EXCEPT ![r] = IF Len(todo[r]) = 1 THEN "reason" ELSE "act"]
        /\ memory[r].results \subseteq memory'[r].results
    BY <1>6, ResultFacts
  <2> QED
    BY <2>1 DEF AgentSteps, Types
<1>7. CASE Request(r)
  <2>1. /\ pc[r] = "act" /\ saved' = saved
        /\ pc' = [pc EXCEPT ![r] = IF Len(todo[r]) = 1 THEN "reason" ELSE "act"]
        /\ memory' = [memory EXCEPT ![r].denials = @ \cup {Head(todo[r])}]
    BY <1>7 DEF Request, Acted
  <2>2. memory'[r].results = memory[r].results
    BY <2>1 DEF Types, Memory
  <2> QED
    BY <2>1, <2>2 DEF AgentSteps, Types
<1> QED
  BY <1>1, <1>2, <1>3, <1>4, <1>5, <1>6, <1>7 DEF AgentStep

LEMMA SoloStep ==
  ASSUME Types, Types', Distinct, Modes, Solo, ~disturbed', [Next]_vars
  PROVE  Solo'
<1>1. ASSUME NEW r \in Run, NEW step \in Steps, NEW call, Enter(r, step, call),
             step = "command" => pending' = <<>>
      PROVE  Solo'
  <2>1. /\ \A o \in Run : o # r => pc'[o] = "off"
        /\ pc'[r] = step /\ memory'[r] = saved /\ saved' = saved
    BY <1>1, EnterAlone, EnterFacts
  <2> QED
    BY <1>1, <2>1 DEF Solo
<1>2. CASE Ask
  BY <1>1, <1>2 DEF Ask, Run, Steps
<1>3. ASSUME NEW r \in Run, Deny(r)
      PROVE  Solo'
  BY <1>1, <1>3 DEF Deny, Steps
<1>4. CASE ApproveNothing
  BY <1>1, <1>4 DEF ApproveNothing, Run, Steps, service
<1>5. ASSUME NEW r \in Run, Approve(r)
      PROVE  Solo'
  BY <1>1, <1>5 DEF Approve, Steps
<1>6. ASSUME NEW r \in Run, CleanUp(r) \/ RunDaemonApprove(r)
      PROVE  Solo'
  <2>1. pc[r] # "off" /\ pc'[r] = "off" /\ \A o \in Run : o # r => Still(o)
    BY <1>6, LeaveFacts
  <2>2. \A o \in Run : pc'[o] = "off"
    BY <2>1, AloneFacts DEF Still
  <2> QED
    BY <2>2 DEF Solo
<1>7. ASSUME NEW r \in Run, AgentStep(r)
      PROVE  Solo'
  <2>1. /\ pc[r] # "off"
        /\ \/ pc'[r] \in AgentSteps /\ saved' = saved
              /\ memory[r].results \subseteq memory'[r].results
           \/ pc'[r] = "off"
    BY <1>7, AgentFacts
  <2>2. \A o \in Run : o # r => pc'[o] = "off"
    BY <1>7, <2>1, AloneFacts, OthersStill DEF Still, AgentStep
  <2>3. saved.results \subseteq memory[r].results
    BY <2>1 DEF Solo
  <2> QED
    BY <2>1, <2>2, <2>3 DEF Solo, AgentSteps
<1>8. CASE UNCHANGED vars
  BY <1>8 DEF vars, Solo
<1> QED
  BY <1>2, <1>3, <1>4, <1>5, <1>6, <1>7, <1>8 DEF Next, AgentStep

-----------------------------------------------------------------------------
(* Once: no call is executed twice                                         *)

\* The tokens of the guarded scope are those of the call that is held.
LEMMA TokenHeld ==
  ASSUME Types, Modes, Solo, OneToken, NEW r \in Run, pc[r] # "off",
         NEW i \in DOMAIN tokens, tokens[i] \in Guarded
  PROVE  \/ forced[r] # None /\ forced[r].call = tokens[i]
         \/ active[r] /\ pc[r] = "act" /\ Head(todo[r]) = tokens[i]
<1>1. Held(tokens[i])
  BY DEF OneToken
<1> QED
  BY <1>1, AloneFacts

LEMMA NoTokenIdle ==
  ASSUME Types, Modes, OneToken, \A r \in Run : pc[r] = "off"
  PROVE  \A i \in DOMAIN tokens : tokens[i] \notin Guarded
BY IdleFacts DEF OneToken

\* A risky call that is executed is the one that is held: it is in no request.
LEMMA ExecuteUnasked ==
  ASSUME Types, Modes, Solo, Once, OneToken, NEW r \in Run, Execute(r)
  PROVE  Head(todo[r]) \notin Asked
<1> DEFINE c == Head(todo[r])
<1>1. pc[r] = "act" /\ c \in Call /\ (c \in Risky => Approved(c))
  BY ExecuteFacts
<1>2. CASE c \notin Risky
  BY <1>2 DEF Once, Asked
<1>3. CASE c \in Risky
  <2>1. Candidates(c) # {}
    BY <1>1, <1>3 DEF Approved
  <2>2. PICK i \in DOMAIN tokens : c \in Guarded /\ SameTool(tokens[i], c)
    BY <2>1 DEF Candidates
  <2>3. tokens[i] \in Guarded
    BY <2>2 DEF SameTool
  <2>4. forced[r] = None
    BY <1>1 DEF Modes, Mode
  <2>5. tokens[i] = c
    BY <1>1, <2>3, <2>4, TokenHeld
  <2> QED
    BY <2>3, <2>5 DEF OneToken
<1> QED
  BY <1>2, <1>3

\* What Once says of a run.
OnceRun(r) ==
  /\ forced[r] # None => started[forced[r].call] = 0
  /\ IsInjective(todo[r])
  /\ \A k \in DOMAIN todo[r] : pc[r] = "act" \/ k > 1 => started[todo[r][k]] = 0

\* And of the histories.
OnceDone ==
  /\ \A c \in Call : started[c] <= 1
  /\ \A c \in Call :
       started[c] > 0 =>
         c \in Answered \/ \E r \in Run : pc[r] = "exec" /\ c = Head(todo[r])

OncePending == \A i \in DOMAIN pending :
  started[pending[i].call] = 0 /\ pending[i].call \in Risky

LEMMA OnceParts ==
  Once <=> OnceDone /\ OncePending /\ \A r \in Run : OnceRun(r)
BY DEF Once, OnceDone, OncePending, OnceRun

LEMMA EmptyOnce ==
  ASSUME NEW r \in Run, todo'[r] = <<>>,
         forced'[r] # None => started'[forced'[r].call] = 0
  PROVE  OnceRun(r)'
BY DEF OnceRun, IsInjective

LEMMA StillOnce ==
  ASSUME NEW o \in Run, OnceRun(o), Still(o), started' = started
  PROVE  OnceRun(o)'
BY DEF OnceRun, Still

\* Such a run has the answers of the session.
LEMMA StartsAnswers ==
  ASSUME Types, Modes, Solo, ~disturbed', NEW r \in Run, Starts(r)
  PROVE  Answered \subseteq Answered' /\ \A o \in Run : pc[o] # "exec"
<1>1. ASSUME NEW step, NEW call, Enter(r, step, call)
      PROVE  Answered \subseteq Answered' /\ \A o \in Run : pc[o] # "exec"
  <2>1. saved' = saved /\ \A o \in Run : pc[o] = "off"
    BY <1>1, EnterFacts, EnterAlone
  <2>2. Answered = saved.results
    BY <2>1, IdleFacts
  <2> QED
    BY <2>1, <2>2 DEF Answered
<1>2. CASE CleanUp(r) \/ RunDaemonApprove(r)
  <2>1. pc[r] \in {"cleanup", "command"} /\ pc[r] # "off"
    BY <1>2, LeaveFacts
  <2>2. Answered = memory[r].results /\ \A o \in Run : o # r => pc[o] = "off"
    BY <2>1, AloneFacts
  <2>3. memory[r] = saved
    BY <2>1 DEF Solo
  <2>4. saved.results \subseteq saved'.results
    BY <1>2 DEF CleanUp, RunDaemonApprove
  <2>5. Answered \subseteq Answered'
    BY <2>2, <2>3, <2>4 DEF Answered
  <2> QED
    BY <2>1, <2>2, <2>5
<1>3. CASE (Ask /\ r = "chat") \/ Deny(r)
  BY <1>1, <1>3 DEF Ask, Deny
<1>4. CASE ApproveNothing /\ r = "command"
  BY <1>1, <1>4 DEF ApproveNothing
<1>5. CASE Approve(r)
  BY <1>1, <1>5 DEF Approve
<1> QED
  BY <1>2, <1>3, <1>4, <1>5 DEF Starts

\* A run that starts or ends without an agent.
LEMMA OnceStarts ==
  ASSUME Types, Types', Distinct, Modes, Solo, Once, ~disturbed', [Next]_vars,
         NEW r \in Run, Starts(r)
  PROVE  Once'
<1>1. /\ forced'[r] # None => pending # <<>> /\ forced'[r] = Head(pending)
      /\ todo'[r] = <<>> /\ started' = started
      /\ \A o \in Run : o # r => Still(o)
  BY StartEnd
<1>2. forced'[r] # None => started'[forced'[r].call] = 0
  <2> SUFFICES ASSUME forced'[r] # None
               PROVE  started'[forced'[r].call] = 0
    OBVIOUS
  <2>1. pending # <<>> /\ forced'[r] = Head(pending)
    BY <1>1
  <2>2. 1 \in DOMAIN pending /\ Head(pending) = pending[1]
    BY <2>1, TailFacts DEF Types
  <2> QED
    BY <1>1, <2>1, <2>2 DEF Once
<1>3. \A o \in Run : OnceRun(o)'
  BY <1>1, <1>2, EmptyOnce, StillOnce, OnceParts
<1>4. OncePending'
  <2>1. \A i \in DOMAIN pending' : \E k \in DOMAIN pending : pending'[i] = pending[k]
    <3>1. CASE pending' = pending
      BY <3>1
    <3>2. CASE pending # <<>> /\ pending' = Tail(pending)
      <4>1. \A i \in DOMAIN Tail(pending) :
              i + 1 \in DOMAIN pending /\ Tail(pending)[i] = pending[i + 1]
        BY <3>2, TailFacts DEF Types
      <4> QED
        BY <3>2, <4>1
    <3>3. pending' = pending \/ (pending # <<>> /\ pending' = Tail(pending))
      BY DEF Starts, Ask, Deny, ApproveNothing, Approve, RunDaemonApprove, CleanUp, CanApprove,
             ResolveApproved, service
    <3> QED
      BY <3>1, <3>2, <3>3
  <2> QED
    BY <1>1, <2>1 DEF Once, OncePending
<1>5. Answered \subseteq Answered' /\ \A o \in Run : pc[o] # "exec"
  BY StartsAnswers
<1>6. OnceDone'
  BY <1>1, <1>5 DEF Once, OnceDone
<1>7. Once' <=> OnceDone' /\ OncePending' /\ \A o \in Run : OnceRun(o)'
  BY DEF Once, OnceDone, OncePending, OnceRun
<1> QED
  BY <1>3, <1>4, <1>6, <1>7

\* A step of an agent that does not touch the requests.
LEMMA OnceAgent ==
  ASSUME Types, Types', Distinct, Modes, Known, Solo, Once, ~disturbed', NEW r \in Run,
         ReplayNext(r) \/ ReplayForced(r) \/ Think(r) \/ Finish(r)
  PROVE  Once'
<1>1. pc[r] = "reason" /\ started' = started /\ pending' = pending
  BY DEF ReplayNext, ReplayForced, Replay, Replayed, Says, Think, Finish, End, history, service
<1>2. \A o \in Run : o # r => Still(o)
  BY OthersStill
<1>3. Answered = memory[r].results /\ \A o \in Run : o # r => pc[o] = "off"
  BY <1>1, AloneFacts
<1>4. Answered \subseteq Answered'
  <2>1. \/ saved' = saved /\ memory[r].results \subseteq memory'[r].results
        \/ saved' = memory[r]
    BY AgentFacts DEF AgentStep
  <2> QED
    BY <1>3, <2>1 DEF Answered
<1>5. \A c \in Call : c \notin Answered => started[c] = 0
  <2>1. \A c \in Call : started[c] > 0 => c \in Answered
    BY <1>1, <1>3 DEF Once
  <2> QED
    BY <2>1 DEF Types
<1>6. OnceRun(r)'
  <2>1. CASE ReplayNext(r)
    <3>1. PICK left \in Seq(Call) : Continues(r, left)
      BY <2>1, ReplayNextFacts
    <3>2. Head(left) \in Call /\ Tail(left) \in Seq(Call) /\ Replays(r, Head(left), Tail(left))
      BY <3>1 DEF Continues
    <3>3. todo'[r] = <<Head(left)>> /\ forced'[r] = None
      <4>1. forced[r] = None
        BY <3>1, LeftFacts DEF Modes, Mode
      <4> QED
        BY <2>1, <3>2, <4>1, ReplayNextFacts, ReplaysFacts
    <3>4. started[Head(left)] = 0
      BY <1>3, <1>5, <3>1, <3>2, LeftFacts
    <3> QED
      BY <1>1, <3>3, <3>4 DEF OnceRun, IsInjective
  <2>2. CASE ReplayForced(r)
    <3>1. /\ forced[r] # None /\ forced'[r] = None
          /\ forced[r].call \in Call /\ forced[r].rest \in Seq(Call)
          /\ Replays(r, forced[r].call, forced[r].rest)
      BY <2>2, ReplayForcedFacts, RecordFacts DEF Types
    <3>2. todo'[r] = <<forced[r].call>> /\ started[forced[r].call] = 0
      BY <3>1, ReplaysFacts DEF Once
    <3> QED
      BY <1>1, <3>1, <3>2 DEF OnceRun, IsInjective
  <2>3. CASE Think(r)
    <3>1. PICK m \in Messages : Speaks(r, m)
      BY <2>3, ThinkFacts
    <3>2. todo'[r] = m /\ forced'[r] = None
      BY <2>3, <3>1, ThinkFacts DEF Speaks, Types
    <3>3. ToSet(m) \subseteq Call \ used /\ IsInjective(m) /\ m \in Seq(Call)
      BY MessageFacts
    <3>4. \A k \in DOMAIN m : m[k] \in Call \ used
      BY <3>3, ElementFacts
    <3>5. \A k \in DOMAIN m : started[m[k]] = 0
      BY <3>4 DEF Known, Types
    <3> QED
      BY <1>1, <3>2, <3>3, <3>5 DEF OnceRun
  <2>4. CASE Finish(r)
    <3>1. todo'[r] = <<>> /\ forced'[r] = None
      BY <2>4, EndFacts DEF Finish
    <3> QED
      BY <3>1, EmptyOnce
  <2> QED
    BY <2>1, <2>2, <2>3, <2>4
<1>7. \A o \in Run : OnceRun(o)'
  BY <1>1, <1>2, <1>6, StillOnce, OnceParts
<1>8. OncePending'
  BY <1>1 DEF Once, OncePending
<1>9. OnceDone'
  BY <1>1, <1>3, <1>4 DEF Once, OnceDone
<1>10. Once' <=> OnceDone' /\ OncePending' /\ \A o \in Run : OnceRun(o)'
  BY DEF Once, OnceDone, OncePending, OnceRun
<1> QED
  BY <1>7, <1>8, <1>9, <1>10

\* The calls behind the head of an injective sequence.
LEMMA InjectiveTail ==
  ASSUME NEW s \in Seq(Call), s # <<>>, IsInjective(s)
  PROVE  /\ IsInjective(Tail(s))
         /\ \A k \in DOMAIN s : k > 1 => s[k] # Head(s)
<1>1. /\ Head(s) = s[1] /\ 1 \in DOMAIN s
      /\ \A i \in DOMAIN Tail(s) : /\ i \in Nat /\ i + 1 \in DOMAIN s /\ i + 1 # 1
                                   /\ Tail(s)[i] = s[i + 1]
  BY TailFacts
<1>2. \A k \in DOMAIN s : k > 1 => s[k] # Head(s)
  BY <1>1, ElementFacts DEF IsInjective
<1>3. ASSUME NEW i \in DOMAIN Tail(s), NEW j \in DOMAIN Tail(s), Tail(s)[i] = Tail(s)[j]
      PROVE  i = j
  <2>1. i + 1 = j + 1
    BY <1>1, <1>3 DEF IsInjective
  <2> QED
    BY <1>1, <2>1
<1> QED
  BY <1>2, <1>3 DEF IsInjective

LEMMA OnceExecute ==
  ASSUME Types, Types', Distinct, Modes, Solo, Once, OneToken, ~disturbed', NEW r \in Run,
         Execute(r)
  PROVE  Once'
<1> DEFINE c == Head(todo[r])
<1>1. /\ pc[r] = "act" /\ c \in Call
      /\ started' = [started EXCEPT ![c] = @ + 1]
      /\ pc' = [pc EXCEPT ![r] = "exec"]
      /\ UNCHANGED <<pending, forced, todo, saved>>
  BY ExecuteFacts
<1>2. /\ todo[r] \in Seq(Call) /\ todo[r] # <<>> /\ c = todo[r][1] /\ 1 \in DOMAIN todo[r]
  BY <1>1, HeadFacts
<1>3. IsInjective(todo[r]) /\ \A k \in DOMAIN todo[r] : started[todo[r][k]] = 0
  BY <1>1 DEF Once
<1>4. /\ started[c] = 0 /\ started'[c] = 1
      /\ \A d \in Call : d # c => started'[d] = started[d]
  BY <1>1, <1>2, <1>3 DEF Types
<1>5. pc'[r] = "exec" /\ Answered = memory[r].results
      /\ \A o \in Run : o # r => forced[o] = None /\ todo[o] = <<>>
  BY <1>1, AloneFacts DEF Types
<1>6. Answered \subseteq Answered'
  <2>1. memory'[r].results = memory[r].results
    BY ExecuteFacts
  <2> QED
    BY <1>5, <2>1 DEF Answered
<1>7. c \notin Asked
  BY ExecuteUnasked
<1> HIDE DEF c
<1>8. forced[r] = None
  BY <1>1 DEF Modes, Mode
<1>9. \A o \in Run : OnceRun(o)'
  <2>1. OnceRun(r)'
    <3>1. \A k \in DOMAIN todo[r] : k > 1 => todo[r][k] # c /\ todo[r][k] \in Call
      BY <1>2, <1>3, InjectiveTail, ElementFacts DEF c
    <3>2. \A k \in DOMAIN todo[r] : k > 1 => started'[todo[r][k]] = 0
      BY <1>3, <1>4, <3>1
    <3> QED
      BY <1>1, <1>3, <1>5, <1>8, <3>2 DEF OnceRun
  <2>2. \A o \in Run : o # r => OnceRun(o)'
    BY <1>1, <1>5 DEF OnceRun, IsInjective
  <2> QED
    BY <2>1, <2>2
<1>10. OncePending'
  <2>1. \A i \in DOMAIN pending : pending[i].call # c /\ pending[i].call \in Call
    BY <1>7, ElementFacts, RecordFacts DEF Asked, Types
  <2> QED
    BY <1>1, <1>4, <2>1 DEF Once, OncePending
<1>11. OnceDone'
  <2>1. \A d \in Call : started'[d] <= 1
    BY <1>4 DEF Once
  <2>2. ASSUME NEW d \in Call, started'[d] > 0
        PROVE  d \in Answered' \/ \E o \in Run : pc'[o] = "exec" /\ d = Head(todo'[o])
    <3>1. CASE d = c
      BY <1>1, <1>5, <3>1 DEF c
    <3>2. CASE d # c
      <4>1. started[d] > 0
        BY <1>4, <2>2, <3>2
      <4>2. \A o \in Run : pc[o] # "exec"
        BY <1>1, AloneFacts
      <4> QED
        BY <1>6, <4>1, <4>2 DEF Once
    <3> QED
      BY <3>1, <3>2
  <2> QED
    BY <2>1, <2>2 DEF OnceDone
<1>12. Once' <=> OnceDone' /\ OncePending' /\ \A o \in Run : OnceRun(o)'
  BY DEF Once, OnceDone, OncePending, OnceRun
<1> QED
  BY <1>9, <1>10, <1>11, <1>12

\* The rest of a message, when its head has a result or is asked about.
LEMMA OnceRest ==
  ASSUME Types, Modes, Once, NEW r \in Run, pc[r] \in {"act", "exec"},
         forced'[r] = None, todo'[r] = Tail(todo[r]), started' = started
  PROVE  OnceRun(r)'
<1>1. todo[r] \in Seq(Call) /\ todo[r] # <<>>
  BY HeadFacts
<1>2. IsInjective(todo[r]) /\ IsInjective(Tail(todo[r]))
  BY <1>1, InjectiveTail DEF Once
<1>3. \A i \in DOMAIN Tail(todo[r]) :
        /\ i \in Nat \ {0} /\ i + 1 \in DOMAIN todo[r] /\ i + 1 > 1
        /\ Tail(todo[r])[i] = todo[r][i + 1]
  BY <1>1, TailFacts, ElementFacts
<1>4. \A i \in DOMAIN Tail(todo[r]) : started[Tail(todo[r])[i]] = 0
  BY <1>3 DEF Once
<1> QED
  BY <1>2, <1>4 DEF OnceRun

LEMMA OnceResult ==
  ASSUME Types, Types', Distinct, Modes, Solo, Once, ~disturbed', NEW r \in Run, Result(r)
  PROVE  Once'
<1>1. /\ pc[r] = "exec" /\ UNCHANGED <<pending, forced, saved, started>>
      /\ memory'[r].results = memory[r].results \cup {Head(todo[r])}
      /\ todo' = [todo EXCEPT ![r] = Tail(@)]
  BY ResultFacts
<1>2. \A o \in Run : o # r => Still(o)
  BY OthersStill
<1>3. Answered = memory[r].results /\ \A o \in Run : o # r => pc[o] = "off"
  BY <1>1, AloneFacts
<1>4. Answered \cup {Head(todo[r])} \subseteq Answered'
  BY <1>1, <1>3 DEF Answered
<1>5. forced'[r] = None /\ todo'[r] = Tail(todo[r])
  BY <1>1 DEF Modes, Mode, Types
<1>6. \A o \in Run : OnceRun(o)'
  BY <1>1, <1>2, <1>5, OnceRest, StillOnce, OnceParts
<1>7. OncePending'
  BY <1>1 DEF Once, OncePending
<1>8. OnceDone'
  BY <1>1, <1>3, <1>4 DEF Once, OnceDone
<1>9. Once' <=> OnceDone' /\ OncePending' /\ \A o \in Run : OnceRun(o)'
  BY DEF Once, OnceDone, OncePending, OnceRun
<1> QED
  BY <1>6, <1>7, <1>8, <1>9

LEMMA OnceRequest ==
  ASSUME Types, Types', Distinct, Modes, Solo, Once, ~disturbed', [Next]_vars, NEW r \in Run,
         Request(r)
  PROVE  Once'
<1>1. /\ pc[r] = "act" /\ UNCHANGED <<forced, saved, started>>
      /\ Head(todo[r]) \in Risky
      /\ memory' = [memory EXCEPT ![r].denials = @ \cup {Head(todo[r])}]
      /\ todo' = [todo EXCEPT ![r] = Tail(@)]
  BY DEF Request, Acted
<1>2. \A o \in Run : o # r => Still(o)
  BY OthersStill
<1>3. Answered = memory[r].results /\ \A o \in Run : o # r => pc[o] = "off"
  BY <1>1, AloneFacts
<1>4. Answered \subseteq Answered'
  <2>1. memory'[r].results = memory[r].results
    BY <1>1 DEF Types, Memory
  <2> QED
    BY <1>3, <2>1 DEF Answered
<1>5. forced'[r] = None /\ todo'[r] = Tail(todo[r])
  BY <1>1 DEF Modes, Mode, Types
<1>6. \A o \in Run : OnceRun(o)'
  BY <1>1, <1>2, <1>5, OnceRest, StillOnce, OnceParts
<1>7. OncePending'
  <2>1. started[Head(todo[r])] = 0
    BY <1>1, HeadFacts DEF Once
  <2>2. \A o \in Run : Request(o) => o = r
    BY <1>3 DEF Request
  <2>3. \A i \in DOMAIN pending' :
          \/ \E k \in DOMAIN pending : pending'[i] = pending[k]
          \/ pending'[i] = Wanted(r)
    BY <2>2, PendingFacts
  <2> QED
    BY <1>1, <2>1, <2>3, WantedFacts DEF Once, OncePending
<1>8. OnceDone'
  BY <1>1, <1>3, <1>4 DEF Once, OnceDone
<1>9. Once' <=> OnceDone' /\ OncePending' /\ \A o \in Run : OnceRun(o)'
  BY DEF Once, OnceDone, OncePending, OnceRun
<1> QED
  BY <1>6, <1>7, <1>8, <1>9

LEMMA OnceStep ==
  ASSUME Types, Types', Distinct, Modes, Known, Solo, Once, OneToken, ~disturbed', [Next]_vars
  PROVE  Once'
<1>1. ASSUME NEW r \in Run, AgentStep(r)
      PROVE  Once'
  <2>1. ~Stop(r)
    BY DEF Stop
  <2> QED
    BY <1>1, <2>1, OnceAgent, OnceExecute, OnceResult, OnceRequest DEF AgentStep
<1>2. CASE UNCHANGED vars
  BY <1>2 DEF vars, Once, Answered
<1> QED
  BY <1>1, <1>2, OnceStarts, Steppers

\* Where no token is of the guarded scope.
NoToken == \A i \in DOMAIN tokens : tokens[i] \notin Guarded

LEMMA NoTokenStep ==
  ASSUME Types, Modes, Types', OneToken, NoToken, granted' = granted,
         \A c \in Call : started[c] > 0 => started'[c] > 0,
         NEW f, Thins(f, tokens', tokens)
  PROVE  OneToken'
<1>1. \A i \in DOMAIN tokens' : tokens'[i] \notin Guarded
  BY DEF NoToken, Thins
<1>2. \A c \in ToSet(tokens) : c \notin Guarded
  BY DEF NoToken, ToSet
<1>3. \A c \in Guarded : granted'[c] > 0 => started'[c] > 0
  BY <1>2, CallAssumption DEF OneToken
<1> QED
  BY <1>1, <1>3 DEF OneToken

\* The request that is approved becomes the one token of the guarded scope.
LEMMA OneTokenApprove ==
  ASSUME Types, Types', Distinct, Modes, Once, OneToken, ~disturbed', NEW r \in Run, Approve(r)
  PROVE  OneToken'
<1>0. PICK c : c = Head(pending).call
  OBVIOUS
<1>1. pending # <<>> /\ ResolveApproved /\ Enter(r, "reason", Head(pending)) /\ started' = started
  BY DEF Approve, CanApprove
<1>2. \A o \in Run : pc[o] = "off"
  BY <1>1, EnterAlone
<1>3. NoToken
  BY <1>2, NoTokenIdle DEF NoToken
<1>4. /\ Head(pending) \in Record /\ Head(pending) = pending[1] /\ 1 \in DOMAIN pending
      /\ \A i \in DOMAIN pending' :
           i \in Nat /\ i + 1 \in DOMAIN pending /\ i + 1 # 1 /\ pending'[i] = pending[i + 1]
      /\ \E kept \in Seq(Call) : tokens' = Append(kept, c) /\ \E f : Thins(f, kept, tokens)
      /\ granted' = [granted EXCEPT ![c] = @ + 1]
  BY <1>0, <1>1, ResolveFacts
<1>5. c \in Call /\ c \in Risky /\ Head(pending) # None
  BY <1>0, <1>4, RecordFacts DEF Once
<1>6. PICK kept \in Seq(Call) : tokens' = Append(kept, c) /\ \E f : Thins(f, kept, tokens)
  BY <1>4
<1>7. PICK f : Thins(f, kept, tokens)
  BY <1>6
<1>8. \A i \in DOMAIN kept : kept[i] \notin Guarded
  BY <1>3, <1>7 DEF NoToken, Thins
<1>9. /\ Len(kept) + 1 \in DOMAIN tokens' /\ tokens'[Len(kept) + 1] = c
      /\ \A i \in DOMAIN tokens' :
           i = Len(kept) + 1 \/ (i \in DOMAIN kept /\ tokens'[i] = kept[i])
  BY <1>5, <1>6, AppendFacts
<1>10. \A i \in DOMAIN tokens' : tokens'[i] \in Guarded => i = Len(kept) + 1 /\ tokens'[i] = c
  BY <1>8, <1>9
<1>11. c \notin Asked'
  <2>1. \A i \in DOMAIN pending' : pending'[i].call # c
    BY <1>0, <1>4 DEF Distinct
  <2> QED
    BY <2>1 DEF Asked
<1>12. Held(c)'
  <2>1. forced'[r] = Head(pending)
    BY <1>1, EnterFacts
  <2> QED
    BY <1>0, <1>5, <2>1 DEF Held
<1>13. ASSUME NEW d \in Guarded, granted'[d] > 0
       PROVE  started'[d] > 0 \/ d \in ToSet(tokens')
  <2>1. CASE d = c
    BY <1>9, <2>1 DEF ToSet
  <2>2. CASE d # c
    <3>1. granted[d] > 0 /\ d \in Call
      BY <1>4, <1>5, <1>13, <2>2, CallAssumption DEF Types
    <3>2. d \notin ToSet(tokens)
      BY <1>3 DEF NoToken, ToSet
    <3> QED
      BY <1>1, <3>1, <3>2 DEF OneToken
  <2> QED
    BY <2>1, <2>2
<1> QED
  BY <1>5, <1>10, <1>11, <1>12, <1>13 DEF OneToken

\* Whoever else starts a run, or ends one without an agent, finds no token.
LEMMA OneTokenStarts ==
  ASSUME Types, Types', Distinct, Modes, Solo, Once, OneToken, ~disturbed',
         NEW r \in Run, Starts(r)
  PROVE  OneToken'
<1>1. CASE Approve(r)
  BY <1>1, OneTokenApprove
<1>2. CASE \/ Ask /\ r = "chat"
           \/ Deny(r)
           \/ ApproveNothing /\ r = "command"
  <2>1. \E step, call : Enter(r, step, call)
    BY <1>2 DEF Ask, Deny, ApproveNothing
  <2>2. UNCHANGED <<tokens, granted, started>>
    BY <1>2 DEF Ask, Deny, ApproveNothing, service
  <2>3. NoToken
    BY <2>1, EnterAlone, NoTokenIdle DEF NoToken
  <2>4. PICK f : Thins(f, tokens', tokens)
    BY <2>2, ThinsItself
  <2> QED
    BY <2>2, <2>3, <2>4, NoTokenStep
<1>3. CASE CleanUp(r) \/ RunDaemonApprove(r)
  <2>1. pc[r] \in {"cleanup", "command"}
    BY <1>3, LeaveFacts
  <2>2. UNCHANGED <<tokens, granted, started>>
    BY <1>3, <2>1 DEF CleanUp, RunDaemonApprove, CanApprove, Solo, service, history
  <2>3. forced[r] = None
    BY <2>1 DEF Modes, Mode
  <2>4. NoToken
    BY <2>1, <2>3, TokenHeld DEF NoToken
  <2>5. PICK f : Thins(f, tokens', tokens)
    BY <2>2, ThinsItself
  <2> QED
    BY <2>2, <2>4, <2>5, NoTokenStep
<1> QED
  BY <1>1, <1>2, <1>3 DEF Starts

\* The token of a forced call stays while its replay begins.
LEMMA OneTokenForced ==
  ASSUME Types, Types', Modes, Solo, OneToken, NEW r \in Run, ReplayForced(r)
  PROVE  OneToken'
<1>1. /\ forced[r] # None /\ pc[r] = "reason"
      /\ forced[r].call \in Call /\ forced[r].rest \in Seq(Call)
      /\ Replays(r, forced[r].call, forced[r].rest)
  BY ReplayForcedFacts, RecordFacts DEF Replays, Types
<1>2. /\ active'[r] /\ pc'[r] = "act" /\ Head(todo'[r]) = forced[r].call
      /\ UNCHANGED <<pending, tokens, granted, started>>
  BY <1>1, ReplaysFacts
<1>3. \A i \in DOMAIN tokens : tokens[i] \in Guarded => tokens[i] = forced[r].call
  BY <1>1, TokenHeld
<1>4. \A i \in DOMAIN tokens : tokens[i] \in Guarded => Held(tokens[i])'
  BY <1>2, <1>3 DEF Held
<1> QED
  BY <1>2, <1>4 DEF OneToken, Asked

LEMMA OneTokenExecute ==
  ASSUME Types, Types', Modes, Solo, OneToken, NEW r \in Run, Execute(r)
  PROVE  OneToken'
<1> DEFINE c == Head(todo[r])
<1>1. /\ pc[r] = "act" /\ c \in Call /\ tokens' = Consumed(c)
      /\ started' = [started EXCEPT ![c] = @ + 1]
      /\ UNCHANGED <<pending, granted>>
  BY ExecuteFacts
<1>2. forced[r] = None
  BY <1>1 DEF Modes, Mode
<1>3. \A i \in DOMAIN tokens : tokens[i] \in Guarded => tokens[i] = c
  BY <1>1, <1>2, TokenHeld
<1>4. /\ started'[c] > 0
      /\ \A d \in Call : started[d] > 0 => started'[d] > 0
  BY <1>1 DEF Types
<1> HIDE DEF c
<1>5. \A i \in DOMAIN tokens' : tokens'[i] \notin Guarded
  <2>1. CASE Candidates(c) = {}
    <3>1. tokens' = tokens
      BY <1>1, <2>1, ConsumedFacts
    <3>2. \A i \in DOMAIN tokens : tokens[i] \in Guarded => i \in Candidates(c)
      BY <1>3 DEF Candidates, SameTool
    <3> QED
      BY <2>1, <3>1, <3>2
  <2>2. CASE Candidates(c) # {}
    <3>1. /\ First(c) \in Candidates(c)
          /\ \E f : Thins(f, tokens', tokens) /\ \A i \in DOMAIN tokens' : f[i] # First(c)
      BY <1>1, <2>2, ConsumedFacts
    <3>2. PICK f : Thins(f, tokens', tokens) /\ \A i \in DOMAIN tokens' : f[i] # First(c)
      BY <3>1
    <3>3. First(c) \in DOMAIN tokens /\ tokens[First(c)] \in Guarded
      BY <3>1 DEF Candidates, SameTool
    <3>4. \A i \in DOMAIN tokens' : f[i] \in DOMAIN tokens /\ tokens'[i] = tokens[f[i]]
      BY <3>2 DEF Thins
    <3> QED
      BY <3>2, <3>3, <3>4 DEF OneToken
  <2> QED
    BY <2>1, <2>2
<1>6. ASSUME NEW d \in Guarded, granted'[d] > 0
      PROVE  started'[d] > 0
  <2>1. started[d] > 0 \/ d \in ToSet(tokens)
    BY <1>1, <1>6 DEF OneToken
  <2>2. d \in ToSet(tokens) => d = c
    BY <1>3 DEF ToSet
  <2> QED
    BY <1>4, <2>1, <2>2, CallAssumption
<1> QED
  BY <1>5, <1>6 DEF OneToken

\* A run that asks about a call of the guarded scope has no token for it.
LEMMA OneTokenRequest ==
  ASSUME Types, Types', Distinct, Modes, Solo, OneToken, NEW r \in Run, Request(r)
  PROVE  OneToken'
<1> DEFINE c == Head(todo[r])
<1>1. /\ pc[r] = "act" /\ c \in Call /\ ~Approved(c)
      /\ \E f : Thins(f, tokens', Consumed(c))
      /\ UNCHANGED <<granted, started>>
  BY RequestFacts
<1>2. forced[r] = None
  BY <1>1 DEF Modes, Mode
<1>3. \A i \in DOMAIN tokens : tokens[i] \in Guarded => tokens[i] = c
  BY <1>1, <1>2, TokenHeld
<1> HIDE DEF c
<1>4. NoToken
  <2> SUFFICES ASSUME NEW i \in DOMAIN tokens, tokens[i] \in Guarded
               PROVE  FALSE
    BY DEF NoToken
  <2>1. i \in Candidates(c)
    BY <1>3 DEF Candidates, SameTool
  <2>2. First(c) \in Candidates(c) /\ First(c) \in DOMAIN tokens
    BY <1>1, <2>1, ConsumedFacts
  <2>3. tokens[First(c)] = c
    BY <1>3, <2>2 DEF Candidates, SameTool
  <2> QED
    BY <1>1, <2>1, <2>3 DEF Approved, SameCall, SameTool
<1>5. PICK f : Thins(f, tokens', Consumed(c))
  BY <1>1
<1>6. \E g : Thins(g, Consumed(c), tokens)
  BY <1>1, ConsumedFacts
<1>7. PICK g : Thins(g, Consumed(c), tokens)
  BY <1>6
<1>8. PICK h : Thins(h, tokens', tokens)
  BY <1>5, <1>7, ThinsTransitive
<1> QED
  BY <1>1, <1>4, <1>8, NoTokenStep

LEMMA OneTokenStep ==
  ASSUME Types, Types', Distinct, Modes, Solo, Once, OneToken, ~disturbed', [Next]_vars
  PROVE  OneToken'
<1>1. ASSUME NEW r \in Run, ReplayNext(r) \/ Think(r) \/ Finish(r) \/ Result(r)
      PROVE  OneToken'
  <2>1. pc[r] \in {"reason", "exec"} /\ UNCHANGED <<tokens, granted, started>>
    BY <1>1 DEF ReplayNext, Replay, Says, Think, Replayed, Finish, End, Result, service, history
  <2>2. forced[r] = None
    <3>1. CASE ReplayNext(r)
      <4>1. PICK left \in Seq(Call) : Continues(r, left)
        BY <3>1, ReplayNextFacts
      <4>2. done[r] # <<>>
        BY <4>1, LeftFacts
      <4> QED
        BY <4>2 DEF Modes, Mode
    <3>2. CASE Think(r) \/ Finish(r)
      BY <3>2 DEF Think, Finish
    <3>3. CASE Result(r)
      BY <3>3 DEF Result, Modes, Mode
    <3> QED
      BY <1>1, <3>1, <3>2, <3>3
  <2>3. NoToken
    BY <2>1, <2>2, TokenHeld DEF NoToken
  <2>4. PICK f : Thins(f, tokens', tokens)
    BY <2>1, ThinsItself
  <2> QED
    BY <2>1, <2>3, <2>4, NoTokenStep
<1>2. ASSUME NEW r \in Run, AgentStep(r)
      PROVE  OneToken'
  <2>1. ~Stop(r)
    BY DEF Stop
  <2> QED
    BY <1>1, <1>2, <2>1, OneTokenForced, OneTokenExecute, OneTokenRequest DEF AgentStep
<1>3. CASE UNCHANGED vars
  BY <1>3 DEF vars, OneToken, Asked, Held
<1> QED
  BY <1>2, <1>3, OneTokenStarts, Steppers

LEMMA InitOnce ==
  ASSUME Init
  PROVE  Solo /\ Once /\ OneToken
<1>1. /\ pending = <<>> /\ tokens = <<>> /\ \A c \in Call : started[c] = 0 /\ granted[c] = 0
      /\ \A r \in Run : pc[r] = "off" /\ forced[r] = None /\ todo[r] = <<>>
  BY DEF Init
<1>2. DOMAIN <<>> = {}
  OBVIOUS
<1>3. Solo
  BY <1>1 DEF Solo
<1>4. Once
  BY <1>1, <1>2 DEF Once, IsInjective
<1>5. OneToken
  <2>1. \A c \in Guarded : ~(granted[c] > 0)
    BY <1>1, CallAssumption
  <2> QED
    BY <1>1, <1>2, <2>1 DEF OneToken
<1> QED
  BY <1>3, <1>4, <1>5

LEMMA OnceInvStep ==
  ASSUME OnceInv, [Next]_vars
  PROVE  OnceInv'
<1>1. TypeInv /\ TypeInv'
  BY TypeInvStep DEF OnceInv
<1>2. Types /\ Types' /\ Distinct /\ Modes /\ Known
  BY <1>1 DEF TypeInv
<1>3. ASSUME ~disturbed'
      PROVE  Solo' /\ Once' /\ OneToken'
  <2>1. ~disturbed
    BY <1>2, <1>3, Undisturbed
  <2>2. Solo /\ Once /\ OneToken
    BY <2>1 DEF OnceInv
  <2> QED
    BY <1>2, <1>3, <2>2, SoloStep, OnceStep, OneTokenStep
<1> QED
  BY <1>1, <1>3 DEF OnceInv

LEMMA OnceInvImpliesRunsOnce ==
  ASSUME OnceInv
  PROVE  RunsOnce
<1> SUFFICES ASSUME ~disturbed
             PROVE  /\ \A c \in Call : started[c] <= 1
                    /\ \A c \in Guarded : granted[c] > 0 => c \notin Asked
  BY DEF RunsOnce
<1>1. Once /\ OneToken
  BY DEF OnceInv
<1>2. ASSUME NEW c \in Guarded, granted[c] > 0, c \in Asked
      PROVE  FALSE
  <2>1. PICK i \in DOMAIN pending : pending[i].call = c
    BY <1>2 DEF Asked
  <2>2. started[c] = 0
    BY <1>1, <2>1 DEF Once
  <2>3. c \in ToSet(tokens)
    BY <1>1, <1>2, <2>2 DEF OneToken
  <2>4. PICK k \in DOMAIN tokens : tokens[k] = c
    BY <2>3 DEF ToSet
  <2> QED
    BY <1>1, <1>2, <2>4 DEF OneToken
<1>3. \A c \in Call : started[c] <= 1
  BY <1>1 DEF Once
<1> QED
  BY <1>2, <1>3

\* When runs follow one another, no call is executed twice, and the user is not
\* asked again for a call of the guarded scope that was approved: its token is
\* there when the replay acts, and nothing else is executed on it.
THEOREM RunsOnceAlways == Spec => []RunsOnce
<1>1. Init => OnceInv
  BY InitTypeInv, InitOnce DEF OnceInv
<1>2. OnceInv /\ [Next]_vars => OnceInv'
  BY OnceInvStep
<1>3. OnceInv => RunsOnce
  BY OnceInvImpliesRunsOnce
<1> QED
  BY <1>1, <1>2, <1>3, PTL DEF Spec

-----------------------------------------------------------------------------
(* Lines of calls                                                          *)

LEMMA ConsFacts ==
  ASSUME NEW c \in Call, NEW s \in Seq(Call)
  PROVE  /\ <<c>> \o s \in Seq(Call) /\ <<c>> \o s # <<>>
         /\ Head(<<c>> \o s) = c /\ Tail(<<c>> \o s) = s
         /\ ToSet(<<c>> \o s) = {c} \cup ToSet(s)
<1> DEFINE w == <<c>> \o s
<1>1. <<c>> \in Seq(Call) /\ Len(<<c>>) = 1 /\ <<c>>[1] = c /\ Len(s) \in Nat
  OBVIOUS
<1>2. /\ w \in Seq(Call) /\ Len(w) = 1 + Len(s)
      /\ \A i \in 1..(1 + Len(s)) : w[i] = IF i <= 1 THEN <<c>>[i] ELSE s[i - 1]
  BY <1>1, ConcatProperties
<1> HIDE DEF w
<1>3. w # <<>>
  BY <1>1, <1>2, ElementFacts
<1>4. w[1] = c
  BY <1>1, <1>2
<1>5. Head(w) = c /\ Tail(w) \in Seq(Call) /\ Len(Tail(w)) = Len(w) - 1
      /\ \A i \in DOMAIN Tail(w) : i \in Nat /\ Tail(w)[i] = w[i + 1]
  BY <1>2, <1>3, <1>4, TailFacts
<1>6. Tail(w) = s
  <2>1. Len(Tail(w)) = Len(s)
    BY <1>1, <1>2, <1>5
  <2>2. \A i \in 1..Len(s) : Tail(w)[i] = s[i]
    <3> SUFFICES ASSUME NEW i \in 1..Len(s)
                 PROVE  Tail(w)[i] = s[i]
      OBVIOUS
    <3>1. i \in DOMAIN Tail(w)
      BY <1>5, <2>1, ElementFacts
    <3>2. i + 1 \in 1..(1 + Len(s)) /\ ~(i + 1 <= 1) /\ (i + 1) - 1 = i
      BY <1>1
    <3> QED
      BY <1>2, <1>5, <3>1, <3>2
  <2> QED
    BY <1>5, <2>1, <2>2, SeqEqual
<1>7. ToSet(w) = {c} \cup ToSet(s)
  <2>1. ToSet(Tail(w)) = ToSet(s)
    BY <1>6
  <2>2. \A x \in ToSet(w) : x = Head(w) \/ x \in ToSet(Tail(w))
    BY <1>2, <1>3, TailFacts
  <2>3. Head(w) \in ToSet(w) /\ ToSet(Tail(w)) \subseteq ToSet(w)
    BY <1>2, <1>3, TailFacts
  <2>4. Head(w) = c
    BY <1>5
  <2> QED
    BY <2>1, <2>2, <2>3, <2>4
<1> QED
  BY <1>2, <1>3, <1>5, <1>6, <1>7 DEF w

LEMMA ConsTail ==
  ASSUME NEW s \in Seq(Call), s # <<>>
  PROVE  <<Head(s)>> \o Tail(s) = s
<1> DEFINE w == <<Head(s)>> \o Tail(s)
<1>1. /\ Head(s) \in Call /\ Tail(s) \in Seq(Call) /\ Head(s) = s[1]
      /\ Len(s) \in Nat /\ Len(s) > 0 /\ Len(Tail(s)) = Len(s) - 1
      /\ \A k \in DOMAIN s :
           k = 1 \/ (k \in Nat /\ k - 1 \in DOMAIN Tail(s) /\ Tail(s)[k - 1] = s[k])
  BY TailFacts
<1>2. <<Head(s)>> \in Seq(Call) /\ Len(<<Head(s)>>) = 1 /\ <<Head(s)>>[1] = Head(s)
  BY <1>1
<1>3. /\ w \in Seq(Call) /\ Len(w) = 1 + Len(Tail(s))
      /\ \A i \in 1..(1 + Len(Tail(s))) :
           w[i] = IF i <= 1 THEN <<Head(s)>>[i] ELSE Tail(s)[i - 1]
  BY <1>1, <1>2, ConcatProperties
<1> HIDE DEF w
<1>4. Len(w) = Len(s)
  BY <1>1, <1>3
<1>5. ASSUME NEW i \in 1..Len(s)
      PROVE  w[i] = s[i]
  <2>1. i \in 1..(1 + Len(Tail(s))) /\ i \in DOMAIN s
    BY <1>1, ElementFacts
  <2>2. CASE i = 1
    BY <1>1, <1>2, <1>3, <2>1, <2>2
  <2>3. CASE i # 1
    <3>1. Tail(s)[i - 1] = s[i]
      BY <1>1, <2>1, <2>3
    <3>2. ~(i <= 1)
      BY <2>3
    <3> QED
      BY <1>3, <2>1, <3>1, <3>2
  <2> QED
    BY <2>2, <2>3
<1> QED
  BY <1>3, <1>4, <1>5, SeqEqual DEF w

LEMMA FromFacts ==
  ASSUME NEW w \in Seq(Call)
  PROVE  /\ From(w, 1) = ToSet(w)
         /\ \A i \in 1..Len(w) : From(w, i) \subseteq ToSet(w)
<1>1. DOMAIN w = 1..Len(w) /\ Len(w) \in Nat
  BY ElementFacts
<1>2. From(w, 1) = ToSet(w)
  BY <1>1 DEF From, ToSet
<1>3. \A i \in 1..Len(w) : \A j \in i..Len(w) : j \in 1..Len(w)
  BY <1>1
<1>4. \A i \in 1..Len(w) : From(w, i) \subseteq ToSet(w)
  BY <1>1, <1>3 DEF From, ToSet
<1> QED
  BY <1>2, <1>4

LEMMA FromTail ==
  ASSUME NEW w \in Seq(Call), w # <<>>, NEW i \in 1..Len(Tail(w))
  PROVE  /\ i + 1 \in 1..Len(w) /\ Tail(w)[i] = w[i + 1]
         /\ From(Tail(w), i) = From(w, i + 1)
<1>1. /\ Len(w) \in Nat /\ Len(w) > 0 /\ Tail(w) \in Seq(Call) /\ Len(Tail(w)) = Len(w) - 1
      /\ \A k \in DOMAIN Tail(w) : Tail(w)[k] = w[k + 1]
  BY TailFacts
<1>2. DOMAIN Tail(w) = 1..Len(Tail(w))
  BY <1>1, ElementFacts
<1>3. i + 1 \in 1..Len(w) /\ Tail(w)[i] = w[i + 1]
  BY <1>1, <1>2
<1>4. \A x \in From(Tail(w), i) : x \in From(w, i + 1)
  <2> SUFFICES ASSUME NEW j \in i..Len(Tail(w))
               PROVE  Tail(w)[j] \in From(w, i + 1)
    BY DEF From
  <2>1. j \in 1..Len(Tail(w)) /\ j + 1 \in (i + 1)..Len(w)
    BY <1>1
  <2>2. Tail(w)[j] = w[j + 1]
    BY <1>1, <1>2, <2>1
  <2> QED
    BY <2>1, <2>2 DEF From
<1>5. \A x \in From(w, i + 1) : x \in From(Tail(w), i)
  <2> SUFFICES ASSUME NEW j \in (i + 1)..Len(w)
               PROVE  w[j] \in From(Tail(w), i)
    BY DEF From
  <2>1. j - 1 \in i..Len(Tail(w)) /\ j - 1 \in 1..Len(Tail(w)) /\ (j - 1) + 1 = j
    BY <1>1
  <2>2. Tail(w)[j - 1] = w[j]
    BY <1>1, <1>2, <2>1
  <2> QED
    BY <2>1, <2>2 DEF From
<1> QED
  BY <1>3, <1>4, <1>5

LEMMA AgreeGrows ==
  ASSUME NEW w, NEW x, NEW K, NEW A, NEW S, NEW B, NEW R, Agree(w, x, K, A, S),
         A \subseteq B, S \subseteq R
  PROVE  Agree(w, x, K, B, R)
BY DEF Agree

LEMMA AgreeWeaker ==
  ASSUME NEW w, NEW x, NEW K, NEW J, NEW A, NEW S, Agree(w, x, K, A, S), J \subseteq K
  PROVE  Agree(w, x, J, A, S)
BY DEF Agree

LEMMA AgreeEmpty ==
  ASSUME NEW w, NEW K, NEW A, NEW S
  PROVE  Agree(<<>>, w, K, A, S) /\ Agree(w, <<>>, K, A, S)
<1>1. 1..Len(<<>>) = {}
  OBVIOUS
<1> QED
  BY <1>1 DEF Agree

\* Lines that share no call of which Agree says something.
LEMMA AgreeApart ==
  ASSUME NEW w, NEW x, NEW K, NEW A, NEW S,
         \A i \in 1..Len(w), a \in 1..Len(x) : w[i] # x[a] \/ (w[i] \in A /\ i \notin K)
  PROVE  Agree(w, x, K, A, S)
BY DEF Agree

LEMMA AgreeTail ==
  ASSUME NEW x \in Seq(Call), x # <<>>, NEW w, NEW K, NEW A, NEW S, Agree(w, x, K, A, S)
  PROVE  Agree(w, Tail(x), K, A, S)
<1> SUFFICES ASSUME NEW i \in 1..Len(w), NEW a \in 1..Len(Tail(x)), w[i] = Tail(x)[a],
                    w[i] \notin A \/ i \in K
             PROVE  From(w, i) \subseteq From(Tail(x), a) \cup S
  BY DEF Agree
<1>1. a + 1 \in 1..Len(x) /\ Tail(x)[a] = x[a + 1] /\ From(Tail(x), a) = From(x, a + 1)
  BY FromTail
<1> QED
  BY <1>1 DEF Agree

LEMMA TailAgrees ==
  ASSUME NEW x \in Seq(Call), x # <<>>, NEW w, NEW K, NEW A, NEW S, Agree(x, w, K, A, S)
  PROVE  Agree(Tail(x), w, {}, A, S)
<1> SUFFICES ASSUME NEW i \in 1..Len(Tail(x)), NEW a \in 1..Len(w), Tail(x)[i] = w[a],
                    Tail(x)[i] \notin A
             PROVE  From(Tail(x), i) \subseteq From(w, a) \cup S
  BY DEF Agree
<1>1. i + 1 \in 1..Len(x) /\ Tail(x)[i] = x[i + 1] /\ From(Tail(x), i) = From(x, i + 1)
  BY FromTail
<1> QED
  BY <1>1 DEF Agree

\* An injective line and its tail.
LEMMA AgreeSelf ==
  ASSUME NEW x \in Seq(Call), x # <<>>, IsInjective(x), NEW K, NEW J, NEW A, NEW S
  PROVE  Agree(x, Tail(x), K, A, S) /\ Agree(Tail(x), x, J, A, S)
<1>1. \A i \in 1..Len(x), a \in 1..Len(Tail(x)) :
        x[i] = Tail(x)[a] => From(x, i) = From(Tail(x), a)
  <2> SUFFICES ASSUME NEW i \in 1..Len(x), NEW a \in 1..Len(Tail(x)), x[i] = Tail(x)[a]
               PROVE  From(x, i) = From(Tail(x), a)
    OBVIOUS
  <2>1. a + 1 \in 1..Len(x) /\ Tail(x)[a] = x[a + 1] /\ From(Tail(x), a) = From(x, a + 1)
    BY FromTail
  <2>2. i = a + 1
    BY <2>1, ElementFacts DEF IsInjective
  <2> QED
    BY <2>1, <2>2
<1> QED
  BY <1>1 DEF Agree

\* A line that contains the head of w contains what is not settled of w.
LEMMA AgreeHead ==
  ASSUME NEW w \in Seq(Call), w # <<>>, NEW x \in Seq(Call), NEW A, NEW S,
         Agree(w, x, {1}, A, S), Head(w) \in ToSet(x)
  PROVE  ToSet(w) \subseteq ToSet(x) \cup S
<1>1. PICK a \in DOMAIN x : x[a] = Head(w)
  BY DEF ToSet
<1>2. a \in 1..Len(x) /\ 1 \in 1..Len(w) /\ Head(w) = w[1]
  BY TailFacts, ElementFacts
<1>3. From(w, 1) \subseteq From(x, a) \cup S
  BY <1>1, <1>2 DEF Agree
<1> QED
  BY <1>2, <1>3, FromFacts

\* What is left of a line without the calls that have results.
LEMMA AgreeLeft ==
  ASSUME NEW s \in Seq(Call), NEW left \in Seq(Call), NEW f, NEW A, NEW S, A \subseteq S,
         Selects(f, left, s, {i \in DOMAIN s : s[i] \notin A}), NEW w, NEW K
  PROVE  /\ Agree(w, s, K, A, S) => Agree(w, left, K, A, S)
         /\ Agree(s, w, {}, A, S) => Agree(left, w, K, A, S)
<1> DEFINE I == {i \in DOMAIN s : s[i] \notin A}
<1>1. /\ DOMAIN left = 1..Len(left) /\ DOMAIN s = 1..Len(s)
      /\ Len(left) \in Nat /\ Len(s) \in Nat
  BY ElementFacts
<1>2. /\ \A i \in 1..Len(left) : f[i] \in 1..Len(s) /\ left[i] = s[f[i]] /\ left[i] \notin A
      /\ \A k \in 1..Len(s) : s[k] \in A \/ \E i \in 1..Len(left) : f[i] = k
      /\ \A i, j \in 1..Len(left) : i < j => f[i] < f[j]
  BY <1>1 DEF Selects, Thins
<1>3. ASSUME NEW a \in 1..Len(left)
      PROVE  From(s, f[a]) \subseteq From(left, a) \cup S
  <2> SUFFICES ASSUME NEW k \in f[a]..Len(s), s[k] \notin A
               PROVE  s[k] \in From(left, a)
    BY DEF From
  <2>1. f[a] \in 1..Len(s) /\ k \in 1..Len(s)
    BY <1>1, <1>2
  <2>2. PICK b \in 1..Len(left) : f[b] = k
    BY <1>2, <2>1
  <2>3. ~(b < a)
    BY <1>1, <1>2, <2>1, <2>2
  <2>4. b \in a..Len(left) /\ left[b] = s[k]
    BY <1>1, <1>2, <2>2, <2>3
  <2> QED
    BY <2>4 DEF From
<1>4. ASSUME NEW i \in 1..Len(left)
      PROVE  From(left, i) \subseteq From(s, f[i])
  <2> SUFFICES ASSUME NEW j \in i..Len(left)
               PROVE  left[j] \in From(s, f[i])
    BY DEF From
  <2>1. j \in 1..Len(left) /\ (j = i \/ i < j)
    BY <1>1
  <2>2. f[i] \in 1..Len(s) /\ f[j] \in 1..Len(s) /\ f[i] <= f[j]
    BY <1>1, <1>2, <2>1
  <2>3. f[j] \in f[i]..Len(s) /\ left[j] = s[f[j]]
    BY <1>1, <1>2, <2>1, <2>2
  <2> QED
    BY <2>3 DEF From
<1>5. ASSUME Agree(w, s, K, A, S)
      PROVE  Agree(w, left, K, A, S)
  <2> SUFFICES ASSUME NEW i \in 1..Len(w), NEW a \in 1..Len(left), w[i] = left[a],
                      w[i] \notin A \/ i \in K
               PROVE  From(w, i) \subseteq From(left, a) \cup S
    BY DEF Agree
  <2>1. f[a] \in 1..Len(s) /\ w[i] = s[f[a]]
    BY <1>2
  <2>2. From(w, i) \subseteq From(s, f[a]) \cup S
    BY <1>5, <2>1 DEF Agree
  <2> QED
    BY <1>3, <2>2
<1>6. ASSUME Agree(s, w, {}, A, S)
      PROVE  Agree(left, w, K, A, S)
  <2> SUFFICES ASSUME NEW i \in 1..Len(left), NEW a \in 1..Len(w), left[i] = w[a]
               PROVE  From(left, i) \subseteq From(w, a) \cup S
    BY DEF Agree
  <2>1. f[i] \in 1..Len(s) /\ s[f[i]] = w[a] /\ s[f[i]] \notin A
    BY <1>2
  <2>2. From(s, f[i]) \subseteq From(w, a) \cup S
    BY <1>6, <2>1 DEF Agree
  <2> QED
    BY <1>4, <2>2
<1> QED
  BY <1>5, <1>6

LEMMA LineFacts ==
  ASSUME NEW p \in Record
  PROVE  /\ Line(p) \in Seq(Call) /\ Line(p) # <<>>
         /\ Head(Line(p)) = p.call /\ Tail(Line(p)) = p.rest
         /\ ToSet(Line(p)) = Calls(p)
<1>1. p.call \in Call /\ p.rest \in Seq(Call)
  BY RecordFacts
<1> QED
  BY <1>1, ConsFacts DEF Line, Calls

LEMMA FitsEmpty ==
  ASSUME NEW K, NEW P, NEW A, NEW S
  PROVE  Fits(<<>>, K, P, A, S)
BY AgreeEmpty DEF Fits

LEMMA FitsThins ==
  ASSUME NEW w, NEW K, NEW J, NEW P, NEW Q, NEW A, NEW S, NEW B, NEW R, NEW f, Thins(f, Q, P),
         Fits(w, K, P, A, S), J \subseteq K, A \subseteq B, S \subseteq R
  PROVE  Fits(w, J, Q, B, R)
<1> SUFFICES ASSUME NEW i \in DOMAIN Q
             PROVE  Agree(Line(Q[i]), w, {1}, B, R) /\ Agree(w, Line(Q[i]), J, B, R)
  BY DEF Fits
<1>1. f[i] \in DOMAIN P /\ Q[i] = P[f[i]]
  BY DEF Thins
<1>2. Agree(Line(Q[i]), w, {1}, A, S) /\ Agree(w, Line(Q[i]), K, A, S)
  BY <1>1 DEF Fits
<1>3. Agree(Line(Q[i]), w, {1}, B, R) /\ Agree(w, Line(Q[i]), K, B, R)
  BY <1>2, AgreeGrows
<1> QED
  BY <1>3, AgreeWeaker

LEMMA FitsTail ==
  ASSUME NEW w \in Seq(Call), w # <<>>, NEW K, NEW P, NEW A, NEW S, Fits(w, K, P, A, S)
  PROVE  Fits(Tail(w), {}, P, A, S)
BY AgreeTail, TailAgrees DEF Fits

LEMMA FitsLeft ==
  ASSUME NEW s \in Seq(Call), NEW left \in Seq(Call), NEW f, NEW A, NEW S, A \subseteq S,
         Selects(f, left, s, {i \in DOMAIN s : s[i] \notin A}), NEW K, NEW P,
         Fits(s, {}, P, A, S)
  PROVE  Fits(left, K, P, A, S)
BY AgreeLeft DEF Fits

\* The requests Q and a new one, x.
LEMMA FitsAppend ==
  ASSUME NEW Q \in Seq(Record), NEW x \in Record, NEW w, NEW K, NEW A, NEW S,
         Fits(w, K, Q, A, S), Agree(Line(x), w, {1}, A, S), Agree(w, Line(x), K, A, S)
  PROVE  Fits(w, K, Append(Q, x), A, S)
<1>1. \A i \in DOMAIN Append(Q, x) :
        \/ Append(Q, x)[i] = x
        \/ i \in DOMAIN Q /\ Append(Q, x)[i] = Q[i]
  BY AppendFacts
<1> QED
  BY <1>1 DEF Fits

LEMMA PairedThins ==
  ASSUME NEW P, NEW Q, NEW A, NEW S, NEW B, NEW R, NEW f, Thins(f, Q, P),
         Paired(P, A, S), A \subseteq B, S \subseteq R
  PROVE  Paired(Q, B, R)
<1> SUFFICES ASSUME NEW i \in DOMAIN Q, NEW j \in DOMAIN Q, i # j
             PROVE  Agree(Line(Q[i]), Line(Q[j]), {1}, B, R)
  BY DEF Paired
<1>1. /\ f[i] \in DOMAIN P /\ f[j] \in DOMAIN P /\ f[i] # f[j]
      /\ Q[i] = P[f[i]] /\ Q[j] = P[f[j]]
  BY DEF Thins
<1>2. Agree(Line(Q[i]), Line(Q[j]), {1}, A, S)
  BY <1>1 DEF Paired
<1> QED
  BY <1>2, AgreeGrows

LEMMA PairedAppend ==
  ASSUME NEW Q \in Seq(Record), NEW x \in Record, NEW A, NEW S,
         Paired(Q, A, S), Fits(Line(x), {1}, Q, A, S)
  PROVE  Paired(Append(Q, x), A, S)
<1> SUFFICES ASSUME NEW i \in DOMAIN Append(Q, x), NEW j \in DOMAIN Append(Q, x), i # j
             PROVE  Agree(Line(Append(Q, x)[i]), Line(Append(Q, x)[j]), {1}, A, S)
  BY DEF Paired
<1>1. /\ Append(Q, x)[Len(Q) + 1] = x
      /\ \A k \in DOMAIN Q : Append(Q, x)[k] = Q[k]
  BY AppendFacts
<1>2. /\ i = Len(Q) + 1 \/ (i \in DOMAIN Q /\ i # Len(Q) + 1)
      /\ j = Len(Q) + 1 \/ (j \in DOMAIN Q /\ j # Len(Q) + 1)
  BY AppendFacts
<1> QED
  BY <1>1, <1>2 DEF Fits, Paired

\* The oldest request agrees with the others.
LEMMA HeadFits ==
  ASSUME NEW P \in Seq(Record), P # <<>>, NEW K, K \subseteq {1}, NEW A, NEW S, Paired(P, A, S)
  PROVE  Fits(Line(Head(P)), K, Tail(P), A, S)
<1> SUFFICES ASSUME NEW i \in DOMAIN Tail(P)
             PROVE  /\ Agree(Line(Tail(P)[i]), Line(Head(P)), {1}, A, S)
                    /\ Agree(Line(Head(P)), Line(Tail(P)[i]), K, A, S)
  BY DEF Fits
<1>1. /\ 1 \in DOMAIN P /\ Head(P) = P[1]
      /\ i + 1 \in DOMAIN P /\ i + 1 # 1 /\ Tail(P)[i] = P[i + 1]
  BY TailFacts
<1>2. /\ Agree(Line(Tail(P)[i]), Line(Head(P)), {1}, A, S)
      /\ Agree(Line(Head(P)), Line(Tail(P)[i]), {1}, A, S)
  BY <1>1 DEF Paired
<1> QED
  BY <1>2, AgreeWeaker

LEMMA TailThins ==
  ASSUME NEW P \in Seq(Record), P # <<>>
  PROVE  \E f : Thins(f, Tail(P), P)
<1>1. \A i \in DOMAIN Tail(P) : i \in Nat /\ i + 1 \in DOMAIN P /\ Tail(P)[i] = P[i + 1]
  BY TailFacts
<1>2. Thins([i \in DOMAIN Tail(P) |-> i + 1], Tail(P), P)
  BY <1>1 DEF Thins
<1> QED
  BY <1>2

-----------------------------------------------------------------------------
(* No call is forgotten                                                    *)

\* A step of runs that follow one another.
Onward ==
  /\ TypeInv /\ TypeInv' /\ Solo /\ Solo' /\ Once /\ Once'
  /\ Lost /\ ~disturbed' /\ [Next]_vars

\* Run r takes a step, or begins.
Acts(r) == Starts(r) \/ AgentStep(r)

LEMMA OnwardFacts ==
  ASSUME Onward
  PROVE  /\ Types /\ Distinct /\ Modes /\ Known /\ Solo /\ Once
         /\ Types' /\ Distinct' /\ Modes' /\ Known' /\ Solo' /\ Once'
         /\ Agreement /\ Fresh /\ Covered
         /\ Paired(pending, Answered, Settled)
         /\ \A r \in Run : Fits(Hand(r), Lead(r), pending, Answered, Settled)
         /\ ~disturbed' /\ [Next]_vars
BY DEF Onward, TypeInv, Lost, Agreement

\* What a run has in hand.
LEMMA HandFacts ==
  ASSUME Types, Modes, NEW r \in Run
  PROVE  /\ Hand(r) \in Seq(Call)
         /\ pc[r] \notin AgentSteps => Hand(r) = <<>>
         /\ forced[r] # None => Hand(r) = Line(forced[r]) /\ Lead(r) = {1}
         /\ pc[r] = "reason" /\ forced[r] = None => Hand(r) = done[r]
         /\ pc[r] \in {"act", "exec"} /\ active[r] =>
              /\ Hand(r) = <<Head(todo[r])>> \o queue[r] /\ Lead(r) = {1}
              /\ queue[r] \in Seq(Call) /\ todo[r] = <<Head(todo[r])>>
         /\ pc[r] \in {"act", "exec"} /\ ~active[r] => Hand(r) = todo[r] /\ Lead(r) = {}
<1>1. Mode(r)
  BY DEF Modes
<1>2. /\ todo[r] \in Seq(Call) /\ done[r] \in Seq(Call)
      /\ forced[r] \in Record \cup {None} /\ queue[r] \in Seq(Call) \cup {None}
      /\ pc[r] \in Steps
  BY DEF Types
<1>3. CASE forced[r] # None
  <2>1. forced[r] \in Record /\ pc[r] = "reason"
    BY <1>1, <1>2, <1>3 DEF Mode
  <2> QED
    BY <1>3, <2>1, LineFacts DEF Hand, Lead, AgentSteps
<1>4. CASE forced[r] = None /\ pc[r] \in {"act", "exec"} /\ active[r]
  <2>1. queue[r] \in Seq(Call) /\ queue[r] # None /\ Len(todo[r]) = 1 /\ todo[r] # <<>>
    BY <1>1, <1>2, <1>4 DEF Mode
  <2>2. todo[r] = <<Head(todo[r])>>
    BY <1>2, <2>1
  <2>3. <<Head(todo[r])>> \o queue[r] \in Seq(Call)
    BY <1>2, <2>1, TailFacts, ConsFacts
  <2>4. Hand(r) = todo[r] \o queue[r] /\ Lead(r) = {1}
    BY <1>4, <2>1 DEF Hand, Lead
  <2>5. Hand(r) = <<Head(todo[r])>> \o queue[r]
    BY <2>2, <2>4
  <2> QED
    BY <1>4, <2>1, <2>2, <2>3, <2>4, <2>5 DEF AgentSteps
<1>5. CASE forced[r] = None /\ pc[r] \in {"act", "exec"} /\ ~active[r]
  <2>1. todo[r] # <<>>
    BY <1>1, <1>5 DEF Mode
  <2> QED
    BY <1>2, <1>5, <2>1 DEF Hand, Lead, AgentSteps
<1>6. CASE forced[r] = None /\ pc[r] \notin {"act", "exec"}
  <2>1. todo[r] = <<>> /\ (active[r] => queue[r] = None)
    BY <1>1, <1>2, <1>6 DEF Mode, AgentSteps, Steps
  <2>2. Hand(r) = done[r]
    BY <1>6, <2>1 DEF Hand
  <2>3. pc[r] \notin AgentSteps => done[r] = <<>>
    BY <1>1 DEF Mode
  <2> QED
    BY <1>2, <1>6, <2>2, <2>3
<1> QED
  BY <1>3, <1>4, <1>5, <1>6

\* A run that has nothing to do.
LEMMA NothingInHand ==
  ASSUME NEW r \in Run, forced'[r] = None, todo'[r] = <<>>, queue'[r] = None, done'[r] = <<>>
  PROVE  Hand(r)' = <<>> /\ FreshRun(r)'
<1>1. Hand(r)' = <<>>
  BY DEF Hand
<1>2. DOMAIN todo'[r] = {}
  OBVIOUS
<1> QED
  BY <1>1, <1>2 DEF FreshRun

\* The other runs are idle.
LEMMA OthersIdle ==
  ASSUME Onward, NEW r \in Run, Acts(r), NEW o \in Run, o # r
  PROVE  /\ pc[o] = "off" /\ Hand(o) = <<>> /\ memory[o].results = {}
         /\ Hand(o)' = <<>> /\ FreshRun(o)' /\ memory'[o].results = {}
<1>0. Types /\ Types' /\ Distinct /\ Modes /\ Solo /\ ~disturbed'
  BY OnwardFacts
<1>1. Still(o)
  BY <1>0, StartEnd, OthersStill DEF Acts, AgentStep
<1>2. pc[o] = "off"
  <2>1. CASE pc[r] # "off"
    BY <1>0, <2>1, AloneFacts
  <2>2. CASE pc[r] = "off"
    <3>1. ~AgentStep(r) /\ ~CleanUp(r) /\ ~RunDaemonApprove(r)
      BY <1>0, <2>2, AgentFacts, LeaveFacts
    <3>2. \E step, call : Enter(r, step, call)
      BY <3>1 DEF Acts, Starts, Ask, Deny, ApproveNothing, Approve
    <3> QED
      BY <1>0, <3>2, EnterAlone
  <2> QED
    BY <2>1, <2>2
<1>3. /\ forced[o] = None /\ todo[o] = <<>> /\ queue[o] = None /\ done[o] = <<>>
      /\ memory[o] = Empty
  BY <1>0, <1>2 DEF Modes, Mode, AgentSteps
<1>4. /\ forced'[o] = None /\ todo'[o] = <<>> /\ queue'[o] = None /\ done'[o] = <<>>
      /\ memory'[o] = Empty
  BY <1>1, <1>3 DEF Still
<1>5. Empty.results = {}
  BY DEF Empty
<1>6. Hand(o) = <<>>
  BY <1>3 DEF Hand
<1> QED
  BY <1>2, <1>3, <1>4, <1>5, <1>6, NothingInHand

\* What the run r has to keep.
LEMMA LostFrom ==
  ASSUME Onward, NEW r \in Run, Acts(r),
         Paired(pending', Answered', Settled'),
         Fits(Hand(r)', Lead(r)', pending', Answered', Settled'),
         FreshRun(r)',
         \A c \in used' : \/ c \in Settled'
                          \/ \E i \in DOMAIN pending' : c \in Calls(pending'[i])
                          \/ c \in ToSet(Hand(r)')
  PROVE  Lost'
<1>1. \A o \in Run : o # r => Hand(o)' = <<>> /\ FreshRun(o)'
  BY OthersIdle
<1>2. \A o \in Run : Fits(Hand(o)', Lead(o)', pending', Answered', Settled')
  BY <1>1, FitsEmpty
<1>3. Agreement'
  BY <1>2 DEF Agreement
<1>4. Fresh'
  BY <1>1 DEF Fresh
<1>5. Covered'
  BY DEF Covered
<1> QED
  BY <1>3, <1>4, <1>5 DEF Lost

\* The results are those of the run that is under way.
LEMMA AnswersMove ==
  ASSUME Onward, NEW r \in Run, AgentStep(r)
  PROVE  /\ Answered = memory[r].results
         /\ pc'[r] = "off" => Answered' = Answered
         /\ pc'[r] # "off" => Answered' = memory'[r].results
         /\ Answered \subseteq Answered'
<1>0. Types /\ Types' /\ Distinct /\ Modes /\ Solo /\ Solo' /\ ~disturbed'
  BY OnwardFacts
<1>1. /\ pc[r] # "off"
      /\ \/ pc'[r] \in AgentSteps /\ saved' = saved
            /\ memory[r].results \subseteq memory'[r].results
         \/ Finish(r) /\ pc'[r] = "off" /\ saved' = memory[r]
  BY <1>0, AgentFacts
<1>2. Answered = memory[r].results
  BY <1>0, <1>1, AloneFacts
<1>3. \A o \in Run : o # r => memory'[o].results = {}
  BY OthersIdle DEF Acts
<1>4. CASE pc'[r] # "off"
  <2>1. saved'.results \subseteq memory'[r].results
    BY <1>0, <1>4 DEF Solo
  <2>2. Answered' = memory'[r].results
    BY <1>3, <2>1 DEF Answered
  <2> QED
    BY <1>1, <1>2, <1>4, <2>2
<1>5. CASE pc'[r] = "off"
  <2>1. Finish(r) /\ saved' = memory[r]
    BY <1>1, <1>5 DEF AgentSteps
  <2>2. memory'[r] = Empty
    BY <1>0, <2>1, EndFacts DEF Finish
  <2>3. Answered' = memory[r].results
    BY <1>3, <2>1, <2>2 DEF Answered, Empty
  <2> QED
    BY <1>2, <1>5, <2>3
<1> QED
  BY <1>2, <1>4, <1>5

\* What is settled stays so.
LEMMA SettledGrows ==
  ASSUME Onward, NEW r \in Run, Acts(r)
  PROVE  Answered \subseteq Answered' /\ waived \subseteq waived' /\ Settled \subseteq Settled'
<1>0. Types /\ Types' /\ Distinct /\ Modes /\ Solo /\ ~disturbed'
  BY OnwardFacts
<1>1. Answered \subseteq Answered'
  BY <1>0, StartsAnswers, AnswersMove DEF Acts
<1>2. Starts(r) => waived \subseteq waived'
  BY DEF Starts, Ask, Deny, ApproveNothing, Approve, CleanUp, RunDaemonApprove, history
<1>3. AgentStep(r) /\ ~Request(r) => waived \subseteq waived'
  BY DEF AgentStep, ReplayNext, ReplayForced, Replay, Think, Finish, Stop, End, Execute,
              Result, history
<1>4. Request(r) => waived \subseteq waived'
  BY <1>0, RequestFacts
<1>5. waived \subseteq waived'
  BY <1>2, <1>3, <1>4 DEF Acts
<1> QED
  BY <1>1, <1>5 DEF Settled

\* Requests that stay, and their agreement.
LEMMA RequestsStay ==
  ASSUME Onward, NEW r \in Run, Acts(r), NEW f, Thins(f, pending', pending)
  PROVE  Paired(pending', Answered', Settled')
<1>1. Paired(pending, Answered, Settled)
  BY OnwardFacts
<1>2. Answered \subseteq Answered' /\ Settled \subseteq Settled'
  BY SettledGrows
<1> QED
  BY <1>1, <1>2, PairedThins

\* A run that starts or ends without an agent.
LEMMA LostStarts ==
  ASSUME Onward, NEW r \in Run, Starts(r)
  PROVE  Lost'
<1>0. /\ Types /\ Types' /\ Distinct /\ Modes /\ Solo /\ ~disturbed' /\ Acts(r)
      /\ Covered /\ Paired(pending, Answered, Settled)
  BY OnwardFacts DEF Acts
<1>1. /\ todo'[r] = <<>> /\ queue'[r] = None /\ done'[r] = <<>> /\ ~active'[r] /\ used' = used
  BY <1>0, StartEnd
<1>2. Answered \subseteq Answered' /\ waived \subseteq waived' /\ Settled \subseteq Settled'
  BY <1>0, SettledGrows
<1>3. \A o \in Run : Hand(o) = <<>>
  <2>1. pc[r] \notin AgentSteps
    <3>1. CASE CleanUp(r) \/ RunDaemonApprove(r)
      BY <1>0, <3>1, LeaveFacts DEF AgentSteps
    <3>2. CASE ~CleanUp(r) /\ ~RunDaemonApprove(r)
      BY <3>2 DEF Starts, Ask, Deny, ApproveNothing, Approve, Enter, AgentSteps
    <3> QED
      BY <3>1, <3>2
  <2> QED
    BY <1>0, <2>1, HandFacts, OthersIdle
<1>4. \A c \in used : c \in Settled' \/ \E i \in DOMAIN pending : c \in Calls(pending[i])
  <2>1. <<>> \in Seq(Call)
    OBVIOUS
  <2>2. ToSet(<<>>) = {}
    BY <2>1, ElementFacts
  <2> QED
    BY <1>0, <1>2, <1>3, <2>2 DEF Covered
<1>5. FreshRun(r)'
  <2>1. DOMAIN todo'[r] = {}
    BY <1>1
  <2> QED
    BY <1>1, <2>1 DEF FreshRun
<1>6. CASE pending' = pending /\ ~Approve(r)
  <2>1. PICK f : Thins(f, pending', pending)
    BY <1>6, ThinsItself
  <2>2. forced'[r] = None
    <3>1. CASE CleanUp(r) \/ RunDaemonApprove(r)
      BY <1>0, <3>1, LeaveFacts
    <3>2. CASE ~CleanUp(r) /\ ~RunDaemonApprove(r)
      BY <1>0, <1>6, <3>2, EnterFacts DEF Starts, Ask, Deny, ApproveNothing
    <3> QED
      BY <3>1, <3>2
  <2>3. Hand(r)' = <<>>
    BY <1>1, <2>2, NothingInHand
  <2> QED
    BY <1>0, <1>1, <1>4, <1>5, <1>6, <2>1, <2>3, FitsEmpty, RequestsStay, LostFrom
<1>7. CASE pending # <<>> /\ pending' = Tail(pending) /\ (Approve(r) \/ Deny(r))
  <2>1. pending \in Seq(Record)
    BY <1>0 DEF Types
  <2>2. PICK f : Thins(f, pending', pending)
    BY <1>7, <2>1, TailThins
  <2>3. \A i \in DOMAIN pending :
          pending[i] = Head(pending) \/ \E k \in DOMAIN pending' : pending'[k] = pending[i]
    BY <1>7, <2>1, TailFacts
  <2>4. Head(pending) \in Record
    BY <1>7, <2>1, TailFacts
  <2>5. CASE Approve(r)
    <3>1. forced'[r] = Head(pending)
      BY <1>0, <2>5, EnterFacts DEF Approve
    <3>2. Hand(r)' = Line(Head(pending)) /\ Lead(r)' = {1}
      BY <2>4, <3>1, RecordFacts DEF Hand, Lead
    <3>3. Fits(Line(Head(pending)), {1}, pending', Answered, Settled)
      BY <1>0, <1>7, <2>1, HeadFits
    <3>4. PICK g : Thins(g, pending', pending')
      BY ThinsItself
    <3>5. Fits(Line(Head(pending)), {1}, pending', Answered', Settled')
      BY <1>2, <3>3, <3>4, FitsThins
    <3>6. ToSet(Hand(r)') = Calls(Head(pending))
      BY <2>4, <3>2, LineFacts
    <3>7. \A c \in used' : \/ c \in Settled'
                           \/ \E i \in DOMAIN pending' : c \in Calls(pending'[i])
                           \/ c \in ToSet(Hand(r)')
      BY <1>1, <1>4, <2>3, <3>6
    <3> QED
      BY <1>0, <1>5, <2>2, <3>2, <3>5, <3>7, RequestsStay, LostFrom
  <2>6. CASE Deny(r)
    <3>1. forced'[r] = None /\ waived' = waived \cup Calls(Head(pending))
      BY <1>0, <2>6, EnterFacts DEF Deny
    <3>2. Hand(r)' = <<>>
      BY <1>1, <3>1, NothingInHand
    <3>3. \A c \in used' : c \in Settled' \/ \E i \in DOMAIN pending' : c \in Calls(pending'[i])
      BY <1>1, <1>4, <2>3, <3>1 DEF Settled
    <3> QED
      BY <1>0, <1>5, <2>2, <3>2, <3>3, FitsEmpty, RequestsStay, LostFrom
  <2> QED
    BY <1>7, <2>5, <2>6
<1>8. \/ pending' = pending /\ ~Approve(r)
      \/ pending # <<>> /\ pending' = Tail(pending) /\ (Approve(r) \/ Deny(r))
  <2>1. CASE Approve(r)
    <3>1. pending # <<>> /\ pending' = Tail(pending)
      BY <2>1 DEF Approve, CanApprove, ResolveApproved
    <3> QED
      BY <2>1, <3>1
  <2>2. CASE RunDaemonApprove(r)
    <3>1. pending = <<>>
      BY <1>0, <2>2 DEF RunDaemonApprove, Solo
    <3>2. pending' = pending
      BY <2>2, <3>1 DEF RunDaemonApprove, CanApprove, service
    <3>3. ~Approve(r)
      BY <3>1 DEF Approve, CanApprove
    <3> QED
      BY <3>2, <3>3
  <2>3. CASE (Ask \/ ApproveNothing \/ CleanUp(r)) /\ ~Approve(r)
    BY <2>3 DEF Ask, ApproveNothing, CleanUp, service
  <2>4. CASE Deny(r)
    BY <2>4 DEF Deny
  <2> QED
    BY <2>1, <2>2, <2>3, <2>4 DEF Starts
<1> QED
  BY <1>6, <1>7, <1>8

\* A line that agrees with the requests, where these stay as they are.
LEMMA LineStays ==
  ASSUME Onward, NEW r \in Run, Acts(r), pending' = pending,
         NEW w, NEW K, NEW J, J \subseteq K, Fits(w, K, pending, Answered, Settled)
  PROVE  /\ Paired(pending', Answered', Settled')
         /\ Fits(w, J, pending', Answered', Settled')
<1>1. PICK f : Thins(f, pending', pending)
  BY ThinsItself
<1>2. Answered \subseteq Answered' /\ Settled \subseteq Settled'
  BY SettledGrows
<1> QED
  BY <1>1, <1>2, RequestsStay, FitsThins

\* Where the calls are during a run.
LEMMA CoveredInRun ==
  ASSUME Onward, NEW r \in Run, Acts(r)
  PROVE  \A c \in used : \/ c \in Settled'
                         \/ \E i \in DOMAIN pending : c \in Calls(pending[i])
                         \/ c \in ToSet(Hand(r))
<1>1. Covered /\ Settled \subseteq Settled'
  BY OnwardFacts, SettledGrows
<1>2. <<>> \in Seq(Call)
  OBVIOUS
<1>3. ToSet(<<>>) = {}
  BY <1>2, ElementFacts
<1>4. \A o \in Run : o = r \/ Hand(o) = <<>>
  BY OthersIdle
<1> QED
  BY <1>1, <1>3, <1>4 DEF Covered

LEMMA LostForced ==
  ASSUME Onward, NEW r \in Run, ReplayForced(r)
  PROVE  Lost'
<1>0. Types /\ Modes /\ Acts(r) /\ Fits(Hand(r), Lead(r), pending, Answered, Settled)
  BY OnwardFacts DEF Acts, AgentStep
<1>1. /\ forced[r] \in Record /\ forced[r] # None /\ forced'[r] = None
      /\ forced[r].call \in Call /\ forced[r].rest \in Seq(Call)
      /\ Replays(r, forced[r].call, forced[r].rest)
  BY <1>0, ReplayForcedFacts, RecordFacts DEF Types
<1>2. /\ todo'[r] = <<forced[r].call>> /\ queue'[r] = forced[r].rest /\ active'[r]
      /\ queue'[r] # None /\ pending' = pending /\ used' = used
  BY <1>0, <1>1, ReplaysFacts
<1>3. Hand(r) = Line(forced[r]) /\ Lead(r) = {1}
  BY <1>0, <1>1, HandFacts
<1>4. Hand(r)' = Line(forced[r]) /\ Lead(r)' = {1}
  BY <1>1, <1>2 DEF Hand, Lead, Line
<1>5. FreshRun(r)'
  BY <1>2 DEF FreshRun
<1>6. Fits(Line(forced[r]), {1}, pending, Answered, Settled)
  BY <1>0, <1>3
<1>7. /\ Paired(pending', Answered', Settled')
      /\ Fits(Line(forced[r]), {1}, pending', Answered', Settled')
  BY <1>0, <1>2, <1>6, LineStays
<1>8. \A c \in used' : \/ c \in Settled'
                       \/ \E i \in DOMAIN pending' : c \in Calls(pending'[i])
                       \/ c \in ToSet(Hand(r)')
  BY <1>0, <1>2, <1>3, <1>4, CoveredInRun
<1> QED
  BY <1>0, <1>4, <1>5, <1>7, <1>8, LostFrom

LEMMA LostNext ==
  ASSUME Onward, NEW r \in Run, ReplayNext(r)
  PROVE  Lost'
<1>0. /\ Types /\ Modes /\ Acts(r) /\ AgentStep(r)
      /\ Fits(Hand(r), Lead(r), pending, Answered, Settled)
  BY OnwardFacts DEF Acts, AgentStep
<1>1. PICK left \in Seq(Call) : Continues(r, left)
  BY <1>0, ReplayNextFacts
<1>2. /\ left # <<>> /\ Head(left) \in Call /\ Tail(left) \in Seq(Call)
      /\ Replays(r, Head(left), Tail(left))
  BY <1>1 DEF Continues
<1>3. PICK f : Selects(f, left, done[r], Unanswered(r))
  BY <1>1 DEF Continues
<1>4. /\ pc[r] = "reason" /\ todo'[r] = <<Head(left)>> /\ queue'[r] = Tail(left) /\ active'[r]
      /\ queue'[r] # None /\ pending' = pending /\ used' = used
  BY <1>0, <1>2, ReplaysFacts
<1>5. forced[r] = None /\ forced'[r] = None /\ done[r] \in Seq(Call)
  BY <1>0, <1>1, LeftFacts, ReplayNextFacts DEF Modes, Mode, Types
<1>6. Hand(r) = done[r]
  BY <1>0, <1>4, <1>5, HandFacts
<1>7. Hand(r)' = left /\ Lead(r)' = {1}
  <2>1. Hand(r)' = <<Head(left)>> \o Tail(left) /\ Lead(r)' = {1}
    BY <1>4, <1>5 DEF Hand, Lead
  <2> QED
    BY <1>2, <2>1, ConsTail
<1>8. Answered = memory[r].results /\ Answered \subseteq Settled
  BY <1>0, AnswersMove DEF Settled
<1>9. Fits(left, {1}, pending, Answered, Settled)
  <2>1. PICK g : Thins(g, pending, pending)
    BY ThinsItself
  <2>2. Fits(done[r], {}, pending, Answered, Settled)
    BY <1>0, <1>6, <2>1, FitsThins
  <2>3. Unanswered(r) = {i \in DOMAIN done[r] : done[r][i] \notin Answered}
    BY <1>8 DEF Unanswered
  <2> QED
    BY <1>3, <1>5, <1>8, <2>2, <2>3, FitsLeft
<1>10. FreshRun(r)'
  BY <1>4 DEF FreshRun
<1>11. /\ Paired(pending', Answered', Settled')
       /\ Fits(left, {1}, pending', Answered', Settled')
  BY <1>0, <1>4, <1>9, LineStays
<1>12. \A c \in used' : \/ c \in Settled'
                        \/ \E i \in DOMAIN pending' : c \in Calls(pending'[i])
                        \/ c \in ToSet(Hand(r)')
  <2>1. \A c \in ToSet(done[r]) : c \in ToSet(left) \/ c \in Settled'
    BY <1>0, <1>1, <1>8, LeftFacts, SettledGrows
  <2> QED
    BY <1>0, <1>4, <1>6, <1>7, <2>1, CoveredInRun
<1> QED
  BY <1>0, <1>7, <1>10, <1>11, <1>12, LostFrom

\* What a run has in hand when there is nothing to replay is settled.
LEMMA ReplayedFacts ==
  ASSUME Onward, NEW r \in Run, AgentStep(r), pc[r] = "reason", Unanswered(r) = {}, forced[r] = None
  PROVE  /\ Hand(r) = done[r] /\ done[r] \in Seq(Call)
         /\ ToSet(done[r]) \subseteq Answered
         /\ \A c \in used : c \in Settled' \/ \E i \in DOMAIN pending : c \in Calls(pending[i])
<1>0. Types /\ Modes /\ Acts(r)
  BY OnwardFacts DEF Acts
<1>1. Hand(r) = done[r] /\ done[r] \in Seq(Call)
  BY <1>0, HandFacts DEF Types
<1>2. Answered = memory[r].results /\ Answered \subseteq Settled'
  BY <1>0, AnswersMove, SettledGrows DEF Settled
<1>3. ToSet(done[r]) \subseteq Answered
  BY <1>2 DEF Unanswered, ToSet
<1> QED
  BY <1>0, <1>1, <1>2, <1>3, CoveredInRun

LEMMA LostFinish ==
  ASSUME Onward, NEW r \in Run, Finish(r)
  PROVE  Lost'
<1>0. /\ Types /\ Modes /\ Acts(r) /\ AgentStep(r)
      /\ Fits(Hand(r), Lead(r), pending, Answered, Settled)
  BY OnwardFacts DEF Acts, AgentStep
<1>1. pc[r] = "reason" /\ Unanswered(r) = {} /\ forced[r] = None /\ End(r, memory[r])
  BY DEF Finish, Replayed
<1>2. /\ forced'[r] = None /\ todo'[r] = <<>> /\ queue'[r] = None /\ done'[r] = <<>>
      /\ pending' = pending /\ used' = used
  BY <1>0, <1>1, EndFacts
<1>3. Hand(r)' = <<>> /\ FreshRun(r)'
  BY <1>2, NothingInHand
<1>4. Paired(pending', Answered', Settled')
  BY <1>0, <1>2, LineStays
<1> QED
  BY <1>0, <1>1, <1>2, <1>3, <1>4, ReplayedFacts, FitsEmpty, LostFrom

LEMMA LostExecute ==
  ASSUME Onward, NEW r \in Run, Execute(r)
  PROVE  Lost'
<1>0. /\ Types /\ Modes /\ Acts(r) /\ AgentStep(r) /\ Fresh
      /\ Fits(Hand(r), Lead(r), pending, Answered, Settled)
  BY OnwardFacts DEF Acts, AgentStep
<1>1. /\ pc[r] = "act" /\ pc' = [pc EXCEPT ![r] = "exec"]
      /\ memory'[r].results = memory[r].results
      /\ UNCHANGED <<pending, forced, todo, queue, active, done, saved, used>>
  BY <1>0, ExecuteFacts
<1>2. Hand(r)' = Hand(r) /\ Lead(r)' = Lead(r)
  BY <1>1 DEF Hand, Lead
<1>3. Answered' = Answered /\ Settled \subseteq Settled'
  <2>1. pc'[r] # "off"
    BY <1>0, <1>1 DEF Types
  <2> QED
    BY <1>0, <1>1, <2>1, AnswersMove, SettledGrows
<1>4. FreshRun(r)'
  <2>1. FreshRun(r)
    BY <1>0 DEF Fresh
  <2> QED
    BY <1>1, <1>3, <2>1 DEF FreshRun
<1>5. /\ Paired(pending', Answered', Settled')
      /\ Fits(Hand(r), Lead(r), pending', Answered', Settled')
  <2>1. PICK w, K : w = Hand(r) /\ K = Lead(r)
    OBVIOUS
  <2>2. Fits(w, K, pending, Answered, Settled)
    BY <1>0, <2>1
  <2>3. Paired(pending', Answered', Settled') /\ Fits(w, K, pending', Answered', Settled')
    BY <1>0, <1>1, <2>2, LineStays
  <2> QED
    BY <2>1, <2>3
<1>6. \A c \in used' : \/ c \in Settled'
                       \/ \E i \in DOMAIN pending' : c \in Calls(pending'[i])
                       \/ c \in ToSet(Hand(r)')
  BY <1>0, <1>1, <1>2, CoveredInRun
<1> QED
  BY <1>0, <1>2, <1>4, <1>5, <1>6, LostFrom

\* The calls of the requests have been made; the first of each is its own.
LEMMA RequestKnown ==
  ASSUME Onward, NEW i \in DOMAIN pending
  PROVE  /\ pending[i] \in Record
         /\ Line(pending[i]) \in Seq(Call) /\ Line(pending[i]) # <<>>
         /\ Head(Line(pending[i])) = pending[i].call
         /\ ToSet(Line(pending[i])) = Calls(pending[i])
         /\ Calls(pending[i]) \subseteq used
         /\ \A j \in 1..Len(Line(pending[i])) : Line(pending[i])[j] \in Calls(pending[i])
         /\ Line(pending[i])[1] = pending[i].call
<1>1. pending[i] \in Record
  BY OnwardFacts, ElementFacts DEF Types
<1>2. /\ Line(pending[i]) \in Seq(Call) /\ Line(pending[i]) # <<>>
      /\ Head(Line(pending[i])) = pending[i].call
      /\ ToSet(Line(pending[i])) = Calls(pending[i])
  BY <1>1, LineFacts
<1>3. Calls(pending[i]) \subseteq used
  BY OnwardFacts DEF Known
<1>4. /\ DOMAIN Line(pending[i]) = 1..Len(Line(pending[i]))
      /\ \A j \in DOMAIN Line(pending[i]) : Line(pending[i])[j] \in ToSet(Line(pending[i]))
  BY <1>2, ElementFacts
<1>5. Head(Line(pending[i])) = Line(pending[i])[1]
  BY <1>2, TailFacts
<1> QED
  BY <1>1, <1>2, <1>3, <1>4, <1>5

\* A request whose call is in a line that is settled is settled.
LEMMA RequestSettled ==
  ASSUME Onward, NEW w \in Seq(Call), NEW K, Fits(w, K, pending, Answered, Settled),
         NEW i \in DOMAIN pending, pending[i].call \in ToSet(w)
  PROVE  Calls(pending[i]) \subseteq ToSet(w) \cup Settled
<1>1. Agree(Line(pending[i]), w, {1}, Answered, Settled)
  BY DEF Fits
<1> QED
  BY <1>1, RequestKnown, AgreeHead

LEMMA LostThink ==
  ASSUME Onward, NEW r \in Run, Think(r)
  PROVE  Lost'
<1>0. /\ Types /\ Types' /\ Modes /\ Known /\ Acts(r) /\ AgentStep(r) /\ Fresh
      /\ Fits(Hand(r), Lead(r), pending, Answered, Settled)
  BY OnwardFacts DEF Acts, AgentStep
<1>1. /\ pc[r] = "reason" /\ forced[r] = None /\ ~blocked[r] /\ Unanswered(r) = {}
      /\ pc' = [pc EXCEPT ![r] = "act"]
      /\ done' = [done EXCEPT ![r] = <<>>]
      /\ UNCHANGED <<pending, forced, queue, active, memory, saved, waived>>
  BY <1>0, ThinkFacts
<1>2. PICK m \in Messages : Speaks(r, m)
  BY <1>0, ThinkFacts
<1>3. /\ m \in Seq(Call) /\ m # <<>> /\ ToSet(m) \subseteq Call \ used
      /\ \A k \in 1..Len(m) : m[k] \in ToSet(m)
      /\ DOMAIN m = 1..Len(m)
  BY <1>0, MessageFacts, ElementFacts
<1>4. todo'[r] = m /\ done'[r] = <<>> /\ pc'[r] = "act" /\ used' = used \cup ToSet(m)
  BY <1>0, <1>1, <1>2 DEF Speaks, Types
<1>5. ~active[r] /\ ~active'[r]
  BY <1>0, <1>1 DEF Modes, Mode
<1>6. Hand(r)' = m /\ Lead(r)' = {}
  BY <1>1, <1>3, <1>4, <1>5 DEF Hand, Lead
<1>7. /\ Hand(r) = done[r] /\ done[r] \in Seq(Call) /\ ToSet(done[r]) \subseteq Answered
      /\ \A c \in used : c \in Settled' \/ \E i \in DOMAIN pending : c \in Calls(pending[i])
  BY <1>0, <1>1, ReplayedFacts
<1>8. /\ Answered = memory[r].results /\ Answered' = memory[r].results
      /\ Answered \subseteq used /\ Answered \subseteq Settled /\ Settled \subseteq Settled'
  <2>1. pc'[r] # "off"
    BY <1>4
  <2>2. Answered = memory[r].results /\ Answered' = memory[r].results
    BY <1>0, <1>1, <2>1, AnswersMove
  <2>3. memory[r].results \subseteq used
    BY <1>0 DEF Known, Knows
  <2> QED
    BY <1>0, <2>2, <2>3, SettledGrows DEF Settled
<1>9. Fits(m, {}, pending, Answered, Settled)
  <2> SUFFICES ASSUME NEW i \in DOMAIN pending
               PROVE  /\ Agree(Line(pending[i]), m, {1}, Answered, Settled)
                      /\ Agree(m, Line(pending[i]), {}, Answered, Settled)
    BY DEF Fits
  <2>1. \A j \in 1..Len(Line(pending[i])), k \in 1..Len(m) : Line(pending[i])[j] # m[k]
    BY <1>3, RequestKnown
  <2> QED
    BY <2>1, AgreeApart
<1>10. FreshRun(r)'
  <2>1. \A k \in DOMAIN m : m[k] \notin Answered'
    BY <1>3, <1>8
  <2>2. ASSUME queue[r] # None, NEW i \in DOMAIN pending
        PROVE  /\ ToSet(m) \cap Calls(pending[i]) = {}
               /\ pending[i].call \in ToSet(queue[r]) => Calls(pending[i]) \subseteq Settled'
    <3>1. ToSet(m) \cap Calls(pending[i]) = {}
      BY <1>3, RequestKnown
    <3>2. CASE done[r] = <<>>
      BY <1>0, <1>5, <1>8, <2>2, <3>1, <3>2 DEF Fresh, FreshRun
    <3>3. CASE done[r] # <<>>
      <4>1. queue[r] = done[r]
        BY <1>0, <3>3 DEF Modes, Mode
      <4>2. Fits(done[r], Lead(r), pending, Answered, Settled)
        BY <1>0, <1>7
      <4>3. pending[i].call \in ToSet(done[r]) =>
              Calls(pending[i]) \subseteq ToSet(done[r]) \cup Settled
        BY <1>7, <4>2, RequestSettled
      <4> QED
        BY <1>7, <1>8, <3>1, <4>1, <4>3
    <3> QED
      BY <3>2, <3>3
  <2> QED
    BY <1>1, <1>4, <2>1, <2>2 DEF FreshRun
<1>11. /\ Paired(pending', Answered', Settled')
       /\ Fits(m, {}, pending', Answered', Settled')
  BY <1>0, <1>1, <1>9, LineStays
<1>12. \A c \in used' : \/ c \in Settled'
                        \/ \E i \in DOMAIN pending' : c \in Calls(pending'[i])
                        \/ c \in ToSet(Hand(r)')
  BY <1>1, <1>4, <1>6, <1>7
<1> QED
  BY <1>0, <1>6, <1>10, <1>11, <1>12, LostFrom

LEMMA SingleTail ==
  ASSUME NEW s \in Seq(Call), NEW x, s = <<x>>
  PROVE  Tail(s) = <<>>
<1>1. Len(s) = 1 /\ s # <<>>
  OBVIOUS
<1>2. Tail(s) \in Seq(Call) /\ Len(Tail(s)) = 0
  BY <1>1, TailFacts
<1> QED
  BY <1>2, ElementFacts

LEMMA LostResult ==
  ASSUME Onward, NEW r \in Run, Result(r)
  PROVE  Lost'
<1>0. /\ Types /\ Types' /\ Modes /\ Modes' /\ Once /\ Acts(r) /\ AgentStep(r) /\ Fresh
      /\ Fits(Hand(r), Lead(r), pending, Answered, Settled)
  BY OnwardFacts DEF Acts, AgentStep
<1>1. /\ pc[r] = "exec" /\ Head(todo[r]) \in Call
      /\ memory'[r].results = memory[r].results \cup {Head(todo[r])}
      /\ active[r] => queue[r] # None /\ done' = [done EXCEPT ![r] = queue[r]]
      /\ ~active[r] => done' = done
      /\ active' = [active EXCEPT ![r] = FALSE]
      /\ todo' = [todo EXCEPT ![r] = Tail(@)]
      /\ pc' = [pc EXCEPT ![r] = IF Len(todo[r]) = 1 THEN "reason" ELSE "act"]
      /\ UNCHANGED <<pending, forced, queue, saved, used, waived>>
  BY <1>0, ResultFacts
<1>2. /\ todo[r] \in Seq(Call) /\ todo[r] # <<>> /\ IsInjective(todo[r])
      /\ forced[r] = None /\ done[r] = <<>>
  BY <1>0, <1>1, HeadFacts DEF Once, Modes, Mode
<1>3. todo'[r] = Tail(todo[r]) /\ ~active'[r] /\ pc'[r] # "off" /\ forced'[r] = None
  BY <1>0, <1>1, <1>2 DEF Types
<1>4. Answered' = Answered \cup {Head(todo[r])} /\ Settled \subseteq Settled'
  BY <1>0, <1>1, <1>3, AnswersMove, SettledGrows
<1>5. Answered' \subseteq Settled'
  BY DEF Settled
<1>6. /\ Hand(r) \in Seq(Call) /\ Hand(r) # <<>> /\ Head(Hand(r)) = Head(todo[r])
      /\ Hand(r)' = Tail(Hand(r)) /\ Lead(r)' = {}
  <2>1. CASE active[r]
    <3>1. /\ Hand(r) = <<Head(todo[r])>> \o queue[r] /\ queue[r] \in Seq(Call)
          /\ todo[r] = <<Head(todo[r])>>
      BY <1>0, <1>1, <2>1, HandFacts
    <3>2. Tail(todo[r]) = <<>>
      BY <1>2, <3>1, SingleTail
    <3>3. Hand(r)' = queue[r]
      BY <1>0, <1>1, <1>3, <2>1, <3>2 DEF Hand, Types
    <3> QED
      BY <1>1, <1>3, <3>1, <3>3, ConsFacts DEF Lead
  <2>2. CASE ~active[r]
    <3>1. Hand(r) = todo[r]
      BY <1>0, <1>1, <2>2, HandFacts
    <3>2. Hand(r)' = Tail(todo[r]) /\ Lead(r)' = {}
      BY <1>1, <1>2, <1>3, <2>2 DEF Hand, Lead
    <3> QED
      BY <1>2, <3>1, <3>2
  <2> QED
    BY <2>1, <2>2
<1>7. Fits(Tail(Hand(r)), {}, pending, Answered, Settled)
  BY <1>0, <1>6, FitsTail
<1>8. /\ Paired(pending', Answered', Settled')
      /\ Fits(Hand(r)', {}, pending', Answered', Settled')
  <2>1. PICK w : w = Tail(Hand(r))
    OBVIOUS
  <2>2. /\ Paired(pending', Answered', Settled')
        /\ Fits(w, {}, pending', Answered', Settled')
    BY <1>0, <1>1, <1>7, <2>1, LineStays
  <2> QED
    BY <1>6, <2>1, <2>2
<1>9. FreshRun(r)'
  <2>1. CASE active[r]
    <3>1. todo[r] = <<Head(todo[r])>>
      BY <1>0, <1>1, <2>1, HandFacts
    <3>2. todo'[r] = <<>>
      BY <1>2, <1>3, <3>1, SingleTail
    <3>3. done'[r] = queue[r]
      BY <1>0, <1>1, <2>1 DEF Types
    <3>4. <<>> \in Seq(Call)
      OBVIOUS
    <3>5. DOMAIN todo'[r] = {} /\ ToSet(<<>>) = {}
      BY <3>2, <3>4, ElementFacts
    <3> QED
      BY <1>1, <3>2, <3>3, <3>5 DEF FreshRun
  <2>2. CASE ~active[r]
    <3>1. FreshRun(r)
      BY <1>0 DEF Fresh
    <3>2. \A k \in DOMAIN todo[r] : k > 1 => todo[r][k] \notin Answered /\ todo[r][k] # Head(todo[r])
      BY <1>2, <2>2, <3>1, InjectiveTail DEF FreshRun
    <3>3. \A k \in DOMAIN Tail(todo[r]) : /\ k + 1 \in DOMAIN todo[r] /\ k + 1 > 1
                                         /\ Tail(todo[r])[k] = todo[r][k + 1]
      BY <1>2, TailFacts, ElementFacts
    <3>4. \A k \in DOMAIN Tail(todo[r]) : Tail(todo[r])[k] \notin Answered'
      BY <1>4, <3>2, <3>3
    <3>5. ToSet(Tail(todo[r])) \subseteq ToSet(todo[r])
      BY <1>2, TailFacts
    <3> QED
      BY <1>1, <1>2, <1>3, <1>4, <2>2, <3>1, <3>4, <3>5 DEF FreshRun
  <2> QED
    BY <2>1, <2>2
<1>10. \A c \in used' : \/ c \in Settled'
                        \/ \E i \in DOMAIN pending' : c \in Calls(pending'[i])
                        \/ c \in ToSet(Hand(r)')
  <2>1. \A c \in ToSet(Hand(r)) : c = Head(todo[r]) \/ c \in ToSet(Hand(r)')
    BY <1>6, TailFacts
  <2> QED
    BY <1>0, <1>1, <1>4, <1>5, <2>1, CoveredInRun
<1> QED
  BY <1>0, <1>6, <1>8, <1>9, <1>10, LostFrom

\* The requests that the call at the head of run r supersedes.
Stale(r) == {Head(todo[r])} \cup ToSet(Queued(r))

\* What has to be shown of a run that asks.
LEMMA LostRequestFrom ==
  ASSUME Onward, NEW r \in Run, Request(r),
         NEW old \in Seq(Record), NEW f, Files(old, f, Wanted(r), Stale(r)),
         Fits(Line(Wanted(r)), {1}, old, Answered', Settled'),
         Fits(Hand(r)', Lead(r)', old, Answered', Settled'),
         Agree(Line(Wanted(r)), Hand(r)', {1}, Answered', Settled'),
         Agree(Hand(r)', Line(Wanted(r)), Lead(r)', Answered', Settled'),
         FreshRun(r)',
         ToSet(Hand(r)) \subseteq Calls(Wanted(r)) \cup ToSet(Hand(r)'),
         \A k \in DOMAIN pending :
           pending[k].call \in Stale(r) =>
             Calls(pending[k]) \subseteq Calls(Wanted(r)) \cup Settled'
  PROVE  Lost'
<1>0. /\ Types /\ Distinct /\ Modes /\ Acts(r) /\ Paired(pending, Answered, Settled)
  BY OnwardFacts DEF Acts, AgentStep
<1>1. /\ pending' = Append(old, Wanted(r)) /\ Thins(f, old, pending)
      /\ \A k \in DOMAIN pending : \/ pending[k].call \in Stale(r)
                                  \/ Calls(pending[k]) \subseteq waived'
                                  \/ \E i \in DOMAIN old : f[i] = k
  BY DEF Files
<1>2. Wanted(r) \in Record /\ used' = used
  BY <1>0, WantedFacts, RequestFacts
<1>3. Answered \subseteq Answered' /\ Settled \subseteq Settled' /\ waived' \subseteq Settled'
  BY <1>0, SettledGrows DEF Settled
<1>4. Paired(old, Answered', Settled')
  BY <1>0, <1>1, <1>3, PairedThins
<1>5. Paired(pending', Answered', Settled')
  BY <1>1, <1>2, <1>4, PairedAppend
<1>6. Fits(Hand(r)', Lead(r)', pending', Answered', Settled')
  BY <1>1, <1>2, FitsAppend
<1>7. /\ \E i \in DOMAIN pending' : pending'[i] = Wanted(r)
      /\ \A i \in DOMAIN old : i \in DOMAIN pending' /\ pending'[i] = old[i]
  BY <1>1, <1>2, AppendFacts
<1>8. ASSUME NEW k \in DOMAIN pending, NEW c \in Calls(pending[k])
      PROVE  c \in Settled' \/ \E i \in DOMAIN pending' : c \in Calls(pending'[i])
  <2>1. CASE pending[k].call \in Stale(r)
    BY <1>7, <1>8, <2>1
  <2>2. CASE Calls(pending[k]) \subseteq waived'
    BY <1>3, <1>8, <2>2
  <2>3. CASE \E i \in DOMAIN old : f[i] = k
    <3>1. PICK i \in DOMAIN old : f[i] = k
      BY <2>3
    <3>2. old[i] = pending[k]
      BY <1>1, <3>1 DEF Thins
    <3> QED
      BY <1>7, <1>8, <3>1, <3>2
  <2> QED
    BY <1>1, <2>1, <2>2, <2>3
<1>9. \A c \in used' : \/ c \in Settled'
                       \/ \E i \in DOMAIN pending' : c \in Calls(pending'[i])
                       \/ c \in ToSet(Hand(r)')
  BY <1>0, <1>2, <1>7, <1>8, CoveredInRun
<1> QED
  BY <1>0, <1>5, <1>6, <1>9, LostFrom

\* A line whose head has no result.
LEMMA FitsLead ==
  ASSUME NEW w, NEW K, NEW P, NEW A, NEW S, Fits(w, K, P, A, S), w[1] \notin A
  PROVE  Fits(w, {1}, P, A, S)
BY DEF Fits, Agree

\* What holds however a run asks.
LEMMA AskFacts ==
  ASSUME Onward, NEW r \in Run, Request(r)
  PROVE  /\ pc[r] = "act" /\ forced[r] = None /\ done[r] = <<>>
         /\ forced'[r] = None /\ done'[r] = <<>> /\ queue'[r] = None /\ active'[r] = active[r]
         /\ todo'[r] = Tail(todo[r])
         /\ todo[r] \in Seq(Call) /\ todo[r] # <<>> /\ IsInjective(todo[r])
         /\ Head(todo[r]) = todo[r][1] /\ Head(todo[r]) \in Call
         /\ Answered' = Answered /\ Settled \subseteq Settled'
         /\ queue[r] # None => queue[r] \in Seq(Call) /\ Stale(r) = {Head(todo[r])} \cup ToSet(queue[r])
         /\ queue[r] # None => Line(Wanted(r)) = <<Head(todo[r])>> \o queue[r]
         /\ queue[r] = None => Stale(r) = {Head(todo[r])}
         /\ queue[r] = None => Line(Wanted(r)) = todo[r]
         /\ FreshRun(r) /\ Fits(Hand(r), Lead(r), pending, Answered, Settled)
         /\ Wanted(r) \in Record
         /\ \E old \in Seq(Record) : \E f : Files(old, f, Wanted(r), Stale(r))
<1>0. /\ Types /\ Types' /\ Distinct /\ Modes /\ Once /\ AgentStep(r) /\ Acts(r) /\ Fresh
      /\ Fits(Hand(r), Lead(r), pending, Answered, Settled)
  BY OnwardFacts DEF Acts, AgentStep
<1>1. /\ pc[r] = "act"
      /\ queue' = [queue EXCEPT ![r] = None]
      /\ memory' = [memory EXCEPT ![r].denials = @ \cup {Head(todo[r])}]
      /\ todo' = [todo EXCEPT ![r] = Tail(@)]
      /\ pc' = [pc EXCEPT ![r] = IF Len(todo[r]) = 1 THEN "reason" ELSE "act"]
      /\ UNCHANGED <<forced, active, done>>
  BY <1>0, RequestFacts
<1>2. /\ todo[r] \in Seq(Call) /\ todo[r] # <<>> /\ IsInjective(todo[r])
      /\ Head(todo[r]) = todo[r][1] /\ Head(todo[r]) \in Call
      /\ forced[r] = None /\ done[r] = <<>>
  BY <1>0, <1>1, HeadFacts DEF Once, Modes, Mode
<1>3. /\ forced'[r] = None /\ done'[r] = <<>> /\ queue'[r] = None /\ active'[r] = active[r]
      /\ todo'[r] = Tail(todo[r])
  BY <1>0, <1>1, <1>2 DEF Types
<1>4. Answered' = Answered /\ Settled \subseteq Settled'
  <2>1. pc'[r] # "off"
    BY <1>0, <1>1 DEF Types
  <2>2. memory'[r].results = memory[r].results
    BY <1>0, <1>1 DEF Types, Memory
  <2> QED
    BY <1>0, <2>1, <2>2, AnswersMove, SettledGrows
<1>5. Wanted(r).call = Head(todo[r]) /\ Wanted(r).rest = Rest(r) /\ Wanted(r) \in Record
  BY <1>0, WantedFacts
<1>6. queue[r] # None => /\ queue[r] \in Seq(Call)
                         /\ Stale(r) = {Head(todo[r])} \cup ToSet(queue[r])
                         /\ Line(Wanted(r)) = <<Head(todo[r])>> \o queue[r]
  <2>1. queue[r] # None => Rest(r) = queue[r] /\ Queued(r) = queue[r]
    BY <1>0, <1>1, RestFacts
  <2>2. queue[r] # None => queue[r] \in Seq(Call)
    BY <1>0 DEF Types
  <2> QED
    BY <1>5, <2>1, <2>2 DEF Stale, Line
<1>7. queue[r] = None => /\ Stale(r) = {Head(todo[r])}
                         /\ Line(Wanted(r)) = todo[r]
  <2>1. <<>> \in Seq(Call)
    OBVIOUS
  <2>2. ToSet(<<>>) = {}
    BY <2>1, ElementFacts
  <2>3. <<Head(todo[r])>> \o Tail(todo[r]) = todo[r]
    BY <1>2, ConsTail
  <2> QED
    BY <1>0, <1>1, <1>5, <2>2, <2>3, RestFacts DEF Stale, Line
<1>8. \E old \in Seq(Record) : \E f : Files(old, f, Wanted(r), Stale(r))
  BY <1>0, RequestFacts DEF Wanted, Stale
<1>9. FreshRun(r)
  BY <1>0 DEF Fresh
<1> QED
  BY <1>0, <1>1, <1>2, <1>3, <1>4, <1>5, <1>6, <1>7, <1>8, <1>9

\* A replay that is asked about: the request takes over what was in hand.
LEMMA LostReplayAsks ==
  ASSUME Onward, NEW r \in Run, Request(r), active[r]
  PROVE  Lost'
<1>0. Types /\ Modes
  BY OnwardFacts
<1>1. /\ pc[r] = "act" /\ forced'[r] = None /\ done'[r] = <<>> /\ queue'[r] = None /\ active'[r]
      /\ todo'[r] = Tail(todo[r]) /\ todo[r] \in Seq(Call)
      /\ Answered' = Answered /\ Settled \subseteq Settled' /\ Wanted(r) \in Record
  BY AskFacts
<1>2. /\ Hand(r) = <<Head(todo[r])>> \o queue[r] /\ Lead(r) = {1} /\ queue[r] \in Seq(Call)
      /\ todo[r] = <<Head(todo[r])>>
  BY <1>0, <1>1, HandFacts
<1>3. queue[r] # None
  BY <1>0, <1>1 DEF Modes, Mode
<1>4. /\ Hand(r) = Line(Wanted(r)) /\ Stale(r) = {Head(todo[r])} \cup ToSet(queue[r])
      /\ Fits(Hand(r), {1}, pending, Answered, Settled)
  BY <1>2, <1>3, AskFacts
<1>5. /\ Hand(r) \in Seq(Call) /\ ToSet(Hand(r)) = Stale(r) /\ ToSet(Hand(r)) = Calls(Wanted(r))
  <2>1. ToSet(<<Head(todo[r])>> \o queue[r]) = {Head(todo[r])} \cup ToSet(queue[r])
    BY <1>2, AskFacts, ConsFacts
  <2> QED
    BY <1>1, <1>2, <1>4, <2>1, LineFacts
<1>6. todo'[r] = <<>>
  BY <1>1, <1>2, SingleTail
<1>7. Hand(r)' = <<>> /\ FreshRun(r)'
  BY <1>1, <1>6, NothingInHand
<1>8. PICK old \in Seq(Record) : \E f : Files(old, f, Wanted(r), Stale(r))
  BY AskFacts
<1>9. PICK f : Files(old, f, Wanted(r), Stale(r))
  BY <1>8
<1>10. Fits(Line(Wanted(r)), {1}, old, Answered', Settled')
  <2>1. Thins(f, old, pending)
    BY <1>9 DEF Files
  <2>2. Fits(Line(Wanted(r)), {1}, pending, Answered, Settled)
    BY <1>4
  <2> QED
    BY <1>1, <2>1, <2>2, FitsThins
<1>11. Fits(Hand(r)', Lead(r)', old, Answered', Settled')
  BY <1>7, FitsEmpty
<1>12. /\ Agree(Line(Wanted(r)), Hand(r)', {1}, Answered', Settled')
       /\ Agree(Hand(r)', Line(Wanted(r)), Lead(r)', Answered', Settled')
  BY <1>7, AgreeEmpty
<1>13. ASSUME NEW k \in DOMAIN pending, pending[k].call \in Stale(r)
       PROVE  Calls(pending[k]) \subseteq Calls(Wanted(r)) \cup Settled'
  <2>1. Calls(pending[k]) \subseteq ToSet(Hand(r)) \cup Settled
    BY <1>4, <1>5, <1>13, RequestSettled
  <2> QED
    BY <1>1, <1>5, <2>1
<1> QED
  BY <1>5, <1>7, <1>9, <1>10, <1>11, <1>12, <1>13, LostRequestFrom

\* What is in hand of a message when its head is asked about.
LEMMA MessageAsks ==
  ASSUME Onward, NEW r \in Run, Request(r), ~active[r]
  PROVE  /\ Hand(r) = todo[r] /\ Lead(r) = {}
         /\ Hand(r)' = Tail(todo[r]) /\ Lead(r)' = {}
         /\ Tail(todo[r]) \in Seq(Call)
         /\ FreshRun(r)'
         /\ Head(todo[r]) \notin Answered /\ todo[r][1] \notin Answered
         /\ ToSet(todo[r]) \subseteq Calls(Wanted(r)) \cup ToSet(Tail(todo[r]))
         /\ \A P : Fits(todo[r], {}, P, Answered, Settled)
                     => Fits(Tail(todo[r]), {}, P, Answered, Settled)
<1>0. Types /\ Modes
  BY OnwardFacts
<1>1. /\ pc[r] = "act" /\ forced[r] = None
      /\ forced'[r] = None /\ done'[r] = <<>> /\ queue'[r] = None /\ active'[r] = active[r]
      /\ todo'[r] = Tail(todo[r])
      /\ todo[r] \in Seq(Call) /\ todo[r] # <<>>
      /\ Head(todo[r]) = todo[r][1] /\ Head(todo[r]) \in Call
      /\ Answered' = Answered /\ FreshRun(r)
  BY AskFacts
<1>2. Hand(r) = todo[r] /\ Lead(r) = {}
  BY <1>0, <1>1, HandFacts
<1>3. Hand(r)' = Tail(todo[r]) /\ Lead(r)' = {}
  BY <1>1 DEF Hand, Lead
<1>4. /\ Tail(todo[r]) \in Seq(Call) /\ 1 \in DOMAIN todo[r]
      /\ \A k \in DOMAIN Tail(todo[r]) : /\ k + 1 \in DOMAIN todo[r]
                                        /\ Tail(todo[r])[k] = todo[r][k + 1]
      /\ \A x \in ToSet(todo[r]) : x = Head(todo[r]) \/ x \in ToSet(Tail(todo[r]))
  BY <1>1, TailFacts
<1>5. \A k \in DOMAIN todo[r] : todo[r][k] \notin Answered
  BY <1>1 DEF FreshRun
<1>6. FreshRun(r)'
  BY <1>1, <1>4, <1>5 DEF FreshRun
<1>7. Wanted(r).call = Head(todo[r])
  BY DEF Wanted
<1>8. Head(todo[r]) \in Calls(Wanted(r))
  BY <1>7 DEF Calls
<1>9. \A P : Fits(todo[r], {}, P, Answered, Settled)
               => Fits(Tail(todo[r]), {}, P, Answered, Settled)
  BY <1>1, FitsTail
<1> QED
  BY <1>1, <1>2, <1>3, <1>4, <1>5, <1>6, <1>8, <1>9

\* The first risky call of a message: the rest of the message is asked about with it.
LEMMA LostMessageAsks ==
  ASSUME Onward, NEW r \in Run, Request(r), ~active[r], queue[r] = None
  PROVE  Lost'
<1>1. /\ todo[r] \in Seq(Call) /\ todo[r] # <<>> /\ IsInjective(todo[r])
      /\ Answered' = Answered /\ Settled \subseteq Settled' /\ Wanted(r) \in Record
      /\ Stale(r) = {Head(todo[r])} /\ Line(Wanted(r)) = todo[r]
      /\ Fits(Hand(r), Lead(r), pending, Answered, Settled)
  BY AskFacts
<1>2. /\ Hand(r) = todo[r] /\ Lead(r) = {}
      /\ Hand(r)' = Tail(todo[r]) /\ Lead(r)' = {}
      /\ FreshRun(r)' /\ todo[r][1] \notin Answered
      /\ ToSet(todo[r]) \subseteq Calls(Wanted(r)) \cup ToSet(Tail(todo[r]))
      /\ \A P : Fits(todo[r], {}, P, Answered, Settled)
                  => Fits(Tail(todo[r]), {}, P, Answered, Settled)
  BY MessageAsks
<1>3. /\ Fits(todo[r], {}, pending, Answered, Settled)
      /\ Fits(todo[r], {1}, pending, Answered, Settled)
      /\ Fits(Tail(todo[r]), {}, pending, Answered, Settled)
  BY <1>1, <1>2, FitsLead
<1>4. PICK old \in Seq(Record) : \E f : Files(old, f, Wanted(r), Stale(r))
  BY AskFacts
<1>5. PICK f : Files(old, f, Wanted(r), Stale(r))
  BY <1>4
<1>6. Thins(f, old, pending)
  BY <1>5 DEF Files
<1>7. Fits(Line(Wanted(r)), {1}, old, Answered', Settled')
  BY <1>1, <1>3, <1>6, FitsThins
<1>8. Fits(Tail(todo[r]), {}, old, Answered', Settled')
  BY <1>1, <1>3, <1>6, FitsThins
<1>9. /\ Agree(todo[r], Tail(todo[r]), {1}, Answered', Settled')
      /\ Agree(Tail(todo[r]), todo[r], {}, Answered', Settled')
  BY <1>1, AgreeSelf
<1>10. ASSUME NEW k \in DOMAIN pending, pending[k].call \in Stale(r)
       PROVE  Calls(pending[k]) \subseteq Calls(Wanted(r)) \cup Settled'
  <2>1. pending[k].call \in ToSet(todo[r])
    BY <1>1, <1>10, TailFacts
  <2>2. Calls(pending[k]) \subseteq ToSet(todo[r]) \cup Settled
    BY <1>1, <1>3, <2>1, RequestSettled
  <2>3. ToSet(todo[r]) = Calls(Wanted(r))
    BY <1>1, LineFacts
  <2> QED
    BY <1>1, <2>2, <2>3
<1> QED
  BY <1>1, <1>2, <1>5, <1>7, <1>8, <1>9, <1>10, LostRequestFrom

\* A message after a replay: what the replay has left in its queue is taken for
\* what follows the call, and is settled.
LEMMA LostLeftoverAsks ==
  ASSUME Onward, NEW r \in Run, Request(r), ~active[r], queue[r] # None
  PROVE  Lost'
<1> DEFINE c == Head(todo[r])
           x == Line(Wanted(r))
<1>0. Types /\ Modes
  BY OnwardFacts
<1>1. /\ pc[r] = "act" /\ done[r] = <<>>
      /\ todo[r] \in Seq(Call) /\ todo[r] # <<>> /\ IsInjective(todo[r]) /\ c \in Call
      /\ Answered' = Answered /\ Settled \subseteq Settled' /\ Wanted(r) \in Record
      /\ Fits(Hand(r), Lead(r), pending, Answered, Settled) /\ FreshRun(r)
  BY AskFacts
<1>2. /\ queue[r] \in Seq(Call) /\ Stale(r) = {c} \cup ToSet(queue[r]) /\ x = <<c>> \o queue[r]
  BY AskFacts
<1>3. /\ Hand(r) = todo[r] /\ Lead(r) = {}
      /\ Hand(r)' = Tail(todo[r]) /\ Lead(r)' = {}
      /\ FreshRun(r)' /\ c \notin Answered
      /\ Tail(todo[r]) \in Seq(Call)
      /\ ToSet(todo[r]) \subseteq Calls(Wanted(r)) \cup ToSet(Tail(todo[r]))
      /\ \A P : Fits(todo[r], {}, P, Answered, Settled)
                  => Fits(Tail(todo[r]), {}, P, Answered, Settled)
  BY MessageAsks
<1>4. Fits(Tail(todo[r]), {}, pending, Answered, Settled)
  BY <1>1, <1>3
<1>5. ToSet(queue[r]) \subseteq Answered
  <2>1. ToSet(queue[r]) \subseteq memory[r].results \cup ToSet(done[r])
    BY <1>0 DEF Modes, Mode
  <2>2. <<>> \in Seq(Call)
    OBVIOUS
  <2>3. ToSet(done[r]) = {}
    BY <1>1, <2>2, ElementFacts
  <2>4. Answered = memory[r].results
    BY AnswersMove DEF AgentStep
  <2> QED
    BY <2>1, <2>3, <2>4
<1>6. /\ x \in Seq(Call) /\ \A i \in 1..Len(x) : x[i] = c \/ x[i] \in ToSet(queue[r])
      /\ x[1] = c
  <2>1. x \in Seq(Call) /\ x # <<>> /\ Head(x) = c /\ ToSet(x) = {c} \cup ToSet(queue[r])
    BY <1>1, <1>2, ConsFacts
  <2> HIDE DEF x, c
  <2>2. \A i \in 1..Len(x) : x[i] \in ToSet(x)
    BY <2>1, ElementFacts
  <2>3. x[1] = c
    BY <2>1, TailFacts
  <2> QED
    BY <2>1, <2>2, <2>3
<1>7. \A i \in DOMAIN pending :
        /\ c \notin Calls(pending[i])
        /\ pending[i].call \in ToSet(queue[r]) => Calls(pending[i]) \subseteq Settled
  <2>1. c \in ToSet(todo[r])
    BY <1>1, TailFacts
  <2> HIDE DEF c
  <2> QED
    BY <1>1, <2>1 DEF FreshRun
<1> HIDE DEF x, c
<1>8. PICK old \in Seq(Record) : \E f : Files(old, f, Wanted(r), Stale(r))
  BY AskFacts
<1>9. PICK f : Files(old, f, Wanted(r), Stale(r))
  BY <1>8
<1>10. Thins(f, old, pending) /\ \A i \in DOMAIN old : pending[f[i]].call \notin Stale(r)
  BY <1>9 DEF Files
<1>11. Fits(x, {1}, old, Answered', Settled')
  <2> SUFFICES ASSUME NEW i \in DOMAIN old
               PROVE  /\ Agree(Line(old[i]), x, {1}, Answered', Settled')
                      /\ Agree(x, Line(old[i]), {1}, Answered', Settled')
    BY DEF Fits
  <2>1. /\ f[i] \in DOMAIN pending /\ old[i] = pending[f[i]]
        /\ pending[f[i]].call \notin Stale(r)
    BY <1>10 DEF Thins
  <2>2. PICK l : l = Line(old[i])
    OBVIOUS
  <2>3. /\ \A j \in 1..Len(l) : l[j] # c
        /\ l[1] \notin ToSet(queue[r])
    BY <1>2, <1>7, <2>1, <2>2, RequestKnown
  <2>4. \A j \in 1..Len(l), a \in 1..Len(x) :
          l[j] # x[a] \/ (l[j] \in Answered /\ j \notin {1})
    BY <1>5, <1>6, <2>3
  <2>5. \A a \in 1..Len(x), j \in 1..Len(l) :
          x[a] # l[j] \/ (x[a] \in Answered /\ a \notin {1})
    BY <1>5, <1>6, <2>3
  <2>6. Agree(l, x, {1}, Answered, Settled') /\ Agree(x, l, {1}, Answered, Settled')
    BY <2>4, <2>5, AgreeApart
  <2> QED
    BY <1>1, <2>2, <2>6
<1>12. Fits(Tail(todo[r]), {}, old, Answered', Settled')
  BY <1>1, <1>4, <1>10, FitsThins
<1>13. /\ Agree(x, Tail(todo[r]), {1}, Answered', Settled')
       /\ Agree(Tail(todo[r]), x, {}, Answered', Settled')
  <2>1. \A a \in 1..Len(Tail(todo[r])) : Tail(todo[r])[a] # c
    BY <1>1, <1>3, InjectiveTail, TailFacts, ElementFacts DEF c
  <2>2. \A i \in 1..Len(x), a \in 1..Len(Tail(todo[r])) :
          x[i] # Tail(todo[r])[a] \/ (x[i] \in Answered /\ i \notin {1})
    BY <1>5, <1>6, <2>1
  <2>3. \A a \in 1..Len(Tail(todo[r])), i \in 1..Len(x) :
          Tail(todo[r])[a] # x[i] \/ (Tail(todo[r])[a] \in Answered /\ a \notin {})
    BY <1>5, <1>6, <2>1
  <2>4. /\ Agree(x, Tail(todo[r]), {1}, Answered, Settled')
        /\ Agree(Tail(todo[r]), x, {}, Answered, Settled')
    BY <2>2, <2>3, AgreeApart
  <2> QED
    BY <1>1, <2>4
<1>14. ASSUME NEW k \in DOMAIN pending, pending[k].call \in Stale(r)
       PROVE  Calls(pending[k]) \subseteq Calls(Wanted(r)) \cup Settled'
  <2>1. pending[k].call \in Calls(pending[k])
    BY DEF Calls
  <2>2. pending[k].call \in ToSet(queue[r])
    BY <1>2, <1>7, <1>14, <2>1
  <2> QED
    BY <1>1, <1>7, <2>2
<1> QED
  BY <1>1, <1>3, <1>9, <1>11, <1>12, <1>13, <1>14, LostRequestFrom DEF x

LEMMA LostStutter ==
  ASSUME Lost, UNCHANGED vars
  PROVE  Lost'
<1>1. /\ pending' = pending /\ pc' = pc /\ forced' = forced /\ todo' = todo /\ queue' = queue
      /\ active' = active /\ done' = done /\ memory' = memory /\ saved' = saved
      /\ used' = used /\ waived' = waived
  BY DEF vars
<1>2. Answered' = Answered /\ Settled' = Settled
  BY <1>1 DEF Answered, Settled
<1>3. \A r \in Run : Hand(r)' = Hand(r) /\ Lead(r)' = Lead(r)
  BY <1>1 DEF Hand, Lead
<1>4. Agreement'
  BY <1>1, <1>2, <1>3 DEF Lost, Agreement
<1>5. Fresh'
  BY <1>1, <1>2 DEF Lost, Fresh, FreshRun
<1>6. Covered'
  BY <1>1, <1>2, <1>3 DEF Lost, Covered
<1> QED
  BY <1>4, <1>5, <1>6 DEF Lost

LEMMA LostInvStep ==
  ASSUME LostInv, [Next]_vars
  PROVE  LostInv'
<1>1. OnceInv /\ OnceInv'
  BY OnceInvStep DEF LostInv
<1>2. TypeInv /\ TypeInv' /\ Types /\ Modes
  BY <1>1 DEF OnceInv, TypeInv
<1>3. ASSUME ~disturbed'
      PROVE  Lost'
  <2>1. ~disturbed
    BY <1>2, <1>3, Undisturbed
  <2>2. Onward
    BY <1>1, <1>2, <1>3, <2>1 DEF Onward, OnceInv, LostInv
  <2>3. ASSUME NEW r \in Run, AgentStep(r)
        PROVE  Lost'
    <3>1. ~Stop(r)
      BY <1>3 DEF Stop
    <3>2. CASE Request(r)
      BY <2>2, <3>2, LostReplayAsks, LostMessageAsks, LostLeftoverAsks
    <3> QED
      BY <2>2, <2>3, <3>1, <3>2, LostNext, LostForced, LostThink, LostFinish, LostExecute,
         LostResult DEF AgentStep
  <2>4. CASE UNCHANGED vars
    BY <2>1, <2>4, LostStutter DEF LostInv
  <2> QED
    BY <2>2, <2>3, <2>4, LostStarts, Steppers
<1> QED
  BY <1>1, <1>3 DEF LostInv

LEMMA InitLost ==
  ASSUME Init
  PROVE  Lost
<1>1. pending = <<>> /\ used = {} /\ \A r \in Run : todo[r] = <<>> /\ queue[r] = None
  BY DEF Init
<1>2. DOMAIN pending = {} /\ \A r \in Run : DOMAIN todo[r] = {}
  BY <1>1
<1>3. Agreement
  BY <1>2 DEF Agreement, Paired, Fits
<1>4. Fresh
  BY <1>1, <1>2 DEF Fresh, FreshRun
<1>5. Covered
  BY <1>1 DEF Covered
<1> QED
  BY <1>3, <1>4, <1>5 DEF Lost

LEMMA LostInvImpliesNoneLost ==
  ASSUME LostInv
  PROVE  NoneLost
<1> SUFFICES ASSUME ~disturbed, \A r \in Run : pc[r] = "off", NEW c \in used
             PROVE  \/ c \in saved.results
                    \/ c \in waived
                    \/ \E p \in ToSet(pending) : c \in Calls(p)
  BY DEF NoneLost
<1>1. Types /\ Modes /\ Covered
  BY DEF LostInv, OnceInv, TypeInv, Lost
<1>2. Settled = saved.results \cup waived
  BY <1>1, IdleFacts DEF Settled
<1>3. <<>> \in Seq(Call)
  OBVIOUS
<1>4. \A r \in Run : ToSet(Hand(r)) = {}
  BY <1>1, <1>3, HandFacts, ElementFacts DEF AgentSteps
<1>5. \A i \in DOMAIN pending : pending[i] \in ToSet(pending)
  BY DEF ToSet
<1> QED
  BY <1>1, <1>2, <1>4, <1>5 DEF Covered

\* When runs follow one another, no call of the language model is forgotten: a
\* request takes over what the run has in hand of its message, what is left of a
\* replay goes on after it, and the requests that a new one supersedes wait for
\* nothing that it does not wait for.
THEOREM NoneLostAlways == Spec => []NoneLost
<1>1. Init => LostInv
  BY InitTypeInv, InitOnce, InitLost DEF LostInv, OnceInv
<1>2. LostInv /\ [Next]_vars => LostInv'
  BY LostInvStep
<1>3. LostInv => NoneLost
  BY LostInvImpliesNoneLost
<1> QED
  BY <1>1, <1>2, <1>3, PTL DEF Spec
=============================================================================
