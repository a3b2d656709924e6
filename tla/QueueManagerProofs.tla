--------------------------- MODULE QueueManagerProofs ---------------------------
(***************************************************************************)
(* Types; one consumer per key until the cleanup loop evicts it; and where *)
(* a message is: in one place, and in line behind those that arrived       *)
(* before it.  For any keys, messages, queues and capacities.              *)
(***************************************************************************)
EXTENDS QueueManager, FiniteSetTheorems, TLAPS

\* The registry leads to a queue of its key, and a queue that does not exist yet has
\* no consumer, no cancellation and no run.
Registered ==
  /\ \A k \in Key : reg[k] # NoQueue => key[reg[k]] = k
  /\ \A q \in Queue : key[q] = NoKey =>
       /\ cons[q] = "none" /\ q \notin cancel
       /\ \A k \in Key : run[k] # q

\* A message is bound for, and found in, queues of its own key only.
RightQueue ==
  /\ \A m \in Msg : target[m] # NoQueue => key[target[m]] = KeyOf[m]
  /\ \A m \in Elements(puts) \cup blocked : target[m] # NoQueue
  /\ \A q \in Queue : \A m \in Elements(buf[q]) \cup Elements(batch[q]) : KeyOf[m] = key[q]

\* A run that a key not evicted has is read by a consumer of that key.
RunIsRead ==
  \A k \in Key \ evicted :
    run[k] # NoQueue => cons[run[k]] = "reading" /\ key[run[k]] = k

\* SerialUntilCleanup in its three parts.
LiveConsumer ==
  \A k \in Key : reg[k] # NoQueue => Alive(reg[k]) /\ reg[k] \notin cancel
SoleConsumer ==
  \A k \in Key \ evicted : \A q \in Queue : key[q] = k /\ Alive(q) => reg[k] = q
NoneMissed ==
  \A m \in Msg : KeyOf[m] \notin evicted => fate[m] \notin {"ignored", "lost"}

UpInv ==
  /\ Registered /\ RightQueue /\ RunIsRead
  /\ LiveConsumer /\ SoleConsumer /\ NoneMissed

QInv == TypeOK /\ (phase = "up" => UpInv)

Once(s) == \A i, j \in 1..Len(s) : s[i] = s[j] => i = j

\* Two sequences have no message in common, nor a message twice.
AllOnce ==
  /\ Once(puts)
  /\ \A q \in Queue : Once(buf[q]) /\ Once(batch[q])

\* A message that waits is with the put tasks, in its queue, or in the batch drained
\* from it; no other message is anywhere.
Placed ==
  \A m \in Msg :
    /\ m \in Elements(puts) => m \notin blocked
    /\ \A q \in Queue :
         /\ m \in Elements(buf[q]) \cup Elements(batch[q]) =>
              target[m] = q /\ m \notin Elements(puts) \cup blocked
         /\ m \in Elements(buf[q]) => m \notin Elements(batch[q])
    /\ fate[m] = "waiting" <=>
         \/ m \in Elements(puts) \cup blocked
         \/ \E q \in Queue : m \in Elements(buf[q]) \cup Elements(batch[q])

\* A put knows its queue.
Targeted == \A m \in Elements(puts) \cup blocked : target[m] # NoQueue

\* Only a consumer at work has a batch, and messages arrive in their order.
BatchInv ==
  \A q \in Queue :
    /\ batch[q] # <<>> => cons[q] = "taken"
    /\ cons[q] # "none" => key[q] # NoKey
ArriveInv ==
  /\ \A m, n \in Msg : fate[m] = "new" /\ m < n => fate[n] = "new"
  /\ blocked \subseteq late

PlaceInv == AllOnce /\ Placed /\ Targeted /\ BatchInv /\ ArriveInv

\* ArrivalOrder in its parts: each line, and each two of them.
Before(s, t, ms) ==
  \A m \in Elements(s) : \A n \in Elements(t) : {m, n} \subseteq ms => m < n
LineInv ==
  \A q \in Queue :
    /\ InOrder(batch[q], OnTime(q)) /\ InOrder(buf[q], OnTime(q)) /\ InOrder(puts, OnTime(q))
    /\ Before(batch[q], buf[q], OnTime(q))
    /\ Before(batch[q], puts, OnTime(q))
    /\ Before(buf[q], puts, OnTime(q))
-----------------------------------------------------------------------------
(* Sequences                                                               *)

LEMMA ElementsEmpty == Elements(<<>>) = {}
BY DEF Elements

LEMMA ElementsAppend ==
  ASSUME NEW S, NEW s \in Seq(S), NEW e \in S
  PROVE  /\ Append(s, e) \in Seq(S) /\ Len(Append(s, e)) = Len(s) + 1
         /\ Elements(Append(s, e)) = Elements(s) \cup {e}
<1>1. Append(s, e) \in Seq(S) /\ Len(Append(s, e)) = Len(s) + 1
  OBVIOUS
<1>2. ASSUME NEW x \in Elements(Append(s, e)) PROVE x \in Elements(s) \cup {e}
  <2>1. PICK i \in 1 .. (Len(s) + 1) : x = Append(s, e)[i]
    BY <1>1 DEF Elements
  <2>2. CASE i = Len(s) + 1
    BY <2>1, <2>2
  <2>3. CASE i # Len(s) + 1
    <3>1. i \in 1 .. Len(s) /\ Append(s, e)[i] = s[i]
      BY <2>1, <2>3
    <3> QED
      BY <2>1, <3>1 DEF Elements
  <2> QED
    BY <2>2, <2>3
<1>3. ASSUME NEW x \in Elements(s) \cup {e} PROVE x \in Elements(Append(s, e))
  <2>1. CASE x = e
    <3>1. Append(s, e)[Len(s) + 1] = e /\ Len(s) + 1 \in 1 .. Len(Append(s, e))
      BY <1>1
    <3> QED
      BY <2>1, <3>1 DEF Elements
  <2>2. CASE x \in Elements(s)
    <3>1. PICK i \in 1 .. Len(s) : x = s[i]
      BY <2>2 DEF Elements
    <3>2. Append(s, e)[i] = s[i] /\ i \in 1 .. Len(Append(s, e))
      BY <1>1
    <3> QED
      BY <3>1, <3>2 DEF Elements
  <2> QED
    BY <1>3, <2>1, <2>2
<1> QED
  BY <1>1, <1>2, <1>3

LEMMA ElementsHeadTail ==
  ASSUME NEW S, NEW s \in Seq(S), s # <<>>
  PROVE  /\ Head(s) \in Elements(s) /\ Head(s) \in S /\ Tail(s) \in Seq(S)
         /\ Elements(Tail(s)) \subseteq Elements(s)
<1>1. Len(s) \in Nat \ {0} /\ Head(s) = s[1] /\ Tail(s) \in Seq(S) /\ Head(s) \in S
  OBVIOUS
<1>2. Head(s) \in Elements(s)
  BY <1>1 DEF Elements
<1>3. ASSUME NEW x \in Elements(Tail(s)) PROVE x \in Elements(s)
  <2>1. PICK i \in 1 .. Len(Tail(s)) : x = Tail(s)[i]
    BY DEF Elements
  <2>2. Tail(s)[i] = s[i + 1] /\ i + 1 \in 1 .. Len(s)
    BY <1>1
  <2> QED
    BY <2>1, <2>2 DEF Elements
<1> QED
  BY <1>1, <1>2, <1>3

LEMMA NoQueueIsNoQueue == NoQueue \notin Queue /\ NoKey \notin Key
BY NoneAssumption
-----------------------------------------------------------------------------
(* Types                                                                   *)

LEMMA SettleType ==
  ASSUME TypeOK, NEW ms, NEW f \in Fate, Settle(ms, f)
  PROVE  fate' \in [Msg -> Fate]
BY DEF TypeOK, Settle

LEMMA AppendType ==
  ASSUME TypeOK, NEW q, HasRoom(q), NEW m \in Msg,
         buf' = [buf EXCEPT ![q] = Append(@, m)]
  PROVE  buf' \in [Queue -> Seq(Msg)] /\ \A p \in Queue : Len(buf'[p]) <= Capacity
<1>1. ASSUME NEW p \in Queue PROVE buf'[p] \in Seq(Msg) /\ Len(buf'[p]) <= Capacity
  <2>1. CASE p = q
    <3>1. buf[p] \in Seq(Msg) /\ buf'[p] = Append(buf[p], m)
      BY <2>1 DEF TypeOK
    <3>2. Len(buf[p]) < Capacity
      BY <2>1 DEF HasRoom
    <3> QED
      BY <3>1, <3>2, ElementsAppend, BoundsAssumption
  <2>2. CASE p # q
    BY <2>2 DEF TypeOK
  <2> QED
    BY <2>1, <2>2
<1>2. buf' \in [Queue -> Seq(Msg)]
  BY <1>1 DEF TypeOK
<1> QED
  BY <1>1, <1>2

LEMMA VisitType ==
  ASSUME TypeOK, NEW ks \in SUBSET Key, Visit(ks)
  PROVE  /\ reg' \in [Key -> Queue \cup {NoQueue}] /\ cancel' \subseteq Queue
         /\ cleaner' \in {Asleep, Gone} \cup Queue
         /\ todo' \subseteq Key /\ evicted' \subseteq Key
<1>1. ASSUME NEW k \in ks, Evict(k), todo' = ks \ {k}
      PROVE  /\ reg' \in [Key -> Queue \cup {NoQueue}] /\ cancel' \subseteq Queue
             /\ cleaner' \in {Asleep, Gone} \cup Queue
             /\ todo' \subseteq Key /\ evicted' \subseteq Key
  <2>1. reg[k] \in Queue /\ k \in Key
    BY <1>1 DEF TypeOK, Evict
  <2> QED
    BY <1>1, <2>1 DEF TypeOK, Evict
<1>2. CASE /\ cleaner' \in {Asleep, Gone}
           /\ todo' = {}
           /\ UNCHANGED <<reg, cancel, evicted>>
  BY <1>2 DEF TypeOK
<1> QED
  BY <1>1, <1>2 DEF Visit

LEMMA TypeStep == TypeOK /\ [Next]_vars => TypeOK'
<1> SUFFICES ASSUME TypeOK, [Next]_vars PROVE TypeOK'
  OBVIOUS
<1> USE NoQueueIsNoQueue, BoundsAssumption
        DEF TypeOK, ConsumerState, Phase, registry, consumers, arrivals, control
<1>1. ASSUME NEW m \in Msg, Arrive(m) PROVE TypeOK'
  <2>1. fate' \in [Msg -> Fate]
    BY <1>1, SettleType DEF Arrive, Fate
  <2> QED
    <3>1. puts' \in Seq(Msg)
          /\ UNCHANGED <<buf, cancel, batch, run, blocked, late, control>>
      BY <1>1 DEF Arrive
    <3>2. CASE ArriveAtQueue(m)
      <4>1. reg[KeyOf[m]] \in Queue
        BY <3>2, KeyOfAssumption DEF ArriveAtQueue
      <4>2. target' \in [Msg -> Queue \cup {NoQueue}]
        BY <3>2, <4>1 DEF ArriveAtQueue
      <4>3. idle' \subseteq Queue
        BY <3>2 DEF ArriveAtQueue
      <4> QED
        BY <2>1, <3>1, <3>2, <4>2, <4>3 DEF ArriveAtQueue
    <3>3. ASSUME NEW q \in Queue, ArriveAtNewQueue(m, q) PROVE TypeOK'
      <4>1. KeyOf[m] \in Key
        BY KeyOfAssumption
      <4> QED
        BY <2>1, <3>1, <3>3, <4>1 DEF ArriveAtNewQueue
    <3> QED
      BY <1>1, <3>2, <3>3 DEF Arrive
<1>2. ASSUME NEW m \in Msg, PutUnblocked(m) PROVE TypeOK'
  <2>1. /\ blocked' \subseteq Msg
        /\ UNCHANGED <<registry, consumers, fate, target, puts, late, control>>
    BY <1>2 DEF PutUnblocked
  <2>2. buf' \in [Queue -> Seq(Msg)] /\ \A q \in Queue : Len(buf'[q]) <= Capacity
    BY <1>2, AppendType DEF PutUnblocked
  <2> QED
    BY <2>1, <2>2
<1>3. ASSUME NEW m \in Msg, PutTimeout(m) PROVE TypeOK'
  <2>1. fate' \in [Msg -> Fate]
    BY <1>3, SettleType DEF PutTimeout, Fate
  <2> QED
    BY <1>3, <2>1 DEF PutTimeout
<1>4. CASE Put
  <2>1. Head(puts) \in Msg /\ puts' \in Seq(Msg)
    BY <1>4, ElementsHeadTail DEF Put
  <2>2. UNCHANGED <<registry, consumers, fate, target, control>>
    BY <1>4 DEF Put
  <2>3. CASE /\ HasRoom(target[Head(puts)])
             /\ buf' = [buf EXCEPT ![target[Head(puts)]] = Append(@, Head(puts))]
             /\ UNCHANGED <<blocked, late>>
    <3>1. buf' \in [Queue -> Seq(Msg)] /\ \A q \in Queue : Len(buf'[q]) <= Capacity
      BY <2>1, <2>3, AppendType
    <3> QED
      BY <2>1, <2>2, <2>3, <3>1
  <2>4. CASE /\ blocked' = blocked \cup {Head(puts)}
             /\ late' = late \cup {Head(puts)}
             /\ UNCHANGED buf
    BY <2>1, <2>2, <2>4
  <2> QED
    BY <1>4, <2>3, <2>4 DEF Put
<1>5. ASSUME NEW k \in Key, StopCommand(k) PROVE TypeOK'
  <2>1. fate' \in [Msg -> Fate]
    BY <1>5, SettleType DEF StopCommand, Fate
  <2> QED
    BY <1>5, <2>1 DEF StopCommand
<1>6. ASSUME NEW k \in Key, EndRun(k) PROVE TypeOK'
  BY <1>6 DEF EndRun
<1>7. ASSUME NEW q \in Queue, Begin(q) PROVE TypeOK'
  BY <1>7 DEF Begin
<1>8. ASSUME NEW q \in Queue, NeverBegin(q) PROVE TypeOK'
  BY <1>8 DEF NeverBegin, Unregister
<1>9. ASSUME NEW q \in Queue, Take(q) PROVE TypeOK'
  BY <1>9 DEF Take
<1>10. ASSUME NEW q \in Queue, Handle(q) PROVE TypeOK'
  <2>1. fate' \in [Msg -> Fate]
    BY <1>10, SettleType DEF Handle, Fate
  <2> QED
    BY <1>10, <2>1 DEF Handle, NextBatch, Processed
<1>11. ASSUME NEW q \in Queue, FailBatch(q) PROVE TypeOK'
  <2>1. fate' \in [Msg -> Fate]
    BY <1>11, SettleType DEF FailBatch, Fate
  <2> QED
    BY <1>11, <2>1 DEF FailBatch, NextBatch
<1>12. ASSUME NEW q \in Queue, StartRun(q) PROVE TypeOK'
  <2>1. fate' \in [Msg -> Fate]
    BY <1>12, SettleType DEF StartRun, Fate
  <2> QED
    <3>1. /\ run' = [run EXCEPT ![key[q]] = q]
          /\ cons' = [cons EXCEPT ![q] = "reading"]
          /\ batch' = [batch EXCEPT ![q] = <<>>]
          /\ UNCHANGED <<registry, buf, cancel, arrivals, control>>
      BY <1>12 DEF StartRun
    <3>2. batch' \in [Queue -> Seq(Msg)]
      BY <3>1
    <3> QED
      BY <2>1, <3>1, <3>2
<1>13. ASSUME NEW q \in Queue, Ignore(q) PROVE TypeOK'
  <2>1. fate' \in [Msg -> Fate]
    BY <1>13, SettleType DEF Ignore, Fate
  <2> QED
    BY <1>13, <2>1 DEF Ignore, NextBatch, Processed
<1>14. ASSUME NEW q \in Queue, EndReading(q) PROVE TypeOK'
  BY <1>14 DEF EndReading, NextBatch, Processed
<1>15. ASSUME NEW q \in Queue, Leave(q) PROVE TypeOK'
  <2>1. fate' \in [Msg -> Fate]
    BY <1>15, SettleType DEF Leave, Fate
  <2> QED
    <3>1. /\ cons' = [cons EXCEPT ![q] = "gone"]
          /\ cancel' = cancel \ {q}
          /\ batch' = [batch EXCEPT ![q] = <<>>]
          /\ reg' = [reg EXCEPT ![key[q]] = NoQueue]
          /\ UNCHANGED <<key, idle, buf, run, arrivals, control>>
      BY <1>15 DEF Leave, Unregister
    <3>2. batch' \in [Queue -> Seq(Msg)]
      BY <3>1
    <3>3. reg' \in [Key -> Queue \cup {NoQueue}]
      BY <3>1, Zenon
    <3> QED
      BY <2>1, <3>1, <3>2, <3>3
<1>16. ASSUME NEW q \in Queue, GrowIdle(q) PROVE TypeOK'
  BY <1>16 DEF GrowIdle
<1>17. CASE SweepBegin
  <2>1. Visit(Expired) /\ UNCHANGED <<key, idle, buf, cons, batch, run, fate, arrivals, phase>>
    BY <1>17 DEF SweepBegin
  <2>2. Expired \subseteq Key
    BY DEF Expired
  <2> QED
    BY <2>1, <2>2, VisitType
<1>18. CASE SweepOn
  <2>1. Visit(todo) /\ UNCHANGED <<key, idle, buf, cons, batch, run, fate, arrivals, phase>>
    BY <1>18 DEF SweepOn
  <2> QED
    BY <2>1, VisitType
<1>19. CASE StopEnqueues
  <2>1. fate' \in [Msg -> Fate]
    BY <1>19, SettleType DEF StopEnqueues, Fate
  <2> QED
    BY <1>19, <2>1 DEF StopEnqueues
<1>20. CASE StopCleaner
  BY <1>20 DEF StopCleaner
<1>21. CASE StopConsumers
  BY <1>21 DEF StopConsumers
<1>22. CASE StopDone
  BY <1>22 DEF StopDone
<1>23. CASE UNCHANGED vars
  BY <1>23 DEF vars
<1>24. ASSUME NEW q \in Queue, AbsorbInCommand(q) PROVE TypeOK'
  <2>1. fate' \in [Msg -> Fate]
    BY <1>24, SettleType DEF AbsorbInCommand, Fate
  <2> QED
    BY <1>24, <2>1 DEF AbsorbInCommand, NextBatch, Processed
<1> QED
  BY <1>1, <1>2, <1>3, <1>4, <1>5, <1>6, <1>7, <1>8, <1>9, <1>10, <1>11, <1>12, <1>13,
     <1>14, <1>15, <1>16, <1>17, <1>18, <1>19, <1>20, <1>21, <1>22, <1>23,
     <1>24
     DEF Next, Consume
-----------------------------------------------------------------------------
(* Lines of messages                                                       *)

LEMMA LineEmpty ==
  ASSUME NEW ms
  PROVE  Once(<<>>) /\ InOrder(<<>>, ms) /\ Elements(<<>>) = {}
BY ElementsEmpty DEF Once, InOrder

LEMMA LineAppend ==
  ASSUME NEW s \in Seq(Msg), NEW e \in Msg
  PROVE  /\ Once(s) /\ e \notin Elements(s) => Once(Append(s, e))
         /\ \A ms : InOrder(s, ms) /\ (\A x \in Elements(s) : {x, e} \subseteq ms => x < e)
                      => InOrder(Append(s, e), ms)
<1> DEFINE t == Append(s, e)
<1>1. /\ Len(t) = Len(s) + 1 /\ Len(s) \in Nat
      /\ t[Len(s) + 1] = e
      /\ \A i \in 1..Len(s) : t[i] = s[i] /\ s[i] \in Elements(s)
  BY DEF Elements
<1> HIDE DEF t
<1>2. ASSUME Once(s), e \notin Elements(s), NEW i \in 1..Len(t), NEW j \in 1..Len(t), t[i] = t[j]
      PROVE  i = j
  <2>1. CASE i \in 1..Len(s) /\ j \in 1..Len(s)
    BY <1>1, <1>2, <2>1 DEF Once
  <2>2. CASE i = Len(s) + 1 \/ j = Len(s) + 1
    BY <1>1, <1>2, <2>2
  <2> QED
    BY <1>1, <2>1, <2>2
<1>3. ASSUME NEW ms, InOrder(s, ms), \A x \in Elements(s) : {x, e} \subseteq ms => x < e,
             NEW i \in 1..Len(t), NEW j \in 1..Len(t), i < j, {t[i], t[j]} \subseteq ms
      PROVE  t[i] < t[j]
  <2>1. i \in 1..Len(s)
    BY <1>1, <1>3
  <2>2. CASE j \in 1..Len(s)
    BY <1>1, <1>3, <2>1, <2>2 DEF InOrder
  <2>3. CASE j = Len(s) + 1
    BY <1>1, <1>3, <2>1, <2>3
  <2> QED
    BY <1>1, <2>2, <2>3
<1> QED
  BY <1>2, <1>3 DEF Once, InOrder, t

LEMMA ShiftDown ==
  \A n \in Nat : \A i \in 1..n : i = 1 \/ (i - 1 \in 1..(n - 1) /\ (i - 1) + 1 = i)
OBVIOUS

LEMMA LineTail ==
  ASSUME NEW s \in Seq(Msg), s # <<>>
  PROVE  /\ Head(s) \in Msg /\ Tail(s) \in Seq(Msg)
         /\ Elements(s) = Elements(Tail(s)) \cup {Head(s)}
         /\ Once(s) => Once(Tail(s)) /\ Head(s) \notin Elements(Tail(s))
         /\ \A ms : InOrder(s, ms) =>
              /\ InOrder(Tail(s), ms)
              /\ \A x \in Elements(Tail(s)) : {Head(s), x} \subseteq ms => Head(s) < x
<1> DEFINE h == Head(s)
           t == Tail(s)
<1>1. /\ Len(s) \in Nat \ {0} /\ h = s[1] /\ h \in Msg /\ t \in Seq(Msg) /\ Len(t) = Len(s) - 1
      /\ \A i \in 1..Len(t) : t[i] = s[i + 1] /\ i + 1 \in 1..Len(s)
  OBVIOUS
<1> HIDE DEF h, t
<1>2. \A i \in 1..Len(s) : i = 1 \/ (i - 1 \in 1..Len(t) /\ t[i - 1] = s[i])
  <2> TAKE i \in 1..Len(s)
  <2>1. Len(s) \in Nat /\ Len(t) = Len(s) - 1
    BY <1>1
  <2>2. i = 1 \/ (i - 1 \in 1..(Len(s) - 1) /\ (i - 1) + 1 = i)
    BY <2>1, ShiftDown
  <2>3. CASE i # 1
    <3>1. i - 1 \in 1..Len(t)
      BY <2>1, <2>2, <2>3
    <3>2. t[i - 1] = s[(i - 1) + 1]
      BY <1>1, <3>1
    <3> QED
      BY <2>2, <2>3, <3>1, <3>2
  <2> QED
    BY <2>3
<1>3. Elements(s) = Elements(t) \cup {h}
  <2>1. Elements(s) \subseteq Elements(t) \cup {h}
    <3> SUFFICES ASSUME NEW i \in 1..Len(s) PROVE s[i] \in Elements(t) \cup {h}
      BY DEF Elements
    <3>1. CASE i = 1
      BY <1>1, <3>1
    <3>2. CASE i - 1 \in 1..Len(t) /\ t[i - 1] = s[i]
      BY <3>2 DEF Elements
    <3> QED
      BY <1>2, <3>1, <3>2
  <2>2. Elements(t) \subseteq Elements(s)
    BY <1>1 DEF Elements
  <2>3. h \in Elements(s)
    BY <1>1 DEF Elements
  <2> QED
    BY <2>1, <2>2, <2>3
<1>4. Once(s) => Once(t) /\ h \notin Elements(t)
  <2> SUFFICES ASSUME Once(s) PROVE Once(t) /\ h \notin Elements(t)
    OBVIOUS
  <2>1. ASSUME NEW i \in 1..Len(t), NEW j \in 1..Len(t), t[i] = t[j] PROVE i = j
    <3>1. i + 1 = j + 1
      BY <1>1, <2>1 DEF Once
    <3> QED
      BY <1>1, <3>1
  <2>2. ASSUME NEW i \in 1..Len(t), t[i] = h PROVE FALSE
    <3>1. s[i + 1] = s[1] /\ 1 \in 1..Len(s)
      BY <1>1, <2>2
    <3>2. i + 1 = 1
      BY <1>1, <3>1 DEF Once
    <3> QED
      BY <1>1, <3>2
  <2> QED
    BY <2>1, <2>2 DEF Once, Elements
<1>5. ASSUME NEW ms, InOrder(s, ms)
      PROVE  /\ InOrder(t, ms)
             /\ \A x \in Elements(t) : {h, x} \subseteq ms => h < x
  <2>1. ASSUME NEW i \in 1..Len(t), NEW j \in 1..Len(t), i < j, {t[i], t[j]} \subseteq ms
        PROVE  t[i] < t[j]
    <3>1. i + 1 < j + 1 /\ {s[i + 1], s[j + 1]} \subseteq ms
      BY <1>1, <2>1
    <3> QED
      BY <1>1, <1>5, <3>1 DEF InOrder
  <2>2. ASSUME NEW i \in 1..Len(t), {h, t[i]} \subseteq ms PROVE h < t[i]
    <3>1. 1 < i + 1 /\ 1 \in 1..Len(s) /\ {s[1], s[i + 1]} \subseteq ms
      BY <1>1, <2>2
    <3> QED
      BY <1>1, <1>5, <3>1 DEF InOrder
  <2> QED
    BY <2>1, <2>2 DEF InOrder, Elements
<1> QED
  BY <1>1, <1>3, <1>4, <1>5 DEF h, t
-----------------------------------------------------------------------------
(* Where a message is                                                      *)

\* What a step can do with the messages.
Still == UNCHANGED <<puts, blocked, buf, batch, target, fate, late>>
Arrives(m) ==
  /\ IsNext(m)
  /\ puts' = Append(puts, m)
  /\ \E q \in Queue : target' = [target EXCEPT ![m] = q]
  /\ Settle({m}, "waiting")
  /\ UNCHANGED <<blocked, buf, batch, late>>
GoesIn(m) ==
  /\ buf' = [buf EXCEPT ![target[m]] = Append(@, m)]
  /\ UNCHANGED <<batch, target, fate, late>>
FirstGoesIn ==
  /\ puts # <<>> /\ GoesIn(Head(puts))
  /\ puts' = Tail(puts) /\ UNCHANGED blocked
FirstWaits ==
  /\ puts # <<>>
  /\ puts' = Tail(puts)
  /\ blocked' = blocked \cup {Head(puts)} /\ late' = late \cup {Head(puts)}
  /\ UNCHANGED <<buf, batch, target, fate>>
BlockedGoesIn(m) ==
  /\ m \in blocked /\ GoesIn(m)
  /\ blocked' = blocked \ {m} /\ UNCHANGED puts
Drains(q) ==
  /\ batch[q] = <<>>
  /\ batch' = [batch EXCEPT ![q] = buf[q]]
  /\ buf' = [buf EXCEPT ![q] = <<>>]
  /\ UNCHANGED <<puts, blocked, target, fate, late>>

\* The messages that leave, from wherever they are, have their fate.
Leaves(ms) ==
  /\ \E f \in Fate \ {"waiting", "new"} : Settle(ms, f)
  /\ puts' = puts \/ (puts' = <<>> /\ Elements(puts) \subseteq ms)
  /\ blocked' = blocked \ ms
  /\ \A q \in Queue : buf'[q] = buf[q] \/ (buf'[q] = <<>> /\ Elements(buf[q]) \subseteq ms)
  /\ \A q \in Queue :
       batch'[q] = batch[q] \/ (batch'[q] = <<>> /\ Elements(batch[q]) \subseteq ms)
  /\ \A m \in ms :
       \/ m \in Elements(puts) /\ puts' = <<>>
       \/ m \in blocked
       \/ \E q \in Queue : m \in Elements(buf[q]) /\ buf'[q] = <<>>
       \/ \E q \in Queue : m \in Elements(batch[q]) /\ batch'[q] = <<>>
  /\ UNCHANGED <<target, late>>

Moves ==
  \/ Still \/ FirstGoesIn \/ FirstWaits
  \/ \E m \in Msg : Arrives(m) \/ BlockedGoesIn(m)
  \/ \E q \in Queue : Drains(q)
  \/ \E ms \in SUBSET Msg : Leaves(ms)

LEMMA ElementsAreMessages ==
  ASSUME TypeOK
  PROVE  /\ Elements(puts) \subseteq Msg
         /\ \A q \in Queue : Elements(buf[q]) \subseteq Msg /\ Elements(batch[q]) \subseteq Msg
BY DEF TypeOK, Elements

\* A batch is dropped with a fate for each of its messages.
LEMMA BatchLeaves ==
  ASSUME TypeOK, Placed, NEW q \in Queue, batch' = [batch EXCEPT ![q] = <<>>],
         NEW f \in Fate \ {"waiting", "new"}, Settle(Elements(batch[q]), f),
         UNCHANGED <<buf, puts, blocked, target, late>>
  PROVE  \E ms \in SUBSET Msg : Leaves(ms)
<1>1. Elements(batch[q]) \subseteq Msg
  BY ElementsAreMessages
<1>2. blocked \ Elements(batch[q]) = blocked
  BY <1>1 DEF Placed
<1>3. batch'[q] = <<>> /\ \A p \in Queue : p # q => batch'[p] = batch[p]
  BY DEF TypeOK
<1>4. Leaves(Elements(batch[q]))
  BY <1>2, <1>3 DEF Leaves
<1> QED
  BY <1>1, <1>4

LEMMA ConsumeMoves ==
  ASSUME TypeOK, Placed, BatchInv, NEW q \in Queue, Consume(q)
  PROVE  Moves
<1> USE DEF arrivals
<1>1. CASE Begin(q) \/ NeverBegin(q)
  BY <1>1 DEF Begin, NeverBegin, Moves, Still
<1>2. CASE Take(q)
  <2>1. batch[q] = <<>>
    BY <1>2 DEF Take, BatchInv
  <2>2. Drains(q)
    BY <1>2, <2>1 DEF Take, Drains
  <2> QED
    BY <2>2 DEF Moves
<1>3. CASE Handle(q)
  BY <1>3, BatchLeaves DEF Handle, NextBatch, Moves, Fate
<1>4. CASE FailBatch(q)
  BY <1>4, BatchLeaves DEF FailBatch, NextBatch, Moves, Fate
<1>5. CASE StartRun(q)
  BY <1>5, BatchLeaves DEF StartRun, Moves, Fate
<1>6. CASE Ignore(q)
  BY <1>6, BatchLeaves DEF Ignore, NextBatch, Moves, Fate
<1>7. CASE EndReading(q)
  <2>1. batch[q] = <<>>
    BY <1>7 DEF EndReading, BatchInv
  <2>2. batch' = batch
    BY <1>7, <2>1 DEF EndReading, NextBatch, TypeOK
  <2> QED
    BY <1>7, <2>2 DEF EndReading, Moves, Still
<1>8. CASE Leave(q)
  BY <1>8, BatchLeaves DEF Leave, Moves, Fate
<1>9. CASE AbsorbInCommand(q)
  BY <1>9, BatchLeaves DEF AbsorbInCommand, NextBatch, Moves, Fate
<1> QED
  BY <1>1, <1>2, <1>3, <1>4, <1>5, <1>6, <1>7, <1>8, <1>9 DEF Consume

LEMMA NextMoves ==
  ASSUME TypeOK, Placed, BatchInv, [Next]_vars
  PROVE  Moves
<1> USE DEF registry, consumers, arrivals, control
<1>1. ASSUME NEW m \in Msg, Arrive(m) PROVE Moves
  <2>1. \E q \in Queue : target' = [target EXCEPT ![m] = q]
    BY <1>1, KeyOfAssumption DEF Arrive, ArriveAtQueue, ArriveAtNewQueue, TypeOK
  <2>2. Arrives(m)
    BY <1>1, <2>1 DEF Arrive, Arrives
  <2> QED
    BY <2>2 DEF Moves
<1>2. ASSUME NEW m \in Msg, PutUnblocked(m) PROVE Moves
  BY <1>2 DEF PutUnblocked, Moves, BlockedGoesIn, GoesIn
<1>3. ASSUME NEW m \in Msg, PutTimeout(m) PROVE Moves
  <2>1. Leaves({m})
    BY <1>3 DEF PutTimeout, Leaves, Fate
  <2> QED
    BY <2>1 DEF Moves
<1>4. CASE Put
  BY <1>4 DEF Put, Moves, FirstGoesIn, FirstWaits, GoesIn
<1>5. ASSUME NEW k \in Key, StopCommand(k) PROVE Moves
  <2> DEFINE q == reg[k]
             ms == Elements(buf[q])
  <2>1. q \in Queue /\ ms \subseteq Msg
    BY <1>5, ElementsAreMessages DEF StopCommand, TypeOK
  <2>2. blocked \ ms = blocked
    BY <2>1 DEF Placed
  <2>3. /\ buf'[q] = <<>> /\ \A p \in Queue : p # q => buf'[p] = buf[p]
        /\ UNCHANGED <<puts, blocked, batch, target, late>> /\ Settle(ms, "cleared")
    BY <1>5, <2>1 DEF StopCommand, TypeOK
  <2>4. Leaves(ms)
    BY <2>1, <2>2, <2>3 DEF Leaves, Fate
  <2> QED
    BY <2>1, <2>4 DEF Moves
<1>6. ASSUME NEW k \in Key, EndRun(k) PROVE Moves
  BY <1>6 DEF EndRun, Moves, Still
<1>7. ASSUME NEW q \in Queue, Consume(q) PROVE Moves
  BY <1>7, ConsumeMoves
<1>8. ASSUME NEW q \in Queue, GrowIdle(q) PROVE Moves
  BY <1>8 DEF GrowIdle, Moves, Still
<1>9. CASE SweepBegin \/ SweepOn
  BY <1>9 DEF SweepBegin, SweepOn, Moves, Still
<1>10. CASE StopEnqueues
  <2>1. Elements(puts) \cup blocked \in SUBSET Msg
    BY ElementsAreMessages DEF TypeOK
  <2>2. Leaves(Elements(puts) \cup blocked)
    BY <1>10 DEF StopEnqueues, Leaves, Fate
  <2> QED
    BY <2>1, <2>2 DEF Moves
<1>11. CASE StopCleaner \/ StopConsumers \/ StopDone \/ UNCHANGED vars
  BY <1>11 DEF StopCleaner, StopConsumers, StopDone, vars, Moves, Still
<1> QED
  BY <1>1, <1>2, <1>3, <1>4, <1>5, <1>6, <1>7, <1>8, <1>9, <1>10, <1>11 DEF Next

LEMMA SettleEffect ==
  ASSUME TypeOK, NEW ms \in SUBSET Msg, NEW f, Settle(ms, f)
  PROVE  \A m \in Msg : fate'[m] = IF m \in ms THEN f ELSE fate[m]
BY DEF Settle

\* A message goes into its queue, from the put tasks or from among those that wait.
LEMMA GoesInEffect ==
  ASSUME TypeOK, NEW m \in Msg, target[m] \in Queue, GoesIn(m)
  PROVE  /\ buf'[target[m]] = Append(buf[target[m]], m)
         /\ Elements(buf'[target[m]]) = Elements(buf[target[m]]) \cup {m}
         /\ \A q \in Queue : q # target[m] => buf'[q] = buf[q]
         /\ UNCHANGED <<batch, target, fate, late>>
<1>1. buf[target[m]] \in Seq(Msg) /\ buf'[target[m]] = Append(buf[target[m]], m)
  BY DEF TypeOK, GoesIn
<1>2. Elements(buf'[target[m]]) = Elements(buf[target[m]]) \cup {m}
  BY <1>1, ElementsAppend
<1> QED
  BY <1>1, <1>2 DEF TypeOK, GoesIn

\* Where the primed sequences hold what they should, Placed holds.
LEMMA PlacedIntro ==
  ASSUME \A m \in Msg :
           /\ m \in Elements(puts') => m \notin blocked'
           /\ \A q \in Queue :
                /\ m \in Elements(buf'[q]) \cup Elements(batch'[q]) =>
                     target'[m] = q /\ m \notin Elements(puts') \cup blocked'
                /\ m \in Elements(buf'[q]) => m \notin Elements(batch'[q])
           /\ fate'[m] = "waiting" <=>
                \/ m \in Elements(puts') \cup blocked'
                \/ \E q \in Queue : m \in Elements(buf'[q]) \cup Elements(batch'[q])
  PROVE  Placed'
BY DEF Placed, Elements

LEMMA GoesInPlaced ==
  ASSUME TypeOK, Placed, NEW m \in Msg, target[m] \in Queue, GoesIn(m),
         m \in Elements(puts) \cup blocked,
         Elements(puts') \subseteq Elements(puts), blocked' \subseteq blocked,
         Elements(puts') \cup blocked' = (Elements(puts) \cup blocked) \ {m}
  PROVE  Placed'
<1>0. /\ Elements(buf'[target[m]]) = Elements(buf[target[m]]) \cup {m}
      /\ \A q \in Queue : q # target[m] => buf'[q] = buf[q]
      /\ UNCHANGED <<batch, target, fate>>
  BY GoesInEffect
<1>1. \A q \in Queue : Elements(buf'[q]) = IF q = target[m] THEN Elements(buf[q]) \cup {m}
                                                             ELSE Elements(buf[q])
  BY <1>0
<1>2. \A n \in Msg : n \in Elements(puts') => n \notin blocked'
  BY DEF Placed
<1>3. ASSUME NEW n \in Msg, NEW q \in Queue, n \in Elements(buf'[q]) \cup Elements(batch'[q])
      PROVE  target'[n] = q /\ n \notin Elements(puts') \cup blocked'
  <2>1. CASE n = m
    BY <1>0, <1>1, <1>3, <2>1 DEF Placed
  <2>2. CASE n # m
    BY <1>0, <1>1, <1>3, <2>2 DEF Placed
  <2> QED
    BY <2>1, <2>2
<1>4. ASSUME NEW n \in Msg, NEW q \in Queue, n \in Elements(buf'[q])
      PROVE  n \notin Elements(batch'[q])
  BY <1>0, <1>1, <1>4 DEF Placed
<1>5. ASSUME NEW n \in Msg
      PROVE  fate'[n] = "waiting" <=>
               \/ n \in Elements(puts') \cup blocked'
               \/ \E q \in Queue : n \in Elements(buf'[q]) \cup Elements(batch'[q])
  <2>1. CASE n = m
    BY <1>0, <1>1, <2>1 DEF Placed
  <2>2. CASE n # m
    <3>1. \A q \in Queue : n \in Elements(buf'[q]) \cup Elements(batch'[q])
                             <=> n \in Elements(buf[q]) \cup Elements(batch[q])
      BY <1>0, <1>1, <2>2
    <3> QED
      BY <1>0, <2>2, <3>1 DEF Placed
  <2> QED
    BY <2>1, <2>2
<1> QED
  BY <1>2, <1>3, <1>4, <1>5, PlacedIntro

LEMMA PlacedStep ==
  ASSUME TypeOK, Targeted, AllOnce, Placed, Moves
  PROVE  Placed'
<1>0. \A m \in Elements(puts) \cup blocked : m \in Msg /\ target[m] \in Queue
  BY ElementsAreMessages DEF TypeOK, Targeted
<1>1. CASE Still
  BY <1>1, PlacedIntro DEF Still, Placed
<1>2. CASE FirstGoesIn
  <2> DEFINE m == Head(puts)
  <2>1. /\ m \in Msg /\ puts' = Tail(puts) /\ Elements(puts) = Elements(puts') \cup {m}
        /\ m \notin Elements(puts')
    BY <1>2, LineTail DEF FirstGoesIn, AllOnce, TypeOK
  <2>2. GoesIn(m) /\ blocked' = blocked /\ target[m] \in Queue
    BY <1>0, <1>2, <2>1 DEF FirstGoesIn
  <2> HIDE DEF m
  <2>3. m \notin blocked
    BY <2>1 DEF Placed
  <2> QED
    BY <2>1, <2>2, <2>3, GoesInPlaced
<1>3. CASE FirstWaits
  <2> DEFINE m == Head(puts)
  <2>1. /\ m \in Msg /\ puts' = Tail(puts) /\ Elements(puts) = Elements(puts') \cup {m}
        /\ m \notin Elements(puts')
    BY <1>3, LineTail DEF FirstWaits, AllOnce, TypeOK
  <2>2. blocked' = blocked \cup {m} /\ UNCHANGED <<buf, batch, target, fate>>
    BY <1>3 DEF FirstWaits
  <2> HIDE DEF m
  <2> QED
    BY <2>1, <2>2, PlacedIntro DEF Placed
<1>4. ASSUME NEW m \in Msg, Arrives(m) PROVE Placed'
  <2>1. /\ Elements(puts') = Elements(puts) \cup {m} /\ fate[m] = "new"
        /\ \A n \in Msg : n # m => target'[n] = target[n]
        /\ UNCHANGED <<blocked, buf, batch>>
    BY <1>4, ElementsAppend DEF Arrives, IsNext, TypeOK
  <2>2. \A n \in Msg : fate'[n] = IF n = m THEN "waiting" ELSE fate[n]
    BY <1>4, SettleEffect DEF Arrives
  <2> QED
    BY <2>1, <2>2, PlacedIntro DEF Placed
<1>5. ASSUME NEW m \in Msg, BlockedGoesIn(m) PROVE Placed'
  <2>1. /\ GoesIn(m) /\ m \in blocked /\ target[m] \in Queue
        /\ blocked' = blocked \ {m} /\ puts' = puts
    BY <1>0, <1>5 DEF BlockedGoesIn
  <2>2. m \notin Elements(puts)
    BY <2>1 DEF Placed
  <2> QED
    BY <2>1, <2>2, GoesInPlaced
<1>6. ASSUME NEW q \in Queue, Drains(q) PROVE Placed'
  <2>1. /\ batch'[q] = buf[q] /\ Elements(buf'[q]) = {}
        /\ \A p \in Queue : p # q => batch'[p] = batch[p] /\ buf'[p] = buf[p]
        /\ UNCHANGED <<puts, blocked, target, fate>> /\ Elements(batch[q]) = {}
    BY <1>6, ElementsEmpty DEF Drains, TypeOK
  <2> QED
    BY <2>1, PlacedIntro DEF Placed
<1>7. ASSUME NEW ms \in SUBSET Msg, Leaves(ms) PROVE Placed'
  <2>1. PICK f \in Fate \ {"waiting", "new"} :
          \A m \in Msg : fate'[m] = IF m \in ms THEN f ELSE fate[m]
    BY <1>7, SettleEffect DEF Leaves
  <2>2. /\ Elements(puts') = Elements(puts) \/ (Elements(puts') = {} /\ Elements(puts) \subseteq ms)
        /\ \A q \in Queue :
             /\ Elements(buf'[q]) = Elements(buf[q])
                  \/ (Elements(buf'[q]) = {} /\ Elements(buf[q]) \subseteq ms)
             /\ Elements(batch'[q]) = Elements(batch[q])
                  \/ (Elements(batch'[q]) = {} /\ Elements(batch[q]) \subseteq ms)
        /\ blocked' = blocked \ ms /\ target' = target
    BY <1>7, ElementsEmpty DEF Leaves
  <2>3. \A m \in ms :
          \/ m \in Elements(puts) /\ Elements(puts') = {}
          \/ m \in blocked
          \/ \E q \in Queue : m \in Elements(buf[q]) /\ Elements(buf'[q]) = {}
          \/ \E q \in Queue : m \in Elements(batch[q]) /\ Elements(batch'[q]) = {}
    BY <1>7, ElementsEmpty DEF Leaves
  <2>4. \A m \in Msg : m \in Elements(puts') => m \notin blocked'
    BY <2>2 DEF Placed
  <2>5. ASSUME NEW m \in Msg, NEW q \in Queue
        PROVE  /\ m \in Elements(buf'[q]) \cup Elements(batch'[q]) =>
                    target'[m] = q /\ m \notin Elements(puts') \cup blocked'
               /\ m \in Elements(buf'[q]) => m \notin Elements(batch'[q])
    BY <2>2 DEF Placed
  <2>6. ASSUME NEW m \in Msg
        PROVE  fate'[m] = "waiting" <=>
                 \/ m \in Elements(puts') \cup blocked'
                 \/ \E q \in Queue : m \in Elements(buf'[q]) \cup Elements(batch'[q])
    <3>1. CASE m \in ms
      <4>1. m \notin Elements(puts') \cup blocked'
        BY <2>2, <2>3, <3>1 DEF Placed
      <4>2. \A q \in Queue : m \notin Elements(buf'[q]) \cup Elements(batch'[q])
        BY <2>2, <2>3, <3>1 DEF Placed
      <4> QED
        BY <2>1, <3>1, <4>1, <4>2
    <3>2. CASE m \notin ms
      <4>1. /\ m \in Elements(puts') \cup blocked' <=> m \in Elements(puts) \cup blocked
            /\ \A q \in Queue : m \in Elements(buf'[q]) \cup Elements(batch'[q])
                                 <=> m \in Elements(buf[q]) \cup Elements(batch[q])
        BY <2>2, <3>2
      <4> QED
        BY <2>1, <3>2, <4>1 DEF Placed
    <3> QED
      BY <3>1, <3>2
  <2> QED
    BY <2>4, <2>5, <2>6, PlacedIntro
<1> QED
  BY <1>1, <1>2, <1>3, <1>4, <1>5, <1>6, <1>7 DEF Moves

LEMMA OnceStep ==
  ASSUME TypeOK, Targeted, AllOnce, Placed, Moves
  PROVE  AllOnce'
<1> SUFFICES Once(puts') /\ \A q \in Queue : Once(buf'[q]) /\ Once(batch'[q])
  BY DEF AllOnce, Once
<1>0. \A m \in Elements(puts) \cup blocked : m \in Msg /\ target[m] \in Queue
  BY ElementsAreMessages DEF TypeOK, Targeted
<1>00. /\ Once(puts) /\ puts \in Seq(Msg)
       /\ \A q \in Queue : Once(buf[q]) /\ Once(batch[q]) /\ buf[q] \in Seq(Msg)
  BY DEF AllOnce, TypeOK
<1>1. CASE Still
  BY <1>00, <1>1 DEF Still
<1>2. ASSUME NEW m \in Elements(puts) \cup blocked, GoesIn(m)
      PROVE  \A q \in Queue : Once(buf'[q]) /\ Once(batch'[q])
  <2>1. m \notin Elements(buf[target[m]]) /\ target[m] \in Queue /\ m \in Msg
    BY <1>0 DEF Placed
  <2>2. Once(Append(buf[target[m]], m))
    BY <1>00, <2>1, LineAppend
  <2> QED
    BY <1>00, <1>2, <2>1, <2>2, GoesInEffect
<1>3. CASE FirstGoesIn
  <2>1. Once(puts') /\ Head(puts) \in Elements(puts) /\ GoesIn(Head(puts))
    BY <1>00, <1>3, LineTail DEF FirstGoesIn
  <2> QED
    BY <1>2, <2>1
<1>4. CASE FirstWaits
  BY <1>00, <1>4, LineTail DEF FirstWaits
<1>5. ASSUME NEW m \in Msg, Arrives(m)
      PROVE Once(puts') /\ \A q \in Queue : Once(buf'[q]) /\ Once(batch'[q])
  <2>1. m \notin Elements(puts)
    BY <1>5 DEF Arrives, IsNext, Placed
  <2>2. Once(puts')
    BY <1>00, <1>5, <2>1, LineAppend DEF Arrives
  <2> QED
    BY <1>00, <1>5, <2>2 DEF Arrives
<1>6. ASSUME NEW m \in Msg, BlockedGoesIn(m)
      PROVE Once(puts') /\ \A q \in Queue : Once(buf'[q]) /\ Once(batch'[q])
  BY <1>00, <1>2, <1>6 DEF BlockedGoesIn
<1>7. ASSUME NEW q \in Queue, Drains(q)
      PROVE Once(puts') /\ \A p \in Queue : Once(buf'[p]) /\ Once(batch'[p])
  <2>1. /\ batch'[q] = buf[q] /\ buf'[q] = <<>> /\ puts' = puts
        /\ \A p \in Queue : p # q => batch'[p] = batch[p] /\ buf'[p] = buf[p]
    BY <1>7 DEF Drains, TypeOK
  <2> QED
    BY <1>00, <2>1, LineEmpty
<1>8. ASSUME NEW ms \in SUBSET Msg, Leaves(ms)
      PROVE Once(puts') /\ \A p \in Queue : Once(buf'[p]) /\ Once(batch'[p])
  BY <1>00, <1>8, LineEmpty DEF Leaves
<1> QED
  BY <1>1, <1>3, <1>4, <1>5, <1>6, <1>7, <1>8 DEF Moves

LEMMA TargetedStep ==
  ASSUME TypeOK, AllOnce, Targeted, Moves
  PROVE  Targeted'
<1> SUFFICES \A m \in Elements(puts') \cup blocked' : target'[m] # NoQueue
  BY DEF Targeted, Elements
<1>1. CASE Still
  BY <1>1 DEF Still, Targeted
<1>2. CASE FirstGoesIn
  BY <1>2, LineTail DEF FirstGoesIn, GoesIn, Targeted, TypeOK
<1>3. CASE FirstWaits
  BY <1>3, LineTail DEF FirstWaits, Targeted, TypeOK
<1>4. ASSUME NEW m \in Msg, Arrives(m)
      PROVE \A n \in Elements(puts') \cup blocked' : target'[n] # NoQueue
  <2>1. Elements(puts') = Elements(puts) \cup {m} /\ blocked' = blocked
    BY <1>4, ElementsAppend DEF Arrives, TypeOK
  <2>2. PICK q \in Queue : target' = [target EXCEPT ![m] = q]
    BY <1>4 DEF Arrives
  <2>3. Elements(puts) \cup blocked \subseteq Msg
    BY ElementsAreMessages DEF TypeOK
  <2> QED
    BY <2>1, <2>2, <2>3, NoQueueIsNoQueue DEF Targeted, TypeOK
<1>5. ASSUME NEW m \in Msg, BlockedGoesIn(m)
      PROVE \A n \in Elements(puts') \cup blocked' : target'[n] # NoQueue
  BY <1>5 DEF BlockedGoesIn, GoesIn, Targeted
<1>6. ASSUME NEW q \in Queue, Drains(q)
      PROVE \A n \in Elements(puts') \cup blocked' : target'[n] # NoQueue
  BY <1>6 DEF Drains, Targeted
<1>7. ASSUME NEW ms \in SUBSET Msg, Leaves(ms)
      PROVE \A n \in Elements(puts') \cup blocked' : target'[n] # NoQueue
  BY <1>7, ElementsEmpty DEF Leaves, Targeted
<1> QED
  BY <1>1, <1>2, <1>3, <1>4, <1>5, <1>6, <1>7 DEF Moves

LEMMA ArriveInvStep ==
  ASSUME TypeOK, Placed, ArriveInv, Moves
  PROVE  ArriveInv'
<1> SUFFICES /\ \A m, n \in Msg : fate'[m] = "new" /\ m < n => fate'[n] = "new"
             /\ blocked' \subseteq late'
  BY DEF ArriveInv
<1>1. CASE Still \/ FirstGoesIn \/ FirstWaits
  BY <1>1 DEF Still, FirstGoesIn, FirstWaits, GoesIn, ArriveInv
<1>2. ASSUME NEW m \in Msg, Arrives(m)
      PROVE  /\ \A n, o \in Msg : fate'[n] = "new" /\ n < o => fate'[o] = "new"
             /\ blocked' \subseteq late'
  <2>1. \A n \in Msg : fate'[n] = IF n = m THEN "waiting" ELSE fate[n]
    BY <1>2, SettleEffect DEF Arrives
  <2>2. \A n \in 1..(m - 1) : fate[n] # "new"
    BY <1>2 DEF Arrives, IsNext
  <2>3. \A n \in Msg : n < m => n \in 1..(m - 1)
    BY BoundsAssumption DEF Msg
  <2> QED
    BY <1>2, <2>1, <2>2, <2>3 DEF Arrives, ArriveInv
<1>3. ASSUME NEW m \in Msg, BlockedGoesIn(m)
      PROVE  /\ \A n, o \in Msg : fate'[n] = "new" /\ n < o => fate'[o] = "new"
             /\ blocked' \subseteq late'
  BY <1>3 DEF BlockedGoesIn, GoesIn, ArriveInv
<1>4. ASSUME NEW q \in Queue, Drains(q)
      PROVE  /\ \A n, o \in Msg : fate'[n] = "new" /\ n < o => fate'[o] = "new"
             /\ blocked' \subseteq late'
  BY <1>4 DEF Drains, ArriveInv
<1>5. ASSUME NEW ms \in SUBSET Msg, Leaves(ms)
      PROVE  /\ \A n, o \in Msg : fate'[n] = "new" /\ n < o => fate'[o] = "new"
             /\ blocked' \subseteq late'
  <2>1. PICK f \in Fate \ {"waiting", "new"} :
          \A m \in Msg : fate'[m] = IF m \in ms THEN f ELSE fate[m]
    BY <1>5, SettleEffect DEF Leaves
  <2>2. \A m \in ms : fate[m] = "waiting"
    BY <1>5, ElementsAreMessages DEF Leaves, Placed, TypeOK
  <2>3. \A m \in Msg : fate'[m] = "new" <=> fate[m] = "new"
    BY <2>1, <2>2
  <2> QED
    BY <1>5, <2>3 DEF Leaves, ArriveInv
<1> QED
  BY <1>1, <1>2, <1>3, <1>4, <1>5 DEF Moves

LEMMA BatchStep == TypeOK /\ BatchInv /\ [Next]_vars => BatchInv'
<1> DEFINE Goal(q) == /\ batch'[q] # <<>> => cons'[q] = "taken"
                      /\ cons'[q] # "none" => key'[q] # NoKey
<1> SUFFICES ASSUME TypeOK, BatchInv, [Next]_vars,
                    NEW q \in Queue
             PROVE  Goal(q)
  BY DEF BatchInv, Goal
<1> USE DEF registry, consumers, arrivals, control
<1>1. ASSUME UNCHANGED <<batch, cons, key>> PROVE Goal(q)
  BY <1>1 DEF BatchInv
<1>2. ASSUME NEW m \in Msg, Arrive(m) PROVE Goal(q)
  <2>1. batch' = batch /\ KeyOf[m] \in Key
    BY <1>2, KeyOfAssumption DEF Arrive
  <2>2. CASE ArriveAtQueue(m)
    BY <2>1, <2>2 DEF ArriveAtQueue, BatchInv
  <2>3. ASSUME NEW p \in Queue, ArriveAtNewQueue(m, p) PROVE Goal(q)
    <3>1. CASE p = q
      BY <2>1, <2>3, <3>1, NoQueueIsNoQueue DEF ArriveAtNewQueue, IsFresh, BatchInv, TypeOK
    <3>2. CASE p # q
      BY <2>1, <2>3, <3>2 DEF ArriveAtNewQueue, BatchInv, TypeOK
    <3> QED
      BY <3>1, <3>2
  <2> QED
    BY <1>2, <2>2, <2>3 DEF Arrive
<1>3. ASSUME NEW p \in Queue, Consume(p) PROVE Goal(q)
  <2>1. CASE Begin(p) \/ NeverBegin(p)
    BY <2>1 DEF Begin, NeverBegin, BatchInv, TypeOK
  <2>2. CASE Take(p)
    BY <2>2 DEF Take, BatchInv, TypeOK
  <2>3. ASSUME NEW c, cons' = [cons EXCEPT ![p] = c], batch' = [batch EXCEPT ![p] = <<>>],
               key' = key, cons[p] # "none"
        PROVE  Goal(q)
    <3>1. CASE p = q
      BY <2>3, <3>1 DEF BatchInv, TypeOK
    <3>2. CASE p # q
      BY <2>3, <3>2 DEF BatchInv, TypeOK
    <3> QED
      BY <3>1, <3>2
  <2>4. CASE \/ Handle(p) \/ FailBatch(p) \/ Ignore(p) \/ EndReading(p)
             \/ AbsorbInCommand(p)
    BY <2>3, <2>4 DEF Handle, FailBatch, Ignore, EndReading, AbsorbInCommand, Works,
       NextBatch
  <2>5. CASE StartRun(p) \/ Leave(p)
    BY <2>3, <2>5 DEF StartRun, Leave, Works
  <2> QED
    BY <1>3, <2>1, <2>2, <2>4, <2>5 DEF Consume
<1>4. ASSUME NEW m \in Msg, PutUnblocked(m) \/ PutTimeout(m) PROVE Goal(q)
  BY <1>1, <1>4 DEF PutUnblocked, PutTimeout
<1>5. ASSUME NEW k \in Key, StopCommand(k) \/ EndRun(k) PROVE Goal(q)
  BY <1>1, <1>5 DEF StopCommand, EndRun
<1>6. ASSUME NEW p \in Queue, GrowIdle(p) PROVE Goal(q)
  BY <1>1, <1>6 DEF GrowIdle
<1>7. CASE Put \/ SweepBegin \/ SweepOn \/ StopEnqueues \/ StopCleaner \/ StopConsumers
  BY <1>1, <1>7 DEF Put, SweepBegin, SweepOn, StopEnqueues, StopCleaner, StopConsumers
<1>8. CASE StopDone \/ UNCHANGED vars
  BY <1>1, <1>8 DEF StopDone, vars
<1> QED
  BY <1>2, <1>3, <1>4, <1>5, <1>6, <1>7, <1>8 DEF Next
-----------------------------------------------------------------------------
(* The order of messages                                                   *)

LEMMA LineIntro ==
  ASSUME \A q \in Queue :
           /\ InOrder(batch'[q], OnTime(q)') /\ InOrder(buf'[q], OnTime(q)')
           /\ InOrder(puts', OnTime(q)')
           /\ Before(batch'[q], buf'[q], OnTime(q)')
           /\ Before(batch'[q], puts', OnTime(q)')
           /\ Before(buf'[q], puts', OnTime(q)')
  PROVE  LineInv'
BY DEF LineInv, InOrder, Before, Elements

LEMMA FewerInOrder ==
  ASSUME NEW ms, NEW ns \in SUBSET ms
  PROVE  /\ \A s : InOrder(s, ms) => InOrder(s, ns)
         /\ \A s, t : Before(s, t, ms) => Before(s, t, ns)
BY DEF InOrder, Before

\* A message goes to the end of its queue, before those still with the put tasks.
LEMMA GoesInKeepsOrder ==
  ASSUME TypeOK, LineInv, NEW m \in Msg, target[m] \in Queue, GoesIn(m),
         \A q \in Queue : \A n \in Elements(batch[q]) \cup Elements(buf[q]) :
           {n, m} \subseteq OnTime(q) => n < m
  PROVE  \A q \in Queue :
           /\ OnTime(q)' = OnTime(q)
           /\ InOrder(batch'[q], OnTime(q)) /\ InOrder(buf'[q], OnTime(q))
           /\ Before(batch'[q], buf'[q], OnTime(q))
           /\ batch'[q] = batch[q]
           /\ Elements(buf'[q]) \subseteq Elements(buf[q]) \cup {m}
<1> TAKE q \in Queue
<1>1. OnTime(q)' = OnTime(q) /\ batch'[q] = batch[q]
  BY GoesInEffect DEF OnTime
<1>2. CASE q = target[m]
  <2>1. buf'[q] = Append(buf[q], m) /\ Elements(buf'[q]) = Elements(buf[q]) \cup {m}
    BY <1>2, GoesInEffect
  <2>2. InOrder(Append(buf[q], m), OnTime(q))
    BY LineAppend DEF LineInv, TypeOK
  <2>3. Before(batch[q], buf'[q], OnTime(q))
    BY <2>1 DEF LineInv, Before
  <2> QED
    BY <1>1, <2>1, <2>2, <2>3 DEF LineInv
<1>3. CASE q # target[m]
  BY <1>1, <1>3, GoesInEffect DEF LineInv
<1> QED
  BY <1>2, <1>3

LEMMA LineStep ==
  ASSUME TypeOK, PlaceInv, LineInv, Moves
  PROVE  LineInv'
<1> DEFINE Goal(q) == /\ InOrder(batch'[q], OnTime(q)') /\ InOrder(buf'[q], OnTime(q)')
                      /\ InOrder(puts', OnTime(q)')
                      /\ Before(batch'[q], buf'[q], OnTime(q)')
                      /\ Before(batch'[q], puts', OnTime(q)')
                      /\ Before(buf'[q], puts', OnTime(q)')
<1> SUFFICES ASSUME NEW q \in Queue PROVE Goal(q)
  BY LineIntro
<1>0. /\ InOrder(batch[q], OnTime(q)) /\ InOrder(buf[q], OnTime(q)) /\ InOrder(puts, OnTime(q))
      /\ Before(batch[q], buf[q], OnTime(q))
      /\ Before(batch[q], puts, OnTime(q)) /\ Before(buf[q], puts, OnTime(q))
      /\ puts \in Seq(Msg)
  BY DEF LineInv, TypeOK
<1>00. \A m \in Elements(puts) \cup blocked : m \in Msg /\ target[m] \in Queue
  BY ElementsAreMessages DEF TypeOK, PlaceInv, Targeted
<1>1. CASE Still
  <2>1. OnTime(q)' = OnTime(q)
    BY <1>1 DEF Still, OnTime
  <2> QED
    BY <1>0, <1>1, <2>1 DEF Still
<1>2. CASE FirstGoesIn
  <2> DEFINE m == Head(puts)
  <2>1. /\ m \in Elements(puts) /\ puts' = Tail(puts) /\ InOrder(puts', OnTime(q))
        /\ Elements(puts') \subseteq Elements(puts)
        /\ \A x \in Elements(puts') : {m, x} \subseteq OnTime(q) => m < x
    BY <1>0, <1>2, LineTail DEF FirstGoesIn
  <2>2. GoesIn(m) /\ m \in Msg /\ target[m] \in Queue
    BY <1>00, <1>2, <2>1 DEF FirstGoesIn
  <2> HIDE DEF m
  <2>3. \A p \in Queue : \A n \in Elements(batch[p]) \cup Elements(buf[p]) :
          {n, m} \subseteq OnTime(p) => n < m
    BY <2>1 DEF LineInv, Before
  <2>4. /\ OnTime(q)' = OnTime(q) /\ batch'[q] = batch[q]
        /\ InOrder(batch'[q], OnTime(q)) /\ InOrder(buf'[q], OnTime(q))
        /\ Before(batch'[q], buf'[q], OnTime(q))
        /\ Elements(buf'[q]) \subseteq Elements(buf[q]) \cup {m}
    BY <2>2, <2>3, GoesInKeepsOrder
  <2>5. Before(batch'[q], puts', OnTime(q)) /\ Before(buf'[q], puts', OnTime(q))
    BY <1>0, <2>1, <2>4 DEF Before
  <2> QED
    BY <2>1, <2>4, <2>5
<1>3. CASE FirstWaits
  <2>1. /\ InOrder(puts', OnTime(q)) /\ Elements(puts') \subseteq Elements(puts)
        /\ UNCHANGED <<buf, batch>>
    BY <1>0, <1>3, LineTail DEF FirstWaits
  <2>2. Before(batch[q], puts', OnTime(q)) /\ Before(buf[q], puts', OnTime(q))
    BY <1>0, <2>1 DEF Before
  <2>3. OnTime(q)' \subseteq OnTime(q)
    BY <1>3 DEF FirstWaits, OnTime
  <2> QED
    BY <1>0, <2>1, <2>2, <2>3, FewerInOrder
<1>4. ASSUME NEW m \in Msg, Arrives(m) PROVE Goal(q)
  <2>1. /\ Elements(puts') = Elements(puts) \cup {m} /\ puts' = Append(puts, m)
        /\ UNCHANGED <<buf, batch>>
    BY <1>0, <1>4, ElementsAppend DEF Arrives
  <2>2. \A n \in Elements(puts) \cup Elements(buf[q]) \cup Elements(batch[q]) :
          n \in Msg /\ n # m /\ n < m
    <3>1. fate[m] = "new" /\ \A n \in Msg : fate[n] = "waiting" => n # m /\ ~(m < n)
      BY <1>4 DEF Arrives, IsNext, PlaceInv, ArriveInv
    <3>2. \A n \in Elements(puts) \cup Elements(buf[q]) \cup Elements(batch[q]) :
            n \in Msg /\ fate[n] = "waiting"
      BY ElementsAreMessages DEF PlaceInv, Placed
    <3>3. \A n \in Msg : n # m /\ ~(m < n) => n < m
      BY BoundsAssumption DEF Msg
    <3> QED
      BY <3>1, <3>2, <3>3
  <2>3. \A n \in Msg : n # m => (n \in OnTime(q)' <=> n \in OnTime(q))
    BY <1>4 DEF Arrives, OnTime, TypeOK
  <2>4. InOrder(batch[q], OnTime(q)') /\ InOrder(buf[q], OnTime(q)') /\ InOrder(puts, OnTime(q)')
    <3>1. \A s : (\A n \in Elements(s) : n \in Msg /\ n # m) /\ InOrder(s, OnTime(q))
                  => InOrder(s, OnTime(q)')
      BY <2>3 DEF InOrder, Elements
    <3> QED
      BY <1>0, <2>2, <3>1
  <2>5. InOrder(puts', OnTime(q)')
    BY <1>0, <2>1, <2>2, <2>4, LineAppend
  <2>6. /\ Before(batch[q], buf[q], OnTime(q)')
        /\ Before(batch[q], puts', OnTime(q)') /\ Before(buf[q], puts', OnTime(q)')
    BY <1>0, <2>1, <2>2, <2>3 DEF Before
  <2> QED
    BY <2>1, <2>4, <2>5, <2>6
<1>5. ASSUME NEW m \in Msg, BlockedGoesIn(m) PROVE Goal(q)
  <2>1. GoesIn(m) /\ target[m] \in Queue /\ puts' = puts
    BY <1>00, <1>5 DEF BlockedGoesIn
  <2>2. \A p \in Queue : m \notin OnTime(p)
    BY <1>5 DEF BlockedGoesIn, OnTime, PlaceInv, ArriveInv
  <2>3. /\ OnTime(q)' = OnTime(q) /\ batch'[q] = batch[q]
        /\ InOrder(batch'[q], OnTime(q)) /\ InOrder(buf'[q], OnTime(q))
        /\ Before(batch'[q], buf'[q], OnTime(q))
        /\ Elements(buf'[q]) \subseteq Elements(buf[q]) \cup {m}
    BY <2>1, <2>2, GoesInKeepsOrder
  <2>4. Before(buf'[q], puts, OnTime(q))
    BY <1>0, <2>2, <2>3 DEF Before
  <2> QED
    BY <1>0, <2>1, <2>3, <2>4
<1>6. ASSUME NEW p \in Queue, Drains(p) PROVE Goal(q)
  <2>1. OnTime(q)' = OnTime(q) /\ puts' = puts
    BY <1>6 DEF Drains, OnTime
  <2>2. CASE p = q
    <3>1. batch'[q] = buf[q] /\ buf'[q] = <<>>
      BY <1>6, <2>2 DEF Drains, TypeOK
    <3>2. Before(batch'[q], <<>>, OnTime(q)) /\ Before(<<>>, puts, OnTime(q))
      BY LineEmpty DEF Before
    <3> QED
      BY <1>0, <2>1, <3>1, <3>2, LineEmpty
  <2>3. CASE p # q
    <3>1. batch'[q] = batch[q] /\ buf'[q] = buf[q]
      BY <1>6, <2>3 DEF Drains, TypeOK
    <3> QED
      BY <1>0, <2>1, <3>1
  <2> QED
    BY <2>2, <2>3
<1>7. ASSUME NEW ms \in SUBSET Msg, Leaves(ms) PROVE Goal(q)
  <2>1. OnTime(q)' = OnTime(q)
    BY <1>7 DEF Leaves, OnTime
  <2>2. /\ puts' = puts \/ puts' = <<>>
        /\ buf'[q] = buf[q] \/ buf'[q] = <<>>
        /\ batch'[q] = batch[q] \/ batch'[q] = <<>>
    BY <1>7 DEF Leaves
  <2>3. \A s : Before(s, <<>>, OnTime(q)) /\ Before(<<>>, s, OnTime(q))
    BY LineEmpty DEF Before
  <2> QED
    BY <1>0, <2>1, <2>2, <2>3, LineEmpty
<1> QED
  BY <1>1, <1>2, <1>3, <1>4, <1>5, <1>6, <1>7 DEF Moves

\* One line after the other.
LEMMA OneLine ==
  ASSUME NEW s \in Seq(Msg), NEW t \in Seq(Msg), NEW ms,
         InOrder(s, ms), InOrder(t, ms), Before(s, t, ms)
  PROVE  /\ s \o t \in Seq(Msg) /\ InOrder(s \o t, ms)
         /\ Elements(s \o t) = Elements(s) \cup Elements(t)
<1> DEFINE u == s \o t
<1>1. /\ u \in Seq(Msg) /\ Len(u) = Len(s) + Len(t) /\ Len(s) \in Nat /\ Len(t) \in Nat
      /\ \A i \in 1..Len(s) : u[i] = s[i]
      /\ \A i \in 1..Len(t) : u[Len(s) + i] = t[i]
  OBVIOUS
<1> HIDE DEF u
<1>2. \A i \in 1..Len(u) : i \in 1..Len(s) \/ (i - Len(s) \in 1..Len(t) /\ u[i] = t[i - Len(s)])
  <2> TAKE i \in 1..Len(u)
  <2>1. i \notin 1..Len(s) => i - Len(s) \in 1..Len(t) /\ Len(s) + (i - Len(s)) = i
    BY <1>1
  <2> QED
    BY <1>1, <2>1
<1>3. ASSUME NEW i \in 1..Len(u), NEW j \in 1..Len(u), i < j, {u[i], u[j]} \subseteq ms
      PROVE  u[i] < u[j]
  <2>1. CASE i \in 1..Len(s) /\ j \in 1..Len(s)
    BY <1>1, <1>3, <2>1 DEF InOrder
  <2>2. CASE i \in 1..Len(s) /\ j \notin 1..Len(s)
    <3>1. j - Len(s) \in 1..Len(t) /\ u[j] = t[j - Len(s)] /\ u[i] = s[i]
      BY <1>1, <1>2, <2>2
    <3>2. u[i] \in Elements(s) /\ u[j] \in Elements(t)
      BY <2>2, <3>1 DEF Elements
    <3> QED
      BY <1>3, <3>2 DEF Before
  <2>3. CASE i \notin 1..Len(s)
    <3>1. j \notin 1..Len(s)
      BY <1>1, <1>3, <2>3
    <3>2. /\ i - Len(s) \in 1..Len(t) /\ u[i] = t[i - Len(s)]
          /\ j - Len(s) \in 1..Len(t) /\ u[j] = t[j - Len(s)]
      BY <1>2, <2>3, <3>1
    <3>3. i - Len(s) < j - Len(s)
      BY <1>1, <1>3
    <3> QED
      BY <1>3, <3>2, <3>3 DEF InOrder
  <2> QED
    BY <2>1, <2>2, <2>3
<1>4. Elements(u) = Elements(s) \cup Elements(t)
  <2>1. Elements(u) \subseteq Elements(s) \cup Elements(t)
    <3> SUFFICES ASSUME NEW i \in 1..Len(u) PROVE u[i] \in Elements(s) \cup Elements(t)
      BY DEF Elements
    <3>1. CASE i \in 1..Len(s)
      BY <1>1, <3>1 DEF Elements
    <3>2. CASE i - Len(s) \in 1..Len(t) /\ u[i] = t[i - Len(s)]
      BY <3>2 DEF Elements
    <3> QED
      BY <1>2, <3>1, <3>2
  <2>2. Elements(s) \subseteq Elements(u)
    BY <1>1 DEF Elements
  <2>3. ASSUME NEW i \in 1..Len(t) PROVE t[i] \in Elements(u)
    <3>1. Len(s) + i \in 1..Len(u) /\ u[Len(s) + i] = t[i]
      BY <1>1
    <3> QED
      BY <3>1 DEF Elements
  <2> QED
    BY <2>1, <2>2, <2>3 DEF Elements
<1> QED
  BY <1>1, <1>3, <1>4 DEF InOrder, u

LEMMA PlaceInvInit == Init => TypeOK /\ PlaceInv /\ LineInv
<1> SUFFICES ASSUME Init PROVE TypeOK /\ PlaceInv /\ LineInv
  OBVIOUS
<1>1. TypeOK
  BY BoundsAssumption, NoQueueIsNoQueue DEF Init, TypeOK, ConsumerState, Fate, Phase
<1>2. puts = <<>> /\ blocked = {} /\ \A q \in Queue : buf[q] = <<>> /\ batch[q] = <<>>
  BY DEF Init
<1>3. AllOnce /\ Placed /\ Targeted
  BY <1>2, LineEmpty DEF Init, AllOnce, Placed, Targeted
<1>4. BatchInv /\ ArriveInv
  BY <1>2 DEF Init, BatchInv, ArriveInv
<1>5. LineInv
  BY <1>2, LineEmpty DEF LineInv, Before
<1> QED
  BY <1>1, <1>3, <1>4, <1>5 DEF PlaceInv

LEMMA PlaceInvAlways == Spec => [](TypeOK /\ PlaceInv /\ LineInv)
<1>1. TypeOK /\ PlaceInv /\ LineInv /\ [Next]_vars => (TypeOK /\ PlaceInv /\ LineInv)'
  <2> SUFFICES ASSUME TypeOK, PlaceInv, LineInv, [Next]_vars
               PROVE  (TypeOK /\ PlaceInv /\ LineInv)'
    OBVIOUS
  <2>1. Moves
    BY NextMoves DEF PlaceInv
  <2>2. AllOnce' /\ Placed' /\ Targeted' /\ ArriveInv'
    BY <2>1, OnceStep, PlacedStep, TargetedStep, ArriveInvStep DEF PlaceInv
  <2>3. TypeOK' /\ BatchInv'
    BY TypeStep, BatchStep DEF PlaceInv
  <2>4. LineInv'
    BY <2>1, LineStep
  <2> QED
    BY <2>2, <2>3, <2>4 DEF PlaceInv
<1> QED
  BY <1>1, PlaceInvInit, PTL DEF Spec

\* A message that a sequence holds once has one spot in it.
LEMMA OneSpot ==
  ASSUME NEW s \in Seq(Msg), Once(s), NEW m
  PROVE  /\ m \notin Elements(s) => Spots(s, m) = {}
         /\ m \in Elements(s) => \E i \in 1..Len(s) : Spots(s, m) = {i}
<1>1. m \notin Elements(s) => Spots(s, m) = {}
  BY DEF Elements, Spots
<1>2. ASSUME NEW i \in 1..Len(s), s[i] = m PROVE Spots(s, m) = {i}
  BY <1>2 DEF Once, Spots
<1> QED
  BY <1>1, <1>2 DEF Elements

LEMMA OnePlace ==
  ASSUME TypeOK, AllOnce, Placed, NEW m \in Msg
  PROVE  Cardinality(Places(m)) = IF fate[m] = "waiting" THEN 1 ELSE 0
<1> DEFINE Put_ == {<<"put", i>> : i \in Spots(puts, m)}
           Blocked_ == IF m \in blocked THEN {<<"blocked">>} ELSE {}
           Buf_ == UNION {{<<"buf", q, i>> : i \in Spots(buf[q], m)} : q \in Queue}
           Batch_ == UNION {{<<"batch", q, i>> : i \in Spots(batch[q], m)} : q \in Queue}
<1>1. Places(m) = Put_ \cup Blocked_ \cup Buf_ \cup Batch_
  BY DEF Places
<1>2. m \notin Elements(puts) => Put_ = {}
  BY OneSpot DEF AllOnce, TypeOK
<1>3. m \notin blocked => Blocked_ = {}
  OBVIOUS
<1>4. (\A q \in Queue : m \notin Elements(buf[q])) => Buf_ = {}
  BY OneSpot DEF AllOnce, TypeOK
<1>5. (\A q \in Queue : m \notin Elements(batch[q])) => Batch_ = {}
  BY OneSpot DEF AllOnce, TypeOK
<1>6. m \in Elements(puts) => \E x : Put_ = {x}
  <2> SUFFICES ASSUME m \in Elements(puts) PROVE \E x : Put_ = {x}
    OBVIOUS
  <2>1. PICK i : Spots(puts, m) = {i}
    BY OneSpot DEF AllOnce, TypeOK
  <2>2. Put_ = {<<"put", i>>}
    BY <2>1
  <2> QED
    BY <2>2
<1>7. m \in blocked => \E x : Blocked_ = {x}
  OBVIOUS
<1>8. ASSUME NEW q \in Queue, m \in Elements(buf[q]) PROVE \E x : Buf_ = {x}
  <2>1. PICK i : Spots(buf[q], m) = {i}
    BY <1>8, OneSpot DEF AllOnce, TypeOK
  <2>2. \A p \in Queue : p # q => Spots(buf[p], m) = {}
    BY <1>8, OneSpot DEF AllOnce, TypeOK, Placed
  <2>3. Buf_ = {<<"buf", q, i>>}
    BY <2>1, <2>2
  <2> QED
    BY <2>3
<1>9. ASSUME NEW q \in Queue, m \in Elements(batch[q]) PROVE \E x : Batch_ = {x}
  <2>1. PICK i : Spots(batch[q], m) = {i}
    BY <1>9, OneSpot DEF AllOnce, TypeOK
  <2>2. \A p \in Queue : p # q => Spots(batch[p], m) = {}
    BY <1>9, OneSpot DEF AllOnce, TypeOK, Placed
  <2>3. Batch_ = {<<"batch", q, i>>}
    BY <2>1, <2>2
  <2> QED
    BY <2>3
<1> HIDE DEF Put_, Blocked_, Buf_, Batch_
<1>10. CASE fate[m] # "waiting"
  <2>1. Places(m) = {}
    BY <1>1, <1>2, <1>3, <1>4, <1>5, <1>10 DEF Placed
  <2> QED
    BY <1>10, <2>1, FS_EmptySet
<1>11. CASE fate[m] = "waiting"
  <2>1. \E x : Places(m) = {x}
    <3>1. CASE m \in Elements(puts)
      <4>1. Blocked_ = {} /\ Buf_ = {} /\ Batch_ = {}
        BY <1>3, <1>4, <1>5, <3>1 DEF Placed
      <4> QED
        BY <1>1, <1>6, <3>1, <4>1
    <3>2. CASE m \in blocked
      <4>1. Put_ = {} /\ Buf_ = {} /\ Batch_ = {}
        BY <1>2, <1>4, <1>5, <3>2 DEF Placed
      <4> QED
        BY <1>1, <1>7, <3>2, <4>1
    <3>3. ASSUME NEW q \in Queue, m \in Elements(buf[q]) PROVE \E x : Places(m) = {x}
      <4>1. Put_ = {} /\ Blocked_ = {} /\ Batch_ = {}
        BY <1>2, <1>3, <1>5, <3>3 DEF Placed
      <4> QED
        BY <1>1, <1>8, <3>3, <4>1
    <3>4. ASSUME NEW q \in Queue, m \in Elements(batch[q]) PROVE \E x : Places(m) = {x}
      <4>1. Put_ = {} /\ Blocked_ = {} /\ Buf_ = {}
        BY <1>2, <1>3, <1>4, <3>4 DEF Placed
      <4> QED
        BY <1>1, <1>9, <3>4, <4>1
    <3> QED
      BY <1>11, <3>1, <3>2, <3>3, <3>4 DEF Placed
  <2>2. PICK x : Places(m) = {x}
    BY <2>1
  <2> QED
    BY <1>11, <2>2, FS_Singleton
<1> QED
  BY <1>10, <1>11
-----------------------------------------------------------------------------
(* One consumer per key                                                    *)

\* A consumer that will be cancelled belongs to an evicted key.
LEMMA CancelledIsEvicted ==
  ASSUME TypeOK, UpInv, NEW q \in Queue, Alive(q), q \in cancel
  PROVE  key[q] \in evicted /\ (\A k \in Key : reg[k] # q)
<1>1. key[q] \in Key
  BY DEF UpInv, Registered, TypeOK
<1>2. \A k \in Key : reg[k] # q
  BY NoQueueIsNoQueue DEF UpInv, LiveConsumer
<1> QED
  BY <1>1, <1>2 DEF UpInv, SoleConsumer

LEMMA NotMissed ==
  ASSUME TypeOK, NoneMissed, NEW ms, NEW f, Settle(ms, f), evicted' = evicted,
         f \notin {"ignored", "lost"} \/ \A m \in ms : KeyOf[m] \in evicted
  PROVE  NoneMissed'
BY DEF NoneMissed, Settle

LEMMA ArriveUp ==
  ASSUME TypeOK, UpInv, NEW m \in Msg, Arrive(m)
  PROVE  UpInv'
<1> USE NoQueueIsNoQueue DEF registry, consumers, arrivals, control
<1>1. KeyOf[m] \in Key /\ (\A n \in Msg : KeyOf[n] \in Key)
  BY KeyOfAssumption
<1>2. NoneMissed'
  BY NotMissed DEF Arrive, UpInv
<1>3. Elements(puts') = Elements(puts) \cup {m}
  BY ElementsAppend DEF Arrive, TypeOK
<1>4. UNCHANGED <<buf, cancel, batch, run, blocked, evicted>>
  BY DEF Arrive
<1>5. CASE ArriveAtQueue(m)
  <2>1. UNCHANGED <<reg, key, cons>>
    BY <1>5 DEF ArriveAtQueue
  <2>2. Registered' /\ RunIsRead' /\ LiveConsumer' /\ SoleConsumer'
    BY <1>4, <2>1 DEF UpInv, Registered, RunIsRead, LiveConsumer, SoleConsumer, Alive
  <2>3. key[reg[KeyOf[m]]] = KeyOf[m] /\ reg[KeyOf[m]] # NoQueue
    BY <1>1, <1>5 DEF ArriveAtQueue, UpInv, Registered
  <2>4. \A n \in Msg : target'[n] = IF n = m THEN reg[KeyOf[m]] ELSE target[n]
    BY <1>5 DEF ArriveAtQueue, TypeOK
  <2>5. Elements(puts) \cup blocked \subseteq Msg
    BY DEF TypeOK, Elements
  <2>6. RightQueue'
    <3>1. \A n \in Msg : target'[n] # NoQueue => key'[target'[n]] = KeyOf[n]
      BY <2>1, <2>3, <2>4 DEF UpInv, RightQueue
    <3>2. \A n \in Elements(puts') \cup blocked' : target'[n] # NoQueue
      BY <1>3, <1>4, <2>3, <2>4, <2>5 DEF UpInv, RightQueue
    <3> QED
      BY <1>4, <2>1, <3>1, <3>2 DEF UpInv, RightQueue, Elements
  <2> QED
    BY <1>2, <2>2, <2>6 DEF UpInv
<1>6. ASSUME NEW q \in Queue, ArriveAtNewQueue(m, q) PROVE UpInv'
  <2>1. /\ key[q] = NoKey /\ q \notin cancel
        /\ (\A k \in Key : reg[k] # q /\ run[k] # q)
        /\ reg[KeyOf[m]] = NoQueue
    BY <1>1, <1>6 DEF ArriveAtNewQueue, IsFresh, UpInv, Registered
  <2>2. /\ \A k \in Key : reg'[k] = IF k = KeyOf[m] THEN q ELSE reg[k]
        /\ \A p \in Queue : key'[p] = IF p = q THEN KeyOf[m] ELSE key[p]
        /\ \A p \in Queue : cons'[p] = IF p = q THEN "created" ELSE cons[p]
        /\ \A n \in Msg : target'[n] = IF n = m THEN q ELSE target[n]
    BY <1>6 DEF ArriveAtNewQueue, TypeOK
  <2>3. Registered'
    <3>1. ASSUME NEW k \in Key, reg'[k] # NoQueue PROVE key'[reg'[k]] = k
      <4>1. CASE k = KeyOf[m]
        BY <2>2, <4>1
      <4>2. CASE k # KeyOf[m]
        <5>1. reg'[k] = reg[k] /\ reg[k] \in Queue \ {q}
          BY <2>1, <2>2, <3>1, <4>2 DEF TypeOK
        <5> QED
          BY <2>2, <3>1, <5>1 DEF UpInv, Registered
      <4> QED
        BY <4>1, <4>2
    <3>2. ASSUME NEW p \in Queue, key'[p] = NoKey
          PROVE  cons'[p] = "none" /\ p \notin cancel' /\ \A k \in Key : run'[k] # p
      BY <1>1, <1>4, <2>2, <3>2 DEF UpInv, Registered
    <3> QED
      BY <3>1, <3>2 DEF Registered
  <2>4. RightQueue'
    <3>1. \A n \in Msg : target[n] # q
      BY <1>1, <2>1 DEF UpInv, RightQueue
    <3>2. Elements(puts) \cup blocked \subseteq Msg
      BY DEF TypeOK, Elements
    <3>3. \A n \in Msg : target'[n] # NoQueue => key'[target'[n]] = KeyOf[n]
      BY <2>2, <3>1 DEF UpInv, RightQueue, TypeOK
    <3>4. \A n \in Elements(puts') \cup blocked' : target'[n] # NoQueue
      BY <1>3, <1>4, <2>2, <3>2 DEF UpInv, RightQueue
    <3>5. ASSUME NEW p \in Queue, NEW n \in Elements(buf[p]) \cup Elements(batch[p])
          PROVE  KeyOf[n] = key'[p]
      <4>1. n \in Msg
        BY DEF TypeOK, Elements
      <4>2. KeyOf[n] = key[p]
        BY DEF UpInv, RightQueue
      <4> QED
        BY <1>1, <2>1, <2>2, <4>1, <4>2
    <3> QED
      BY <1>4, <3>3, <3>4, <3>5 DEF RightQueue, Elements
  <2>5. RunIsRead'
    BY <1>4, <2>1, <2>2 DEF UpInv, RunIsRead, TypeOK
  <2>6. LiveConsumer'
    <3>1. ASSUME NEW k \in Key, reg'[k] # NoQueue
          PROVE  cons'[reg'[k]] \notin {"none", "gone"} /\ reg'[k] \notin cancel'
      <4>1. CASE k = KeyOf[m]
        BY <1>4, <2>1, <2>2, <4>1
      <4>2. CASE k # KeyOf[m]
        <5>1. reg'[k] = reg[k] /\ reg[k] \in Queue \ {q}
          BY <2>1, <2>2, <3>1, <4>2 DEF TypeOK
        <5> QED
          BY <1>4, <2>2, <3>1, <5>1 DEF UpInv, LiveConsumer, Alive
      <4> QED
        BY <4>1, <4>2
    <3> QED
      BY <3>1 DEF LiveConsumer, Alive
  <2>7. SoleConsumer'
    BY <1>1, <1>4, <2>1, <2>2 DEF UpInv, SoleConsumer, Alive
  <2> QED
    BY <1>2, <2>3, <2>4, <2>5, <2>6, <2>7 DEF UpInv
<1> QED
  BY <1>5, <1>6 DEF Arrive

\* A message goes into a queue of its key, or waits, or gives up.
LEMMA BufferUp ==
  ASSUME TypeOK, UpInv, UNCHANGED <<reg, key, cons, cancel, run, evicted, batch, target>>,
         NoneMissed',
         Elements(puts') \cup blocked' \subseteq Elements(puts) \cup blocked,
         \A q \in Queue : \A m \in Elements(buf'[q]) : KeyOf[m] = key[q]
  PROVE  UpInv'
<1>1. Registered' /\ RunIsRead' /\ LiveConsumer' /\ SoleConsumer'
  BY DEF UpInv, Registered, RunIsRead, LiveConsumer, SoleConsumer, Alive
<1>2. RightQueue'
  BY DEF UpInv, RightQueue, Elements
<1> QED
  BY <1>1, <1>2 DEF UpInv

LEMMA PutKeepsKeys ==
  ASSUME TypeOK, UpInv, NEW m \in Elements(puts) \cup blocked,
         buf' = [buf EXCEPT ![target[m]] = Append(@, m)]
  PROVE  \A q \in Queue : \A n \in Elements(buf'[q]) : KeyOf[n] = key[q]
<1>1. m \in Msg /\ target[m] \in Queue
  BY DEF TypeOK, UpInv, RightQueue, Elements
<1>2. key[target[m]] = KeyOf[m]
  BY <1>1, NoQueueIsNoQueue DEF UpInv, RightQueue
<1>3. ASSUME NEW q \in Queue, NEW n \in Elements(buf'[q]) PROVE KeyOf[n] = key[q]
  <2>1. CASE q = target[m]
    <3>1. buf'[q] = Append(buf[q], m) /\ buf[q] \in Seq(Msg)
      BY <2>1 DEF TypeOK
    <3>2. n \in Elements(buf[q]) \cup {m}
      BY <1>1, <1>3, <3>1, ElementsAppend
    <3> QED
      BY <1>2, <2>1, <3>2 DEF UpInv, RightQueue
  <2>2. CASE q # target[m]
    <3>1. buf'[q] = buf[q]
      BY <2>2 DEF TypeOK
    <3> QED
      BY <1>3, <3>1 DEF UpInv, RightQueue
  <2> QED
    BY <2>1, <2>2
<1> QED
  BY <1>3

LEMMA StillRightQueue ==
  ASSUME RightQueue, UNCHANGED <<key, target, puts, blocked>>,
         \A p \in Queue : Elements(buf'[p]) \cup Elements(batch'[p])
                            \subseteq Elements(buf[p]) \cup Elements(batch[p])
  PROVE  RightQueue'
<1>1. \A m \in Msg : target'[m] # NoQueue => key'[target'[m]] = KeyOf[m]
  BY DEF RightQueue
<1>2. \A m \in Elements(puts') \cup blocked' : target'[m] # NoQueue
  BY DEF RightQueue
<1>3. \A p \in Queue : \A m \in Elements(buf'[p]) \cup Elements(batch'[p]) :
        KeyOf[m] = key'[p]
  BY DEF RightQueue
<1> QED
  BY <1>1, <1>2, <1>3 DEF RightQueue, Elements

\* A consumer goes on with its loop, or starts the run of its key.
LEMMA LoopUp ==
  ASSUME TypeOK, UpInv, NEW q \in Queue, Alive(q),
         NEW c, c \notin {"none", "gone"}, cons' = [cons EXCEPT ![q] = c],
         UNCHANGED <<reg, key, evicted, target, puts, blocked>>,
         cancel' \subseteq cancel,
         \A p \in Queue : Elements(buf'[p]) \cup Elements(batch'[p])
                            \subseteq Elements(buf[p]) \cup Elements(batch[p]),
         \A k \in Key : run'[k] = run[k] \/ (run'[k] = q /\ k = key[q]),
         c = "reading" \/ \A k \in Key \ evicted : run'[k] # q,
         NoneMissed'
  PROVE  UpInv'
<1> USE NoQueueIsNoQueue
<1>1. \A p \in Queue : cons'[p] = IF p = q THEN c ELSE cons[p]
  BY DEF TypeOK
<1>2. key[q] # NoKey
  BY DEF UpInv, Registered, Alive
<1>3. Registered'
  BY <1>1, <1>2 DEF UpInv, Registered
<1>4. RightQueue'
  BY StillRightQueue DEF UpInv
<1>5. RunIsRead'
  <2> SUFFICES ASSUME NEW k \in Key \ evicted, run'[k] # NoQueue
               PROVE  cons'[run'[k]] = "reading" /\ key[run'[k]] = k
    BY DEF RunIsRead
  <2>1. CASE run'[k] = q
    <3>1. c = "reading"
      BY <2>1
    <3>2. key[q] = k
      BY <2>1 DEF UpInv, RunIsRead
    <3> QED
      BY <1>1, <2>1, <3>1, <3>2
  <2>2. CASE run'[k] # q
    <3>1. run'[k] = run[k] /\ run[k] \in Queue
      BY <2>2 DEF TypeOK
    <3> QED
      BY <1>1, <2>2, <3>1 DEF UpInv, RunIsRead
  <2> QED
    BY <2>1, <2>2
<1>6. LiveConsumer'
  BY <1>1 DEF UpInv, LiveConsumer, Alive, TypeOK
<1>7. SoleConsumer'
  BY <1>1 DEF UpInv, SoleConsumer, Alive
<1> QED
  BY <1>3, <1>4, <1>5, <1>6, <1>7 DEF UpInv

\* A cancelled consumer ends; the entry it may pop is that of an evicted key.
LEMMA GoneUp ==
  ASSUME TypeOK, UpInv, NEW q \in Queue, Alive(q), cons[q] # "reading", q \in cancel,
         cons' = [cons EXCEPT ![q] = "gone"], cancel' = cancel \ {q},
         UNCHANGED <<key, evicted, target, puts, blocked, buf, run>>,
         UNCHANGED reg \/ Unregister(q),
         \A p \in Queue : Elements(batch'[p]) \subseteq Elements(batch[p]),
         NoneMissed'
  PROVE  UpInv'
<1> USE NoQueueIsNoQueue
<1>1. \A p \in Queue : cons'[p] = IF p = q THEN "gone" ELSE cons[p]
  BY DEF TypeOK
<1>2. key[q] \in evicted /\ key[q] # NoKey /\ \A k \in Key : reg[k] # q
  BY CancelledIsEvicted DEF UpInv, Registered, Alive
<1>3. \A k \in Key : reg'[k] = reg[k] \/ (k = key[q] /\ reg'[k] = NoQueue)
  BY DEF Unregister, TypeOK
<1>4. Registered'
  <2>1. ASSUME NEW k \in Key, reg'[k] # NoQueue PROVE key'[reg'[k]] = k
    BY <1>3, <2>1 DEF UpInv, Registered
  <2>2. ASSUME NEW p \in Queue, key'[p] = NoKey
        PROVE  cons'[p] = "none" /\ p \notin cancel' /\ \A k \in Key : run'[k] # p
    BY <1>1, <1>2, <2>2 DEF UpInv, Registered
  <2> QED
    BY <2>1, <2>2 DEF Registered
<1>5. RightQueue'
  BY StillRightQueue DEF UpInv
<1>6. RunIsRead'
  BY <1>1 DEF UpInv, RunIsRead, TypeOK
<1>7. LiveConsumer'
  <2> SUFFICES ASSUME NEW k \in Key, reg'[k] # NoQueue
               PROVE  cons'[reg'[k]] \notin {"none", "gone"} /\ reg'[k] \notin cancel'
    BY DEF LiveConsumer, Alive
  <2>1. reg'[k] = reg[k] /\ reg[k] \in Queue \ {q}
    BY <1>2, <1>3 DEF TypeOK
  <2> QED
    BY <1>1, <2>1 DEF UpInv, LiveConsumer, Alive
<1>8. SoleConsumer'
  BY <1>1, <1>2, <1>3 DEF UpInv, SoleConsumer, Alive
<1> QED
  BY <1>4, <1>5, <1>6, <1>7, <1>8 DEF UpInv

LEMMA VisitUp ==
  ASSUME TypeOK, UpInv, NEW ks \in SUBSET Key, Visit(ks),
         UNCHANGED <<key, idle, buf, cons, batch, run, fate, arrivals>>
  PROVE  UpInv'
<1> USE NoQueueIsNoQueue DEF arrivals
<1>1. ASSUME NEW k \in ks, Evict(k) PROVE UpInv'
  <2>1. /\ k \in Key /\ reg[k] # NoQueue /\ reg[k] \in Queue /\ key[reg[k]] = k
        /\ \A j \in Key : reg'[j] = IF j = k THEN NoQueue ELSE reg[j]
        /\ cancel' = cancel \cup {reg[k]} /\ evicted' = evicted \cup {k}
    BY <1>1 DEF Evict, UpInv, Registered, TypeOK
  <2>2. Registered'
    BY <2>1 DEF UpInv, Registered
  <2>3. RightQueue'
    BY StillRightQueue DEF UpInv
  <2>4. RunIsRead'
    BY <2>1 DEF UpInv, RunIsRead
  <2>5. LiveConsumer'
    BY <2>1 DEF UpInv, LiveConsumer, Registered, Alive
  <2>6. SoleConsumer'
    BY <2>1 DEF UpInv, SoleConsumer, Alive
  <2>7. NoneMissed'
    BY <2>1 DEF UpInv, NoneMissed
  <2> QED
    BY <2>2, <2>3, <2>4, <2>5, <2>6, <2>7 DEF UpInv
<1>2. CASE UNCHANGED <<reg, cancel, evicted>>
  BY <1>2 DEF UpInv, Registered, RightQueue, RunIsRead, LiveConsumer, SoleConsumer,
     NoneMissed, Alive, Elements
<1> QED
  BY <1>1, <1>2 DEF Visit

LEMMA ConsumeUp ==
  ASSUME TypeOK, UpInv, NEW q \in Queue, Consume(q)
  PROVE  UpInv'
<1> USE NoQueueIsNoQueue, ElementsEmpty DEF registry, arrivals, control
<1>1. /\ \A k \in Key \ evicted : run[k] = q => cons[q] = "reading" /\ key[q] = k
      /\ \A m \in Elements(batch[q]) : m \in Msg /\ KeyOf[m] = key[q]
  BY DEF UpInv, RunIsRead, RightQueue, TypeOK, Elements
<1>2. CASE Begin(q)
  <2>1. NoneMissed' /\ \A k \in Key \ evicted : run'[k] # q
    BY <1>1, <1>2 DEF Begin, UpInv, NoneMissed, consumers
  <2> QED
    BY <1>2, <2>1, LoopUp DEF Begin, Alive
<1>3. CASE NeverBegin(q)
  <2>1. NoneMissed'
    BY <1>3 DEF NeverBegin, UpInv, NoneMissed
  <2> QED
    BY <1>3, <2>1, GoneUp DEF NeverBegin, Alive
<1>4. CASE Take(q)
  <2>1. NoneMissed' /\ \A k \in Key \ evicted : run'[k] # q
    BY <1>1, <1>4 DEF Take, UpInv, NoneMissed
  <2>2. \A p \in Queue : Elements(buf'[p]) \cup Elements(batch'[p])
                           \subseteq Elements(buf[p]) \cup Elements(batch[p])
    BY <1>4 DEF Take, TypeOK
  <2> QED
    BY <1>4, <2>1, <2>2, LoopUp DEF Take, Alive
<1>5. ASSUME NextBatch(q) \/ batch' = [batch EXCEPT ![q] = <<>>], UNCHANGED buf
      PROVE  \A p \in Queue : /\ Elements(buf'[p]) \cup Elements(batch'[p])
                                   \subseteq Elements(buf[p]) \cup Elements(batch[p])
                              /\ Elements(batch'[p]) \subseteq Elements(batch[p])
  BY <1>5 DEF NextBatch, TypeOK
<1>6. CASE Handle(q)
  <2>1. NoneMissed' /\ \A k \in Key \ evicted : run'[k] # q
    BY <1>1, <1>6, NotMissed DEF Handle, Works, UpInv
  <2> QED
    BY <1>5, <1>6, <2>1, LoopUp DEF Handle, Works, NextBatch, Alive
<1>7. CASE FailBatch(q)
  <2>1. NoneMissed' /\ \A k \in Key \ evicted : run'[k] # q
    BY <1>1, <1>7, NotMissed DEF FailBatch, Works, UpInv
  <2> QED
    BY <1>5, <1>7, <2>1, LoopUp DEF FailBatch, Works, NextBatch, Alive
<1>8. CASE StartRun(q)
  <2>1. NoneMissed'
    BY <1>8, NotMissed DEF StartRun, UpInv
  <2>2. \A k \in Key : run'[k] = run[k] \/ (run'[k] = q /\ k = key[q])
    BY <1>8 DEF StartRun, TypeOK
  <2> QED
    BY <1>5, <1>8, <2>1, <2>2, LoopUp DEF StartRun, Works, Alive
<1>9. CASE Ignore(q)
  <2>1. key[q] \in evicted
    <3>1. SUFFICES ASSUME key[q] \notin evicted PROVE FALSE
      OBVIOUS
    <3>2. key[q] \in Key /\ run[key[q]] # NoQueue /\ cons[q] = "taken"
      BY <1>9, TrackedAssumption DEF Ignore, Works
    <3>3. /\ cons[run[key[q]]] = "reading" /\ key[run[key[q]]] = key[q]
          /\ run[key[q]] \in Queue
      BY <3>1, <3>2 DEF UpInv, RunIsRead, TypeOK
    <3>4. reg[key[q]] = run[key[q]] /\ reg[key[q]] = q
      BY <3>1, <3>2, <3>3 DEF UpInv, SoleConsumer, Alive
    <3> QED
      BY <3>2, <3>3, <3>4
  <2>2. NoneMissed'
    BY <1>1, <1>9, <2>1, NotMissed DEF Ignore, UpInv
  <2>3. \A k \in Key \ evicted : run'[k] # q
    BY <1>1, <1>9 DEF Ignore, Works
  <2> QED
    BY <1>5, <1>9, <2>2, <2>3, LoopUp DEF Ignore, Works, NextBatch, Alive
<1>10. CASE EndReading(q)
  <2>1. NoneMissed'
    BY <1>10 DEF EndReading, UpInv, NoneMissed
  <2>2. ASSUME NEW k \in Key \ evicted PROVE run'[k] # q
    BY <1>1, <1>10, CancelledIsEvicted DEF EndReading, Alive
  <2> QED
    BY <1>5, <1>10, <2>1, <2>2, LoopUp DEF EndReading, NextBatch, Alive
<1>11. CASE Leave(q)
  <2>1. key[q] \in evicted
    BY <1>11, CancelledIsEvicted DEF Leave, Alive
  <2>2. NoneMissed'
    BY <1>1, <1>11, <2>1, NotMissed DEF Leave, UpInv
  <2> QED
    BY <1>5, <1>11, <2>2, GoneUp DEF Leave, Alive
<1>12. CASE AbsorbInCommand(q)
  <2>1. NoneMissed' /\ \A k \in Key \ evicted : run'[k] # q
    BY <1>1, <1>12, NotMissed DEF AbsorbInCommand, UpInv
  <2> QED
    BY <1>5, <1>12, <2>1, LoopUp DEF AbsorbInCommand, NextBatch, Alive
<1> QED
  BY <1>2, <1>3, <1>4, <1>6, <1>7, <1>8, <1>9, <1>10, <1>11, <1>12 DEF Consume

LEMMA UpStep == TypeOK /\ (phase = "up" => UpInv) /\ [Next]_vars => (phase = "up" => UpInv)'
<1> SUFFICES ASSUME TypeOK, phase = "up" => UpInv, [Next]_vars, phase' = "up"
             PROVE  UpInv'
  OBVIOUS
<1> USE DEF registry, consumers, arrivals, control
<1>1. ASSUME NEW m \in Msg, Arrive(m) PROVE UpInv'
  BY <1>1, ArriveUp DEF Arrive
<1>2. ASSUME NEW m \in Msg, PutUnblocked(m) PROVE UpInv'
  <2>1. UpInv
    BY <1>2 DEF PutUnblocked
  <2>2. NoneMissed'
    BY <1>2, <2>1 DEF PutUnblocked, UpInv, NoneMissed
  <2>3. \A q \in Queue : \A n \in Elements(buf'[q]) : KeyOf[n] = key[q]
    BY <1>2, <2>1, PutKeepsKeys DEF PutUnblocked
  <2>4. Elements(puts') \cup blocked' \subseteq Elements(puts) \cup blocked
    BY <1>2 DEF PutUnblocked
  <2> QED
    BY <1>2, <2>1, <2>2, <2>3, <2>4, BufferUp DEF PutUnblocked
<1>3. ASSUME NEW m \in Msg, PutTimeout(m) PROVE UpInv'
  <2>1. UpInv
    BY <1>3 DEF PutTimeout
  <2>2. NoneMissed'
    BY <1>3, <2>1, NotMissed DEF PutTimeout, UpInv
  <2>3. Elements(puts') \cup blocked' \subseteq Elements(puts) \cup blocked
    BY <1>3 DEF PutTimeout
  <2>4. \A q \in Queue : \A n \in Elements(buf'[q]) : KeyOf[n] = key[q]
    BY <1>3, <2>1 DEF PutTimeout, UpInv, RightQueue
  <2> QED
    BY <1>3, <2>1, <2>2, <2>3, <2>4, BufferUp DEF PutTimeout
<1>4. CASE Put
  <2>1. UpInv
    BY <1>4 DEF Put
  <2>2. NoneMissed'
    BY <1>4, <2>1 DEF Put, UpInv, NoneMissed
  <2>3. Head(puts) \in Elements(puts) /\ Elements(puts') \subseteq Elements(puts)
    BY <1>4, ElementsHeadTail DEF Put, TypeOK
  <2>4. blocked' \subseteq blocked \cup {Head(puts)}
    BY <1>4 DEF Put
  <2>5. \A q \in Queue : \A n \in Elements(buf'[q]) : KeyOf[n] = key[q]
    <3>1. CASE buf' = [buf EXCEPT ![target[Head(puts)]] = Append(@, Head(puts))]
      BY <2>1, <2>3, <3>1, PutKeepsKeys
    <3>2. CASE UNCHANGED buf
      BY <2>1, <3>2 DEF UpInv, RightQueue
    <3> QED
      BY <1>4, <3>1, <3>2 DEF Put
  <2>6. UNCHANGED <<reg, key, cons, cancel, run, evicted, batch, target>>
    BY <1>4 DEF Put
  <2> QED
    BY <2>1, <2>2, <2>3, <2>4, <2>5, <2>6, BufferUp
<1>5. ASSUME NEW k \in Key, StopCommand(k) PROVE UpInv'
  <2>1. UpInv
    BY <1>5 DEF StopCommand
  <2>2. NoneMissed'
    BY <1>5, <2>1, NotMissed DEF StopCommand, UpInv
  <2>3. \A q \in Queue : Elements(buf'[q]) \subseteq Elements(buf[q])
    BY <1>5, ElementsEmpty DEF StopCommand, TypeOK
  <2>4. \A q \in Queue : \A n \in Elements(buf'[q]) : KeyOf[n] = key[q]
    BY <2>1, <2>3 DEF UpInv, RightQueue
  <2>5. Elements(puts') \cup blocked' \subseteq Elements(puts) \cup blocked
    BY <1>5 DEF StopCommand
  <2> QED
    BY <1>5, <2>1, <2>2, <2>4, <2>5, BufferUp DEF StopCommand
<1>6. ASSUME NEW k \in Key, EndRun(k) PROVE UpInv'
  <2>1. UpInv
    BY <1>6 DEF EndRun
  <2>2. \A j \in Key : run'[j] = run[j] \/ run'[j] = NoQueue
    BY <1>6 DEF EndRun, TypeOK
  <2>3. Registered' /\ RunIsRead'
    BY <1>6, <2>1, <2>2, NoQueueIsNoQueue DEF EndRun, UpInv, Registered, RunIsRead
  <2>4. RightQueue'
    BY <1>6, <2>1, StillRightQueue DEF EndRun, UpInv
  <2>5. LiveConsumer' /\ SoleConsumer' /\ NoneMissed'
    BY <1>6, <2>1 DEF EndRun, UpInv, LiveConsumer, SoleConsumer, NoneMissed, Alive
  <2> QED
    BY <2>3, <2>4, <2>5 DEF UpInv
<1>7. ASSUME NEW q \in Queue, Consume(q) PROVE UpInv'
  <2>1. phase' = phase
    BY <1>7 DEF Consume, Begin, NeverBegin, Take, Handle, FailBatch, StartRun, Ignore,
       EndReading, AbsorbInCommand, Leave
  <2> QED
    BY <1>7, <2>1, ConsumeUp
<1>8. CASE UNCHANGED <<reg, key, cons, cancel, run, evicted, batch, target, buf, puts,
                       blocked, fate, phase>>
  <2>1. Registered' /\ RunIsRead'
    BY <1>8 DEF UpInv, Registered, RunIsRead
  <2>2. RightQueue'
    BY <1>8, StillRightQueue DEF UpInv
  <2>3. LiveConsumer' /\ SoleConsumer' /\ NoneMissed'
    BY <1>8 DEF UpInv, LiveConsumer, SoleConsumer, NoneMissed, Alive
  <2> QED
    BY <2>1, <2>2, <2>3 DEF UpInv
<1>9. ASSUME NEW q \in Queue, GrowIdle(q) PROVE UpInv'
  BY <1>8, <1>9 DEF GrowIdle
<1>10. CASE SweepBegin
  <2>1. Expired \subseteq Key
    BY DEF Expired
  <2> QED
    BY <1>10, <2>1, VisitUp DEF SweepBegin
<1>11. CASE SweepOn
  BY <1>11, VisitUp DEF SweepOn, TypeOK
<1>12. CASE StopEnqueues \/ StopCleaner \/ StopConsumers \/ StopDone
  BY <1>12 DEF StopEnqueues, StopCleaner, StopConsumers, StopDone
<1>13. CASE UNCHANGED vars
  BY <1>8, <1>13 DEF vars
<1> QED
  BY <1>1, <1>2, <1>3, <1>4, <1>5, <1>6, <1>7, <1>9, <1>10, <1>11, <1>12, <1>13 DEF Next

LEMMA QInvInit == Init => QInv
<1> SUFFICES ASSUME Init PROVE QInv
  OBVIOUS
<1> USE BoundsAssumption, NoQueueIsNoQueue DEF Init
<1>1. /\ reg \in [Key -> Queue \cup {NoQueue}] /\ key \in [Queue -> Key \cup {NoKey}]
      /\ buf \in [Queue -> Seq(Msg)] /\ \A q \in Queue : Len(buf[q]) <= Capacity
      /\ cons \in [Queue -> ConsumerState] /\ batch \in [Queue -> Seq(Msg)]
  BY DEF ConsumerState
<1>2. TypeOK
  BY <1>1 DEF TypeOK, Fate, Phase
<1>3. RightQueue
  BY ElementsEmpty DEF RightQueue
<1>4. UpInv
  BY <1>3 DEF UpInv, Registered, RunIsRead, LiveConsumer, SoleConsumer, NoneMissed, Alive
<1> QED
  BY <1>2, <1>4 DEF QInv

LEMMA QInvAlways == Spec => []QInv
<1>1. QInv /\ [Next]_vars => QInv'
  BY TypeStep, UpStep DEF QInv
<1> QED
  BY <1>1, QInvInit, PTL DEF Spec
-----------------------------------------------------------------------------
(* The theorems                                                            *)

\* Every variable has its type, and no queue holds more than queue_maxsize messages.
THEOREM TypeCorrect == Spec => []TypeOK
<1>1. QInv => TypeOK
  BY DEF QInv
<1> QED
  BY <1>1, QInvAlways, PTL

\* While the manager is up, every registered queue has a consumer that will go on, and
\* until _cleanup_loop evicts a key it has one consumer, which reads every run of the
\* key to its end: no message of the key is ignored because a run is live, or lost.
THEOREM SerialAlways == Spec => []SerialUntilCleanup
<1>1. QInv => SerialUntilCleanup
  <2> SUFFICES ASSUME TypeOK, UpInv
               PROVE  /\ \A k \in Key : reg[k] # NoQueue => Alive(reg[k]) /\ reg[k] \notin cancel
                      /\ \A k \in Key \ evicted :
                           /\ \A q \in Queue : key[q] = k /\ Alive(q) => reg[k] = q
                           /\ \A m \in Msg : KeyOf[m] = k => fate[m] \notin {"ignored", "lost"}
    BY DEF QInv, SerialUntilCleanup
  <2> QED
    BY DEF UpInv, LiveConsumer, SoleConsumer, NoneMissed
<1> QED
  BY <1>1, QInvAlways, PTL

\* From its arrival until its fate is settled a message is in one place, through put
\* tasks that wait, batches that are drained, /stop, eviction and stop_all: it is never
\* processed twice, and never both cleared or given up and processed.
THEOREM OnePlaceAlways == Spec => []MessageInOnePlace
<1>1. TypeOK /\ PlaceInv /\ LineInv => MessageInOnePlace
  BY OnePlace DEF PlaceInv, MessageInOnePlace
<1> QED
  BY <1>1, PlaceInvAlways, PTL

\* Messages of a queue stay in the order of their arrival, from their put tasks
\* through the queue to the batch, except those that found the queue full.
THEOREM ArrivalOrderAlways == Spec => []ArrivalOrder
<1>1. TypeOK /\ PlaceInv /\ LineInv => ArrivalOrder
  <2> SUFFICES ASSUME TypeOK, LineInv, NEW q \in Queue
               PROVE  InOrder(batch[q] \o buf[q] \o puts, OnTime(q))
    BY DEF ArrivalOrder
  <2>1. batch[q] \in Seq(Msg) /\ buf[q] \in Seq(Msg) /\ puts \in Seq(Msg)
    BY DEF TypeOK
  <2>2. /\ InOrder(batch[q], OnTime(q)) /\ InOrder(buf[q], OnTime(q)) /\ InOrder(puts, OnTime(q))
        /\ Before(batch[q], buf[q], OnTime(q))
        /\ Before(batch[q], puts, OnTime(q)) /\ Before(buf[q], puts, OnTime(q))
    BY DEF LineInv
  <2>3. /\ batch[q] \o buf[q] \in Seq(Msg) /\ InOrder(batch[q] \o buf[q], OnTime(q))
        /\ Elements(batch[q] \o buf[q]) = Elements(batch[q]) \cup Elements(buf[q])
    BY <2>1, <2>2, OneLine
  <2>4. Before(batch[q] \o buf[q], puts, OnTime(q))
    BY <2>2, <2>3 DEF Before
  <2> QED
    BY <2>1, <2>2, <2>3, <2>4, OneLine
<1> QED
  BY <1>1, PlaceInvAlways, PTL
================================================================================
