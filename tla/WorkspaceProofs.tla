------------------------- MODULE WorkspaceProofs --------------------------
(***************************************************************************)
(* Proofs about the instances that serve an agent and the runs in them:    *)
(* the invariants of the task tracker, that it implements RunStreams, who  *)
(* owns which instance, and that the services which instances hand on are  *)
(* open while they are used and closed afterwards, for every value of the  *)
(* constants.                                                              *)
(***************************************************************************)
EXTENDS TaskTracker, AgentReload, SequenceTheorems, TLAPS

-----------------------------------------------------------------------------
(* The task tracker                                                        *)

Log  == Event \cup {ErrorEvent}
Item == Event \cup {ErrorEvent, Sentinel}

(***************************************************************************)
(* The inductive invariant.  EntryKey and OneLiveRunPerKey tie the entries *)
(* of _runs to the live runs in both directions; Listed and Owned tie the  *)
(* queue lists to the connections; Fresh is what Start relies on.          *)
(***************************************************************************)
EntryKey == \A k \in Key : runs[k] # NoRun => runKey[runs[k]] = k

Listed == \A c \in Conn : Open(c) => c \in queues[of[c]]

Owned == \A r \in Run : \A c \in queues[r] : of[c] = r

Fresh ==
  /\ \A r \in Run : task[r] = "unused" => buffer[r] = <<>>
  /\ \A c \in Conn : stream[c] = "new" => got[c] = <<>>
  /\ \A c \in Conn : of[c] # NoRun => task[of[c]] # "unused"

Books ==
  /\ EntryKey
  /\ OneLiveRunPerKey
  /\ Listed
  /\ Owned
  /\ Fresh
  /\ NoLeakedQueue

IInv ==
  /\ TypeOK
  /\ Books
  /\ StreamExact
-----------------------------------------------------------------------------
(* Sequences                                                               *)

\* Moving the head of a queue to the end of what was read leaves read \o queue
\* as it is.
LEMMA MoveHead ==
  ASSUME NEW S, NEW s \in Seq(S), NEW q \in Seq(S), q # <<>>
  PROVE  Append(s, Head(q)) \o Tail(q) = s \o q
<1> DEFINE a == Append(s, Head(q))
           t == Tail(q)
<1>1. /\ Head(q) \in S /\ t \in Seq(S)
      /\ q = <<Head(q)>> \o t
  BY HeadTailProperties, SMT
<1>2. a = s \o <<Head(q)>>
  BY <1>1, AppendIsConcat
<1>3. <<Head(q)>> \in Seq(S)
  BY <1>1
<1>4. (s \o <<Head(q)>>) \o t = s \o (<<Head(q)>> \o t)
  BY <1>1, <1>3, ConcatAssociative
<1> QED
  BY <1>1, <1>2, <1>4

\* Broadcasting to a queue appends to read \o queue.
LEMMA BroadcastOne ==
  ASSUME NEW S, NEW s \in Seq(S), NEW q \in Seq(S), NEW e \in S
  PROVE  s \o (q \o <<e>>) = Append(s \o q, e)
<1>1. <<e>> \in Seq(S) /\ s \o q \in Seq(S)
  BY ConcatProperties
<1>2. (s \o q) \o <<e>> = s \o (q \o <<e>>)
  BY <1>1, ConcatAssociative
<1> QED
  BY <1>1, <1>2, AppendIsConcat

LEMMA BroadcastTwo ==
  ASSUME NEW S, NEW s \in Seq(S), NEW q \in Seq(S), NEW e \in S, NEW f \in S
  PROVE  s \o (q \o <<e, f>>) = Append(Append(s \o q, e), f)
<1>1. <<e>> \in Seq(S) /\ <<f>> \in Seq(S) /\ q \o <<e>> \in Seq(S)
  BY ConcatProperties
<1>2. q \o <<e, f>> = (q \o <<e>>) \o <<f>>
  <2>1. <<e, f>> = Append(<<e>>, f)
    OBVIOUS
  <2>2. Append(<<e>>, f) = <<e>> \o <<f>>
    BY <1>1, AppendIsConcat
  <2>3. (q \o <<e>>) \o <<f>> = q \o (<<e>> \o <<f>>)
    BY <1>1, ConcatAssociative
  <2> QED
    BY <2>1, <2>2, <2>3, Zenon
<1>3. s \o ((q \o <<e>>) \o <<f>>) = Append(s \o (q \o <<e>>), f)
  BY <1>1, BroadcastOne
<1>4. s \o (q \o <<e>>) = Append(s \o q, e)
  BY BroadcastOne
<1> QED
  BY <1>2, <1>3, <1>4, Zenon

\* The next unread item: its place in the whole, and what precedes it.
LEMMA NextItem ==
  ASSUME NEW S, NEW s \in Seq(S), NEW q \in Seq(S), q # <<>>
  PROVE  /\ Len(s) + 1 \in 1 .. Len(s \o q)
         /\ (s \o q)[Len(s) + 1] = Head(q)
         /\ \A i \in 1 .. Len(s) : (s \o q)[i] = s[i]
<1>1. Len(q) \in Nat \ {0} /\ Len(s) \in Nat
  BY EmptySeq, LenProperties
<1>2. /\ Len(s \o q) = Len(s) + Len(q)
      /\ \A i \in 1 .. Len(s) + Len(q) : (s \o q)[i] =
           IF i <= Len(s) THEN s[i] ELSE q[i - Len(s)]
  BY ConcatProperties
<1>3. Head(q) = q[1]
  BY <1>1
<1> QED
  BY <1>1, <1>2, <1>3
-----------------------------------------------------------------------------
(* Types                                                                   *)

\* Every queue after a broadcast is a sequence of items.
LEMMA BroadcastType ==
  ASSUME TypeOK, NEW r \in Run, NEW es \in Seq(Item), Broadcast(r, es)
  PROVE  queue' \in [Conn -> Seq(Item)]
<1>1. queue \in [Conn -> Seq(Item)]
  BY DEF TypeOK, Item
<1>2. \A c \in Conn : queue[c] \o es \in Seq(Item)
  BY <1>1, ConcatProperties
<1> QED
  BY <1>1, <1>2 DEF Broadcast

\* TypeOK is inductive by itself.
LEMMA TypeStep == TypeOK /\ [Next]_vars => TypeOK'
<1> SUFFICES ASSUME TypeOK, [Next]_vars PROVE TypeOK'
  OBVIOUS
<1> USE NoRunAssumption, NoKeyAssumption DEF TypeOK, TaskState, StreamState
<1>1. ASSUME NEW c \in Conn, NEW k \in Key, Attach(c, k) PROVE TypeOK'
  <2>1. /\ runs[k] \in Run /\ buffer[runs[k]] \in Seq(Log)
        /\ Log \subseteq Item
    BY <1>1 DEF Attach, Active, Log, Item
  <2>2. buffer[runs[k]] \in Seq(Item)
    BY <2>1, SeqMonotonic
  <2> QED
    BY <1>1, <2>1, <2>2 DEF Attach, Subscribe, Item
<1>2. ASSUME NEW c \in Conn, NEW k \in Key, NEW r \in Run, Start(c, k, r)
      PROVE  TypeOK'
  BY <1>2 DEF Start, Subscribe
<1>3. ASSUME NEW r \in Run, Begin(r) PROVE TypeOK'
  BY <1>3 DEF Begin
<1>4. ASSUME NEW r \in Run, NEW e \in Event, Emit(r, e) PROVE TypeOK'
  <2>1. queue' \in [Conn -> Seq(Item)]
    <3>1. <<e>> \in Seq(Item)
      BY DEF Item
    <3> QED
      BY <1>4, <3>1, BroadcastType DEF Emit
  <2>2. buffer' \in [Run -> Seq(Log)]
    <3>1. Append(buffer[r], e) \in Seq(Log)
      BY AppendProperties DEF Log
    <3> QED
      BY <1>4, <3>1 DEF Emit, Log
  <2> QED
    BY <1>4, <2>1, <2>2 DEF Emit, Item, Log
<1>5. ASSUME NEW r \in Run, Finish(r) PROVE TypeOK'
  <2>1. queue' \in [Conn -> Seq(Item)]
    <3>1. <<Sentinel>> \in Seq(Item)
      BY DEF Item
    <3> QED
      BY <1>5, <3>1, BroadcastType DEF Finish
  <2> QED
    BY <1>5, <2>1 DEF Finish, Finally, Item
<1>6. ASSUME NEW r \in Run, Fail(r) PROVE TypeOK'
  <2>1. queue' \in [Conn -> Seq(Item)]
    <3>1. <<ErrorEvent, Sentinel>> \in Seq(Item)
      BY DEF Item
    <3> QED
      BY <1>6, <3>1, BroadcastType DEF Fail
  <2>2. buffer' \in [Run -> Seq(Log)]
    <3>1. Append(buffer[r], ErrorEvent) \in Seq(Log)
      BY AppendProperties DEF Log
    <3> QED
      BY <1>6, <3>1 DEF Fail, Log
  <2>3. Finally(r)
    BY <1>6 DEF Fail
  <2>4. /\ runs' \in [Key -> Run \cup {NoRun}]
        /\ task' \in [Run -> TaskState]
    BY <2>3 DEF Finally
  <2>5. \A o \in Run : task'[o] # "unused" <=> task[o] # "unused"
    BY <1>6, <2>3 DEF Fail, Finally
  <2>6. UNCHANGED <<runKey, queues, stream, of, got>>
    BY <2>3 DEF Finally
  <2>7. \A o \in Run : task'[o] # "unused" <=> runKey'[o] # NoKey
    BY <2>5, <2>6
  <2> QED
    BY <2>1, <2>2, <2>4, <2>6, <2>7 DEF Item, Log
<1>7. ASSUME NEW k \in Key, RequestStop(k) PROVE TypeOK'
  <2>1. /\ runs[k] \in Run /\ task[runs[k]] # "unused"
        /\ \E t \in TaskState \ {"unused"} : task' = [task EXCEPT ![runs[k]] = t]
        /\ UNCHANGED <<runs, runKey, buffer, queues, stream, of, queue, got>>
    BY <1>7 DEF RequestStop, Active
  <2>2. task' \in [Run -> TaskState]
    BY <2>1
  <2>3. \A o \in Run : task'[o] # "unused" <=> runKey'[o] # NoKey
    BY <2>1
  <2> QED
    BY <2>1, <2>2, <2>3
<1>8. ASSUME NEW c \in Conn, Read(c) PROVE TypeOK'
  <2>1. /\ Head(queue[c]) \in Item /\ Tail(queue[c]) \in Seq(Item)
    BY <1>8, HeadTailProperties DEF Read, Item
  <2>2. Head(queue[c]) \in Log
    BY <1>8, <2>1 DEF Read, Item, Log
  <2>3. Append(got[c], Head(queue[c])) \in Seq(Log)
    BY <2>2, AppendProperties DEF Log
  <2> QED
    BY <1>8, <2>1, <2>3 DEF Read, Item, Log, Open
<1>9. ASSUME NEW c \in Conn, ReadSentinel(c) PROVE TypeOK'
  <2>1. Tail(queue[c]) \in Seq(Item)
    BY <1>9, HeadTailProperties DEF ReadSentinel, Item
  <2> QED
    BY <1>9, <2>1 DEF ReadSentinel, Detach, Item, Open
<1>10. ASSUME NEW c \in Conn, Disconnect(c) PROVE TypeOK'
  BY <1>10 DEF Disconnect, Detach, Open
<1>11. ASSUME NEW c \in Conn, Abandon(c) PROVE TypeOK'
  BY <1>11 DEF Abandon
<1>12. CASE UNCHANGED vars
  BY <1>12 DEF vars
<1> QED
  BY <1>1, <1>2, <1>3, <1>4, <1>5, <1>6, <1>7, <1>8, <1>9, <1>10, <1>11,
     <1>12 DEF Next

\* The state keeps its types, whatever the constants are.
THEOREM TypeCorrect == Spec => []TypeOK
<1>1. Init => TypeOK
  BY NoRunAssumption, NoKeyAssumption DEF Init, TypeOK, TaskState, StreamState
<1> QED
  BY <1>1, TypeStep, PTL DEF Spec
-----------------------------------------------------------------------------
(* The entries and the lists                                               *)

LEMMA BooksStep == TypeOK /\ Books /\ [Next]_vars => Books'
<1> SUFFICES ASSUME TypeOK, Books, [Next]_vars PROVE Books'
  OBVIOUS
<1> USE NoRunAssumption, NoKeyAssumption
    DEF TypeOK, TaskState, StreamState, Books, EntryKey, OneLiveRunPerKey,
        Listed, Owned, Fresh, NoLeakedQueue, Live, Done, Open
<1>1. ASSUME NEW c \in Conn, NEW k \in Key, Attach(c, k) PROVE Books'
  BY <1>1 DEF Attach, Active, Subscribe
<1>2. ASSUME NEW c \in Conn, NEW k \in Key, NEW r \in Run, Start(c, k, r)
      PROVE  Books'
  BY <1>2 DEF Start, Active, Subscribe
<1>3. ASSUME NEW r \in Run, Begin(r) PROVE Books'
  <2>1. \A q \in Run : /\ task'[q] = "unused" <=> task[q] = "unused"
                       /\ Live(q)' => Live(q)
    BY <1>3 DEF Begin
  <2> QED
    BY <1>3, <2>1 DEF Begin
<1>4. ASSUME NEW r \in Run, NEW e \in Event, Emit(r, e) PROVE Books'
  BY <1>4 DEF Emit
<1>5. ASSUME NEW r \in Run, Finish(r) PROVE Books'
  BY <1>5 DEF Finish, Finally
<1>6. ASSUME NEW r \in Run, Fail(r) PROVE Books'
  BY <1>6 DEF Fail, Finally
<1>7. ASSUME NEW k \in Key, RequestStop(k) PROVE Books'
  <2>1. \A q \in Run : /\ task'[q] = "unused" <=> task[q] = "unused"
                       /\ Live(q)' => Live(q)
    BY <1>7 DEF RequestStop, Active
  <2>2. UNCHANGED <<runs, runKey, buffer, queues, stream, of, got>>
    BY <1>7 DEF RequestStop
  <2>3. EntryKey' /\ Listed' /\ Owned'
    BY <2>2
  <2>4. OneLiveRunPerKey'
    BY <2>1, <2>2
  <2>5. Fresh'
    BY <2>1, <2>2
  <2>6. NoLeakedQueue'
    BY <2>1, <2>2
  <2> QED
    BY <2>3, <2>4, <2>5, <2>6
<1>8. ASSUME NEW c \in Conn, Read(c) PROVE Books'
  BY <1>8 DEF Read
<1>9. ASSUME NEW c \in Conn, ReadSentinel(c) PROVE Books'
  BY <1>9 DEF ReadSentinel, Detach
<1>10. ASSUME NEW c \in Conn, Disconnect(c) PROVE Books'
  BY <1>10 DEF Disconnect, Detach
<1>11. ASSUME NEW c \in Conn, Abandon(c) PROVE Books'
  BY <1>11 DEF Abandon
<1>12. CASE UNCHANGED vars
  BY <1>12 DEF vars
<1> QED
  BY <1>1, <1>2, <1>3, <1>4, <1>5, <1>6, <1>7, <1>8, <1>9, <1>10, <1>11,
     <1>12 DEF Next
-----------------------------------------------------------------------------
(* What a connection reads                                                 *)

\* The producer's broadcast reaches every open connection of the run, and no
\* open connection of another.
LEMMA BroadcastReach ==
  ASSUME TypeOK, Books, NEW r \in Run, NEW es, Broadcast(r, es)
  PROVE  \A c \in Conn : Open(c) =>
           queue'[c] = IF of[c] = r THEN queue[c] \o es ELSE queue[c]
BY DEF TypeOK, Books, Listed, Owned, Broadcast

LEMMA ExactStep == IInv /\ [Next]_vars => StreamExact'
<1> SUFFICES ASSUME IInv, [Next]_vars PROVE StreamExact'
  OBVIOUS
<1> USE NoRunAssumption, NoKeyAssumption DEF IInv
<1>a. /\ Log \subseteq Item /\ Sentinel \in Item /\ ErrorEvent \in Log
      /\ Event \subseteq Log
  BY DEF Log, Item
<1>b. \A c \in Conn : got[c] \in Seq(Item) /\ queue[c] \in Seq(Item)
  BY <1>a, SeqMonotonic DEF TypeOK, Log, Item
<1>d. \A s, q \in Seq(Item), e, f \in Item :
        /\ s \o (q \o <<e>>) = Append(s \o q, e)
        /\ s \o (q \o <<e, f>>) = Append(Append(s \o q, e), f)
  <2> TAKE s, q \in Seq(Item), e, f \in Item
  <2>1. s \o (q \o <<e>>) = Append(s \o q, e)
    BY BroadcastOne
  <2>2. s \o (q \o <<e, f>>) = Append(Append(s \o q, e), f)
    BY BroadcastTwo
  <2> QED
    BY <2>1, <2>2
<1>c. \A c \in Conn : Open(c) => of[c] \in Run /\ task[of[c]] # "unused"
  BY DEF TypeOK, Open, Books, Fresh
<1>1. ASSUME NEW c \in Conn, NEW k \in Key, Attach(c, k) PROVE StreamExact'
  <2>1. /\ runs[k] \in Run /\ ~Done(runs[k]) /\ got[c] = <<>>
        /\ queue'[c] = buffer[runs[k]] /\ of'[c] = runs[k] /\ UNCHANGED got
    BY <1>1 DEF Attach, Active, Subscribe, TypeOK, Books, Fresh
  <2>2. <<>> \o buffer[runs[k]] = buffer[runs[k]]
    BY <2>1, ConcatEmptySeq DEF TypeOK
  <2>3. UNCHANGED <<task, buffer>>
    BY <1>1 DEF Attach
  <2>4. \A d \in Conn \ {c} : Open(d)' => Open(d) /\ UNCHANGED <<of[d], queue[d]>>
    BY <1>1 DEF Attach, Subscribe, TypeOK, Open
  <2>5. ASSUME NEW d \in Conn, Open(d)' PROVE (got[d] \o queue[d] = Expected(d))'
    <3>1. CASE d = c
      BY <2>1, <2>2, <2>3, <3>1 DEF Done, Expected
    <3>2. CASE d # c
      BY <2>1, <2>3, <2>4, <2>5, <3>2 DEF StreamExact, Expected
    <3> QED
      BY <3>1, <3>2
  <2> QED
    BY <2>5 DEF StreamExact
<1>2. ASSUME NEW c \in Conn, NEW k \in Key, NEW r \in Run, Start(c, k, r)
      PROVE  StreamExact'
  <2>1. /\ got[c] = <<>> /\ buffer[r] = <<>> /\ task'[r] = "created"
        /\ queue'[c] = <<>> /\ of'[c] = r /\ UNCHANGED <<buffer, got>>
    BY <1>2 DEF Start, Subscribe, TypeOK, Books, Fresh
  <2>2. <<>> \o <<>> = <<>>
    BY ConcatEmptySeq
  <2>3. \A d \in Conn \ {c} :
          Open(d)' => /\ Open(d) /\ UNCHANGED <<of[d], queue[d]>>
                      /\ of[d] # r /\ task'[of[d]] = task[of[d]]
    BY <1>c, <1>2 DEF Start, Subscribe, TypeOK, Open
  <2>4. ASSUME NEW d \in Conn, Open(d)' PROVE (got[d] \o queue[d] = Expected(d))'
    <3>1. CASE d = c
      BY <2>1, <2>2, <3>1 DEF Expected
    <3>2. CASE d # c
      <4>1. /\ Open(d) /\ of'[d] = of[d] /\ queue'[d] = queue[d]
            /\ of[d] # r /\ task'[of[d]] = task[of[d]]
        BY <2>3, <2>4, <3>2
      <4>2. got[d] \o queue[d] = Expected(d)
        BY <4>1 DEF StreamExact
      <4> QED
        BY <2>1, <4>1, <4>2 DEF Expected
    <3> QED
      BY <3>1, <3>2
  <2> QED
    BY <2>4 DEF StreamExact
<1>3. ASSUME NEW r \in Run, Begin(r) PROVE StreamExact'
  <2>1. \A q \in Run : task'[q] = "done" <=> task[q] = "done"
    BY <1>3 DEF Begin, TypeOK
  <2>2. UNCHANGED <<buffer, stream, of, queue, got>>
    BY <1>3 DEF Begin
  <2> QED
    BY <1>c, <2>1, <2>2 DEF StreamExact, Expected, Open
<1>4. ASSUME NEW r \in Run, NEW e \in Event, Emit(r, e) PROVE StreamExact'
  <2>1. /\ task[r] # "done" /\ buffer' = [buffer EXCEPT ![r] = Append(@, e)]
        /\ Broadcast(r, <<e>>) /\ UNCHANGED <<task, stream, of, got>>
    BY <1>4 DEF Emit
  <2>2. ASSUME NEW c \in Conn, Open(c)
        PROVE  (got[c] \o queue[c] = Expected(c))'
    <3>1. queue'[c] = IF of[c] = r THEN queue[c] \o <<e>> ELSE queue[c]
      BY <2>1, <2>2, BroadcastReach
    <3>2. got[c] \o (queue[c] \o <<e>>) = Append(got[c] \o queue[c], e)
      BY <1>a, <1>b, <1>d
    <3>3. got[c] \o queue[c] = Expected(c)
      BY <2>2 DEF StreamExact
    <3> QED
      BY <1>c, <2>1, <2>2, <3>1, <3>2, <3>3 DEF Expected, TypeOK
  <2> QED
    BY <2>1, <2>2 DEF StreamExact, Open
<1>5. ASSUME NEW r \in Run, Finish(r) PROVE StreamExact'
  <2>1. /\ task[r] # "done" /\ task' = [task EXCEPT ![r] = "done"]
        /\ Broadcast(r, <<Sentinel>>) /\ UNCHANGED <<buffer, stream, of, got>>
    BY <1>5 DEF Finish, Finally
  <2>2. ASSUME NEW c \in Conn, Open(c)
        PROVE  (got[c] \o queue[c] = Expected(c))'
    <3>1. queue'[c] = IF of[c] = r THEN queue[c] \o <<Sentinel>> ELSE queue[c]
      BY <2>1, <2>2, BroadcastReach
    <3>2. got[c] \o (queue[c] \o <<Sentinel>>) = Append(got[c] \o queue[c], Sentinel)
      BY <1>a, <1>b, <1>d
    <3>3. got[c] \o queue[c] = Expected(c)
      BY <2>2 DEF StreamExact
    <3> QED
      BY <1>c, <2>1, <2>2, <3>1, <3>2, <3>3 DEF Expected, TypeOK
  <2> QED
    BY <2>1, <2>2 DEF StreamExact, Open
<1>6. ASSUME NEW r \in Run, Fail(r) PROVE StreamExact'
  <2>1. /\ task[r] # "done" /\ task' = [task EXCEPT ![r] = "done"]
        /\ buffer' = [buffer EXCEPT ![r] = Append(@, ErrorEvent)]
        /\ Broadcast(r, <<ErrorEvent, Sentinel>>) /\ UNCHANGED <<stream, of, got>>
    BY <1>6 DEF Fail, Finally
  <2>2. ASSUME NEW c \in Conn, Open(c)
        PROVE  (got[c] \o queue[c] = Expected(c))'
    <3>1. queue'[c] = IF of[c] = r THEN queue[c] \o <<ErrorEvent, Sentinel>>
                                   ELSE queue[c]
      BY <2>1, <2>2, BroadcastReach
    <3>2. got[c] \o (queue[c] \o <<ErrorEvent, Sentinel>>)
            = Append(Append(got[c] \o queue[c], ErrorEvent), Sentinel)
      BY <1>a, <1>b, <1>d
    <3>3. got[c] \o queue[c] = Expected(c)
      BY <2>2 DEF StreamExact
    <3> QED
      BY <1>c, <2>1, <2>2, <3>1, <3>2, <3>3 DEF Expected, TypeOK
  <2> QED
    BY <2>1, <2>2 DEF StreamExact, Open
<1>7. ASSUME NEW k \in Key, RequestStop(k) PROVE StreamExact'
  <2>1. \A q \in Run : task'[q] = "done" <=> task[q] = "done"
    BY <1>7 DEF RequestStop, Active, TypeOK
  <2>2. UNCHANGED <<buffer, stream, of, queue, got>>
    BY <1>7 DEF RequestStop
  <2> QED
    BY <1>c, <2>1, <2>2 DEF StreamExact, Expected, Open
<1>8. ASSUME NEW c \in Conn, Read(c) PROVE StreamExact'
  <2>1. /\ Open(c) /\ queue[c] # <<>> /\ UNCHANGED <<task, buffer, of>>
        /\ got'[c] = Append(got[c], Head(queue[c])) /\ queue'[c] = Tail(queue[c])
    BY <1>8 DEF Read, TypeOK
  <2>2. \A d \in Conn \ {c} :
          Open(d)' => Open(d) /\ UNCHANGED <<of[d], got[d], queue[d]>>
    BY <1>8 DEF Read, TypeOK, Open
  <2>3. got'[c] \o queue'[c] = got[c] \o queue[c]
    BY <1>b, <2>1, MoveHead
  <2> QED
    BY <2>1, <2>2, <2>3 DEF StreamExact, Expected
<1>9. ASSUME NEW c \in Conn, ReadSentinel(c) PROVE StreamExact'
  <2>1. /\ ~Open(c)' /\ UNCHANGED <<task, buffer, of, got>>
        /\ \A d \in Conn \ {c} : Open(d)' => Open(d) /\ UNCHANGED queue[d]
    BY <1>9 DEF ReadSentinel, TypeOK, Open
  <2> QED
    BY <2>1 DEF StreamExact, Expected
<1>10. ASSUME NEW c \in Conn, Disconnect(c) PROVE StreamExact'
  <2>1. /\ UNCHANGED <<task, buffer, of, queue, got>>
        /\ \A d \in Conn : Open(d)' => Open(d)
    BY <1>10 DEF Disconnect, TypeOK, Open
  <2> QED
    BY <2>1 DEF StreamExact, Expected
<1>11. ASSUME NEW c \in Conn, Abandon(c) PROVE StreamExact'
  <2>1. /\ UNCHANGED <<task, buffer, of, queue, got>>
        /\ \A d \in Conn : Open(d)' => Open(d)
    BY <1>11 DEF Abandon, TypeOK, Open
  <2> QED
    BY <2>1 DEF StreamExact, Expected
<1>12. CASE UNCHANGED vars
  BY <1>12 DEF vars, StreamExact, Expected, Open
<1> QED
  BY <1>1, <1>2, <1>3, <1>4, <1>5, <1>6, <1>7, <1>8, <1>9, <1>10, <1>11,
     <1>12 DEF Next

LEMMA InitIInv == Init => IInv
<1> SUFFICES ASSUME Init PROVE IInv
  OBVIOUS
<1>1. TypeOK
  BY NoRunAssumption, NoKeyAssumption DEF Init, TypeOK, TaskState, StreamState
<1>2. Books
  BY NoRunAssumption DEF Init, Books, EntryKey, OneLiveRunPerKey, Listed, Owned,
     Fresh, NoLeakedQueue, Live, Open
<1>3. StreamExact
  BY DEF Init, StreamExact, Open
<1> QED
  BY <1>1, <1>2, <1>3 DEF IInv

THEOREM Invariance == Spec => []IInv
<1>1. IInv /\ [Next]_vars => IInv'
  BY TypeStep, BooksStep, ExactStep DEF IInv
<1> QED
  BY <1>1, InitIInv, PTL DEF Spec

\* A key has at most one producer at work, the one its entry leads to.
THEOREM OneLiveRun == Spec => []OneLiveRunPerKey
BY Invariance, PTL DEF IInv, Books

\* No connection misses, repeats or reorders an event, whenever it joined.
THEOREM StreamsAreExact == Spec => []StreamExact
BY Invariance, PTL DEF IInv

\* A connection that is through is on no live run's list.
THEOREM NoQueueLeaks == Spec => []NoLeakedQueue
BY Invariance, PTL DEF IInv, Books
-----------------------------------------------------------------------------
(* Refinement                                                              *)

\* What StreamExact says of the item a connection reads next: an event is the
\* next one of the log; a sentinel comes after a finished run's whole log.
LEMMA ReadsNext ==
  ASSUME IInv, NEW c \in Conn, Open(c), queue[c] # <<>>
  PROVE  /\ Head(queue[c]) # Sentinel =>
              /\ Len(got[c]) < Len(buffer[of[c]])
              /\ Head(queue[c]) = buffer[of[c]][Len(got[c]) + 1]
         /\ Head(queue[c]) = Sentinel =>
              task[of[c]] = "done" /\ got[c] = buffer[of[c]]
<1> DEFINE b == buffer[of[c]]
           g == got[c]
           n == Len(g) + 1
<1>1. of[c] \in Run
  BY NoRunAssumption DEF IInv, TypeOK, Open
<1>2. /\ b \in Seq(Log) /\ g \in Seq(Log) /\ queue[c] \in Seq(Item)
      /\ Log \subseteq Item /\ Sentinel \notin Log /\ Sentinel \in Item
  BY <1>1, SentinelAssumption DEF IInv, TypeOK, Log, Item
<1>3. g \in Seq(Item) /\ b \in Seq(Item)
  BY <1>2, SeqMonotonic
<1>4. g \o queue[c] = IF task[of[c]] = "done" THEN Append(b, Sentinel) ELSE b
  BY DEF IInv, StreamExact, Expected
<1>5. /\ n \in 1 .. Len(g \o queue[c]) /\ (g \o queue[c])[n] = Head(queue[c])
      /\ \A i \in 1 .. Len(g) : (g \o queue[c])[i] = g[i]
  <2> HIDE DEF g
  <2> QED
    BY <1>2, <1>3, NextItem
<1>6. /\ Len(Append(b, Sentinel)) = Len(b) + 1
      /\ \A i \in 1 .. Len(b) : Append(b, Sentinel)[i] = b[i]
      /\ Append(b, Sentinel)[Len(b) + 1] = Sentinel
  BY <1>2, <1>3, AppendProperties
<1>7. /\ Len(b) \in Nat /\ Len(g) \in Nat
      /\ \A i \in 1 .. Len(b) : b[i] # Sentinel
  BY <1>2, LenProperties, ElementOfSeq
<1>8. ASSUME Head(queue[c]) # Sentinel
      PROVE  Len(g) < Len(b) /\ Head(queue[c]) = b[n]
  BY <1>4, <1>5, <1>6, <1>7, <1>8
<1>9. ASSUME Head(queue[c]) = Sentinel
      PROVE  task[of[c]] = "done" /\ g = b
  <2>1. task[of[c]] = "done" /\ n = Len(b) + 1
    <3>1. ~(n \in 1 .. Len(b))
      BY <1>4, <1>5, <1>6, <1>7, <1>9
    <3>2. task[of[c]] = "done" /\ n \in 1 .. Len(b) + 1
      BY <1>4, <1>5, <1>6, <3>1
    <3> HIDE DEF b, n
    <3> QED
      BY <1>7, <3>1, <3>2
  <2>2. Len(g) = Len(b) /\ \A i \in 1 .. Len(g) : g[i] = b[i]
    BY <1>4, <1>5, <1>6, <1>7, <2>1
  <2> QED
    BY <1>2, <2>1, <2>2, SeqEqual
<1> QED
  BY <1>8, <1>9

LEMMA InitRefines == Init => Abs!Init
<1> SUFFICES ASSUME Init PROVE Abs!Init
  OBVIOUS
<1> QED
  BY DEF Init, Abs!Init, AbsPhase, AbsMode, Done, Open

LEMMA StepRefines == IInv /\ [Next]_vars => [Abs!Next]_(Abs!vars)
<1> SUFFICES ASSUME IInv, [Next]_vars PROVE [Abs!Next]_(Abs!vars)
  OBVIOUS
<1> USE NoRunAssumption, NoKeyAssumption
    DEF AbsPhase, AbsMode, Done, Open, Abs!vars, TaskState, StreamState
<1>a. TypeOK /\ Books
  BY DEF IInv
<1>1. ASSUME NEW c \in Conn, NEW k \in Key, Attach(c, k)
      PROVE  Abs!Attach(c, runs[k]) /\ runs[k] \in Run
  <2>1. runs[k] \in Run /\ task[runs[k]] \notin {"unused", "done", "dead"}
    BY <1>a, <1>1 DEF Attach, Active, TypeOK, Books, EntryKey
  <2>2. Subscribe(c, runs[k], buffer[runs[k]]) /\ UNCHANGED <<runs, runKey, task, buffer>>
    BY <1>1 DEF Attach
  <2>3. Abs!Join(c, runs[k])
    BY <1>a, <2>1, <2>2 DEF Subscribe, Abs!Join, TypeOK
  <2> QED
    BY <2>1, <2>2, <2>3 DEF Abs!Attach
<1>2. ASSUME NEW c \in Conn, NEW k \in Key, NEW r \in Run, Start(c, k, r)
      PROVE  Abs!Start(c, k, r)
  <2>1. /\ task[r] = "unused" /\ Subscribe(c, r, <<>>)
        /\ runKey' = [runKey EXCEPT ![r] = k] /\ task' = [task EXCEPT ![r] = "created"]
        /\ UNCHANGED buffer
    BY <1>2 DEF Start
  <2>2. Abs!Join(c, r)
    BY <1>a, <2>1 DEF Subscribe, Abs!Join, TypeOK
  <2>3. AbsPhase[r] = "unused" /\ AbsPhase' = [AbsPhase EXCEPT ![r] = "live"]
    BY <1>a, <2>1 DEF TypeOK
  <2>4. \A q \in Run : runKey[q] = k => AbsPhase[q] # "live"
    <3>1. SUFFICES ASSUME NEW q \in Run, runKey[q] = k, AbsPhase[q] = "live" PROVE FALSE
      OBVIOUS
    <3>2. task[q] # "unused" /\ ~Done(q)
      BY <3>1
    <3>3. Live(q)
      BY <1>a, <3>2 DEF TypeOK, Live
    <3>4. runs[k] = q
      BY <1>a, <3>1, <3>3 DEF Books, OneLiveRunPerKey
    <3> QED
      BY <1>2, <3>2, <3>4 DEF Start, Active
  <2> QED
    BY <2>1, <2>2, <2>3, <2>4 DEF Abs!Start
<1>3. ASSUME NEW r \in Run, Begin(r)
      PROVE  Abs!End(r) \/ UNCHANGED Abs!vars
  BY <1>a, <1>3 DEF Begin, Abs!End, TypeOK
<1>4. ASSUME NEW r \in Run, NEW e \in Event, Emit(r, e)
      PROVE  Abs!Publish(r, e)
  BY <1>a, <1>4 DEF Emit, Abs!Publish, TypeOK
<1>5. ASSUME NEW r \in Run, Finish(r) PROVE Abs!End(r)
  BY <1>a, <1>5 DEF Finish, Finally, Abs!End, TypeOK
<1>6. ASSUME NEW r \in Run, Fail(r) PROVE Abs!End(r)
  BY <1>a, <1>6 DEF Fail, Finally, Abs!End, TypeOK
<1>7. ASSUME NEW k \in Key, RequestStop(k) PROVE UNCHANGED Abs!vars
  BY <1>a, <1>7 DEF RequestStop, Active, TypeOK
<1>8. ASSUME NEW c \in Conn, Read(c) PROVE Abs!ReadNext(c)
  BY <1>a, <1>8, ReadsNext DEF Read, Abs!ReadNext, TypeOK
<1>9. ASSUME NEW c \in Conn, ReadSentinel(c) PROVE Abs!ReadEnd(c)
  BY <1>a, <1>9, ReadsNext DEF ReadSentinel, Abs!ReadEnd, TypeOK
<1>10. ASSUME NEW c \in Conn, Disconnect(c) PROVE Abs!Leave(c)
  BY <1>a, <1>10 DEF Disconnect, Abs!Leave, TypeOK
<1>11. ASSUME NEW c \in Conn, Abandon(c) PROVE Abs!Leave(c)
  BY <1>a, <1>11 DEF Abandon, Abs!Leave, TypeOK
<1>12. CASE UNCHANGED vars
  BY <1>12 DEF vars
<1> QED
  BY <1>1, <1>2, <1>3, <1>4, <1>5, <1>6, <1>7, <1>8, <1>9, <1>10, <1>11,
     <1>12 DEF Next, Abs!Next

\* The tracker implements RunStreams, whatever runs, streams and connections do.
THEOREM Refinement == Spec => ImplementsRunStreams
BY InitRefines, StepRefines, Invariance, PTL DEF Spec, ImplementsRunStreams, Abs!Spec
-----------------------------------------------------------------------------
(* The instances of an agent: types                                        *)

\* Whatever a call or the entry names has been created, with its services.
Begun ==
  /\ \A c \in Caller :
       /\ pc[c] \in {"starting", "preparing", "swapping", "aborting"} => new[c] # None
       /\ pc[c] \in {"removing", "retiring"} => old[c] # None
       /\ new[c] # None => inst[new[c]] # "unused"
       /\ old[c] # None => inst[old[c]] # "unused"
  /\ agent # None => inst[agent] # "unused"
  /\ \A i \in Instance : inst[i] # "unused" => service[i] # None

\* Types are not inductive alone: a stop closes the services of what it stops.
TInv == ReloadTypeOK /\ Begun

\* Services belong to instances that have been created.
ServiceInv ==
  /\ \A i \in Instance : inst[i] # "unused" => inst[service[i]] # "unused"
  /\ \A i \in closed : inst[i] # "unused"

(***************************************************************************)
(* Without a removal in the middle, a reload works on the services of the  *)
(* entry, and never has to stop what it started.                           *)
(***************************************************************************)
ReloadInv ==
  \A c \in Caller :
    /\ Reloading(c) => agent # None /\ \A d \in Caller : pc[d] # "removing"
    /\ pc[c] \in {"preparing", "swapping"} => service[new[c]] = service[agent]
    /\ pc[c] # "aborting"
    /\ pc[c] = "starting" => service[new[c]] = new[c] /\ new[c] \notin closed

\* Open services are those of the entry, or of an instance that is about to be it.
OpenInv ==
  /\ agent # None => service[agent] \notin closed
  /\ \A i \in Instance \ closed :
       service[i] = i =>
         \/ inst[i] = "failed"
         \/ agent # None /\ service[agent] = i
         \/ \E c \in Caller : pc[c] = "starting" /\ new[c] = i

SInv == ServiceInv /\ (phase = "up" /\ ~crossed => ReloadInv /\ OpenInv)
-----------------------------------------------------------------------------
LEMMA TInvInit == ReloadInit => TInv
BY NoneAssumption DEF ReloadInit, TInv, ReloadTypeOK, Begun, Steps, InstanceState

LEMMA TInvStep == TInv /\ [ReloadNext]_reloadVars => TInv'
<1> SUFFICES ASSUME TInv, [ReloadNext]_reloadVars PROVE TInv'
  OBVIOUS
<1> USE NoneAssumption DEF TInv, ReloadTypeOK, Begun, Goto, Steps, InstanceState
<1>1. ASSUME NEW c \in Caller, GetAgent(c) PROVE TInv'
  BY <1>1 DEF GetAgent, StartInstance, IsFresh, background
<1>2. ASSUME NEW c \in Caller, StopAgent(c) PROVE TInv'
  BY <1>2 DEF StopAgent, StopBegins, background
<1>3. ASSUME NEW c \in Caller, ReloadCheck(c) PROVE TInv'
  BY <1>3 DEF ReloadCheck, workspaces, background
<1>4. ASSUME NEW c \in Caller, GetAgentDone(c) PROVE TInv'
  BY <1>4 DEF GetAgentDone, StartSucceeds, StartFails, background
<1>5. ASSUME NEW c \in Caller, StopAgentDone(c) PROVE TInv'
  BY <1>5 DEF StopAgentDone, FinalStopEnds, StopEnds, background
<1>6. ASSUME NEW c \in Caller, ReloadPrepare(c) PROVE TInv'
  BY <1>6 DEF ReloadPrepare, StartInstance, IsFresh, background
<1>7. ASSUME NEW c \in Caller, ReloadGivesUp(c) PROVE TInv'
  BY <1>7 DEF ReloadGivesUp, StartFails, workspaces, background
<1>8. ASSUME NEW c \in Caller, ReloadStarted(c) PROVE TInv'
  BY <1>8 DEF ReloadStarted, StartSucceeds, background
<1>9. ASSUME NEW c \in Caller, Swap(c) PROVE TInv'
  BY <1>9 DEF Swap, Retire, StopBegins
<1>10. ASSUME NEW c \in Caller, Abort(c) PROVE TInv'
  BY <1>10 DEF Abort, StopBegins, background
<1>11. ASSUME NEW c \in Caller, AbortDone(c) PROVE TInv'
  BY <1>11 DEF AbortDone, FinalStopEnds, StopEnds, background
<1>12. ASSUME NEW c \in Caller, RetireDone(c) PROVE TInv'
  BY <1>12 DEF RetireDone, NonFinalStopEnds, StopEnds, background
<1>13. ASSUME NEW i \in Instance, BeginTask(i) \/ EndTask(i) PROVE TInv'
  BY <1>13 DEF BeginTask, EndTask, callers, workspaces
<1>14. ASSUME NEW i \in Instance, CleanupStop(i) PROVE TInv'
  BY <1>14 DEF CleanupStop, StopBegins, callers, background
<1>15. ASSUME NEW i \in Instance, CleanupDone(i) PROVE TInv'
  BY <1>15 DEF CleanupDone, NonFinalStopEnds, StopEnds, callers
<1>16. CASE CloseBegin
  BY <1>16 DEF CloseBegin, StopBegins, callers
<1>17. CASE CloseDone
  BY <1>17 DEF CloseDone, FinalStopEnds, StopEnds, callers, workspaces, background
<1>18. CASE UNCHANGED reloadVars
  BY <1>18 DEF reloadVars
<1> QED
  BY <1>1, <1>2, <1>3, <1>4, <1>5, <1>6, <1>7, <1>8, <1>9, <1>10, <1>11, <1>12,
     <1>13, <1>14, <1>15, <1>16, <1>17, <1>18 DEF ReloadNext, Call

\* Every variable has its type in every reachable state.
THEOREM ReloadTypeCorrect == ReloadSpec => []ReloadTypeOK
<1>1. TInv => ReloadTypeOK
  BY DEF TInv
<1> QED
  BY <1>1, TInvInit, TInvStep, PTL DEF ReloadSpec
-----------------------------------------------------------------------------
(* Ownership                                                               *)

\* Three steps hold the lock across an await, and only they.
LockInv ==
  \A c \in Caller : lock = c <=> pc[c] \in {"starting", "removing", "aborting"}

\* What a call has in its hands, and in which state, depends on its step.
StepInv ==
  \A c \in Caller :
    /\ new[c] # None <=> pc[c] \in {"starting", "preparing", "swapping", "aborting"}
    /\ old[c] # None <=> pc[c] \in {"removing", "retiring"}
    /\ pc[c] \in {"starting", "preparing"} => inst[new[c]] = "starting"
    /\ pc[c] = "swapping" => inst[new[c]] = "up"
    /\ pc[c] = "aborting" => inst[new[c]] = "stopping"
    /\ pc[c] \in {"removing", "retiring"} => inst[old[c]] = "stopping"
    /\ pc[c] = "removing" => agent = old[c]
    /\ pc[c] = "retiring" => old[c] \in retired \ cleanup
    /\ pc[c] \in {"starting", "aborting"} => agent = None

\* The entry is up unless the holder of the lock is stopping it.
EntryInv ==
  agent # None =>
    /\ agent \notin retired
    /\ inst[agent] = "up" \/ \E c \in Caller : pc[c] = "removing" /\ lock = c

\* A clean-up task owns an instance that was swapped out and still runs.
CleanupInv ==
  /\ cleanup \subseteq retired
  /\ \A i \in cleanup : inst[i] \in {"up", "stopping"}
  /\ \A i \in retired : inst[i] # "unused"

\* No instance is in two hands.
Apart ==
  \A c \in Caller :
    /\ new[c] # None => new[c] # agent /\ new[c] \notin retired
    /\ \A d \in Caller \ {c} :
         /\ new[c] # None => new[c] # new[d] /\ new[c] # old[d]
         /\ old[c] # None => old[c] # old[d]

Owners == LockInv /\ StepInv /\ EntryInv /\ CleanupInv /\ Apart

(***************************************************************************)
(* The inductive invariant.  NoOrphan is not inductive alone: a step that  *)
(* stops or hands over an instance must know that nobody else owns it.     *)
(* Nothing is claimed once stop_all has begun: it takes no lock.           *)
(***************************************************************************)
RInv == phase = "up" => Owners /\ NoOrphan

LEMMA RInvInit == ReloadInit => RInv
BY NoneAssumption
DEF ReloadInit, RInv, Owners, LockInv, StepInv, EntryInv, CleanupInv, Apart, NoOrphan

LEMMA RInvStep == TInv /\ RInv /\ [ReloadNext]_reloadVars => RInv'
<1> SUFFICES ASSUME TInv, RInv, [ReloadNext]_reloadVars, phase' = "up" PROVE (Owners /\ NoOrphan)'
  BY DEF RInv
<1>0. phase = "up" /\ Owners /\ NoOrphan
  BY DEF RInv, ReloadNext, Call, GetAgent, StopAgent, ReloadCheck, GetAgentDone, StopAgentDone,
    ReloadPrepare, ReloadGivesUp, ReloadStarted, Swap, Abort, AbortDone, RetireDone,
    BeginTask, EndTask, CleanupStop, CleanupDone, CloseBegin, CloseDone, reloadVars
<1> USE <1>0, NoneAssumption
    DEF TInv, ReloadTypeOK, Begun, Goto, Steps, InstanceState, Owners, LockInv, StepInv,
      EntryInv, CleanupInv, Apart, NoOrphan, InHand
<1>1. ASSUME NEW c \in Caller, GetAgent(c) PROVE (Owners /\ NoOrphan)'
  BY <1>1 DEF GetAgent, StartInstance, IsFresh, background
<1>2. ASSUME NEW c \in Caller, StopAgent(c) PROVE (Owners /\ NoOrphan)'
  BY <1>2 DEF StopAgent, StopBegins, background
<1>3. ASSUME NEW c \in Caller, ReloadCheck(c) PROVE (Owners /\ NoOrphan)'
  BY <1>3 DEF ReloadCheck, workspaces, background
<1>4. ASSUME NEW c \in Caller, GetAgentDone(c) PROVE (Owners /\ NoOrphan)'
  BY <1>4 DEF GetAgentDone, StartSucceeds, StartFails, background
<1>5. ASSUME NEW c \in Caller, StopAgentDone(c) PROVE (Owners /\ NoOrphan)'
  BY <1>5 DEF StopAgentDone, FinalStopEnds, StopEnds, background
<1>6. ASSUME NEW c \in Caller, ReloadPrepare(c) PROVE (Owners /\ NoOrphan)'
  BY <1>6 DEF ReloadPrepare, StartInstance, IsFresh, background
<1>7. ASSUME NEW c \in Caller, ReloadGivesUp(c) PROVE (Owners /\ NoOrphan)'
  BY <1>7 DEF ReloadGivesUp, StartFails, workspaces, background
<1>8. ASSUME NEW c \in Caller, ReloadStarted(c) PROVE (Owners /\ NoOrphan)'
  BY <1>8 DEF ReloadStarted, StartSucceeds, background
<1>9. ASSUME NEW c \in Caller, Swap(c) PROVE (Owners /\ NoOrphan)'
  BY <1>9 DEF Swap, Retire, StopBegins
<1>10. ASSUME NEW c \in Caller, Abort(c) PROVE (Owners /\ NoOrphan)'
  BY <1>10 DEF Abort, StopBegins, background
<1>11. ASSUME NEW c \in Caller, AbortDone(c) PROVE (Owners /\ NoOrphan)'
  BY <1>11 DEF AbortDone, FinalStopEnds, StopEnds, background
<1>12. ASSUME NEW c \in Caller, RetireDone(c) PROVE (Owners /\ NoOrphan)'
  BY <1>12 DEF RetireDone, NonFinalStopEnds, StopEnds, background
<1>13. ASSUME NEW i \in Instance, BeginTask(i) \/ EndTask(i) PROVE (Owners /\ NoOrphan)'
  BY <1>13 DEF BeginTask, EndTask, callers, workspaces
<1>14. ASSUME NEW i \in Instance, CleanupStop(i) PROVE (Owners /\ NoOrphan)'
  BY <1>14 DEF CleanupStop, StopBegins, callers, background
<1>15. ASSUME NEW i \in Instance, CleanupDone(i) PROVE (Owners /\ NoOrphan)'
  BY <1>15 DEF CleanupDone, NonFinalStopEnds, StopEnds, callers
<1>16. CASE CloseBegin \/ CloseDone
  BY <1>16 DEF CloseBegin, CloseDone
<1>17. CASE UNCHANGED reloadVars
  BY <1>17 DEF reloadVars
<1> QED
  BY <1>1, <1>2, <1>3, <1>4, <1>5, <1>6, <1>7, <1>8, <1>9, <1>10, <1>11, <1>12,
     <1>13, <1>14, <1>15, <1>16, <1>17 DEF ReloadNext, Call

LEMMA RInvariance == ReloadSpec => [](TInv /\ RInv)
BY TInvInit, TInvStep, RInvInit, RInvStep, PTL DEF ReloadSpec

\* get_agent never hands out an instance that is starting, stopping or stopped:
\* whoever gets the lock finds no entry or a started instance, although
\* stop_agent keeps the entry while it awaits the stop.
THEOREM EntryUp == ReloadSpec => []EntryIsUp
<1>1. TInv /\ RInv => EntryIsUp
  BY NoneAssumption DEF TInv, ReloadTypeOK, RInv, Owners, LockInv, EntryInv, EntryIsUp
<1> QED
  BY <1>1, RInvariance, PTL

\* Until shutdown every running instance has an owner, whatever reloads, lazy
\* starts, removals and delayed clean-ups cross each other, and none is both
\* served and about to be cleaned up.
THEOREM NoOrphans == ReloadSpec => []NoOrphan
<1>1. RInv => NoOrphan
  BY DEF RInv, NoOrphan
<1> QED
  BY <1>1, RInvariance, PTL
-----------------------------------------------------------------------------
(* The services that instances hand on                                     *)

LEMMA ServiceStep == TInv /\ ServiceInv /\ [ReloadNext]_reloadVars => ServiceInv'
<1> SUFFICES ASSUME TInv, ServiceInv, [ReloadNext]_reloadVars PROVE ServiceInv'
  OBVIOUS
<1> USE NoneAssumption DEF TInv, ReloadTypeOK, Begun, ServiceInv, Goto, Steps, InstanceState
<1>1. ASSUME NEW c \in Caller, GetAgent(c) PROVE ServiceInv'
  BY <1>1 DEF GetAgent, StartInstance, IsFresh, background
<1>2. ASSUME NEW c \in Caller, StopAgent(c) PROVE ServiceInv'
  BY <1>2 DEF StopAgent, StopBegins, background
<1>3. ASSUME NEW c \in Caller, ReloadCheck(c) PROVE ServiceInv'
  BY <1>3 DEF ReloadCheck, workspaces, background
<1>4. ASSUME NEW c \in Caller, GetAgentDone(c) PROVE ServiceInv'
  BY <1>4 DEF GetAgentDone, StartSucceeds, StartFails, background
<1>5. ASSUME NEW c \in Caller, StopAgentDone(c) PROVE ServiceInv'
  BY <1>5 DEF StopAgentDone, FinalStopEnds, StopEnds, background
<1>6. ASSUME NEW c \in Caller, ReloadPrepare(c) PROVE ServiceInv'
  BY <1>6 DEF ReloadPrepare, StartInstance, IsFresh, background
<1>7. ASSUME NEW c \in Caller, ReloadGivesUp(c) PROVE ServiceInv'
  BY <1>7 DEF ReloadGivesUp, StartFails, workspaces, background
<1>8. ASSUME NEW c \in Caller, ReloadStarted(c) PROVE ServiceInv'
  BY <1>8 DEF ReloadStarted, StartSucceeds, background
<1>9. ASSUME NEW c \in Caller, Swap(c) PROVE ServiceInv'
  BY <1>9 DEF Swap, Retire, StopBegins
<1>10. ASSUME NEW c \in Caller, Abort(c) PROVE ServiceInv'
  BY <1>10 DEF Abort, StopBegins, background
<1>11. ASSUME NEW c \in Caller, AbortDone(c) PROVE ServiceInv'
  BY <1>11 DEF AbortDone, FinalStopEnds, StopEnds, background
<1>12. ASSUME NEW c \in Caller, RetireDone(c) PROVE ServiceInv'
  BY <1>12 DEF RetireDone, NonFinalStopEnds, StopEnds, background
<1>13. ASSUME NEW i \in Instance, BeginTask(i) \/ EndTask(i) PROVE ServiceInv'
  BY <1>13 DEF BeginTask, EndTask, callers, workspaces
<1>14. ASSUME NEW i \in Instance, CleanupStop(i) PROVE ServiceInv'
  BY <1>14 DEF CleanupStop, StopBegins, callers, background
<1>15. ASSUME NEW i \in Instance, CleanupDone(i) PROVE ServiceInv'
  BY <1>15 DEF CleanupDone, NonFinalStopEnds, StopEnds, callers
<1>16. CASE CloseBegin
  BY <1>16 DEF CloseBegin, StopBegins, callers
<1>17. CASE CloseDone
  BY <1>17 DEF CloseDone, FinalStopEnds, StopEnds, callers, workspaces, background
<1>18. CASE UNCHANGED reloadVars
  BY <1>18 DEF reloadVars
<1> QED
  BY <1>1, <1>2, <1>3, <1>4, <1>5, <1>6, <1>7, <1>8, <1>9, <1>10, <1>11,
     <1>12, <1>13, <1>14, <1>15, <1>16, <1>17, <1>18 DEF ReloadNext, Call

LEMMA OpenStep ==
  TInv /\ RInv /\ SInv /\ [ReloadNext]_reloadVars =>
    (phase = "up" /\ ~crossed => ReloadInv /\ OpenInv)'
<1> SUFFICES ASSUME TInv, RInv, SInv, [ReloadNext]_reloadVars, phase' = "up", ~crossed'
             PROVE  (ReloadInv /\ OpenInv)'
  OBVIOUS
<1>00. phase = "up"
  BY DEF ReloadNext, Call, GetAgent, StopAgent, ReloadCheck, GetAgentDone, StopAgentDone,
    ReloadPrepare, ReloadGivesUp, ReloadStarted, Swap, Abort, AbortDone, RetireDone,
    BeginTask, EndTask, CleanupStop, CleanupDone, CloseBegin, CloseDone, reloadVars
<1>01. ~crossed
  <2>1. ASSUME NEW c \in Caller, StopAgent(c) PROVE ~crossed
    BY <2>1 DEF StopAgent
  <2>2. CASE UNCHANGED crossed
    BY <2>2
  <2> QED
    BY <2>1, <2>2 DEF ReloadNext, Call, GetAgent, ReloadCheck, GetAgentDone, StopAgentDone,
      ReloadPrepare, ReloadGivesUp, ReloadStarted, Swap, Abort, AbortDone, RetireDone,
      BeginTask, EndTask, CleanupStop, CleanupDone, CloseBegin, CloseDone, reloadVars
<1>0. /\ phase = "up" /\ ~crossed
      /\ LockInv /\ StepInv /\ ServiceInv /\ ReloadInv /\ OpenInv
  BY <1>00, <1>01 DEF RInv, Owners, SInv
<1> USE <1>0, NoneAssumption
    DEF TInv, ReloadTypeOK, Begun, Goto, Steps, InstanceState, LockInv, StepInv,
      ServiceInv, ReloadInv, OpenInv, Reloading
<1>1. ASSUME NEW c \in Caller, GetAgent(c) PROVE (ReloadInv /\ OpenInv)'
  BY <1>1 DEF GetAgent, StartInstance, IsFresh, background
<1>2. ASSUME NEW c \in Caller, StopAgent(c) PROVE (ReloadInv /\ OpenInv)'
  <2>1. \A d \in Caller : ~Reloading(d)
    BY <1>2 DEF StopAgent
  <2>2. ReloadInv'
    BY <1>2, <2>1 DEF StopAgent
  <2>3. OpenInv'
    BY <1>2 DEF StopAgent, StopBegins
  <2> QED
    BY <2>2, <2>3
<1>3. ASSUME NEW c \in Caller, ReloadCheck(c) PROVE (ReloadInv /\ OpenInv)'
  BY <1>3 DEF ReloadCheck, workspaces, background
<1>4. ASSUME NEW c \in Caller, GetAgentDone(c) PROVE (ReloadInv /\ OpenInv)'
  BY <1>4 DEF GetAgentDone, StartSucceeds, StartFails, background
<1>5. ASSUME NEW c \in Caller, StopAgentDone(c) PROVE (ReloadInv /\ OpenInv)'
  BY <1>5 DEF StopAgentDone, FinalStopEnds, StopEnds, background
<1>6. ASSUME NEW c \in Caller, ReloadPrepare(c) PROVE (ReloadInv /\ OpenInv)'
  BY <1>6 DEF ReloadPrepare, StartInstance, IsFresh, background
<1>7. ASSUME NEW c \in Caller, ReloadGivesUp(c) PROVE (ReloadInv /\ OpenInv)'
  BY <1>7 DEF ReloadGivesUp, StartFails, workspaces, background
<1>8. ASSUME NEW c \in Caller, ReloadStarted(c) PROVE (ReloadInv /\ OpenInv)'
  BY <1>8 DEF ReloadStarted, StartSucceeds, background
<1>9. ASSUME NEW c \in Caller, Swap(c) PROVE (ReloadInv /\ OpenInv)'
  BY <1>9 DEF Swap, Retire, StopBegins
<1>10. ASSUME NEW c \in Caller, Abort(c) PROVE (ReloadInv /\ OpenInv)'
  BY <1>10 DEF Abort, StopBegins, background
<1>11. ASSUME NEW c \in Caller, AbortDone(c) PROVE (ReloadInv /\ OpenInv)'
  BY <1>11 DEF AbortDone, FinalStopEnds, StopEnds, background
<1>12. ASSUME NEW c \in Caller, RetireDone(c) PROVE (ReloadInv /\ OpenInv)'
  BY <1>12 DEF RetireDone, NonFinalStopEnds, StopEnds, background
<1>13. ASSUME NEW i \in Instance, BeginTask(i) \/ EndTask(i) PROVE (ReloadInv /\ OpenInv)'
  BY <1>13 DEF BeginTask, EndTask, callers, workspaces
<1>14. ASSUME NEW i \in Instance, CleanupStop(i) PROVE (ReloadInv /\ OpenInv)'
  BY <1>14 DEF CleanupStop, StopBegins, callers, background
<1>15. ASSUME NEW i \in Instance, CleanupDone(i) PROVE (ReloadInv /\ OpenInv)'
  BY <1>15 DEF CleanupDone, NonFinalStopEnds, StopEnds, callers
<1>16. CASE CloseBegin \/ CloseDone
  BY <1>16 DEF CloseBegin, CloseDone
<1>17. CASE UNCHANGED reloadVars
  BY <1>17 DEF reloadVars
<1> QED
  BY <1>1, <1>2, <1>3, <1>4, <1>5, <1>6, <1>7, <1>8, <1>9, <1>10, <1>11,
     <1>12, <1>13, <1>14, <1>15, <1>16, <1>17 DEF ReloadNext, Call

LEMMA SInvInit == ReloadInit => SInv
BY NoneAssumption DEF ReloadInit, SInv, ServiceInv, ReloadInv, OpenInv, Reloading

LEMMA SInvariance == ReloadSpec => [](TInv /\ RInv /\ SInv)
<1>1. TInv /\ RInv /\ SInv /\ [ReloadNext]_reloadVars => SInv'
  BY ServiceStep, OpenStep DEF SInv
<1> QED
  BY <1>1, TInvInit, TInvStep, RInvInit, RInvStep, SInvInit, PTL DEF ReloadSpec

\* However often the agent is reloaded, the instance that serves works with open
\* services, and what nobody works with any more has been closed.
THEOREM ReusableServicesSafe == ReloadSpec => []ReusableServices
<1>1. TInv /\ RInv /\ SInv => ReusableServices
  <2> SUFFICES ASSUME TInv, RInv, SInv, phase = "up", ~crossed
               PROVE  /\ lock = None /\ agent # None => service[agent] \notin closed
                      /\ \A i \in Instance \ closed :
                           service[i] = i =>
                             \/ \E j \in Instance :
                                  service[j] = i /\ inst[j] \in {"starting", "up", "stopping"}
                             \/ inst[i] = "failed"
    BY DEF ReusableServices
  <2>1. StepInv /\ EntryInv /\ ReloadInv /\ OpenInv
    BY DEF RInv, SInv, Owners
  <2>2. agent # None => agent \in Instance /\ inst[agent] \in {"up", "stopping"}
    BY <2>1, NoneAssumption DEF StepInv, EntryInv, TInv, ReloadTypeOK
  <2>3. \A c \in Caller : pc[c] = "starting" =>
          /\ new[c] \in Instance /\ service[new[c]] = new[c] /\ inst[new[c]] = "starting"
    BY <2>1, NoneAssumption DEF StepInv, ReloadInv, TInv, ReloadTypeOK
  <2> QED
    BY <2>1, <2>2, <2>3 DEF OpenInv
<1> QED
  BY <1>1, SInvariance, PTL
=============================================================================
