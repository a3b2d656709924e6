---------------------------- MODULE QueueManager ----------------------------
(***************************************************************************)
(* The path of a channel message from ChannelManager.enqueue to the agent  *)
(* run it starts: copaw/app/channels/unified_queue_manager.py, the queue   *)
(* half of manager.py, and _consume_with_tracker of base.py.               *)
(*                                                                         *)
(* Both asyncio locks guard code without awaits, so each critical section  *)
(* is part of one step.  The suspension points are queue.put (wait_for     *)
(* runs it in a task of its own), queue.get, the work on a batch before    *)
(* its run starts, the wait for that run, and the cleanup loop's sleep and *)
(* its await of a cancelled consumer.                                      *)
(*                                                                         *)
(* The agent run itself belongs to TaskTracker: here it is run[k], the     *)
(* live run of the chat behind key k.  Messages are numbered in the order  *)
(* of arrival, queue objects in the order of creation.                     *)
(***************************************************************************)
EXTENDS Naturals, Sequences, FiniteSets

CONSTANTS
  Key,       \* QueueKeys: (channel_id, session_id, priority_level)
  Tracked,   \* the keys of normal priority, whose batches become agent runs;
             \* the others hold control commands, handled without the tracker
  MaxMsg,    \* bound: messages that arrive
  KeyOf,     \* KeyOf[m]: the key of message m
  MaxQueue,  \* bound: queue objects created
  Capacity,  \* queue_maxsize
  NoQueue, NoKey,
  Asleep, Gone  \* states of the cleanup loop, see cleaner

Msg == 1..MaxMsg
Queue == 1..MaxQueue

ASSUME TrackedAssumption == Tracked \subseteq Key
ASSUME BoundsAssumption == MaxMsg \in Nat /\ MaxQueue \in Nat /\ Capacity \in Nat \ {0}
ASSUME KeyOfAssumption == KeyOf \in [Msg -> Key]
ASSUME NoneAssumption == NoQueue \notin Queue /\ NoKey \notin Key
ASSUME CleanerAssumption == Asleep \notin Queue /\ Gone \notin Queue /\ Asleep # Gone

VARIABLES
  reg,      \* reg[k]: the entry of _queues, NoQueue when there is none
  key,      \* key[q]: the key q was created for, NoKey before
  buf,      \* buf[q]: the contents of the asyncio.Queue
  cons,     \* cons[q]: where q's consumer task is, see ConsumerState
  cancel,   \* the queues whose consumer has a CancelledError coming
  batch,    \* batch[q]: what the consumer drained and is working on
  idle,     \* the queues whose last_activity is more than idle_timeout ago
  run,      \* run[k]: the queue whose batch started the chat's live run
  fate,     \* fate[m]: what has become of message m
  target,   \* target[m]: the queue _get_or_create_queue returned for m
  puts,     \* the enqueue tasks about to put, in the order they will
  blocked,  \* the messages whose put found the queue full
  cleaner,  \* Asleep, Gone, or the queue whose consumer the loop awaits
  todo,     \* to_cleanup, the keys the sweep still has to visit
  phase,    \* ChannelManager.stop_all, see Phase
  evicted,  \* history: the keys the cleanup loop has evicted
  late      \* history: the messages whose put has found the queue full

vars == <<reg, key, buf, cons, cancel, batch, idle, run, fate, target, puts,
          blocked, cleaner, todo, phase, evicted, late>>

registry == <<reg, key, idle>>
consumers == <<cons, cancel, batch, run>>
arrivals == <<target, puts, blocked, late>>
control == <<cleaner, todo, phase, evicted>>

(***************************************************************************)
(* "created": the task has not reached its loop: not entered yet, or       *)
(* waiting in get_channel for the lock replace_channel holds.              *)
(* "taken": working on a batch that has started no run (yet).              *)
(* "reading": in stream_from_queue, until the run of its batch ends.       *)
(***************************************************************************)
ConsumerState == {"none", "created", "waiting", "taken", "reading", "gone"}

\* stop_all: enqueue tasks cancelled; cleanup task cancelled; consumers cancelled.
Phase == {"up", "draining", "sweeping", "cancelling", "stopped"}

Fate == {"new", "waiting", "started", "handled", "failed", "ignored",
         "cleared", "timedout", "lost"}

Alive(q) == cons[q] \notin {"none", "gone"}
Elements(s) == {s[i] : i \in 1..Len(s)}
Settle(ms, f) == fate' = [m \in Msg |-> IF m \in ms THEN f ELSE fate[m]]

Init ==
  /\ reg = [k \in Key |-> NoQueue]
  /\ key = [q \in Queue |-> NoKey]
  /\ buf = [q \in Queue |-> <<>>]
  /\ cons = [q \in Queue |-> "none"]
  /\ cancel = {}
  /\ batch = [q \in Queue |-> <<>>]
  /\ idle = {}
  /\ run = [k \in Key |-> NoQueue]
  /\ fate = [m \in Msg |-> "new"]
  /\ target = [m \in Msg |-> NoQueue]
  /\ puts = <<>>
  /\ blocked = {}
  /\ cleaner = Asleep
  /\ todo = {}
  /\ phase = "up"
  /\ evicted = {}
  /\ late = {}
-----------------------------------------------------------------------------
(* Enqueueing                                                              *)

IsNext(m) == fate[m] = "new" /\ \A n \in 1..(m - 1) : fate[n] # "new"
IsFresh(q) == key[q] = NoKey /\ \A p \in 1..(q - 1) : key[p] # NoKey

\* The key has a queue: its activity is refreshed and the put is scheduled.
ArriveAtQueue(m) ==
  /\ reg[KeyOf[m]] # NoQueue
  /\ target' = [target EXCEPT ![m] = reg[KeyOf[m]]]
  /\ idle' = idle \ {reg[KeyOf[m]]}
  /\ UNCHANGED <<reg, key, cons>>

\* It has none: a queue and its consumer task are created and registered.
ArriveAtNewQueue(m, q) ==
  /\ reg[KeyOf[m]] = NoQueue
  /\ IsFresh(q)
  /\ reg' = [reg EXCEPT ![KeyOf[m]] = q]
  /\ key' = [key EXCEPT ![q] = KeyOf[m]]
  /\ cons' = [cons EXCEPT ![q] = "created"]
  /\ target' = [target EXCEPT ![m] = q]
  /\ UNCHANGED idle

\* Mutation of Arrive: the registry is not looked up first.
ArriveUnchecked(m) ==
  /\ phase # "stopped"
  /\ IsNext(m)
  /\ \E q \in Queue : /\ IsFresh(q)
                      /\ reg' = [reg EXCEPT ![KeyOf[m]] = q]
                      /\ key' = [key EXCEPT ![q] = KeyOf[m]]
                      /\ cons' = [cons EXCEPT ![q] = "created"]
                      /\ target' = [target EXCEPT ![m] = q]
  /\ puts' = Append(puts, m)
  /\ Settle({m}, "waiting")
  /\ UNCHANGED <<idle, buf, cancel, batch, run, blocked, late, control>>

\* _enqueue_one's task up to queue.put.  stop_all drops _queue_manager last.
Arrive(m) ==
  /\ phase # "stopped"
  /\ IsNext(m)
  /\ \/ ArriveAtQueue(m)
     \/ \E q \in Queue : ArriveAtNewQueue(m, q)
  /\ puts' = Append(puts, m)
  /\ Settle({m}, "waiting")
  /\ UNCHANGED <<buf, cancel, batch, run, blocked, late, control>>

\* Mutation of HasRoom: one message too many.
HasRoomForOneMore(q) == Len(buf[q]) <= Capacity

HasRoom(q) == Len(buf[q]) < Capacity

\* Mutation of Put: the put tasks run in any order.
PutAny ==
  \E i \in 1..Len(puts) :
    LET m == puts[i] IN
    /\ puts' = SubSeq(puts, 1, i - 1) \o SubSeq(puts, i + 1, Len(puts))
    /\ HasRoom(target[m])
    /\ buf' = [buf EXCEPT ![target[m]] = Append(@, m)]
    /\ UNCHANGED <<blocked, late, registry, consumers, fate, target, control>>

\* The oldest put task runs: the message goes in, or waits for room.
Put ==
  /\ puts # <<>>
  /\ LET m == Head(puts) IN
     \/ /\ HasRoom(target[m])
        /\ buf' = [buf EXCEPT ![target[m]] = Append(@, m)]
        /\ UNCHANGED <<blocked, late>>
     \/ /\ ~HasRoom(target[m])
        /\ blocked' = blocked \cup {m}
        /\ late' = late \cup {m}
        /\ UNCHANGED buf
  /\ puts' = Tail(puts)
  /\ UNCHANGED <<registry, consumers, fate, target, control>>

\* A putter woken by a get finds room.  One that a later put overtook goes to
\* the end of asyncio's line, so any of them may be the next.
PutUnblocked(m) ==
  /\ m \in blocked
  /\ HasRoom(target[m])
  /\ blocked' = blocked \ {m}
  /\ buf' = [buf EXCEPT ![target[m]] = Append(@, m)]
  /\ UNCHANGED <<registry, consumers, fate, target, puts, late, control>>

\* The 30 s are over; _enqueue_with_timeout passes over the TimeoutError.
PutTimeout(m) ==
  /\ m \in blocked
  /\ blocked' = blocked \ {m}
  /\ Settle({m}, "timedout")
  /\ UNCHANGED <<registry, buf, consumers, target, puts, late, control>>

\* /stop: request_stop on the chat's run, whose end is EndRun, then clear_queue.
StopCommand(k) ==
  /\ k \in Tracked
  /\ phase # "stopped"
  /\ reg[k] # NoQueue
  /\ Settle(Elements(buf[reg[k]]), "cleared")
  /\ buf' = [buf EXCEPT ![reg[k]] = <<>>]
  /\ UNCHANGED <<registry, consumers, arrivals, control>>
-----------------------------------------------------------------------------
(* The consumer task of a queue                                            *)

\* increment_processed: by key, so it touches whatever queue the key has now.
Processed(q) == idle' = idle \ {reg[key[q]]}

\* The finally clause of _run_consumer: the pop is by key as well.
Unregister(q) == reg' = [reg EXCEPT ![key[q]] = NoQueue]

Begin(q) ==
  /\ cons[q] = "created"
  /\ q \notin cancel
  /\ cons' = [cons EXCEPT ![q] = "waiting"]
  /\ UNCHANGED <<registry, buf, cancel, batch, run, fate, arrivals, control>>

\* A task cancelled before it is entered has no finally clause to run; one
\* cancelled inside get_channel does.
NeverBegin(q) ==
  /\ cons[q] = "created"
  /\ q \in cancel
  /\ cons' = [cons EXCEPT ![q] = "gone"]
  /\ cancel' = cancel \ {q}
  /\ UNCHANGED reg \/ Unregister(q)
  /\ UNCHANGED <<key, idle, buf, batch, run, fate, arrivals, control>>

\* Mutation of Take: the drain leaves what it took in the queue.
TakeWithoutRemoving(q) ==
  /\ cons[q] = "waiting"
  /\ q \notin cancel
  /\ buf[q] # <<>>
  /\ batch' = [batch EXCEPT ![q] = buf[q]]
  /\ cons' = [cons EXCEPT ![q] = "taken"]
  /\ UNCHANGED <<registry, buf, cancel, run, fate, arrivals, control>>

\* queue.get, then get_nowait until the queue is empty.
Take(q) ==
  /\ cons[q] = "waiting"
  /\ q \notin cancel
  /\ buf[q] # <<>>
  /\ batch' = [batch EXCEPT ![q] = buf[q]]
  /\ buf' = [buf EXCEPT ![q] = <<>>]
  /\ cons' = [cons EXCEPT ![q] = "taken"]
  /\ UNCHANGED <<registry, cancel, run, fate, arrivals, control>>

Works(q) == cons[q] = "taken" /\ q \notin cancel

NextBatch(q) ==
  /\ cons' = [cons EXCEPT ![q] = "waiting"]
  /\ batch' = [batch EXCEPT ![q] = <<>>]

\* A control command, or a message kept by _debounce_payload for later text.
Handle(q) ==
  /\ Works(q)
  /\ NextBatch(q)
  /\ Processed(q)
  /\ Settle(Elements(batch[q]), "handled")
  /\ UNCHANGED <<reg, key, buf, cancel, run, arrivals, control>>

\* Mutation of FailBatch: the exception ends the loop.
FailAndLeave(q) ==
  /\ Works(q)
  /\ cons' = [cons EXCEPT ![q] = "gone"]
  /\ batch' = [batch EXCEPT ![q] = <<>>]
  /\ Settle(Elements(batch[q]), "failed")
  /\ UNCHANGED <<registry, buf, cancel, run, arrivals, control>>

\* An exception from the batch is logged and the loop goes on.
FailBatch(q) ==
  /\ Works(q)
  /\ NextBatch(q)
  /\ Settle(Elements(batch[q]), "failed")
  /\ UNCHANGED <<registry, buf, cancel, run, arrivals, control>>

\* attach_or_start finds no live run of the chat: is_new.
StartRun(q) ==
  /\ Works(q)
  /\ key[q] \in Tracked
  /\ run[key[q]] = NoQueue
  /\ run' = [run EXCEPT ![key[q]] = q]
  /\ cons' = [cons EXCEPT ![q] = "reading"]
  /\ batch' = [batch EXCEPT ![q] = <<>>]
  /\ Settle(Elements(batch[q]), "started")
  /\ UNCHANGED <<registry, buf, cancel, arrivals, control>>

\* It finds one: "Message ignored (task already running)".
Ignore(q) ==
  /\ Works(q)
  /\ key[q] \in Tracked
  /\ run[key[q]] # NoQueue
  /\ NextBatch(q)
  /\ Processed(q)
  /\ Settle(Elements(batch[q]), "ignored")
  /\ UNCHANGED <<reg, key, buf, cancel, run, arrivals, control>>

\* The tracker's producer ends and leaves its sentinels.
EndRun(k) ==
  /\ run[k] # NoQueue
  /\ run' = [run EXCEPT ![k] = NoQueue]
  /\ UNCHANGED <<registry, buf, cons, cancel, batch, fate, arrivals, control>>

\* stream_from_queue reads its sentinel, or turns a cancellation into the end
\* of the stream: the consumer takes either for success.
EndReading(q) ==
  /\ cons[q] = "reading"
  /\ q \in cancel \/ run[key[q]] # q
  /\ cancel' = cancel \ {q}
  /\ NextBatch(q)
  /\ Processed(q)
  /\ UNCHANGED <<reg, key, buf, run, fate, arrivals, control>>

\* A control command such as /approve runs the agent inside the consumer.  The
\* runner turns a cancellation that reaches that run into an AgentException, and
\* _run_process_loop answers it with an error: the loop goes on.
AbsorbInCommand(q) ==
  /\ cons[q] = "taken"
  /\ key[q] \notin Tracked
  /\ q \in cancel
  /\ cancel' = cancel \ {q}
  /\ NextBatch(q)
  /\ Processed(q)
  /\ Settle(Elements(batch[q]), "handled")
  /\ UNCHANGED <<reg, key, buf, run, arrivals, control>>

\* Cancelled in queue.get or at work on a batch: break, and the finally clause.
Leave(q) ==
  /\ cons[q] \in {"waiting", "taken"}
  /\ q \in cancel
  /\ cons' = [cons EXCEPT ![q] = "gone"]
  /\ cancel' = cancel \ {q}
  /\ batch' = [batch EXCEPT ![q] = <<>>]
  /\ Settle(Elements(batch[q]), "lost")
  /\ Unregister(q)
  /\ UNCHANGED <<key, idle, buf, run, arrivals, control>>
-----------------------------------------------------------------------------
(* The cleanup loop                                                        *)

\* idle_timeout passes since the last enqueue or processed batch.  A put lasts
\* 30 s at most and a consumer takes and dispatches promptly, so neither is
\* under way after 600 s; a run may be, of a batch or inside a control command.
\* stop_all takes far less.
GrowIdle(q) ==
  /\ phase = "up"
  /\ q \notin idle
  /\ \E k \in Key : reg[k] = q
  /\ \A m \in Elements(puts) \cup blocked : target[m] # q
  /\ \/ cons[q] = "waiting" /\ buf[q] = <<>>
     \/ cons[q] = "reading"
     \/ cons[q] = "taken" /\ key[q] \notin Tracked
  /\ idle' = idle \cup {q}
  /\ UNCHANGED <<reg, key, buf, consumers, fate, arrivals, control>>

\* An entry is popped and its consumer cancelled; the loop awaits its end.
Evict(k) ==
  /\ reg[k] # NoQueue
  /\ reg' = [reg EXCEPT ![k] = NoQueue]
  /\ cancel' = cancel \cup {reg[k]}
  /\ cleaner' = reg[k]
  /\ evicted' = evicted \cup {k}

\* The sweep goes on: keys without an entry are passed over, and an entry is
\* not looked at again before it is evicted.
Visit(ks) ==
  \/ \E k \in ks : Evict(k) /\ todo' = ks \ {k}
  \/ /\ \A k \in ks : reg[k] = NoQueue
     /\ cleaner' = IF phase \in {"up", "draining"} THEN Asleep ELSE Gone
     /\ todo' = {}
     /\ UNCHANGED <<reg, cancel, evicted>>

Expired ==
  {k \in Key : reg[k] # NoQueue /\ reg[k] \in idle /\ buf[reg[k]] = <<>>}

SweepBegin ==
  /\ cleaner = Asleep
  /\ Expired # {}
  /\ Visit(Expired)
  /\ UNCHANGED <<key, idle, buf, cons, batch, run, fate, arrivals, phase>>

SweepOn ==
  /\ cleaner \in Queue
  /\ cons[cleaner] = "gone"
  /\ Visit(todo)
  /\ UNCHANGED <<key, idle, buf, cons, batch, run, fate, arrivals, phase>>
-----------------------------------------------------------------------------
(* ChannelManager.stop_all and UnifiedQueueManager.stop_all                *)

StopEnqueues ==
  /\ phase = "up"
  /\ phase' = "draining"
  /\ Settle(Elements(puts) \cup blocked, "lost")
  /\ puts' = <<>>
  /\ blocked' = {}
  /\ UNCHANGED <<registry, buf, consumers, target, late, cleaner, todo, evicted>>

\* Cancelling a task that awaits another cancels that other task.
StopCleaner ==
  /\ phase = "draining"
  /\ phase' = "sweeping"
  /\ \/ /\ cleaner = Asleep
        /\ cleaner' = Gone
        /\ UNCHANGED cancel
     \/ /\ cleaner \in Queue
        /\ cancel' = IF Alive(cleaner) THEN cancel \cup {cleaner} ELSE cancel
        /\ UNCHANGED cleaner
  /\ UNCHANGED <<registry, buf, cons, batch, run, fate, arrivals, todo, evicted>>

StopConsumers ==
  /\ phase = "sweeping"
  /\ cleaner = Gone
  /\ phase' = "cancelling"
  /\ cancel' = cancel \cup {reg[k] : k \in {j \in Key : reg[j] # NoQueue}}
  /\ UNCHANGED <<registry, buf, cons, batch, run, fate, arrivals, cleaner, todo,
                 evicted>>

\* The consumers are gone or 5 s are over.
StopDone ==
  /\ phase = "cancelling"
  /\ phase' = "stopped"
  /\ reg' = [k \in Key |-> NoQueue]
  /\ UNCHANGED <<key, idle, buf, consumers, fate, arrivals, cleaner, todo,
                 evicted>>
-----------------------------------------------------------------------------
Consume(q) ==
  \/ Begin(q) \/ NeverBegin(q) \/ Take(q) \/ Handle(q) \/ FailBatch(q)
  \/ StartRun(q) \/ Ignore(q) \/ EndReading(q) \/ AbsorbInCommand(q)
  \/ Leave(q)

Next ==
  \/ \E m \in Msg : Arrive(m) \/ PutUnblocked(m) \/ PutTimeout(m)
  \/ Put
  \/ \E k \in Key : StopCommand(k) \/ EndRun(k)
  \/ \E q \in Queue : Consume(q) \/ GrowIdle(q)
  \/ SweepBegin \/ SweepOn
  \/ StopEnqueues \/ StopCleaner \/ StopConsumers \/ StopDone

Spec == Init /\ [][Next]_vars

\* asyncio runs every ready task in turn, wait_for's timer fires, and agent
\* runs end: the model call has a timeout and the reasoning steps a bound.
Fairness ==
  /\ WF_vars(Put)
  /\ \A m \in Msg : WF_vars(PutTimeout(m))
  /\ \A q \in Queue : WF_vars(Consume(q))
  /\ \A k \in Key : WF_vars(EndRun(k))

FairSpec == Spec /\ Fairness
-----------------------------------------------------------------------------
(* Properties                                                              *)

\* Every variable has its type.
TypeOK ==
  /\ reg \in [Key -> Queue \cup {NoQueue}]
  /\ key \in [Queue -> Key \cup {NoKey}]
  /\ buf \in [Queue -> Seq(Msg)] /\ \A q \in Queue : Len(buf[q]) <= Capacity
  /\ cons \in [Queue -> ConsumerState]
  /\ cancel \subseteq Queue
  /\ batch \in [Queue -> Seq(Msg)]
  /\ idle \subseteq Queue
  /\ run \in [Key -> Queue \cup {NoQueue}]
  /\ fate \in [Msg -> Fate]
  /\ target \in [Msg -> Queue \cup {NoQueue}]
  /\ puts \in Seq(Msg)
  /\ blocked \subseteq Msg
  /\ cleaner \in {Asleep, Gone} \cup Queue
  /\ todo \subseteq Key
  /\ phase \in Phase
  /\ evicted \subseteq Key
  /\ late \subseteq Msg

Spots(s, m) == {i \in 1..Len(s) : s[i] = m}

Places(m) ==
  {<<"put", i>> : i \in Spots(puts, m)}
  \cup (IF m \in blocked THEN {<<"blocked">>} ELSE {})
  \cup (UNION {{<<"buf", q, i>> : i \in Spots(buf[q], m)} : q \in Queue})
  \cup (UNION {{<<"batch", q, i>> : i \in Spots(batch[q], m)} : q \in Queue})

\* A message is in exactly one place until its fate is settled, and in none
\* afterwards: never processed twice, never both cleared and processed.
MessageInOnePlace ==
  \A m \in Msg : Cardinality(Places(m)) = IF fate[m] = "waiting" THEN 1 ELSE 0

\* While the manager is up, a registered queue has a consumer that lives and is
\* not about to leave.  Until the cleanup loop evicts a key, this is the only
\* consumer of the key, and none of its messages is ignored or lost.
SerialUntilCleanup ==
  phase = "up" =>
    /\ \A k \in Key : reg[k] # NoQueue => Alive(reg[k]) /\ reg[k] \notin cancel
    /\ \A k \in Key \ evicted :
         /\ \A q \in Queue : key[q] = k /\ Alive(q) => reg[k] = q
         /\ \A m \in Msg : KeyOf[m] = k => fate[m] \notin {"ignored", "lost"}

InOrder(s, ms) ==
  \A i, j \in 1..Len(s) : i < j /\ {s[i], s[j]} \subseteq ms => s[i] < s[j]
OnTime(q) == {m \in Msg \ late : target[m] = q}

\* The messages bound for one queue are worked on in the order they arrived,
\* across the put tasks, the queue and the batch; only a message that found the
\* queue full can be overtaken.
ArrivalOrder ==
  \A q \in Queue : InOrder(batch[q] \o buf[q] \o puts, OnTime(q))

\* Every message that arrives is started, handled, ignored, cleared, failed or
\* timed out, as long as the manager is up and its key is not evicted.
EveryMessageSettles ==
  \A m \in Msg :
    fate[m] = "waiting" ~>
      \/ fate[m] # "waiting"
      \/ KeyOf[m] \in evicted
      \/ phase # "up"
=============================================================================
