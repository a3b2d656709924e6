----------------------------- MODULE Approvals -----------------------------
(***************************************************************************)
(* The approval of risky tool calls in one session: the records of         *)
(* copaw/app/approvals/service.py, the message that answers the oldest     *)
(* request (copaw/app/runner/runner.py) and the agent that asks, replays   *)
(* an approved call and goes on with its siblings                          *)
(* (copaw/agents/tool_guard_mixin.py).                                     *)
(*                                                                         *)
(* Ordinary messages run one at a time; /approve is a control command that *)
(* runs beside them, with an agent and a copy of the memory of its own.    *)
(* The service's lock guards code without an await.                        *)
(***************************************************************************)
EXTENDS Naturals, Sequences, FiniteSets, SequencesExt

CONSTANTS
  Call,        \* tool calls, by id
  Guarded,     \* those whose tool is in the guarded scope, all of one tool
  Risky,       \* those in which a guardian finds something
  Twin,        \* those with one and the same input
  MaxApprove,  \* bound: approvals of a call
  MaxSiblings, \* bound: calls in a message of the language model
  None

ASSUME CallAssumption == /\ Guarded \subseteq Call
                         /\ Risky \subseteq Call
                         /\ Twin \subseteq Guarded \cap Risky
ASSUME BoundAssumption == {MaxApprove, MaxSiblings} \subseteq Nat \ {0}

\* The runs that a message or a command starts.
Run == {"chat", "command"}

VARIABLES
  pending,  \* _pending: records, the oldest first, see Record
  tokens,   \* the approved records of _completed, by call, the oldest first
  pc,       \* pc[r]: what run r does, see Steps
  forced,   \* forced[r]: the record of forced_tool_call_json
  todo,     \* todo[r]: the tool calls of the last message still to act on
  queue,    \* queue[r]: _tool_guard_replay_queue
  active,   \* active[r]: _tool_guard_forced_replay_active
  done,     \* done[r]: the remaining_queue of _tool_guard_replay_done, if any
  blocked,  \* blocked[r]: the last tool response is a denial
  memory,   \* memory[r]: the agent's memory, see Memory
  saved,    \* the memory in the session file
  used,     \* the calls the language model has made
  granted,  \* history, granted[c]: times c was approved
  started,  \* history, started[c]: times c was executed
  waived,   \* history: calls that were denied or have expired
  disturbed \* history: two runs have been active at once, or one was stopped

\* rest: the calls to replay after it, sibling_tool_calls or remaining_queue.
Record == [call : Call, rest : Seq(Call)]

ASSUME NoneAssumption == None \notin Record \cup Seq(Call)

service == <<pending, tokens>>
agent == <<forced, todo, queue, active, done, blocked>>
history == <<granted, started, waived, disturbed>>
vars == <<pending, tokens, pc, forced, todo, queue, active, done, blocked,
          memory, saved, used, granted, started, waived, disturbed>>

\* The calls with a result that is not marked as a denial, and those with one
\* that is: a denial that is no longer marked counts as a result.
Memory == [results : SUBSET Call, denials : SUBSET Call]

\* "reason": in _reasoning.  "act": about to act on the head of todo.
\* "exec": its tool runs.  "cleanup": before _cleanup_denied_session_memory.
\* "command": before run_daemon_approve.
Steps == {"off", "reason", "act", "exec", "cleanup", "command"}

SameTool(c, d) == c \in Guarded <=> d \in Guarded
SameCall(c, d) == SameTool(c, d) /\ (c = d \/ {c, d} \subseteq Twin)

Calls(p) == {p.call} \cup ToSet(p.rest)
Asked == {pending[i].call : i \in DOMAIN pending}

\* A list comprehension: what s has at the places I, in the order of s. There is
\* one such sequence.
Orders(I) ==
  {f \in [1..Cardinality(I) -> I] :
     /\ I \subseteq Range(f)
     /\ \A i, j \in DOMAIN f : i < j => f[i] < f[j]}
Kept(s, I) == {[i \in DOMAIN f |-> s[f[i]]] : f \in Orders(I)}

Empty == [results |-> {}, denials |-> {}]

Init ==
  /\ pending = <<>> /\ tokens = <<>>
  /\ pc = [r \in Run |-> "off"]
  /\ forced = [r \in Run |-> None]
  /\ todo = [r \in Run |-> <<>>]
  /\ queue = [r \in Run |-> None]
  /\ active = [r \in Run |-> FALSE]
  /\ done = [r \in Run |-> <<>>]
  /\ blocked = [r \in Run |-> FALSE]
  /\ memory = [r \in Run |-> Empty]
  /\ saved = Empty
  /\ used = {}
  /\ granted = [c \in Call |-> 0]
  /\ started = [c \in Call |-> 0]
  /\ waived = {}
  /\ disturbed = FALSE
-----------------------------------------------------------------------------
(* ApprovalService                                                         *)

\* resolve_request(APPROVED) of the oldest record.
ResolveApproved ==
  LET c == Head(pending).call IN
  /\ pending' = Tail(pending)
  /\ \E kept \in Suffixes(tokens) : tokens' = Append(kept, c)
  /\ granted' = [granted EXCEPT ![c] = @ + 1]

\* Mutation of CancelStale: nothing is superseded.
CancelNothing(stale) == {pending}

\* cancel_stale_pending_for_tool_call for each of the calls.
CancelStale(stale) ==
  Kept(pending, {i \in DOMAIN pending : pending[i].call \notin stale})

\* create_pending of p when the calls in stale are cancelled and left are the
\* tokens.  The garbage collection takes the oldest records, if they are too
\* many or too old: one of Suffixes remains.
CreatePending(p, stale, left) ==
  \E live \in CancelStale(stale) : \E old \in Suffixes(live) :
    /\ pending' = Append(old, p)
    /\ tokens' \in Suffixes(left)
    /\ waived' = waived \cup UNION {Calls(q) : q \in ToSet(live) \ ToSet(old)}

\* consume_approval: the first approved record of the tool decides, and it is
\* gone in any case.
Candidates(c) == {i \in DOMAIN tokens : c \in Guarded /\ SameTool(tokens[i], c)}
First(c) == CHOOSE i \in Candidates(c) : \A j \in Candidates(c) : i <= j

\* Mutation of Approved: the name of the tool is enough.
ApprovedByName(c) == Candidates(c) # {}

Approved(c) == Candidates(c) # {} /\ SameCall(tokens[First(c)], c)

Consumed(c) ==
  IF Candidates(c) = {} THEN tokens ELSE RemoveAt(tokens, First(c))
-----------------------------------------------------------------------------
(* AgentRunner.query_handler: the message that starts a run                *)

Enter(r, step, call) ==
  /\ pc[r] = "off"
  /\ pc' = [pc EXCEPT ![r] = step]
  /\ forced' = [forced EXCEPT ![r] = call]
  /\ memory' = [memory EXCEPT ![r] = saved]
  /\ disturbed' = (disturbed \/ \E o \in Run \ {r} : pc[o] # "off")
  /\ UNCHANGED <<todo, queue, active, done, blocked, saved, used>>

\* A message with nothing to answer.
Ask ==
  /\ pending = <<>>
  /\ Enter("chat", "reason", None)
  /\ UNCHANGED <<service, granted, started, waived>>

\* Any message but an approval denies the oldest request, or finds that it has
\* timed out, and starts no agent; a control command beside the chat does too.
Deny(r) ==
  /\ pending # <<>>
  /\ pending' = Tail(pending)
  /\ waived' = waived \cup Calls(Head(pending))
  /\ Enter(r, "cleanup", None)
  /\ UNCHANGED <<tokens, granted, started>>

\* Then the denials of the session file lose their marks.
CleanUp(r) ==
  /\ pc[r] = "cleanup"
  /\ saved' = [results |-> saved.results \cup saved.denials, denials |-> {}]
  /\ pc' = [pc EXCEPT ![r] = "off"]
  /\ memory' = [memory EXCEPT ![r] = Empty]
  /\ UNCHANGED <<service, agent, used, history>>

CanApprove == pending # <<>> /\ granted[Head(pending).call] < MaxApprove

\* "approve" comes as a message, /approve as a command.
Approve(r) ==
  /\ CanApprove
  /\ ResolveApproved
  /\ Enter(r, "reason", Head(pending))
  /\ UNCHANGED <<started, waived>>

\* /approve with nothing pending goes to the command itself, which looks again.
ApproveNothing ==
  /\ pending = <<>>
  /\ Enter("command", "command", None)
  /\ UNCHANGED <<service, granted, started, waived>>

RunDaemonApprove(r) ==
  /\ pc[r] = "command"
  /\ \/ CanApprove /\ ResolveApproved
     \/ pending = <<>> /\ UNCHANGED <<service, granted>>
  /\ pc' = [pc EXCEPT ![r] = "off"]
  /\ memory' = [memory EXCEPT ![r] = Empty]
  /\ UNCHANGED <<agent, saved, used, started, waived, disturbed>>
-----------------------------------------------------------------------------
(* _reasoning                                                              *)

\* Mutation of Unanswered: every queued call is replayed.
Everything(r) == DOMAIN done[r]

\* _filter_pending_replay_queue: the places of the calls to replay.
Unanswered(r) == {i \in DOMAIN done[r] : done[r][i] \notin memory[r].results}

Says(r, calls) ==
  /\ pc[r] = "reason"
  /\ todo' = [todo EXCEPT ![r] = calls]
  /\ pc' = [pc EXCEPT ![r] = "act"]

Replay(r, c, rest) ==
  /\ Says(r, <<c>>)
  /\ queue' = [queue EXCEPT ![r] = rest]
  /\ active' = [active EXCEPT ![r] = TRUE]
  /\ UNCHANGED <<service, blocked, memory, saved, used, history>>

ReplayNext(r) ==
  /\ Unanswered(r) # {}
  /\ \E left \in Kept(done[r], Unanswered(r)) : Replay(r, Head(left), Tail(left))
  /\ done' = [done EXCEPT ![r] = <<>>]
  /\ UNCHANGED forced

\* Neither is there a call to replay next.
Replayed(r) == pc[r] = "reason" /\ Unanswered(r) = {}

ReplayForced(r) ==
  /\ Replayed(r)
  /\ forced[r] # None
  /\ Replay(r, forced[r].call, forced[r].rest)
  /\ forced' = [forced EXCEPT ![r] = None]
  /\ done' = [done EXCEPT ![r] = <<>>]

\* The messages of the language model: calls that it has not made before.
Messages ==
  {m \in UNION {[1..n -> Call \ used] : n \in 1..MaxSiblings} : IsInjective(m)}

Think(r) ==
  /\ Replayed(r) /\ forced[r] = None
  /\ ~blocked[r]
  /\ \E calls \in Messages : Says(r, calls) /\ used' = used \cup ToSet(calls)
  /\ done' = [done EXCEPT ![r] = <<>>]
  /\ UNCHANGED <<service, forced, queue, active, blocked, memory, saved, history>>

\* The session file is overwritten with the memory m; the agent is gone.
End(r, m) ==
  /\ saved' = m
  /\ pc' = [pc EXCEPT ![r] = "off"]
  /\ forced' = [forced EXCEPT ![r] = None]
  /\ todo' = [todo EXCEPT ![r] = <<>>]
  /\ queue' = [queue EXCEPT ![r] = None]
  /\ active' = [active EXCEPT ![r] = FALSE]
  /\ done' = [done EXCEPT ![r] = <<>>]
  /\ blocked' = [blocked EXCEPT ![r] = FALSE]
  /\ memory' = [memory EXCEPT ![r] = Empty]
  /\ UNCHANGED <<service, used, granted, started, waived>>

\* The answer, or the message that waits for the approval, ends the run.
Finish(r) ==
  /\ Replayed(r) /\ forced[r] = None
  /\ End(r, memory[r])
  /\ UNCHANGED disturbed

WithResult(m, c) == [m EXCEPT !.results = @ \cup {c}]

\* The run is cancelled, and a tool that runs may have left its result; or it has
\* reached max_iters, and with it drops what is left to replay.
Stop(r) ==
  /\ pc[r] \in {"reason", "act", "exec"}
  /\ \/ End(r, memory[r])
     \/ pc[r] = "exec" /\ End(r, WithResult(memory[r], Head(todo[r])))
  /\ disturbed' = TRUE
-----------------------------------------------------------------------------
(* _acting, on one tool call after the other                               *)

\* What is left of a replay.
Queued(r) == IF queue[r] # None THEN queue[r] ELSE <<>>

\* The loop over the calls of a message goes on, or back to _reasoning.
Acted(r) ==
  /\ todo' = [todo EXCEPT ![r] = Tail(@)]
  /\ pc' = [pc EXCEPT ![r] = IF Len(todo[r]) = 1 THEN "reason" ELSE "act"]

\* _decide_guard_action lets the head of todo pass: it is approved, and the
\* marked messages are deleted, or there is nothing to find in it. A guard that
\* raises lets the call pass like one that finds nothing.
Execute(r) ==
  LET c == Head(todo[r]) IN
  /\ pc[r] = "act"
  /\ c \in Risky => Approved(c)
  /\ tokens' = Consumed(c)
  /\ memory' = IF Approved(c) THEN [memory EXCEPT ![r].denials = {}] ELSE memory
  /\ pc' = [pc EXCEPT ![r] = "exec"]
  /\ started' = [started EXCEPT ![c] = @ + 1]
  /\ UNCHANGED <<pending, agent, saved, used, granted, waived, disturbed>>

\* Its result: a replayed call hands over to _reason_about_replay_done.
Result(r) ==
  /\ pc[r] = "exec"
  /\ memory' = [memory EXCEPT ![r] = WithResult(@, Head(todo[r]))]
  /\ blocked' = [blocked EXCEPT ![r] = FALSE]
  /\ done' = [done EXCEPT ![r] = IF active[r] THEN Queued(r) ELSE @]
  /\ active' = [active EXCEPT ![r] = FALSE]
  /\ Acted(r)
  /\ UNCHANGED <<service, forced, queue, saved, used, history>>

\* Mutation of Rest: a replay that is asked about forgets its queue.
RestOfMessage(r) == Tail(todo[r])

\* The calls to replay after the head of todo: what is left of a replay, or
\* the siblings that follow it in its message.
Rest(r) == IF queue[r] # None THEN queue[r] ELSE Tail(todo[r])

\* _acting_with_approval: the call is denied and recorded.
Request(r) ==
  LET c == Head(todo[r]) IN
  /\ pc[r] = "act"
  /\ c \in Risky /\ ~Approved(c)
  /\ CreatePending([call |-> c, rest |-> Rest(r)], {c} \cup ToSet(Queued(r)), Consumed(c))
  /\ queue' = [queue EXCEPT ![r] = None]
  /\ blocked' = [blocked EXCEPT ![r] = TRUE]
  /\ memory' = [memory EXCEPT ![r].denials = @ \cup {c}]
  /\ Acted(r)
  /\ UNCHANGED <<forced, active, done, saved, used, granted, started, disturbed>>
-----------------------------------------------------------------------------
Next ==
  \/ Ask \/ ApproveNothing
  \/ \E r \in Run :
       \/ Deny(r) \/ Approve(r) \/ RunDaemonApprove(r) \/ CleanUp(r)
       \/ ReplayNext(r) \/ ReplayForced(r) \/ Think(r) \/ Finish(r) \/ Stop(r)
       \/ Execute(r) \/ Result(r) \/ Request(r)

Spec == Init /\ [][Next]_vars
-----------------------------------------------------------------------------
(* Properties                                                              *)

Queue == {<<>>} \cup UNION {[1..n -> Call] : n \in 1..MaxSiblings}

\* Every record has its shape: a call waits in one request only, though a replay
\* asks for it again (cancel_stale_pending_for_tool_call); a run acts exactly when
\* it has calls to act on, and an idle run keeps no agent.
TypeOK ==
  /\ \A i \in DOMAIN pending : pending[i].call \in Call /\ pending[i].rest \in Queue
  /\ \A i, j \in DOMAIN pending : pending[i].call = pending[j].call => i = j
  /\ ToSet(tokens) \subseteq Call
  /\ pc \in [Run -> Steps]
  /\ \A r \in Run :
       /\ todo[r] \in Queue
       /\ todo[r] # <<>> <=> pc[r] \in {"act", "exec"}
       /\ queue[r] = None \/ queue[r] \in Queue
       /\ done[r] \in Queue
       /\ pc[r] = "off" => /\ forced[r] = None /\ queue[r] = None /\ done[r] = <<>>
                          /\ ~active[r] /\ ~blocked[r] /\ memory[r] = Empty
       /\ memory[r] \in Memory
  /\ saved \in Memory
  /\ used \subseteq Call /\ waived \subseteq used

\* The first, the second and each further time of the calls in S, where f counts.
Times(f, S) == UNION {{<<d, n>> : n \in 1..f[d]} : d \in S}

Same(c) == {d \in Call : SameCall(c, d)}

\* An approval is good for one execution: whatever the runs do at once and
\* wherever they are stopped, a call that a guardian finds risky has not been
\* executed more often than it, or one with the same input, was approved
\* (consume_approval).
ApprovedOnce ==
  \A same \in {Same(c) : c \in Guarded \cap Risky} :
    Cardinality(Times(started, same)) <= Cardinality(Times(granted, same))

\* When runs follow one another, no call is executed twice, though a call may
\* be in its message, in several remaining queues and in a request of its own;
\* and the user is not asked again for a call of the guarded scope that was
\* approved, since the approval is there when the replay acts
\* (_filter_pending_replay_queue, consume_approval, _gc_completed_locked).
RunsOnce ==
  ~disturbed =>
    /\ \A c \in Call : started[c] <= 1
    /\ \A c \in Guarded : granted[c] > 0 => c \notin Asked

\* When runs follow one another, no call of the language model is forgotten:
\* between runs it has a result in the session, or waits in a request or behind
\* one, or was denied or has expired with the request it waited in. Most results
\* are those of executions. The others are refusals: when another request is
\* denied, _cleanup_denied_session_memory takes the mark off every denial, and
\* _filter_pending_replay_queue then drops a call that nobody denied.
NoneLost ==
  ~disturbed /\ (\A r \in Run : pc[r] = "off") =>
    \A c \in used : \/ c \in saved.results
                    \/ c \in waived
                    \/ \E p \in ToSet(pending) : c \in Calls(p)

\* A replay leaves out the calls that already have results (the comment of
\* _filter_pending_replay_queue): a call that was executed and has its result in
\* the memory of an agent is not executed again.
ResultsNotReplayed ==
  [][\A c \in Call :
       started'[c] > started[c] /\ started[c] > 0 =>
         \A r \in Run : c \notin memory[r].results]_vars
=============================================================================
