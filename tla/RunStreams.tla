----------------------------- MODULE RunStreams -----------------------------
(***************************************************************************)
(* What TaskTracker promises its callers, with no queues, no lock and no   *)
(* asyncio tasks.  A run of a chat publishes a log of events; every        *)
(* connection that joins a run while it is live reads that log from its    *)
(* first event, in order and without a gap, at its own pace; it is told    *)
(* "end of stream" only after the run is over and only after it has read   *)
(* the whole log; and a chat has at most one live run.                     *)
(***************************************************************************)
EXTENDS Sequences, Naturals

CONSTANTS
  Key,         \* chat ids: a run is started and found under one of these
  Run,         \* identities of runs
  Conn,        \* connections (subscribers); each one joins at most once
  Event,       \* server-sent events a run may publish
  ErrorEvent,  \* the event that reports a failed run
  NoRun, NoKey

VARIABLES
  phase,   \* phase[r]: "unused", "live" or "over"
  chat,    \* chat[r]: the chat id of a run, NoKey before it starts
  log,     \* log[r]: the events run r has published
  sub,     \* sub[c]: the run connection c reads, NoRun before it joins
  mode,    \* mode[c]: "new", "open", "eof" or "left"
  seen     \* seen[c]: the events connection c has read

vars == <<phase, chat, log, sub, mode, seen>>

Init ==
  /\ phase = [r \in Run |-> "unused"]
  /\ chat  = [r \in Run |-> NoKey]
  /\ log   = [r \in Run |-> <<>>]
  /\ sub   = [c \in Conn |-> NoRun]
  /\ mode  = [c \in Conn |-> "new"]
  /\ seen  = [c \in Conn |-> <<>>]

Join(c, r) ==
  /\ mode[c] = "new"
  /\ mode' = [mode EXCEPT ![c] = "open"]
  /\ sub'  = [sub EXCEPT ![c] = r]
  /\ UNCHANGED seen

\* The first connection of a run starts it, if its chat has no live run.
Start(c, k, r) ==
  /\ phase[r] = "unused"
  /\ \A q \in Run : chat[q] = k => phase[q] # "live"
  /\ phase' = [phase EXCEPT ![r] = "live"]
  /\ chat'  = [chat EXCEPT ![r] = k]
  /\ Join(c, r)
  /\ UNCHANGED log

Attach(c, r) ==
  /\ phase[r] = "live"
  /\ Join(c, r)
  /\ UNCHANGED <<phase, chat, log>>

Publish(r, e) ==
  /\ phase[r] = "live"
  /\ log' = [log EXCEPT ![r] = Append(@, e)]
  /\ UNCHANGED <<phase, chat, sub, mode, seen>>

\* A run ends once, with or without a last event that reports its failure.
End(r) ==
  /\ phase[r] = "live"
  /\ phase' = [phase EXCEPT ![r] = "over"]
  /\ \/ UNCHANGED log
     \/ log' = [log EXCEPT ![r] = Append(@, ErrorEvent)]
  /\ UNCHANGED <<chat, sub, mode, seen>>

ReadNext(c) ==
  /\ mode[c] = "open"
  /\ Len(seen[c]) < Len(log[sub[c]])
  /\ seen' = [seen EXCEPT ![c] = Append(@, log[sub[c]][Len(@) + 1])]
  /\ UNCHANGED <<phase, chat, log, sub, mode>>

ReadEnd(c) ==
  /\ mode[c] = "open"
  /\ phase[sub[c]] = "over"
  /\ seen[c] = log[sub[c]]
  /\ mode' = [mode EXCEPT ![c] = "eof"]
  /\ UNCHANGED <<phase, chat, log, sub, seen>>

Leave(c) ==
  /\ mode[c] = "open"
  /\ mode' = [mode EXCEPT ![c] = "left"]
  /\ UNCHANGED <<phase, chat, log, sub, seen>>

Next ==
  \/ \E c \in Conn, k \in Key, r \in Run : Start(c, k, r)
  \/ \E c \in Conn, r \in Run : Attach(c, r)
  \/ \E r \in Run, e \in Event : Publish(r, e)
  \/ \E r \in Run : End(r)
  \/ \E c \in Conn : ReadNext(c) \/ ReadEnd(c) \/ Leave(c)

Spec == Init /\ [][Next]_vars
=============================================================================
