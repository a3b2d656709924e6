--------------------------- MODULE ModelDownload ---------------------------
(***************************************************************************)
(* The download of a local model (copaw/local_models): the controller,     *)
(* whose start and cancel run in the thread of the event loop, a worker    *)
(* process for each download, and a monitor thread that polls the worker,  *)
(* promotes what it fetched and reports.  The progress is one object for   *)
(* all downloads, and a download may start while the monitor of an earlier *)
(* one, whose worker is dead, has not finished.                            *)
(*                                                                         *)
(* Threads interleave at every lock, queue and directory operation, and a  *)
(* directory is removed or copied file by file, which may fail partway;    *)
(* byte counts and speeds are left out.  All downloads are of one model,   *)
(* so they share the directory it is installed in.                         *)
(***************************************************************************)
EXTENDS Naturals, FiniteSets

CONSTANTS
  NDownloads, \* bound: downloads started
  Cancelled,  \* bound: the downloads that somebody may cancel
  None

ASSUME DownloadAssumption == NDownloads \in Nat
ASSUME NoneAssumption == None \notin Nat

Download == 1 .. NDownloads

VARIABLES
  process,  \* process[d]: the worker; "closed" when its resources are released
  message,  \* message[d]: the result in its queue
  staging,  \* staging[d]: its directory; "torn" while it is being deleted
  monitor,  \* monitor[d]: the step of its monitor thread
  outcome,  \* outcome[d]: the result that its monitor is to report
  task,     \* _task of the controller
  status,   \* the status in the shared progress
  canceller,\* the step of cancel
  victim,   \* the download it cancels
  final,    \* the download whose model is installed
  whole,    \* whether all its files are there
  died,     \* history, died[d]: an exception ended its monitor
  late,     \* history: cancel went on before the monitor had ended
  overlap,  \* history: a download started beside the monitor of another
  broken    \* history: what is installed is being removed, or its removal or
            \*   installation stopped partway

workers == <<process, message>>
files == <<staging, final, whole>>
histories == <<died, late, overlap, broken>>
vars == <<process, message, staging, monitor, outcome, task, status,
          canceller, victim, final, whole, died, late, overlap, broken>>

Alive(d) == process[d] \in {"running", "exiting"}
\* is_active, which raises between the closing of a process and the clearing of the
\* task.
Active == task # None /\ Alive(task)
Started(d) == process[d] # "none"
\* The thread of the event loop is free.
LoopFree == canceller = "idle"
Watched(d) == monitor[d] \notin {"none", "gone"}
-----------------------------------------------------------------------------
(* The controller                                                          *)

\* start_download: refused while the worker of the task is alive, or closed, since
\* is_alive raises then.
Start(d) ==
  /\ LoopFree
  /\ ~Started(d) /\ \A e \in Download : e < d => Started(e)
  /\ task # None => process[task] = "dead"
  /\ process' = [process EXCEPT ![d] = "running"]
  /\ monitor' = [monitor EXCEPT ![d] = "poll"]
  /\ task' = d
  /\ status' = "downloading"
  /\ overlap' = (overlap \/ \E e \in Download : Watched(e))
  /\ UNCHANGED <<message, outcome, canceller, victim, died, late, broken>>
  /\ UNCHANGED files

\* Mutation of CancelBegin: whether there is a task is not asked.
CancelBeginAnyway ==
  /\ LoopFree
  /\ status' = "canceling"
  /\ canceller' = "kill" /\ victim' = task
  /\ UNCHANGED <<monitor, outcome, task>>
  /\ UNCHANGED workers /\ UNCHANGED files /\ UNCHANGED histories

\* cancel: the request, under the lock.
CancelBegin ==
  /\ LoopFree
  /\ Active /\ task \in Cancelled
  /\ status' = "canceling"
  /\ canceller' = "kill" /\ victim' = task
  /\ UNCHANGED <<monitor, outcome, task>>
  /\ UNCHANGED workers /\ UNCHANGED files /\ UNCHANGED histories

\* shutdown_process_sync; it raises if the monitor has closed the process.
CancelKill ==
  /\ canceller = "kill"
  /\ IF process[victim] = "closed"
       THEN canceller' = "idle" /\ victim' = None /\ UNCHANGED process
       ELSE /\ canceller' = "join" /\ UNCHANGED victim
            /\ process' = [process EXCEPT ![victim] = "dead"]
  /\ UNCHANGED <<message, monitor, outcome, task, status>>
  /\ UNCHANGED files /\ UNCHANGED histories

\* The monitor has ended, or the two seconds of the join have passed.
CancelJoin ==
  /\ canceller = "join"
  /\ canceller' = "cleanup"
  /\ late' = (late \/ Watched(victim))
  /\ UNCHANGED <<victim, monitor, outcome, task, status, died, overlap, broken>>
  /\ UNCHANGED workers /\ UNCHANGED files

\* The directory goes file by file.
CancelCleanup ==
  /\ canceller = "cleanup"
  /\ canceller' = "finish"
  /\ staging' = [staging EXCEPT ![victim] = IF @ = "absent" THEN @ ELSE "torn"]
  /\ UNCHANGED <<victim, monitor, outcome, task, status, final, whole>>
  /\ UNCHANGED workers /\ UNCHANGED histories

\* The queue is closed, and the process if it has ended (a download that is no
\* longer the task may stay unclosed, which nobody sees).
Release(d) ==
  /\ process' = [process EXCEPT ![d] = IF Alive(d) THEN @ ELSE "closed"]
  /\ message' = [message EXCEPT ![d] = "none"]

\* The task is cleared if it is still this download.
Unset(d) == task' = IF task = d THEN None ELSE task

\* _finish_task of cancel; the thread that would ask the task in between is busy here.
CancelFinish ==
  /\ canceller = "finish"
  /\ canceller' = "idle" /\ victim' = None
  /\ staging' = [staging EXCEPT ![victim] = "absent"]
  /\ Release(victim)
  /\ Unset(victim)
  /\ status' = "cancelled"
  /\ UNCHANGED <<monitor, outcome, final, whole>> /\ UNCHANGED histories
-----------------------------------------------------------------------------
(* The worker                                                              *)

Fetch(d) ==
  /\ process[d] = "running" /\ staging[d] = "absent"
  /\ staging' = [staging EXCEPT ![d] = "partial"]
  /\ UNCHANGED <<monitor, outcome, task, status, canceller, victim, final, whole>>
  /\ UNCHANGED workers /\ UNCHANGED histories

\* The worker has it all, fails, or crashes; it exits after it has put the result.
Put(d) ==
  /\ process[d] = "running"
  /\ \/ /\ staging[d] = "partial"
        /\ staging' = [staging EXCEPT ![d] = "whole"]
        /\ message' = [message EXCEPT ![d] = "completed"]
        /\ process' = [process EXCEPT ![d] = "exiting"]
     \/ /\ message' = [message EXCEPT ![d] = "failed"]
        /\ process' = [process EXCEPT ![d] = "exiting"]
        /\ UNCHANGED staging
     \/ /\ process' = [process EXCEPT ![d] = "dead"]
        /\ UNCHANGED <<message, staging>>
  /\ UNCHANGED <<monitor, outcome, task, status, canceller, victim, final, whole>> /\ UNCHANGED histories

Exit(d) ==
  /\ process[d] = "exiting"
  /\ process' = [process EXCEPT ![d] = "dead"]
  /\ UNCHANGED <<message, monitor, outcome, task, status, canceller, victim>>
  /\ UNCHANGED files /\ UNCHANGED histories
-----------------------------------------------------------------------------
(* The monitor                                                             *)

MonitorTo(d, step) == monitor' = [monitor EXCEPT ![d] = step]
MonitorAlone == /\ UNCHANGED <<task, canceller, victim>>
                /\ UNCHANGED files

\* The top of the loop: a cancelled download, whichever it is, ends the
\* monitor.  The probe adds up the sizes of files that the worker is renaming,
\* and may raise.
Poll(d) ==
  /\ monitor[d] = "poll"
  /\ \/ status \in {"canceling", "cancelled"} /\ MonitorTo(d, "gone") /\ UNCHANGED died
     \/ status \notin {"canceling", "cancelled"} /\ MonitorTo(d, "read") /\ UNCHANGED died
     \/ /\ status \notin {"canceling", "cancelled"} /\ staging[d] \in {"partial", "torn"}
        /\ MonitorTo(d, "gone") /\ died' = [died EXCEPT ![d] = TRUE]
  /\ UNCHANGED <<outcome, status, late, overlap, broken>> /\ UNCHANGED workers
  /\ MonitorAlone

\* Mutation of TakeResult: every result is promoted.
TakeAnyResult(d) ==
  /\ message[d] # "none"
  /\ message' = [message EXCEPT ![d] = "none"]
  /\ outcome' = [outcome EXCEPT ![d] = message[d]]
  /\ MonitorTo(d, "promote")

\* _handle_message: only a completed download is promoted.
TakeResult(d) ==
  /\ message[d] # "none"
  /\ message' = [message EXCEPT ![d] = "none"]
  /\ outcome' = [outcome EXCEPT ![d] = message[d]]
  /\ MonitorTo(d, IF message[d] = "completed" THEN "promote" ELSE "finish")

Read(d) ==
  /\ monitor[d] = "read"
  /\ \/ TakeResult(d)
     \/ message[d] = "none" /\ MonitorTo(d, "alive") /\ UNCHANGED <<message, outcome>>
  /\ UNCHANGED <<process, status>> /\ UNCHANGED histories /\ MonitorAlone

\* Mutation of TestAlive: the worker is taken to be alive.
TestAliveNot(d) ==
  /\ monitor[d] = "alive"
  /\ MonitorTo(d, "poll")
  /\ UNCHANGED <<outcome, status>> /\ UNCHANGED workers /\ UNCHANGED histories /\ MonitorAlone

\* is_alive raises if cancel has closed the process.
TestAlive(d) ==
  /\ monitor[d] = "alive"
  /\ \/ process[d] = "closed" /\ MonitorTo(d, "gone")
     \/ Alive(d) /\ MonitorTo(d, "poll")
     \/ process[d] = "dead" /\ MonitorTo(d, "read again")
  /\ UNCHANGED <<outcome, status>> /\ UNCHANGED workers /\ UNCHANGED histories /\ MonitorAlone

\* The worker may have put its result just before it ended.
ReadAgain(d) ==
  /\ monitor[d] = "read again"
  /\ \/ TakeResult(d)
     \/ /\ message[d] = "none"
        /\ outcome' = [outcome EXCEPT ![d] = "failed"]
        /\ MonitorTo(d, "finish")
        /\ UNCHANGED message
  /\ UNCHANGED <<process, status>> /\ UNCHANGED histories /\ MonitorAlone

\* finalize raises, which makes the download a failed one.
Fails(d) ==
  /\ outcome' = [outcome EXCEPT ![d] = "failed"]
  /\ MonitorTo(d, "finish")

\* _promote_staging_directory: what is installed must go first, file by file.
Promote(d) ==
  /\ monitor[d] = "promote"
  /\ MonitorTo(d, IF final = None THEN "move" ELSE "remove")
  /\ broken' = (final # None)
  /\ UNCHANGED <<outcome, status, died, late, overlap>> /\ UNCHANGED workers /\ MonitorAlone

\* rmtree has removed it all, or has raised: a file cannot be removed, or another
\* monitor was faster.  What then is installed may have lost files.
Remove(d) ==
  /\ monitor[d] = "remove"
  /\ \/ /\ final # None /\ final' = None /\ whole' = FALSE /\ broken' = FALSE
        /\ MonitorTo(d, "move")
        /\ UNCHANGED outcome
     \/ /\ Fails(d)
        /\ whole' \in {whole, FALSE}
        /\ broken' = (final # None)
        /\ UNCHANGED final
  /\ UNCHANGED <<task, status, canceller, victim, staging, died, late, overlap>>
  /\ UNCHANGED workers

\* The directory moves, or is copied where it cannot be renamed, which may fail
\* partway or after the last file; into what another monitor has installed
\* meanwhile it moves as a subdirectory.
Move(d) ==
  /\ monitor[d] = "move"
  /\ \/ /\ staging[d] # "absent" /\ MonitorTo(d, "size")
        /\ staging' = [staging EXCEPT ![d] = "absent"]
        /\ IF final = None THEN final' = d /\ whole' = (staging[d] = "whole")
                           ELSE UNCHANGED <<final, whole>>
        /\ UNCHANGED <<outcome, broken>>
     \/ /\ staging[d] # "absent" /\ final = None /\ Fails(d)
        /\ final' = d /\ whole' \in {staging[d] = "whole", FALSE}
        /\ broken' = TRUE
        /\ UNCHANGED staging
     \/ Fails(d) /\ UNCHANGED broken /\ UNCHANGED files
  /\ UNCHANGED <<task, status, canceller, victim, died, late, overlap>>
  /\ UNCHANGED workers

\* The sizes of the installed files are added up, which raises when files go away.
Size(d) ==
  /\ monitor[d] = "size"
  /\ \/ MonitorTo(d, "finish") /\ UNCHANGED outcome
     \/ Fails(d) /\ (final # d \/ broken \/ ~whole)
  /\ UNCHANGED status /\ UNCHANGED workers /\ UNCHANGED histories /\ MonitorAlone

\* Mutation of Finish: the directory of a failed download is kept.
FinishKeeps(d) ==
  /\ monitor[d] = "finish"
  /\ Release(d)
  /\ MonitorTo(d, "clear")
  /\ UNCHANGED <<outcome, status>> /\ UNCHANGED histories /\ MonitorAlone

\* _finish_task of the monitor: clean-up and release.
Finish(d) ==
  /\ monitor[d] = "finish"
  /\ staging' = IF outcome[d] = "completed" THEN staging ELSE [staging EXCEPT ![d] = "absent"]
  /\ Release(d)
  /\ MonitorTo(d, "clear")
  /\ UNCHANGED <<outcome, task, status, canceller, victim, final, whole>>
  /\ UNCHANGED histories

\* Mutation of Clear: whatever the task is, it is over.
ClearAny(d) ==
  /\ monitor[d] = "clear"
  /\ task' = None
  /\ MonitorTo(d, "report")
  /\ UNCHANGED <<outcome, status, canceller, victim>>
  /\ UNCHANGED workers /\ UNCHANGED files /\ UNCHANGED histories

Clear(d) ==
  /\ monitor[d] = "clear"
  /\ Unset(d)
  /\ MonitorTo(d, "report")
  /\ UNCHANGED <<outcome, status, canceller, victim>>
  /\ UNCHANGED workers /\ UNCHANGED files /\ UNCHANGED histories

\* apply_result, into whatever the progress is by now.
Report(d) ==
  /\ monitor[d] = "report"
  /\ status' = outcome[d]
  /\ MonitorTo(d, "gone")
  /\ outcome' = [outcome EXCEPT ![d] = "none"]
  /\ UNCHANGED workers /\ UNCHANGED histories /\ MonitorAlone

Init ==
  /\ process = [d \in Download |-> "none"]
  /\ message = [d \in Download |-> "none"]
  /\ staging = [d \in Download |-> "absent"]
  /\ monitor = [d \in Download |-> "none"]
  /\ outcome = [d \in Download |-> "none"]
  /\ task = None
  /\ status = "idle"
  /\ canceller = "idle" /\ victim = None
  /\ final = None /\ whole = FALSE
  /\ died = [d \in Download |-> FALSE]
  /\ late = FALSE
  /\ overlap = FALSE
  /\ broken = FALSE

Cancel == CancelBegin \/ CancelKill \/ CancelJoin \/ CancelCleanup \/ CancelFinish
Worker(d) == Fetch(d) \/ Put(d) \/ Exit(d)
Monitor(d) ==
  \/ Poll(d) \/ Read(d) \/ TestAlive(d) \/ ReadAgain(d)
  \/ Promote(d) \/ Remove(d) \/ Move(d) \/ Size(d) \/ Finish(d) \/ Clear(d) \/ Report(d)

Next == Cancel \/ \E d \in Download : Start(d) \/ Worker(d) \/ Monitor(d)

\* Threads are scheduled, and a worker ends: the clients of both hubs have
\* timeouts.
Fairness ==
  /\ WF_vars(CancelKill) /\ WF_vars(CancelJoin) /\ WF_vars(CancelCleanup) /\ WF_vars(CancelFinish)
  /\ \A d \in Download : WF_vars(Worker(d)) /\ WF_vars(Put(d) \/ Exit(d)) /\ WF_vars(Monitor(d))

Spec == Init /\ [][Next]_vars /\ Fairness
-----------------------------------------------------------------------------
TypeOK ==
  /\ process \in [Download -> {"none", "running", "exiting", "dead", "closed"}]
  /\ message \in [Download -> {"none", "completed", "failed"}]
  /\ staging \in [Download -> {"absent", "partial", "whole", "torn"}]
  /\ monitor \in [Download -> {"none", "poll", "read", "alive", "read again", "promote",
                               "remove", "move", "size", "finish", "clear", "report",
                               "gone"}]
  /\ outcome \in [Download -> {"none", "completed", "failed"}]
  /\ task \in Download \cup {None}
  /\ status \in {"idle", "downloading", "canceling", "completed", "failed", "cancelled"}
  /\ canceller \in {"idle", "kill", "join", "cleanup", "finish"}
  /\ victim \in Download \cup {None}
  /\ canceller # "idle" => victim # None
  /\ final \in Download \cup {None} /\ whole \in BOOLEAN
  /\ died \in [Download -> BOOLEAN]
  /\ late \in BOOLEAN /\ overlap \in BOOLEAN /\ broken \in BOOLEAN

\* At most one worker fetches at a time, whichever monitors finish late: none of
\* them clears the task of a later download (download_manager.py:384, :571-580).
OneWorker ==
  \A d, e \in Download : process[d] = "running" /\ process[e] = "running" => d = e

\* What is installed is the whole of some download: no failed, cancelled or
\* half-deleted one is promoted, by however many monitors.  Excepted are a cancel that
\* did not wait for the monitor, and a model whose own removal or installation goes on
\* or stopped partway (model_manager.py:265-271, :565-579, download_manager.py:430-439).
InstalledIsWhole == ~late /\ final # None => whole \/ broken

AtRest ==
  /\ LoopFree
  /\ \A d \in Download : ~Alive(d) /\ ~Watched(d)

Last == CHOOSE d \in Download : Started(d) /\ \A e \in Download : Started(e) => e <= d

\* When everything has ended, the progress says what became of the last download:
\* when it was completed, all of it is installed; when it failed, nothing of it is,
\* unless its installation stopped partway; and no other directory is left than that of
\* a monitor that died.  A cancelled download may be installed nevertheless.  Excepted
\* are downloads that overlapped and a cancel that did not wait
\* (download_manager.py:417-439, :449-537).
ReportIsTrue ==
  AtRest /\ status # "idle" /\ ~late /\ ~overlap =>
    /\ status = "completed" => final = Last /\ whole
    /\ status = "failed" => final # Last \/ broken
    /\ status \in {"downloading", "canceling"} => status = "downloading" /\ died[Last]
    /\ \A d \in Download : staging[d] # "absent" => died[d]

\* Every download, and every cancel, comes to an end that is reported, unless an
\* exception ends a monitor (download_manager.py:417-439, :455-490).
EveryDownloadEnds ==
  status \in {"downloading", "canceling"} ~>
    \/ status \in {"completed", "failed", "cancelled"}
    \/ status = "downloading" /\ \E d \in Download : died[d]
=============================================================================
