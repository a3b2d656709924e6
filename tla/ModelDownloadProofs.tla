-------------------------- MODULE ModelDownloadProofs --------------------------
(***************************************************************************)
(* Types, one worker at a time, only whole models installed, and a final   *)
(* status that is true of the last download, for any number of downloads.  *)
(***************************************************************************)
EXTENDS ModelDownload, TLAPS

\* A running worker is the task's.  A result, and whoever finishes a download, is
\* there only when its worker no longer runs, and a monitor that has the result has
\* taken it from the queue: hence a release, which may clear the
\* task, never leaves a running worker behind.
WorkerInv ==
  /\ \A d \in Download :
       /\ process[d] = "running" => task = d
       /\ message[d] # "none" => process[d] \notin {"none", "running"}
       /\ monitor[d] \in {"read again", "promote", "remove", "move", "size", "finish",
                         "clear", "report"}
            => process[d] \notin {"none", "running"}
       /\ monitor[d] \in {"promote", "remove", "move", "size", "finish", "clear", "report"}
            => message[d] = "none" /\ outcome[d] # "none"
  /\ canceller \in {"join", "cleanup", "finish"}
       => process[victim] \notin {"none", "running"}

\* As long as every cancel has waited for its monitor: the directory of a result
\* that is still to be promoted is whole, and a cancel that deletes a directory
\* has no monitor beside it.
WholeInv ==
  ~late =>
    /\ \A d \in Download :
         /\ message[d] = "completed" /\ Watched(d) => staging[d] = "whole"
         /\ monitor[d] \in {"promote", "remove", "move"} => staging[d] = "whole"
    /\ canceller \in {"cleanup", "finish"} => ~Watched(victim)
    /\ final # None => whole \/ broken

IsLast(d) == Started(d) /\ \A e \in Download : Started(e) => e <= d

\* Downloads start one after another; the task, and the download that is being
\* cancelled, are the last one.
LastInv ==
  /\ status # "idle" => \E d \in Download : IsLast(d)
  /\ \A d \in Download : Started(d) => status # "idle"
  /\ \A d, e \in Download : d <= e /\ Started(e) => Started(d)
  /\ \A d \in Download : task = d \/ victim = d => IsLast(d)
  /\ canceller = "idle" => victim = None
  /\ \A d \in Download :
       ~Started(d) => monitor[d] = "none" /\ staging[d] = "absent" /\ final # d

\* A download that has a directory, or may yet get one, and is neither watched
\* nor given up is being cancelled.
LeftToCancel(d) ==
  victim = d /\ canceller # "idle" /\ (canceller = "kill" => process[d] # "closed")

\* What the monitor of d has done so far, as long as nothing overlapped.
MonitorDid(d) ==
  /\ Watched(d) => IsLast(d)
  /\ Watched(d) /\ process[d] = "closed" => monitor[d] \in {"clear", "report"}
  /\ final = d => monitor[d] \in {"size", "finish", "clear", "report", "gone"}
  /\ monitor[d] \in {"promote", "remove", "move", "size"} => outcome[d] = "completed"
  /\ monitor[d] \in {"finish", "clear", "report"} /\ outcome[d] = "failed"
       => final # d \/ broken
  /\ monitor[d] \in {"size", "finish", "clear", "report"} /\ outcome[d] = "completed"
       => final = d /\ whole /\ ~broken /\ staging[d] = "absent"
  /\ monitor[d] \in {"clear", "report"} => staging[d] = "absent"
  /\ monitor[d] = "move" => final = None /\ ~broken
  /\ (staging[d] # "absent" \/ process[d] = "running") /\ ~died[d]
       => Watched(d) \/ LeftToCancel(d)

\* What the status says of the last download d.
StatusSays(d) ==
  /\ status = "completed" => monitor[d] = "gone" /\ final = d /\ whole
  /\ status = "failed" => monitor[d] = "gone" /\ (final # d \/ broken)
  /\ status = "cancelled" => ~Watched(d)
  /\ status = "downloading" => Watched(d) \/ died[d]
  /\ status = "canceling" => canceller # "idle" \/ monitor[d] \in {"clear", "report"}
  /\ canceller = "kill" /\ process[d] = "closed"
       => monitor[d] \in {"clear", "report"} \/ status \in {"completed", "failed"}

ReportInv ==
  ~late /\ ~overlap =>
    \A d \in Download : MonitorDid(d) /\ (IsLast(d) => StatusSays(d))

DInv == TypeOK /\ WorkerInv /\ WholeInv /\ LastInv /\ ReportInv
-----------------------------------------------------------------------------
LEMMA DownloadsAreNumbers == None \notin Download /\ Download \subseteq Nat
BY NoneAssumption, DownloadAssumption DEF Download

LEMMA DInvInit == Init => DInv
<1> SUFFICES ASSUME Init PROVE DInv
  OBVIOUS
<1>1. TypeOK
  BY DownloadsAreNumbers DEF Init, TypeOK
<1>2. WorkerInv
  BY DEF Init, WorkerInv
<1>3. WholeInv
  BY DEF Init, WholeInv, Watched
<1>4. LastInv
  BY DownloadsAreNumbers DEF Init, LastInv, Started
<1>5. ReportInv
  <2>1. \A d \in Download : ~Started(d) /\ ~Watched(d)
    BY DEF Init, Started, Watched
  <2>2. \A d \in Download : MonitorDid(d)
    BY <2>1, DownloadsAreNumbers DEF Init, MonitorDid
  <2> QED
    BY <2>1, <2>2 DEF ReportInv, IsLast
<1> QED
  BY <1>1, <1>2, <1>3, <1>4, <1>5 DEF DInv

\* Where a monitor may be.
Steps == {"none", "poll", "read", "alive", "read again", "promote", "remove", "move",
          "size", "finish", "clear", "report", "gone"}

\* What a step of a monitor, or a release, leaves is of its type.
LEMMA StepTypes ==
  ASSUME TypeOK, NEW d \in Download
  PROVE  /\ \A step \in Steps :
              monitor' = [monitor EXCEPT ![d] = step] => monitor' \in [Download -> Steps]
         /\ \A result \in {"none", "completed", "failed"} :
              outcome' = [outcome EXCEPT ![d] = result]
                => outcome' \in [Download -> {"none", "completed", "failed"}]
         /\ Release(d)
              => /\ process' \in [Download -> {"none", "running", "exiting", "dead", "closed"}]
                 /\ message' \in [Download -> {"none", "completed", "failed"}]
<1>1. monitor \in [Download -> Steps]
  BY DEF TypeOK, Steps
<1>2. \A step \in Steps :
        monitor' = [monitor EXCEPT ![d] = step] => monitor' \in [Download -> Steps]
  BY <1>1
<1>3. \A result \in {"none", "completed", "failed"} :
        outcome' = [outcome EXCEPT ![d] = result]
          => outcome' \in [Download -> {"none", "completed", "failed"}]
  BY DEF TypeOK
<1>4. Release(d)
        => /\ process' \in [Download -> {"none", "running", "exiting", "dead", "closed"}]
           /\ message' \in [Download -> {"none", "completed", "failed"}]
  <2> SUFFICES ASSUME Release(d)
               PROVE  /\ process' \in [Download -> {"none", "running", "exiting", "dead", "closed"}]
                      /\ message' \in [Download -> {"none", "completed", "failed"}]
    OBVIOUS
  <2>1. message' \in [Download -> {"none", "completed", "failed"}]
    BY DEF TypeOK, Release
  <2>2. PICK end : end \in {process[d], "closed"} /\ process' = [process EXCEPT ![d] = end]
    BY Zenon DEF Release
  <2>3. /\ process \in [Download -> {"none", "running", "exiting", "dead", "closed"}]
        /\ end \in {"none", "running", "exiting", "dead", "closed"}
    BY <2>2 DEF TypeOK
  <2>4. process' \in [Download -> {"none", "running", "exiting", "dead", "closed"}]
    BY <2>2, <2>3
  <2> QED
    BY <2>1, <2>4
<1> QED
  BY <1>2, <1>3, <1>4

LEMMA TypeStep == TypeOK /\ WorkerInv /\ [Next]_vars => TypeOK'
<1> SUFFICES ASSUME TypeOK, WorkerInv, [Next]_vars PROVE TypeOK'
  OBVIOUS
<1> USE DownloadsAreNumbers DEF TypeOK, Alive, workers, files, histories
\* A step of a monitor: the rest is as it was.
<1>0. ASSUME NEW d \in Download, NEW step \in Steps, MonitorTo(d, step),
             \/ UNCHANGED outcome
             \/ \E result \in {"none", "completed", "failed"} :
                  outcome' = [outcome EXCEPT ![d] = result]
      PROVE  /\ monitor' \in [Download -> {"none", "poll", "read", "alive", "read again",
                                           "promote", "remove", "move", "size", "finish",
                                           "clear", "report", "gone"}]
             /\ outcome' \in [Download -> {"none", "completed", "failed"}]
  BY <1>0, StepTypes DEF MonitorTo, Steps
<1>1. ASSUME NEW d \in Download, Start(d) PROVE TypeOK'
  BY <1>1 DEF Start, LoopFree, Active, Started
<1>2. CASE CancelBegin
  BY <1>2 DEF CancelBegin, LoopFree, Active
<1>3. CASE CancelKill
  BY <1>3 DEF CancelKill
<1>4. CASE CancelJoin
  BY <1>4 DEF CancelJoin
<1>5. CASE CancelCleanup
  BY <1>5 DEF CancelCleanup
<1>6. CASE CancelFinish
  BY <1>6 DEF CancelFinish, Release, Unset
<1>7. ASSUME NEW d \in Download, Fetch(d) PROVE TypeOK'
  BY <1>7, ZenonT(60) DEF Fetch
<1>8. ASSUME NEW d \in Download, Put(d) PROVE TypeOK'
  <2>1. process' \in [Download -> {"none", "running", "exiting", "dead", "closed"}]
    <3>1. PICK end \in {"exiting", "dead"} : process' = [process EXCEPT ![d] = end]
      BY <1>8, Zenon DEF Put
    <3> QED
      BY <3>1
  <2>2. message' \in [Download -> {"none", "completed", "failed"}]
    <3>1. \/ UNCHANGED message
          \/ \E result \in {"completed", "failed"} : message' = [message EXCEPT ![d] = result]
      BY <1>8, Zenon DEF Put
    <3> QED
      BY <3>1
  <2>3. staging' \in [Download -> {"absent", "partial", "whole", "torn"}]
    <3>1. UNCHANGED staging \/ staging' = [staging EXCEPT ![d] = "whole"]
      BY <1>8, Zenon DEF Put
    <3> QED
      BY <3>1
  <2>4. /\ UNCHANGED <<monitor, outcome, task, status, canceller, victim, final, whole>>
        /\ UNCHANGED histories
    BY <1>8 DEF Put
  <2> QED
    BY <2>1, <2>2, <2>3, <2>4, ZenonT(60)
<1>9. ASSUME NEW d \in Download, Exit(d) PROVE TypeOK'
  BY <1>9, ZenonT(60) DEF Exit
<1>10. ASSUME NEW d \in Download, Poll(d) PROVE TypeOK'
  <2>1. UNCHANGED outcome /\ \E step \in {"gone", "read"} : MonitorTo(d, step)
    BY <1>10, Zenon DEF Poll
  <2>2. /\ monitor' \in [Download -> {"none", "poll", "read", "alive", "read again", "promote",
                                     "remove", "move", "size", "finish", "clear", "report",
                                     "gone"}]
        /\ outcome' \in [Download -> {"none", "completed", "failed"}]
    BY <1>0, <2>1 DEF Steps
  <2>3. died' \in [Download -> BOOLEAN]
    <3>1. UNCHANGED died \/ died' = [died EXCEPT ![d] = TRUE]
      BY <1>10, Zenon DEF Poll
    <3> QED
      BY <3>1
  <2>4. UNCHANGED <<process, message, status, late, overlap, broken, task, canceller, victim,
                    staging, final, whole>>
    BY <1>10 DEF Poll, MonitorAlone
  <2> QED
    BY <2>2, <2>3, <2>4, ZenonT(60)
<1>11. ASSUME NEW d \in Download, Read(d) PROVE TypeOK'
  <2>1. /\ \E step \in {"promote", "finish", "alive"} : MonitorTo(d, step)
        /\ UNCHANGED outcome \/ outcome' = [outcome EXCEPT ![d] = message[d]]
        /\ UNCHANGED message \/ message' = [message EXCEPT ![d] = "none"]
    BY <1>11, Zenon DEF Read, TakeResult
  <2>2. /\ monitor' \in [Download -> {"none", "poll", "read", "alive", "read again", "promote",
                                     "remove", "move", "size", "finish", "clear", "report",
                                     "gone"}]
        /\ outcome' \in [Download -> {"none", "completed", "failed"}]
    <3>1. message[d] \in {"none", "completed", "failed"}
      OBVIOUS
    <3>2. \/ UNCHANGED outcome
          \/ \E result \in {"none", "completed", "failed"} :
               outcome' = [outcome EXCEPT ![d] = result]
      BY <2>1, <3>1, Zenon
    <3>3. \E step \in Steps : MonitorTo(d, step)
      BY <2>1 DEF Steps
    <3> QED
      BY <1>0, <3>2, <3>3
  <2>3. message' \in [Download -> {"none", "completed", "failed"}]
    BY <2>1
  <2>4. UNCHANGED <<process, status, died, late, overlap, broken, task, canceller, victim,
                    staging, final, whole>>
    BY <1>11 DEF Read, MonitorAlone
  <2> QED
    BY <2>2, <2>3, <2>4, ZenonT(60)
<1>12. ASSUME NEW d \in Download, TestAlive(d) PROVE TypeOK'
  <2>1. PICK step \in {"gone", "poll", "read again"} : monitor' = [monitor EXCEPT ![d] = step]
    BY <1>12, Zenon DEF TestAlive, MonitorTo
  <2>2. monitor' \in [Download -> {"none", "poll", "read", "alive", "read again", "promote",
                                  "remove", "move", "size", "finish", "clear", "report",
                                  "gone"}]
    BY <2>1
  <2> QED
    BY <1>12, <2>2, ZenonT(60) DEF TestAlive, MonitorAlone
<1>13. ASSUME NEW d \in Download, ReadAgain(d) PROVE TypeOK'
  <2>1. /\ \E step \in {"promote", "finish"} : MonitorTo(d, step)
        /\ \/ outcome' = [outcome EXCEPT ![d] = message[d]]
           \/ outcome' = [outcome EXCEPT ![d] = "failed"]
        /\ UNCHANGED message \/ message' = [message EXCEPT ![d] = "none"]
    BY <1>13, Zenon DEF ReadAgain, TakeResult
  <2>2. /\ monitor' \in [Download -> {"none", "poll", "read", "alive", "read again", "promote",
                                     "remove", "move", "size", "finish", "clear", "report",
                                     "gone"}]
        /\ outcome' \in [Download -> {"none", "completed", "failed"}]
    <3>1. message[d] \in {"none", "completed", "failed"}
      OBVIOUS
    <3>2. \/ UNCHANGED outcome
          \/ \E result \in {"none", "completed", "failed"} :
               outcome' = [outcome EXCEPT ![d] = result]
      BY <2>1, <3>1, Zenon
    <3>3. \E step \in Steps : MonitorTo(d, step)
      BY <2>1 DEF Steps
    <3> QED
      BY <1>0, <3>2, <3>3
  <2>3. message' \in [Download -> {"none", "completed", "failed"}]
    BY <2>1
  <2>4. UNCHANGED <<process, status, died, late, overlap, broken, task, canceller, victim,
                    staging, final, whole>>
    BY <1>13 DEF ReadAgain, MonitorAlone
  <2> QED
    BY <2>2, <2>3, <2>4, ZenonT(60)
<1>14. ASSUME NEW d \in Download, Promote(d) PROVE TypeOK'
  <2>1. UNCHANGED outcome /\ \E step \in {"move", "remove"} : MonitorTo(d, step)
    BY <1>14, Zenon DEF Promote
  <2>2. /\ monitor' \in [Download -> {"none", "poll", "read", "alive", "read again", "promote",
                                     "remove", "move", "size", "finish", "clear", "report",
                                     "gone"}]
        /\ outcome' \in [Download -> {"none", "completed", "failed"}]
    BY <1>0, <2>1 DEF Steps
  <2>3. broken' \in BOOLEAN
    BY <1>14, Zenon DEF Promote
  <2>4. UNCHANGED <<process, message, status, died, late, overlap, task, canceller, victim,
                    staging, final, whole>>
    BY <1>14 DEF Promote, MonitorAlone
  <2> QED
    BY <2>2, <2>3, <2>4, ZenonT(60)
<1>15. ASSUME NEW d \in Download, Move(d) PROVE TypeOK'
  <2>1. /\ \E step \in {"size", "finish"} : MonitorTo(d, step)
        /\ UNCHANGED outcome \/ outcome' = [outcome EXCEPT ![d] = "failed"]
    BY <1>15, Zenon DEF Move, Fails
  <2>2. /\ monitor' \in [Download -> {"none", "poll", "read", "alive", "read again", "promote",
                                     "remove", "move", "size", "finish", "clear", "report",
                                     "gone"}]
        /\ outcome' \in [Download -> {"none", "completed", "failed"}]
    BY <1>0, <2>1 DEF Steps
  <2>3. staging' \in [Download -> {"absent", "partial", "whole", "torn"}]
    <3>1. UNCHANGED staging \/ staging' = [staging EXCEPT ![d] = "absent"]
      BY <1>15, Zenon DEF Move
    <3> QED
      BY <3>1
  <2>4. final' \in Download \cup {None} /\ whole' \in BOOLEAN /\ broken' \in BOOLEAN
    BY <1>15, Zenon DEF Move
  <2>5. UNCHANGED <<process, message, task, status, canceller, victim, died, late, overlap>>
    BY <1>15 DEF Move
  <2> QED
    BY <2>2, <2>3, <2>4, <2>5, ZenonT(60)
<1>16. ASSUME NEW d \in Download, Finish(d) PROVE TypeOK'
  <2>1. UNCHANGED outcome /\ MonitorTo(d, "clear") /\ Release(d)
    BY <1>16 DEF Finish
  <2>2. /\ monitor' \in [Download -> {"none", "poll", "read", "alive", "read again", "promote",
                                     "remove", "move", "size", "finish", "clear", "report",
                                     "gone"}]
        /\ outcome' \in [Download -> {"none", "completed", "failed"}]
    BY <1>0, <2>1 DEF Steps
  <2>3. staging' \in [Download -> {"absent", "partial", "whole", "torn"}]
    <3>1. UNCHANGED staging \/ staging' = [staging EXCEPT ![d] = "absent"]
      BY <1>16, Zenon DEF Finish
    <3> QED
      BY <3>1
  <2>4. /\ process' \in [Download -> {"none", "running", "exiting", "dead", "closed"}]
        /\ message' \in [Download -> {"none", "completed", "failed"}]
    BY <2>1, StepTypes
  <2>5. UNCHANGED <<task, status, canceller, victim, final, whole, died, late, overlap, broken>>
    BY <1>16 DEF Finish
  <2> QED
    BY <2>2, <2>3, <2>4, <2>5, ZenonT(60)
<1>19. ASSUME NEW d \in Download, Remove(d) PROVE TypeOK'
  <2>1. /\ \E step \in {"move", "finish"} : MonitorTo(d, step)
        /\ UNCHANGED outcome \/ outcome' = [outcome EXCEPT ![d] = "failed"]
    BY <1>19, Zenon DEF Remove, Fails
  <2>2. /\ monitor' \in [Download -> {"none", "poll", "read", "alive", "read again", "promote",
                                     "remove", "move", "size", "finish", "clear", "report",
                                     "gone"}]
        /\ outcome' \in [Download -> {"none", "completed", "failed"}]
    BY <1>0, <2>1 DEF Steps
  <2>3. final' \in Download \cup {None} /\ whole' \in BOOLEAN /\ broken' \in BOOLEAN
    BY <1>19, Zenon DEF Remove
  <2>4. UNCHANGED <<process, message, task, status, canceller, victim, staging, died, late,
                    overlap>>
    BY <1>19 DEF Remove
  <2> QED
    BY <2>2, <2>3, <2>4, ZenonT(60)
<1>20. ASSUME NEW d \in Download, Size(d) PROVE TypeOK'
  <2>1. /\ MonitorTo(d, "finish")
        /\ UNCHANGED outcome \/ outcome' = [outcome EXCEPT ![d] = "failed"]
    BY <1>20, Zenon DEF Size, Fails
  <2>2. /\ monitor' \in [Download -> {"none", "poll", "read", "alive", "read again", "promote",
                                     "remove", "move", "size", "finish", "clear", "report",
                                     "gone"}]
        /\ outcome' \in [Download -> {"none", "completed", "failed"}]
    BY <1>0, <2>1 DEF Steps
  <2>3. UNCHANGED <<process, message, status, died, late, overlap, broken, task, canceller,
                    victim, staging, final, whole>>
    BY <1>20 DEF Size, MonitorAlone
  <2> QED
    BY <2>2, <2>3, ZenonT(60)
<1>21. ASSUME NEW d \in Download, Clear(d) PROVE TypeOK'
  <2>1. UNCHANGED outcome /\ MonitorTo(d, "report")
    BY <1>21 DEF Clear
  <2>2. /\ monitor' \in [Download -> {"none", "poll", "read", "alive", "read again", "promote",
                                     "remove", "move", "size", "finish", "clear", "report",
                                     "gone"}]
        /\ outcome' \in [Download -> {"none", "completed", "failed"}]
    BY <1>0, <2>1 DEF Steps
  <2>3. task' \in Download \cup {None}
    BY <1>21, Zenon DEF Clear, Unset
  <2>4. UNCHANGED <<process, message, status, died, late, overlap, broken, canceller, victim,
                    staging, final, whole>>
    BY <1>21 DEF Clear
  <2> QED
    BY <2>2, <2>3, <2>4, ZenonT(60)
<1>17. ASSUME NEW d \in Download, Report(d) PROVE TypeOK'
  <2>1. outcome[d] # "none"
    BY <1>17 DEF Report, WorkerInv
  <2> QED
    BY <1>17, <2>1 DEF Report, MonitorTo, MonitorAlone
<1>18. CASE UNCHANGED vars
  BY <1>18, ZenonT(60) DEF vars
<1> QED
  BY <1>1, <1>2, <1>3, <1>4, <1>5, <1>6, <1>7, <1>8, <1>9, <1>10, <1>11, <1>12, <1>13, <1>14, <1>15, <1>16, <1>17, <1>18,
     <1>19, <1>20, <1>21 DEF Next, Cancel, Worker, Monitor

LEMMA WorkerStep == TypeOK /\ WorkerInv /\ [Next]_vars => WorkerInv'
<1> SUFFICES ASSUME TypeOK, WorkerInv, [Next]_vars PROVE WorkerInv'
  OBVIOUS
<1> USE DownloadsAreNumbers DEF TypeOK, WorkerInv, Alive, workers, files, histories
\* A monitor that has its result goes on; at most the outcome becomes a failure.
<1>0. ASSUME NEW d \in Download, NEW step, monitor' = [monitor EXCEPT ![d] = step],
             monitor[d] \in {"promote", "remove", "move", "size"},
             UNCHANGED outcome \/ outcome' = [outcome EXCEPT ![d] = "failed"],
             UNCHANGED <<process, message, task, canceller, victim>>
      PROVE  WorkerInv'
  <2>1. process[d] \notin {"none", "running"} /\ message[d] = "none" /\ outcome[d] # "none"
    BY <1>0
  <2>2. \A e \in Download : outcome[e] # "none" => outcome'[e] # "none"
    <3>1. UNCHANGED outcome \/ outcome' = [outcome EXCEPT ![d] = "failed"]
      BY <1>0
    <3>2. CASE UNCHANGED outcome
      BY <3>2
    <3>3. CASE outcome' = [outcome EXCEPT ![d] = "failed"]
      <4>1. \A e \in Download : outcome'[e] = outcome[e] \/ outcome'[e] = "failed"
        BY <3>3
      <4> QED
        BY <4>1
    <3> QED
      BY <3>1, <3>2, <3>3
  <2>3. \A e \in Download : e # d => monitor'[e] = monitor[e]
    <3>1. monitor' = [monitor EXCEPT ![d] = step]
      BY <1>0
    <3> QED
      BY <3>1, Zenon
  <2>4. ASSUME NEW e \in Download
        PROVE  /\ process'[e] = "running" => task' = e
               /\ message'[e] # "none" => process'[e] \notin {"none", "running"}
               /\ monitor'[e] \in {"read again", "promote", "remove", "move", "size", "finish",
                                  "clear", "report"}
                    => process'[e] \notin {"none", "running"}
               /\ monitor'[e] \in {"promote", "remove", "move", "size", "finish", "clear",
                                  "report"}
                    => message'[e] = "none" /\ outcome'[e] # "none"
    <3>1. UNCHANGED <<process, message, task>>
      BY <1>0
    <3>2. CASE e = d
      BY <2>1, <2>2, <3>1, <3>2
    <3>3. CASE e # d
      BY <2>2, <2>3, <3>1, <3>3
    <3> QED
      BY <3>2, <3>3
  <2>5. canceller' \in {"join", "cleanup", "finish"}
          => process'[victim'] \notin {"none", "running"}
    <3>1. process' = process /\ canceller' = canceller /\ victim' = victim
      BY <1>0
    <3> QED
      BY <3>1
  <2> QED
    BY <2>4, <2>5
<1>1. ASSUME NEW d \in Download, Start(d) PROVE WorkerInv'
  <2>1. message[d] = "none" /\ canceller = "idle" /\ process[d] = "none"
    BY <1>1 DEF Start, LoopFree, Started
  <2>2. \A e \in Download : process[e] # "running"
    BY <1>1, ZenonT(60) DEF Start, Active
  <2>3. /\ process' = [process EXCEPT ![d] = "running"]
        /\ monitor' = [monitor EXCEPT ![d] = "poll"]
        /\ task' = d
        /\ message' = message /\ outcome' = outcome
        /\ canceller' = canceller
    BY <1>1 DEF Start
  <2> QED
    BY <2>1, <2>2, <2>3
<1>2. CASE CancelBegin
  BY <1>2 DEF CancelBegin, LoopFree, Active
<1>3. CASE CancelKill
  BY <1>3, ZenonT(60) DEF CancelKill
<1>4. CASE CancelJoin
  BY <1>4 DEF CancelJoin
<1>5. CASE CancelCleanup
  BY <1>5 DEF CancelCleanup
<1>6. CASE CancelFinish
  BY <1>6 DEF CancelFinish, Release, Unset
<1>7. ASSUME NEW d \in Download, Fetch(d) PROVE WorkerInv'
  BY <1>7 DEF Fetch
<1>8. ASSUME NEW d \in Download, Put(d) PROVE WorkerInv'
  BY <1>8, ZenonT(60) DEF Put
<1>9. ASSUME NEW d \in Download, Exit(d) PROVE WorkerInv'
  BY <1>9 DEF Exit
<1>10. ASSUME NEW d \in Download, Poll(d) PROVE WorkerInv'
  <2>1. PICK step \in {"gone", "read"} : monitor' = [monitor EXCEPT ![d] = step]
    BY <1>10, Zenon DEF Poll, MonitorTo
  <2>2. UNCHANGED <<process, message, outcome, task, canceller, victim>>
    BY <1>10 DEF Poll, MonitorAlone
  <2> QED
    BY <2>1, <2>2
<1>11. ASSUME NEW d \in Download, Read(d) PROVE WorkerInv'
  <2>1. CASE TakeResult(d)
    <3>1. message[d] # "none" /\ process[d] \notin {"none", "running"}
      BY <2>1 DEF TakeResult
    <3>2. PICK step \in {"promote", "finish"} : monitor' = [monitor EXCEPT ![d] = step]
      BY <2>1, Zenon DEF TakeResult, MonitorTo
    <3>3. /\ process' = process /\ task' = task /\ canceller' = canceller /\ victim' = victim
          /\ message' = [message EXCEPT ![d] = "none"]
          /\ outcome' = [outcome EXCEPT ![d] = message[d]]
      BY <1>11, <2>1 DEF Read, TakeResult, MonitorAlone
    <3> QED
      BY <3>1, <3>2, <3>3
  <2>2. CASE ~TakeResult(d)
    BY <1>11, <2>2, ZenonT(60) DEF Read, MonitorTo, MonitorAlone
  <2> QED
    BY <2>1, <2>2
<1>12. ASSUME NEW d \in Download, TestAlive(d) PROVE WorkerInv'
  BY <1>12, ZenonT(60) DEF TestAlive, MonitorTo, MonitorAlone
<1>13. ASSUME NEW d \in Download, ReadAgain(d) PROVE WorkerInv'
  <2>1. CASE TakeResult(d)
    <3>1. message[d] # "none" /\ process[d] \notin {"none", "running"}
      BY <2>1 DEF TakeResult
    <3>2. PICK step \in {"promote", "finish"} : monitor' = [monitor EXCEPT ![d] = step]
      BY <2>1, Zenon DEF TakeResult, MonitorTo
    <3>3. /\ process' = process /\ task' = task /\ canceller' = canceller /\ victim' = victim
          /\ message' = [message EXCEPT ![d] = "none"]
          /\ outcome' = [outcome EXCEPT ![d] = message[d]]
      BY <1>13, <2>1 DEF ReadAgain, TakeResult, MonitorAlone
    <3> QED
      BY <3>1, <3>2, <3>3
  <2>2. CASE ~TakeResult(d)
    BY <1>13, <2>2, ZenonT(60) DEF ReadAgain, MonitorTo, MonitorAlone
  <2> QED
    BY <2>1, <2>2
<1>14. ASSUME NEW d \in Download, Promote(d) PROVE WorkerInv'
  BY <1>14 DEF Promote, MonitorTo, MonitorAlone
<1>15. ASSUME NEW d \in Download, Move(d) PROVE WorkerInv'
  <2>1. PICK step \in {"size", "finish"} : monitor' = [monitor EXCEPT ![d] = step]
    BY <1>15, Zenon DEF Move, Fails, MonitorTo
  <2>2. /\ monitor[d] = "move"
        /\ UNCHANGED outcome \/ outcome' = [outcome EXCEPT ![d] = "failed"]
    BY <1>15, Zenon DEF Move, Fails
  <2>3. UNCHANGED <<process, message, task, canceller, victim>>
    BY <1>15 DEF Move
  <2> QED
    BY <1>0, <2>1, <2>2, <2>3
<1>16. ASSUME NEW d \in Download, Finish(d) PROVE WorkerInv'
  BY <1>16, ZenonT(60) DEF Finish, Release, MonitorTo
<1>19. ASSUME NEW d \in Download, Remove(d) PROVE WorkerInv'
  <2>1. PICK step \in {"move", "finish"} : monitor' = [monitor EXCEPT ![d] = step]
    BY <1>19, Zenon DEF Remove, Fails, MonitorTo
  <2>2. /\ monitor[d] = "remove"
        /\ UNCHANGED outcome \/ outcome' = [outcome EXCEPT ![d] = "failed"]
    BY <1>19, Zenon DEF Remove, Fails
  <2>3. UNCHANGED <<process, message, task, canceller, victim>>
    BY <1>19 DEF Remove
  <2> QED
    BY <1>0, <2>1, <2>2, <2>3
<1>20. ASSUME NEW d \in Download, Size(d) PROVE WorkerInv'
  <2>1. /\ monitor[d] = "size" /\ monitor' = [monitor EXCEPT ![d] = "finish"]
        /\ UNCHANGED outcome \/ outcome' = [outcome EXCEPT ![d] = "failed"]
    BY <1>20, Zenon DEF Size, Fails, MonitorTo
  <2>2. UNCHANGED <<process, message, task, canceller, victim>>
    BY <1>20 DEF Size, MonitorAlone
  <2> QED
    BY <1>0, <2>1, <2>2
<1>21. ASSUME NEW d \in Download, Clear(d) PROVE WorkerInv'
  BY <1>21 DEF Clear, Unset, MonitorTo
<1>17. ASSUME NEW d \in Download, Report(d) PROVE WorkerInv'
  BY <1>17 DEF Report, MonitorTo, MonitorAlone
<1>18. CASE UNCHANGED vars
  BY <1>18 DEF vars
<1> QED
  BY <1>1, <1>2, <1>3, <1>4, <1>5, <1>6, <1>7, <1>8, <1>9, <1>10, <1>11, <1>12, <1>13, <1>14, <1>15, <1>16, <1>17, <1>18,
     <1>19, <1>20, <1>21 DEF Next, Cancel, Worker, Monitor

LEMMA WholeStep == TypeOK /\ WorkerInv /\ WholeInv /\ [Next]_vars => WholeInv'
<1> SUFFICES ASSUME TypeOK, WorkerInv, WholeInv, [Next]_vars PROVE WholeInv'
  OBVIOUS
<1> USE DownloadsAreNumbers DEF TypeOK, WorkerInv, WholeInv, Watched, Alive, workers, files, histories
<1>1. ASSUME NEW d \in Download, Start(d) PROVE WholeInv'
  <2>1. message[d] = "none" /\ canceller = "idle" /\ process[d] = "none"
    BY <1>1 DEF Start, LoopFree, Started
  <2>2. message' = message /\ staging' = staging /\ final' = final /\ whole' = whole
        /\ broken' = broken /\ canceller' = canceller /\ late' = late
        /\ monitor' = [monitor EXCEPT ![d] = "poll"]
    BY <1>1 DEF Start
  <2> QED
    BY <2>1, <2>2
<1>2. CASE CancelBegin
  BY <1>2 DEF CancelBegin, LoopFree, Active
<1>3. CASE CancelKill
  BY <1>3 DEF CancelKill
<1>4. CASE CancelJoin
  BY <1>4 DEF CancelJoin
<1>5. CASE CancelCleanup
  BY <1>5 DEF CancelCleanup
<1>6. CASE CancelFinish
  BY <1>6 DEF CancelFinish, Release, Unset
<1>7. ASSUME NEW d \in Download, Fetch(d) PROVE WholeInv'
  BY <1>7 DEF Fetch
<1>8. ASSUME NEW d \in Download, Put(d) PROVE WholeInv'
  <2>1. process[d] = "running" /\ monitor[d] \notin {"promote", "remove", "move"}
    BY <1>8 DEF Put
  <2>2. /\ monitor' = monitor /\ canceller' = canceller /\ victim' = victim
        /\ final' = final /\ whole' = whole /\ broken' = broken
        /\ late' = late
    BY <1>8 DEF Put
  <2>3. CASE /\ staging' = [staging EXCEPT ![d] = "whole"]
             /\ message' = [message EXCEPT ![d] = "completed"]
    BY <2>1, <2>2, <2>3
  <2>4. CASE /\ staging' = staging
             /\ message' = [message EXCEPT ![d] = "failed"]
    BY <2>1, <2>2, <2>4
  <2>5. CASE staging' = staging /\ message' = message
    BY <2>1, <2>2, <2>5
  <2> QED
    BY <1>8, <2>3, <2>4, <2>5 DEF Put
<1>9. ASSUME NEW d \in Download, Exit(d) PROVE WholeInv'
  BY <1>9 DEF Exit
<1>10. ASSUME NEW d \in Download, Poll(d) PROVE WholeInv'
  <2>1. PICK step \in {"gone", "read"} : monitor' = [monitor EXCEPT ![d] = step]
    BY <1>10, Zenon DEF Poll, MonitorTo
  <2>2. /\ message' = message /\ staging' = staging /\ late' = late
        /\ canceller' = canceller /\ victim' = victim /\ final' = final /\ whole' = whole
          /\ broken' = broken
    BY <1>10 DEF Poll, MonitorAlone
  <2>3. Watched(d)
    BY <1>10 DEF Poll
  <2> QED
    BY <2>1, <2>2, <2>3
<1>11. ASSUME NEW d \in Download, Read(d) PROVE WholeInv'
  <2>1. CASE TakeResult(d)
    BY <1>11, <2>1, ZenonT(60) DEF Read, TakeResult, MonitorTo, MonitorAlone
  <2>2. CASE ~TakeResult(d)
    BY <1>11, <2>2, ZenonT(60) DEF Read, MonitorTo, MonitorAlone
  <2> QED
    BY <2>1, <2>2
<1>12. ASSUME NEW d \in Download, TestAlive(d) PROVE WholeInv'
  <2>1. PICK step \in {"gone", "poll", "read again"} : monitor' = [monitor EXCEPT ![d] = step]
    BY <1>12, Zenon DEF TestAlive, MonitorTo
  <2>2. /\ message' = message /\ staging' = staging /\ late' = late
        /\ canceller' = canceller /\ victim' = victim /\ final' = final /\ whole' = whole
          /\ broken' = broken
    BY <1>12 DEF TestAlive, MonitorAlone
  <2>3. Watched(d)
    BY <1>12 DEF TestAlive
  <2> QED
    BY <2>1, <2>2, <2>3
<1>13. ASSUME NEW d \in Download, ReadAgain(d) PROVE WholeInv'
  <2>1. CASE TakeResult(d)
    BY <1>13, <2>1, ZenonT(60) DEF ReadAgain, TakeResult, MonitorTo, MonitorAlone
  <2>2. CASE ~TakeResult(d)
    <3>1. /\ monitor[d] = "read again" /\ monitor' = [monitor EXCEPT ![d] = "finish"]
          /\ message' = message
      BY <1>13, <2>2 DEF ReadAgain, MonitorTo
    <3>2. /\ staging' = staging /\ late' = late
          /\ canceller' = canceller /\ victim' = victim /\ final' = final /\ whole' = whole
          /\ broken' = broken
      BY <1>13 DEF ReadAgain, MonitorAlone
    <3> QED
      BY <3>1, <3>2
  <2> QED
    BY <2>1, <2>2
<1>14. ASSUME NEW d \in Download, Promote(d) PROVE WholeInv'
  <2>1. PICK step \in {"move", "remove"} : monitor' = [monitor EXCEPT ![d] = step]
    BY <1>14, Zenon DEF Promote, MonitorTo
  <2>2. /\ monitor[d] = "promote" /\ broken' = (final # None)
        /\ message' = message /\ staging' = staging /\ late' = late
        /\ canceller' = canceller /\ victim' = victim /\ final' = final /\ whole' = whole
    BY <1>14 DEF Promote, MonitorAlone
  <2>3. \A e \in Download : Watched(e)' <=> Watched(e)
    BY <2>1, <2>2
  <2>4. ASSUME ~late, NEW e \in Download
        PROVE  /\ message'[e] = "completed" /\ Watched(e)' => staging'[e] = "whole"
               /\ monitor'[e] \in {"promote", "remove", "move"} => staging'[e] = "whole"
    <3>1. CASE e = d
      BY <2>2, <2>3, <2>4, <3>1
    <3>2. CASE e # d
      BY <2>1, <2>2, <2>3, <2>4, <3>2
    <3> QED
      BY <3>1, <3>2
  <2>5. canceller \in {"cleanup", "finish"} /\ ~Watched(victim) => ~Watched(victim)'
    BY <2>2, <2>3
  <2>6. ~late /\ final' # None => whole' \/ broken'
    BY <2>2
  <2> QED
    BY <2>2, <2>4, <2>5, <2>6, Zenon
<1>15. ASSUME NEW d \in Download, Move(d) PROVE WholeInv'
  <2>1. /\ monitor[d] = "move" /\ message[d] = "none" /\ (~late => staging[d] = "whole")
        /\ message' = message /\ late' = late /\ canceller' = canceller /\ victim' = victim
    BY <1>15 DEF Move
  <2>2. PICK step \in {"size", "finish"} : monitor' = [monitor EXCEPT ![d] = step]
    BY <1>15, Zenon DEF Move, Fails, MonitorTo
  <2>3. canceller \in {"cleanup", "finish"} /\ ~Watched(victim) => ~Watched(victim)'
    BY <2>1, <2>2
  <2>4. staging' = staging \/ staging' = [staging EXCEPT ![d] = "absent"]
    BY <1>15, Zenon DEF Move
  <2>5. ~late /\ final' # None => whole' \/ broken'
    BY <1>15, <2>1 DEF Move
  <2>6. ASSUME ~late, NEW e \in Download
        PROVE  /\ message'[e] = "completed" /\ Watched(e)' => staging'[e] = "whole"
               /\ monitor'[e] \in {"promote", "remove", "move"} => staging'[e] = "whole"
    <3>1. CASE e = d
      BY <2>1, <2>2, <3>1
    <3>2. CASE e # d
      <4>1. monitor'[e] = monitor[e] /\ message'[e] = message[e]
        BY <2>1, <2>2, <3>2
      <4>2. staging'[e] = staging[e]
        BY <2>4, <3>2
      <4>3. /\ message[e] = "completed" /\ Watched(e) => staging[e] = "whole"
            /\ monitor[e] \in {"promote", "remove", "move"} => staging[e] = "whole"
        BY <2>6
      <4> QED
        BY <4>1, <4>2, <4>3
    <3> QED
      BY <3>1, <3>2
  <2> QED
    BY <2>1, <2>3, <2>5, <2>6, Zenon
<1>19. ASSUME NEW d \in Download, Remove(d) PROVE WholeInv'
  <2>1. PICK step \in {"move", "finish"} : monitor' = [monitor EXCEPT ![d] = step]
    BY <1>19, Zenon DEF Remove, Fails, MonitorTo
  <2>2. /\ monitor[d] = "remove"
        /\ message' = message /\ staging' = staging /\ late' = late
        /\ canceller' = canceller /\ victim' = victim
    BY <1>19 DEF Remove
  <2>3. final' # None => broken'
    BY <1>19 DEF Remove
  <2> QED
    BY <2>1, <2>2, <2>3
<1>20. ASSUME NEW d \in Download, Size(d) PROVE WholeInv'
  <2>1. /\ monitor[d] = "size" /\ monitor' = [monitor EXCEPT ![d] = "finish"]
        /\ message' = message /\ late' = late
    BY <1>20 DEF Size, Fails, MonitorTo
  <2>2. /\ staging' = staging /\ canceller' = canceller /\ victim' = victim
        /\ final' = final /\ whole' = whole /\ broken' = broken
    BY <1>20 DEF Size, MonitorAlone
  <2> QED
    BY <2>1, <2>2
<1>21. ASSUME NEW d \in Download, Clear(d) PROVE WholeInv'
  BY <1>21, ZenonT(60) DEF Clear, MonitorTo
<1>16. ASSUME NEW d \in Download, Finish(d) PROVE WholeInv'
  BY <1>16, ZenonT(60) DEF Finish, Release, MonitorTo
<1>17. ASSUME NEW d \in Download, Report(d) PROVE WholeInv'
  BY <1>17, ZenonT(60) DEF Report, MonitorTo, MonitorAlone
<1>18. CASE UNCHANGED vars
  BY <1>18 DEF vars
<1> QED
  BY <1>1, <1>2, <1>3, <1>4, <1>5, <1>6, <1>7, <1>8, <1>9, <1>10, <1>11, <1>12, <1>13, <1>14, <1>15, <1>16, <1>17, <1>18,
     <1>19, <1>20, <1>21 DEF Next, Cancel, Worker, Monitor

SameLast == \A d \in Download : IsLast(d)' <=> IsLast(d)

\* A step that starts no download keeps the last one the last.
LEMMA LastKept ==
  ASSUME LastInv,
         \A d \in Download : Started(d)' <=> Started(d),
         status' = "idle" <=> status = "idle",
         \A d \in Download : task' = d \/ victim' = d => task = d \/ victim = d,
         canceller' = "idle" => victim' = None,
         \A d \in Download : ~Started(d) =>
           /\ monitor'[d] = monitor[d] /\ staging'[d] = staging[d]
           /\ final' = d => final = d
  PROVE  LastInv' /\ SameLast
<1>1. SameLast
  BY DEF SameLast, IsLast
<1>2. /\ status' # "idle" => \E d \in Download : IsLast(d)'
      /\ \A d \in Download : Started(d)' => status' # "idle"
  BY <1>1 DEF LastInv, SameLast
<1>3. \A d, e \in Download : d <= e /\ Started(e)' => Started(d)'
  BY DEF LastInv
<1>4. \A d \in Download : task' = d \/ victim' = d => IsLast(d)'
  BY <1>1 DEF LastInv, SameLast
<1>5. \A d \in Download :
        ~Started(d)' => monitor'[d] = "none" /\ staging'[d] = "absent" /\ final' # d
  BY DEF LastInv
<1> QED
  BY <1>1, <1>2, <1>3, <1>4, <1>5 DEF LastInv

LEMMA StartedLast ==
  ASSUME LastInv, NEW d \in Download, ~Started(d),
         \A e \in Download : e < d => Started(e),
         \A e \in Download : Started(e)' <=> Started(e) \/ e = d
  PROVE  /\ IsLast(d)'
         /\ \A e, f \in Download : e <= f /\ Started(f)' => Started(e)'
<1>1. ASSUME NEW e \in Download, Started(e)' PROVE e <= d
  <2>1. CASE e = d
    BY <2>1, DownloadsAreNumbers
  <2>2. CASE Started(e)
    <3>1. ~(d <= e)
      BY <2>2 DEF LastInv
    <3> QED
      BY <3>1, DownloadsAreNumbers
  <2> QED
    BY <1>1, <2>1, <2>2
<1>2. ASSUME NEW e \in Download, NEW f \in Download, e <= f, Started(f)' PROVE Started(e)'
  <2>1. CASE f = d
    <3>1. e < d \/ e = d
      BY <1>2, <2>1, DownloadsAreNumbers
    <3> QED
      BY <3>1
  <2>2. CASE Started(f)
    BY <1>2, <2>2 DEF LastInv
  <2> QED
    BY <1>2, <2>1, <2>2
<1> QED
  BY <1>1, <1>2 DEF IsLast

LEMMA LastStep ==
  TypeOK /\ WorkerInv /\ LastInv /\ [Next]_vars
    => LastInv' /\ (SameLast \/ \E d \in Download : Start(d))
<1> SUFFICES ASSUME TypeOK, WorkerInv, LastInv, [Next]_vars
             PROVE  LastInv' /\ (SameLast \/ \E d \in Download : Start(d))
  OBVIOUS
<1> USE DownloadsAreNumbers DEF TypeOK, workers, files, histories
<1>0. \A d \in Download : /\ monitor[d] # "none" => Started(d)
                          /\ task = d \/ victim = d => Started(d)
  BY DEF LastInv, IsLast
<1>1. ASSUME NEW d \in Download, Start(d) PROVE LastInv'
  <2>1. /\ \A e \in Download : Started(e)' <=> Started(e) \/ e = d
        /\ victim' = None /\ canceller' = "idle" /\ task' = d /\ status' # "idle"
    BY <1>1 DEF Start, LoopFree, Started, LastInv
  <2>2. ~Started(d) /\ \A e \in Download : e < d => Started(e)
    BY <1>1 DEF Start
  <2>3. /\ IsLast(d)'
        /\ \A e, f \in Download : e <= f /\ Started(f)' => Started(e)'
    BY <2>1, <2>2, StartedLast
  <2>4. \A e \in Download :
          ~Started(e)' => monitor'[e] = "none" /\ staging'[e] = "absent" /\ final' # e
    BY <1>1, <2>1, ZenonT(60) DEF Start, LastInv
  <2> QED
    BY <2>1, <2>3, <2>4, ZenonT(60) DEF LastInv
<1>2. ASSUME CancelBegin PROVE LastInv' /\ SameLast
  <2>1. task \in Download /\ status # "idle" /\ victim = None
    BY <1>0, <1>2 DEF CancelBegin, LoopFree, Active, LastInv
  <2> QED
    BY <1>2, <2>1, LastKept DEF CancelBegin, LoopFree, Started
<1>3. ASSUME CancelKill PROVE LastInv' /\ SameLast
  <2>1. victim \in Download /\ Started(victim)
    BY <1>0, <1>3 DEF CancelKill
  <2> QED
    BY <1>3, <2>1, LastKept, ZenonT(60) DEF CancelKill, Started
<1>4. ASSUME CancelJoin PROVE LastInv' /\ SameLast
  BY <1>4, LastKept DEF CancelJoin, Started
<1>5. ASSUME CancelCleanup PROVE LastInv' /\ SameLast
  BY <1>0, <1>5, LastKept DEF CancelCleanup, Started
<1>6. ASSUME CancelFinish PROVE LastInv' /\ SameLast
  <2>1. victim \in Download /\ Started(victim) /\ status # "idle"
    BY <1>0, <1>6 DEF CancelFinish, LastInv
  <2> QED
    BY <1>6, <2>1, LastKept DEF CancelFinish, Release, Unset, Started, Alive
<1>7. ASSUME NEW d \in Download, Fetch(d) PROVE LastInv' /\ SameLast
  BY <1>7, LastKept DEF Fetch, Started, LastInv
<1>8. ASSUME NEW d \in Download, Put(d) PROVE LastInv' /\ SameLast
  <2>1. process[d] = "running" /\ \E p \in {"exiting", "dead"} : process' = [process EXCEPT ![d] = p]
    BY <1>8, Zenon DEF Put
  <2>2. staging' = staging \/ staging' = [staging EXCEPT ![d] = "whole"]
    BY <1>8, Zenon DEF Put
  <2>3. UNCHANGED <<monitor, outcome, task, status, canceller, victim, final, whole>>
    BY <1>8 DEF Put
  <2> QED
    BY <2>1, <2>2, <2>3, LastKept DEF Started, LastInv
<1>9. ASSUME NEW d \in Download, Exit(d) PROVE LastInv' /\ SameLast
  BY <1>9, LastKept DEF Exit, Started, LastInv
<1>10. ASSUME NEW d \in Download, NEW step, monitor[d] # "none", MonitorTo(d, step),
              UNCHANGED process, MonitorAlone,
              status' = status \/ status' = outcome[d]
       PROVE  LastInv' /\ SameLast
  BY <1>0, <1>10, LastKept DEF MonitorTo, MonitorAlone, Started, LastInv
<1>11. ASSUME NEW d \in Download, Poll(d) PROVE LastInv' /\ SameLast
  <2>1. \E step : MonitorTo(d, step)
    BY <1>11, Zenon DEF Poll
  <2> QED
    BY <1>10, <1>11, <2>1 DEF Poll
<1>12. ASSUME NEW d \in Download, Read(d) PROVE LastInv' /\ SameLast
  <2>1. \E step : MonitorTo(d, step)
    BY <1>12, Zenon DEF Read, TakeResult
  <2> QED
    BY <1>10, <1>12, <2>1 DEF Read
<1>13. ASSUME NEW d \in Download, TestAlive(d) PROVE LastInv' /\ SameLast
  <2>1. \E step : MonitorTo(d, step)
    BY <1>13, Zenon DEF TestAlive
  <2> QED
    BY <1>10, <1>13, <2>1 DEF TestAlive
<1>14. ASSUME NEW d \in Download, ReadAgain(d) PROVE LastInv' /\ SameLast
  <2>1. \E step : MonitorTo(d, step)
    BY <1>14, Zenon DEF ReadAgain, TakeResult
  <2> QED
    BY <1>10, <1>14, <2>1 DEF ReadAgain
<1>15. ASSUME NEW d \in Download, Promote(d) PROVE LastInv' /\ SameLast
  <2>1. monitor[d] # "none" /\ \E step : MonitorTo(d, step)
    BY <1>15, Zenon DEF Promote
  <2> QED
    BY <1>10, <1>15, <2>1 DEF Promote
<1>16. ASSUME NEW d \in Download, Move(d) \/ Remove(d) PROVE LastInv' /\ SameLast
  <2>1. /\ monitor[d] # "none" /\ \E step : monitor' = [monitor EXCEPT ![d] = step]
        /\ staging' = staging \/ staging' = [staging EXCEPT ![d] = "absent"]
        /\ final' = final \/ final' = d \/ final' = None
    BY <1>16, Zenon DEF Move, Remove, Fails, MonitorTo
  <2>2. UNCHANGED <<task, status, canceller, victim>> /\ UNCHANGED workers
    BY <1>16 DEF Move, Remove
  <2>3. /\ Started(d) /\ \A e \in Download : Started(e)' <=> Started(e)
        /\ \A e \in Download : e # d => monitor'[e] = monitor[e] /\ staging'[e] = staging[e]
    BY <1>0, <2>1, <2>2 DEF Started
  <2>4. \A e \in Download : final' = e => final = e \/ e = d
    <3>1. \A e \in Download : e # None
      OBVIOUS
    <3> QED
      BY <2>1, <3>1, Zenon
  <2>5. \A e \in Download : ~Started(e) =>
          /\ monitor'[e] = monitor[e] /\ staging'[e] = staging[e]
          /\ final' = e => final = e
    BY <2>3, <2>4
  <2>6. canceller' = "idle" => victim' = None
    BY <2>2 DEF LastInv
  <2> QED
    BY <2>2, <2>3, <2>5, <2>6, LastKept
<1>17. ASSUME NEW d \in Download, Finish(d) PROVE LastInv' /\ SameLast
  <2>1. monitor[d] # "none" /\ Started(d)
    BY <1>0, <1>17 DEF Finish
  <2>2. staging' = staging \/ staging' = [staging EXCEPT ![d] = "absent"]
    BY <1>17, Zenon DEF Finish
  <2>3. /\ monitor' = [monitor EXCEPT ![d] = "clear"]
        /\ Release(d)
        /\ UNCHANGED <<outcome, task, status, canceller, victim, final, whole>>
    BY <1>17 DEF Finish, MonitorTo
  <2> QED
    BY <2>1, <2>2, <2>3, LastKept, ZenonT(60) DEF Release, Started, LastInv, Alive
<1>20. ASSUME NEW d \in Download, Size(d) PROVE LastInv' /\ SameLast
  <2>1. monitor[d] # "none" /\ \E step : MonitorTo(d, step)
    BY <1>20, Zenon DEF Size, Fails
  <2> QED
    BY <1>10, <1>20, <2>1 DEF Size
<1>21. ASSUME NEW d \in Download, Clear(d) PROVE LastInv' /\ SameLast
  <2>1. Started(d) /\ monitor' = [monitor EXCEPT ![d] = "report"]
    BY <1>0, <1>21 DEF Clear, MonitorTo
  <2>2. /\ UNCHANGED <<status, canceller, victim, staging, final>> /\ UNCHANGED workers
        /\ task' = task \/ task' = None
    BY <1>21 DEF Clear, Unset
  <2>3. /\ \A e \in Download : Started(e)' <=> Started(e)
        /\ \A e \in Download : e # d => monitor'[e] = monitor[e]
    BY <2>1, <2>2 DEF Started
  <2>4. \A e \in Download : task' = e \/ victim' = e => task = e \/ victim = e
    BY <2>2
  <2> QED
    BY <2>1, <2>2, <2>3, <2>4, LastKept DEF LastInv
<1>18. ASSUME NEW d \in Download, Report(d) PROVE LastInv' /\ SameLast
  BY <1>10, <1>18 DEF Report
<1>19. ASSUME UNCHANGED vars PROVE LastInv' /\ SameLast
  BY <1>19, LastKept DEF vars, Started, LastInv
<1> QED
  BY <1>1, <1>2, <1>3, <1>4, <1>5, <1>6, <1>7, <1>8, <1>9, <1>11, <1>12, <1>13, <1>14, <1>15,
     <1>16, <1>17, <1>18, <1>19, <1>20, <1>21 DEF Next, Cancel, Worker, Monitor

\* A monitor that no step touches, nor its download, has done what it did.
LEMMA OthersDid ==
  ASSUME TypeOK, NEW e \in Download, MonitorDid(e), IsLast(e)' <=> IsLast(e),
         process'[e] = process[e], monitor'[e] = monitor[e], outcome'[e] = outcome[e],
         staging'[e] = staging[e], died'[e] = died[e],
         final' = final, whole' = whole, broken' = broken,
         LeftToCancel(e) => LeftToCancel(e)'
  PROVE  MonitorDid(e)'
BY DEF MonitorDid, Watched

LEMMA ReportStep ==
  TypeOK /\ WorkerInv /\ WholeInv /\ LastInv /\ ReportInv /\ [Next]_vars => ReportInv'
<1> SUFFICES ASSUME TypeOK, WorkerInv, WholeInv, LastInv, ReportInv, [Next]_vars,
                    ~late', ~overlap', NEW e \in Download
             PROVE  MonitorDid(e)' /\ (IsLast(e)' => StatusSays(e)')
  BY DEF ReportInv
<1> DEFINE Goal == MonitorDid(e)' /\ (IsLast(e)' => StatusSays(e)')
<1> SUFFICES Goal
  OBVIOUS
<1>0. ~late /\ ~overlap
  <2>1. ASSUME NEW d \in Download, Start(d) PROVE ~late /\ ~overlap
    BY <2>1 DEF Start
  <2>2. CASE Cancel
    <3>1. CASE CancelJoin
      BY <3>1 DEF CancelJoin
    <3>2. CASE CancelBegin \/ CancelKill \/ CancelCleanup \/ CancelFinish
      <4>1. UNCHANGED <<late, overlap>>
        BY <3>2, ZenonT(60) DEF CancelBegin, CancelKill, CancelCleanup, CancelFinish, histories
      <4> QED
        BY <4>1
    <3> QED
      BY <2>2, <3>1, <3>2 DEF Cancel
  <2>3. ASSUME NEW d \in Download, Worker(d) PROVE ~late /\ ~overlap
    BY <2>3 DEF Worker, Fetch, Put, Exit, histories
  <2>4. ASSUME NEW d \in Download, Monitor(d) PROVE ~late /\ ~overlap
    <3>1. CASE Poll(d)
      BY <3>1 DEF Poll
    <3>2. CASE Read(d) \/ TestAlive(d) \/ ReadAgain(d) \/ Report(d)
      <4>1. UNCHANGED <<late, overlap>>
        BY <3>2, ZenonT(60) DEF Read, TestAlive, ReadAgain, Report, histories
      <4> QED
        BY <4>1
    <3>3. CASE \/ Promote(d) \/ Remove(d) \/ Move(d) \/ Size(d) \/ Finish(d) \/ Clear(d)
      <4>1. UNCHANGED <<late, overlap>>
        BY <3>3, ZenonT(60) DEF Promote, Remove, Move, Size, Finish, Clear, histories
      <4> QED
        BY <4>1
    <3> QED
      BY <2>4, <3>1, <3>2, <3>3 DEF Monitor
  <2>5. CASE UNCHANGED vars
    BY <2>5 DEF vars
  <2> QED
    BY <2>1, <2>2, <2>3, <2>4, <2>5 DEF Next
<1>a. /\ \A d \in Download : MonitorDid(d)
      /\ IsLast(e) => StatusSays(e)
      /\ \A d \in Download : message[d] = "completed" /\ Watched(d) => staging[d] = "whole"
      /\ \A d \in Download : monitor[d] \in {"promote", "remove", "move"} => staging[d] = "whole"
      /\ canceller \in {"cleanup", "finish"} => ~Watched(victim)
  BY <1>0 DEF ReportInv, WholeInv
<1>b. \A d, f \in Download : IsLast(d) /\ IsLast(f) => d = f
  BY DownloadsAreNumbers DEF IsLast
<1>c. LastInv' /\ (SameLast \/ \E d \in Download : Start(d))
  BY LastStep
<1>d. \A d \in Download : (victim = d \/ task = d \/ Watched(d)) => IsLast(d)
  BY <1>a DEF LastInv, MonitorDid
<1>1. ASSUME NEW d \in Download, Start(d) PROVE Goal
  <2>1. /\ ~Started(d) /\ monitor[d] = "none" /\ staging[d] = "absent" /\ final # d
        /\ \A f \in Download : ~Watched(f)
    BY <1>1 DEF Start, LastInv
  <2>2. /\ process' = [process EXCEPT ![d] = "running"]
        /\ monitor' = [monitor EXCEPT ![d] = "poll"]
        /\ status' = "downloading" /\ canceller = "idle" /\ canceller' = "idle"
        /\ UNCHANGED <<outcome, staging, final, whole, broken, died>>
    BY <1>1 DEF Start, LoopFree, files
  <2>3. IsLast(d)' /\ (IsLast(e)' => e = d)
    <3>1. victim' = victim /\ task' = d
      BY <1>1 DEF Start
    <3>2. IsLast(d)'
      BY <1>c, <3>1 DEF LastInv
    <3> QED
      BY <3>2, DownloadsAreNumbers DEF IsLast
  <2>4. CASE e = d
    BY <2>1, <2>2, <2>3, <2>4 DEF MonitorDid, StatusSays, Watched, TypeOK
  <2>5. CASE e # d
    <3>1. process'[e] = process[e] /\ monitor'[e] = monitor[e] /\ ~Watched(e)
      BY <2>1, <2>2, <2>5 DEF TypeOK
    <3> QED
      BY <1>a, <2>2, <2>3, <2>5, <3>1 DEF MonitorDid, Watched, LeftToCancel
  <2> QED
    BY <2>4, <2>5
<1>2. SUFFICES ASSUME SameLast PROVE Goal
  BY <1>1, <1>c
<1>e. IsLast(e)' <=> IsLast(e)
  BY <1>2 DEF SameLast
<1> HIDE DEF Goal
<1> USE DEF workers, files, histories
<1>3. CASE CancelBegin
  <2>1. /\ UNCHANGED <<process, monitor, outcome, staging, final, whole, broken, died>>
        /\ canceller = "idle" /\ canceller' = "kill" /\ victim' = task
        /\ status' = "canceling" /\ task # None /\ Alive(task)
    BY <1>3 DEF CancelBegin, LoopFree, Active
  <2>2. MonitorDid(e)'
    BY <1>a, <1>e, <2>1, OthersDid DEF LeftToCancel
  <2>3. ASSUME IsLast(e) PROVE StatusSays(e)'
    <3>1. task = e
      BY <1>b, <1>d, <2>1, <2>3 DEF TypeOK
    <3> QED
      BY <1>a, <2>1, <2>3, <3>1 DEF StatusSays, Alive, Watched
  <2> QED
    BY <1>e, <2>2, <2>3 DEF Goal
<1>4. CASE CancelKill
  <2>1. /\ UNCHANGED <<monitor, outcome, staging, final, whole, broken, died, status>>
        /\ canceller = "kill" /\ victim \in Download /\ IsLast(victim)
    BY <1>4, <1>d DEF CancelKill, TypeOK
  <2>2. CASE process[victim] = "closed"
    <3>1. canceller' = "idle" /\ victim' = None /\ process' = process
      BY <1>4, <2>2 DEF CancelKill
    <3>2. MonitorDid(e)'
      BY <1>a, <1>e, <2>1, <2>2, <3>1, OthersDid DEF LeftToCancel
    <3>3. ASSUME IsLast(e) PROVE StatusSays(e)'
      BY <1>a, <1>b, <2>1, <2>2, <3>1, <3>3 DEF StatusSays, Watched
    <3> QED
      BY <1>e, <3>2, <3>3 DEF Goal
  <2>3. CASE process[victim] # "closed"
    <3>1. /\ canceller' = "join" /\ victim' = victim
          /\ process' = [process EXCEPT ![victim] = "dead"]
      BY <1>4, <2>3 DEF CancelKill
    <3>2. MonitorDid(e)'
      BY <1>a, <1>e, <2>1, <2>3, <3>1, ZenonT(60) DEF MonitorDid, Watched, LeftToCancel, TypeOK
    <3>3. ASSUME IsLast(e) PROVE StatusSays(e)'
      BY <1>a, <2>1, <3>1, <3>3 DEF StatusSays, Watched
    <3> QED
      BY <1>e, <3>2, <3>3 DEF Goal
  <2> QED
    BY <2>2, <2>3
<1>5. CASE CancelJoin
  <2>1. /\ UNCHANGED <<process, monitor, outcome, staging, final, whole, broken, died, status, victim>>
        /\ canceller = "join" /\ canceller' = "cleanup"
    BY <1>5 DEF CancelJoin
  <2>2. MonitorDid(e)'
    BY <1>a, <1>e, <2>1, OthersDid DEF LeftToCancel
  <2>3. ASSUME IsLast(e) PROVE StatusSays(e)'
    BY <1>a, <2>1, <2>3 DEF StatusSays, Watched
  <2> QED
    BY <1>e, <2>2, <2>3 DEF Goal
<1>6. CASE CancelCleanup
  <2>1. /\ UNCHANGED <<process, monitor, outcome, final, whole, broken, died, status, victim>>
        /\ canceller = "cleanup" /\ canceller' = "finish" /\ ~Watched(victim)
        /\ victim \in Download /\ process[victim] # "running"
        /\ \A d \in Download : d # victim => staging'[d] = staging[d]
    BY <1>6, <1>a DEF CancelCleanup, TypeOK, WorkerInv
  <2>2. CASE e = victim
    <3>1. MonitorDid(e)'
      BY <1>a, <1>e, <2>1, <2>2 DEF MonitorDid, Watched, LeftToCancel
    <3>2. ASSUME IsLast(e) PROVE StatusSays(e)'
      BY <1>a, <2>1, <3>2 DEF StatusSays, Watched
    <3> QED
      BY <1>e, <3>1, <3>2 DEF Goal
  <2>3. CASE e # victim
    <3>1. MonitorDid(e)'
      BY <1>a, <1>e, <2>1, <2>3, OthersDid DEF LeftToCancel
    <3>2. ASSUME IsLast(e) PROVE StatusSays(e)'
      BY <1>a, <2>1, <3>2 DEF StatusSays, Watched
    <3> QED
      BY <1>e, <3>1, <3>2 DEF Goal
  <2> QED
    BY <2>2, <2>3
<1>7. CASE CancelFinish
  <2>1. /\ UNCHANGED <<monitor, outcome, final, whole, broken, died>>
        /\ canceller = "finish" /\ canceller' = "idle" /\ victim' = None
        /\ ~Watched(victim) /\ IsLast(victim) /\ status' = "cancelled"
        /\ victim \in Download /\ process[victim] # "running"
        /\ staging' = [staging EXCEPT ![victim] = "absent"]
    BY <1>7, <1>a, <1>d DEF CancelFinish, TypeOK, WorkerInv
  <2>2. process' = [process EXCEPT ![victim] = IF Alive(victim) THEN @ ELSE "closed"]
    BY <1>7 DEF CancelFinish, Release
  <2>3. CASE e = victim
    <3>1. staging'[e] = "absent" /\ process'[e] # "running"
      BY <2>1, <2>2, <2>3 DEF TypeOK, Alive
    <3>2. MonitorDid(e)'
      BY <1>a, <1>e, <2>1, <2>3, <3>1 DEF MonitorDid, Watched
    <3>3. StatusSays(e)'
      BY <2>1, <2>3 DEF StatusSays, Watched
    <3> QED
      BY <1>e, <3>2, <3>3 DEF Goal
  <2>4. CASE e # victim
    <3>1. process'[e] = process[e] /\ staging'[e] = staging[e]
      BY <2>1, <2>2, <2>4 DEF TypeOK
    <3>2. MonitorDid(e)'
      BY <1>a, <1>e, <2>1, <2>4, <3>1, OthersDid DEF LeftToCancel
    <3> QED
      BY <1>b, <1>e, <2>1, <2>4, <3>2 DEF Goal
  <2> QED
    BY <2>3, <2>4
<1>8. ASSUME NEW d \in Download, process[d] = "running" \/ process[d] = "exiting",
             process'[d] \in {"running", "exiting", "dead"},
             process'[d] = "running" => process[d] = "running",
             staging' = staging \/ process[d] = "running",
             \A f \in Download \ {d} : process'[f] = process[f] /\ staging'[f] = staging[f],
             UNCHANGED <<monitor, outcome, status, canceller, victim, final, whole, broken, died>>
      PROVE  Goal
  <2>1. CASE e = d
    <3>1. process[d] = "running" => monitor[d] \notin {"size", "finish", "clear", "report"}
      BY DEF WorkerInv
    <3>2. MonitorDid(e)'
      BY <1>8, <1>a, <1>e, <2>1, <3>1 DEF MonitorDid, Watched, LeftToCancel
    <3>3. ASSUME IsLast(e) PROVE StatusSays(e)'
      BY <1>8, <1>a, <2>1, <3>3 DEF StatusSays, Watched
    <3> QED
      BY <1>e, <3>2, <3>3 DEF Goal
  <2>2. CASE e # d
    <3>1. process'[e] = process[e] /\ staging'[e] = staging[e]
      BY <1>8, <2>2
    <3>2. MonitorDid(e)'
      BY <1>8, <1>a, <1>e, <3>1, OthersDid DEF LeftToCancel
    <3>3. ASSUME IsLast(e) PROVE StatusSays(e)'
      BY <1>8, <1>a, <3>1, <3>3 DEF StatusSays, Watched
    <3> QED
      BY <1>e, <3>2, <3>3 DEF Goal
  <2> QED
    BY <2>1, <2>2
<1>9. ASSUME NEW d \in Download, Worker(d) PROVE Goal
  <2>1. CASE Fetch(d)
    BY <1>8, <2>1 DEF Fetch, TypeOK
  <2>2. CASE Put(d)
    <3>1. /\ process[d] = "running"
          /\ \E p \in {"exiting", "dead"} : process' = [process EXCEPT ![d] = p]
          /\ staging' = staging \/ staging' = [staging EXCEPT ![d] = "whole"]
          /\ UNCHANGED <<monitor, outcome, status, canceller, victim, final, whole, broken, died>>
      BY <2>2, ZenonT(60) DEF Put
    <3> QED
      BY <1>8, <3>1 DEF TypeOK
  <2>3. CASE Exit(d)
    BY <1>8, <2>3 DEF Exit, TypeOK
  <2> QED
    BY <1>9, <2>1, <2>2, <2>3 DEF Worker
<1>25. ASSUME NEW d \in Download, UNCHANGED <<process, canceller, victim>>
       PROVE  LeftToCancel(d)' <=> LeftToCancel(d)
  BY <1>25 DEF LeftToCancel
\* A step of the monitor of d, the last download; the others are not watched.
<1>10. ASSUME NEW d \in Download, Watched(d), UNCHANGED <<canceller, victim>>,
              \A f \in Download \ {d} :
                /\ process'[f] = process[f] /\ monitor'[f] = monitor[f]
                /\ staging'[f] = staging[f] /\ died'[f] = died[f]
                /\ final' = f => final = f,
              MonitorDid(d)', StatusSays(d)'
       PROVE  Goal
  <2>1. CASE e = d
    BY <1>10, <2>1 DEF Goal
  <2>2. CASE e # d
    <3>1. ~IsLast(e) /\ ~Watched(e) /\ LeftToCancel(e)' = LeftToCancel(e)
      BY <1>10, <1>b, <1>d, <2>2 DEF LeftToCancel
    <3>2. MonitorDid(e)'
      BY <1>10, <1>a, <1>e, <2>2, <3>1 DEF MonitorDid, Watched
    <3> QED
      BY <1>e, <3>1, <3>2 DEF Goal
  <2> QED
    BY <2>1, <2>2
<1>11. ASSUME NEW d \in Download, Watched(d)
       PROVE  /\ MonitorDid(d) /\ IsLast(d) /\ IsLast(d)' /\ StatusSays(d)
              /\ status \in {"downloading", "canceling"}
  <2>1. IsLast(d) /\ IsLast(d)'
    BY <1>2, <1>11, <1>d DEF SameLast
  <2>2. MonitorDid(d) /\ StatusSays(d)
    BY <1>0, <2>1 DEF ReportInv
  <2>3. status # "idle"
    BY <1>11, <2>1 DEF LastInv, IsLast
  <2> QED
    BY <1>11, <2>1, <2>2, <2>3 DEF StatusSays, Watched, TypeOK
<1>12. ASSUME NEW d \in Download, Poll(d) PROVE Goal
  <2>1. /\ monitor[d] = "poll" /\ Watched(d)
        /\ UNCHANGED <<process, outcome, status, canceller, victim, staging, final, whole, broken>>
    BY <1>12 DEF Poll, MonitorAlone, Watched
  <2>2. CASE MonitorTo(d, "read") /\ UNCHANGED died
    <3>1. MonitorDid(d)' /\ StatusSays(d)'
      BY <1>11, <1>25, <2>1, <2>2 DEF MonitorDid, StatusSays, Watched, MonitorTo, TypeOK
    <3> QED
      BY <1>10, <2>1, <2>2, <3>1 DEF MonitorTo, TypeOK
  <2>3. CASE /\ status \in {"canceling", "cancelled"}
             /\ MonitorTo(d, "gone") /\ UNCHANGED died
    <3>1. LeftToCancel(d) /\ status = "canceling"
      <4>1. status = "canceling" /\ canceller # "idle"
        BY <1>11, <2>1, <2>3 DEF StatusSays
      <4>2. victim = d
        BY <1>11, <1>b, <1>d, <2>1, <4>1 DEF TypeOK
      <4>3. process[d] # "closed"
        BY <1>11, <2>1 DEF MonitorDid
      <4> QED
        BY <4>1, <4>2, <4>3 DEF LeftToCancel
    <3>2. MonitorDid(d)' /\ StatusSays(d)'
      BY <1>11, <2>1, <2>3, <3>1 DEF MonitorDid, StatusSays, Watched, LeftToCancel, MonitorTo,
         TypeOK
    <3> QED
      BY <1>10, <2>1, <2>3, <3>2 DEF MonitorTo, TypeOK
  <2>4. CASE /\ status \notin {"canceling", "cancelled"}
             /\ MonitorTo(d, "gone") /\ died' = [died EXCEPT ![d] = TRUE]
    <3>1. status = "downloading"
      BY <1>11, <2>1, <2>4
    <3>2. MonitorDid(d)' /\ StatusSays(d)'
      BY <1>11, <2>1, <2>4, <3>1 DEF MonitorDid, StatusSays, Watched, MonitorTo, TypeOK
    <3> QED
      BY <1>10, <2>1, <2>4, <3>2 DEF MonitorTo, TypeOK
  <2> QED
    BY <1>12, <2>2, <2>3, <2>4 DEF Poll
<1>13. ASSUME NEW d \in Download, monitor[d] \in {"read", "read again"}, TakeResult(d),
              UNCHANGED <<process, status, broken, died>>, MonitorAlone
       PROVE  Goal
  <2>1. Watched(d) /\ UNCHANGED <<canceller, victim, staging, final, whole, broken>>
    BY <1>13 DEF MonitorAlone, Watched
  <2>2. /\ outcome'[d] = message[d] /\ message[d] \in {"completed", "failed"}
        /\ monitor'[d] = IF message[d] = "completed" THEN "promote" ELSE "finish"
        /\ \A f \in Download \ {d} : monitor'[f] = monitor[f]
    BY <1>13 DEF TakeResult, MonitorTo, TypeOK
  <2>3. MonitorDid(d)' /\ StatusSays(d)'
    BY <1>11, <1>13, <2>1, <2>2 DEF MonitorDid, StatusSays, Watched
  <2> QED
    BY <1>10, <1>13, <2>1, <2>2, <2>3
<1>14. ASSUME NEW d \in Download, Read(d) PROVE Goal
  <2>1. monitor[d] = "read" /\ Watched(d) /\ UNCHANGED <<process, status, broken, died>> /\ MonitorAlone
    BY <1>14 DEF Read, Watched
  <2>2. CASE MonitorTo(d, "alive") /\ UNCHANGED outcome
    <3>1. UNCHANGED <<canceller, victim, staging, final, whole, broken>>
      BY <2>1 DEF MonitorAlone
    <3>2. MonitorDid(d)' /\ StatusSays(d)'
      BY <1>11, <2>1, <2>2, <3>1 DEF MonitorDid, StatusSays, Watched, MonitorTo, TypeOK
    <3> QED
      BY <1>10, <2>1, <2>2, <3>1, <3>2 DEF MonitorTo, TypeOK
  <2> QED
    BY <1>13, <1>14, <2>1, <2>2 DEF Read
<1>15. ASSUME NEW d \in Download, TestAlive(d) PROVE Goal
  <2>1. /\ monitor[d] = "alive" /\ Watched(d)
        /\ UNCHANGED <<process, outcome, status, canceller, victim, staging, final, whole, broken, died>>
    BY <1>15 DEF TestAlive, MonitorAlone, Watched
  <2>2. process[d] # "closed"
    BY <1>11, <2>1 DEF MonitorDid
  <2>3. PICK step \in {"poll", "read again"} : MonitorTo(d, step)
    BY <1>15, <2>2, Zenon DEF TestAlive
  <2>4. MonitorDid(d)' /\ StatusSays(d)'
    BY <1>11, <2>1, <2>3 DEF MonitorDid, StatusSays, Watched, MonitorTo, TypeOK
  <2> QED
    BY <1>10, <2>1, <2>3, <2>4 DEF MonitorTo, TypeOK
<1>16. ASSUME NEW d \in Download, ReadAgain(d) PROVE Goal
  <2>1. /\ monitor[d] = "read again" /\ Watched(d)
        /\ UNCHANGED <<process, status, broken, died>> /\ MonitorAlone
    BY <1>16 DEF ReadAgain, Watched
  <2>2. CASE MonitorTo(d, "finish") /\ outcome' = [outcome EXCEPT ![d] = "failed"]
    <3>1. UNCHANGED <<canceller, victim, staging, final, whole, broken>>
      BY <2>1 DEF MonitorAlone
    <3>2. MonitorDid(d)' /\ StatusSays(d)'
      BY <1>11, <2>1, <2>2, <3>1, ZenonT(60) DEF MonitorDid, StatusSays, Watched, MonitorTo, TypeOK
    <3> QED
      BY <1>10, <2>1, <2>2, <3>1, <3>2 DEF MonitorTo, TypeOK
  <2> QED
    BY <1>13, <1>16, <2>1, <2>2 DEF ReadAgain
<1>17. ASSUME NEW d \in Download, Promote(d) PROVE Goal
  <2>1. /\ monitor[d] = "promote" /\ Watched(d) /\ broken' = (final # None)
        /\ monitor' = [monitor EXCEPT ![d] = IF final = None THEN "move" ELSE "remove"]
        /\ UNCHANGED <<process, outcome, status, canceller, victim, staging, final, whole, died>>
    BY <1>17 DEF Promote, MonitorTo, MonitorAlone, Watched
  <2>2. MonitorDid(d)' /\ StatusSays(d)'
    BY <1>11, <1>25, <2>1 DEF MonitorDid, StatusSays, Watched, TypeOK
  <2> QED
    BY <1>10, <2>1, <2>2 DEF TypeOK
<1>18. ASSUME NEW d \in Download, Move(d) PROVE Goal
  <2>1. /\ monitor[d] = "move" /\ Watched(d) /\ staging[d] = "whole" /\ final = None
        /\ outcome[d] = "completed" /\ process[d] # "running"
        /\ UNCHANGED <<process, status, canceller, victim, died>>
    BY <1>11, <1>18, <1>a DEF Move, Watched, MonitorDid, WorkerInv
  <2>2. CASE monitor' = [monitor EXCEPT ![d] = "size"]
    <3>1. /\ final' = d /\ whole' = TRUE /\ UNCHANGED <<outcome, broken>>
          /\ staging' = [staging EXCEPT ![d] = "absent"]
      BY <1>18, <2>1, <2>2 DEF Move, Fails, MonitorTo, TypeOK
    <3>2. ~broken
      BY <1>11, <2>1 DEF MonitorDid
    <3>3. MonitorDid(d)' /\ StatusSays(d)'
      <4>1. monitor'[d] = "size" /\ staging'[d] = "absent"
        BY <2>2, <3>1 DEF TypeOK
      <4>2. MonitorDid(d)'
        BY <1>11, <2>1, <3>1, <3>2, <4>1 DEF MonitorDid, Watched
      <4>3. StatusSays(d)'
        BY <1>11, <2>1, <3>1, <4>1 DEF StatusSays, Watched
      <4> QED
        BY <4>2, <4>3
    <3> QED
      BY <1>10, <2>1, <2>2, <3>1, <3>3 DEF TypeOK
  <2>3. CASE /\ monitor' = [monitor EXCEPT ![d] = "finish"]
             /\ outcome' = [outcome EXCEPT ![d] = "failed"]
    <3>1. /\ UNCHANGED staging
          /\ (final' = d /\ broken') \/ UNCHANGED <<final, broken>>
      BY <1>18, <2>1, <2>3 DEF Move, MonitorTo, TypeOK
    <3>2. MonitorDid(d)' /\ StatusSays(d)'
      <4>0. final' # d \/ broken'
        BY <2>1, <3>1, DownloadsAreNumbers
      <4>1. monitor'[d] = "finish" /\ outcome'[d] = "failed" /\ (final' # d \/ broken')
        BY <2>3, <4>0 DEF TypeOK
      <4>2. MonitorDid(d)'
        BY <1>11, <2>1, <3>1, <4>1 DEF MonitorDid, Watched
      <4>3. StatusSays(d)'
        BY <1>11, <2>1, <4>1 DEF StatusSays, Watched
      <4> QED
        BY <4>2, <4>3
    <3> QED
      BY <1>10, <2>1, <2>3, <3>1, <3>2 DEF TypeOK
  <2> QED
    BY <1>18, <2>2, <2>3 DEF Move, Fails, MonitorTo
<1>22. ASSUME NEW d \in Download, Remove(d) PROVE Goal
  <2>1. /\ monitor[d] = "remove" /\ Watched(d) /\ outcome[d] = "completed" /\ final # d
        /\ UNCHANGED <<process, status, canceller, victim, staging, died>>
    BY <1>11, <1>22 DEF Remove, Watched, MonitorDid
  <2>2. CASE /\ monitor' = [monitor EXCEPT ![d] = "move"]
             /\ final' = None /\ broken' = FALSE /\ UNCHANGED outcome
    <3>1. MonitorDid(d)' /\ StatusSays(d)'
      <4>1. monitor'[d] = "move" /\ final' # d
        BY <2>2, DownloadsAreNumbers DEF TypeOK
      <4>2. MonitorDid(d)'
        BY <1>11, <1>25, <2>1, <2>2, <4>1 DEF MonitorDid, Watched
      <4>3. StatusSays(d)'
        BY <1>11, <2>1, <4>1 DEF StatusSays, Watched
      <4> QED
        BY <4>2, <4>3
    <3> QED
      BY <1>10, <2>1, <2>2, <3>1, DownloadsAreNumbers DEF TypeOK
  <2>3. CASE /\ monitor' = [monitor EXCEPT ![d] = "finish"]
             /\ outcome' = [outcome EXCEPT ![d] = "failed"] /\ UNCHANGED final
    <3>1. MonitorDid(d)' /\ StatusSays(d)'
      <4>1. monitor'[d] = "finish" /\ outcome'[d] = "failed" /\ final' # d
        BY <2>1, <2>3 DEF TypeOK
      <4>2. MonitorDid(d)'
        BY <1>11, <1>25, <2>1, <2>3, <4>1 DEF MonitorDid, Watched
      <4>3. StatusSays(d)'
        BY <1>11, <2>1, <4>1 DEF StatusSays, Watched
      <4> QED
        BY <4>2, <4>3
    <3> QED
      BY <1>10, <2>1, <2>3, <3>1 DEF TypeOK
  <2> QED
    BY <1>22, <2>2, <2>3 DEF Remove, Fails, MonitorTo
<1>23. ASSUME NEW d \in Download, Size(d) PROVE Goal
  <2>1. /\ monitor[d] = "size" /\ Watched(d) /\ outcome[d] = "completed"
        /\ final = d /\ whole /\ ~broken
        /\ UNCHANGED <<process, status, canceller, victim, staging, final, whole, broken, died>>
    BY <1>11, <1>23 DEF Size, Watched, MonitorDid, MonitorAlone
  <2>2. monitor' = [monitor EXCEPT ![d] = "finish"] /\ UNCHANGED outcome
    BY <1>23, <2>1 DEF Size, MonitorTo
  <2>3. MonitorDid(d)' /\ StatusSays(d)'
    BY <1>11, <1>25, <2>1, <2>2 DEF MonitorDid, StatusSays, Watched, TypeOK
  <2> QED
    BY <1>10, <2>1, <2>2, <2>3 DEF TypeOK
<1>19. ASSUME NEW d \in Download, Finish(d) PROVE Goal
  <2>1. /\ monitor[d] = "finish" /\ Watched(d) /\ monitor' = [monitor EXCEPT ![d] = "clear"]
        /\ process' = [process EXCEPT ![d] = IF Alive(d) THEN @ ELSE "closed"]
        /\ UNCHANGED <<outcome, status, canceller, victim, final, whole, broken, died>>
    BY <1>19 DEF Finish, Release, MonitorTo, Watched
  <2>2. /\ staging'[d] = "absent"
        /\ \A f \in Download \ {d} : staging'[f] = staging[f]
    BY <1>11, <1>19, <2>1 DEF Finish, MonitorDid, TypeOK
  <2>3. process[d] # "running" /\ process'[d] # "running"
    BY <2>1 DEF WorkerInv, TypeOK, Alive
  <2>4. MonitorDid(d)' /\ StatusSays(d)'
    BY <1>11, <2>1, <2>2, <2>3, ZenonT(60) DEF MonitorDid, StatusSays, Watched, TypeOK
  <2> QED
    BY <1>10, <2>1, <2>2, <2>4 DEF TypeOK
<1>24. ASSUME NEW d \in Download, Clear(d) PROVE Goal
  <2>1. /\ monitor[d] = "clear" /\ Watched(d) /\ monitor' = [monitor EXCEPT ![d] = "report"]
        /\ UNCHANGED <<process, outcome, status, canceller, victim, staging, final, whole,
                       broken, died>>
    BY <1>24 DEF Clear, MonitorTo, Watched
  <2>2. MonitorDid(d)' /\ StatusSays(d)'
    BY <1>11, <1>25, <2>1 DEF MonitorDid, StatusSays, Watched, TypeOK
  <2> QED
    BY <1>10, <2>1, <2>2 DEF TypeOK
<1>20. ASSUME NEW d \in Download, Report(d) PROVE Goal
  <2>1. /\ monitor[d] = "report" /\ Watched(d) /\ monitor' = [monitor EXCEPT ![d] = "gone"]
        /\ status' = outcome[d] /\ outcome[d] \in {"completed", "failed"}
        /\ UNCHANGED <<process, canceller, victim, staging, final, whole, broken, died>>
    BY <1>20 DEF Report, MonitorTo, MonitorAlone, Watched, WorkerInv, TypeOK
  <2>2. staging[d] = "absent" /\ process[d] # "running"
    BY <1>11, <2>1 DEF MonitorDid, WorkerInv
  <2>3. MonitorDid(d)' /\ StatusSays(d)'
    BY <1>11, <2>1, <2>2 DEF MonitorDid, StatusSays, Watched, TypeOK
  <2> QED
    BY <1>10, <2>1, <2>3 DEF TypeOK
<1>21. CASE UNCHANGED vars
  BY <1>21, <1>a, <1>e DEF Goal, vars, MonitorDid, StatusSays, Watched, LeftToCancel
<1> QED
  BY <1>1, <1>3, <1>4, <1>5, <1>6, <1>7, <1>9, <1>12, <1>14, <1>15, <1>16, <1>17, <1>18, <1>19,
     <1>20, <1>21, <1>22, <1>23, <1>24 DEF Next, Cancel, Monitor

LEMMA DInvStep == DInv /\ [Next]_vars => DInv'
BY TypeStep, WorkerStep, WholeStep, LastStep, ReportStep DEF DInv

LEMMA DInvAlways == Spec => []DInv
BY DInvInit, DInvStep, PTL DEF Spec
-----------------------------------------------------------------------------
\* Every variable has its type in every reachable state.
THEOREM TypeCorrect == Spec => []TypeOK
<1>1. DInv => TypeOK
  BY DEF DInv
<1> QED
  BY <1>1, DInvAlways, PTL

\* However many downloads are started, cancelled and finished late, at most one
\* worker fetches at a time.
THEOREM OneWorkerAlways == Spec => []OneWorker
<1>1. DInv => OneWorker
  BY DEF DInv, WorkerInv, OneWorker
<1> QED
  BY <1>1, DInvAlways, PTL

\* What is installed is whole, unless a cancel went on beside a monitor, or the removal
\* or installation of just that model goes on or stopped partway.
THEOREM OnlyWholeInstalled == Spec => []InstalledIsWhole
<1>1. DInv => InstalledIsWhole
  BY DEF DInv, WholeInv, InstalledIsWhole
<1> QED
  BY <1>1, DInvAlways, PTL

\* When everything has ended, and no download overlapped another and every cancel
\* waited for its monitor: a completed download is installed whole, of a failed one
\* nothing is installed, unless that stopped partway, and only a monitor that died has
\* left a directory behind.
THEOREM ReportIsTrueAlways == Spec => []ReportIsTrue
<1>1. DInv => ReportIsTrue
  <2> SUFFICES ASSUME DInv, AtRest, status # "idle", ~late, ~overlap
               PROVE  /\ status = "completed" => final = Last /\ whole
                      /\ status = "failed" => final # Last \/ broken
                      /\ status \in {"downloading", "canceling"}
                           => status = "downloading" /\ died[Last]
                      /\ \A d \in Download : staging[d] # "absent" => died[d]
    BY DEF ReportIsTrue
  <2>1. PICK d \in Download : IsLast(d)
    BY DEF DInv, LastInv
  <2>2. Last = d
    <3>1. \A e \in Download : IsLast(e) <=> e = d
      BY <2>1, DownloadsAreNumbers DEF IsLast
    <3>2. Last = CHOOSE e \in Download : IsLast(e)
      BY DEF Last, IsLast
    <3> QED
      BY <3>1, <3>2
  <2>3. MonitorDid(d) /\ StatusSays(d) /\ \A e \in Download : MonitorDid(e)
    BY <2>1 DEF DInv, ReportInv
  <2> QED
    BY <2>2, <2>3 DEF AtRest, LoopFree, MonitorDid, StatusSays, LeftToCancel, Watched
<1> QED
  BY <1>1, DInvAlways, PTL
================================================================================
