-------------------------- MODULE SpeedTestProofs --------------------------
(***************************************************************************)
(* The native speed test: what runTransferPhase returns for every number   *)
(* of workers, the box and the result of a session for any number of       *)
(* clients and bytes, and that what a phase returns is what the session    *)
(* goes on with.                                                           *)
(***************************************************************************)
EXTENDS SpeedTestSession, TransferPhase, TLAPS

-----------------------------------------------------------------------------
(* A transfer phase *)

\* Only real errors are sent, received and waited with; a request returns no
\* error rebuilt from text.
OnlyFailures ==
  /\ \A w \in Workers : failed[w] \notin {"text", "textOfCancel"}
  /\ \A w \in Workers : worker[w] \in {"send", "abort"} => failed[w] = "failure"
  /\ channel \in {<<>>, <<"failure">>}
  /\ loop = "drain" => pending = "failure"

\* A phase that a worker aborted, or is about to abort, still has the error
\* in the channel as long as the caller is in its select.
AbortHasError ==
  loop = "select" /\ (phaseCtx = "aborted" \/ \E w \in Workers : worker[w] = "abort")
    => channel = <<"failure">>

PhaseInv ==
  /\ PhaseTypeOK /\ OnlyFailures /\ AbortHasError
  /\ ReturnsAfterWorkers /\ CountIsFinal /\ FailureIsReported /\ EndingIsNoError

\* A real error is always the verdict.
LEMMA HardVerdict ==
  ASSUME NEW t \in Nat, NEW c, NEW x
  PROVE  TransferVerdict("failure", t, c, x) = "failure"
  BY DEF TransferVerdict, isBenignTransferError

\* Without one the verdict is success only with data, and with data it is
\* success or the session's cancellation.
LEMMA SoftVerdict ==
  ASSUME NEW t \in Nat, NEW c, NEW x
  PROVE  /\ TransferVerdict("none", t, c, x) \in {"none", "canceled", "deadline", "failure"}
         /\ TransferVerdict("none", t, c, x) = "none" => t > 0
         /\ t > 0 => TransferVerdict("none", t, c, x) \in {"none", "canceled"}
  BY DEF TransferVerdict

LEMMA InitPhaseInv == PhaseInit => PhaseInv
  BY PhaseAssumption
     DEF PhaseInit, PhaseInv, PhaseTypeOK, OnlyFailures, AbortHasError, ReturnsAfterWorkers,
         CountIsFinal, FailureIsReported, EndingIsNoError, WorkerPC, Err

\* Every step keeps the invariant; one step per action of the phase.
LEMMA PhaseStep == PhaseInv /\ [PhaseNext]_phaseVars => PhaseInv'
<1> SUFFICES ASSUME PhaseInv, [PhaseNext]_phaseVars PROVE PhaseInv'
  OBVIOUS
<1> USE PhaseAssumption
     DEF PhaseInv, PhaseTypeOK, OnlyFailures, AbortHasError, ReturnsAfterWorkers,
         CountIsFinal, FailureIsReported, EndingIsNoError, WorkersDone, WorkerPC
<1>1. ASSUME NEW w \in Workers, Check(w) PROVE PhaseInv'
  BY <1>1 DEF Check
<1>2. ASSUME NEW w \in Workers, RequestDone(w) PROVE PhaseInv'
  BY <1>2 DEF RequestDone
<1>3. ASSUME NEW w \in Workers, NEW e \in Err, RequestFails(w, e) PROVE PhaseInv'
  BY <1>3 DEF RequestFails
<1>4. ASSUME NEW w \in Workers, Judge(w) PROVE PhaseInv'
  BY <1>4 DEF Judge, isBenignTransferError, Err
<1>5. ASSUME NEW w \in Workers, Send(w) PROVE PhaseInv'
  BY <1>5 DEF Send, Err
<1>6. ASSUME NEW w \in Workers, Abort(w) PROVE PhaseInv'
  BY <1>6 DEF Abort
<1>7. ASSUME NEW w \in Workers, Transfer(w) PROVE PhaseInv'
  BY <1>7 DEF Transfer
<1>8. CASE ReceiveError
  BY <1>8 DEF ReceiveError, Err
<1>9. CASE ReturnError
  <2>1. TransferVerdict(pending, total, ctx = "canceled", phaseCtx = "deadline") = "failure"
    BY <1>9, HardVerdict DEF ReturnError
  <2> QED
    BY <1>9, <2>1 DEF ReturnError, Return, Err
<1>10. CASE ReturnDone
  <2> DEFINE hard == IF channel = <<>> THEN "none" ELSE Head(channel)
             verdict == TransferVerdict(hard, total, ctx = "canceled", phaseCtx = "deadline")
  <2>1. CASE channel = <<>>
    <3>1. hard = "none"
      BY <2>1
    <3>2. /\ verdict \in {"none", "canceled", "deadline", "failure"}
          /\ verdict = "none" => total > 0
          /\ total > 0 => verdict \in {"none", "canceled"}
      BY <3>1, SoftVerdict
    <3> HIDE DEF hard, verdict
    <3>3. ret' = [err |-> verdict, total |-> total] /\ loop' = "returned"
      BY <1>10 DEF ReturnDone, Return, hard, verdict
    <3> QED
      BY <1>10, <2>1, <3>2, <3>3 DEF ReturnDone, Err
  <2>2. CASE channel = <<"failure">>
    <3>1. hard = "failure"
      BY <2>2
    <3>2. verdict = "failure"
      BY <3>1, HardVerdict
    <3> HIDE DEF hard, verdict
    <3>3. ret' = [err |-> verdict, total |-> total] /\ loop' = "returned"
      BY <1>10 DEF ReturnDone, Return, hard, verdict
    <3> QED
      BY <1>10, <2>2, <3>2, <3>3 DEF ReturnDone, Err
  <2> QED
    BY <2>1, <2>2
<1>11. CASE CancelSession
  BY <1>11 DEF CancelSession
<1>12. CASE Expire
  BY <1>12 DEF Expire
<1>13. CASE UNCHANGED phaseVars
  BY <1>13 DEF phaseVars
<1> QED
  BY <1>1, <1>2, <1>3, <1>4, <1>5, <1>6, <1>7, <1>8, <1>9, <1>10, <1>11, <1>12, <1>13
     DEF PhaseNext, WorkerStep, LoopStep

LEMMA PhaseInvHolds == PhaseSpec => []PhaseInv
  BY InitPhaseInv, PhaseStep, PTL DEF PhaseSpec

\* However many workers there are, the phase returns only after all of them
\* have ended.
THEOREM PhaseJoinsWorkers == PhaseSpec => []ReturnsAfterWorkers
<1>1. PhaseInv => ReturnsAfterWorkers
  BY DEF PhaseInv
<1> QED
  BY <1>1, PhaseInvHolds, PTL

\* The byte count it returns is final, and success comes with data.
THEOREM PhaseCountIsFinal == PhaseSpec => []CountIsFinal
<1>1. PhaseInv => CountIsFinal
  BY DEF PhaseInv
<1> QED
  BY <1>1, PhaseInvHolds, PTL

\* The error that cut a phase short is the one it returns, whichever case
\* the select takes.
THEOREM PhaseReportsFailure == PhaseSpec => []FailureIsReported
<1>1. PhaseInv => FailureIsReported
  BY DEF PhaseInv
<1> QED
  BY <1>1, PhaseInvHolds, PTL

\* A phase that moved data returns no error that only comes from its end.
THEOREM PhaseEndingIsNoError == PhaseSpec => []EndingIsNoError
<1>1. PhaseInv => EndingIsNoError
  BY DEF PhaseInv
<1> QED
  BY <1>1, PhaseInvHolds, PTL

-----------------------------------------------------------------------------
(* A session *)

\* Which client is where, and what it may rely on.  A client between the
\* lock and the end of a failed Start is the only one there, the goroutine
\* is not running and the result not final before startClose; a client that
\* is about to close the box found the session not started, and then it
\* never is, or waited for the result.
Starting == {"boxStart", "startFinish", "startClose"}

ClientInv ==
  /\ \A c \in Clients : client[c] \in Starting => "started" \in flags /\ run = "none"
  /\ \A c, d \in Clients : client[c] \in Starting /\ client[d] \in Starting => c = d
  /\ \A c \in Clients : At(c, "boxStart") => box = "new" /\ ~Done
  /\ \A c \in Clients : At(c, "startClose") => Done
  /\ \A c \in Clients : At(c, "cancelThenClose") => "closed" \in flags /\ "started" \notin flags
  /\ \A c \in Clients : client[c] \in {"cancelThenWait", "wait"} => "closed" \in flags
  /\ \A c \in Clients : client[c] \in {"boxClose", "released"} =>
        /\ "closed" \in flags
        /\ "started" \in flags => Done
  /\ \A c \in Clients : At(c, "released") => box = "closed"

\* The goroutine has a running box and no final result up to finish; before
\* Start there is neither a goroutine nor a result.
RunInv ==
  /\ run \in Measures \cup {"outbound", "finish"} => box = "started" /\ ~Done
  /\ run \in {"closing", "exit"} => Done
  /\ run # "none" => "started" \in flags
  /\ "started" \notin flags => ~Done /\ (box = "new" \/ "closed" \in flags)

SessionInv == TypeOK /\ ClientInv /\ RunInv

\* What updateProgress and finish leave of the result's stage.
LEMMA ProgressStage ==
  ASSUME NEW s, NEW d, NEW u, NEW v
  PROVE  /\ Done => updateProgress(s, d, u, v) = result
         /\ ~Done => updateProgress(s, d, u, v).stage = s
  BY DEF updateProgress

LEMMA FinishStage ==
  ASSUME NEW o, NEW e
  PROVE  /\ Done => finish(o, e) = result
         /\ finish(o, e).stage \in Final
  BY DEF finish, Done, FinalStage, Final

\* Both keep the result in its type.
LEMMA ProgressType ==
  ASSUME TypeOK, NEW s \in Stages, NEW d \in 0..MaxBytes, NEW u \in 0..MaxBytes,
         NEW v \in {"none", "selected"}
  PROVE  updateProgress(s, d, u, v) \in [stage : Stages, measured : Outcome]
  BY DEF updateProgress, TypeOK, Outcome

LEMMA FinishType ==
  ASSUME TypeOK, NEW o \in Outcome, NEW e \in Err
  PROVE  finish(o, e) \in [stage : Stages, measured : Outcome]
<1>1. FinalStage(e) \in Stages
  BY DEF FinalStage, Stages, Final
<1>2. [o EXCEPT !.server = IF @ = "none" THEN result.measured.server ELSE @] \in Outcome
  BY DEF TypeOK, Outcome
<1> QED
  BY <1>1, <1>2 DEF finish, TypeOK

LEMMA VerdictType ==
  ASSUME NEW h \in {"none", "failure"}, NEW t \in Nat, NEW c, NEW x
  PROVE  TransferVerdict(h, t, c, x) \in Err
  BY DEF TransferVerdict, isBenignTransferError, Err

LEMMA SampleType == TypeOK => SampleOf \in [stage : Stages, measured : Outcome]
<1> SUFFICES ASSUME TypeOK PROVE SampleOf \in [stage : Stages, measured : Outcome]
  OBVIOUS
<1>1. outcome.down \in 0..MaxBytes /\ moved \in 0..MaxBytes /\ 0 \in 0..MaxBytes
  BY SessionAssumption DEF TypeOK, Outcome
<1>2. {"download", "upload"} \subseteq Stages
  BY DEF Stages
<1> QED
  BY <1>1, <1>2, ProgressType DEF SampleOf

LEMMA MeasuredType == TypeOK => Measured \in Outcome
  BY DEF TypeOK, Measured, Outcome

\* The samples without data.
LEMMA ProgressZero ==
  ASSUME TypeOK, NEW s \in {"discovery", "latency", "download"}, NEW v \in {"none", "selected"}
  PROVE  updateProgress(s, 0, 0, v) \in [stage : Stages, measured : Outcome]
<1>1. s \in Stages /\ 0 \in 0..MaxBytes
  BY SessionAssumption DEF Stages
<1> QED
  BY <1>1, ProgressType

\* Every step keeps every variable in its type.
LEMMA SessionTypeStep == TypeOK /\ [Next]_vars => TypeOK'
<1> SUFFICES ASSUME TypeOK, [Next]_vars PROVE TypeOK'
  OBVIOUS
<1> USE SessionAssumption
<1>0. result.measured \in Outcome /\ "failure" \in Err /\ 0 \in 0..MaxBytes
  BY DEF TypeOK, Err
<1>1. CASE NoOutbound
  <2>1. result' \in [stage : Stages, measured : Outcome]
    BY <1>1, <1>0, FinishType DEF NoOutbound
  <2> QED
    BY <1>1, <2>1 DEF NoOutbound, TypeOK, RunPC
<1>2. CASE Execute
  <2>1. result' \in [stage : Stages, measured : Outcome]
    BY <1>2, ProgressZero DEF Execute
  <2> QED
    BY <1>2, <1>0, <2>1 DEF Execute, Begin, Measures, TypeOK, RunPC
<1>3. CASE Discovered
  <2>1. result' \in [stage : Stages, measured : Outcome]
    BY <1>3, ProgressZero DEF Discovered
  <2> QED
    BY <1>3, <1>0, <2>1 DEF Discovered, Begin, Measures, TypeOK, RunPC
<1>4. ASSUME NEW e \in Err, DiscoveryFails(e) PROVE TypeOK'
  BY <1>4 DEF DiscoveryFails, ReturnWith, TypeOK, RunPC
<1>5. ASSUME NEW e \in Err, SelectionFails(e) PROVE TypeOK'
  BY <1>5 DEF SelectionFails, ReturnWith, TypeOK, RunPC
<1>6. CASE Selected
  <2>1. result' \in [stage : Stages, measured : Outcome]
    BY <1>6, ProgressZero DEF Selected
  <2>2. outcome' \in Outcome
    BY <1>6 DEF Selected, TypeOK, Outcome
  <2> QED
    BY <1>6, <1>0, <2>1, <2>2 DEF Selected, Begin, Measures, TypeOK, RunPC
<1>7. CASE NoDownloadURL
  <2>1. result' \in [stage : Stages, measured : Outcome]
    BY <1>7, ProgressZero DEF NoDownloadURL
  <2>2. outcome' \in Outcome
    BY <1>7 DEF NoDownloadURL, TypeOK, Outcome
  <2> QED
    BY <1>7, <1>0, <2>1, <2>2 DEF NoDownloadURL, ReturnWith, TypeOK, RunPC
<1>8. ASSUME NEW hard \in {"none", "failure"}, NEW expired \in BOOLEAN, TransferEnds(hard, expired) PROVE TypeOK'
  <2>1. result' \in [stage : Stages, measured : Outcome]
    BY <1>8, SampleType DEF TransferEnds, TypeOK
  <2>2. outcome' \in Outcome
    BY <1>8, MeasuredType DEF TransferEnds
  <2>3. moved \in Nat
    BY DEF TypeOK
  <2>4. TransferVerdict(hard, moved, Cancelled, expired) \in Err
    BY <2>3, VerdictType
  <2>5. run' \in RunPC /\ moved' \in 0..MaxBytes /\ err' \in Err
    BY <1>8, <1>0, <2>4 DEF TransferEnds, Begin, ReturnWith, TypeOK, RunPC, Measures
  <2> QED
    BY <1>8, <2>1, <2>2, <2>5 DEF TransferEnds, TypeOK
<1>9. ASSUME NEW e \in Err, SimpleRefused(e) PROVE TypeOK'
  BY <1>9 DEF SimpleRefused, ReturnWith, TypeOK, RunPC
<1>10. ASSUME NEW e \in Err, SimpleCopied(e) PROVE TypeOK'
  <2>1. result' \in [stage : Stages, measured : Outcome]
    BY <1>10, SampleType DEF SimpleCopied
  <2>2. outcome' \in Outcome
    BY <1>10, MeasuredType DEF SimpleCopied
  <2> QED
    BY <1>10, <1>0, <2>1, <2>2 DEF SimpleCopied, ReturnWith, TypeOK, RunPC
<1>11. ASSUME NEW e \in Err, SimpleInterrupted(e) PROVE TypeOK'
  <2>1. outcome' \in Outcome
    BY <1>11, MeasuredType DEF SimpleInterrupted
  <2> QED
    BY <1>11, <2>1 DEF SimpleInterrupted, ReturnWith, TypeOK, RunPC
<1>12. CASE Finish
  <2>1. result' \in [stage : Stages, measured : Outcome]
    BY <1>12, FinishType DEF Finish, TypeOK
  <2> QED
    BY <1>12, <2>1 DEF Finish, TypeOK, RunPC
<1>13. CASE RunCloses
  BY <1>13 DEF RunCloses, TypeOK, RunPC
<1>14. CASE Move
  BY <1>14 DEF Move, TypeOK
<1>15. CASE Sample
  BY <1>15, SampleType DEF Sample, TypeOK
<1>16. CASE Cancel
  BY <1>16 DEF Cancel, TypeOK
<1>17. ASSUME NEW c \in Clients, StartAccepts(c) PROVE TypeOK'
  BY <1>17 DEF StartAccepts, Go, TypeOK, ClientPC
<1>18. ASSUME NEW c \in Clients, CloseAccepts(c) PROVE TypeOK'
  BY <1>18 DEF CloseAccepts, Go, TypeOK, ClientPC
<1>19. ASSUME NEW c \in Clients, BoxStarts(c) PROVE TypeOK'
  BY <1>19 DEF BoxStarts, Go, TypeOK, ClientPC, RunPC
<1>20. ASSUME NEW c \in Clients, BoxStartFails(c) PROVE TypeOK'
  BY <1>20 DEF BoxStartFails, Go, TypeOK, ClientPC
<1>21. ASSUME NEW c \in Clients, StartFinish(c) PROVE TypeOK'
  <2>1. result' \in [stage : Stages, measured : Outcome]
    BY <1>21, <1>0, FinishType DEF StartFinish
  <2> QED
    BY <1>21, <2>1 DEF StartFinish, Go, TypeOK, ClientPC
<1>22. ASSUME NEW c \in Clients, StartClose(c) PROVE TypeOK'
  BY <1>22 DEF StartClose, Go, TypeOK, ClientPC
<1>23. ASSUME NEW c \in Clients, CloseCancels(c) PROVE TypeOK'
  BY <1>23 DEF CloseCancels, Go, TypeOK, ClientPC
<1>24. ASSUME NEW c \in Clients, CloseWaited(c) PROVE TypeOK'
  BY <1>24 DEF CloseWaited, Go, TypeOK, ClientPC
<1>25. ASSUME NEW c \in Clients, CloseReleases(c) PROVE TypeOK'
  BY <1>25 DEF CloseReleases, Go, TypeOK, ClientPC
<1>26. CASE UNCHANGED vars
  BY <1>26 DEF vars, TypeOK
<1> QED
  BY <1>1, <1>2, <1>3, <1>4, <1>5, <1>6, <1>7, <1>8, <1>9, <1>10, <1>11,
     <1>12, <1>13, <1>14, <1>15, <1>16, <1>17, <1>18, <1>19, <1>20, <1>21,
     <1>22, <1>23, <1>24, <1>25, <1>26
     DEF Next, RunStep, ClientStep

\* Every variable of a session keeps its type.
THEOREM SessionTypeCorrect == Spec => []TypeOK
<1>1. Init => TypeOK
  BY SessionAssumption
     DEF Init, TypeOK, Nothing, Outcome, Stages, RunPC, ClientPC, Err
<1> QED
  BY <1>1, SessionTypeStep, PTL DEF Spec

\* The stage of a sample is never final.
LEMMA SampleStage == IF Done THEN SampleOf = result ELSE SampleOf.stage \notin Final
  BY ProgressStage DEF SampleOf, Final

\* Every step keeps the invariant.
LEMMA SessionStep == SessionInv /\ [Next]_vars => ClientInv' /\ RunInv'
<1> SUFFICES ASSUME TypeOK, ClientInv, RunInv, [Next]_vars PROVE ClientInv' /\ RunInv'
  BY DEF SessionInv
<1> USE DEF ClientInv, RunInv, At, Done, Starting, Measures, Final
<1>0. client \in [Clients -> ClientPC] /\ run \in RunPC
  BY DEF TypeOK
<1>1. CASE NoOutbound
  <2>1. result'.stage \in Final /\ (Done => result' = result)
    BY <1>1, FinishStage DEF NoOutbound
  <2> QED
    BY <1>1, <1>0, <2>1 DEF NoOutbound
<1>2. CASE Execute
  <2>1. result'.stage \notin Final
    BY <1>2, ProgressStage DEF Execute
  <2> QED
    BY <1>2, <1>0, <2>1 DEF Execute, Begin
<1>3. CASE Discovered
  <2>1. result'.stage \notin Final
    BY <1>3, ProgressStage DEF Discovered
  <2> QED
    BY <1>3, <1>0, <2>1 DEF Discovered, Begin
<1>4. ASSUME NEW e \in Err, DiscoveryFails(e) PROVE ClientInv' /\ RunInv'
  BY <1>4, <1>0 DEF DiscoveryFails, ReturnWith
<1>5. ASSUME NEW e \in Err, SelectionFails(e) PROVE ClientInv' /\ RunInv'
  BY <1>5, <1>0 DEF SelectionFails, ReturnWith
<1>6. CASE Selected
  <2>1. result'.stage \notin Final
    BY <1>6, ProgressStage DEF Selected
  <2> QED
    BY <1>6, <1>0, <2>1 DEF Selected, Begin
<1>7. CASE NoDownloadURL
  <2>1. result'.stage \notin Final
    BY <1>7, ProgressStage DEF NoDownloadURL
  <2> QED
    BY <1>7, <1>0, <2>1 DEF NoDownloadURL, ReturnWith
<1>8. ASSUME NEW hard \in {"none", "failure"}, NEW expired \in BOOLEAN, TransferEnds(hard, expired) PROVE ClientInv' /\ RunInv'
  <2>1. result'.stage \notin Final
    BY <1>8, SampleStage DEF TransferEnds
  <2> QED
    BY <1>8, <1>0, <2>1 DEF TransferEnds, Begin, ReturnWith
<1>9. ASSUME NEW e \in Err, SimpleRefused(e) PROVE ClientInv' /\ RunInv'
  BY <1>9, <1>0 DEF SimpleRefused, ReturnWith
<1>10. ASSUME NEW e \in Err, SimpleCopied(e) PROVE ClientInv' /\ RunInv'
  <2>1. result'.stage \notin Final
    BY <1>10, SampleStage DEF SimpleCopied
  <2> QED
    BY <1>10, <1>0, <2>1 DEF SimpleCopied, ReturnWith
<1>11. ASSUME NEW e \in Err, SimpleInterrupted(e) PROVE ClientInv' /\ RunInv'
  BY <1>11, <1>0 DEF SimpleInterrupted, ReturnWith
<1>12. CASE Finish
  <2>1. result'.stage \in Final /\ (Done => result' = result)
    BY <1>12, FinishStage DEF Finish
  <2> QED
    BY <1>12, <1>0, <2>1 DEF Finish
<1>13. CASE RunCloses
  BY <1>13, <1>0 DEF RunCloses
<1>14. CASE Move
  BY <1>14, <1>0 DEF Move
<1>15. CASE Sample
  <2>1. result'.stage \notin Final
    BY <1>15, SampleStage DEF Sample
  <2> QED
    BY <1>15, <1>0, <2>1 DEF Sample
<1>16. CASE Cancel
  BY <1>16, <1>0 DEF Cancel
<1>17. ASSUME NEW c \in Clients, StartAccepts(c) PROVE ClientInv' /\ RunInv'
  BY <1>17, <1>0 DEF StartAccepts, Go
<1>18. ASSUME NEW c \in Clients, CloseAccepts(c) PROVE ClientInv' /\ RunInv'
  BY <1>18, <1>0 DEF CloseAccepts, Go
<1>19. ASSUME NEW c \in Clients, BoxStarts(c) PROVE ClientInv' /\ RunInv'
  BY <1>19, <1>0 DEF BoxStarts, Go
<1>20. ASSUME NEW c \in Clients, BoxStartFails(c) PROVE ClientInv' /\ RunInv'
  BY <1>20, <1>0 DEF BoxStartFails, Go
<1>21. ASSUME NEW c \in Clients, StartFinish(c) PROVE ClientInv' /\ RunInv'
  <2>1. result'.stage \in Final /\ (Done => result' = result)
    BY <1>21, FinishStage DEF StartFinish
  <2> QED
    BY <1>21, <1>0, <2>1 DEF StartFinish, Go
<1>22. ASSUME NEW c \in Clients, StartClose(c) PROVE ClientInv' /\ RunInv'
  BY <1>22, <1>0 DEF StartClose, Go
<1>23. ASSUME NEW c \in Clients, CloseCancels(c) PROVE ClientInv' /\ RunInv'
  BY <1>23, <1>0 DEF CloseCancels, Go
<1>24. ASSUME NEW c \in Clients, CloseWaited(c) PROVE ClientInv' /\ RunInv'
  BY <1>24, <1>0 DEF CloseWaited, Go
<1>25. ASSUME NEW c \in Clients, CloseReleases(c) PROVE ClientInv' /\ RunInv'
  BY <1>25, <1>0 DEF CloseReleases, Go
<1>26. CASE UNCHANGED vars
  BY <1>26 DEF vars
<1> QED
  BY <1>1, <1>2, <1>3, <1>4, <1>5, <1>6, <1>7, <1>8, <1>9, <1>10, <1>11,
     <1>12, <1>13, <1>14, <1>15, <1>16, <1>17, <1>18, <1>19, <1>20, <1>21,
     <1>22, <1>23, <1>24, <1>25, <1>26
     DEF Next, RunStep, ClientStep

LEMMA SessionInvHolds == Spec => []SessionInv
<1>1. Init => ClientInv /\ RunInv
  BY DEF Init, ClientInv, RunInv, Starting, At, Done, Measures, Final
<1>2. ClientInv /\ RunInv /\ TypeOK <=> SessionInv
  BY DEF SessionInv
<1> QED
  BY <1>1, <1>2, SessionStep, SessionTypeCorrect, PTL DEF Spec

\* The box is running whenever the goroutine measures through it, however
\* many clients start and close the session.
THEOREM BoxAlwaysServesRun == Spec => []BoxServesRun
<1>1. SessionInv => BoxServesRun
  BY DEF SessionInv, RunInv, BoxServesRun
<1> QED
  BY <1>1, SessionInvHolds, PTL

\* A step after a Close has returned changes neither the result nor the box.
LEMMA ReleasedStep ==
  ASSUME SessionInv, [Next]_vars, \E c \in Clients : At(c, "released")
  PROVE  UNCHANGED <<result, box>>
<1>0. /\ box = "closed"
      /\ "closed" \in flags
      /\ "started" \in flags => Done
      /\ \A c \in Clients : ~At(c, "boxStart")
      /\ run \in {"none", "closing", "exit"}
      /\ "started" \notin flags => run = "none" /\ \A c \in Clients : client[c] \notin Starting
  BY DEF SessionInv, ClientInv, RunInv, At, TypeOK, RunPC
<1>1. CASE NoOutbound
  BY <1>1, <1>0 DEF NoOutbound
<1>2. CASE Execute
  BY <1>2, <1>0 DEF Execute
<1>3. CASE Discovered
  BY <1>3, <1>0 DEF Discovered
<1>4. ASSUME NEW e \in Err, DiscoveryFails(e) PROVE UNCHANGED <<result, box>>
  BY <1>4, <1>0 DEF DiscoveryFails
<1>5. ASSUME NEW e \in Err, SelectionFails(e) PROVE UNCHANGED <<result, box>>
  BY <1>5, <1>0 DEF SelectionFails
<1>6. CASE Selected
  BY <1>6, <1>0 DEF Selected
<1>7. CASE NoDownloadURL
  BY <1>7, <1>0 DEF NoDownloadURL
<1>8. ASSUME NEW hard \in {"none", "failure"}, NEW expired \in BOOLEAN, TransferEnds(hard, expired) PROVE UNCHANGED <<result, box>>
  BY <1>8, <1>0 DEF TransferEnds
<1>9. ASSUME NEW e \in Err, SimpleRefused(e) PROVE UNCHANGED <<result, box>>
  BY <1>9, <1>0 DEF SimpleRefused
<1>10. ASSUME NEW e \in Err, SimpleCopied(e) PROVE UNCHANGED <<result, box>>
  BY <1>10, <1>0 DEF SimpleCopied
<1>11. ASSUME NEW e \in Err, SimpleInterrupted(e) PROVE UNCHANGED <<result, box>>
  BY <1>11, <1>0 DEF SimpleInterrupted
<1>12. CASE Finish
  BY <1>12, <1>0 DEF Finish
<1>13. CASE RunCloses
  BY <1>13, <1>0 DEF RunCloses
<1>14. CASE Move
  BY <1>14, <1>0 DEF Move
<1>15. CASE Sample
  BY <1>15, <1>0 DEF Sample
<1>16. CASE Cancel
  BY <1>16, <1>0 DEF Cancel
<1>17. ASSUME NEW c \in Clients, StartAccepts(c) PROVE UNCHANGED <<result, box>>
  BY <1>17, <1>0 DEF StartAccepts
<1>18. ASSUME NEW c \in Clients, CloseAccepts(c) PROVE UNCHANGED <<result, box>>
  BY <1>18, <1>0 DEF CloseAccepts
<1>19. ASSUME NEW c \in Clients, BoxStarts(c) PROVE UNCHANGED <<result, box>>
  BY <1>19, <1>0 DEF BoxStarts, At
<1>20. ASSUME NEW c \in Clients, BoxStartFails(c) PROVE UNCHANGED <<result, box>>
  BY <1>20, <1>0 DEF BoxStartFails, At
<1>21. ASSUME NEW c \in Clients, StartFinish(c) PROVE UNCHANGED <<result, box>>
  <2>1. Done
    BY <1>21, <1>0 DEF StartFinish, At, Starting
  <2> QED
    BY <1>21, <1>0, <2>1, FinishStage DEF StartFinish
<1>22. ASSUME NEW c \in Clients, StartClose(c) PROVE UNCHANGED <<result, box>>
  BY <1>22, <1>0 DEF StartClose, At
<1>23. ASSUME NEW c \in Clients, CloseCancels(c) PROVE UNCHANGED <<result, box>>
  BY <1>23, <1>0 DEF CloseCancels
<1>24. ASSUME NEW c \in Clients, CloseWaited(c) PROVE UNCHANGED <<result, box>>
  BY <1>24, <1>0 DEF CloseWaited
<1>25. ASSUME NEW c \in Clients, CloseReleases(c) PROVE UNCHANGED <<result, box>>
  BY <1>25, <1>0 DEF CloseReleases, At
<1>26. CASE UNCHANGED vars
  BY <1>26 DEF vars
<1> QED
  BY <1>1, <1>2, <1>3, <1>4, <1>5, <1>6, <1>7, <1>8, <1>9, <1>10, <1>11,
     <1>12, <1>13, <1>14, <1>15, <1>16, <1>17, <1>18, <1>19, <1>20, <1>21,
     <1>22, <1>23, <1>24, <1>25, <1>26
     DEF Next, RunStep, ClientStep

\* A released session is final.
THEOREM ReleasedStaysFinal == Spec => ReleasedIsFinal
<1>1. SessionInv /\ [Next]_vars
        => [(\E c \in Clients : At(c, "released")) => UNCHANGED <<result, box>>]_vars
  BY ReleasedStep
<1> QED
  BY <1>1, SessionInvHolds, PTL DEF Spec, ReleasedIsFinal
-----------------------------------------------------------------------------
\* What the session shows has been measured: at each position of the
\* goroutine the outcome it fills, the counter of the phase and the result
\* agree as far as the phases before it have got.
NoneYet == outcome = Nothing /\ result.measured = Nothing

InDownload ==
  /\ mode \in {"download_upload", "download"}
  /\ outcome.server = "selected" /\ outcome.down = 0 /\ outcome.up = 0
  /\ result.measured.server = "selected"
  /\ result.measured.down <= moved /\ result.measured.up = 0

InUpload ==
  /\ Uploads(mode) /\ outcome.server = "selected" /\ outcome.up = 0
  /\ Downloads(mode) => outcome.down > 0
  /\ result.measured.server = "selected"
  /\ result.measured.down <= outcome.down /\ result.measured.up <= moved

InSimple ==
  /\ mode = "simple_download" /\ outcome = Nothing
  /\ result.measured.server = "none"
  /\ result.measured.down <= moved /\ result.measured.up = 0

BeforeFinish ==
  /\ result.measured.down <= outcome.down /\ result.measured.up <= outcome.up
  /\ err = "none" =>
       /\ Downloads(mode) => outcome.down > 0
       /\ Uploads(mode) => outcome.up > 0
       /\ mode # "simple_download" => outcome.server = "selected"

MeasureInv ==
  /\ run \in {"none", "outbound", "discovery", "latency"} => NoneYet
  /\ run \in {"discovery", "latency"} => mode # "simple_download"
  /\ run = "download" => InDownload
  /\ run = "upload" => InUpload
  /\ run = "simple" => InSimple
  /\ run = "finish" => BeforeFinish

\* What MeasurementsKept asks of a step.
Keeps ==
  /\ result'.measured.down >= result.measured.down
  /\ result'.measured.up >= result.measured.up
  /\ result.measured.server = "selected" => result'.measured.server = "selected"

\* What updateProgress and finish leave of the measurements.
LEMMA ProgressMeasured ==
  ASSUME NEW s, NEW d, NEW u, NEW v, ~Done
  PROVE  updateProgress(s, d, u, v).measured =
           [down |-> d, up |-> u,
            server |-> IF v = "none" THEN result.measured.server ELSE v]
  BY DEF updateProgress

LEMMA SampleMeasured ==
  ASSUME ~Done
  PROVE  /\ SampleOf.measured.down = IF run = "upload" THEN outcome.down ELSE moved
         /\ SampleOf.measured.up = IF run = "upload" THEN moved ELSE 0
         /\ SampleOf.measured.server = result.measured.server
<1>1. CASE run = "upload"
  <2>1. SampleOf.measured = [down |-> outcome.down, up |-> moved, server |-> result.measured.server]
    BY <1>1, ProgressMeasured DEF SampleOf
  <2> QED
    BY <1>1, <2>1
<1>2. CASE run # "upload"
  <2>1. SampleOf.measured = [down |-> moved, up |-> 0, server |-> result.measured.server]
    BY <1>2, ProgressMeasured DEF SampleOf
  <2> QED
    BY <1>2, <2>1
<1> QED
  BY <1>1, <1>2

LEMMA FinishMeasured ==
  ASSUME NEW o \in Outcome, NEW e, ~Done
  PROVE  /\ finish(o, e).stage = FinalStage(e)
         /\ finish(o, e).measured.down = o.down
         /\ finish(o, e).measured.up = o.up
         /\ finish(o, e).measured.server =
              IF o.server = "none" THEN result.measured.server ELSE o.server
  BY DEF finish, Outcome

\* finish with a nil outcome, which only adds the error.
LEMMA FinishNil ==
  ASSUME TypeOK, ~Done
  PROVE  /\ finish(result.measured, "failure").stage = "error"
         /\ finish(result.measured, "failure").measured = result.measured
<1>1. result.measured \in Outcome
  BY DEF TypeOK
<1>2. finish(result.measured, "failure").measured =
        [result.measured EXCEPT !.server = IF @ = "none" THEN result.measured.server ELSE @]
  BY DEF finish
<1>3. finish(result.measured, "failure").measured = result.measured
  BY <1>1, <1>2 DEF Outcome
<1> QED
  BY <1>1, <1>3, FinishMeasured DEF FinalStage

\* A phase that returns no error has moved data.
LEMMA VerdictNone ==
  ASSUME NEW h \in {"none", "failure"}, NEW t \in Nat, NEW c, NEW x,
         TransferVerdict(h, t, c, x) = "none"
  PROVE  h = "none" /\ t > 0
  BY DEF TransferVerdict, isBenignTransferError

\* Every step keeps the measurements in order.
LEMMA MeasureStep ==
  ASSUME SessionInv, MeasureInv, CompleteIsMeasured, [Next]_vars
  PROVE  MeasureInv' /\ CompleteIsMeasured' /\ Keeps
<1>0. /\ result.measured.down \in Nat /\ result.measured.up \in Nat
      /\ outcome.down \in Nat /\ outcome.up \in Nat /\ moved \in Nat /\ mode \in Modes
      /\ result.measured \in Outcome /\ outcome \in Outcome
  BY SessionAssumption DEF SessionInv, TypeOK, Outcome
<1>a. TypeOK /\ TypeOK'
  BY SessionTypeStep DEF SessionInv
<1>b. run \in RunPC /\ (run \in Measures \cup {"outbound", "finish"} => ~Done)
  BY DEF SessionInv, RunInv, TypeOK
<1>c. ~Done' => CompleteIsMeasured'
  BY DEF CompleteIsMeasured, Done, Final
<1>d. ASSUME result' = result, mode' = mode PROVE CompleteIsMeasured' /\ Keeps
  BY <1>d, <1>0 DEF CompleteIsMeasured, Keeps
<1>1. CASE NoOutbound
  <2>1. result'.stage = "error" /\ result'.measured = result.measured
    BY <1>1, <1>a, <1>b, FinishNil DEF NoOutbound
  <2> QED
    BY <1>1, <1>0, <2>1 DEF NoOutbound, MeasureInv, CompleteIsMeasured, Keeps
<1>2. CASE Execute
  <2>1. NoneYet /\ ~Done
    BY <1>2, <1>b DEF Execute, MeasureInv
  <2>2. result'.measured = Nothing /\ result'.stage \notin Final
    BY <1>2, <2>1, ProgressMeasured, ProgressStage DEF Execute, NoneYet, Nothing, Final
  <2>3. Keeps
    BY <2>1, <2>2 DEF Keeps, NoneYet, Nothing
  <2>4. MeasureInv'
    BY <1>2, <2>1, <2>2 DEF Execute, Begin, MeasureInv, NoneYet, InSimple, Nothing
  <2> QED
    BY <1>c, <2>2, <2>3, <2>4 DEF Done
<1>3. CASE Discovered
  <2>1. NoneYet /\ ~Done /\ mode # "simple_download"
    BY <1>3, <1>b DEF Discovered, MeasureInv, Measures
  <2>2. result'.measured = Nothing /\ result'.stage \notin Final
    BY <1>3, <2>1, ProgressMeasured, ProgressStage DEF Discovered, NoneYet, Nothing, Final
  <2>3. Keeps
    BY <2>1, <2>2 DEF Keeps, NoneYet, Nothing
  <2>4. MeasureInv'
    BY <1>3, <2>1, <2>2 DEF Discovered, Begin, MeasureInv, NoneYet
  <2> QED
    BY <1>c, <2>2, <2>3, <2>4 DEF Done
<1>4. ASSUME NEW e \in Err, DiscoveryFails(e) PROVE MeasureInv' /\ CompleteIsMeasured' /\ Keeps
  <2>1. NoneYet /\ e # "none"
    BY <1>4 DEF DiscoveryFails, MeasureInv
  <2>2. MeasureInv'
    BY <1>4, <2>1 DEF DiscoveryFails, ReturnWith, MeasureInv, BeforeFinish, NoneYet, Nothing
  <2> QED
    BY <1>4, <1>d, <2>2 DEF DiscoveryFails
<1>5. ASSUME NEW e \in Err, SelectionFails(e) PROVE MeasureInv' /\ CompleteIsMeasured' /\ Keeps
  <2>1. NoneYet /\ e # "none"
    BY <1>5 DEF SelectionFails, MeasureInv
  <2>2. MeasureInv'
    BY <1>5, <2>1 DEF SelectionFails, ReturnWith, MeasureInv, BeforeFinish, NoneYet, Nothing
  <2> QED
    BY <1>5, <1>d, <2>2 DEF SelectionFails
<1>6. CASE Selected
  <2>1. NoneYet /\ ~Done /\ mode # "simple_download"
    BY <1>6, <1>b DEF Selected, MeasureInv, Measures
  <2>2. result'.measured = [down |-> 0, up |-> 0, server |-> "selected"] /\ result'.stage \notin Final
    BY <1>6, <2>1, ProgressMeasured, ProgressStage DEF Selected, Final
  <2>3. outcome'.down = 0 /\ outcome'.up = 0 /\ outcome'.server = "selected"
    BY <1>6, <2>1 DEF Selected, NoneYet, Nothing
  <2>4. Keeps
    BY <2>1, <2>2 DEF Keeps, NoneYet, Nothing
  <2>5. CASE Downloads(mode)
    <3>1. InDownload' /\ run' = "download"
      BY <1>6, <1>0, <2>1, <2>2, <2>3, <2>5 DEF Selected, Begin, InDownload, Downloads
    <3> QED
      BY <1>c, <2>2, <2>4, <3>1 DEF MeasureInv, Done
  <2>6. CASE ~Downloads(mode)
    <3>1. InUpload' /\ run' = "upload"
      BY <1>6, <1>0, <2>1, <2>2, <2>3, <2>6 DEF Selected, Begin, InUpload, Downloads, Uploads, Modes
    <3> QED
      BY <1>c, <2>2, <2>4, <3>1 DEF MeasureInv, Done
  <2> QED
    BY <2>5, <2>6
<1>7. CASE NoDownloadURL
  <2>1. NoneYet /\ ~Done
    BY <1>7, <1>b DEF NoDownloadURL, MeasureInv, Measures
  <2>2. result'.measured = [down |-> 0, up |-> 0, server |-> "selected"] /\ result'.stage \notin Final
    BY <1>7, <2>1, ProgressMeasured, ProgressStage DEF NoDownloadURL, Final
  <2>3. outcome'.down = 0 /\ outcome'.up = 0
    BY <1>7, <2>1 DEF NoDownloadURL, NoneYet, Nothing
  <2>4. Keeps
    BY <2>1, <2>2 DEF Keeps, NoneYet, Nothing
  <2>5. BeforeFinish' /\ run' = "finish"
    BY <1>7, <2>2, <2>3 DEF NoDownloadURL, ReturnWith, BeforeFinish
  <2> QED
    BY <1>c, <2>2, <2>4, <2>5 DEF MeasureInv, Done
<1>8. ASSUME NEW hard \in {"none", "failure"}, NEW expired \in BOOLEAN, TransferEnds(hard, expired)
      PROVE  MeasureInv' /\ CompleteIsMeasured' /\ Keeps
  <2> DEFINE verdict == TransferVerdict(hard, moved, Cancelled, expired)
  <2>1. ~Done /\ ~Done'
    BY <1>8, <1>b, SampleStage DEF TransferEnds, Measures, Done
  <2>2. verdict = "none" => hard = "none" /\ moved > 0
    BY <1>0, VerdictNone
  <2>3. result' = SampleOf \/ (result' = result /\ hard = "failure")
    BY <1>8 DEF TransferEnds
  <2>4. mode' = mode /\ outcome' = Measured
    BY <1>8 DEF TransferEnds
  <2>5. \/ run = "download" /\ Uploads(mode) /\ verdict = "none" /\ run' = "upload" /\ moved' = 0
        \/ run' = "finish" /\ err' = verdict
    BY <1>8 DEF TransferEnds, Begin, ReturnWith
  <2> HIDE DEF verdict
  <2>6. CASE run = "download"
    <3>1. InDownload
      BY <2>6 DEF MeasureInv
    <3>2. outcome'.down = moved /\ outcome'.up = 0 /\ outcome'.server = "selected"
      BY <1>0, <2>4, <2>6, <3>1 DEF Measured, InDownload, Outcome
    <3>3. /\ result.measured.down <= result'.measured.down /\ result'.measured.down <= moved
          /\ result'.measured.up = 0 /\ result'.measured.server = "selected"
      BY <1>0, <2>1, <2>3, <2>6, <3>1, SampleMeasured DEF InDownload
    <3>4. Keeps
      BY <1>0, <3>1, <3>3 DEF Keeps, InDownload
    <3>5. CASE run' = "upload" /\ Uploads(mode) /\ verdict = "none" /\ moved' = 0
      <4>1. InUpload'
        BY <2>2, <2>4, <3>2, <3>3, <3>5 DEF InUpload
      <4> QED
        BY <1>c, <2>1, <3>4, <3>5, <4>1 DEF MeasureInv
    <3>6. CASE run' = "finish" /\ err' = verdict /\ ~(verdict = "none" /\ Uploads(mode))
      <4>1. BeforeFinish'
        BY <1>0, <2>2, <2>4, <3>1, <3>2, <3>3, <3>6 DEF BeforeFinish, InDownload, Downloads, Uploads
      <4> QED
        BY <1>c, <2>1, <3>4, <3>6, <4>1 DEF MeasureInv
    <3> QED
      BY <1>8, <2>5, <2>6, <3>5, <3>6 DEF TransferEnds, Begin, ReturnWith, verdict
  <2>7. CASE run = "upload"
    <3>1. InUpload
      BY <2>7 DEF MeasureInv
    <3>2. outcome'.down = outcome.down /\ outcome'.up = moved /\ outcome'.server = "selected"
      BY <1>0, <2>4, <2>7, <3>1 DEF Measured, InUpload, Outcome
    <3>3. /\ result.measured.down <= result'.measured.down /\ result'.measured.down <= outcome.down
          /\ result.measured.up <= result'.measured.up /\ result'.measured.up <= moved
          /\ result'.measured.server = "selected"
      BY <1>0, <2>1, <2>3, <2>7, <3>1, SampleMeasured DEF InUpload
    <3>4. Keeps
      BY <1>0, <1>a, <3>3 DEF Keeps, TypeOK, Outcome
    <3>5. run' = "finish" /\ err' = verdict
      BY <2>5, <2>7
    <3>6. BeforeFinish'
      BY <1>0, <2>2, <2>4, <3>1, <3>2, <3>3, <3>5 DEF BeforeFinish, InUpload
    <3> QED
      BY <1>c, <2>1, <3>4, <3>5, <3>6 DEF MeasureInv
  <2> QED
    BY <1>8, <2>6, <2>7 DEF TransferEnds
<1>9. ASSUME NEW e \in Err, SimpleRefused(e) PROVE MeasureInv' /\ CompleteIsMeasured' /\ Keeps
  <2>1. InSimple /\ e # "none" /\ moved = 0
    BY <1>9 DEF SimpleRefused, MeasureInv
  <2>2. MeasureInv'
    BY <1>0, <1>9, <2>1 DEF SimpleRefused, ReturnWith, MeasureInv, BeforeFinish, InSimple, Nothing
  <2> QED
    BY <1>9, <1>d, <2>2 DEF SimpleRefused
<1>10. ASSUME NEW e \in Err, SimpleCopied(e) PROVE MeasureInv' /\ CompleteIsMeasured' /\ Keeps
  <2>1. InSimple /\ ~Done /\ ~Done' /\ run = "simple"
    BY <1>10, <1>b, SampleStage DEF SimpleCopied, MeasureInv, Measures, Done
  <2>2. outcome'.down = moved /\ outcome'.up = 0
    BY <1>10, <1>0, <2>1 DEF SimpleCopied, Measured, InSimple, Nothing
  <2>3. /\ result'.measured.down = moved /\ result'.measured.up = 0
        /\ result'.measured.server = "none"
    BY <1>10, <2>1, SampleMeasured DEF SimpleCopied, InSimple
  <2>4. Keeps
    BY <1>0, <2>1, <2>3 DEF Keeps, InSimple
  <2>5. run' = "finish" /\ (err' = "none" => moved # 0) /\ mode' = mode
    BY <1>10 DEF SimpleCopied, ReturnWith
  <2>6. BeforeFinish'
    BY <1>0, <2>1, <2>2, <2>3, <2>5 DEF BeforeFinish, InSimple, Uploads
  <2> QED
    BY <1>c, <2>1, <2>4, <2>5, <2>6 DEF MeasureInv
<1>11. ASSUME NEW e \in Err, SimpleInterrupted(e) PROVE MeasureInv' /\ CompleteIsMeasured' /\ Keeps
  <2>1. InSimple /\ e # "none"
    BY <1>11 DEF SimpleInterrupted, MeasureInv
  <2>2. outcome'.down = moved /\ outcome'.up = 0
    BY <1>11, <1>0, <2>1 DEF SimpleInterrupted, Measured, InSimple, Nothing
  <2>3. run' = "finish" /\ err' # "none" /\ result' = result /\ mode' = mode
    BY <1>11, <2>1 DEF SimpleInterrupted, ReturnWith
  <2>4. MeasureInv'
    BY <1>0, <2>1, <2>2, <2>3 DEF MeasureInv, BeforeFinish, InSimple
  <2> QED
    BY <1>d, <2>3, <2>4
<1>12. CASE Finish
  <2>1. ~Done /\ BeforeFinish /\ run' = "closing" /\ mode' = mode
    BY <1>12, <1>b DEF Finish, MeasureInv
  <2>2. /\ result'.stage = FinalStage(err)
        /\ result'.measured.down = outcome.down /\ result'.measured.up = outcome.up
        /\ result'.measured.server = IF outcome.server = "none" THEN result.measured.server
                                     ELSE outcome.server
    BY <1>12, <1>0, <2>1, FinishMeasured DEF Finish
  <2>3. Keeps
    BY <1>0, <2>1, <2>2 DEF Keeps, BeforeFinish, Outcome
  <2>4. result'.stage = "complete" => err = "none"
    BY <2>2 DEF FinalStage
  <2>5. CompleteIsMeasured'
    BY <2>1, <2>2, <2>4 DEF CompleteIsMeasured, BeforeFinish
  <2> QED
    BY <2>1, <2>3, <2>5 DEF MeasureInv
<1>13. CASE RunCloses
  BY <1>13, <1>d DEF RunCloses, MeasureInv
<1>14. CASE Move
  <2>1. MeasureInv'
    BY <1>14, <1>0 DEF Move, MeasureInv, InDownload, InUpload, InSimple
  <2> QED
    BY <1>14, <1>d, <2>1 DEF Move
<1>15. CASE Sample
  <2>1. ~Done /\ ~Done'
    BY <1>15, <1>b, SampleStage DEF Sample, Measures, Done
  <2>2. /\ result'.measured.down = IF run = "upload" THEN outcome.down ELSE moved
        /\ result'.measured.up = IF run = "upload" THEN moved ELSE 0
        /\ result'.measured.server = result.measured.server
    BY <1>15, <2>1, SampleMeasured DEF Sample
  <2>3. Keeps
    BY <1>15, <1>0, <2>2 DEF Sample, MeasureInv, InDownload, InUpload, InSimple, Keeps
  <2>4. MeasureInv'
    BY <1>15, <1>0, <2>2 DEF Sample, MeasureInv, InDownload, InUpload, InSimple
  <2> QED
    BY <1>c, <2>1, <2>3, <2>4
<1>16. CASE Cancel
  BY <1>16, <1>d DEF Cancel, MeasureInv, NoneYet, InDownload, InUpload, InSimple, BeforeFinish
<1> DEFINE quiet == UNCHANGED <<mode, result, run, outcome, moved, err>>
<1>17. ASSUME quiet PROVE MeasureInv' /\ CompleteIsMeasured' /\ Keeps
  BY <1>17, <1>d DEF MeasureInv, NoneYet, InDownload, InUpload, InSimple, BeforeFinish
<1>18. ASSUME NEW c \in Clients, StartAccepts(c) \/ CloseAccepts(c) PROVE quiet
  BY <1>18 DEF StartAccepts, CloseAccepts
<1>19. ASSUME NEW c \in Clients, BoxStarts(c) PROVE MeasureInv' /\ CompleteIsMeasured' /\ Keeps
  <2>1. NoneYet
    BY <1>19 DEF BoxStarts, SessionInv, ClientInv, At, Starting, MeasureInv
  <2> QED
    BY <1>19, <1>d, <2>1 DEF BoxStarts, MeasureInv, NoneYet
<1>20. ASSUME NEW c \in Clients, BoxStartFails(c) \/ StartClose(c) PROVE quiet
  BY <1>20 DEF BoxStartFails, StartClose
<1>21. ASSUME NEW c \in Clients, StartFinish(c) PROVE MeasureInv' /\ CompleteIsMeasured' /\ Keeps
  <2>1. run = "none" /\ NoneYet
    BY <1>21 DEF StartFinish, SessionInv, ClientInv, At, Starting, MeasureInv
  <2>2. CASE Done
    BY <1>21, <1>17, <2>2, FinishStage DEF StartFinish
  <2>3. CASE ~Done
    <3>1. result'.stage = "error" /\ result'.measured = result.measured
      BY <1>21, <1>a, <2>3, FinishNil DEF StartFinish
    <3> QED
      BY <1>21, <1>0, <2>1, <3>1 DEF StartFinish, MeasureInv, NoneYet, CompleteIsMeasured, Keeps
  <2> QED
    BY <2>2, <2>3
<1>22. ASSUME NEW c \in Clients, CloseCancels(c) \/ CloseWaited(c) \/ CloseReleases(c) PROVE quiet
  BY <1>22 DEF CloseCancels, CloseWaited, CloseReleases
<1>23. CASE UNCHANGED vars
  BY <1>23, <1>17 DEF vars
<1> QED
  BY <1>1, <1>2, <1>3, <1>4, <1>5, <1>6, <1>7, <1>8, <1>9, <1>10, <1>11,
     <1>12, <1>13, <1>14, <1>15, <1>16, <1>17, <1>18, <1>19, <1>20, <1>21,
     <1>22, <1>23
     DEF Next, RunStep, ClientStep

LEMMA MeasureInvHolds == Spec => [](SessionInv /\ MeasureInv /\ CompleteIsMeasured)
<1>1. Init => MeasureInv /\ CompleteIsMeasured
  BY DEF Init, MeasureInv, NoneYet, CompleteIsMeasured
<1>2. SessionInv /\ MeasureInv /\ CompleteIsMeasured /\ [Next]_vars
        => MeasureInv' /\ CompleteIsMeasured'
  BY MeasureStep
<1> QED
  BY <1>1, <1>2, SessionInvHolds, PTL DEF Spec

\* Whatever interrupts a session, "complete" means that every direction of
\* its mode has moved data and that the server is known.
THEOREM CompleteAlwaysMeasured == Spec => []CompleteIsMeasured
  BY MeasureInvHolds, PTL

\* No sample, change of phase or finish takes a measurement back.
THEOREM MeasurementsAlwaysKept == Spec => MeasurementsKept
<1>1. SessionInv /\ MeasureInv /\ CompleteIsMeasured /\ [Next]_vars => [Keeps]_vars
  BY MeasureStep
<1> QED
  BY <1>1, MeasureInvHolds, PTL DEF Spec, MeasurementsKept, Keeps
-----------------------------------------------------------------------------
\* The session implements TestSession.
Gone == \E c \in Clients : At(c, "released")

\* A client that moves elsewhere was not released, and leaves the others.
LEMMA GoneKept ==
  ASSUME client \in [Clients -> ClientPC],
         NEW c \in Clients, NEW pc, ~At(c, "released"), pc # "released", Go(c, pc)
  PROVE  Gone' <=> Gone
  BY DEF Gone, At, Go

\* What the phase of a session is while it has not been released.
LEMMA LivePhase ==
  ASSUME ~Gone
  PROVE  /\ Done => Phase = "done"
         /\ ~Done /\ "started" \in flags => Phase = "running"
         /\ ~Done /\ "started" \notin flags => Phase = "new"
  BY DEF Phase, Gone

\* Steps that Gone, Done, started and the box do not see.
LEMMA QuietStep ==
  ASSUME box' = box, Gone' <=> Gone, Done' <=> Done,
         "started" \in flags' <=> "started" \in flags
  PROVE  UNCHANGED Contract!sessionVars
<1>1. Phase' = Phase
  BY DEF Phase, Gone
<1> QED
  BY <1>1 DEF Contract!sessionVars

\* The three steps in which the result becomes final.
LEMMA CompleteStep ==
  ASSUME SessionInv, ~Done, "started" \in flags, Done', box' = box, Gone' <=> Gone
  PROVE  Contract!Complete
<1>1. ~Gone
  BY DEF SessionInv, ClientInv, Gone, At
<1>2. Phase = "running"
  BY <1>1, LivePhase
<1>3. Phase' = "done"
  BY <1>1 DEF Phase, Gone
<1> QED
  BY <1>2, <1>3 DEF Contract!Complete

\* The two steps that close the box of a session that is done.
LEMMA TurnOffStep ==
  ASSUME SessionInv, Done, Done', box' = "closed", Gone' <=> Gone,
         "started" \in flags' <=> "started" \in flags
  PROVE  [Contract!SessionNext]_(Contract!sessionVars)
<1>1. CASE Gone
  <2>1. box = "closed"
    BY <1>1 DEF Gone, SessionInv, ClientInv
  <2> QED
    BY <2>1, QuietStep
<1>2. CASE ~Gone
  <2>1. Phase = "done"
    BY <1>2, LivePhase
  <2>2. Phase' = "done"
    BY <1>2 DEF Phase, Gone
  <2> QED
    BY <2>1, <2>2 DEF Contract!SessionNext, Contract!TurnOff
<1> QED
  BY <1>1, <1>2

LEMMA ContractStep ==
  ASSUME SessionInv, [Next]_vars
  PROVE  [Contract!SessionNext]_(Contract!sessionVars)
<1> DEFINE Kept == [Contract!SessionNext]_(Contract!sessionVars)
<1>0. client \in [Clients -> ClientPC]
  BY DEF SessionInv, TypeOK
<1>a. /\ run \in Measures \cup {"outbound", "finish"} => ~Done
      /\ run \in {"closing", "exit"} => Done
      /\ run # "none" => "started" \in flags
  BY DEF SessionInv, RunInv
<1>b. ASSUME client' = client PROVE Gone' <=> Gone
  BY <1>b DEF Gone, At
<1>c. ASSUME result' = result PROVE Done' <=> Done
  BY <1>c DEF Done
<1>d. ASSUME client' = client, flags' = flags, box' = box, Done' <=> Done PROVE Kept
  BY <1>b, <1>d, QuietStep
<1>1. CASE NoOutbound \/ Finish
  <2>1. ~Done /\ Done' /\ "started" \in flags /\ box' = box /\ client' = client
    BY <1>1, <1>a, FinishStage DEF NoOutbound, Finish, Done
  <2> QED
    BY <1>b, <2>1, CompleteStep DEF Contract!SessionNext
<1>2. CASE Execute \/ Discovered \/ Selected \/ NoDownloadURL
  <2>1. ~Done /\ ~Done'
    BY <1>2, <1>a, ProgressStage
       DEF Execute, Discovered, Selected, NoDownloadURL, Measures, Done, Final
  <2> QED
    BY <1>2, <1>d, <2>1 DEF Execute, Discovered, Selected, NoDownloadURL
<1>3. ASSUME NEW e \in Err,
             DiscoveryFails(e) \/ SelectionFails(e) \/ SimpleRefused(e) \/ SimpleInterrupted(e)
      PROVE  Kept
  BY <1>3, <1>c, <1>d DEF DiscoveryFails, SelectionFails, SimpleRefused, SimpleInterrupted
<1>4. ASSUME NEW hard \in {"none", "failure"}, NEW expired \in BOOLEAN, TransferEnds(hard, expired)
      PROVE  Kept
  <2>1. ~Done /\ ~Done'
    BY <1>4, <1>a, SampleStage DEF TransferEnds, Measures, Done
  <2> QED
    BY <1>4, <1>d, <2>1 DEF TransferEnds
<1>5. ASSUME NEW e \in Err, SimpleCopied(e) PROVE Kept
  <2>1. ~Done /\ ~Done'
    BY <1>5, <1>a, SampleStage DEF SimpleCopied, Measures, Done
  <2> QED
    BY <1>5, <1>d, <2>1 DEF SimpleCopied
<1>6. CASE RunCloses
  <2>1. Done /\ Done' /\ box' = "closed" /\ client' = client /\ flags' = flags
    BY <1>6, <1>a, <1>c DEF RunCloses
  <2> QED
    BY <1>b, <2>1, TurnOffStep
<1>7. CASE Move
  BY <1>7, <1>c, <1>d DEF Move
<1>8. CASE Sample
  <2>1. ~Done /\ ~Done'
    BY <1>8, <1>a, SampleStage DEF Sample, Measures, Done
  <2> QED
    BY <1>8, <1>d, <2>1 DEF Sample
<1>9. CASE Cancel
  <2>1. box' = box /\ client' = client /\ result' = result
        /\ ("started" \in flags' <=> "started" \in flags)
    BY <1>9 DEF Cancel
  <2> QED
    BY <1>b, <1>c, <2>1, QuietStep
<1>10. ASSUME NEW c \in Clients, StartAccepts(c) PROVE Kept
  <2>1. ~Gone /\ ~Done /\ "started" \notin flags
    BY <1>10 DEF StartAccepts, SessionInv, ClientInv, RunInv, Gone, At
  <2>2. (Gone' <=> Gone) /\ (Done' <=> Done) /\ "started" \in flags' /\ box' = box
    BY <1>0, <1>c, <1>10, GoneKept DEF StartAccepts, At
  <2>3. Phase = "new"
    BY <2>1, LivePhase
  <2>4. Phase' = "running"
    BY <2>1, <2>2 DEF Phase, Gone
  <2> QED
    BY <2>2, <2>3, <2>4 DEF Contract!SessionNext, Contract!Begin
<1>11. ASSUME NEW c \in Clients, CloseAccepts(c) \/ CloseCancels(c) \/ CloseWaited(c) PROVE Kept
  <2>1. PICK pc \in {"cancelThenWait", "cancelThenClose", "wait", "boxClose"} : Go(c, pc)
    BY <1>11 DEF CloseAccepts, CloseCancels, CloseWaited
  <2>2. ~At(c, "released") /\ box' = box /\ result' = result
        /\ ("started" \in flags' <=> "started" \in flags)
    BY <1>11 DEF CloseAccepts, CloseCancels, CloseWaited, At
  <2>3. Gone' <=> Gone
    BY <1>0, <2>1, <2>2, GoneKept
  <2> QED
    BY <1>c, <2>2, <2>3, QuietStep
<1>12. ASSUME NEW c \in Clients, BoxStarts(c) \/ BoxStartFails(c) PROVE Kept
  <2>1. At(c, "boxStart") /\ box = "new" /\ box' = "started" /\ flags' = flags /\ result' = result
    BY <1>12 DEF BoxStarts, BoxStartFails, SessionInv, ClientInv
  <2>2. ~Done /\ "started" \in flags
    BY <2>1 DEF SessionInv, ClientInv, At, Starting
  <2>3. ~Gone
    BY <2>2 DEF SessionInv, ClientInv, Gone, At
  <2>4. Gone' <=> Gone
    BY <1>0, <1>12, <2>1, GoneKept DEF BoxStarts, BoxStartFails, At
  <2>5. Phase = "running"
    BY <2>2, <2>3, LivePhase
  <2>6. Phase' = "running"
    BY <1>c, <2>1, <2>2, <2>3, <2>4 DEF Phase, Gone
  <2> QED
    BY <2>1, <2>5, <2>6 DEF Contract!SessionNext, Contract!TurnOn
<1>13. ASSUME NEW c \in Clients, StartFinish(c) PROVE Kept
  <2>1. "started" \in flags /\ flags' = flags /\ box' = box /\ Done'
    BY <1>13, FinishStage DEF StartFinish, SessionInv, ClientInv, At, Starting, Done
  <2>2. Gone' <=> Gone
    BY <1>0, <1>13, GoneKept DEF StartFinish, At
  <2>3. CASE Done
    BY <2>1, <2>2, <2>3, QuietStep
  <2>4. CASE ~Done
    BY <2>1, <2>2, <2>4, CompleteStep DEF Contract!SessionNext
  <2> QED
    BY <2>3, <2>4
<1>14. ASSUME NEW c \in Clients, StartClose(c) PROVE Kept
  <2>1. Done /\ Done' /\ box' = "closed" /\ flags' = flags
    BY <1>14, <1>c DEF StartClose, SessionInv, ClientInv
  <2>2. Gone' <=> Gone
    BY <1>0, <1>14, GoneKept DEF StartClose, At
  <2> QED
    BY <2>1, <2>2, TurnOffStep
<1>15. ASSUME NEW c \in Clients, CloseReleases(c) PROVE Kept
  <2>1. Gone' /\ box' = "closed" /\ flags' = flags /\ result' = result
    BY <1>0, <1>15 DEF CloseReleases, Go, Gone, At
  <2>2. "started" \in flags <=> Done
    BY <1>15 DEF CloseReleases, SessionInv, ClientInv, RunInv, At
  <2>3. CASE Gone
    <3>1. box = "closed"
      BY <2>3 DEF Gone, SessionInv, ClientInv
    <3> QED
      BY <1>c, <2>1, <2>3, <3>1, QuietStep
  <2>4. CASE ~Gone
    <3>1. Phase \in {"new", "done"}
      BY <2>2, <2>4, LivePhase
    <3>2. Phase' = "released"
      BY <2>1 DEF Phase, Gone
    <3> QED
      BY <2>1, <3>1, <3>2 DEF Contract!SessionNext, Contract!Release
  <2> QED
    BY <2>3, <2>4
<1>16. CASE UNCHANGED vars
  BY <1>16, <1>c, <1>d DEF vars
<1> QED
  BY <1>1, <1>2, <1>3, <1>4, <1>5, <1>6, <1>7, <1>8, <1>9, <1>10, <1>11,
     <1>12, <1>13, <1>14, <1>15, <1>16
     DEF Next, RunStep, ClientStep

\* A session of any number of clients keeps the contract of TestSession:
\* started at most once, its core on only between Start and Close, and
\* released, once it was started, only after its run has ended.
THEOREM SessionImplementsContract == Spec => ContractKept
<1>1. Init => Contract!SessionInit
  BY DEF Init, Contract!SessionInit, Phase, Done, Final, At
<1>2. SessionInv /\ [Next]_vars => [Contract!SessionNext]_(Contract!sessionVars)
  BY ContractStep
<1> QED
  BY <1>1, <1>2, SessionInvHolds, PTL DEF Spec, ContractKept, Contract!SessionSpec

-----------------------------------------------------------------------------
(* Nobody waits in vain *)

\* Somebody is left to bring a started session to its end: the goroutine or
\* the client whose Start goes on.
Carried ==
  \/ run \notin {"none", "exit"}
  \/ \E c \in Clients : client[c] \in Starting

\* A started session is done and has given its box back, or somebody carries
\* it there; and a Close waits on done only for a started session, so that
\* its wait always has somebody to end it (what StartedIsDone and
\* CloseReturns rest on, without any fairness).
EndIsCarried ==
  /\ "started" \in flags => (Done /\ box = "closed") \/ Carried
  /\ \A c \in Clients :
       client[c] \in {"cancelThenWait", "wait"} => "started" \in flags /\ (Done \/ Carried)

\* The inductive form: the second part follows from the first.
WaitsForStarted ==
  /\ "started" \in flags => (Done /\ box = "closed") \/ Carried
  /\ \A c \in Clients : client[c] \in {"cancelThenWait", "wait"} => "started" \in flags

LEMMA CarriedStep ==
  ASSUME SessionInv, WaitsForStarted, [Next]_vars
  PROVE  WaitsForStarted'
<1> USE DEF SessionInv, TypeOK, ClientInv, RunInv, WaitsForStarted, Carried, Starting, At, Go
<1>1. Done => result' = result /\ Done'
  <2>1. \A st, d, u, v : Done => updateProgress(st, d, u, v) = result
    BY ProgressStage
  <2>2. \A o, e : Done => finish(o, e) = result
    BY FinishStage
  <2>3. Done => SampleOf = result
    BY SampleStage
  <2> HIDE DEF SessionInv, TypeOK, ClientInv, RunInv, WaitsForStarted, Carried
  <2>4. ASSUME Done PROVE result' = result
    <3>1. CASE RunStep
      BY <2>1, <2>2, <2>3, <2>4, <3>1
         DEF RunStep, NoOutbound, Execute, Discovered, DiscoveryFails, Selected,
             SelectionFails, NoDownloadURL, TransferEnds, SimpleRefused, SimpleCopied,
             SimpleInterrupted, Finish, RunCloses
    <3>2. CASE Move \/ Sample \/ Cancel \/ UNCHANGED vars
      BY <2>3, <2>4, <3>2 DEF Move, Sample, Cancel, vars
    <3>3. ASSUME NEW c \in Clients, StartAccepts(c) \/ CloseAccepts(c) \/ ClientStep(c)
          PROVE  result' = result
      BY <2>2, <2>4, <3>3
         DEF StartAccepts, CloseAccepts, ClientStep, BoxStarts, BoxStartFails, StartFinish,
             StartClose, CloseCancels, CloseWaited, CloseReleases
    <3> QED
      BY <3>1, <3>2, <3>3 DEF Next
  <2> QED
    BY <2>4 DEF Done
<1>2. CASE RunStep
  <2>1. CASE RunCloses
    BY <1>1, <2>1 DEF RunCloses, Measures
  <2>2. CASE Finish \/ NoOutbound
    BY <2>2 DEF Finish, NoOutbound
  <2>3. CASE ~RunCloses /\ ~Finish /\ ~NoOutbound
    <3>1. run' \notin {"none", "exit"} /\ UNCHANGED <<flags, client>>
      BY <1>2, <2>3
         DEF RunStep, Execute, Discovered, DiscoveryFails, Selected, SelectionFails,
             NoDownloadURL, TransferEnds, SimpleRefused, SimpleCopied, SimpleInterrupted,
             Begin, ReturnWith
    <3> QED
      BY <3>1
  <2> QED
    BY <2>1, <2>2, <2>3
<1>3. CASE Move \/ Sample \/ Cancel \/ UNCHANGED vars
  BY <1>1, <1>3 DEF Move, Sample, Cancel, vars, Done
<1>4. ASSUME NEW c \in Clients, StartAccepts(c) PROVE WaitsForStarted'
  BY <1>4 DEF StartAccepts
<1>5. ASSUME NEW c \in Clients, CloseAccepts(c) PROVE WaitsForStarted'
  BY <1>1, <1>5 DEF CloseAccepts
<1>6. ASSUME NEW c \in Clients, BoxStarts(c) PROVE WaitsForStarted'
  BY <1>6 DEF BoxStarts
<1>7. ASSUME NEW c \in Clients, BoxStartFails(c) PROVE WaitsForStarted'
  BY <1>7 DEF BoxStartFails
<1>8. ASSUME NEW c \in Clients, StartFinish(c) PROVE WaitsForStarted'
  BY <1>8 DEF StartFinish
<1>9. ASSUME NEW c \in Clients, StartClose(c) PROVE WaitsForStarted'
  BY <1>1, <1>9 DEF StartClose
<1>10. ASSUME NEW c \in Clients, CloseCancels(c) PROVE WaitsForStarted'
  BY <1>1, <1>10 DEF CloseCancels
<1>11. ASSUME NEW c \in Clients, CloseWaited(c) PROVE WaitsForStarted'
  BY <1>1, <1>11 DEF CloseWaited
<1>12. ASSUME NEW c \in Clients, CloseReleases(c) PROVE WaitsForStarted'
  BY <1>1, <1>12 DEF CloseReleases
<1> QED
  BY <1>2, <1>3, <1>4, <1>5, <1>6, <1>7, <1>8, <1>9, <1>10, <1>11, <1>12
     DEF Next, ClientStep

\* No started session is abandoned and no Close waits for a run that nobody
\* carries, for any number of clients: the safety behind the two liveness
\* properties of a session.
THEOREM EndIsAlwaysCarried == Spec => []EndIsCarried
<1>1. Init => WaitsForStarted
  BY DEF Init, WaitsForStarted
<1>2. SessionInv /\ WaitsForStarted /\ [Next]_vars => WaitsForStarted'
  BY CarriedStep
<1>3. WaitsForStarted => EndIsCarried
  BY DEF WaitsForStarted, EndIsCarried
<1> QED
  BY <1>1, <1>2, <1>3, SessionInvHolds, PTL DEF Spec

-----------------------------------------------------------------------------
(* The phase inside the session *)

\* runTransferPhase returns to executeSpeedTest.
PhaseReturns == loop # "returned" /\ loop' = "returned"

\* The session runs this phase: it counts the same bytes under the same
\* context.
RunsPhase ==
  /\ run \in {"download", "upload"}
  /\ moved = total
  /\ Cancelled <=> ctx = "canceled"

\* What executeSpeedTest does with the pair that the phase returns: it keeps
\* the count, shows the last sample unless the loop was left for an error,
\* and goes on to the upload or returns the error.
ExecuteTakes ==
  /\ outcome' = IF run = "upload" THEN [outcome EXCEPT !.up = ret'.total]
                ELSE [outcome EXCEPT !.down = ret'.total]
  /\ result' = IF loop = "drain" THEN result ELSE SampleOf
  /\ IF ret'.err = "none" /\ run = "download" /\ Uploads(mode)
       THEN Begin("upload") /\ UNCHANGED err
       ELSE ReturnWith(ret'.err) /\ UNCHANGED moved
  /\ UNCHANGED <<mode, flags, box, client>>

\* A phase returns the verdict over the error it was cut short with, or none,
\* the final count and the contexts of that moment.
LEMMA ReturnedPair ==
  ASSUME PhaseInv, [PhaseNext]_phaseVars, PhaseReturns
  PROVE  \E hard \in {"none", "failure"} : \E expired \in BOOLEAN :
           /\ loop = "drain" => hard = "failure"
           /\ ret' = [err |-> TransferVerdict(hard, total, ctx = "canceled", expired),
                      total |-> total]
<1>1. PICK expired \in BOOLEAN : expired = (phaseCtx = "deadline")
  OBVIOUS
<1>2. ReturnError \/ ReturnDone
  BY DEF PhaseReturns, PhaseNext, phaseVars, WorkerStep, Transfer, Check, RequestDone,
         RequestFails, Judge, Send, Abort, LoopStep, ReceiveError, CancelSession, Expire
<1>3. CASE ReturnError
  <2>1. loop = "drain" /\ pending = "failure"
    BY <1>3 DEF ReturnError, PhaseInv, OnlyFailures
  <2>2. ret' = [err |-> TransferVerdict("failure", total, ctx = "canceled", expired),
                total |-> total]
    BY <1>1, <1>3, <2>1 DEF ReturnError, Return
  <2> QED
    BY <2>1, <2>2
<1>4. CASE ReturnDone
  <2>1. loop = "select"
    BY <1>4 DEF ReturnDone
  <2>2. PICK hard \in {"none", "failure"} :
          hard = IF channel = <<>> THEN "none" ELSE Head(channel)
    BY DEF PhaseInv, OnlyFailures
  <2>3. ret' = [err |-> TransferVerdict(hard, total, ctx = "canceled", expired),
                total |-> total]
    BY <1>1, <1>4, <2>2 DEF ReturnDone, Return
  <2> QED
    BY <2>1, <2>3
<1> QED
  BY <1>2, <1>3, <1>4

\* The steps in which a phase returns are steps the session takes: whatever
\* its workers did, what executeSpeedTest does with the returned pair is the
\* TransferEnds of the session for some hard error and deadline.
PhaseIsTransfer ==
  [][PhaseReturns /\ RunsPhase /\ ExecuteTakes
       => \E hard \in {"none", "failure"}, expired \in BOOLEAN :
            TransferEnds(hard, expired)]_phaseVars

\* What the session assumes of a phase (TransferEnds) is what runTransferPhase
\* does, for any number of workers and any order of their errors.
THEOREM PhaseImplementsTransfer == PhaseSpec => PhaseIsTransfer
<1>1. ASSUME PhaseInv, [PhaseNext]_phaseVars, PhaseReturns, RunsPhase, ExecuteTakes
      PROVE  \E hard \in {"none", "failure"}, expired \in BOOLEAN :
               TransferEnds(hard, expired)
  <2>1. PICK hard \in {"none", "failure"}, expired \in BOOLEAN :
          /\ loop = "drain" => hard = "failure"
          /\ ret' = [err |-> TransferVerdict(hard, total, ctx = "canceled", expired),
                     total |-> total]
    BY <1>1, ReturnedPair
  <2>2. ret'.total = moved
    BY <1>1, <2>1 DEF RunsPhase
  <2>3. TransferVerdict(hard, total, ctx = "canceled", expired)
          = TransferVerdict(hard, moved, Cancelled, expired)
    BY <1>1 DEF RunsPhase, TransferVerdict
  <2>4. ret'.err = TransferVerdict(hard, moved, Cancelled, expired)
    BY <2>1, <2>3
  <2>5. outcome' = Measured
    BY <1>1, <2>2 DEF ExecuteTakes, Measured
  <2>6. result' \in {SampleOf} \cup (IF hard = "none" THEN {} ELSE {result})
    BY <1>1, <2>1 DEF ExecuteTakes
  <2>7. TransferEnds(hard, expired)
    BY <1>1, <2>4, <2>5, <2>6 DEF ExecuteTakes, RunsPhase, TransferEnds
  <2> QED
    BY <2>7
<1>2. PhaseInv /\ [PhaseNext]_phaseVars
        => [PhaseReturns /\ RunsPhase /\ ExecuteTakes
              => \E hard \in {"none", "failure"}, expired \in BOOLEAN :
                   TransferEnds(hard, expired)]_phaseVars
  BY <1>1
<1> QED
  BY <1>2, PhaseInvHolds, PTL DEF PhaseSpec, PhaseIsTransfer
=============================================================================
