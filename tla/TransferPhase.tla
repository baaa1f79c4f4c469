--------------------------- MODULE TransferPhase ---------------------------
(***************************************************************************)
(* runTransferPhase of libcore/speedtest.go: a pool of workers repeats one *)
(* request each until the phase context ends, the first error that is not  *)
(* an artefact of the ending is put into a channel of capacity one and     *)
(* cancels the phase, and the caller's loop samples the counter and picks, *)
(* in any order Go's select allows, between that error and the end of all  *)
(* workers.                                                                *)
(***************************************************************************)
EXTENDS SpeedTestErrors, Sequences

CONSTANTS Workers,    \* the goroutines of the phase (config.connections)
          MaxPhaseBytes    \* bound on the bytes that are counted

\* runTransferPhase returns at once when connections <= 0.
ASSUME PhaseAssumption == Workers # {} /\ MaxPhaseBytes \in Nat \ {0}

VARIABLES worker,     \* where each goroutine is in its loop
          failed,     \* the error its last request returned
          ctx,        \* the session's context: "live" or "canceled"
          phaseCtx,   \* what ended the phase's context, "live" before
          channel,    \* errorChannel, capacity one
          total,      \* transferred, the shared atomic counter
          loop,       \* the caller: "select", "drain" or "returned"
          pending,    \* the error received from errorChannel
          ret         \* the returned error and byte count

phaseVars == <<worker, failed, ctx, phaseCtx, channel, total, loop, pending, ret>>

WorkerPC == {"check", "request", "failed", "send", "abort", "ended"}

PhaseTypeOK ==
  /\ worker \in [Workers -> WorkerPC]
  /\ failed \in [Workers -> Err]
  /\ ctx \in {"live", "canceled"}
  /\ phaseCtx \in {"live", "canceled", "deadline", "aborted"}
  /\ channel \in {<<>>} \cup {<<e>> : e \in Err}
  /\ total \in 0..MaxPhaseBytes
  /\ loop \in {"select", "drain", "returned"}
  /\ pending \in Err
  /\ ret \in [err : Err, total : 0..MaxPhaseBytes]

PhaseInit ==
  /\ worker = [w \in Workers |-> "check"]
  /\ failed = [w \in Workers |-> "none"]
  /\ ctx = "live"
  /\ phaseCtx = "live"
  /\ channel = <<>>
  /\ total = 0
  /\ loop = "select"
  /\ pending = "none"
  /\ ret = [err |-> "none", total |-> 0]

\* waitGroup.Wait has returned and done is closed.
WorkersDone == \A w \in Workers : worker[w] = "ended"

-----------------------------------------------------------------------------
\* A worker.

\* The head of the loop: phaseCtx.Err() == nil.
Check(w) ==
  /\ worker[w] = "check"
  /\ worker' = [worker EXCEPT ![w] = IF phaseCtx = "live" THEN "request" ELSE "ended"]
  /\ UNCHANGED <<failed, ctx, phaseCtx, channel, total, loop, pending, ret>>

\* The countingReader of a running request adds what it read.
Transfer(w) ==
  /\ worker[w] = "request"
  /\ total < MaxPhaseBytes
  /\ total' = total + 1
  /\ UNCHANGED <<worker, failed, ctx, phaseCtx, channel, loop, pending, ret>>

\* The payload ended and the worker asks for it again.
RequestDone(w) ==
  /\ worker[w] = "request"
  /\ phaseCtx = "live"
  /\ worker' = [worker EXCEPT ![w] = "check"]
  /\ UNCHANGED <<failed, ctx, phaseCtx, channel, total, loop, pending, ret>>

\* The request returns an error: its own at any time, that of the context
\* once the context has ended.
RequestFails(w, e) ==
  /\ worker[w] = "request"
  /\ e \in {"eof", "failure"} \cup
           (CASE phaseCtx = "live" -> {}
              [] phaseCtx = "deadline" -> {"deadline"}
              [] OTHER -> {"canceled"})
  /\ worker' = [worker EXCEPT ![w] = "failed"]
  /\ failed' = [failed EXCEPT ![w] = e]
  /\ UNCHANGED <<ctx, phaseCtx, channel, total, loop, pending, ret>>

\* Errors of an ended phase and artefacts of a closed connection end the
\* worker; any other error is to be sent.
Judge(w) ==
  /\ worker[w] = "failed"
  /\ worker' = [worker EXCEPT ![w] =
                  IF phaseCtx # "live" \/ isBenignTransferError(failed[w])
                  THEN "ended" ELSE "send"]
  /\ UNCHANGED <<failed, ctx, phaseCtx, channel, total, loop, pending, ret>>

\* Send without its default: the worker waits for room in the channel.
SendBlocking(w) ==
  /\ worker[w] = "send"
  /\ channel = <<>>
  /\ channel' = <<failed[w]>>
  /\ worker' = [worker EXCEPT ![w] = "abort"]
  /\ UNCHANGED <<failed, ctx, phaseCtx, total, loop, pending, ret>>

\* select with a default: the error is dropped when the channel is full.
Send(w) ==
  /\ worker[w] = "send"
  /\ IF channel = <<>>
       THEN /\ channel' = <<failed[w]>>
            /\ worker' = [worker EXCEPT ![w] = "abort"]
       ELSE /\ worker' = [worker EXCEPT ![w] = "ended"]
            /\ UNCHANGED channel
  /\ UNCHANGED <<failed, ctx, phaseCtx, total, loop, pending, ret>>

\* cancel() after the error was sent; the first end of a context counts.
Abort(w) ==
  /\ worker[w] = "abort"
  /\ worker' = [worker EXCEPT ![w] = "ended"]
  /\ phaseCtx' = IF phaseCtx = "live" THEN "aborted" ELSE phaseCtx
  /\ UNCHANGED <<failed, ctx, channel, total, loop, pending, ret>>

-----------------------------------------------------------------------------
\* The caller's loop.

Return(e) ==
  /\ ret' = [err |-> e, total |-> total]
  /\ loop' = "returned"

\* ReturnError without <-done.
ReturnErrorEarly ==
  /\ loop = "drain"
  /\ Return(TransferVerdict(pending, total, ctx = "canceled", phaseCtx = "deadline"))
  /\ UNCHANGED <<worker, failed, ctx, phaseCtx, channel, total, pending>>

\* case err := <-errorChannel: the loop then waits for the workers.
ReceiveError ==
  /\ loop = "select"
  /\ channel # <<>>
  /\ pending' = Head(channel)
  /\ channel' = <<>>
  /\ loop' = "drain"
  /\ UNCHANGED <<worker, failed, ctx, phaseCtx, total, ret>>

ReturnError ==
  /\ loop = "drain"
  /\ WorkersDone
  /\ Return(TransferVerdict(pending, total, ctx = "canceled", phaseCtx = "deadline"))
  /\ UNCHANGED <<worker, failed, ctx, phaseCtx, channel, total, pending>>

\* ReturnDone without the second look into the channel.
ReturnDoneUnchecked ==
  /\ loop = "select"
  /\ WorkersDone
  /\ Return(TransferVerdict("none", total, ctx = "canceled", phaseCtx = "deadline"))
  /\ UNCHANGED <<worker, failed, ctx, phaseCtx, channel, total, pending>>

\* case <-done: an error that was not received yet is looked for again.
ReturnDone ==
  /\ loop = "select"
  /\ WorkersDone
  /\ Return(TransferVerdict(IF channel = <<>> THEN "none" ELSE Head(channel), total,
                            ctx = "canceled", phaseCtx = "deadline"))
  /\ channel' = <<>>
  /\ UNCHANGED <<worker, failed, ctx, phaseCtx, total, pending>>

-----------------------------------------------------------------------------
\* The contexts.

\* The session is cancelled; the phase's context is derived from its.
CancelSession ==
  /\ ctx = "live"
  /\ ctx' = "canceled"
  /\ phaseCtx' = IF phaseCtx = "live" THEN "canceled" ELSE phaseCtx
  /\ UNCHANGED <<worker, failed, channel, total, loop, pending, ret>>

\* The duration of the phase is over.
Expire ==
  /\ phaseCtx = "live"
  /\ phaseCtx' = "deadline"
  /\ UNCHANGED <<worker, failed, ctx, channel, total, loop, pending, ret>>

WorkerStep(w) ==
  \/ Check(w)
  \/ RequestDone(w)
  \/ \E e \in Err : RequestFails(w, e)
  \/ Judge(w)
  \/ Send(w)
  \/ Abort(w)

LoopStep == ReceiveError \/ ReturnError \/ ReturnDone

PhaseNext ==
  \/ \E w \in Workers : WorkerStep(w) \/ Transfer(w)
  \/ LoopStep
  \/ CancelSession
  \/ Expire

\* Goroutines are scheduled, a request returns once its context has ended
\* (net/http), and timers fire.  Nobody has to cancel.
PhaseFairness ==
  /\ \A w \in Workers : WF_phaseVars(WorkerStep(w))
  /\ WF_phaseVars(LoopStep)
  /\ WF_phaseVars(Expire)

PhaseSpec == PhaseInit /\ [][PhaseNext]_phaseVars /\ PhaseFairness

-----------------------------------------------------------------------------
\* runTransferPhase returns only when every worker has ended: no request
\* uses the client, or the box below it, after the phase.
ReturnsAfterWorkers == loop = "returned" => WorkersDone

\* The returned byte count is the final one and a phase that succeeds has
\* moved data: a count taken before the last worker ended would be short.
CountIsFinal ==
  loop = "returned" => /\ ret.total = total
                       /\ ret.err = "none" => total > 0

\* A phase that a worker cut short with a real error (an HTTP status, say)
\* never returns success or another error in its place, whichever of
\* errorChannel and done the select picks.
FailureIsReported ==
  loop = "returned" /\ phaseCtx = "aborted" => ret.err = "failure"

\* runTransferPhase filters what merely comes from ending the test: it
\* returns neither an EOF nor, when data was moved, the deadline.
EndingIsNoError ==
  loop = "returned" /\ total > 0 => ret.err \notin {"eof", "deadline"}

\* runTransferPhase returns, however its workers fail: nobody waits for room
\* in errorChannel.
PhaseEnds == <>(loop = "returned")
=============================================================================
