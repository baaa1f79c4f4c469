-------------------------- MODULE SpeedTestSession --------------------------
(***************************************************************************)
(* SpeedTestSession of libcore/speedtest.go: one isolated test box, one    *)
(* goroutine that runs the phases of a speed test over it, and the clients *)
(* that Start, Cancel and Close the session from other threads (the        *)
(* coroutine of AndroidSpeedTestSession, the UI and the plugin guard).     *)
(* What a transfer phase returns is TransferVerdict, which TransferPhase   *)
(* derives from its workers.                                               *)
(***************************************************************************)
EXTENDS SpeedTestErrors

CONSTANTS Clients,      \* threads that call Start and Close
          TestedModes,  \* the modes a session may be created with
          MaxBytes      \* bound on the bytes of one phase

ASSUME SessionAssumption == TestedModes \subseteq Modes /\ MaxBytes \in Nat \ {0}

VARIABLES mode,      \* config.mode
          flags,     \* the set of started, closed, cancelled that hold
          box,       \* BoxInstance.state: 0, 1 and 2 by name
          result,    \* the SpeedTestResult that GetResult copies
          run,       \* where the run goroutine is
          outcome,   \* the speedTestOutcome executeSpeedTest fills
          moved,     \* the transferred counter of the current phase
          err,       \* the error executeSpeedTest returned
          client     \* where each client is inside Start or Close

vars == <<mode, flags, box, result, run, outcome, moved, err, client>>

Stages == {"pending", "discovery", "latency", "download", "upload"} \cup Final

Measures == {"discovery", "latency", "download", "upload", "simple"}

RunPC == {"none", "outbound"} \cup Measures \cup {"finish", "closing", "exit"}

ClientPC == {"idle", "boxStart", "startFinish", "startClose",
             "cancelThenWait", "cancelThenClose", "wait", "boxClose", "released"}

Outcome == [down : 0..MaxBytes, up : 0..MaxBytes, server : {"none", "selected"}]

TypeOK ==
  /\ mode \in TestedModes
  /\ flags \subseteq {"started", "closed", "cancelled"}
  /\ box \in {"new", "started", "closed"}
  /\ result \in [stage : Stages, measured : Outcome]
  /\ run \in RunPC
  /\ outcome \in Outcome
  /\ moved \in 0..MaxBytes
  /\ err \in Err
  /\ client \in [Clients -> ClientPC]

Nothing == [down |-> 0, up |-> 0, server |-> "none"]

Init ==
  /\ mode \in TestedModes
  /\ flags = {}
  /\ box = "new"
  /\ result = [stage |-> "pending", measured |-> Nothing]
  /\ run = "none"
  /\ outcome = Nothing
  /\ moved = 0
  /\ err = "none"
  /\ client = [c \in Clients |-> "idle"]

\* result.Done; finish sets it together with a final stage.
Done == result.stage \in Final

Cancelled == "cancelled" \in flags

\* What updateProgress leaves in the result: nothing once it is final, and
\* the server stays when the sample names none.
updateProgress(stage, down, up, server) ==
  IF Done THEN result
  ELSE [stage    |-> stage,
        measured |-> [down |-> down, up |-> up,
                      server |-> IF server = "none" THEN result.measured.server
                                 ELSE server]]

\* What finish leaves in the result: nothing new once it is final.  A nil
\* outcome keeps what was measured, and an outcome without a server keeps
\* the one of the result.
finish(o, e) ==
  IF Done THEN result
  ELSE [stage    |-> FinalStage(e),
        measured |-> [o EXCEPT !.server = IF @ = "none" THEN result.measured.server
                                          ELSE @]]

-----------------------------------------------------------------------------
\* Start.

At(c, pc) == client[c] = pc

Go(c, pc) == client' = [client EXCEPT ![c] = pc]

\* Start without its test of closed.
StartAcceptsClosed(c) ==
  /\ At(c, "idle")
  /\ "started" \notin flags
  /\ flags' = flags \cup {"started"}
  /\ Go(c, "boxStart")
  /\ UNCHANGED <<mode, box, result, run, outcome, moved, err>>

\* The part under the lock; a closed or started session returns an error.
StartAccepts(c) ==
  /\ At(c, "idle")
  /\ flags \cap {"started", "closed"} = {}
  /\ flags' = flags \cup {"started"}
  /\ Go(c, "boxStart")
  /\ UNCHANGED <<mode, box, result, run, outcome, moved, err>>

\* box.Start succeeds and the goroutine is started.
BoxStarts(c) ==
  /\ At(c, "boxStart")
  /\ box = "new"
  /\ box' = "started"
  /\ run' = "outbound"
  /\ Go(c, "idle")
  /\ UNCHANGED <<mode, flags, result, outcome, moved, err>>

\* box.Start fails, or refuses a box that is not new; the state is set to
\* started before the core is tried.
BoxStartFails(c) ==
  /\ At(c, "boxStart")
  /\ box' = IF box = "new" THEN "started" ELSE box
  /\ Go(c, "startFinish")
  /\ UNCHANGED <<mode, flags, result, run, outcome, moved, err>>

StartFinish(c) ==
  /\ At(c, "startFinish")
  /\ result' = finish(result.measured, "failure")
  /\ Go(c, "startClose")
  /\ UNCHANGED <<mode, flags, box, run, outcome, moved, err>>

StartClose(c) ==
  /\ At(c, "startClose")
  /\ box' = "closed"
  /\ Go(c, "idle")
  /\ UNCHANGED <<mode, flags, result, run, outcome, moved, err>>

-----------------------------------------------------------------------------
\* run and executeSpeedTest.

\* A phase begins: the goroutine moves on and the counter is a new one.
Begin(phase) == run' = phase /\ moved' = 0

\* executeSpeedTest returns to run with an error or without.
ReturnWith(e) == run' = "finish" /\ err' = e

\* The box has no default outbound.
NoOutbound ==
  /\ run = "outbound"
  /\ result' = finish(result.measured, "failure")
  /\ run' = "closing"
  /\ UNCHANGED <<mode, flags, box, outcome, moved, err, client>>

Execute ==
  /\ run = "outbound"
  /\ IF mode = "simple_download"
       THEN Begin("simple") /\ result' = updateProgress("download", 0, 0, "none")
       ELSE Begin("discovery") /\ result' = updateProgress("discovery", 0, 0, "none")
  /\ UNCHANGED <<mode, flags, box, outcome, err, client>>

\* fetchSpeedTestServers got a list from one of the two endpoints.
Discovered ==
  /\ run = "discovery"
  /\ Begin("latency")
  /\ result' = updateProgress("latency", 0, 0, "none")
  /\ UNCHANGED <<mode, flags, box, outcome, err, client>>

\* Both endpoints failed and their errors are joined by their text.
DiscoveryFails(e) ==
  /\ run = "discovery"
  /\ e \in {"text"} \cup (IF Cancelled THEN {"textOfCancel"} ELSE {})
  /\ ReturnWith(e)
  /\ UNCHANGED <<mode, flags, box, result, outcome, moved, client>>

\* selectLowestLatencyServer found a server that answered.
Selected ==
  /\ run = "latency"
  /\ outcome' = [outcome EXCEPT !.server = "selected"]
  /\ Begin(IF Downloads(mode) THEN "download" ELSE "upload")
  /\ result' = updateProgress("latency", 0, 0, "selected")
  /\ UNCHANGED <<mode, flags, box, err, client>>

\* No server answered: the context's error if it has ended, else the first
\* error or ErrServerNotFound.
SelectionFails(e) ==
  /\ run = "latency"
  /\ e \in {"deadline", IF Cancelled THEN "canceled" ELSE "failure"}
  /\ ReturnWith(e)
  /\ UNCHANGED <<mode, flags, box, result, outcome, moved, client>>

\* The server answered and its URL yields no download URL.
NoDownloadURL ==
  /\ run = "latency"
  /\ Downloads(mode)
  /\ outcome' = [outcome EXCEPT !.server = "selected"]
  /\ result' = updateProgress("latency", 0, 0, "selected")
  /\ ReturnWith("failure")
  /\ UNCHANGED <<mode, flags, box, moved, client>>

\* A request of the phase reads or writes.
Move ==
  /\ run \in {"download", "upload", "simple"}
  /\ moved < MaxBytes
  /\ moved' = moved + 1
  /\ UNCHANGED <<mode, flags, box, result, run, outcome, err, client>>

\* The sample of an upload phase without the download's measurements.
SampleOfDirection ==
  IF run = "upload" THEN updateProgress("upload", 0, moved, "none")
  ELSE updateProgress("download", moved, 0, "none")

\* The progress closures of the phases: the one of the upload phase carries
\* what the download phase measured.
SampleOf ==
  IF run = "upload" THEN updateProgress("upload", outcome.down, moved, "none")
  ELSE updateProgress("download", moved, 0, "none")

\* The ticker of a phase.
Sample ==
  /\ run \in {"download", "upload", "simple"}
  /\ result' = SampleOf
  /\ UNCHANGED <<mode, flags, box, run, outcome, moved, err, client>>

Measured ==
  IF run = "upload" THEN [outcome EXCEPT !.up = moved] ELSE [outcome EXCEPT !.down = moved]

\* runTransferPhase returns; it samples once more unless its loop received
\* the error of a worker first.
TransferEnds(hard, expired) ==
  LET verdict == TransferVerdict(hard, moved, Cancelled, expired) IN
  /\ run \in {"download", "upload"}
  /\ outcome' = Measured
  /\ result' \in {SampleOf} \cup (IF hard = "none" THEN {} ELSE {result})
  /\ IF verdict = "none" /\ run = "download" /\ Uploads(mode)
       THEN Begin("upload") /\ UNCHANGED err
       ELSE ReturnWith(verdict) /\ UNCHANGED moved
  /\ UNCHANGED <<mode, flags, box, client>>

\* runSimpleDownload fails before the body: (0, 0, err).
SimpleRefused(e) ==
  /\ run = "simple"
  /\ moved = 0
  /\ e \in {"deadline", "failure"} \cup (IF Cancelled THEN {"canceled"} ELSE {})
  /\ ReturnWith(e)
  /\ UNCHANGED <<mode, flags, box, result, outcome, moved, client>>

\* The copy ended by itself, with what io.Copy returned.
SimpleCopied(e) ==
  /\ run = "simple"
  /\ e \in {"none", "eof", "failure", "deadline"} \cup (IF Cancelled THEN {"canceled"} ELSE {})
  /\ outcome' = Measured
  /\ result' = SampleOf
  /\ ReturnWith(IF e = "none" /\ moved = 0 THEN "failure" ELSE e)
  /\ UNCHANGED <<mode, flags, box, moved, client>>

\* The select saw downloadCtx end first: the session's cancellation, then a
\* copy error of another kind, then the context's own error.
SimpleInterrupted(e) ==
  /\ run = "simple"
  /\ e \in IF Cancelled THEN {"canceled"} ELSE {"eof", "failure", "deadline"}
  /\ outcome' = Measured
  /\ ReturnWith(e)
  /\ UNCHANGED <<mode, flags, box, result, moved, client>>

Finish ==
  /\ run = "finish"
  /\ result' = finish(outcome, err)
  /\ run' = "closing"
  /\ UNCHANGED <<mode, flags, box, outcome, moved, err, client>>

\* run without its deferred box.Close.
RunExits ==
  /\ run = "closing"
  /\ run' = "exit"
  /\ UNCHANGED <<mode, flags, box, result, outcome, moved, err, client>>

\* The deferred box.Close of run.
RunCloses ==
  /\ run = "closing"
  /\ box' = "closed"
  /\ run' = "exit"
  /\ UNCHANGED <<mode, flags, result, outcome, moved, err, client>>

-----------------------------------------------------------------------------
\* Cancel and Close.

Cancel ==
  /\ ~Cancelled
  /\ flags' = flags \cup {"cancelled"}
  /\ UNCHANGED <<mode, box, result, run, outcome, moved, err, client>>

\* Close that does not ask whether the session was started.
CloseAcceptsUnasked(c) ==
  /\ At(c, "idle")
  /\ "closed" \notin flags
  /\ flags' = flags \cup {"closed"}
  /\ Go(c, "cancelThenClose")
  /\ UNCHANGED <<mode, box, result, run, outcome, moved, err>>

\* Close that waits for a run whether or not there is one.
CloseAcceptsAlwaysWaits(c) ==
  /\ At(c, "idle")
  /\ "closed" \notin flags
  /\ flags' = flags \cup {"closed"}
  /\ Go(c, "cancelThenWait")
  /\ UNCHANGED <<mode, box, result, run, outcome, moved, err>>

\* The part under the lock: started is read together with closed.
CloseAccepts(c) ==
  /\ At(c, "idle")
  /\ "closed" \notin flags
  /\ flags' = flags \cup {"closed"}
  /\ Go(c, IF "started" \in flags THEN "cancelThenWait" ELSE "cancelThenClose")
  /\ UNCHANGED <<mode, box, result, run, outcome, moved, err>>

CloseCancels(c) ==
  /\ client[c] \in {"cancelThenWait", "cancelThenClose"}
  /\ flags' = flags \cup {"cancelled"}
  /\ Go(c, IF At(c, "cancelThenWait") THEN "wait" ELSE "boxClose")
  /\ UNCHANGED <<mode, box, result, run, outcome, moved, err>>

\* <-s.done
CloseWaited(c) ==
  /\ At(c, "wait")
  /\ Done
  /\ Go(c, "boxClose")
  /\ UNCHANGED <<mode, flags, box, result, run, outcome, moved, err>>

CloseReleases(c) ==
  /\ At(c, "boxClose")
  /\ box' = "closed"
  /\ Go(c, "released")
  /\ UNCHANGED <<mode, flags, result, run, outcome, moved, err>>

-----------------------------------------------------------------------------
RunStep ==
  \/ NoOutbound
  \/ Execute
  \/ Discovered
  \/ \E e \in Err : DiscoveryFails(e) \/ SelectionFails(e)
  \/ Selected
  \/ NoDownloadURL
  \/ \E hard \in {"none", "failure"}, expired \in BOOLEAN : TransferEnds(hard, expired)
  \/ \E e \in Err : SimpleRefused(e) \/ SimpleCopied(e) \/ SimpleInterrupted(e)
  \/ Finish
  \/ RunCloses

\* A client inside Start or Close goes on; entering them is its choice.
ClientStep(c) ==
  \/ BoxStarts(c)
  \/ BoxStartFails(c)
  \/ StartFinish(c)
  \/ StartClose(c)
  \/ CloseCancels(c)
  \/ CloseWaited(c)
  \/ CloseReleases(c)

Next ==
  \/ RunStep
  \/ Move
  \/ Sample
  \/ Cancel
  \/ \E c \in Clients : StartAccepts(c) \/ CloseAccepts(c) \/ ClientStep(c)

\* Threads are scheduled and box.Start returns; every phase runs under a
\* context with a timeout, so the goroutine never waits for ever.
Fairness ==
  /\ WF_vars(RunStep)
  /\ \A c \in Clients : WF_vars(ClientStep(c))

Spec == Init /\ [][Next]_vars /\ Fairness

-----------------------------------------------------------------------------
\* The box is running whenever the goroutine measures through it: neither
\* Close nor a failed Start closes it under a request (Close waits on done,
\* speedtest.go:343).
BoxServesRun == run \in Measures => box = "started"

\* A session that reports "complete" has measured every direction of its
\* mode and, unless it is a simple download, names its server.
CompleteIsMeasured ==
  result.stage = "complete" =>
    /\ Downloads(mode) => result.measured.down > 0
    /\ Uploads(mode) => result.measured.up > 0
    /\ mode # "simple_download" => result.measured.server = "selected"

\* What GetResult shows is never taken back: byte counts only grow and the
\* server stays, through every sample, the change of phase and finish.
MeasurementsKept ==
  [][ /\ result'.measured.down >= result.measured.down
      /\ result'.measured.up >= result.measured.up
      /\ result.measured.server = "selected" => result'.measured.server = "selected" ]_vars

\* Once a Close has released the session nothing about it changes any more:
\* no late Start, sample or finish reaches a released session.
ReleasedIsFinal ==
  [][ (\E c \in Clients : At(c, "released")) => UNCHANGED <<result, box>> ]_vars

\* A started session ends and then gives its box back, however its Start or
\* its run went and without waiting for a Close: Android's poll of GetResult
\* ends, and no core is left running.
StartedIsDone == ("started" \in flags) ~> (Done /\ box = "closed")

\* Close returns and has then closed the box, started session or not.
CloseReturns == ("closed" \in flags) ~> (\E c \in Clients : At(c, "released"))

\* Where the contract of TestSession sees the session.
Phase ==
  IF \E c \in Clients : At(c, "released") THEN "released"
  ELSE IF Done THEN "done"
  ELSE IF "started" \in flags THEN "running" ELSE "new"

\* The session keeps the contract the application relies on: its core is on
\* only between Start and Close, and a started session is released only
\* after its run has ended.
Contract == INSTANCE TestSession WITH phase <- Phase, core <- IF box = "started" THEN "on" ELSE "off"
ContractKept == Contract!SessionSpec
=============================================================================
