----------------------- MODULE ServiceLifecycleProofs -----------------------
(* Proofs about ServiceLifecycle, for every number of environment events.  *)
EXTENDS ServiceLifecycle, TLAPS

(* The absent job, stop coroutine and revocation have their types. *)
LEMMA NoneTypes ==
  /\ NoJob \in Job /\ NoStop \in Stop /\ NoRevoke \in Revoke
  /\ NothingLeft \in [cores : SUBSET Nat, held : SUBSET Fields]
  BY DEF NoJob, Job, NoStop, Stop, NoRevoke, Revoke, NothingLeft

(* Cancelling a connecting job leaves a job. *)
LEMMA CancelledType == ASSUME NEW j \in Job PROVE Cancelled(j) \in Job
  BY DEF Cancelled, Job, NoJob

(* stopRunner keeps what it touches in its type. *)
LEMMA StopRunnerType ==
  ASSUME TypeOK, NEW then \in {"stopSelf", "startRunner"}, StopRunner(then)
  PROVE  /\ state' \in State /\ generation' \in Nat /\ held' \subseteq Fields
         /\ stop' \in [Callers -> Stop]
<1> USE DEF TypeOK, ThreadTypes, DataTypes
<1>1. CASE state = "Stopping"
  BY <1>1 DEF StopRunner
<1>2. CASE state # "Stopping"
  <2>1. [pc |-> "join", then |-> then] \in Stop
    BY DEF Stop
  <2>2. stop' \in [Callers -> Stop]
    BY <1>2, <2>1 DEF StopRunner
  <2> QED
    BY <1>2, <2>2 DEF StopRunner, State
<1> QED
  BY <1>1, <1>2

(* So does a stop request, which also cancels the connecting job. *)
LEMMA StopRequestType ==
  ASSUME TypeOK, NEW then \in {"stopSelf", "startRunner"}, StopRequest(then)
  PROVE  /\ state' \in State /\ generation' \in Nat /\ held' \subseteq Fields
         /\ stop' \in [Callers -> Stop] /\ job' \in Job
  BY StopRunnerType, CancelledType DEF StopRequest, TypeOK, ThreadTypes

(* And so does what reload does by state. *)
LEMMA ReloadByStateType ==
  ASSUME TypeOK, ReloadByState
  PROVE  /\ state' \in State /\ generation' \in Nat /\ held' \subseteq Fields
         /\ stop' \in [Callers -> Stop] /\ job' \in Job
         /\ queue' \in Seq({"start", "destroy"})
<1>1. queue' \in Seq({"start", "destroy"})
  BY DEF ReloadByState, TypeOK, EnvTypes
<1>2. CASE state \in CanStop
  BY <1>1, <1>2, StopRequestType DEF ReloadByState
<1>3. CASE state \notin CanStop
  BY <1>1, <1>3 DEF ReloadByState, TypeOK, ThreadTypes, DataTypes
<1> QED
  BY <1>2, <1>3

(* Every step of the service keeps every variable in its type. *)
LEMMA TypeStep == TypeOK /\ [Next]_vars => TypeOK'
<1> SUFFICES ASSUME TypeOK, [Next]_vars PROVE TypeOK'
  OBVIOUS
<1> USE NoneTypes DEF TypeOK, ThreadTypes, DataTypes, CoreTypes, EnvTypes
<1>1. CASE StartCommand
  <2>1. queue' \in Seq({"start", "destroy"})
    BY <1>1 DEF StartCommand
  <2>2. proxy' \in Nat /\ sessions' \in Nat /\ main' \in {"idle", "start", "check", "announce"}
    BY <1>1 DEF StartCommand
  <2>3. held' \subseteq Fields
    BY <1>1 DEF StartCommand, Fields
  <2> QED
    BY <1>1, <2>1, <2>2, <2>3 DEF StartCommand
<1>2. CASE StartRefused
  BY <1>2, StopRequestType DEF StartRefused, coreVars
<1>3. CASE StartConnecting
  BY <1>3 DEF StartConnecting, coreVars, envVars, State, Fields, Job
<1>4. CASE StartFails
  <2>1. [pc |-> "join", then |-> "stopSelf"] \in Stop
    BY DEF Stop
  <2>2. stop' \in [Callers -> Stop]
    BY <1>4, <2>1 DEF StartFails
  <2> QED
    BY <1>4, <2>2 DEF StartFails, coreVars, envVars, State
<1>5. CASE JobCancelled
  BY <1>5 DEF JobCancelled, dataVars, coreVars, envVars
<1>6. CASE JobLaunch
  BY <1>6 DEF JobLaunch, dataVars, envVars, Job
<1>7. ASSUME NEW made \in BOOLEAN, JobFails(made) PROVE TypeOK'
  BY <1>7, StopRunnerType DEF JobFails, envVars, Job
<1>8. CASE JobCheck
  BY <1>8 DEF JobCheck, dataVars, coreVars, envVars
<1>9. CASE JobAnnounce
  BY <1>9 DEF JobAnnounce, coreVars, envVars, State, Fields
<1>10. ASSUME NEW c \in Callers, FinishStop(c) PROVE TypeOK'
  BY <1>10 DEF FinishStop, AfterStop, State
<1>11. ASSUME NEW s \in fatal, OnFatal(s) PROVE TypeOK'
  BY <1>11, StopRequestType DEF OnFatal, coreVars
<1>12. ASSUME NEW s \in selecting, SelectApply(s) PROVE TypeOK'
  BY <1>12 DEF SelectApply, threadVars, dataVars, coreVars
<1>13. CASE SelectEarly
  BY <1>13 DEF SelectEarly, ProcessDies, State
<1>14. ASSUME NEW s \in selecting, SelectRejected(s) PROVE TypeOK'
  BY <1>14, ReloadByStateType DEF SelectRejected, coreVars
<1>15. CASE RevokeStopBegins
  BY <1>15, CancelledType DEF RevokeStopBegins, dataVars, coreVars, envVars, Stop
<1>16. CASE Destroy
  BY <1>16 DEF Destroy, State
<1>17. CASE RevokeCheck
  BY <1>17 DEF RevokeCheck, dataVars, coreVars, envVars, Revoke
<1>18. CASE RevokeStopping
  BY <1>18 DEF RevokeStopping, coreVars, envVars, Revoke, State
<1>19. CASE RevokeRead
  BY <1>19 DEF RevokeRead, dataVars, coreVars, envVars, Revoke
<1>20. CASE RevokePost
  <2>1. [pc |-> "posted", then |-> "stopSelf"] \in Stop
    BY DEF Stop
  <2>2. stop' \in [Callers -> Stop]
    BY <1>20, <2>1 DEF RevokePost
  <2> QED
    BY <1>20, <2>2 DEF RevokePost, coreVars, envVars, Revoke
<1>21. CASE ActorAccepts
  BY <1>21 DEF ActorAccepts, dataVars, coreVars, envVars, Job
<1>22. CASE Close
  BY <1>22, StopRequestType DEF Close, Broadcast, coreVars
<1>23. CASE ReloadFull
  BY <1>23, ReloadByStateType DEF ReloadFull, Broadcast, coreVars
<1>24. CASE ReloadEmpty
  BY <1>24, StopRequestType DEF ReloadEmpty, Broadcast, coreVars
<1>25. CASE ReloadSelectorEarly
  BY <1>25 DEF ReloadSelectorEarly, ProcessDies, Broadcast, State
<1>26. CASE ReloadSelector
  BY <1>26 DEF ReloadSelector, Broadcast, threadVars, dataVars, coreVars
<1>27. CASE GuardFails
  BY <1>27 DEF GuardFails, threadVars, dataVars, coreVars
<1>28. CASE OnRevoke
  BY <1>28 DEF OnRevoke, coreVars, Revoke
<1>29. CASE StartService
  BY <1>29 DEF StartService, threadVars, dataVars, coreVars
<1>30. CASE UNCHANGED vars
  BY <1>30 DEF vars
<1> QED
  BY <1>1, <1>2, <1>3, <1>4, <1>5, <1>6, <1>7, <1>8, <1>9, <1>10, <1>11,
     <1>12, <1>13, <1>14, <1>15, <1>16, <1>17, <1>18, <1>19, <1>20, <1>21, <1>22,
     <1>23, <1>24, <1>25, <1>26, <1>27, <1>28, <1>29, <1>30
     DEF Next, MainThread, BinderThread, Environment

(* data.state is always one of the four states BaseService may return, and *)
(* the rest of the service's state keeps to its type.                      *)
THEOREM TypeCorrect == Spec => []TypeOK
<1>1. Init => TypeOK
  BY NoneTypes DEF Init, TypeOK, ThreadTypes, DataTypes, CoreTypes, EnvTypes, State
<1> QED
  BY <1>1, TypeStep, PTL DEF Spec
-----------------------------------------------------------------------------
(* A start that nobody is stopping is neither cancelled nor stale. *)
OwnedStart ==
  job # NoJob =>
    StopInFlight \/ (job.pc # "cancelled" /\ state = "Connecting" /\ job.gen = generation)

(* While a client is bound the service is never destroyed. *)
NeverDestroyed == Bound => \A i \in 1..Len(queue) : queue[i] = "start"

(* The connecting job is that of data.proxy, and its core is open once the *)
(* job runs.                                                               *)
JobOwnsProxy ==
  /\ job.pc = "none" => job = NoJob
  /\ job.pc # "none" => proxy # 0 /\ job.proxy = proxy
  /\ job.pc = "running" => proxy \in cores
  /\ main \in {"check", "announce"} <=> job.pc = "running"

(* onStartCommand has a session without a job, and Stopped means there is  *)
(* no session.                                                             *)
SessionFresh ==
  /\ main = "start" => proxy # 0 /\ job = NoJob
  /\ state = "Stopped" /\ main # "start" =>
       proxy = 0 /\ held \cap {"receiver", "wakeLock"} = {}

(* Every core belongs to data.proxy, once its job runs, or was left by a    *)
(* destroyed service object, of which there is none while a client is bound. *)
CoresOfSession ==
  /\ cores \subseteq left.cores \cup ({proxy} \ {0})
  /\ main = "start" => cores \subseteq left.cores
  /\ job.pc \in {"sending", "resumed", "cancelled"} => cores \subseteq left.cores
  /\ Bound => left = NothingLeft

SessionInv == ConnectedHasCore /\ JobOwnsProxy /\ SessionFresh /\ CoresOfSession

-----------------------------------------------------------------------------
(* stopRunner leaves a stop in flight, also when it returns early. *)
LEMMA StopRunnerInFlight ==
  ASSUME TypeOK, StoppingIsOwned, NEW then, StopRunner(then), UNCHANGED revoke
  PROVE  StopInFlight'
<1>1. CASE state = "Stopping"
  BY <1>1 DEF StopRunner, StoppingIsOwned, StopInFlight
<1>2. CASE state # "Stopping"
  BY <1>2 DEF StopRunner, StopInFlight, Callers, TypeOK, ThreadTypes
<1> QED
  BY <1>1, <1>2

(* Every step keeps Stopping, and a start that cannot succeed, owned. *)
LEMMA OwnedStep ==
  TypeOK /\ StoppingIsOwned /\ OwnedStart /\ [Next]_vars
    => StoppingIsOwned' /\ OwnedStart'
<1> SUFFICES ASSUME TypeOK, StoppingIsOwned, OwnedStart, [Next]_vars
             PROVE  StoppingIsOwned' /\ OwnedStart'
  OBVIOUS
<1>a. StopInFlight' => StoppingIsOwned' /\ OwnedStart'
  BY DEF StoppingIsOwned, OwnedStart
<1> USE DEF StoppingIsOwned, OwnedStart, StopInFlight, NoJob
<1>1. CASE StartCommand
  BY <1>1 DEF StartCommand
<1>2. CASE StartRefused
  BY <1>2, <1>a, StopRunnerInFlight DEF StartRefused, StopRequest
<1>3. CASE StartConnecting
  BY <1>3 DEF StartConnecting, coreVars, envVars
<1>4. CASE StartFails
  BY <1>4, <1>a DEF StartFails, Callers, TypeOK, ThreadTypes
<1>5. CASE JobCancelled
  BY <1>5 DEF JobCancelled, dataVars, coreVars, envVars
<1>6. CASE JobLaunch
  BY <1>6 DEF JobLaunch, dataVars, envVars, TypeOK, ThreadTypes, Job
<1>7. ASSUME NEW made \in BOOLEAN, JobFails(made) PROVE StoppingIsOwned' /\ OwnedStart'
  BY <1>7, <1>a, StopRunnerInFlight DEF JobFails, StopRequest
<1>8. CASE JobCheck
  BY <1>8 DEF JobCheck, dataVars, coreVars, envVars
<1>9. CASE JobAnnounce
  BY <1>9 DEF JobAnnounce, coreVars, envVars
<1>10. ASSUME NEW c \in Callers, FinishStop(c) PROVE StoppingIsOwned' /\ OwnedStart'
  BY <1>10 DEF FinishStop, Runnable
<1>11. ASSUME NEW s \in fatal, OnFatal(s) PROVE StoppingIsOwned' /\ OwnedStart'
  BY <1>11, <1>a, StopRunnerInFlight DEF OnFatal, StopRequest
<1>12. ASSUME NEW s \in selecting, SelectApply(s) PROVE StoppingIsOwned' /\ OwnedStart'
  BY <1>12 DEF SelectApply, threadVars, dataVars, coreVars
<1>13. CASE SelectEarly
  BY <1>13 DEF SelectEarly, ProcessDies
<1>14. ASSUME NEW s \in selecting, SelectRejected(s) PROVE StoppingIsOwned' /\ OwnedStart'
  <2>1. CASE state \in CanStop
    BY <1>14, <2>1, <1>a, StopRunnerInFlight DEF SelectRejected, ReloadByState, StopRequest
  <2>2. CASE state \notin CanStop
    BY <1>14, <2>2 DEF SelectRejected, ReloadByState
  <2> QED
    BY <2>1, <2>2
<1>15. CASE RevokeStopBegins
  BY <1>15, <1>a DEF RevokeStopBegins, Callers, TypeOK, ThreadTypes
<1>16. CASE Destroy
  BY <1>16 DEF Destroy
<1>17. CASE RevokeCheck
  BY <1>17 DEF RevokeCheck, dataVars, coreVars, envVars
<1>18. CASE RevokeStopping
  BY <1>18 DEF RevokeStopping, coreVars, envVars
<1>19. CASE RevokeRead
  BY <1>19 DEF RevokeRead, dataVars, coreVars, envVars
<1>20. CASE RevokePost
  BY <1>20, <1>a DEF RevokePost, Callers, TypeOK, ThreadTypes
<1>21. CASE ActorAccepts
  BY <1>21 DEF ActorAccepts, dataVars, coreVars, envVars, TypeOK, ThreadTypes, Job
<1>22. CASE Close
  BY <1>22, <1>a, StopRunnerInFlight DEF Close, StopRequest, Broadcast
<1>23. CASE ReloadFull
  <2>1. CASE state \in CanStop
    BY <1>23, <2>1, <1>a, StopRunnerInFlight DEF ReloadFull, ReloadByState, StopRequest
  <2>2. CASE state \notin CanStop
    BY <1>23, <2>2 DEF ReloadFull, ReloadByState
  <2> QED
    BY <2>1, <2>2
<1>24. CASE ReloadEmpty
  BY <1>24, <1>a, StopRunnerInFlight DEF ReloadEmpty, StopRequest, Broadcast
<1>25. CASE ReloadSelectorEarly
  BY <1>25 DEF ReloadSelectorEarly, ProcessDies, Broadcast
<1>26. CASE ReloadSelector
  BY <1>26 DEF ReloadSelector, Broadcast, threadVars, dataVars, coreVars
<1>27. CASE GuardFails
  BY <1>27 DEF GuardFails, threadVars, dataVars, coreVars
<1>28. CASE OnRevoke
  BY <1>28 DEF OnRevoke, coreVars
<1>29. CASE StartService
  BY <1>29 DEF StartService, threadVars, dataVars, coreVars
<1>30. CASE UNCHANGED vars
  BY <1>30 DEF vars
<1> QED
  BY <1>1, <1>2, <1>3, <1>4, <1>5, <1>6, <1>7, <1>8, <1>9, <1>10, <1>11,
     <1>12, <1>13, <1>14, <1>15, <1>16, <1>17, <1>18, <1>19, <1>20, <1>21, <1>22,
     <1>23, <1>24, <1>25, <1>26, <1>27, <1>28, <1>29, <1>30
     DEF Next, MainThread, BinderThread, Environment

(* The service never hangs in Stopping, bound or not, whatever the binder  *)
(* thread of a revocation does in between.                                 *)
THEOREM StoppingAlwaysOwned == Spec => []StoppingIsOwned
<1>1. Init => StoppingIsOwned /\ OwnedStart
  BY DEF Init, StoppingIsOwned, OwnedStart
<1> QED
  BY <1>1, OwnedStep, TypeCorrect, PTL DEF Spec

(* A start is always somebody's: while Connecting is announced the         *)
(* connecting job is there to resolve it, or a stop is in flight (what the *)
(* second part of TransitionsSettle rests on, without any fairness).       *)
ConnectingIsOwned == state = "Connecting" => job # NoJob \/ StopInFlight

(* Every step keeps Connecting owned. *)
LEMMA ConnectingStep ==
  ASSUME TypeOK, OwnedStart, ConnectingIsOwned, [Next]_vars
  PROVE  ConnectingIsOwned'
<1> USE DEF ConnectingIsOwned, StopInFlight
<1>1. CASE UNCHANGED <<state, job, stop, revoke>>
  BY <1>1
<1>2. CASE state' # "Connecting"
  BY <1>2
<1>3. CASE StartConnecting
  BY <1>3 DEF StartConnecting, NoJob
<1>4. CASE JobCancelled \/ JobCheck
  BY <1>4 DEF JobCancelled, JobCheck, OwnedStart, dataVars, NoJob
<1>5. CASE JobLaunch \/ ActorAccepts
  BY <1>5 DEF JobLaunch, ActorAccepts, dataVars, TypeOK, ThreadTypes, Job, NoJob
<1>6. CASE RevokeStopBegins \/ RevokePost
  BY <1>6 DEF RevokeStopBegins, RevokePost, TypeOK, ThreadTypes, Callers
<1>7. CASE RevokeCheck \/ RevokeRead \/ OnRevoke
  BY <1>7 DEF RevokeCheck, RevokeRead, OnRevoke, dataVars
<1>8. CASE StartRefused \/ StartFails \/ Close \/ ReloadEmpty \/ RevokeStopping
  BY <1>2, <1>8 DEF StartRefused, StartFails, Close, ReloadEmpty, RevokeStopping,
     StopRequest, StopRunner
<1>9. ASSUME NEW made \in BOOLEAN, JobFails(made) PROVE ConnectingIsOwned'
  BY <1>2, <1>9 DEF JobFails, StopRunner
<1>10. ASSUME NEW s \in fatal, OnFatal(s) PROVE ConnectingIsOwned'
  BY <1>2, <1>10 DEF OnFatal, StopRequest, StopRunner
<1>11. ASSUME ReloadByState, UNCHANGED revoke PROVE ConnectingIsOwned'
  BY <1>1, <1>2, <1>11 DEF ReloadByState, StopRequest, StopRunner
<1>12. CASE JobAnnounce \/ Destroy \/ SelectEarly \/ ReloadSelectorEarly
  BY <1>2, <1>12 DEF JobAnnounce, Destroy, SelectEarly, ReloadSelectorEarly, ProcessDies
<1>13. ASSUME NEW c \in Callers, FinishStop(c) PROVE ConnectingIsOwned'
  BY <1>2, <1>13 DEF FinishStop
<1>14. CASE StartCommand \/ ReloadSelector \/ GuardFails \/ StartService \/ UNCHANGED vars
  BY <1>1, <1>14 DEF StartCommand, ReloadSelector, GuardFails, StartService, vars,
     threadVars, dataVars
<1>15. ASSUME NEW s \in selecting, SelectApply(s) PROVE ConnectingIsOwned'
  BY <1>1, <1>15 DEF SelectApply, threadVars, dataVars
<1>16. ASSUME NEW s \in selecting, SelectRejected(s) PROVE ConnectingIsOwned'
  BY <1>11, <1>16 DEF SelectRejected
<1>17. CASE ReloadFull
  BY <1>11, <1>17 DEF ReloadFull
<1> QED
  BY <1>3, <1>4, <1>5, <1>6, <1>7, <1>8, <1>9, <1>10, <1>12, <1>13, <1>14, <1>15,
     <1>16, <1>17 DEF Next, MainThread, BinderThread, Environment

(* The service never hangs in Connecting, bound or not, however cancelled, *)
(* stale or failed its start is.                                           *)
THEOREM ConnectingAlwaysOwned == Spec => []ConnectingIsOwned
<1>1. Init => StoppingIsOwned /\ OwnedStart /\ ConnectingIsOwned
  BY DEF Init, StoppingIsOwned, OwnedStart, ConnectingIsOwned
<1>2. TypeOK /\ OwnedStart /\ ConnectingIsOwned /\ [Next]_vars => ConnectingIsOwned'
  BY ConnectingStep
<1> QED
  BY <1>1, <1>2, OwnedStep, TypeCorrect, PTL DEF Spec

-----------------------------------------------------------------------------
(* What cancelling does to a job. *)
LEMMA CancelledFacts ==
  ASSUME NEW j \in Job
  PROVE  \/ Cancelled(j) = j
         \/ j.pc = "sending" /\ Cancelled(j) = NoJob
         \/ /\ j.pc = "resumed" /\ Cancelled(j).pc = "cancelled"
            /\ Cancelled(j).proxy = j.proxy
  BY DEF Cancelled, Job

(* A stop request on the main thread keeps the session invariant. *)
LEMMA StopRequestSession ==
  ASSUME TypeOK, SessionInv, MainFree, NEW then, StopRequest(then),
         UNCHANGED <<main, proxy, cores, left>>
  PROVE  SessionInv'
<1> USE DEF TypeOK, ThreadTypes, DataTypes
<1>1. state' = "Stopping" /\ main = "idle"
  BY DEF StopRequest, StopRunner, MainFree
<1>2. ConnectedHasCore' /\ SessionFresh'
  BY <1>1 DEF SessionInv, ConnectedHasCore, SessionFresh
<1>3. \/ job' = job
      \/ job.pc = "sending" /\ job' = NoJob
      \/ /\ job.pc = "resumed" /\ job'.pc = "cancelled"
         /\ job'.proxy = job.proxy
  BY CancelledFacts DEF StopRequest
<1>4. JobOwnsProxy'
  BY <1>1, <1>3 DEF SessionInv, JobOwnsProxy, NoJob
<1>5. CoresOfSession'
  BY <1>1, <1>3 DEF SessionInv, CoresOfSession, OneCore, NoJob
<1> QED
  BY <1>2, <1>4, <1>5 DEF SessionInv

(* So does a reload. *)
LEMMA ReloadByStateSession ==
  ASSUME TypeOK, SessionInv, MainFree, ReloadByState,
         UNCHANGED <<main, proxy, cores, left>>
  PROVE  SessionInv'
<1>1. CASE state \in CanStop
  BY <1>1, StopRequestSession DEF ReloadByState
<1>2. CASE state \notin CanStop
  BY <1>2 DEF ReloadByState, SessionInv, OneCore, ConnectedHasCore, JobOwnsProxy,
     SessionFresh, CoresOfSession
<1> QED
  BY <1>1, <1>2

(* A bound service never gets a destroy message. *)
LEMMA NeverDestroyedStep ==
  TypeOK /\ NeverDestroyed /\ [Next]_vars => NeverDestroyed'
<1> SUFFICES ASSUME TypeOK, NeverDestroyed, [Next]_vars PROVE NeverDestroyed'
  OBVIOUS
<1> USE DEF NeverDestroyed, TypeOK, EnvTypes
<1>a. ASSUME queue # <<>>, queue' = Tail(queue) PROVE NeverDestroyed'
  BY <1>a
<1>b. ASSUME queue' = Append(queue, "start") PROVE NeverDestroyed'
  BY <1>b
<1>1. CASE StartCommand
  BY <1>1, <1>a DEF StartCommand
<1>2. CASE StartRefused
  BY <1>2, <1>a DEF StartRefused
<1>3. CASE StartConnecting
  BY <1>3 DEF StartConnecting, coreVars, envVars
<1>4. CASE StartFails
  BY <1>4 DEF StartFails, coreVars, envVars
<1>5. CASE JobCancelled
  BY <1>5 DEF JobCancelled, dataVars, coreVars, envVars
<1>6. CASE JobLaunch
  BY <1>6 DEF JobLaunch, dataVars, envVars
<1>7. ASSUME NEW made \in BOOLEAN, JobFails(made) PROVE NeverDestroyed'
  BY <1>7 DEF JobFails, envVars
<1>8. CASE JobCheck
  BY <1>8 DEF JobCheck, dataVars, coreVars, envVars
<1>9. CASE JobAnnounce
  BY <1>9 DEF JobAnnounce, coreVars, envVars
<1>10. ASSUME NEW c \in Callers, FinishStop(c) PROVE NeverDestroyed'
  <2>1. ~Bound \/ queue' = queue \/ queue' = Append(queue, "start")
    BY <1>10 DEF FinishStop, AfterStop, ThreadTypes, Stop
  <2> QED
    BY <2>1, <1>b
<1>11. ASSUME NEW s \in fatal, OnFatal(s) PROVE NeverDestroyed'
  BY <1>11 DEF OnFatal, coreVars
<1>12. ASSUME NEW s \in selecting, SelectApply(s) PROVE NeverDestroyed'
  BY <1>12 DEF SelectApply, threadVars, dataVars, coreVars
<1>13. CASE SelectEarly
  BY <1>13 DEF SelectEarly, ProcessDies
<1>14. ASSUME NEW s \in selecting, SelectRejected(s) PROVE NeverDestroyed'
  <2>1. queue' = queue \/ queue' = Append(queue, "start")
    BY <1>14 DEF SelectRejected, ReloadByState
  <2> QED
    BY <2>1, <1>b
<1>15. CASE RevokeStopBegins
  BY <1>15 DEF RevokeStopBegins, dataVars, coreVars, envVars
<1>16. CASE Destroy
  BY <1>16, <1>a DEF Destroy
<1>17. CASE RevokeCheck
  BY <1>17 DEF RevokeCheck, dataVars, coreVars, envVars
<1>18. CASE RevokeStopping
  BY <1>18 DEF RevokeStopping, coreVars, envVars
<1>19. CASE RevokeRead
  BY <1>19 DEF RevokeRead, dataVars, coreVars, envVars
<1>20. CASE RevokePost
  BY <1>20 DEF RevokePost, coreVars, envVars
<1>21. CASE ActorAccepts
  BY <1>21 DEF ActorAccepts, dataVars, coreVars, envVars
<1>22. CASE Close
  BY <1>22 DEF Close, Broadcast, coreVars
<1>23. CASE ReloadFull
  <2>1. queue' = queue \/ queue' = Append(queue, "start")
    BY <1>23 DEF ReloadFull, ReloadByState
  <2> QED
    BY <2>1, <1>b
<1>24. CASE ReloadEmpty
  BY <1>24 DEF ReloadEmpty, Broadcast, coreVars
<1>25. CASE ReloadSelectorEarly
  BY <1>25 DEF ReloadSelectorEarly, ProcessDies, Broadcast
<1>26. CASE ReloadSelector
  BY <1>26 DEF ReloadSelector, Broadcast, threadVars, dataVars, coreVars
<1>27. CASE GuardFails
  BY <1>27 DEF GuardFails, threadVars, dataVars, coreVars
<1>28. CASE OnRevoke
  BY <1>28 DEF OnRevoke, coreVars
<1>29. CASE StartService
  BY <1>29, <1>b DEF StartService
<1>30. CASE UNCHANGED vars
  BY <1>30 DEF vars
<1> QED
  BY <1>1, <1>2, <1>3, <1>4, <1>5, <1>6, <1>7, <1>8, <1>9, <1>10, <1>11,
     <1>12, <1>13, <1>14, <1>15, <1>16, <1>17, <1>18, <1>19, <1>20, <1>21, <1>22,
     <1>23, <1>24, <1>25, <1>26, <1>27, <1>28, <1>29, <1>30
     DEF Next, MainThread, BinderThread, Environment

(* Every step of the service, bound or not, keeps the session invariant. *)
LEMMA SessionStep ==
  TypeOK /\ NeverDestroyed /\ SessionInv /\ [Next]_vars => SessionInv'
<1> SUFFICES ASSUME TypeOK, NeverDestroyed, SessionInv, [Next]_vars
             PROVE  SessionInv'
  OBVIOUS
<1> USE DEF SessionInv, OneCore, ConnectedHasCore, JobOwnsProxy, SessionFresh,
            CoresOfSession, NoJob, TypeOK, ThreadTypes, DataTypes, CoreTypes, Job
<1>1. CASE StartCommand
  BY <1>1 DEF StartCommand, MainFree
<1>2. CASE StartRefused
  BY <1>2, StopRequestSession DEF StartRefused, coreVars
<1>3. CASE StartConnecting
  BY <1>3 DEF StartConnecting, coreVars, envVars
<1>4. CASE StartFails
  BY <1>4 DEF StartFails, coreVars, envVars
<1>5. CASE JobCancelled
  BY <1>5 DEF JobCancelled, dataVars, coreVars, envVars, MainFree
<1>6. CASE JobLaunch
  BY <1>6 DEF JobLaunch, dataVars, envVars, MainFree
<1>7. ASSUME NEW made \in BOOLEAN, JobFails(made) PROVE SessionInv'
  <2>1. /\ job.pc = "resumed" /\ job.proxy = proxy /\ proxy # 0 /\ main = "idle"
        /\ cores \subseteq left.cores
    BY <1>7 DEF JobFails, MainFree
  <2>2. cores' \subseteq left.cores \cup {proxy}
    BY <1>7, <2>1 DEF JobFails
  <2>3. UNCHANGED <<proxy, main, left>> /\ job' = NoJob /\ state' = "Stopping"
    BY <1>7 DEF JobFails, StopRunner, envVars
  <2> QED
    BY <2>1, <2>2, <2>3
<1>8. CASE JobCheck
  BY <1>8 DEF JobCheck, dataVars, coreVars, envVars
<1>9. CASE JobAnnounce
  BY <1>9 DEF JobAnnounce, coreVars, envVars
<1>10. ASSUME NEW c \in Callers, FinishStop(c) PROVE SessionInv'
  BY <1>10 DEF FinishStop, AfterStop, Runnable
<1>11. ASSUME NEW s \in fatal, OnFatal(s) PROVE SessionInv'
  BY <1>11, StopRequestSession DEF OnFatal, coreVars
<1>12. ASSUME NEW s \in selecting, SelectApply(s) PROVE SessionInv'
  BY <1>12 DEF SelectApply, threadVars, dataVars, coreVars
<1>13. CASE SelectEarly
  BY <1>13 DEF SelectEarly, ProcessDies
<1>14. ASSUME NEW s \in selecting, SelectRejected(s) PROVE SessionInv'
  BY <1>14, ReloadByStateSession DEF SelectRejected, coreVars
<1>15. CASE RevokeStopBegins
  <2>1. \/ job' = job
        \/ job.pc = "sending" /\ job' = NoJob
        \/ /\ job.pc = "resumed" /\ job'.pc = "cancelled"
           /\ job'.proxy = job.proxy
    BY <1>15, CancelledFacts DEF RevokeStopBegins
  <2> QED
    BY <1>15, <2>1 DEF RevokeStopBegins, dataVars, coreVars, envVars
<1>16. CASE Destroy
  <2>1. queue[1] = "destroy" /\ 1 \in 1..Len(queue)
    BY <1>16 DEF Destroy, EnvTypes
  <2>2. ~Bound
    BY <2>1 DEF NeverDestroyed
  <2> QED
    BY <1>16, <2>2 DEF Destroy, MainFree
<1>17. CASE RevokeCheck
  BY <1>17 DEF RevokeCheck, dataVars, coreVars, envVars
<1>18. CASE RevokeStopping
  BY <1>18 DEF RevokeStopping, coreVars, envVars
<1>19. CASE RevokeRead
  BY <1>19 DEF RevokeRead, dataVars, coreVars, envVars
<1>20. CASE RevokePost
  BY <1>20 DEF RevokePost, coreVars, envVars
<1>21. CASE ActorAccepts
  BY <1>21 DEF ActorAccepts, dataVars, coreVars, envVars
<1>22. CASE Close
  BY <1>22, StopRequestSession DEF Close, Broadcast, coreVars
<1>23. CASE ReloadFull
  BY <1>23, ReloadByStateSession DEF ReloadFull, Broadcast, coreVars
<1>24. CASE ReloadEmpty
  BY <1>24, StopRequestSession DEF ReloadEmpty, Broadcast, coreVars
<1>25. CASE ReloadSelectorEarly
  BY <1>25 DEF ReloadSelectorEarly, ProcessDies, Broadcast
<1>26. CASE ReloadSelector
  BY <1>26 DEF ReloadSelector, Broadcast, threadVars, dataVars, coreVars
<1>27. CASE GuardFails
  BY <1>27 DEF GuardFails, threadVars, dataVars, coreVars
<1>28. CASE OnRevoke
  BY <1>28 DEF OnRevoke, coreVars
<1>29. CASE StartService
  BY <1>29 DEF StartService, threadVars, dataVars, coreVars
<1>30. CASE UNCHANGED vars
  BY <1>30 DEF vars
<1> QED
  BY <1>1, <1>2, <1>3, <1>4, <1>5, <1>6, <1>7, <1>8, <1>9, <1>10, <1>11,
     <1>12, <1>13, <1>14, <1>15, <1>16, <1>17, <1>18, <1>19, <1>20, <1>21, <1>22,
     <1>23, <1>24, <1>25, <1>26, <1>27, <1>28, <1>29, <1>30
     DEF Next, MainThread, BinderThread, Environment

(* The service keeps the session invariant for ever. *)
LEMMA SessionHolds == Spec => []SessionInv
<1>1. Init => NeverDestroyed /\ SessionInv
  BY DEF Init, NeverDestroyed, SessionInv, OneCore, ConnectedHasCore, JobOwnsProxy,
     SessionFresh, CoresOfSession, NoJob, NothingLeft
<1> QED
  BY <1>1, SessionStep, NeverDestroyedStep, TypeCorrect, PTL DEF Spec

(* A bound service never orphans or doubles a core: every box that is open *)
(* belongs to data.proxy, which every stop closes.                         *)
THEOREM NeverTwoCores == ASSUME Bound PROVE Spec => []OneCore
<1>1. SessionInv => OneCore
  BY DEF SessionInv, CoresOfSession, OneCore, NothingLeft
<1> QED
  BY <1>1, SessionHolds, PTL

(* A bound service that says Stopped has released what its sessions held. *)
THEOREM StoppedAlwaysClean == ASSUME Bound PROVE Spec => []StoppedIsClean
<1>1. TypeOK /\ SessionInv => StoppedIsClean
  BY DEF SessionInv, StoppedIsClean, OneCore, JobOwnsProxy, SessionFresh,
     CoresOfSession, TypeOK, ThreadTypes, Job, NothingLeft
<1> QED
  BY <1>1, SessionHolds, TypeCorrect, PTL

(* A core is open only for the session of the service object there is, or  *)
(* because onDestroy cancelled the stop that would have closed it; with    *)
(* Stopped announced nothing but the latter is left.  (onDestroy releases  *)
(* nothing itself: what the destroyed object held is in left.)             *)
CoresAccounted ==
  /\ cores \subseteq left.cores \cup ({proxy} \ {0})
  /\ state = "Stopped" /\ main # "start" => proxy = 0 /\ cores \subseteq left.cores

(* Bound or not, however often it is destroyed, restarted or revoked, the  *)
(* service loses no core but in onDestroy.                                 *)
THEOREM CoresAlwaysAccounted == Spec => []CoresAccounted
<1>1. TypeOK /\ SessionInv => CoresAccounted
  BY DEF SessionInv, CoresAccounted, CoresOfSession, SessionFresh
<1> QED
  BY <1>1, SessionHolds, TypeCorrect, PTL

(* The service says Connected only while the session's core is open, bound *)
(* or not.                                                                 *)
THEOREM ConnectedAlwaysHasCore == Spec => []ConnectedHasCore
<1>1. SessionInv => ConnectedHasCore
  BY DEF SessionInv
<1> QED
  BY <1>1, SessionHolds, PTL
-----------------------------------------------------------------------------
(* A step of a bound service that ends a connecting job short of Connected *)
(* has, or leaves, a stop in flight.                                       *)
EndedStart ==
  job # NoJob /\ job' = NoJob /\ state' # "Connected" /\ crashes' = crashes
    => StopInFlight'

(* Each action, taken alone, does so. *)
LEMMA EndedStartStep ==
  ASSUME Bound, TypeOK, StoppingIsOwned, OwnedStart, NeverDestroyed, [Next]_vars
  PROVE  EndedStart
<1> USE DEF EndedStart, OwnedStart, StopInFlight, NoJob
<1>1. CASE StartCommand
  BY <1>1 DEF StartCommand
<1>2. CASE StartRefused
  BY <1>2, StopRunnerInFlight DEF StartRefused, StopRequest
<1>3. CASE StartConnecting
  BY <1>3 DEF StartConnecting, coreVars, envVars
<1>4. CASE StartFails
  BY <1>4 DEF StartFails, coreVars, envVars
<1>5. CASE JobCancelled
  BY <1>5 DEF JobCancelled, dataVars, coreVars, envVars
<1>6. CASE JobLaunch
  BY <1>6 DEF JobLaunch, dataVars, envVars
<1>7. ASSUME NEW made \in BOOLEAN, JobFails(made) PROVE EndedStart
  BY <1>7, StopRunnerInFlight DEF JobFails, StopRequest
<1>8. CASE JobCheck
  BY <1>8 DEF JobCheck, dataVars, coreVars, envVars
<1>9. CASE JobAnnounce
  BY <1>9 DEF JobAnnounce, coreVars, envVars
<1>10. ASSUME NEW c \in Callers, FinishStop(c) PROVE EndedStart
  BY <1>10 DEF FinishStop, AfterStop
<1>11. ASSUME NEW s \in fatal, OnFatal(s) PROVE EndedStart
  BY <1>11, StopRunnerInFlight DEF OnFatal, StopRequest
<1>12. ASSUME NEW s \in selecting, SelectApply(s) PROVE EndedStart
  BY <1>12 DEF SelectApply, threadVars, dataVars, coreVars
<1>13. CASE SelectEarly
  BY <1>13 DEF SelectEarly, ProcessDies, TypeOK, EnvTypes
<1>14. ASSUME NEW s \in selecting, SelectRejected(s) PROVE EndedStart
  <2>1. CASE state \in CanStop
    BY <1>14, <2>1, StopRunnerInFlight DEF SelectRejected, ReloadByState, StopRequest
  <2>2. CASE state \notin CanStop
    BY <1>14, <2>2 DEF SelectRejected, ReloadByState
  <2> QED
    BY <2>1, <2>2
<1>15. CASE RevokeStopBegins
  BY <1>15 DEF RevokeStopBegins, Callers, TypeOK, ThreadTypes
<1>16. CASE Destroy
  <2>1. queue[1] = "destroy" /\ 1 \in 1..Len(queue)
    BY <1>16 DEF Destroy, EnvTypes, TypeOK
  <2> QED
    BY <2>1 DEF NeverDestroyed
<1>17. CASE RevokeCheck
  BY <1>17 DEF RevokeCheck, dataVars, coreVars, envVars
<1>18. CASE RevokeStopping
  BY <1>18 DEF RevokeStopping, coreVars, envVars
<1>19. CASE RevokeRead
  BY <1>19 DEF RevokeRead, dataVars, coreVars, envVars
<1>20. CASE RevokePost
  BY <1>20 DEF RevokePost, coreVars, envVars
<1>21. CASE ActorAccepts
  BY <1>21 DEF ActorAccepts, dataVars, coreVars, envVars, TypeOK, ThreadTypes, Job
<1>22. CASE Close
  BY <1>22, StopRunnerInFlight DEF Close, StopRequest, Broadcast
<1>23. CASE ReloadFull
  <2>1. CASE state \in CanStop
    BY <1>23, <2>1, StopRunnerInFlight DEF ReloadFull, ReloadByState, StopRequest
  <2>2. CASE state \notin CanStop
    BY <1>23, <2>2 DEF ReloadFull, ReloadByState
  <2> QED
    BY <2>1, <2>2
<1>24. CASE ReloadEmpty
  BY <1>24, StopRunnerInFlight DEF ReloadEmpty, StopRequest, Broadcast
<1>25. CASE ReloadSelectorEarly
  BY <1>25 DEF ReloadSelectorEarly, ProcessDies, TypeOK, EnvTypes
<1>26. CASE ReloadSelector
  BY <1>26 DEF ReloadSelector, Broadcast, threadVars, dataVars, coreVars
<1>27. CASE GuardFails
  BY <1>27 DEF GuardFails, threadVars, dataVars, coreVars
<1>28. CASE OnRevoke
  BY <1>28 DEF OnRevoke, coreVars
<1>29. CASE StartService
  BY <1>29 DEF StartService, threadVars, dataVars, coreVars
<1>30. CASE UNCHANGED vars
  BY <1>30 DEF vars
<1> QED
  BY <1>1, <1>2, <1>3, <1>4, <1>5, <1>6, <1>7, <1>8, <1>9, <1>10, <1>11,
     <1>12, <1>13, <1>14, <1>15, <1>16, <1>17, <1>18, <1>19, <1>20, <1>21, <1>22,
     <1>23, <1>24, <1>25, <1>26, <1>27, <1>28, <1>29, <1>30
     DEF Next, MainThread, BinderThread, Environment

(* Whoever cancels the start of a bound service stops the service, as the  *)
(* handler of CancellationException relies on.                             *)
THEOREM CancellerStops == ASSUME Bound PROVE Spec => EndedStartIsStopped
<1>1. Init => StoppingIsOwned /\ OwnedStart /\ NeverDestroyed
  BY DEF Init, StoppingIsOwned, OwnedStart, NeverDestroyed
<1>2. TypeOK /\ StoppingIsOwned /\ OwnedStart /\ NeverDestroyed /\ [Next]_vars
        => [EndedStart]_vars
  BY EndedStartStep
<1> QED
  BY <1>1, <1>2, OwnedStep, NeverDestroyedStep, TypeCorrect, PTL
     DEF Spec, EndedStartIsStopped, EndedStart

-----------------------------------------------------------------------------
(* Every step of a bound service is a step of the lease, or none at all. *)
LEMMA LeaseStep ==
  ASSUME Bound, TypeOK, NeverDestroyed, SessionInv, [Next]_vars
  PROVE  [Lease!LeaseNext]_(Lease!leaseVars)
<1> USE DEF Lease!leaseVars, NothingLeft
<1>1. CASE StartCommand
  <2>1. CASE state = "Stopped"
    <3>1. proxy = 0 /\ cores = {}
      BY <1>1, <2>1 DEF StartCommand, MainFree, SessionInv, SessionFresh, CoresOfSession, OneCore
    <3> QED
      BY <1>1, <2>1, <3>1 DEF StartCommand, Lease!LeaseNext, Lease!Issue
  <2>2. CASE state # "Stopped"
    BY <1>1, <2>2 DEF StartCommand
  <2> QED
    BY <2>1, <2>2
<1>2. CASE StartRefused
  BY <1>2 DEF StartRefused, coreVars
<1>3. CASE StartConnecting
  BY <1>3 DEF StartConnecting, coreVars, envVars
<1>4. CASE StartFails
  BY <1>4 DEF StartFails, coreVars, envVars
<1>5. CASE JobCancelled
  BY <1>5 DEF JobCancelled, dataVars, coreVars, envVars
<1>6. CASE JobLaunch
  <2>1. proxy # 0 /\ job.proxy = proxy /\ cores = {}
    BY <1>6 DEF JobLaunch, SessionInv, JobOwnsProxy, CoresOfSession
  <2> QED
    BY <1>6, <2>1 DEF JobLaunch, dataVars, Lease!LeaseNext, Lease!Open
<1>7. ASSUME NEW made \in BOOLEAN, JobFails(made) PROVE [Lease!LeaseNext]_(Lease!leaseVars)
  <2>1. proxy # 0 /\ job.proxy = proxy /\ cores = {}
    BY <1>7 DEF JobFails, SessionInv, JobOwnsProxy, CoresOfSession
  <2> QED
    BY <1>7, <2>1 DEF JobFails, Lease!LeaseNext, Lease!Open
<1>8. CASE JobCheck
  BY <1>8 DEF JobCheck, dataVars, coreVars, envVars
<1>9. CASE JobAnnounce
  BY <1>9 DEF JobAnnounce, coreVars, envVars
<1>10. ASSUME NEW c \in Callers, FinishStop(c) PROVE [Lease!LeaseNext]_(Lease!leaseVars)
  <2>1. cores' = {}
    BY <1>10 DEF FinishStop, SessionInv, CoresOfSession, OneCore
  <2>2. CASE proxy = 0
    BY <1>10, <2>1, <2>2 DEF FinishStop, SessionInv, CoresOfSession, OneCore
  <2>3. CASE proxy # 0
    BY <1>10, <2>1, <2>3 DEF FinishStop, Lease!LeaseNext, Lease!GiveUp
  <2> QED
    BY <2>2, <2>3
<1>11. ASSUME NEW s \in fatal, OnFatal(s) PROVE [Lease!LeaseNext]_(Lease!leaseVars)
  BY <1>11 DEF OnFatal, coreVars
<1>12. ASSUME NEW s \in selecting, SelectApply(s) PROVE [Lease!LeaseNext]_(Lease!leaseVars)
  BY <1>12 DEF SelectApply, threadVars, dataVars, coreVars
<1>13. CASE SelectEarly
  BY <1>13 DEF SelectEarly, ProcessDies, Lease!LeaseNext, Lease!GiveUp
<1>14. ASSUME NEW s \in selecting, SelectRejected(s) PROVE [Lease!LeaseNext]_(Lease!leaseVars)
  BY <1>14 DEF SelectRejected, coreVars
<1>15. CASE RevokeStopBegins
  BY <1>15 DEF RevokeStopBegins, dataVars, coreVars, envVars
<1>16. CASE Destroy
  <2>1. queue[1] = "destroy" /\ 1 \in 1..Len(queue)
    BY <1>16 DEF Destroy, EnvTypes, TypeOK
  <2> QED
    BY <2>1 DEF NeverDestroyed
<1>17. CASE RevokeCheck
  BY <1>17 DEF RevokeCheck, dataVars, coreVars, envVars
<1>18. CASE RevokeStopping
  BY <1>18 DEF RevokeStopping, coreVars, envVars
<1>19. CASE RevokeRead
  BY <1>19 DEF RevokeRead, dataVars, coreVars, envVars
<1>20. CASE RevokePost
  BY <1>20 DEF RevokePost, coreVars, envVars
<1>21. CASE ActorAccepts
  BY <1>21 DEF ActorAccepts, dataVars, coreVars, envVars
<1>22. CASE Close
  BY <1>22 DEF Close, Broadcast, coreVars
<1>23. CASE ReloadFull
  BY <1>23 DEF ReloadFull, Broadcast, coreVars
<1>24. CASE ReloadEmpty
  BY <1>24 DEF ReloadEmpty, Broadcast, coreVars
<1>25. CASE ReloadSelectorEarly
  BY <1>25 DEF ReloadSelectorEarly, ProcessDies, Lease!LeaseNext, Lease!GiveUp
<1>26. CASE ReloadSelector
  BY <1>26 DEF ReloadSelector, Broadcast, threadVars, dataVars, coreVars
<1>27. CASE GuardFails
  BY <1>27 DEF GuardFails, threadVars, dataVars, coreVars
<1>28. CASE OnRevoke
  BY <1>28 DEF OnRevoke, coreVars
<1>29. CASE StartService
  BY <1>29 DEF StartService, threadVars, dataVars, coreVars
<1>30. CASE UNCHANGED vars
  BY <1>30 DEF vars
<1> QED
  BY <1>1, <1>2, <1>3, <1>4, <1>5, <1>6, <1>7, <1>8, <1>9, <1>10, <1>11,
     <1>12, <1>13, <1>14, <1>15, <1>16, <1>17, <1>18, <1>19, <1>20, <1>21, <1>22,
     <1>23, <1>24, <1>25, <1>26, <1>27, <1>28, <1>29, <1>30
     DEF Next, MainThread, BinderThread, Environment

(* A bound service implements the lease: numbered sessions, one core at a  *)
(* time, each opened at most once and closed with its session.             *)
THEOREM ServiceImplementsLease == ASSUME Bound PROVE Spec => LeaseRefined
<1>1. Init => Lease!LeaseInit
  BY DEF Init, Lease!LeaseInit
<1>2. Init => NeverDestroyed
  BY DEF Init, NeverDestroyed
<1>3. TypeOK /\ NeverDestroyed /\ SessionInv /\ [Next]_vars
        => [Lease!LeaseNext]_(Lease!leaseVars)
  BY LeaseStep
<1> QED
  BY <1>1, <1>2, <1>3, SessionHolds, NeverDestroyedStep, TypeCorrect, PTL
     DEF Spec, LeaseRefined, Lease!LeaseSpec
=============================================================================
