-------------------------- MODULE ServiceLifecycle --------------------------
(* The bg service: BaseService.Data and BaseService.Interface, with what    *)
(* VpnService, ProxyService, ProxyInstance and GuardedProcessPool add.      *)
(*                                                                          *)
(* Threads.  Every handler runs on the Android main thread, which executes  *)
(* one slice (a Looper message, up to the next real suspension of the       *)
(* coroutine it runs) at a time.  Dispatchers.Main.immediate resumes        *)
(* coroutines inline, so whatever a slice resumes runs before the next      *)
(* message.  Two other threads matter: VpnService.onRevoke is called on a   *)
(* binder thread and runs the first half of stopRunner there, and the       *)
(* network actor accepts the send that preInit is suspended in.             *)
EXTENDS Naturals, Sequences

CONSTANTS
  Bound,      \* does a client (activity, tile) keep the service bound?
  MaxEvents   \* bound: how many events the environment produces

ASSUME ServiceAssumption == Bound \in BOOLEAN /\ MaxEvents \in Nat

VARIABLES
  state,        \* data.state of the service object there is
  generation,   \* data.generation
  proxy,        \* data.proxy: the number of its session, 0 for null
  held,         \* which of the fields in Fields are set
  main,         \* where the main thread is inside a slice, or "idle"
  job,          \* data.connectingJob
  stop,         \* the coroutine launched by stopRunner, per calling thread
  revoke,       \* the binder thread inside onRevoke
  sessions,     \* how many ProxyInstances onStartCommand created
  cores,        \* sessions whose box was created and not closed yet
  left,         \* history: what destroyed service objects never released
  queue,        \* start and destroy messages on their way to the main thread
  fatal,        \* sessions whose process pool posted onFatal
  selecting,    \* sessions a selector-only reload is being checked against
  crashes,      \* how often the process died of an uncaught exception
  events        \* environment events so far

dataVars == <<state, generation, proxy, held>>
threadVars == <<main, job, stop, revoke>>
coreVars == <<sessions, cores>>
envVars == <<queue, fatal, selecting, crashes, left, events>>
vars == <<state, generation, proxy, held, main, job, stop, revoke, sessions,
          cores, queue, fatal, selecting, crashes, left, events>>

State == {"Connecting", "Connected", "Stopping", "Stopped"}
CanStop == {"Connecting", "Connected"}

(* closeReceiverRegistered, data.notification and wakeLock of the service  *)
(* object there is, and DataStore.baseService.                             *)
Fields == {"receiver", "notification", "wakeLock", "baseService"}

(* A connecting job is suspended in preInit ("sending"), has its resumption *)
(* posted to the main thread ("resumed", or "cancelled" when it was         *)
(* cancelled since), or is running there.                                   *)
NoJob == [pc |-> "none", gen |-> 0, proxy |-> 0]
Job == [pc : {"none", "sending", "resumed", "cancelled", "running"},
        gen : Nat, proxy : Nat]

(* A stop coroutine is posted to the main thread (from the binder thread), *)
(* or has run up to connectingJob?.cancelAndJoin() and waits for the job.  *)
Callers == {"main", "revoke"}
NoStop == [pc |-> "none", then |-> "stopSelf"]
Stop == [pc : {"none", "posted", "join"}, then : {"stopSelf", "startRunner"}]

NoRevoke == [pc |-> "idle", read |-> 0]
Revoke == [pc : {"idle", "check", "set", "read", "write"}, read : Nat]

NothingLeft == [cores |-> {}, held |-> {}]

Init ==
  /\ state = "Stopped" /\ generation = 0 /\ proxy = 0 /\ held = {}
  /\ main = "idle" /\ job = NoJob
  /\ stop = [c \in Callers |-> NoStop] /\ revoke = NoRevoke
  /\ sessions = 0 /\ cores = {}
  /\ queue = <<>> /\ fatal = {} /\ selecting = {} /\ crashes = 0 /\ left = NothingLeft
  /\ events = 0

-----------------------------------------------------------------------------
(* The main thread *)

(* A stop coroutine whose join has nothing left to wait for. *)
Runnable(c) == stop[c].pc = "join" /\ job = NoJob

(* The main thread takes its next message only when the slice it is in has *)
(* ended, coroutines resumed inline included.                              *)
MainFree == main = "idle" /\ ~ \E c \in Callers : Runnable(c)

(* Cancelling a coroutine suspended in send resumes it, and so ends it, on *)
(* the spot; when its resumption is already posted it ends when that runs. *)
Cancelled(j) ==
  CASE j.pc = "sending" -> NoJob
    [] j.pc = "resumed" -> [j EXCEPT !.pc = "cancelled"]
    [] OTHER -> j

(* Mutant: the coroutine is launched only to wait for a connecting job. *)
MutStopRunnerJobOnly(then) ==
  \/ /\ state = "Stopping"
     /\ held' = held \ {"baseService"}
     /\ UNCHANGED <<state, generation, stop>>
  \/ /\ state # "Stopping"
     /\ held' = held \ {"baseService", "notification"}
     /\ state' = "Stopping"
     /\ generation' = generation + 1
     /\ stop' = IF job = NoJob THEN stop
                ELSE [stop EXCEPT !["main"] = [pc |-> "join", then |-> then]]

(* stopRunner called on the main thread, up to the suspension in join. *)
StopRunner(then) ==
  \/ /\ state = "Stopping"
     /\ held' = held \ {"baseService"}
     /\ UNCHANGED <<state, generation, stop>>
  \/ /\ state # "Stopping"
     /\ held' = held \ {"baseService", "notification"}
     /\ state' = "Stopping"
     /\ generation' = generation + 1
     /\ stop' = [stop EXCEPT !["main"] = [pc |-> "join", then |-> then]]

(* stopRunner called by anyone but the connecting job itself. *)
StopRequest(then) ==
  /\ StopRunner(then)
  /\ job' = IF state = "Stopping" THEN job ELSE Cancelled(job)

(* Mutant: a start command is obeyed in any state but Connected. *)
MutStartCommandUnguarded ==
  /\ MainFree /\ queue # <<>> /\ Head(queue) = "start"
  /\ queue' = Tail(queue)
  /\ \/ /\ state # "Connected"
        /\ sessions' = sessions + 1
        /\ proxy' = sessions + 1
        /\ held' = held \cup {"baseService", "receiver"}
        /\ main' = "start"
     \/ /\ state = "Connected"
        /\ held' = held \cup {"baseService"}
        /\ UNCHANGED <<sessions, proxy, main>>
  /\ UNCHANGED <<state, generation, job, stop, revoke, cores, fatal,
                 selecting, crashes, left, events>>

(* onStartCommand: publishes the service, and goes on only when Stopped. *)
StartCommand ==
  /\ MainFree /\ queue # <<>> /\ Head(queue) = "start"
  /\ queue' = Tail(queue)
  /\ \/ /\ state = "Stopped"
        /\ sessions' = sessions + 1
        /\ proxy' = sessions + 1
        /\ held' = held \cup {"baseService", "receiver"}
        /\ main' = "start"
     \/ /\ state # "Stopped"
        /\ held' = held \cup {"baseService"}
        /\ UNCHANGED <<sessions, proxy, main>>
  /\ UNCHANGED <<state, generation, job, stop, revoke, cores, fatal,
                 selecting, crashes, left, events>>

(* onStartCommand when the VPN permission is missing, the service mode has *)
(* changed or the selected profile no longer exists.                       *)
StartRefused ==
  /\ MainFree /\ queue # <<>> /\ Head(queue) = "start"
  /\ queue' = Tail(queue)
  /\ StopRequest("stopSelf")
  /\ UNCHANGED <<proxy, main, revoke, coreVars, fatal, selecting, crashes, left, events>>

(* The rest of onStartCommand: Connecting is announced and the connecting *)
(* job runs until preInit suspends it.                                    *)
StartConnecting ==
  /\ main = "start"
  /\ main' = "idle"
  /\ state' = "Connecting"
  /\ generation' = generation + 1
  /\ held' = held \cup {"notification"}
  /\ job' = [pc |-> "sending", gen |-> generation + 1, proxy |-> proxy]
  /\ UNCHANGED <<proxy, stop, revoke, coreVars, envVars>>

(* The same when the notification cannot be shown: the job's handler calls *)
(* stopRunner before its first suspension.                                 *)
StartFails ==
  /\ main = "start"
  /\ main' = "idle"
  /\ state' = "Stopping"
  /\ generation' = generation + 2
  /\ held' = held \ {"baseService", "notification"}
  /\ stop' = [stop EXCEPT !["main"] = [pc |-> "join", then |-> "stopSelf"]]
  /\ UNCHANGED <<job, proxy, revoke, coreVars, envVars>>

(* The cancelled job is resumed: CancellationException, nothing but finally. *)
JobCancelled ==
  /\ MainFree /\ job.pc = "cancelled"
  /\ job' = NoJob
  /\ UNCHANGED <<main, stop, revoke, dataVars, coreVars, envVars>>

(* The job goes on: proxy.init() builds the config and the box,            *)
(* startProcesses() launches it.                                           *)
JobLaunch ==
  /\ MainFree /\ job.pc = "resumed"
  /\ cores' = cores \cup {job.proxy}
  /\ job' = [job EXCEPT !.pc = "running"]
  /\ main' = "check"
  /\ UNCHANGED <<sessions, stop, revoke, dataVars, envVars>>

(* Mutant: the handler of a failed start only logs. *)
MutJobFailsSilently(made) ==
  /\ MainFree /\ job.pc = "resumed"
  /\ cores' = IF made THEN cores \cup {job.proxy} ELSE cores
  /\ job' = NoJob
  /\ UNCHANGED <<main, stop, revoke, dataVars, sessions, envVars>>

(* The same when init or launch throws, before or after the box was made. *)
JobFails(made) ==
  /\ MainFree /\ job.pc = "resumed"
  /\ cores' = IF made THEN cores \cup {job.proxy} ELSE cores
  /\ job' = NoJob
  /\ StopRunner("stopSelf")
  /\ UNCHANGED <<proxy, main, revoke, sessions, envVars>>

(* The staleness check that guards the announcement of Connected. *)
JobCheck ==
  /\ main = "check"
  /\ IF job.gen # generation \/ state # "Connecting"
       THEN job' = NoJob /\ main' = "idle"
       ELSE main' = "announce" /\ UNCHANGED job
  /\ UNCHANGED <<stop, revoke, dataVars, coreVars, envVars>>

(* Connected, then lateInit, then the end of the job. *)
JobAnnounce ==
  /\ main = "announce"
  /\ main' = "idle"
  /\ state' = "Connected"
  /\ held' \in {held \ {"wakeLock"}, held \cup {"wakeLock"}}
  /\ job' = NoJob
  /\ UNCHANGED <<generation, proxy, stop, revoke, coreVars, envVars>>

(* startRunner, or stopSelf: an unbound service is destroyed by a message *)
(* that follows the start commands already on their way.                  *)
AfterStop(then) ==
  CASE then = "startRunner" -> Append(queue, "start")
    [] then = "stopSelf" /\ ~Bound -> Append(queue, "destroy")
    [] OTHER -> queue

(* Mutant: the wake lock is released only on the way to another start. *)
MutFinishStopKeepsLock(c) ==
  /\ main = "idle" /\ Runnable(c)
  /\ cores' = cores \ {proxy}
  /\ proxy' = 0
  /\ held' = held \ (IF stop[c].then = "startRunner" THEN {"wakeLock", "receiver"}
                                                    ELSE {"receiver"})
  /\ state' = "Stopped"
  /\ queue' = AfterStop(stop[c].then)
  /\ stop' = [stop EXCEPT ![c] = NoStop]
  /\ UNCHANGED <<generation, main, job, revoke, sessions, fatal,
                 selecting, crashes, left, events>>

(* Mutant: Stopped is announced only if the state is still Stopping. *)
MutFinishStopIfStopping(c) ==
  /\ main = "idle" /\ Runnable(c)
  /\ cores' = cores \ {proxy}
  /\ proxy' = 0
  /\ held' = held \ {"wakeLock", "receiver"}
  /\ state' = IF state = "Stopping" THEN "Stopped" ELSE state
  /\ queue' = AfterStop(stop[c].then)
  /\ stop' = [stop EXCEPT ![c] = NoStop]
  /\ UNCHANGED <<generation, main, job, revoke, sessions, fatal,
                 selecting, crashes, left, events>>

(* The rest of the stop coroutine: killProcesses, unregister, proxy = null, *)
(* Stopped, and startRunner or stopSelf.                                    *)
FinishStop(c) ==
  /\ main = "idle" /\ Runnable(c)
  /\ cores' = cores \ {proxy}
  /\ proxy' = 0
  /\ held' = held \ {"wakeLock", "receiver"}
  /\ state' = "Stopped"
  /\ queue' = AfterStop(stop[c].then)
  /\ stop' = [stop EXCEPT ![c] = NoStop]
  /\ UNCHANGED <<generation, main, job, revoke, sessions, fatal,
                 selecting, crashes, left, events>>

-----------------------------------------------------------------------------
(* Broadcasts, callbacks and coroutines that end in stopRunner *)

(* A broadcast reaches data.receiver. *)
Broadcast ==
  /\ MainFree /\ "receiver" \in held /\ events < MaxEvents
  /\ events' = events + 1

(* Action.CLOSE. *)
Close ==
  /\ Broadcast
  /\ StopRequest("stopSelf")
  /\ UNCHANGED <<proxy, main, revoke, coreVars, queue, fatal, selecting, crashes, left>>

(* What reload does when it cannot, or may not, just select an outbound. *)
ReloadByState ==
  \/ /\ state \in CanStop
     /\ StopRequest("startRunner")
     /\ UNCHANGED queue
  \/ /\ state \notin CanStop
     /\ queue' = IF state = "Stopped" THEN Append(queue, "start") ELSE queue
     /\ UNCHANGED <<state, generation, held, stop, job>>

(* reload with any reason but SelectorOnly. *)
ReloadFull ==
  /\ Broadcast
  /\ ReloadByState
  /\ UNCHANGED <<proxy, main, revoke, coreVars, fatal, selecting, crashes, left>>

(* reload when no profile is selected. *)
ReloadEmpty ==
  /\ Broadcast
  /\ StopRequest("stopSelf")
  /\ UNCHANGED <<proxy, main, revoke, coreVars, queue, fatal, selecting, crashes, left>>

(* An uncaught exception in serviceScope: the process, and with it every   *)
(* core, is gone; what the environment does next finds a fresh service.    *)
ProcessDies ==
  /\ state' = "Stopped" /\ generation' = 0 /\ proxy' = 0 /\ held' = {}
  /\ main' = "idle" /\ job' = NoJob
  /\ stop' = [c \in Callers |-> NoStop] /\ revoke' = NoRevoke
  /\ cores' = {}
  /\ queue' = <<>> /\ fatal' = {} /\ selecting' = {}
  /\ crashes' = crashes + 1 /\ left' = NothingLeft
  /\ UNCHANGED sessions

(* reload(SelectorOnly): canReloadSelector reads data.proxy.config, a      *)
(* lateinit property that init has not set yet while the job is in preInit. *)
ReloadSelectorEarly ==
  /\ Broadcast
  /\ proxy # 0 /\ proxy \notin cores
  /\ ProcessDies

(* reload(SelectorOnly) of a config with a selector: suspended on the      *)
(* database read.  One such reload per session is followed.                *)
ReloadSelector ==
  /\ Broadcast
  /\ proxy \in cores /\ proxy \notin selecting
  /\ selecting' = selecting \cup {proxy}
  /\ UNCHANGED <<threadVars, dataVars, coreVars, queue, fatal, crashes, left>>

(* The profile is in the group that was running: selectOutbound, on the    *)
(* proxy there is now, if any.                                             *)
SelectApply(s) ==
  /\ MainFree
  /\ proxy = 0 \/ proxy \in cores
  /\ selecting' = selecting \ {s}
  /\ UNCHANGED <<threadVars, dataVars, coreVars, queue, fatal, crashes, left, events>>

(* The same when a new session, not initialised yet, has taken its place. *)
SelectEarly ==
  /\ MainFree /\ selecting # {}
  /\ proxy # 0 /\ proxy \notin cores
  /\ ProcessDies
  /\ UNCHANGED events

(* The profile is gone or in another group: a reload like any other. *)
SelectRejected(s) ==
  /\ MainFree
  /\ selecting' = selecting \ {s}
  /\ ReloadByState
  /\ UNCHANGED <<proxy, main, revoke, coreVars, fatal, crashes, left, events>>

(* A guarded process exits too fast: its guard posts onFatal. *)
GuardFails ==
  /\ MainFree /\ proxy \in cores /\ events < MaxEvents
  /\ events' = events + 1
  /\ fatal' = fatal \cup {proxy}
  /\ UNCHANGED <<threadVars, dataVars, coreVars, queue, selecting, crashes, left>>

(* onFatal stops whatever session is there when it runs. *)
OnFatal(s) ==
  /\ MainFree
  /\ fatal' = fatal \ {s}
  /\ StopRequest("stopSelf")
  /\ UNCHANGED <<proxy, main, revoke, coreVars, queue, selecting, crashes, left, events>>

(* onDestroy: serviceScope and everything in it is cancelled; the next     *)
(* start command reaches a new service object.  The cores stay open and a  *)
(* wake lock and a notification stay as they are; of the receiver only the *)
(* framework disposes, with the context it was registered through.         *)
Destroy ==
  /\ MainFree /\ queue # <<>> /\ Head(queue) = "destroy"
  /\ queue' = Tail(queue)
  /\ left' = [cores |-> cores, held |-> left.held \cup (held \ {"baseService"})]
  /\ state' = "Stopped" /\ generation' = 0 /\ proxy' = 0
  /\ held' = held \cap {"baseService"}
  /\ job' = NoJob
  /\ stop' = [c \in Callers |-> NoStop] /\ revoke' = NoRevoke
  /\ fatal' = {} /\ selecting' = {}
  /\ UNCHANGED <<main, sessions, cores, crashes, events>>

-----------------------------------------------------------------------------
(* The other threads and the environment *)

(* The network actor receives the Start message preInit is sending. *)
ActorAccepts ==
  /\ job.pc = "sending"
  /\ job' = [job EXCEPT !.pc = "resumed"]
  /\ UNCHANGED <<main, stop, revoke, dataVars, coreVars, envVars>>

(* onRevoke on a binder thread: stopRunner() step by step, since none of   *)
(* what it touches is synchronised with the main thread.  One revocation   *)
(* at a time, of a VPN that was established.                               *)
OnRevoke ==
  /\ revoke.pc = "idle" /\ stop["revoke"].pc = "none"
  /\ cores # {} /\ events < MaxEvents
  /\ events' = events + 1
  /\ held' = held \ {"baseService"}
  /\ revoke' = [pc |-> "check", read |-> 0]
  /\ UNCHANGED <<state, generation, proxy, main, job, stop, coreVars, queue,
                 fatal, selecting, crashes, left>>

RevokeCheck ==
  /\ revoke.pc = "check"
  /\ revoke' = IF state = "Stopping" THEN NoRevoke ELSE [pc |-> "set", read |-> 0]
  /\ UNCHANGED <<main, job, stop, dataVars, coreVars, envVars>>

RevokeStopping ==
  /\ revoke.pc = "set"
  /\ held' = held \ {"notification"}
  /\ state' = "Stopping"
  /\ revoke' = [pc |-> "read", read |-> 0]
  /\ UNCHANGED <<generation, proxy, main, job, stop, coreVars, envVars>>

(* data.generation++ is a read and a write. *)
RevokeRead ==
  /\ revoke.pc = "read"
  /\ revoke' = [pc |-> "write", read |-> generation]
  /\ UNCHANGED <<main, job, stop, dataVars, coreVars, envVars>>

(* Mutant: the launch is skipped when the generation moved meanwhile. *)
MutRevokePostSkips ==
  /\ revoke.pc = "write"
  /\ generation' = revoke.read + 1
  /\ stop' = IF generation # revoke.read THEN stop
             ELSE [stop EXCEPT !["revoke"] = [pc |-> "posted", then |-> "stopSelf"]]
  /\ revoke' = NoRevoke
  /\ UNCHANGED <<state, proxy, held, main, job, coreVars, envVars>>

(* The write, and the launch that posts the stop coroutine. *)
RevokePost ==
  /\ revoke.pc = "write"
  /\ generation' = revoke.read + 1
  /\ stop' = [stop EXCEPT !["revoke"] = [pc |-> "posted", then |-> "stopSelf"]]
  /\ revoke' = NoRevoke
  /\ UNCHANGED <<state, proxy, held, main, job, coreVars, envVars>>

(* The posted coroutine starts on the main thread: cancelAndJoin. *)
RevokeStopBegins ==
  /\ MainFree /\ stop["revoke"].pc = "posted"
  /\ stop' = [stop EXCEPT !["revoke"] = [pc |-> "join", then |-> "stopSelf"]]
  /\ job' = Cancelled(job)
  /\ UNCHANGED <<main, revoke, dataVars, coreVars, envVars>>

(* SagerNet.startService(). *)
StartService ==
  /\ events < MaxEvents
  /\ events' = events + 1
  /\ queue' = Append(queue, "start")
  /\ UNCHANGED <<threadVars, dataVars, coreVars, fatal, selecting, crashes, left>>

-----------------------------------------------------------------------------
MainThread ==
  \/ StartCommand \/ StartRefused \/ StartConnecting \/ StartFails
  \/ JobCancelled \/ JobLaunch \/ JobCheck \/ JobAnnounce
  \/ \E made \in BOOLEAN : JobFails(made)
  \/ \E c \in Callers : FinishStop(c)
  \/ \E s \in fatal : OnFatal(s)
  \/ \E s \in selecting : SelectApply(s) \/ SelectRejected(s)
  \/ SelectEarly \/ RevokeStopBegins \/ Destroy

BinderThread == RevokeCheck \/ RevokeStopping \/ RevokeRead \/ RevokePost

Environment ==
  \/ Close \/ ReloadFull \/ ReloadEmpty \/ ReloadSelectorEarly \/ ReloadSelector
  \/ GuardFails \/ OnRevoke \/ StartService

Next == MainThread \/ BinderThread \/ ActorAccepts \/ Environment

(* Messages posted to a Looper are run, a thread inside a handler goes on, *)
(* and the actor receives; the environment owes nothing.                   *)
Fairness == WF_vars(MainThread) /\ WF_vars(BinderThread) /\ WF_vars(ActorAccepts)

Spec == Init /\ [][Next]_vars /\ Fairness

-----------------------------------------------------------------------------
(* Properties *)

DataTypes ==
  state \in State /\ generation \in Nat /\ proxy \in Nat /\ held \subseteq Fields
ThreadTypes ==
  /\ main \in {"idle", "start", "check", "announce"}
  /\ job \in Job /\ stop \in [Callers -> Stop] /\ revoke \in Revoke
CoreTypes ==
  /\ sessions \in Nat /\ cores \subseteq Nat
  /\ left \in [cores : SUBSET Nat, held : SUBSET Fields]
EnvTypes ==
  /\ queue \in Seq({"start", "destroy"})
  /\ fatal \subseteq Nat /\ selecting \subseteq Nat
  /\ crashes \in Nat /\ events \in Nat

(* The only states data.state takes are the four BaseService may return,   *)
(* and every other variable keeps to its type.                             *)
TypeOK == DataTypes /\ ThreadTypes /\ CoreTypes /\ EnvTypes

(* No core is ever orphaned or doubled: a box that was created and not yet *)
(* closed belongs to data.proxy, the only instance a stop would close.     *)
OneCore == cores \subseteq {proxy} \ {0}

(* Once Stopped is announced nothing of the session is left: no proxy, no  *)
(* core, no connecting job, no receiver, no wake lock.  (The notification  *)
(* is not in the list: a revocation destroys it before its stop coroutine  *)
(* runs, and a start command in between shows a new one.)                  *)
StoppedIsClean ==
  state = "Stopped" /\ main # "start" =>
    proxy = 0 /\ cores = {} /\ job = NoJob /\ held \cap {"receiver", "wakeLock"} = {}

(* Clients are told Connected only while the core of the current session   *)
(* is open, however a revocation interleaves with the announcement.        *)
ConnectedHasCore == state = "Connected" => proxy \in cores

(* Someone will stop the service: a stop coroutine is in flight, or the    *)
(* binder thread that set Stopping is about to post one.                   *)
StopInFlight ==
  \/ \E c \in Callers : stop[c].pc # "none"
  \/ revoke.pc \in {"read", "write"}

(* The service never hangs in Stopping. *)
StoppingIsOwned == state = "Stopping" => StopInFlight

(* "If the job was cancelled, it is canceller's responsibility to call     *)
(* stopRunner": a connecting job never ends short of Connected without a   *)
(* stop in flight to clean up after it.                                    *)
EndedStartIsStopped ==
  [][job # NoJob /\ job' = NoJob /\ state' # "Connected" /\ crashes' = crashes =>
       StopInFlight']_vars

(* The two states in between are always left: Stopping is followed by      *)
(* Stopped, and Connecting is resolved one way or the other.               *)
TransitionsSettle ==
  /\ state = "Stopping" ~> state = "Stopped"
  /\ state = "Connecting" ~> state \in {"Connected", "Stopped"}

(* A revocation that found the service not stopping ends the session, even *)
(* when it overlaps the start of another one.                              *)
RevokeHonoured == revoke.pc = "set" ~> proxy = 0

(* The cores the service opens and closes follow the CoreLease. *)
Lease == INSTANCE CoreLease WITH issued <- sessions, ticket <- proxy, open <- cores
LeaseRefined == Lease!LeaseSpec
=============================================================================
