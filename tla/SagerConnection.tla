-------------------------- MODULE SagerConnection ---------------------------
(***************************************************************************)
(* The activity's connection to the service (SagerConnection, used by      *)
(* MainActivity) and the Binder it talks to in the service process.  State *)
(* changes are one-way calls: they reach a binder thread of the client,    *)
(* which posts them to its main thread.  The framework binds, reports a    *)
(* dead service and, since the binding creates it, restarts it; the death  *)
(* recipient is told on a binder thread.                                   *)
(*                                                                         *)
(* The tile and the shortcuts run in the service's own process (the        *)
(* manifest's process ":bg"): their binder is the object itself, they die  *)
(* with the service and never see a dead one.  They are not modelled.      *)
(***************************************************************************)
EXTENDS Naturals, Sequences

CONSTANTS MaxChanges,     \* bound: state changes of the service
          MaxDeaths,      \* bound: deaths of the service process
          MaxCalls        \* bound: connects and disconnects of the user

ASSUME ConnectionAssumption ==
  MaxChanges \in Nat /\ MaxDeaths \in Nat /\ MaxCalls \in Nat

State == {"Connecting", "Connected", "Stopping", "Stopped"}

VARIABLES alive,      \* is the service process up?
          state,      \* Data.state
          posted,     \* broadcasts posted to the service's main thread
          overtaken,  \* history: the last change was broadcast before a posted one
          callbacks,  \* does the Binder's list hold this client's callback?
          unreg,      \* one-way unregisterCallback calls under way
          wire,       \* one-way stateChanged calls under way, oldest first
          bind,       \* the framework's view of the binding
          notice,     \* a binderDied on its way
          active, registered, callback, service, \* fields of SagerConnection
          main,       \* where the main thread is inside onServiceConnected
          restartingApp, \* the flag of triggerFullRestart
          mainq,      \* what binder threads posted to the main thread
          shown,      \* the state the client shows
          failed,     \* a check() that did not hold
          changes, deaths, calls

stateVars == <<state, posted, overtaken>>
serviceVars == <<alive, stateVars, callbacks, wire>>
clientVars == <<active, registered, callback, service, restartingApp>>
boundVars == <<changes, deaths, calls>>
vars == <<alive, state, posted, overtaken, callbacks, unreg, wire, bind, notice,
          active, registered, callback, service, main, restartingApp, mainq, shown,
          failed, changes, deaths, calls>>

TypeOK ==
  /\ {alive, overtaken, callbacks, notice, active, registered, callback,
       restartingApp, failed} \subseteq BOOLEAN
  /\ callback = active
  /\ state \in State /\ shown \in State \cup {"Idle"}
  /\ unreg \in 0..(MaxCalls + MaxDeaths) /\ wire \in Seq(State)
  /\ posted \in Seq({"Stopping"})
  /\ bind \in {"none", "binding", "bound", "lost"}
  /\ service \in {"null", "live", "dead"} /\ (service = "live" => alive)
  /\ main \in {"idle", "link", "register", "read"}
  /\ mainq \in Seq(State \cup {"died"})

\* The activity may come up beside a service that is running.
Init ==
  /\ alive \in BOOLEAN /\ state \in State /\ (~alive => state = "Stopped")
  /\ posted = <<>> /\ overtaken = FALSE
  /\ callbacks = FALSE /\ unreg = 0 /\ wire = <<>> /\ bind = "none" /\ notice = FALSE
  /\ active = FALSE /\ registered = FALSE /\ callback = FALSE /\ restartingApp = FALSE
  /\ service = "null" /\ main = "idle" /\ mainq = <<>> /\ shown = "Idle"
  /\ failed = FALSE
  /\ changes = 0 /\ deaths = 0 /\ calls = 0

-----------------------------------------------------------------------------
(* The service process *)

\* The callbacks that are registered at that time are called.
Broadcast(s) == wire' = IF callbacks THEN Append(wire, s) ELSE wire

\* Mutant: a later change may be broadcast before an earlier one.
changeStateUnordered(s) ==
  /\ alive /\ s # state /\ changes < MaxChanges
  /\ changes' = changes + 1 /\ state' = s /\ overtaken' = (posted # <<>>)
  /\ wire' = IF callbacks THEN <<s>> \o wire ELSE wire
  /\ UNCHANGED <<alive, posted, callbacks, unreg, bind, notice, clientVars, main, mainq,
                 shown, failed, deaths, calls>>

\* changeState on the main thread: stateChanged launches on Main.immediate, so
\* the broadcast is made at once, before whatever is posted.
changeState(s) ==
  /\ alive /\ s # state /\ changes < MaxChanges
  /\ changes' = changes + 1 /\ state' = s /\ overtaken' = (posted # <<>>)
  /\ Broadcast(s)
  /\ UNCHANGED <<alive, posted, callbacks, unreg, bind, notice, clientVars, main, mainq,
                 shown, failed, deaths, calls>>

\* stopRunner on a binder thread, called by onRevoke: the state changes at
\* once, the launch of its broadcast is posted to the main thread.
onRevoke ==
  /\ alive /\ state # "Stopping" /\ changes < MaxChanges
  /\ changes' = changes + 1 /\ state' = "Stopping" /\ overtaken' = FALSE
  /\ posted' = Append(posted, "Stopping")
  /\ UNCHANGED <<alive, callbacks, unreg, wire, bind, notice, clientVars, main, mainq,
                 shown, failed, deaths, calls>>

\* The service's main thread comes to a posted broadcast.
PostedBroadcast ==
  /\ posted # <<>> /\ posted' = Tail(posted) /\ Broadcast(Head(posted))
  /\ UNCHANGED <<alive, state, overtaken, callbacks, unreg, bind, notice, clientVars,
                 main, mainq, shown, failed, boundVars>>

\* The process dies with everything it holds; a binding and a death link are
\* told of it.
Die ==
  /\ alive /\ deaths < MaxDeaths /\ deaths' = deaths + 1
  /\ alive' = FALSE /\ state' = "Stopped" /\ posted' = <<>> /\ overtaken' = FALSE
  /\ callbacks' = FALSE /\ unreg' = 0
  /\ bind' = IF bind = "bound" THEN "lost" ELSE bind
  /\ notice' = (notice \/ (service = "live" /\ main # "link"))
  /\ service' = IF service = "live" THEN "dead" ELSE service
  /\ UNCHANGED <<wire, active, registered, callback, main, restartingApp, mainq, shown,
                 failed, changes, calls>>

\* A one-way unregisterCallback arrives, in any order with a registerCallback.
Unregister ==
  /\ unreg > 0 /\ unreg' = unreg - 1 /\ callbacks' = FALSE
  /\ UNCHANGED <<alive, stateVars, wire, bind, notice, clientVars, main, mainq,
                 shown, failed, boundVars>>

-----------------------------------------------------------------------------
(* The client's main thread: calls of the framework *)

Busy == main # "idle"

\* onServiceConnected is told of the binder: the framework has started the
\* service if it was not running.
onServiceConnected ==
  /\ ~Busy /\ bind = "binding" /\ bind' = "bound"
  /\ alive' = TRUE /\ service' = "live" /\ main' = "link"
  /\ UNCHANGED <<stateVars, callbacks, unreg, wire, notice, active, registered,
                 callback, restartingApp, mainq, shown, failed, boundVars>>

\* linkToDeath, and check(!callbackRegistered); to a dead process the link
\* throws, which skips the check and the registration.
Link ==
  /\ main = "link" /\ main' = IF alive THEN "register" ELSE "read"
  /\ failed' = (failed \/ (alive /\ registered))
  /\ UNCHANGED <<serviceVars, unreg, bind, notice, clientVars, mainq, shown, boundVars>>

\* The synchronous registerCallback; to a dead process it throws and nothing
\* is registered.
Register ==
  /\ main = "register" /\ main' = "read"
  /\ registered' = (registered \/ alive) /\ callbacks' = alive
  /\ UNCHANGED <<alive, stateVars, unreg, wire, bind, notice, active, callback, service,
                 restartingApp, mainq, shown, failed, boundVars>>

\* callback.onServiceConnected: the activity asks for the state, and shows
\* Idle when the call throws.
ReadState ==
  /\ main = "read" /\ main' = "idle"
  /\ shown' = CASE ~callback -> shown
                [] callback /\ alive -> state
                [] OTHER -> "Idle"
  /\ UNCHANGED <<serviceVars, unreg, bind, notice, clientVars, mainq, failed, boundVars>>

\* Mutant: onServiceDisconnected keeps callbackRegistered.
onServiceDisconnectedKept ==
  /\ ~Busy /\ bind = "lost" /\ bind' = "binding"
  /\ service' = "null" /\ shown' = IF callback THEN "Idle" ELSE shown
  /\ UNCHANGED <<serviceVars, unreg, notice, active, registered, callback, main,
                 restartingApp, mainq, failed, boundVars>>

\* onServiceDisconnected; the framework goes on to restart the service.
onServiceDisconnected ==
  /\ ~Busy /\ bind = "lost" /\ bind' = "binding"
  /\ registered' = FALSE /\ service' = "null"
  /\ shown' = IF callback THEN "Idle" ELSE shown
  /\ UNCHANGED <<serviceVars, unreg, notice, active, callback, main, restartingApp,
                 mainq, failed, boundVars>>

-----------------------------------------------------------------------------
(* The client's main thread: its own calls *)

\* What disconnect leaves of the binding: a registered callback of a live
\* service is unregistered, the service unbound, the fields cleared.
Detached ==
  unreg' = IF service = "live" /\ registered THEN unreg + 1 ELSE unreg

connect ==
  /\ ~Busy /\ ~active /\ calls < MaxCalls /\ calls' = calls + 1
  /\ active' = TRUE /\ callback' = TRUE /\ failed' = (failed \/ callback)
  /\ bind' = "binding"
  /\ UNCHANGED <<serviceVars, unreg, notice, registered, service, main, restartingApp,
                 mainq, shown, changes, deaths>>

disconnect ==
  /\ ~Busy /\ active /\ calls < MaxCalls /\ calls' = calls + 1
  /\ Detached /\ active' = FALSE /\ registered' = FALSE
  /\ callback' = FALSE /\ service' = "null" /\ bind' = "none"
  /\ UNCHANGED <<serviceVars, notice, main, restartingApp, mainq, shown, failed,
                 changes, deaths>>

\* updateConnectionId, when the activity comes to or leaves the foreground.
updateConnectionId ==
  /\ ~Busy /\ service = "live" /\ callbacks' = TRUE
  /\ UNCHANGED <<alive, stateVars, unreg, wire, bind, notice, clientVars, main,
                 mainq, shown, failed, boundVars>>

\* triggerFullRestart sets the flag for good; its own connection then makes
\* the service process exit (a Die), and the app is started anew.
triggerFullRestart ==
  /\ ~restartingApp /\ calls < MaxCalls /\ calls' = calls + 1
  /\ restartingApp' = TRUE
  /\ UNCHANGED <<serviceVars, unreg, bind, notice, active, registered, callback,
                 service, main, mainq, shown, failed, changes, deaths>>

\* Mutant: the activity connects again without disconnecting first.
HandleDiedConnectOnly ==
  /\ ~Busy /\ mainq # <<>> /\ Head(mainq) = "died" /\ mainq' = Tail(mainq)
  /\ UNCHANGED <<serviceVars, unreg, bind, notice, clientVars, main, shown,
                 failed, boundVars>>

\* onBinderDied of the activity: disconnect, then connect.
HandleDied ==
  /\ ~Busy /\ mainq # <<>> /\ Head(mainq) = "died" /\ mainq' = Tail(mainq)
  /\ Detached /\ active' = TRUE /\ registered' = FALSE /\ callback' = TRUE
  /\ service' = "null" /\ bind' = "binding"
  /\ UNCHANGED <<serviceVars, notice, main, restartingApp, shown, failed, boundVars>>

\* callback.stateChanged, posted by a binder thread.
HandleState ==
  /\ ~Busy /\ mainq # <<>> /\ Head(mainq) # "died" /\ mainq' = Tail(mainq)
  /\ shown' = Head(mainq)
  /\ UNCHANGED <<serviceVars, unreg, bind, notice, clientVars, main, failed, boundVars>>

-----------------------------------------------------------------------------
(* The client's binder threads *)

\* serviceCallback.stateChanged: posted for the callback of that moment.
Deliver ==
  /\ wire # <<>> /\ wire' = Tail(wire)
  /\ mainq' = IF callback THEN Append(mainq, Head(wire)) ELSE mainq
  /\ UNCHANGED <<alive, stateVars, callbacks, unreg, bind, notice, clientVars, main,
                 shown, failed, boundVars>>

\* binderDied, of whichever binding the link was made for; while the app
\* restarts, the activity is not told.
binderDied ==
  /\ notice /\ notice' = FALSE
  /\ service' = "null" /\ registered' = FALSE
  /\ mainq' = IF callback /\ ~restartingApp THEN Append(mainq, "died") ELSE mainq
  /\ UNCHANGED <<serviceVars, unreg, bind, active, callback, main, restartingApp, shown,
                 failed, boundVars>>

-----------------------------------------------------------------------------
MainThread ==
  \/ onServiceConnected \/ Link \/ Register \/ ReadState \/ onServiceDisconnected
  \/ HandleDied \/ HandleState

Next ==
  \/ \E s \in State : changeState(s)
  \/ onRevoke \/ PostedBroadcast \/ Die \/ Unregister \/ MainThread
  \/ connect \/ disconnect \/ updateConnectionId \/ triggerFullRestart
  \/ Deliver \/ binderDied

\* The main thread, the binder threads and the framework go on; the user and
\* the service owe nothing.
Fairness ==
  /\ WF_vars(MainThread) /\ WF_vars(Deliver) /\ WF_vars(binderDied)
  /\ WF_vars(Unregister)

Spec == Init /\ [][Next]_vars /\ Fairness

\* No call is under way between the service and the main thread.
Quiet == main = "idle" /\ posted = <<>> /\ wire = <<>> /\ mainq = <<>>

-----------------------------------------------------------------------------
\* Neither assertion of the class can fail, whatever deaths, restarts and
\* late notices come between a disconnect and the next onServiceConnected:
\* check(!callbackRegistered) and check(this.callback == null).
ChecksHold == ~failed

\* A client that stays connected gets its registration back: after the last
\* death it ends up registered with a live service, unless the app is about to
\* restart, when binderDied clears the fields and reconnects nobody.
SelfHeals == <>[](active /\ ~restartingApp => registered /\ service = "live")

\* When nothing is under way, the client shows the service's state: registering
\* before reading loses no change, and a broadcast that is posted comes last.
\* Two orders of the code are excepted.  A change on the main thread overtakes
\* the posted broadcast of an earlier one, and the client is left with Stopping.
\* And unregisterCallback is a one-way call, which may arrive after the
\* registerCallback of the next connection and undo it: the property is about
\* the first connection.
ShownWhenQuiet ==
  calls = 1 /\ deaths = 0 /\ service = "live" /\ Quiet /\ ~overtaken => shown = state
=============================================================================
