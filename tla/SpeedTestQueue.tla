--------------------------- MODULE SpeedTestQueue ---------------------------
(***************************************************************************)
(* The Kotlin side of the speed test: ConfigurationFragment.speedTest,     *)
(* which runs a queue of profiles as a coroutine of the process, and       *)
(* SpeedTestQueueRunner and AndroidSpeedTestSession, which open one native *)
(* session after the other.  The native session is seen through the        *)
(* contract of TestSession.  Presses, the cancel button and onDestroy run  *)
(* on the main thread, a test on a worker thread, the native run on its    *)
(* own.                                                                    *)
(***************************************************************************)
EXTENDS Naturals, FiniteSets

CONSTANTS MaxTests,   \* bound: presses of the test button that are accepted
          Profiles,   \* profiles in the tested group
          WithPlugin, \* those that need a plugin process
          MaxScreens  \* instances of ConfigurationFragment: 1 is never destroyed

ASSUME QueueAssumption ==
  /\ MaxTests \in Nat \ {0} /\ MaxScreens \in Nat \ {0}
  /\ Profiles \in Nat /\ WithPlugin \subseteq 1..Profiles

Tests == 1..MaxTests
Screens == 1..MaxScreens

VARIABLES runningTest,   \* DataStore.runningTest: "busy" or "idle"
          shown,         \* the fragment on the screen
          speedTestJob,  \* that field of each fragment, 0 for null
          job,           \* the coroutine of each test
          native,        \* its current native session, as TestSession's phase
          stopped,       \* tests whose native session has been cancelled
          pool,          \* the plugin process and its guard, for each profile
          main           \* what the main thread has still to do in its handler

vars == <<runningTest, shown, speedTestJob, job, native, stopped, pool, main>>

Pcs == {"absent", "launched", "listing", "next", "preparing", "settling",
        "starting", "polling", "closing", "unwinding", "ended"}

\* A plugin process runs from "posted" on: its guard, a coroutine of the main
\* thread, has not begun, has begun, kills the process after the close of the
\* pool; "left" is a process whose guard will never begin.  One stands for all
\* the plugins of a profile.
PoolStates == {"none", "posted", "guarded", "closing", "left"}

TypeOK ==
  /\ runningTest \in {"idle", "busy"}
  /\ shown \in Screens
  /\ speedTestJob \in [Screens -> 0..MaxTests]
  /\ job \in [Tests -> [pc : Pcs, cancelled : BOOLEAN, at : 1..(Profiles + 1),
                        screen : Screens, reported : SUBSET (1..Profiles)]]
  /\ native \in [Tests -> {"none", "new", "running", "done"}]
  /\ stopped \subseteq Tests
  /\ pool \in [Tests -> [1..Profiles -> PoolStates]]
  /\ main \in {"idle", "cancelJob", "destroy"}

Init ==
  /\ runningTest = "idle" /\ shown = 1 /\ main = "idle"
  /\ speedTestJob = [s \in Screens |-> 0]
  /\ job = [j \in Tests |-> [pc |-> "absent", cancelled |-> FALSE, at |-> 1,
                             screen |-> 1, reported |-> {}]]
  /\ native = [j \in Tests |-> "none"]
  /\ pool = [j \in Tests |-> [p \in 1..Profiles |-> "none"]]
  /\ stopped = {}

At(j, pc) == job[j].pc = pc
Goto(j, pc) == job' = [job EXCEPT ![j].pc = pc]
UI == <<runningTest, shown, speedTestJob, main>>
IsOpen(j, p) == pool[j][p] \in {"posted", "guarded"}

-----------------------------------------------------------------------------
(* The main thread. *)

\* Mutant: the flag is set when the dialog is shown, after the test of it.
speedTestUnguarded(j) ==
  /\ main = "idle" /\ At(j, "absent")
  /\ runningTest' = "busy"
  /\ speedTestJob' = [speedTestJob EXCEPT ![shown] = j]
  /\ job' = [job EXCEPT ![j].pc = "launched", ![j].screen = shown]
  /\ UNCHANGED <<shown, native, stopped, pool, main>>

\* speedTest: refused while a test runs, otherwise a coroutine is launched.
speedTest(j) ==
  /\ main = "idle" /\ runningTest = "idle"
  /\ At(j, "absent") /\ \A i \in Tests : i < j => ~ At(i, "absent")
  /\ runningTest' = "busy"
  /\ speedTestJob' = [speedTestJob EXCEPT ![shown] = j]
  /\ job' = [job EXCEPT ![j].pc = "launched", ![j].screen = shown]
  /\ UNCHANGED <<shown, native, stopped, pool, main>>

\* runner.cancel(): reaches the native session if nativeSession is set, and
\* is lost otherwise.
RunnerCancel(j) ==
  stopped' = IF native[j] = "none" THEN stopped ELSE stopped \cup {j}

\* The cancel button of the dialog: the runner first, then the job.
CancelPressed ==
  /\ main = "idle" /\ speedTestJob[shown] # 0
  /\ ~ job[speedTestJob[shown]].cancelled
  /\ RunnerCancel(speedTestJob[shown])
  /\ main' = "cancelJob"
  /\ UNCHANGED <<runningTest, shown, speedTestJob, job, native, pool>>

CancelJob ==
  /\ main = "cancelJob"
  /\ job' = [j \in Tests |-> [job[j] EXCEPT !.cancelled = @ \/ speedTestJob[shown] = j]]
  /\ main' = "idle"
  /\ UNCHANGED <<runningTest, shown, speedTestJob, native, stopped, pool>>

\* onDestroy of the fragment; the next one is another object.
onDestroy ==
  /\ main = "idle" /\ shown < MaxScreens
  /\ IF speedTestJob[shown] = 0
     THEN shown' = shown + 1 /\ UNCHANGED <<main, stopped>>
     ELSE RunnerCancel(speedTestJob[shown]) /\ main' = "destroy" /\ UNCHANGED shown
  /\ UNCHANGED <<runningTest, speedTestJob, job, native, pool>>

onDestroyEnds ==
  /\ main = "destroy"
  /\ job' = [j \in Tests |-> [job[j] EXCEPT !.cancelled = @ \/ speedTestJob[shown] = j]]
  /\ speedTestJob' = [speedTestJob EXCEPT ![shown] = 0]
  /\ runningTest' = "idle"
  /\ shown' = shown + 1 /\ main' = "idle"
  /\ UNCHANGED <<native, stopped, pool>>

\* The main thread comes to the guard that launchExternal has posted to it.
GuardBegins(j, p) ==
  /\ main = "idle" /\ pool[j][p] = "posted"
  /\ pool' = [pool EXCEPT ![j][p] = "guarded"]
  /\ UNCHANGED <<UI, job, native, stopped>>

\* The guard of a closed pool has killed its process.
Killed(j, p) ==
  /\ pool[j][p] = "closing"
  /\ pool' = [pool EXCEPT ![j][p] = "none"]
  /\ UNCHANGED <<UI, job, native, stopped>>

\* onFatal of a guard: as lost as a cancel when nativeSession is null.
PluginFails(j, p) ==
  /\ main = "idle" /\ pool[j][p] = "guarded"
  /\ RunnerCancel(j)
  /\ UNCHANGED <<UI, job, native, pool>>

-----------------------------------------------------------------------------
(* The coroutine of a test. *)

\* A coroutine that is cancelled before it is dispatched never runs its body,
\* the finally included.
Dispatch(j) ==
  /\ At(j, "launched")
  /\ Goto(j, IF job[j].cancelled THEN "ended" ELSE "listing")
  /\ UNCHANGED <<UI, native, stopped, pool>>

\* An empty group ends the test; withContext(Main) is a cancellation point.
List(j) ==
  /\ At(j, "listing")
  /\ Goto(j, IF Profiles = 0 \/ job[j].cancelled THEN "unwinding" ELSE "next")
  /\ UNCHANGED <<UI, native, stopped, pool>>

\* The head of the loop (ensureActive), and its end.
ForEach(j) ==
  /\ At(j, "next")
  /\ Goto(j, IF job[j].at > Profiles \/ job[j].cancelled THEN "unwinding" ELSE "preparing")
  /\ UNCHANGED <<UI, native, stopped, pool>>

\* The failure snapshot takes the place of the result of the profile.
ReportAndClose(j) ==
  job' = [job EXCEPT ![j].pc = "closing", ![j].reported = @ \cup {job[j].at}]

\* Mutant: an exception of one profile leaves the queue.
FailQueue(j) ==
  /\ job[j].pc \in {"preparing", "settling"}
  /\ Goto(j, "unwinding")
  /\ UNCHANGED <<UI, native, stopped, pool>>

\* launchExternal spawns the plugins of the profile.
Launch(j) ==
  pool' = IF job[j].at \in WithPlugin THEN [pool EXCEPT ![j][job[j].at] = "posted"] ELSE pool

\* init or launchExternal throws, the latter perhaps after a first plugin.
PrepareFails(j) ==
  /\ At(j, "preparing") /\ ReportAndClose(j)
  /\ Launch(j) \/ UNCHANGED pool
  /\ UNCHANGED <<UI, native, stopped>>

\* newSpeedTestSession throws.
SettleFails(j) ==
  /\ At(j, "settling") /\ ReportAndClose(j)
  /\ UNCHANGED <<UI, native, stopped, pool>>

\* init and launchExternal: with plugins the session waits for 500 ms.
Prepare(j) ==
  /\ At(j, "preparing") /\ Goto(j, "settling") /\ Launch(j)
  /\ UNCHANGED <<UI, native, stopped>>

\* delay(500), a cancellation point only if there are plugins, then
\* newSpeedTestSession.
Settle(j) ==
  /\ At(j, "settling")
  /\ IF pool[j][job[j].at] # "none" /\ job[j].cancelled
     THEN Goto(j, "closing") /\ UNCHANGED native
     ELSE Goto(j, "starting") /\ native' = [native EXCEPT ![j] = "new"]
  /\ stopped' = stopped \ {j}
  /\ UNCHANGED <<UI, pool>>

\* session.start(); when it throws, the native session has finished itself.
Start(j) ==
  /\ At(j, "starting")
  /\ \/ Goto(j, "polling") /\ native' = [native EXCEPT ![j] = "running"]
     \/ ReportAndClose(j) /\ native' = [native EXCEPT ![j] = "done"]
  /\ UNCHANGED <<UI, stopped, pool>>

\* Mutant: the loop only looks at the result.
PollResult(j) ==
  /\ At(j, "polling") /\ native[j] = "done" /\ ReportAndClose(j)
  /\ UNCHANGED <<UI, native, stopped, pool>>

\* The loop around session.result: a cancelled job cancels the native session
\* and leaves, a result that is done is reported.
Poll(j) ==
  /\ At(j, "polling")
  /\ \/ job[j].cancelled /\ Goto(j, "closing") /\ stopped' = stopped \cup {j}
     \/ ~ job[j].cancelled /\ native[j] = "done" /\ ReportAndClose(j) /\ UNCHANGED stopped
  /\ UNCHANGED <<UI, native, pool>>

\* The native run ends, by itself or because it was cancelled.
NativeEnds(j) ==
  /\ native[j] = "running"
  /\ native' = [native EXCEPT ![j] = "done"]
  /\ UNCHANGED <<UI, job, stopped, pool>>

\* BoxInstance.close cancels the pool: a guard that has begun goes on to kill
\* its process in a coroutine of its own; one that has not is dropped, and its
\* process stays.
ClosePool(j) ==
  pool' = [pool EXCEPT ![j][job[j].at] =
             CASE @ = "guarded" -> "closing" [] @ = "posted" -> "left" [] OTHER -> @]

\* Mutant: close only closes the process pool.
closeProcesses(j) ==
  /\ At(j, "closing")
  /\ ClosePool(j)
  /\ job' = [job EXCEPT ![j].pc = "next", ![j].at = @ + 1]
  /\ UNCHANGED <<UI, native, stopped>>

\* AndroidSpeedTestSession.close: the native Close cancels a run and waits for
\* it; then the process pool.
close(j) ==
  /\ At(j, "closing")
  /\ IF native[j] = "running"
     THEN stopped' = stopped \cup {j} /\ UNCHANGED <<native, pool, job>>
     ELSE /\ native' = [native EXCEPT ![j] = "none"]
          /\ stopped' = stopped \ {j}
          /\ ClosePool(j)
          /\ job' = [job EXCEPT ![j].pc = "next", ![j].at = @ + 1]
  /\ UNCHANGED UI

\* The finally of the coroutine, in the fragment that launched it.
Unwind(j) ==
  /\ At(j, "unwinding") /\ Goto(j, "ended")
  /\ speedTestJob' = [speedTestJob EXCEPT ![job[j].screen] = 0]
  /\ runningTest' = "idle"
  /\ UNCHANGED <<shown, main, native, stopped, pool>>

-----------------------------------------------------------------------------

Worker(j) ==
  \/ Dispatch(j) \/ List(j) \/ ForEach(j) \/ PrepareFails(j) \/ SettleFails(j)
  \/ Prepare(j) \/ Settle(j) \/ Start(j) \/ Poll(j) \/ close(j) \/ Unwind(j)

Step ==
  \/ CancelPressed \/ CancelJob \/ onDestroy \/ onDestroyEnds
  \/ \E j \in Tests : speedTest(j) \/ Worker(j) \/ NativeEnds(j)
  \/ \E j \in Tests, p \in 1..Profiles : GuardBegins(j, p) \/ Killed(j, p) \/ PluginFails(j, p)

\* The worker and the main thread are scheduled inside a handler, and a native
\* run that was cancelled ends; one that was not has timeouts, which nothing
\* here relies on.
Fairness ==
  /\ WF_vars(CancelJob \/ onDestroyEnds)
  /\ \A j \in Tests : WF_vars(Worker(j)) /\ WF_vars(j \in stopped /\ NativeEnds(j))

-----------------------------------------------------------------------------

\* A test leaves nothing open: between two profiles, and whatever ended it, it
\* has no native session, and every process pool that it opened is closed,
\* also when its launch failed halfway or cancel found nothing to cancel.  The
\* processes of a closed pool are a matter of their own: the guards are still
\* killing them, and the one that the close overtook never will.
NothingLeft ==
  \A j \in Tests : job[j].pc \in {"absent", "launched", "listing", "next", "unwinding", "ended"}
                     => native[j] = "none" /\ \A p \in 1..Profiles : ~ IsOpen(j, p)

\* Failures do not stop the queue (nodesRunSeriallyAndFailureDoesNotStopQueue):
\* a test that nobody cancelled reports every profile.
EveryProfileReported ==
  \A j \in Tests : At(j, "ended") /\ ~ job[j].cancelled => job[j].reported = 1..Profiles

\* The end of a cancelled test does not depend on the timeouts of the native
\* session, also when runner.cancel() found no session to cancel because the
\* queue was between two of them or waited for plugins.
CancelEnds ==
  \A j \in Tests : job[j].cancelled /\ job[j].pc # "launched" ~> At(j, "ended")
=============================================================================
