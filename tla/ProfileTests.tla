---------------------------- MODULE ProfileTests ----------------------------
(***************************************************************************)
(* The tests a user can run on the profiles of a group, and what they      *)
(* share: the flag DataStore.runningTest and the main thread.  The speed   *)
(* test is SpeedTestQueue, the URL test ConnectionTest (in which Tests are *)
(* the URL tests).  A fragment whose screen is destroyed takes its dialog  *)
(* with it.                                                                *)
(***************************************************************************)
EXTENDS SpeedTestQueue

CONSTANTS UrlProfiles, \* profiles of the group that is URL tested
          Workers,     \* connectionTestConcurrent coroutines of a URL test
          MaxUrlTests  \* bound: accepted presses of the URL test button

ASSUME UrlTestAssumption == MaxUrlTests \in Nat /\ Workers # {}

VARIABLES test, worker, instance, answered, saver,  \* see ConnectionTest
          screenOf   \* the fragment that has started each URL test, 0 for none

U == INSTANCE ConnectionTest WITH Profiles <- UrlProfiles, MaxTests <- MaxUrlTests

urlVars == <<test, worker, instance, answered, saver>>
queueVars == <<shown, speedTestJob, job, native, stopped, pool, main>>
allVars == <<vars, urlVars, screenOf>>

TestsInit == Init /\ U!Init /\ screenOf = [t \in U!Tests |-> 0]

SpeedTest == Step /\ UNCHANGED <<urlVars, screenOf>>

\* The button of the URL test, on the fragment that is shown.
StartUrlTest(t) ==
  /\ main = "idle" /\ U!urlTest(t)
  /\ screenOf' = [screenOf EXCEPT ![t] = shown]
  /\ UNCHANGED queueVars

\* What the main thread does for a URL test: the buttons of its dialog, which
\* goes with the screen, and the call of test.cancel() at its end.
UrlDialog(t) ==
  /\ main = "idle"
  /\ \/ screenOf[t] = shown /\ (U!CancelPressed(t) \/ U!Minimize(t))
     \/ U!TestOver(t)
  /\ UNCHANGED <<queueVars, screenOf>>

\* Its coroutines, and the cores they test through.
UrlWork(t) ==
  /\ \/ U!Run(t)
     \/ \E w \in Workers : U!Work(t, w)
     \/ \E p \in UrlProfiles : U!Core(t, p) \/ U!PluginFails(t, p)
  /\ UNCHANGED <<queueVars, screenOf>>

Next == SpeedTest \/ \E t \in U!Tests : StartUrlTest(t) \/ UrlDialog(t) \/ UrlWork(t)

Spec == TestsInit /\ [][Next]_allVars /\ Fairness /\ U!Fairness

-----------------------------------------------------------------------------

\* "Profiles are tested one at a time through their own proxy"
\* (strings.xml:604): at most one test of either kind is at work, however
\* speed tests are cancelled and fail.  There are two exceptions: a cancelled
\* URL test frees the flag before its coroutines have ended, and so does the
\* fragment that is destroyed during a speed test.
TestsExclusive ==
  shown = 1 /\ main # "destroy" /\ (\A t \in U!Tests : ~ test[t].pressed) =>
    Cardinality({j \in Tests : native[j] = "running"})
      + Cardinality({t \in U!Tests : U!AtWork(t)}) <= 1

\* A test that nobody has cancelled keeps a result for every profile, also for
\* those that failed: the speed test reports it, the URL test stores it.
ResultsKept == EveryProfileReported /\ U!EveryResultStored

\* A cancel takes effect: a speed test ends without waiting for the timeouts
\* of its native session, and the cores of a URL test are closed.
CancelsEnd == CancelEnds /\ U!CoresClosed
=============================================================================
