--------------------------- MODULE ConnectionTest ---------------------------
(***************************************************************************)
(* The URL test of a group (ConfigurationFragment.urlTest): a pool of      *)
(* coroutines takes profiles from a queue and tests each through a core of *)
(* its own (TestInstance), a dialog collects the results, and the end of   *)
(* the test, or the user, calls cancel(), which stores them and frees      *)
(* DataStore.runningTest.                                                  *)
(***************************************************************************)
EXTENDS Naturals

CONSTANTS Profiles,  \* the profiles of the group
          Workers,   \* connectionTestConcurrent coroutines
          MaxTests   \* bound: accepted presses of the test button

Tests == 1..MaxTests

VARIABLES runningTest,  \* DataStore.runningTest: "busy" or "idle"
          test,         \* the dialog and the main job of each test
          worker,       \* its coroutines: where they are, and their profile
          instance,     \* the TestInstance of each profile
          answered,     \* <<t, p>> whose continuation has been resumed
          saver         \* the coroutines launched by cancel(), by test

vars == <<runningTest, test, worker, instance, answered, saver>>

Idle(pc) == [pc |-> pc, profiles |-> {}]

TypeOK ==
  /\ runningTest \in {"idle", "busy"}
  /\ test \in [Tests -> [pc : {"absent", "listing", "testing", "joined", "over"},
                         dialog : {"open", "hidden", "cancelled"}, pressed : BOOLEAN,
                         cancelled : BOOLEAN, queue : SUBSET Profiles,
                         results : SUBSET Profiles, stored : SUBSET Profiles]]
  /\ worker \in [Tests -> [Workers ->
                   [pc : {"absent", "polling", "testing", "updating", "adding", "done"},
                    profiles : SUBSET Profiles]]]
  /\ instance \in [Tests -> [Profiles -> {"none", "open", "closing", "closed"}]]
  /\ answered \subseteq Tests \X Profiles
  /\ saver \in [Tests -> [posted : 0..2, freeing : 0..2]]

Init ==
  /\ runningTest = "idle"
  /\ test = [t \in Tests |->
       [pc |-> "absent", dialog |-> "open", pressed |-> FALSE, cancelled |-> FALSE,
        queue |-> Profiles, results |-> {}, stored |-> {}]]
  /\ worker = [t \in Tests |-> [w \in Workers |-> Idle("absent")]]
  /\ instance = [t \in Tests |-> [p \in Profiles |-> "none"]]
  /\ answered = {}
  /\ saver = [t \in Tests |-> [posted |-> 0, freeing |-> 0]]

\* The button: refused while a test runs.
urlTest(t) ==
  /\ runningTest = "idle" /\ test[t].pc = "absent"
  /\ \A s \in Tests : s < t => test[s].pc # "absent"
  /\ runningTest' = "busy"
  /\ test' = [test EXCEPT ![t].pc = "listing"]
  /\ UNCHANGED <<worker, instance, answered, saver>>

\* The main job reads the group and launches the coroutines, its children.
Launch(t) ==
  /\ test[t].pc = "listing"
  /\ test' = [test EXCEPT ![t].pc = IF test[t].cancelled THEN "over" ELSE "testing"]
  /\ worker' = [worker EXCEPT ![t] =
       IF test[t].cancelled THEN @ ELSE [w \in Workers |-> Idle("polling")]]
  /\ UNCHANGED <<runningTest, instance, answered, saver>>

\* A coroutine takes a profile and opens a core for it, or has no more to do.
Poll(t, w) ==
  /\ worker[t][w].pc = "polling"
  /\ IF test[t].cancelled \/ test[t].queue = {}
     THEN /\ worker' = [worker EXCEPT ![t][w].pc = "done"]
          /\ UNCHANGED <<test, instance>>
     ELSE \E p \in test[t].queue :
            /\ test' = [test EXCEPT ![t].queue = @ \ {p}]
            /\ worker' = [worker EXCEPT ![t][w] = [pc |-> "testing", profiles |-> {p}]]
            /\ instance' = [instance EXCEPT ![t][p] = "open"]
  /\ UNCHANGED <<runningTest, answered, saver>>

\* The test of a profile ends, with or without an answer; its continuation is
\* resumed unless a plugin's failure has resumed it, and then the core closed.
InstanceEnds(t, p) ==
  /\ instance[t][p] = "open"
  /\ instance' = [instance EXCEPT ![t][p] = "closing"]
  /\ answered' = answered \cup {<<t, p>>}
  /\ UNCHANGED <<runningTest, test, worker, saver>>

PluginFails(t, p) ==
  /\ instance[t][p] = "open" /\ <<t, p>> \notin answered
  /\ answered' = answered \cup {<<t, p>>}
  /\ UNCHANGED <<runningTest, test, worker, instance, saver>>

\* Mutant: only the coroutine that is still waited for closes its core.
InstanceClosesWanted(t, p) ==
  /\ instance[t][p] = "closing" /\ ~ test[t].cancelled
  /\ instance' = [instance EXCEPT ![t][p] = "closed"]
  /\ UNCHANGED <<runningTest, test, worker, answered, saver>>

InstanceCloses(t, p) ==
  /\ instance[t][p] = "closing"
  /\ instance' = [instance EXCEPT ![t][p] = "closed"]
  /\ UNCHANGED <<runningTest, test, worker, answered, saver>>

\* doTest returns: not before the answer, cancelled or not, because
\* suspendCoroutine is no cancellation point.
Answered(t, w) ==
  /\ worker[t][w].pc = "testing"
  /\ \A p \in worker[t][w].profiles : <<t, p>> \in answered
  /\ worker' = [worker EXCEPT ![t][w].pc = "updating"]
  /\ UNCHANGED <<runningTest, test, instance, answered, saver>>

\* update: the result counts unless the dialog is cancelled; the test of the
\* dialog and the addition are two steps.
Update(t, w) ==
  /\ worker[t][w].pc = "updating"
  /\ worker' = [worker EXCEPT ![t][w].pc =
                  IF test[t].dialog = "cancelled" THEN "polling" ELSE "adding"]
  /\ UNCHANGED <<runningTest, test, instance, answered, saver>>

Add(t, w) ==
  /\ worker[t][w].pc = "adding"
  /\ test' = [test EXCEPT ![t].results = @ \cup worker[t][w].profiles]
  /\ worker' = [worker EXCEPT ![t][w] = Idle("polling")]
  /\ UNCHANGED <<runningTest, instance, answered, saver>>

\* Mutant: the main job does not join its children.
JoinEarly(t) ==
  /\ test[t].pc = "testing"
  /\ test' = [test EXCEPT ![t].pc = IF test[t].cancelled THEN "over" ELSE "joined"]
  /\ UNCHANGED <<runningTest, worker, instance, answered, saver>>

\* joinAll returns; a cancelled main job ends there, otherwise it posts
\* test.cancel() to the main thread.
Join(t) ==
  /\ test[t].pc = "testing"
  /\ test[t].cancelled \/ \A w \in Workers : worker[t][w].pc = "done"
  /\ test' = [test EXCEPT ![t].pc = IF test[t].cancelled THEN "over" ELSE "joined"]
  /\ UNCHANGED <<runningTest, worker, instance, answered, saver>>

\* test.cancel on the main thread: the dialog goes, a coroutine is launched.
CancelDialog(t, next) ==
  /\ test' = [test EXCEPT ![t] = next]
  /\ saver' = [saver EXCEPT ![t].posted = @ + 1]
  /\ UNCHANGED <<runningTest, worker, instance, answered>>

TestOver(t) ==
  /\ test[t].pc = "joined"
  /\ CancelDialog(t, [test[t] EXCEPT !.pc = "over", !.dialog = "cancelled"])

CancelPressed(t) ==
  /\ test[t].pc # "absent" /\ test[t].dialog = "open"
  /\ CancelDialog(t, [test[t] EXCEPT !.pressed = TRUE, !.dialog = "cancelled"])

Minimize(t) ==
  /\ test[t].pc # "absent" /\ test[t].dialog = "open"
  /\ test' = [test EXCEPT ![t].dialog = "hidden"]
  /\ UNCHANGED <<runningTest, worker, instance, answered, saver>>

\* The launched coroutine: cancels the jobs and stores the results, then
\* frees the flag.
Save(t) ==
  /\ saver[t].posted > 0
  /\ test' = [test EXCEPT ![t].cancelled = TRUE, ![t].stored = @ \cup test[t].results]
  /\ saver' = [saver EXCEPT ![t].posted = @ - 1, ![t].freeing = @ + 1]
  /\ UNCHANGED <<runningTest, worker, instance, answered>>

Free(t) ==
  /\ saver[t].freeing > 0
  /\ runningTest' = "idle"
  /\ saver' = [saver EXCEPT ![t].freeing = @ - 1]
  /\ UNCHANGED <<test, worker, instance, answered>>

Run(t) == Launch(t) \/ Join(t) \/ Save(t) \/ Free(t)
Work(t, w) == Poll(t, w) \/ Answered(t, w) \/ Update(t, w) \/ Add(t, w)
Core(t, p) == InstanceEnds(t, p) \/ InstanceCloses(t, p)

\* Coroutines are scheduled and urlTest has a timeout; the user owes nothing.
Fairness ==
  \A t \in Tests : /\ WF_vars(Run(t)) /\ WF_vars(TestOver(t))
                   /\ \A w \in Workers : WF_vars(Work(t, w))
                   /\ \A p \in Profiles : WF_vars(Core(t, p))

-----------------------------------------------------------------------------

AtWork(t) == \E w \in Workers : worker[t][w].pc \notin {"absent", "done"}
Freed(t) == test[t].pc = "over" /\ saver[t] = [posted |-> 0, freeing |-> 0]

\* A test that the user did not cancel has stored the result of every profile
\* when it is over.
EveryResultStored ==
  \A t \in Tests : Freed(t) /\ ~ test[t].pressed => test[t].stored = Profiles

\* Every core that a test has opened is closed, also the ones of a cancelled
\* test and those whose plugin has failed.
CoresClosed == \A t \in Tests, p \in Profiles : instance[t][p] = "open" ~> instance[t][p] = "closed"
=============================================================================
