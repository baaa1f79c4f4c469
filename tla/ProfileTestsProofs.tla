------------------------- MODULE ProfileTestsProofs -------------------------
(***************************************************************************)
(* The speed test and the URL test of a group, for any number of tests,    *)
(* profiles, coroutines and screens.                                       *)
(***************************************************************************)
EXTENDS ProfileTests, FiniteSetTheorems, TLAPS

JobType == [pc : Pcs, cancelled : BOOLEAN, at : 1..(Profiles + 1),
            screen : Screens, reported : SUBSET (1..Profiles)]

PoolType == [1..Profiles -> PoolStates]

\* No process pool of a test is open, and none but that of its current profile.
NoPool(j) == \A p \in 1..Profiles : ~ IsOpen(j, p)
OnlyCurrent(j) == \A p \in 1..Profiles : IsOpen(j, p) => p = job[j].at

\* Where a test has a native session and a pool, and which profile it is at.
JobInv ==
  \A j \in Tests :
    /\ job[j].pc \in {"absent", "launched", "listing", "next", "preparing", "unwinding", "ended"}
         => native[j] = "none" /\ NoPool(j)
    /\ OnlyCurrent(j)
    /\ At(j, "settling") => native[j] = "none"
    /\ native[j] = "running" => job[j].pc \in {"polling", "closing"}
    /\ job[j].pc \in {"preparing", "settling", "starting", "polling", "closing"}
         => job[j].at <= Profiles

\* What a test that nobody cancelled has reported so far: the profiles before
\* the one it is at, and that one when it is being closed.
ReportInv ==
  \A j \in Tests : ~ job[j].cancelled =>
    /\ job[j].pc \in {"absent", "launched", "listing"} => job[j].at = 1 /\ job[j].reported = {}
    /\ job[j].pc \in {"next", "preparing", "settling", "starting", "polling"}
         => job[j].reported = 1..(job[j].at - 1)
    /\ At(j, "closing") => job[j].reported = 1..job[j].at
    /\ job[j].pc \in {"unwinding", "ended"} => job[j].reported = 1..Profiles

\* onDestroy is never under way on the last screen.
DestroyInv == main = "destroy" => shown < MaxScreens

QueueInv == TypeOK /\ JobInv /\ ReportInv /\ DestroyInv

\* The four ways in which a step writes the record of a test.
LEMMA GotoJob ==
  ASSUME NEW j \in Tests, NEW pc \in Pcs, job \in [Tests -> JobType], Goto(j, pc)
  PROVE  /\ job' \in [Tests -> JobType]
         /\ \A i \in Tests : i # j => job'[i] = job[i]
         /\ job'[j].pc = pc /\ job'[j].cancelled = job[j].cancelled
         /\ job'[j].at = job[j].at /\ job'[j].reported = job[j].reported
         /\ job'[j].screen = job[j].screen
  BY DEF Goto, JobType

LEMMA ReportJob ==
  ASSUME NEW j \in Tests, job \in [Tests -> JobType], job[j].at <= Profiles, ReportAndClose(j)
  PROVE  /\ job' \in [Tests -> JobType]
         /\ \A i \in Tests : i # j => job'[i] = job[i]
         /\ job'[j].pc = "closing" /\ job'[j].cancelled = job[j].cancelled
         /\ job'[j].at = job[j].at /\ job'[j].reported = job[j].reported \cup {job[j].at}
         /\ job'[j].screen = job[j].screen
<1>1. job[j].at \in 1..Profiles /\ "closing" \in Pcs
  BY QueueAssumption DEF JobType, Pcs
<1>2. job[j].reported \cup {job[j].at} \in SUBSET (1..Profiles)
  BY <1>1 DEF JobType
<1> QED
  BY <1>1, <1>2 DEF ReportAndClose, JobType

LEMMA NextJob ==
  ASSUME NEW j \in Tests, job \in [Tests -> JobType], job[j].at <= Profiles,
         job' = [job EXCEPT ![j].pc = "next", ![j].at = @ + 1]
  PROVE  /\ job' \in [Tests -> JobType]
         /\ \A i \in Tests : i # j => job'[i] = job[i]
         /\ job'[j].pc = "next" /\ job'[j].cancelled = job[j].cancelled
         /\ job'[j].at = job[j].at + 1 /\ job'[j].reported = job[j].reported
         /\ job'[j].screen = job[j].screen
<1>1. job[j].at + 1 \in 1..(Profiles + 1) /\ "next" \in Pcs
  BY QueueAssumption DEF JobType, Pcs
<1> QED
  BY <1>1 DEF JobType

LEMMA CancelJobs ==
  ASSUME job \in [Tests -> JobType],
         job' = [j \in Tests |-> [job[j] EXCEPT !.cancelled = @ \/ speedTestJob[shown] = j]]
  PROVE  /\ job' \in [Tests -> JobType]
         /\ \A j \in Tests : /\ job'[j].pc = job[j].pc /\ job'[j].at = job[j].at
                             /\ job'[j].reported = job[j].reported
                             /\ job'[j].screen = job[j].screen
                             /\ job[j].cancelled => job'[j].cancelled
<1>1. ASSUME NEW j \in Tests
      PROVE  [job[j] EXCEPT !.cancelled = @ \/ speedTestJob[shown] = j] \in JobType
  <2>1. (job[j].cancelled \/ speedTestJob[shown] = j) \in BOOLEAN
    BY Zenon
  <2> QED
    BY <2>1 DEF JobType
<1> QED
  BY <1>1 DEF JobType

\* A step that writes the record of one test only, and its native session.
LEMMA OneJob ==
  ASSUME QueueInv, NEW j \in Tests,
         job' \in [Tests -> JobType], \A i \in Tests : i # j => job'[i] = job[i],
         native' \in [Tests -> {"none", "new", "running", "done"}],
         \A i \in Tests : i # j => native'[i] = native[i],
         pool' \in [Tests -> PoolType], \A i \in Tests : i # j => pool'[i] = pool[i],
         runningTest' \in {"idle", "busy"},
         speedTestJob' \in [Screens -> 0..MaxTests],
         stopped' \subseteq Tests, main' = main, shown' = shown,
         \* the conjuncts of JobInv for j
         job'[j].pc \in {"absent", "launched", "listing", "next", "preparing", "unwinding", "ended"}
           => native'[j] = "none" /\ NoPool(j)',
         OnlyCurrent(j)',
         job'[j].pc = "settling" => native'[j] = "none",
         native'[j] = "running" => job'[j].pc \in {"polling", "closing"},
         job'[j].pc \in {"preparing", "settling", "starting", "polling", "closing"}
           => job'[j].at <= Profiles,
         \* and those of ReportInv
         ~ job'[j].cancelled =>
           /\ job'[j].pc \in {"absent", "launched", "listing"}
                => job'[j].at = 1 /\ job'[j].reported = {}
           /\ job'[j].pc \in {"next", "preparing", "settling", "starting", "polling"}
                => job'[j].reported = 1..(job'[j].at - 1)
           /\ job'[j].pc = "closing" => job'[j].reported = 1..job'[j].at
           /\ job'[j].pc \in {"unwinding", "ended"} => job'[j].reported = 1..Profiles
  PROVE  QueueInv'
<1>1. TypeOK' /\ DestroyInv'
  BY DEF QueueInv, DestroyInv, TypeOK, JobType, PoolType
<1>2. ASSUME NEW i \in Tests, i # j
      PROVE  /\ job'[i] = job[i] /\ native'[i] = native[i]
             /\ NoPool(i)' <=> NoPool(i)
             /\ OnlyCurrent(i)' <=> OnlyCurrent(i)
  BY <1>2 DEF NoPool, OnlyCurrent, IsOpen
<1>3. JobInv'
  BY <1>2 DEF QueueInv, JobInv, At
<1>4. ReportInv'
  BY <1>2 DEF QueueInv, ReportInv, At
<1> QED
  BY <1>1, <1>3, <1>4 DEF QueueInv

\* The pool of a test whose pools do not change.
LEMMA SamePool ==
  ASSUME NEW j \in Tests, pool'[j] = pool[j], job'[j].at = job[j].at
  PROVE  (NoPool(j)' <=> NoPool(j)) /\ (OnlyCurrent(j)' <=> OnlyCurrent(j))
  BY DEF NoPool, OnlyCurrent, IsOpen

\* What launchExternal and close do to the pools of a test.
LEMMA LaunchPool ==
  ASSUME pool \in [Tests -> PoolType], NEW j \in Tests, job[j].at \in 1..Profiles,
         job'[j].at = job[j].at, NoPool(j), Launch(j) \/ UNCHANGED pool
  PROVE  /\ pool' \in [Tests -> PoolType]
         /\ \A i \in Tests : i # j => pool'[i] = pool[i]
         /\ OnlyCurrent(j)'
<1>1. /\ pool' \in [Tests -> PoolType]
      /\ \A i \in Tests : i # j => pool'[i] = pool[i]
      /\ \A p \in 1..Profiles : p # job[j].at => pool'[j][p] = pool[j][p]
  <2>1. CASE pool' = pool
    BY <2>1
  <2>2. CASE pool' = [pool EXCEPT ![j][job[j].at] = "posted"]
    <3>1. "posted" \in PoolStates
      BY DEF PoolStates
    <3> QED
      BY <2>2, <3>1 DEF PoolType
  <2> QED
    BY <2>1, <2>2 DEF Launch
<1> QED
  BY <1>1 DEF NoPool, OnlyCurrent, IsOpen

LEMMA CloseAPool ==
  ASSUME pool \in [Tests -> PoolType], NEW j \in Tests, job[j].at \in 1..Profiles,
         OnlyCurrent(j), ClosePool(j)
  PROVE  /\ pool' \in [Tests -> PoolType]
         /\ \A i \in Tests : i # j => pool'[i] = pool[i]
         /\ NoPool(j)' /\ OnlyCurrent(j)'
  BY DEF ClosePool, NoPool, OnlyCurrent, IsOpen, PoolType, PoolStates

\* Every step of the speed test.
LEMMA QueueStep == ASSUME QueueInv, Step PROVE QueueInv'
<1>0. /\ job \in [Tests -> JobType] /\ native \in [Tests -> {"none", "new", "running", "done"}]
      /\ pool \in [Tests -> PoolType] /\ stopped \subseteq Tests /\ shown \in Screens
      /\ speedTestJob \in [Screens -> 0..MaxTests]
      /\ runningTest \in {"idle", "busy"} /\ main \in {"idle", "cancelJob", "destroy"}
  BY DEF QueueInv, TypeOK, JobType, PoolType
<1>a. Screens \subseteq Nat /\ Profiles \in Nat /\ (shown < MaxScreens => shown + 1 \in Screens)
      /\ Tests \subseteq 0..MaxTests /\ 0 \in 0..MaxTests /\ MaxTests \in Nat /\ MaxScreens \in Nat
  BY <1>0, QueueAssumption DEF Screens, Tests
<1>j. ASSUME NEW j \in Tests
      PROVE  /\ job[j].pc \in Pcs /\ job[j].at \in 1..(Profiles + 1) /\ job[j].screen \in Screens
             /\ job[j].pc \in {"absent", "launched", "listing", "next", "preparing", "unwinding", "ended"}
                  => native[j] = "none" /\ NoPool(j)
             /\ OnlyCurrent(j)
             /\ job[j].pc = "settling" => native[j] = "none"
             /\ native[j] = "running" => job[j].pc \in {"polling", "closing"}
             /\ job[j].pc \in {"preparing", "settling", "starting", "polling", "closing"}
                  => job[j].at <= Profiles
             /\ ~ job[j].cancelled =>
                  /\ job[j].pc \in {"absent", "launched", "listing"}
                       => job[j].at = 1 /\ job[j].reported = {}
                  /\ job[j].pc \in {"next", "preparing", "settling", "starting", "polling"}
                       => job[j].reported = 1..(job[j].at - 1)
                  /\ job[j].pc = "closing" => job[j].reported = 1..job[j].at
                  /\ job[j].pc \in {"unwinding", "ended"} => job[j].reported = 1..Profiles
  BY <1>0 DEF QueueInv, JobInv, ReportInv, At, JobType
<1>p. {"absent", "launched", "listing", "next", "preparing", "settling",
       "starting", "polling", "closing", "unwinding", "ended"} = Pcs
  BY DEF Pcs
<1>e. 1..0 = {} /\ 1..(1 - 1) = {}
  OBVIOUS
<1>1. CASE CancelPressed
  <2>1. speedTestJob[shown] \in Tests
    BY <1>0, <1>1, <1>a DEF CancelPressed, Tests
  <2>2. stopped' \subseteq Tests
    BY <1>0, <1>1, <2>1 DEF CancelPressed, RunnerCancel
  <2> QED
    BY <1>1, <2>2 DEF CancelPressed, QueueInv, TypeOK, JobInv, NoPool, OnlyCurrent, IsOpen, ReportInv, DestroyInv, At
<1>2. CASE CancelJob \/ onDestroyEnds
  <2>1. UNCHANGED <<native, stopped, pool>> /\ main' = "idle" /\ runningTest' \in {"idle", "busy"}
    BY <1>0, <1>2 DEF CancelJob, onDestroyEnds
  <2>2. speedTestJob' \in [Screens -> 0..MaxTests]
    BY <1>0, <1>2, <1>a DEF CancelJob, onDestroyEnds
  <2>3. /\ job' \in [Tests -> JobType]
        /\ \A j \in Tests : /\ job'[j].pc = job[j].pc /\ job'[j].at = job[j].at
                            /\ job'[j].reported = job[j].reported
                            /\ job[j].cancelled => job'[j].cancelled
    BY <1>0, <1>2, CancelJobs DEF CancelJob, onDestroyEnds
  <2>4. shown' \in Screens
    BY <1>0, <1>2, <1>a DEF CancelJob, onDestroyEnds, QueueInv, DestroyInv
  <2>5. TypeOK'
    BY <1>0, <2>1, <2>2, <2>3, <2>4 DEF TypeOK, JobType, PoolType
  <2>6. JobInv'
    BY <2>1, <2>3 DEF QueueInv, JobInv, NoPool, OnlyCurrent, IsOpen, At
  <2>7. ReportInv'
    BY <2>3 DEF QueueInv, ReportInv, At
  <2>8. DestroyInv'
    BY <2>1 DEF DestroyInv
  <2> QED
    BY <2>5, <2>6, <2>7, <2>8 DEF QueueInv
<1>3. CASE onDestroy
  <2>1. stopped' \subseteq Tests
    <3>1. CASE speedTestJob[shown] = 0
      BY <1>0, <1>3, <3>1 DEF onDestroy
    <3>2. CASE speedTestJob[shown] # 0
      <4>1. speedTestJob[shown] \in Tests
        BY <1>0, <1>a, <3>2 DEF Tests
      <4> QED
        BY <1>0, <1>3, <3>2, <4>1 DEF onDestroy, RunnerCancel
    <3> QED
      BY <3>1, <3>2
  <2>2. shown' \in Screens /\ main' \in {"idle", "destroy"} /\ (main' = "destroy" => shown' < MaxScreens)
    BY <1>0, <1>3, <1>a DEF onDestroy
  <2> QED
    BY <1>3, <2>1, <2>2 DEF onDestroy, QueueInv, TypeOK, JobInv, NoPool, OnlyCurrent, IsOpen, ReportInv, DestroyInv, At
<1>4. ASSUME NEW j \in Tests, speedTest(j) PROVE QueueInv'
  <2>1. /\ job' \in [Tests -> JobType] /\ (\A i \in Tests : i # j => job'[i] = job[i])
        /\ job'[j].pc = "launched" /\ job'[j].cancelled = job[j].cancelled
        /\ job'[j].at = job[j].at /\ job'[j].reported = job[j].reported
    BY <1>0, <1>4, <1>p DEF speedTest, JobType
  <2>2. speedTestJob' \in [Screens -> 0..MaxTests]
    BY <1>0, <1>4, <1>a DEF speedTest
  <2>3. /\ runningTest' = "busy" /\ UNCHANGED <<shown, native, stopped, pool, main>>
        /\ job[j].pc = "absent"
    BY <1>4 DEF speedTest, At
  <2>4. /\ native[j] = "none" /\ NoPool(j) /\ OnlyCurrent(j)
        /\ ~ job[j].cancelled => job[j].at = 1 /\ job[j].reported = {}
    BY <1>j, <2>3
  <2> QED
    BY <1>0, <2>1, <2>2, <2>3, <2>4, SamePool, OneJob
<1>5. ASSUME NEW j \in Tests, NEW p \in 1..Profiles, PluginFails(j, p) PROVE QueueInv'
  <2>1. stopped' \subseteq Tests
    BY <1>0, <1>5 DEF PluginFails, RunnerCancel
  <2> QED
    BY <1>5, <2>1 DEF PluginFails, UI, QueueInv, TypeOK, JobInv, NoPool, OnlyCurrent, IsOpen, ReportInv, DestroyInv, At
<1>6. ASSUME NEW j \in Tests, Dispatch(j) PROVE QueueInv'
  BY <1>0, <1>j, <1>p, <1>6, GotoJob, SamePool, OneJob DEF Dispatch, At, UI
<1>7. ASSUME NEW j \in Tests, List(j) PROVE QueueInv'
  <2>1. PICK pc \in {"unwinding", "next"} : /\ Goto(j, pc)
                                            /\ pc = "unwinding" => Profiles = 0 \/ job[j].cancelled
    BY <1>7 DEF List
  <2>2. ~job[j].cancelled => job[j].at = 1 /\ job[j].reported = {}
    BY <1>j, <1>7 DEF List, At
  <2>3. /\ ~job[j].cancelled /\ pc = "unwinding" => job[j].reported = 1..Profiles
        /\ ~job[j].cancelled /\ pc = "next" => job[j].reported = 1..(job[j].at - 1)
    BY <1>e, <2>1, <2>2
  <2> QED
    BY <1>0, <1>j, <1>p, <1>7, <2>1, <2>3, GotoJob, SamePool, OneJob DEF List, At, UI
<1>8. ASSUME NEW j \in Tests, ForEach(j) PROVE QueueInv'
  <2>1. PICK pc \in {"unwinding", "preparing"} :
          /\ Goto(j, pc)
          /\ pc = "unwinding" => job[j].at > Profiles \/ job[j].cancelled
          /\ pc = "preparing" => job[j].at <= Profiles
    BY <1>8, <1>a, <1>j DEF ForEach
  <2>2. ~job[j].cancelled /\ pc = "unwinding" => job[j].reported = 1..Profiles
    <3>1. job[j].at > Profiles => job[j].at - 1 = Profiles
      BY <1>a, <1>j
    <3> QED
      BY <1>8, <1>j, <2>1, <3>1 DEF ForEach, At
  <2> QED
    BY <1>0, <1>j, <1>p, <1>8, <2>1, <2>2, GotoJob, SamePool, OneJob DEF ForEach, At, UI
<1>r. ASSUME NEW j \in Tests, ReportAndClose(j),
             job[j].pc \in {"preparing", "settling", "starting", "polling"},
             native' \in [Tests -> {"none", "new", "running", "done"}],
             \A i \in Tests : i # j => native'[i] = native[i],
             pool' \in [Tests -> PoolType], \A i \in Tests : i # j => pool'[i] = pool[i],
             OnlyCurrent(j)',
             UNCHANGED <<UI, stopped>>
      PROVE  QueueInv'
  <2>1. job[j].at \in 1..Profiles
    BY <1>a, <1>j, <1>r
  <2>2. ~job[j].cancelled => job[j].reported \cup {job[j].at} = 1..job[j].at
    <3>1. (1..(job[j].at - 1)) \cup {job[j].at} = 1..job[j].at
      BY <1>a, <2>1
    <3> QED
      BY <1>j, <1>r, <3>1
  <2>3. /\ job' \in [Tests -> JobType] /\ (\A i \in Tests : i # j => job'[i] = job[i])
        /\ job'[j].pc = "closing" /\ job'[j].cancelled = job[j].cancelled
        /\ job'[j].at = job[j].at /\ job'[j].reported = job[j].reported \cup {job[j].at}
    BY <1>0, <1>j, <1>r, ReportJob
  <2>4. job'[j].at <= Profiles /\ (~ job'[j].cancelled => job'[j].reported = 1..job'[j].at)
    BY <1>a, <2>1, <2>2, <2>3
  <2>5. UNCHANGED <<runningTest, shown, speedTestJob, main, stopped>>
    BY <1>0, <1>r DEF UI
  <2> QED
    BY <1>0, <1>r, <2>3, <2>4, <2>5, OneJob
<1>9. ASSUME NEW j \in Tests, PrepareFails(j) PROVE QueueInv'
  <2>1. job[j].at \in 1..Profiles /\ NoPool(j) /\ job'[j].at = job[j].at
    BY <1>0, <1>a, <1>j, <1>9, ReportJob DEF PrepareFails, At
  <2>2. /\ pool' \in [Tests -> PoolType] /\ (\A i \in Tests : i # j => pool'[i] = pool[i])
        /\ OnlyCurrent(j)'
    BY <1>0, <1>9, <2>1, LaunchPool DEF PrepareFails
  <2> QED
    BY <1>0, <1>r, <1>9, <2>2 DEF PrepareFails, At
<1>f. ASSUME NEW j \in Tests, SettleFails(j) PROVE QueueInv'
  <2>1. job'[j].at = job[j].at
    BY <1>0, <1>j, <1>f, ReportJob DEF SettleFails, At
  <2>2. OnlyCurrent(j)'
    BY <1>j, <1>f, <2>1, SamePool DEF SettleFails
  <2> QED
    BY <1>0, <1>r, <1>f, <2>2 DEF SettleFails, At
<1>10. ASSUME NEW j \in Tests, Prepare(j) PROVE QueueInv'
  <2>0. job[j].at \in 1..Profiles /\ NoPool(j) /\ job'[j].at = job[j].at
    BY <1>0, <1>a, <1>j, <1>p, <1>10, GotoJob DEF Prepare, At
  <2>1. /\ pool' \in [Tests -> PoolType] /\ (\A i \in Tests : i # j => pool'[i] = pool[i])
        /\ OnlyCurrent(j)'
    BY <1>0, <1>10, <2>0, LaunchPool DEF Prepare
  <2> QED
    BY <1>0, <1>j, <1>p, <1>10, <2>1, GotoJob, SamePool, OneJob DEF Prepare, At, UI
<1>11. ASSUME NEW j \in Tests, Settle(j) PROVE QueueInv'
  <2>1. PICK pc \in {"closing", "starting"} :
          /\ Goto(j, pc)
          /\ pc = "closing" => job[j].cancelled /\ native' = native
          /\ pc = "starting" => native' = [native EXCEPT ![j] = "new"]
    BY <1>11 DEF Settle
  <2>2. /\ native' \in [Tests -> {"none", "new", "running", "done"}]
        /\ \A i \in Tests : i # j => native'[i] = native[i]
        /\ native'[j] # "running"
    BY <1>0, <1>j, <1>11, <2>1 DEF Settle, At
  <2> QED
    BY <1>0, <1>j, <1>p, <1>11, <2>1, <2>2, GotoJob, SamePool, OneJob DEF Settle, At, UI
<1>12. ASSUME NEW j \in Tests, Start(j) PROVE QueueInv'
  <2>1. /\ native' \in [Tests -> {"none", "new", "running", "done"}]
        /\ \A i \in Tests : i # j => native'[i] = native[i]
        /\ UNCHANGED <<UI, stopped, pool>> /\ job[j].pc = "starting"
    BY <1>0, <1>12 DEF Start, At
  <2>2. CASE ReportAndClose(j)
    <3>1. job'[j].at = job[j].at
      BY <1>0, <1>j, <2>1, <2>2, ReportJob
    <3>2. OnlyCurrent(j)'
      BY <1>j, <2>1, <3>1, SamePool
    <3> QED
      BY <1>0, <1>r, <2>1, <2>2, <3>2
  <2>3. CASE Goto(j, "polling")
    BY <1>0, <1>j, <1>p, <2>1, <2>3, GotoJob, SamePool, OneJob DEF UI
  <2> QED
    BY <1>12, <2>2, <2>3 DEF Start
<1>13. ASSUME NEW j \in Tests, Poll(j) PROVE QueueInv'
  <2>1. CASE job[j].cancelled /\ Goto(j, "closing") /\ stopped' = stopped \cup {j}
    BY <1>0, <1>j, <1>p, <1>13, <2>1, GotoJob, SamePool, OneJob DEF Poll, At, UI
  <2>2. CASE ReportAndClose(j) /\ UNCHANGED stopped
    <3>1. job'[j].at = job[j].at
      BY <1>0, <1>j, <1>13, <2>2, ReportJob DEF Poll, At
    <3>2. OnlyCurrent(j)'
      BY <1>j, <1>13, <3>1, SamePool DEF Poll
    <3> QED
      BY <1>0, <1>r, <1>13, <2>2, <3>2 DEF Poll, At
  <2> QED
    BY <1>13, <2>1, <2>2 DEF Poll
<1>14. ASSUME NEW j \in Tests, close(j) PROVE QueueInv'
  <2>1. CASE native[j] = "running"
    BY <1>0, <1>14, <2>1 DEF close, UI, QueueInv, TypeOK, JobInv, NoPool, OnlyCurrent, IsOpen, ReportInv, DestroyInv, At
  <2>2. CASE native[j] # "running"
    <3>1. /\ native' \in [Tests -> {"none", "new", "running", "done"}]
          /\ (\A i \in Tests : i # j => native'[i] = native[i]) /\ native'[j] = "none"
      BY <1>0, <1>14, <2>2 DEF close
    <3>2. job[j].pc = "closing" /\ job[j].at \in 1..Profiles
      BY <1>a, <1>j, <1>14 DEF close, At
    <3>3. job[j].at = job[j].at + 1 - 1
      BY <1>a, <3>2
    <3>4. /\ pool' \in [Tests -> PoolType] /\ (\A i \in Tests : i # j => pool'[i] = pool[i])
          /\ NoPool(j)'
      BY <1>0, <1>j, <1>14, <2>2, <3>2, CloseAPool DEF close
    <3>5. OnlyCurrent(j)'
      BY <3>4 DEF NoPool, OnlyCurrent
    <3> QED
      <4>1. /\ job' \in [Tests -> JobType] /\ (\A i \in Tests : i # j => job'[i] = job[i])
            /\ job'[j].pc = "next" /\ job'[j].cancelled = job[j].cancelled
            /\ job'[j].at = job[j].at + 1 /\ job'[j].reported = job[j].reported
        BY <1>0, <1>14, <2>2, <3>2, NextJob DEF close
      <4>2. ~ job'[j].cancelled => job'[j].reported = 1..(job'[j].at - 1)
        BY <1>j, <3>2, <3>3, <4>1
      <4>3. stopped' \subseteq Tests /\ UNCHANGED <<runningTest, shown, speedTestJob, main>>
        BY <1>0, <1>14, <2>2 DEF close, UI
      <4> QED
        BY <1>0, <3>1, <3>4, <3>5, <4>1, <4>2, <4>3, OneJob
  <2> QED
    BY <2>1, <2>2
<1>15. ASSUME NEW j \in Tests, Unwind(j) PROVE QueueInv'
  <2>1. speedTestJob' \in [Screens -> 0..MaxTests]
    BY <1>0, <1>15, <1>a DEF Unwind
  <2> QED
    BY <1>0, <1>j, <1>p, <1>15, <2>1, GotoJob, SamePool, OneJob DEF Unwind, At
<1>16. ASSUME NEW j \in Tests, NativeEnds(j) PROVE QueueInv'
  <2>1. /\ native' \in [Tests -> {"none", "new", "running", "done"}]
        /\ (\A i \in Tests : i # j => native'[i] = native[i]) /\ native'[j] = "done"
    BY <1>0, <1>16 DEF NativeEnds
  <2>2. job[j].pc \in {"polling", "closing"}
    BY <1>j, <1>16 DEF NativeEnds
  <2> QED
    BY <1>0, <1>j, <1>16, <2>1, <2>2, SamePool, OneJob DEF NativeEnds, UI
<1>17. ASSUME NEW j \in Tests, NEW p \in 1..Profiles, GuardBegins(j, p) \/ Killed(j, p) PROVE QueueInv'
  <2>1. /\ pool' \in [Tests -> PoolType] /\ \A i \in Tests : i # j => pool'[i] = pool[i]
        /\ \A q \in 1..Profiles : IsOpen(j, q)' => IsOpen(j, q)
    <3>1. PICK x \in {"guarded", "none"} :
            /\ pool' = [pool EXCEPT ![j][p] = x]
            /\ x = "guarded" => IsOpen(j, p)
      BY <1>17 DEF GuardBegins, Killed, IsOpen
    <3>2. x \in PoolStates
      BY DEF PoolStates
    <3>3. /\ pool' \in [Tests -> PoolType] /\ \A i \in Tests : i # j => pool'[i] = pool[i]
          /\ pool'[j][p] = x /\ \A q \in 1..Profiles : q # p => pool'[j][q] = pool[j][q]
      BY <1>0, <3>1, <3>2 DEF PoolType
    <3> QED
      BY <3>1, <3>3 DEF IsOpen
  <2>2. UNCHANGED <<UI, job, native, stopped>>
    BY <1>17 DEF GuardBegins, Killed
  <2>3. (NoPool(j) => NoPool(j)') /\ OnlyCurrent(j)'
    BY <1>j, <2>1, <2>2 DEF NoPool, OnlyCurrent
  <2> QED
    BY <1>0, <1>j, <2>1, <2>2, <2>3, OneJob DEF UI
<1> QED
  BY <1>1, <1>2, <1>3, <1>4, <1>5, <1>6, <1>7, <1>8, <1>9, <1>f, <1>10, <1>11, <1>12, <1>13,
     <1>14, <1>15, <1>16, <1>17 DEF Step, Worker

-----------------------------------------------------------------------------
(* The URL test.  The invariants speak of one test at a time: of its record *)
(* r, its coroutines w and the coroutines s that cancel() has launched.     *)

UrlTestType == [pc : {"absent", "listing", "testing", "joined", "over"},
                dialog : {"open", "hidden", "cancelled"}, pressed : BOOLEAN,
                cancelled : BOOLEAN, queue : SUBSET UrlProfiles,
                results : SUBSET UrlProfiles, stored : SUBSET UrlProfiles]
WorkerType == [pc : {"absent", "polling", "testing", "updating", "adding", "done"},
               profiles : SUBSET UrlProfiles]
SaverType == [posted : Nat, freeing : Nat]

UrlTypes ==
  /\ test \in [U!Tests -> UrlTestType]
  /\ worker \in [U!Tests -> [Workers -> WorkerType]]
  /\ saver \in [U!Tests -> SaverType]

\* Nothing has ended the test yet.
Untouched(r, s) ==
  ~ r.cancelled /\ r.dialog # "cancelled" /\ s.posted = 0 /\ s.freeing = 0

\* No profile is lost between the queue, the coroutines and the results.
Covered(r, w) ==
  \A p \in UrlProfiles : p \in r.queue \/ p \in r.results \/ \E x \in Workers : p \in w[x].profiles

\* A test whose dialog the user has not cancelled.
Kept(r, w, s) ==
  /\ r.pc # "over" => Untouched(r, s)
  /\ r.pc \in {"absent", "listing"} =>
       r.queue = UrlProfiles /\ \A x \in Workers : w[x].pc = "absent"
  /\ r.pc = "testing" => Covered(r, w) /\ \A x \in Workers : w[x].pc # "absent"
  /\ r.pc \in {"joined", "over"} =>
       r.results = UrlProfiles /\ \A x \in Workers : w[x].pc = "done"
  /\ r.pc = "over" =>
       /\ s.posted + s.freeing <= 1
       /\ s.posted = 0 => r.stored = UrlProfiles
  /\ \A x \in Workers :
       /\ w[x].pc \in {"absent", "polling", "done"} => w[x].profiles = {}
       /\ w[x].pc = "done" => r.queue = {}

UrlInv ==
  UrlTypes /\ \A t \in U!Tests : ~ test[t].pressed => Kept(test[t], worker[t], saver[t])

\* A step on behalf of one test.
LEMMA OneUrlTest ==
  ASSUME UrlInv, NEW t \in U!Tests, UrlTypes',
         \A u \in U!Tests : u # t => test'[u] = test[u] /\ worker'[u] = worker[u] /\ saver'[u] = saver[u],
         ~ test'[t].pressed => Kept(test'[t], worker'[t], saver'[t])
  PROVE  UrlInv'
<1>1. ASSUME NEW u \in U!Tests', ~ test'[u].pressed PROVE Kept(test'[u], worker'[u], saver'[u])
  <2>1. u \in U!Tests
    BY DEF U!Tests
  <2>2. CASE u = t
    BY <1>1, <2>2
  <2>3. CASE u # t
    <3>1. test'[u] = test[u] /\ worker'[u] = worker[u] /\ saver'[u] = saver[u]
      BY <2>1, <2>3
    <3>2. Kept(test[u], worker[u], saver[u])
      BY <1>1, <2>1, <3>1 DEF UrlInv
    <3> QED
      BY <3>1, <3>2
  <2> QED
    BY <2>2, <2>3
<1> QED
  BY <1>1 DEF UrlInv

\* The button, the dialog and the main job.
LEMMA UrlMainStep ==
  ASSUME UrlInv, NEW t \in U!Tests,
         \/ U!urlTest(t) \/ U!Launch(t) \/ U!Join(t) \/ U!TestOver(t) \/ U!CancelPressed(t)
         \/ U!Minimize(t) \/ U!Save(t) \/ U!Free(t)
  PROVE  UrlInv'
<1> DEFINE r == test[t]
           w == worker[t]
           s == saver[t]
<1>0. r \in UrlTestType /\ w \in [Workers -> WorkerType] /\ s \in SaverType
  BY DEF UrlInv, UrlTypes
<1>k. ~ r.pressed => Kept(r, w, s)
  BY DEF UrlInv
<1>f. /\ test \in [U!Tests -> UrlTestType] /\ worker \in [U!Tests -> [Workers -> WorkerType]]
      /\ saver \in [U!Tests -> SaverType]
  BY DEF UrlInv, UrlTypes
<1>b. TRUE \in BOOLEAN
  OBVIOUS
<1>w. ASSUME NEW r2 \in UrlTestType, NEW w2 \in [Workers -> WorkerType], NEW s2 \in SaverType,
             test' = [test EXCEPT ![t] = r2], worker' = [worker EXCEPT ![t] = w2],
             saver' = [saver EXCEPT ![t] = s2], ~ r2.pressed => Kept(r2, w2, s2)
      PROVE  UrlInv'
  <2>1. UrlTypes'
    BY <1>f, <1>w DEF UrlTypes, U!Tests
  <2>2. /\ test'[t] = r2 /\ worker'[t] = w2 /\ saver'[t] = s2
        /\ \A u \in U!Tests : u # t => test'[u] = test[u] /\ worker'[u] = worker[u] /\ saver'[u] = saver[u]
    BY <1>f, <1>w
  <2> QED
    BY <1>w, <2>1, <2>2, OneUrlTest
<1>u. test = [test EXCEPT ![t] = r] /\ worker = [worker EXCEPT ![t] = w] /\ saver = [saver EXCEPT ![t] = s]
  BY <1>f
<1>1. CASE U!urlTest(t)
  <2> DEFINE r2 == [r EXCEPT !.pc = "listing"]
  <2>1. test' = [test EXCEPT ![t] = r2] /\ worker' = worker /\ saver' = saver /\ r.pc = "absent"
    BY <1>1, <1>f DEF U!urlTest
  <2>2. r2 \in UrlTestType /\ r2.pressed = r.pressed
    BY <1>0 DEF UrlTestType
  <2>3. Kept(r, w, s) => Kept(r2, w, s)
    BY <1>0, <2>1 DEF Kept, Untouched, Covered, UrlTestType
  <2> QED
    BY <1>0, <1>k, <1>w, <1>u, <2>1, <2>2, <2>3
<1>2. CASE U!Launch(t)
  <2> DEFINE r2 == [r EXCEPT !.pc = IF r.cancelled THEN "over" ELSE "testing"]
             w2 == IF r.cancelled THEN w ELSE [x \in Workers |-> [pc |-> "polling", profiles |-> {}]]
  <2>1. /\ test' = [test EXCEPT ![t] = r2] /\ worker' = [worker EXCEPT ![t] = w2] /\ saver' = saver
        /\ r.pc = "listing"
    BY <1>2, <1>f DEF U!Launch, U!Idle
  <2>2. r2 \in UrlTestType /\ r2.pressed = r.pressed
    BY <1>0 DEF UrlTestType
  <2>3. [x \in Workers |-> [pc |-> "polling", profiles |-> {}]] \in [Workers -> WorkerType]
    BY DEF WorkerType
  <2>4. w2 \in [Workers -> WorkerType]
    BY <1>0, <2>3
  <2>5. ASSUME Kept(r, w, s) PROVE Kept(r2, w2, s)
    <3>1. ~ r.cancelled /\ Untouched(r, s) /\ r.queue = UrlProfiles
      BY <2>1, <2>5 DEF Kept, Untouched
    <3>2. /\ r2.pc = "testing" /\ r2.queue = UrlProfiles /\ Untouched(r2, s)
          /\ \A x \in Workers : w2[x].pc = "polling" /\ w2[x].profiles = {}
      BY <1>0, <3>1 DEF UrlTestType, Untouched
    <3> HIDE DEF r2, w2
    <3> QED
      BY <3>2 DEF Kept, Covered
  <2> HIDE DEF r2, w2
  <2> QED
    BY <1>0, <1>k, <1>w, <1>u, <2>1, <2>2, <2>4, <2>5
<1>3. CASE U!Join(t)
  <2> DEFINE r2 == [r EXCEPT !.pc = IF r.cancelled THEN "over" ELSE "joined"]
  <2>1. /\ test' = [test EXCEPT ![t] = r2] /\ worker' = worker /\ saver' = saver
        /\ r.pc = "testing" /\ (r.cancelled \/ \A x \in Workers : w[x].pc = "done")
    BY <1>3, <1>f DEF U!Join
  <2>2. r2 \in UrlTestType /\ r2.pressed = r.pressed
    BY <1>0 DEF UrlTestType
  <2>3. ASSUME Kept(r, w, s) PROVE Kept(r2, w, s)
    <3>1. ~ r.cancelled /\ Untouched(r, s) /\ \A x \in Workers : w[x].pc = "done"
      BY <2>1, <2>3 DEF Kept, Untouched
    <3>2. /\ r.queue = {} /\ Covered(r, w) /\ \A x \in Workers : w[x].profiles = {}
      BY <2>1, <2>3, <3>1, UrlTestAssumption DEF Kept
    <3>3. r.results = UrlProfiles
      BY <1>0, <3>2 DEF Covered, UrlTestType
    <3>4. r2.pc = "joined" /\ r2.results = UrlProfiles /\ r2.queue = {} /\ Untouched(r2, s)
      BY <1>0, <3>1, <3>2, <3>3 DEF UrlTestType, Untouched
    <3> HIDE DEF r2
    <3> QED
      BY <3>1, <3>2, <3>4 DEF Kept
  <2> HIDE DEF r2
  <2> QED
    BY <1>0, <1>k, <1>w, <1>u, <2>1, <2>2, <2>3
<1>4. CASE U!TestOver(t)
  <2> DEFINE r2 == [r EXCEPT !.pc = "over", !.dialog = "cancelled"]
             s2 == [s EXCEPT !.posted = @ + 1]
  <2>1. /\ test' = [test EXCEPT ![t] = r2] /\ worker' = worker /\ saver' = [saver EXCEPT ![t] = s2]
        /\ r.pc = "joined"
    BY <1>4, <1>f DEF U!TestOver, U!CancelDialog
  <2>2. /\ r2 \in UrlTestType /\ r2.pressed = r.pressed
        /\ s2 \in SaverType
    <3>1. r2 \in UrlTestType /\ r2.pressed = r.pressed
      BY <1>0 DEF UrlTestType
    <3>2. s2 \in SaverType
      BY <1>0 DEF SaverType
    <3> QED
      BY <3>1, <3>2
  <2>3. ASSUME Kept(r, w, s) PROVE Kept(r2, w, s2)
    <3>1. /\ Untouched(r, s) /\ r.results = UrlProfiles
          /\ \A x \in Workers : w[x].pc = "done" /\ w[x].profiles = {} /\ r.queue = {}
      BY <2>1, <2>3 DEF Kept
    <3>2. /\ r2.pc = "over" /\ r2.results = UrlProfiles /\ r2.queue = r.queue
          /\ s2.posted = 1 /\ s2.freeing = 0
      BY <1>0, <3>1 DEF UrlTestType, Untouched, SaverType
    <3> HIDE DEF r2, s2
    <3> QED
      BY <3>1, <3>2 DEF Kept
  <2> HIDE DEF r2, s2
  <2> QED
    BY <1>0, <1>k, <1>w, <1>u, <2>1, <2>2, <2>3
<1>5. CASE U!CancelPressed(t)
  <2> DEFINE r2 == [r EXCEPT !.pressed = TRUE, !.dialog = "cancelled"]
             s2 == [s EXCEPT !.posted = @ + 1]
  <2>1. test' = [test EXCEPT ![t] = r2] /\ worker' = worker /\ saver' = [saver EXCEPT ![t] = s2]
    BY <1>5, <1>f DEF U!CancelPressed, U!CancelDialog
  <2>2. r2 \in UrlTestType /\ s2 \in SaverType /\ r2.pressed
    <3>1. r2 \in UrlTestType /\ r2.pressed
      BY <1>0, <1>b DEF UrlTestType
    <3>2. s2 \in SaverType
      BY <1>0 DEF SaverType
    <3> QED
      BY <3>1, <3>2
  <2> HIDE DEF r2, s2
  <2> QED
    BY <1>0, <1>w, <1>u, <2>1, <2>2
<1>6. CASE U!Minimize(t)
  <2> DEFINE r2 == [r EXCEPT !.dialog = "hidden"]
  <2>1. test' = [test EXCEPT ![t] = r2] /\ worker' = worker /\ saver' = saver
    BY <1>6, <1>f DEF U!Minimize
  <2>2. r2 \in UrlTestType /\ r2.pressed = r.pressed
    BY <1>0 DEF UrlTestType
  <2>3. Kept(r, w, s) => Kept(r2, w, s)
    BY <1>0 DEF Kept, Untouched, Covered, UrlTestType
  <2> QED
    BY <1>0, <1>k, <1>w, <1>u, <2>1, <2>2, <2>3
<1>7. CASE U!Save(t)
  <2> DEFINE r2 == [r EXCEPT !.cancelled = TRUE, !.stored = @ \cup r.results]
             s2 == [s EXCEPT !.posted = @ - 1, !.freeing = @ + 1]
  <2>1. /\ test' = [test EXCEPT ![t] = r2] /\ worker' = worker /\ saver' = [saver EXCEPT ![t] = s2]
        /\ s.posted > 0
    BY <1>7, <1>f DEF U!Save
  <2>2. r2 \in UrlTestType /\ r2.pressed = r.pressed /\ s2 \in SaverType
    <3>1. r.stored \cup r.results \in SUBSET UrlProfiles
      BY <1>0 DEF UrlTestType
    <3>2. r2 \in UrlTestType /\ r2.pressed = r.pressed
      BY <1>0, <1>b, <3>1 DEF UrlTestType
    <3>3. s.posted - 1 \in Nat /\ s.freeing + 1 \in Nat
      BY <1>0, <2>1 DEF SaverType
    <3>4. s2 \in SaverType
      BY <1>0, <3>3 DEF SaverType
    <3> QED
      BY <3>2, <3>4
  <2>3. ASSUME Kept(r, w, s) PROVE Kept(r2, w, s2)
    <3>1. /\ r.pc = "over" /\ r.results = UrlProfiles /\ s.posted + s.freeing <= 1
          /\ \A x \in Workers : w[x].pc = "done" /\ w[x].profiles = {} /\ r.queue = {}
      BY <1>0, <2>1, <2>3 DEF Kept, Untouched, SaverType, UrlTestType
    <3>2. /\ r2.pc = "over" /\ r2.results = UrlProfiles /\ r2.stored = UrlProfiles /\ r2.queue = r.queue
          /\ s2.posted + s2.freeing <= 1
      BY <1>0, <3>1 DEF UrlTestType, SaverType
    <3> HIDE DEF r2, s2
    <3> QED
      BY <3>1, <3>2 DEF Kept
  <2> HIDE DEF r2, s2
  <2> QED
    BY <1>0, <1>k, <1>w, <1>u, <2>1, <2>2, <2>3
<1>8. CASE U!Free(t)
  <2> DEFINE s2 == [s EXCEPT !.freeing = @ - 1]
  <2>1. /\ test' = test /\ worker' = worker /\ saver' = [saver EXCEPT ![t] = s2]
        /\ s.freeing > 0
    BY <1>8, <1>f DEF U!Free
  <2>2. s2 \in SaverType
    BY <1>0, <2>1 DEF SaverType
  <2>3. ASSUME Kept(r, w, s) PROVE Kept(r, w, s2)
    <3>1. /\ r.pc = "over" /\ s.posted + s.freeing <= 1
      BY <1>0, <2>1, <2>3 DEF Kept, Untouched, SaverType, UrlTestType
    <3>2. s2.posted = s.posted /\ s2.posted + s2.freeing <= 1
      BY <1>0, <3>1 DEF SaverType
    <3> HIDE DEF s2
    <3> QED
      BY <2>3, <3>1, <3>2 DEF Kept
  <2> HIDE DEF s2
  <2> QED
    BY <1>0, <1>k, <1>w, <1>u, <2>1, <2>2, <2>3
<1> QED
  BY <1>1, <1>2, <1>3, <1>4, <1>5, <1>6, <1>7, <1>8

\* The coroutines that test the profiles.
LEMMA UrlWorkerStep ==
  ASSUME UrlInv, NEW t \in U!Tests, NEW x \in Workers, U!Work(t, x)
  PROVE  UrlInv'
<1> DEFINE r == test[t]
           w == worker[t]
           s == saver[t]
<1>0. r \in UrlTestType /\ w \in [Workers -> WorkerType] /\ s \in SaverType
  BY DEF UrlInv, UrlTypes
<1>k. ~ r.pressed => Kept(r, w, s)
  BY DEF UrlInv
<1>f. /\ test \in [U!Tests -> UrlTestType] /\ worker \in [U!Tests -> [Workers -> WorkerType]]
      /\ saver \in [U!Tests -> SaverType]
  BY DEF UrlInv, UrlTypes
<1>w. ASSUME NEW r2 \in UrlTestType, NEW v \in WorkerType,
             test' = [test EXCEPT ![t] = r2],
             worker' = [worker EXCEPT ![t] = [w EXCEPT ![x] = v]], saver' = saver,
             ~ r2.pressed => Kept(r2, [w EXCEPT ![x] = v], s)
      PROVE  UrlInv'
  <2>1. [w EXCEPT ![x] = v] \in [Workers -> WorkerType]
    BY <1>0, <1>w
  <2>2. UrlTypes'
    BY <1>f, <1>w, <2>1 DEF UrlTypes, U!Tests
  <2>3. /\ test'[t] = r2 /\ worker'[t] = [w EXCEPT ![x] = v] /\ saver'[t] = s
        /\ \A u \in U!Tests : u # t => test'[u] = test[u] /\ worker'[u] = worker[u] /\ saver'[u] = saver[u]
    BY <1>f, <1>w
  <2> QED
    BY <1>w, <2>2, <2>3, OneUrlTest
\* A test at work is neither over nor cancelled.
<1>t. ASSUME Kept(r, w, s), w[x].pc \notin {"absent", "done"}
      PROVE  /\ r.pc = "testing" /\ Untouched(r, s) /\ Covered(r, w)
             /\ \A y \in Workers : /\ w[y].pc # "absent"
                                   /\ w[y].pc \in {"polling", "done"} => w[y].profiles = {}
                                   /\ w[y].pc = "done" => r.queue = {}
  BY <1>0, <1>t DEF Kept, UrlTestType
\* What makes a test that is at work one of which nothing is lost.
<1>v. ASSUME NEW r2 \in UrlTestType, NEW v \in WorkerType, Kept(r, w, s),
             w[x].pc \notin {"absent", "done"},
             r2.pc = "testing", Untouched(r2, s), v.pc # "absent",
             v.pc \in {"polling", "done"} => v.profiles = {},
             v.pc = "done" => r2.queue = {},
             r2.queue \subseteq r.queue,
             \A p \in UrlProfiles : p \in r.queue \/ p \in r.results \/ p \in w[x].profiles
                => p \in r2.queue \/ p \in r2.results \/ p \in v.profiles
      PROVE  Kept(r2, [w EXCEPT ![x] = v], s)
  <2> DEFINE w2 == [w EXCEPT ![x] = v]
  <2>1. w2[x] = v /\ \A y \in Workers : y # x => w2[y] = w[y]
    BY <1>0
  <2> HIDE DEF w2
  <2>2. Covered(r2, w2)
    <3>1. Covered(r, w)
      BY <1>v, <1>t
    <3>2. ASSUME NEW p \in UrlProfiles
          PROVE  p \in r2.queue \/ p \in r2.results \/ \E y \in Workers : p \in w2[y].profiles
      <4>1. CASE p \in r.queue \/ p \in r.results \/ p \in w[x].profiles
        BY <1>v, <2>1, <4>1
      <4>2. CASE \E y \in Workers : y # x /\ p \in w[y].profiles
        BY <2>1, <4>2
      <4> QED
        BY <3>1, <4>1, <4>2 DEF Covered
    <3> QED
      BY <3>2 DEF Covered
  <2>3. \A y \in Workers : /\ w2[y].pc # "absent"
                           /\ w2[y].pc \in {"polling", "done"} => w2[y].profiles = {}
                           /\ w2[y].pc = "done" => r2.queue = {}
    <3>1. ASSUME NEW y \in Workers, y # x
          PROVE  /\ w[y].pc # "absent" /\ (w[y].pc \in {"polling", "done"} => w[y].profiles = {})
                 /\ w[y].pc = "done" => r.queue = {}
      BY <1>v, <1>t
    <3> QED
      BY <1>v, <2>1, <3>1
  <2>4. Kept(r2, w2, s)
    BY <1>v, <2>2, <2>3 DEF Kept
  <2> QED
    BY <2>4 DEF w2
<1>1. CASE U!Poll(t, x)
  <2>0. w[x].pc = "polling"
    BY <1>1 DEF U!Poll
  <2>1. CASE r.cancelled \/ r.queue = {}
    <3> DEFINE v == [w[x] EXCEPT !.pc = "done"]
    <3>1. /\ test' = [test EXCEPT ![t] = r] /\ worker' = [worker EXCEPT ![t] = [w EXCEPT ![x] = v]]
          /\ saver' = saver
      BY <1>1, <1>f, <2>1 DEF U!Poll
    <3>2. v \in WorkerType /\ v.pc = "done" /\ v.profiles = w[x].profiles
      BY <1>0 DEF WorkerType
    <3>3. ASSUME Kept(r, w, s) PROVE Kept(r, [w EXCEPT ![x] = v], s)
      <4>1. /\ r.pc = "testing" /\ Untouched(r, s) /\ w[x].profiles = {}
        BY <1>t, <2>0, <3>3
      <4>2. r.queue = {}
        BY <2>1, <4>1 DEF Untouched
      <4> HIDE DEF v, r, w, s
      <4> QED
        BY <1>0, <1>v, <2>0, <3>2, <3>3, <4>1, <4>2
    <3> HIDE DEF v
    <3> QED
      BY <1>0, <1>k, <1>w, <3>1, <3>2, <3>3
  <2>2. CASE ~ (r.cancelled \/ r.queue = {})
    <3>0. PICK p \in r.queue :
            /\ test' = [test EXCEPT ![t].queue = @ \ {p}]
            /\ worker' = [worker EXCEPT ![t][x] = [pc |-> "testing", profiles |-> {p}]]
      BY <1>1, <2>2 DEF U!Poll
    <3> DEFINE r2 == [r EXCEPT !.queue = @ \ {p}]
               v == [pc |-> "testing", profiles |-> {p}]
    <3>1. /\ test' = [test EXCEPT ![t] = r2] /\ worker' = [worker EXCEPT ![t] = [w EXCEPT ![x] = v]]
          /\ saver' = saver
      BY <1>1, <1>f, <3>0 DEF U!Poll
    <3>2. /\ v \in WorkerType /\ v.pc = "testing" /\ v.profiles = {p}
      BY <1>0 DEF WorkerType, UrlTestType
    <3>3. /\ r2 \in UrlTestType /\ r2.pressed = r.pressed /\ r2.pc = r.pc /\ r2.queue = r.queue \ {p}
          /\ r2.results = r.results /\ (Untouched(r, s) => Untouched(r2, s))
      BY <1>0 DEF UrlTestType, Untouched
    <3>4. ASSUME Kept(r, w, s) PROVE Kept(r2, [w EXCEPT ![x] = v], s)
      <4>1. /\ r.pc = "testing" /\ Untouched(r, s) /\ w[x].profiles = {}
        BY <1>t, <2>0, <3>4
      <4> HIDE DEF v, r, w, s, r2
      <4> QED
        BY <1>0, <1>v, <2>0, <3>2, <3>3, <3>4, <4>1
    <3> HIDE DEF v, r2
    <3> QED
      BY <1>0, <1>k, <1>w, <3>1, <3>2, <3>3, <3>4
  <2> QED
    BY <2>1, <2>2
\* The coroutine only moves on.
<1>2. CASE U!Answered(t, x) \/ U!Update(t, x)
  <2>0. PICK pc \in {"updating", "polling", "adding"} :
          /\ worker' = [worker EXCEPT ![t][x].pc = pc]
          /\ pc = "polling" => r.dialog = "cancelled"
    BY <1>2 DEF U!Answered, U!Update
  <2> DEFINE v == [w[x] EXCEPT !.pc = pc]
  <2>1. /\ test' = [test EXCEPT ![t] = r] /\ worker' = [worker EXCEPT ![t] = [w EXCEPT ![x] = v]]
        /\ saver' = saver /\ w[x].pc \in {"testing", "updating"}
    BY <1>2, <1>f, <2>0 DEF U!Answered, U!Update
  <2>2. v \in WorkerType /\ v.pc = pc /\ v.profiles = w[x].profiles
    BY <1>0 DEF WorkerType
  <2>3. ASSUME Kept(r, w, s) PROVE Kept(r, [w EXCEPT ![x] = v], s)
    <3>1. /\ r.pc = "testing" /\ Untouched(r, s)
      BY <1>t, <2>1, <2>3
    <3>2. pc # "polling"
      BY <2>0, <3>1 DEF Untouched
    <3> HIDE DEF v, r, w, s
    <3> QED
      BY <1>0, <1>v, <2>1, <2>2, <2>3, <3>1, <3>2
  <2> HIDE DEF v
  <2> QED
    BY <1>0, <1>k, <1>w, <2>1, <2>2, <2>3
<1>3. CASE U!Add(t, x)
  <2> DEFINE r2 == [r EXCEPT !.results = @ \cup w[x].profiles]
             v == [pc |-> "polling", profiles |-> {}]
  <2>1. /\ test' = [test EXCEPT ![t] = r2] /\ worker' = [worker EXCEPT ![t] = [w EXCEPT ![x] = v]]
        /\ saver' = saver /\ w[x].pc = "adding"
    BY <1>3, <1>f DEF U!Add, U!Idle
  <2>2. v \in WorkerType /\ v.pc = "polling" /\ v.profiles = {}
    BY DEF WorkerType
  <2>3. w[x].profiles \in SUBSET UrlProfiles
    BY <1>0 DEF WorkerType
  <2>4. /\ r2 \in UrlTestType /\ r2.pressed = r.pressed /\ r2.pc = r.pc /\ r2.queue = r.queue
        /\ r2.results = r.results \cup w[x].profiles /\ (Untouched(r, s) => Untouched(r2, s))
    BY <1>0, <2>3 DEF UrlTestType, Untouched
  <2>5. ASSUME Kept(r, w, s) PROVE Kept(r2, [w EXCEPT ![x] = v], s)
    <3>1. /\ r.pc = "testing" /\ Untouched(r, s)
      BY <1>t, <2>1, <2>5
    <3> HIDE DEF v, r, w, s, r2
    <3> QED
      BY <1>0, <1>v, <2>1, <2>2, <2>4, <2>5, <3>1
  <2> HIDE DEF v, r2
  <2> QED
    BY <1>0, <1>k, <1>w, <2>1, <2>2, <2>4, <2>5
<1> QED
  BY <1>1, <1>2, <1>3 DEF U!Work

-----------------------------------------------------------------------------
(* The flag.  While no screen is destroyed and no URL test is cancelled,    *)
(* whoever has found the flag free is alone until it frees it.              *)

Active(j) == job[j].pc \notin {"absent", "ended"}
UrlActive(t) == test[t].pc # "absent" /\ ~ U!Freed(t)

Undisturbed == shown = 1 /\ main # "destroy" /\ \A t \in U!Tests : ~ test[t].pressed

AllIdle == (\A j \in Tests : ~ Active(j)) /\ (\A t \in U!Tests : ~ UrlActive(t))

OneActive ==
  /\ \A i, j \in Tests : Active(i) /\ Active(j) => i = j
  /\ \A s, t \in U!Tests : UrlActive(s) /\ UrlActive(t) => s = t
  /\ \A j \in Tests, t \in U!Tests : ~ (Active(j) /\ UrlActive(t))

FlagInv == Undisturbed => OneActive /\ (runningTest = "idle" => AllIdle)

TestsInv == QueueInv /\ UrlInv /\ FlagInv

\* The speed test takes the flag when it starts and frees it when it unwinds;
\* its other steps start nothing.
LEMMA QueueActive ==
  ASSUME QueueInv, Step
  PROVE  \/ \E j \in Tests : speedTest(j) \/ Unwind(j)
         \/ onDestroyEnds
         \/ runningTest' = runningTest /\ \A i \in Tests : Active(i)' => Active(i)
<1>0. job \in [Tests -> JobType]
  BY DEF QueueInv, TypeOK, JobType
<1>j. \A j \in Tests : job[j].pc \in {"preparing", "settling", "starting", "polling", "closing"}
                         => job[j].at <= Profiles
  BY DEF QueueInv, JobInv
<1>1. CASE CancelPressed \/ onDestroy
  BY <1>1 DEF CancelPressed, onDestroy, Active
<1>2. CASE CancelJob
  BY <1>0, <1>2, CancelJobs DEF CancelJob, Active
<1>3. ASSUME NEW j \in Tests,
             \/ NativeEnds(j)
             \/ \E p \in 1..Profiles : GuardBegins(j, p) \/ Killed(j, p) \/ PluginFails(j, p)
      PROVE  runningTest' = runningTest /\ \A i \in Tests : Active(i)' => Active(i)
  BY <1>3 DEF GuardBegins, Killed, PluginFails, NativeEnds, UI, Active
<1>4. ASSUME NEW j \in Tests, Worker(j), ~ Unwind(j)
      PROVE  runningTest' = runningTest /\ \A i \in Tests : Active(i)' => Active(i)
  <2>1. runningTest' = runningTest
    BY <1>4 DEF Worker, Dispatch, List, ForEach, PrepareFails, SettleFails, Prepare, Settle, Start, Poll, close, UI
  <2>2. job[j].pc \notin {"absent", "ended"}
    BY <1>4 DEF Worker, Dispatch, List, ForEach, PrepareFails, SettleFails, Prepare, Settle, Start, Poll, close, At
  <2>3. \/ \E pc \in Pcs : Goto(j, pc)
        \/ ReportAndClose(j) /\ job[j].pc \in {"preparing", "settling", "starting", "polling"}
        \/ job' = [job EXCEPT ![j].pc = "next", ![j].at = @ + 1] /\ job[j].pc = "closing"
        \/ job' = job
    BY <1>4 DEF Worker, Dispatch, List, ForEach, PrepareFails, SettleFails, Prepare, Settle, Start, Poll, close, At, Pcs
  <2>4. \A i \in Tests : i # j => job'[i] = job[i]
    BY <1>0, <1>j, <2>3, GotoJob, ReportJob, NextJob
  <2> QED
    BY <2>1, <2>2, <2>4 DEF Active
<1> QED
  BY <1>1, <1>2, <1>3, <1>4 DEF Step

\* So do the URL tests, which free the flag at the end of cancel().
LEMMA UrlActiveStep ==
  ASSUME UrlInv, NEW t \in U!Tests, ~ test[t].pressed, ~ test'[t].pressed,
         UrlDialog(t) \/ UrlWork(t)
  PROVE  /\ \A u \in U!Tests : u # t => test'[u] = test[u] /\ saver'[u] = saver[u]
         /\ job' = job /\ shown' = shown /\ main' = main
         /\ \/ runningTest' = runningTest /\ (UrlActive(t)' => UrlActive(t))
            \/ UrlActive(t) /\ ~ UrlActive(t)'
<1>f. /\ test \in [U!Tests -> UrlTestType] /\ worker \in [U!Tests -> [Workers -> WorkerType]]
      /\ saver \in [U!Tests -> SaverType]
  BY DEF UrlInv, UrlTypes
<1>k. Kept(test[t], worker[t], saver[t])
  BY DEF UrlInv
<1>q. job' = job /\ shown' = shown /\ main' = main
  BY DEF UrlDialog, UrlWork, queueVars
<1>c. \/ U!Launch(t) \/ U!Join(t) \/ U!TestOver(t) \/ U!CancelPressed(t)
      \/ U!Minimize(t) \/ U!Save(t) \/ U!Free(t)
      \/ \E x \in Workers : U!Work(t, x)
      \/ \E p \in UrlProfiles : U!Core(t, p) \/ U!PluginFails(t, p)
  BY DEF UrlDialog, UrlWork, U!Run
<1>1. CASE U!Launch(t) \/ U!Join(t) \/ U!TestOver(t)
  <2>1. test[t].pc \in {"listing", "testing", "joined"}
    BY <1>1 DEF U!Launch, U!Join, U!TestOver
  <2>2. UrlActive(t) /\ runningTest' = runningTest
    BY <1>1, <2>1 DEF UrlActive, U!Freed, U!Launch, U!Join, U!TestOver, U!CancelDialog
  <2>3. \A u \in U!Tests : u # t => test'[u] = test[u] /\ saver'[u] = saver[u]
    BY <1>1, <1>f DEF U!Launch, U!Join, U!TestOver, U!CancelDialog
  <2> QED
    BY <1>q, <2>2, <2>3
<1>2. CASE U!CancelPressed(t)
  <2>1. test' = [test EXCEPT ![t] = [test[t] EXCEPT !.pressed = TRUE, !.dialog = "cancelled"]]
    BY <1>2 DEF U!CancelPressed, U!CancelDialog
  <2>2. test'[t].pressed
    BY <1>f, <2>1 DEF UrlTestType
  <2> QED
    BY <2>2
<1>3. CASE U!Minimize(t) \/ (\E x \in Workers : U!Work(t, x))
           \/ (\E p \in UrlProfiles : U!Core(t, p) \/ U!PluginFails(t, p))
  <2>1. /\ runningTest' = runningTest /\ saver' = saver
        /\ \A u \in U!Tests : test'[u].pc = test[u].pc
        /\ \A u \in U!Tests : u # t => test'[u] = test[u]
    <3>1. CASE U!Minimize(t)
      BY <3>1, <1>f DEF U!Minimize, UrlTestType
    <3>2. ASSUME NEW x \in Workers, U!Poll(t, x)
          PROVE  /\ runningTest' = runningTest /\ saver' = saver
                 /\ \A u \in U!Tests : test'[u].pc = test[u].pc
                 /\ \A u \in U!Tests : u # t => test'[u] = test[u]
      <4>1. test' = test \/ \E p \in test[t].queue : test' = [test EXCEPT ![t].queue = @ \ {p}]
        BY <3>2 DEF U!Poll
      <4>2. runningTest' = runningTest /\ saver' = saver
        BY <3>2 DEF U!Poll
      <4>3. ASSUME NEW p \in test[t].queue, test' = [test EXCEPT ![t].queue = @ \ {p}]
            PROVE  /\ \A u \in U!Tests : test'[u].pc = test[u].pc
                   /\ \A u \in U!Tests : u # t => test'[u] = test[u]
        BY <1>f, <4>3 DEF UrlTestType
      <4> QED
        BY <4>1, <4>2, <4>3
    <3>3. ASSUME NEW x \in Workers, U!Answered(t, x) \/ U!Update(t, x) \/ U!Add(t, x)
          PROVE  /\ runningTest' = runningTest /\ saver' = saver
                 /\ \A u \in U!Tests : test'[u].pc = test[u].pc
                 /\ \A u \in U!Tests : u # t => test'[u] = test[u]
      <4>1. test' = test \/ test' = [test EXCEPT ![t].results = @ \cup worker[t][x].profiles]
        BY <3>3 DEF U!Answered, U!Update, U!Add
      <4>2. runningTest' = runningTest /\ saver' = saver
        BY <3>3 DEF U!Answered, U!Update, U!Add
      <4>3. CASE test' = [test EXCEPT ![t].results = @ \cup worker[t][x].profiles]
        BY <1>f, <4>2, <4>3 DEF UrlTestType
      <4> QED
        BY <4>1, <4>2, <4>3
    <3>4. CASE \E p \in UrlProfiles : U!Core(t, p) \/ U!PluginFails(t, p)
      BY <3>4 DEF U!Core, U!InstanceEnds, U!InstanceCloses, U!PluginFails
    <3> QED
      BY <1>3, <3>1, <3>2, <3>3, <3>4 DEF U!Work
  <2> QED
    BY <1>q, <2>1 DEF UrlActive, U!Freed
<1>4. CASE U!Save(t)
  <2>1. saver[t].posted > 0 /\ runningTest' = runningTest
    BY <1>4 DEF U!Save
  <2>2. \A u \in U!Tests : u # t => test'[u] = test[u] /\ saver'[u] = saver[u]
    BY <1>4, <1>f DEF U!Save
  <2>3. test[t].pc = "over" /\ saver[t].posted # 0
    BY <1>f, <1>k, <2>1 DEF Kept, Untouched, SaverType
  <2>4. UrlActive(t)
    BY <2>3 DEF UrlActive, U!Freed
  <2> QED
    BY <1>q, <2>1, <2>2, <2>4
<1>5. CASE U!Free(t)
  <2>1. saver[t].freeing > 0 /\ test' = test /\ saver' = [saver EXCEPT ![t].freeing = @ - 1]
    BY <1>5 DEF U!Free
  <2>a. saver[t].posted \in Nat /\ saver[t].freeing \in Nat
    BY <1>f DEF SaverType
  <2>b. test[t].pc = "over" /\ saver[t].posted + saver[t].freeing <= 1
    BY <1>k, <2>1, <2>a DEF Kept, Untouched
  <2>2. test[t].pc = "over" /\ saver[t].posted = 0 /\ saver[t].freeing = 1
    BY <2>1, <2>a, <2>b
  <2>3. saver'[t] = [posted |-> 0, freeing |-> 0]
    BY <1>f, <2>1, <2>2 DEF SaverType
  <2>4. UrlActive(t) /\ ~ UrlActive(t)'
    BY <2>1, <2>2, <2>3 DEF UrlActive, U!Freed
  <2> QED
    BY <1>f, <1>q, <2>1, <2>4
<1> QED
  BY <1>1, <1>2, <1>3, <1>4, <1>5, <1>c

\* Undisturbed was so before.
LEMMA StillUndisturbed ==
  ASSUME QueueInv, UrlInv, Next, Undisturbed'
  PROVE  Undisturbed
<1>0. /\ test \in [U!Tests -> UrlTestType] /\ shown \in Screens /\ Screens \subseteq Nat
      /\ \A s \in Screens : s >= 1
  BY DEF UrlInv, UrlTypes, QueueInv, TypeOK, Screens
<1>1. CASE SpeedTest
  <2>1. test' = test /\ Step
    BY <1>1 DEF SpeedTest, urlVars
  <2>2. shown = 1
    <3>1. shown' = shown \/ shown' = shown + 1
      BY <2>1 DEF Step, CancelPressed, CancelJob, onDestroy, onDestroyEnds,
         speedTest, PluginFails, NativeEnds, Worker, Dispatch, List, ForEach, PrepareFails,
         SettleFails, GuardBegins, Killed, Prepare, Settle, Start, Poll, close, Unwind, UI
    <3>2. shown' = 1 /\ shown \in Nat /\ shown >= 1
      BY <1>0 DEF Undisturbed
    <3> QED
      BY <3>1, <3>2
  <2>3. main # "destroy"
    <3>1. shown' = 1 /\ main' # "destroy"
      BY DEF Undisturbed
    <3>2. ~ onDestroyEnds
      BY <2>2, <3>1 DEF onDestroyEnds
    <3> QED
      BY <2>1, <3>1, <3>2 DEF Step, CancelPressed, CancelJob, onDestroy,
         speedTest, PluginFails, NativeEnds, Worker, Dispatch, List, ForEach, PrepareFails,
         SettleFails, GuardBegins, Killed, Prepare, Settle, Start, Poll, close, Unwind, UI
  <2> QED
    BY <2>1, <2>2, <2>3 DEF Undisturbed, U!Tests
<1>2. ASSUME NEW t \in U!Tests, StartUrlTest(t) \/ UrlDialog(t) \/ UrlWork(t) PROVE Undisturbed
  <2>1. shown' = shown /\ main' = main
    BY <1>2 DEF StartUrlTest, UrlDialog, UrlWork, queueVars
  <2>2. \A u \in U!Tests : test[u].pressed => test'[u].pressed
    <3>1. CASE StartUrlTest(t)
      BY <1>0, <3>1 DEF StartUrlTest, U!urlTest, UrlTestType
    <3>2. CASE UrlDialog(t)
      BY <1>0, <3>2 DEF UrlDialog, U!CancelPressed, U!CancelDialog, U!Minimize, U!TestOver, UrlTestType
    <3>3. CASE UrlWork(t)
      <4>1. CASE U!Run(t)
        BY <1>0, <4>1 DEF U!Run, U!Launch, U!Join, U!Save, U!Free, UrlTestType
      <4>2. ASSUME NEW x \in Workers, U!Work(t, x) PROVE \A u \in U!Tests : test[u].pressed => test'[u].pressed
        <5>1. \/ test' = test
              \/ \E p \in test[t].queue : test' = [test EXCEPT ![t].queue = @ \ {p}]
              \/ test' = [test EXCEPT ![t].results = @ \cup worker[t][x].profiles]
          BY <4>2 DEF U!Work, U!Poll, U!Answered, U!Update, U!Add
        <5> QED
          BY <1>0, <5>1 DEF UrlTestType
      <4>3. CASE \E p \in UrlProfiles : U!Core(t, p) \/ U!PluginFails(t, p)
        BY <4>3 DEF U!Core, U!InstanceEnds, U!InstanceCloses, U!PluginFails
      <4> QED
        BY <3>3, <4>1, <4>2, <4>3 DEF UrlWork
    <3> QED
      BY <1>2, <3>1, <3>2, <3>3
  <2> QED
    BY <2>1, <2>2 DEF Undisturbed, U!Tests
<1> QED
  BY <1>1, <1>2 DEF Next

LEMMA FlagStep ==
  ASSUME TestsInv, Next
  PROVE  FlagInv'
<1> SUFFICES ASSUME Undisturbed'
             PROVE  OneActive' /\ (runningTest' = "idle" => AllIdle')
  BY DEF FlagInv
<1>0. Undisturbed /\ OneActive /\ (runningTest = "idle" => AllIdle) /\ QueueInv /\ UrlInv
  BY StillUndisturbed DEF TestsInv, FlagInv
<1>u. U!Tests' = U!Tests /\ Tests' = Tests
  BY DEF U!Tests, Tests
\* A step that starts nothing and leaves the flag alone.
<1>s. ASSUME runningTest' = runningTest, \A i \in Tests : Active(i)' => Active(i),
             \A t \in U!Tests : UrlActive(t)' => UrlActive(t)
      PROVE  OneActive' /\ (runningTest' = "idle" => AllIdle')
  BY <1>0, <1>s, <1>u DEF OneActive, AllIdle
\* A step after which nothing is active.
<1>n. ASSUME \A i \in Tests : ~ Active(i)', \A t \in U!Tests : ~ UrlActive(t)'
      PROVE  OneActive' /\ (runningTest' = "idle" => AllIdle')
  BY <1>n, <1>u DEF OneActive, AllIdle
<1>1. CASE SpeedTest
  <2>1. Step /\ \A t \in U!Tests : UrlActive(t)' <=> UrlActive(t)
    BY <1>1 DEF SpeedTest, urlVars, UrlActive, U!Freed
  <2>2. job \in [Tests -> JobType]
    BY <1>0 DEF QueueInv, TypeOK, JobType
  <2>3. ASSUME NEW j \in Tests, speedTest(j) PROVE OneActive' /\ (runningTest' = "idle" => AllIdle')
    <3>1. AllIdle /\ runningTest' = "busy"
      BY <1>0, <2>3 DEF speedTest
    <3>2. \A i \in Tests : i # j => job'[i] = job[i]
      BY <2>2, <2>3 DEF speedTest
    <3>3. \A i \in Tests : i # j => ~ Active(i)'
      BY <3>1, <3>2 DEF AllIdle, Active
    <3> QED
      BY <1>u, <2>1, <3>1, <3>3 DEF OneActive, AllIdle
  <2>4. ASSUME NEW j \in Tests, Unwind(j) PROVE OneActive' /\ (runningTest' = "idle" => AllIdle')
    <3>1. Active(j) /\ Goto(j, "ended") /\ "ended" \in Pcs
      BY <2>4 DEF Unwind, Active, At, Pcs
    <3>2. job'[j].pc = "ended" /\ \A i \in Tests : i # j => job'[i] = job[i]
      BY <2>2, <3>1, GotoJob
    <3>3. \A i \in Tests : ~ Active(i)'
      BY <1>0, <3>1, <3>2 DEF OneActive, Active
    <3>4. \A t \in U!Tests : ~ UrlActive(t)'
      BY <1>0, <2>1, <3>1 DEF OneActive
    <3> QED
      BY <1>n, <3>3, <3>4
  <2>5. CASE onDestroyEnds
    BY <1>0, <2>5 DEF Undisturbed, onDestroyEnds
  <2> QED
    BY <1>0, <1>s, <2>1, <2>3, <2>4, <2>5, QueueActive
<1>2. ASSUME NEW t \in U!Tests, StartUrlTest(t)
      PROVE  OneActive' /\ (runningTest' = "idle" => AllIdle')
  <2>0. test \in [U!Tests -> UrlTestType]
    BY <1>0 DEF UrlInv, UrlTypes
  <2>1. AllIdle /\ runningTest' = "busy" /\ job' = job /\ saver' = saver
    BY <1>0, <1>2 DEF StartUrlTest, U!urlTest, queueVars
  <2>2. \A u \in U!Tests : u # t => test'[u] = test[u]
    BY <1>2, <2>0 DEF StartUrlTest, U!urlTest
  <2>3. /\ \A i \in Tests : ~ Active(i)'
        /\ \A u \in U!Tests : u # t => ~ UrlActive(u)'
    BY <2>1, <2>2 DEF AllIdle, Active, UrlActive, U!Freed
  <2> QED
    BY <1>u, <2>1, <2>3 DEF OneActive
<1>3. ASSUME NEW t \in U!Tests, UrlDialog(t) \/ UrlWork(t)
      PROVE  OneActive' /\ (runningTest' = "idle" => AllIdle')
  <2>1. ~ test[t].pressed /\ ~ test'[t].pressed
    BY <1>0, <1>u DEF Undisturbed
  <2>2. /\ \A u \in U!Tests : u # t => test'[u] = test[u] /\ saver'[u] = saver[u]
        /\ job' = job
        /\ \/ runningTest' = runningTest /\ (UrlActive(t)' => UrlActive(t))
           \/ UrlActive(t) /\ ~ UrlActive(t)'
    BY <1>0, <1>3, <2>1, UrlActiveStep
  <2>3. /\ \A i \in Tests : Active(i)' <=> Active(i)
        /\ \A u \in U!Tests : u # t => (UrlActive(u)' <=> UrlActive(u))
    BY <2>2 DEF Active, UrlActive, U!Freed
  <2>4. CASE runningTest' = runningTest /\ (UrlActive(t)' => UrlActive(t))
    BY <1>s, <2>3, <2>4
  <2>5. CASE UrlActive(t) /\ ~ UrlActive(t)'
    <3>1. \A i \in Tests : ~ Active(i)'
      BY <1>0, <2>3, <2>5 DEF OneActive
    <3>2. \A u \in U!Tests : ~ UrlActive(u)'
      BY <1>0, <2>3, <2>5 DEF OneActive
    <3> QED
      BY <1>n, <3>1, <3>2
  <2> QED
    BY <2>2, <2>4, <2>5
<1> QED
  BY <1>1, <1>2, <1>3 DEF Next

-----------------------------------------------------------------------------

LEMMA TestsStart == ASSUME TestsInit PROVE TestsInv
<1>1. QueueInv
  <2>1. /\ 1 \in Screens /\ 0 \in 0..MaxTests /\ 1 \in 1..(Profiles + 1) /\ "absent" \in Pcs
        /\ {} \in SUBSET (1..Profiles) /\ FALSE \in BOOLEAN
    BY QueueAssumption DEF Screens, Pcs
  <2>2. [pc |-> "absent", cancelled |-> FALSE, at |-> 1, screen |-> 1, reported |-> {}] \in JobType
    BY <2>1 DEF JobType
  <2>3. job \in [Tests -> JobType] /\ \A j \in Tests : job[j] = [pc |-> "absent", cancelled |-> FALSE, at |-> 1,
                                                                screen |-> 1, reported |-> {}]
    BY <2>2 DEF TestsInit, Init
  <2>4. TypeOK
    BY <2>1, <2>3 DEF TestsInit, Init, TypeOK, JobType, PoolStates
  <2>5. JobInv /\ ReportInv /\ DestroyInv
    BY <2>3 DEF TestsInit, Init, JobInv, NoPool, OnlyCurrent, IsOpen, ReportInv, DestroyInv, At
  <2> QED
    BY <2>4, <2>5 DEF QueueInv
<1>2. UrlInv
  <2> DEFINE r == [pc |-> "absent", dialog |-> "open", pressed |-> FALSE, cancelled |-> FALSE,
                   queue |-> UrlProfiles, results |-> {}, stored |-> {}]
             v == [pc |-> "absent", profiles |-> {}]
             s == [posted |-> 0, freeing |-> 0]
  <2>1. r \in UrlTestType /\ v \in WorkerType /\ s \in SaverType
    <3>1. FALSE \in BOOLEAN
      OBVIOUS
    <3> QED
      BY <3>1 DEF UrlTestType, WorkerType, SaverType
  <2>2. /\ test = [t \in U!Tests |-> r] /\ worker = [t \in U!Tests |-> [x \in Workers |-> v]]
        /\ saver = [t \in U!Tests |-> s]
    BY DEF TestsInit, U!Init, U!Idle
  <2>3. Kept(r, [x \in Workers |-> v], s)
    BY DEF Kept, Untouched, Covered
  <2> HIDE DEF r, v, s
  <2>4. UrlTypes
    BY <2>1, <2>2 DEF UrlTypes
  <2> QED
    BY <2>2, <2>3, <2>4 DEF UrlInv
<1>3. FlagInv
  <2>1. (\A j \in Tests : job[j].pc = "absent") /\ (\A t \in U!Tests : test[t].pc = "absent")
    BY DEF TestsInit, Init, U!Init
  <2> QED
    BY <2>1 DEF FlagInv, OneActive, AllIdle, Active, UrlActive
<1> QED
  BY <1>1, <1>2, <1>3 DEF TestsInv

LEMMA TestsStep == ASSUME TestsInv, [Next]_allVars PROVE TestsInv'
<1>1. CASE Next
  <2>1. CASE SpeedTest
    <3>1. QueueInv'
      BY <2>1, QueueStep DEF TestsInv, SpeedTest
    <3>2. UrlInv'
      BY <2>1 DEF TestsInv, SpeedTest, urlVars, UrlInv, UrlTypes, U!Tests
    <3> QED
      BY <1>1, <3>1, <3>2, FlagStep DEF TestsInv
  <2>2. ASSUME NEW t \in U!Tests, StartUrlTest(t) \/ UrlDialog(t) \/ UrlWork(t) PROVE TestsInv'
    <3>1. runningTest' \in {"idle", "busy"} /\ UNCHANGED queueVars
      <4>1. runningTest \in {"idle", "busy"}
        BY DEF TestsInv, QueueInv, TypeOK
      <4> QED
        BY <2>2, <4>1 DEF StartUrlTest, UrlDialog, UrlWork, U!urlTest, U!CancelPressed, U!CancelDialog,
           U!Minimize, U!TestOver, U!Run, U!Launch, U!Join, U!Save, U!Free, U!Work, U!Poll, U!Answered,
           U!Update, U!Add, U!Core, U!InstanceEnds, U!InstanceCloses, U!PluginFails
    <3>2. QueueInv'
      BY <3>1 DEF queueVars, TestsInv, QueueInv, TypeOK, JobInv, NoPool, OnlyCurrent, IsOpen, ReportInv, DestroyInv, At
    <3>3. UrlInv
      BY DEF TestsInv
    <3>4. UrlInv'
      <4>1. CASE \E p \in UrlProfiles : U!Core(t, p) \/ U!PluginFails(t, p)
        <5>1. UNCHANGED <<test, worker, saver>>
          BY <4>1 DEF U!Core, U!InstanceEnds, U!InstanceCloses, U!PluginFails
        <5> QED
          BY <3>3, <5>1 DEF UrlInv, UrlTypes, U!Tests
      <4> QED
        BY <2>2, <3>3, <4>1, UrlMainStep, UrlWorkerStep DEF StartUrlTest, UrlDialog, UrlWork, U!Run
    <3> QED
      BY <1>1, <3>2, <3>4, FlagStep DEF TestsInv
  <2> QED
    BY <1>1, <2>1, <2>2 DEF Next
<1>2. CASE UNCHANGED allVars
  <2>1. UNCHANGED <<runningTest, shown, speedTestJob, job, native, stopped, pool, main,
                    test, worker, saver>>
    BY <1>2 DEF allVars, vars, urlVars
  <2>2. QueueInv'
    BY <2>1 DEF TestsInv, QueueInv, TypeOK, JobInv, NoPool, OnlyCurrent, IsOpen, ReportInv, DestroyInv, At
  <2>3. UrlInv'
    BY <2>1 DEF TestsInv, UrlInv, UrlTypes, U!Tests
  <2>4. FlagInv'
    BY <2>1 DEF TestsInv, FlagInv, Undisturbed, OneActive, AllIdle, Active, UrlActive, U!Freed, U!Tests
  <2> QED
    BY <2>2, <2>3, <2>4 DEF TestsInv
<1> QED
  BY <1>1, <1>2

LEMMA TestsInvariant == Spec => []TestsInv
<1> QED
  BY TestsStart, TestsStep, PTL DEF Spec

\* Between two profiles, and however a speed test ended, it has no native
\* session and every process pool that it opened is closed, for any number of
\* tests and profiles, whichever need plugins, and wherever a launch failed or
\* runner.cancel() found nothing to cancel.
THEOREM NothingEverLeft == Spec => []NothingLeft
<1>1. TestsInv => NothingLeft
  BY DEF TestsInv, QueueInv, JobInv, NoPool, NothingLeft
<1> QED
  BY <1>1, TestsInvariant, PTL

\* A test that nobody cancelled has a result for every profile: the speed test
\* has reported it, the URL test, with any number of coroutines that race for
\* the queue, has stored it.
THEOREM ResultsAlwaysKept == Spec => []ResultsKept
<1>1. TestsInv => EveryProfileReported
  BY DEF TestsInv, QueueInv, ReportInv, EveryProfileReported, At
<1>2. ASSUME TestsInv PROVE U!EveryResultStored
  <2>1. ASSUME NEW t \in U!Tests, U!Freed(t), ~ test[t].pressed PROVE test[t].stored = UrlProfiles
    <3>1. test[t].pc = "over" /\ saver[t].posted = 0
      BY <2>1 DEF U!Freed
    <3> QED
      BY <1>2, <2>1, <3>1 DEF TestsInv, UrlInv, Kept
  <2> QED
    BY <2>1 DEF U!EveryResultStored
<1> QED
  BY <1>1, <1>2, TestsInvariant, PTL DEF ResultsKept

\* Two elements are one: the set is counted as such.
LEMMA AtMostOne ==
  ASSUME NEW S, \A x, y \in S : x = y
  PROVE  Cardinality(S) \in {0, 1} /\ (S # {} => Cardinality(S) = 1) /\ (S = {} => Cardinality(S) = 0)
<1>1. CASE S = {}
  BY <1>1, FS_EmptySet
<1>2. CASE S # {}
  <2>1. PICK x \in S : TRUE
    BY <1>2
  <2>2. S = {x}
    BY <2>1
  <2> QED
    BY <2>2, FS_Singleton, <1>2
<1> QED
  BY <1>1, <1>2

\* The flag DataStore.runningTest, which is tested and set by the main thread
\* and freed by coroutines, lets one test of either kind work at a time, as
\* long as no screen is destroyed and no URL test is cancelled.
THEOREM TestsAlwaysExclusive == Spec => []TestsExclusive
<1>1. ASSUME TestsInv, Undisturbed
      PROVE  Cardinality({j \in Tests : native[j] = "running"})
               + Cardinality({t \in U!Tests : U!AtWork(t)}) <= 1
  <2> DEFINE A == {j \in Tests : native[j] = "running"}
             B == {t \in U!Tests : U!AtWork(t)}
  <2>0. OneActive
    BY <1>1 DEF TestsInv, FlagInv
  <2>1. \A j \in A : j \in Tests /\ Active(j)
    BY <1>1 DEF TestsInv, QueueInv, JobInv, Active
  <2>2. \A t \in B : t \in U!Tests /\ UrlActive(t)
    <3>1. ASSUME NEW t \in U!Tests, U!AtWork(t) PROVE UrlActive(t)
      <4>1. Kept(test[t], worker[t], saver[t]) /\ test[t] \in UrlTestType
        BY <1>1 DEF TestsInv, UrlInv, UrlTypes, Undisturbed
      <4>2. test[t].pc = "testing"
        BY <3>1, <4>1 DEF U!AtWork, Kept, UrlTestType
      <4> QED
        BY <4>2 DEF UrlActive, U!Freed
    <3> QED
      BY <3>1
  <2> HIDE DEF A, B
  <2>3. (\A i, j \in A : i = j) /\ (\A s, t \in B : s = t) /\ (A = {} \/ B = {})
    BY <2>0, <2>1, <2>2 DEF OneActive
  <2>4. Cardinality(A) + Cardinality(B) <= 1
    BY <2>3, AtMostOne
  <2> QED
    BY <2>4 DEF A, B
<1>2. TestsInv => TestsExclusive
  BY <1>1 DEF TestsExclusive, Undisturbed
<1> QED
  BY <1>2, TestsInvariant, PTL
=============================================================================
