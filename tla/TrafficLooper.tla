--------------------------- MODULE TrafficLooper ----------------------------
(***************************************************************************)
(* Traffic statistics (TrafficLooper, TrafficUpdater): how the bytes a core*)
(* counts per outbound tag become the totals stored with the profiles.     *)
(* Each session of the service has a ProxyInstance, whose launch posts the *)
(* creation of a looper to a worker thread; the looper polls whatever      *)
(* instance data.proxy names, and close stores what its items have reached.*)
(* Main-thread steps are the service's, the rest are worker threads.       *)
(***************************************************************************)
EXTENDS Integers

CONSTANTS Ents,       \* profiles the configuration counts traffic for
          Tags,       \* outbound tags
          TagsOf,     \* the tags trafficMap lists each profile under
          TagOf,      \* the one of them its item is bound to
          Sessions,   \* bound: ProxyInstances of one service
          MaxBytes,   \* bound: bytes a core carries under a tag
          MaxSteps    \* bound: updates that find the wall clock at rest or stepped back

\* buildChain lists the profiles of a chain under its tag, so that one profile
\* stands under several tags; the loop over trafficMap leaves each of them the
\* item of the tag that came last, in the same order for all profiles.
ASSUME TrafficAssumption ==
  /\ TagsOf \in [Ents -> SUBSET Tags] /\ TagOf \in [Ents -> Tags]
  /\ \A e \in Ents : TagOf[e] \in TagsOf[e]
  /\ \A e, f \in Ents :
       {TagOf[e], TagOf[f]} \subseteq TagsOf[e] \cap TagsOf[f] => TagOf[e] = TagOf[f]
  /\ Sessions \in Nat /\ MaxBytes \in Nat /\ MaxSteps \in Nat

Instances == 1..Sessions

\* The tags some item is bound to.  The others are counted but never queried.
Polled == {TagOf[e] : e \in Ents}

VARIABLES proxy,     \* data.proxy, 0 for null
          phase,     \* the state of each instance
          field,     \* instances whose looper field is set
          loop,      \* the coroutine of each instance's looper
          cancelled, \* loopers whose job is cancelled
          bound,     \* the instance a looper's TrafficUpdater reads, 0 for none
          todo,      \* the tags the poll under way has still to query
          total,     \* idMap: what a looper's items have reached
          base,      \* what they began with
          unread,    \* what a core has counted and no query has taken yet
          carried,   \* what a core carried since it began to count
          setCalls,  \* SetV2rayStats calls a core received
          stored,    \* the totals in the database
          steps      \* updates that found no time to have passed

loopVars == <<loop, bound, todo, total, base>>
vars == <<proxy, phase, field, loop, cancelled, bound, todo, total, base,
          unread, carried, setCalls, stored, steps>>

Zero == [e \in Ents |-> 0]
NoBytes == [t \in Tags |-> 0]

TypeOK ==
  /\ proxy \in 0..Sessions
  /\ phase \in [Instances -> {"none", "new", "ready", "launched", "closed"}]
  /\ field \subseteq Instances /\ cancelled \subseteq Instances
  /\ loop \in [Instances -> {"none", "making", "made", "posted", "top", "poll",
                             "delay", "ended"}]
  /\ bound \in [Instances -> 0..Sessions]
  /\ todo \in [Instances -> SUBSET Polled]
  /\ \A i \in Instances : \A e \in Ents : total[i][e] >= base[i][e]
  /\ unread \in [Instances -> [Tags -> 0..MaxBytes]]
  /\ carried \in [Instances -> [Tags -> 0..MaxBytes]]
  /\ setCalls \in [Instances -> 0..Sessions]
  /\ stored \in [Ents -> Nat] /\ steps \in 0..MaxSteps

Init ==
  /\ proxy = 0 /\ phase = [i \in Instances |-> "none"]
  /\ field = {} /\ cancelled = {}
  /\ loop = [i \in Instances |-> "none"] /\ bound = [i \in Instances |-> 0]
  /\ todo = [i \in Instances |-> {}]
  /\ total = [i \in Instances |-> Zero] /\ base = [i \in Instances |-> Zero]
  /\ unread = [i \in Instances |-> NoBytes]
  /\ carried = [i \in Instances |-> NoBytes]
  /\ setCalls = [i \in Instances |-> 0] /\ stored = Zero /\ steps = 0

-----------------------------------------------------------------------------
(* The service, on the main thread *)

\* onStartCommand: a new instance becomes data.proxy before it has a core.
New(i) ==
  /\ proxy = 0 /\ phase[i] = "none" /\ \A j \in 1..(i-1) : phase[j] = "closed"
  /\ proxy' = i /\ phase' = [phase EXCEPT ![i] = "new"]
  /\ UNCHANGED <<field, loopVars, cancelled, unread, carried, setCalls, stored, steps>>

\* init: the configuration is built from the profiles of the database, and
\* the core is created.
Load(i) ==
  /\ proxy = i /\ phase[i] = "new" /\ phase' = [phase EXCEPT ![i] = "ready"]
  /\ UNCHANGED <<proxy, field, loopVars, cancelled, unread, carried, setCalls,
                 stored, steps>>

\* launch: the core runs and the creation of the looper is posted.
launch(i) ==
  /\ proxy = i /\ phase[i] = "ready" /\ phase' = [phase EXCEPT ![i] = "launched"]
  /\ loop' = [loop EXCEPT ![i] = "making"]
  /\ UNCHANGED <<proxy, field, bound, todo, total, base, cancelled, unread,
                 carried, setCalls, stored, steps>>

\* The profiles a looper has items for: none before it is bound.
Counted(i) == {e \in Ents : bound[i] # 0}

\* Mutant: stop posts what was counted since the looper was bound.
CloseStoresDiff(i) ==
  /\ proxy = i /\ phase[i] \in {"new", "ready", "launched"}
  /\ phase' = [phase EXCEPT ![i] = "closed"] /\ proxy' = 0
  /\ field' = field \ {i}
  /\ cancelled' = cancelled \cup {j \in field \cap {i} : loop[j] # "made"}
  /\ stored' = IF i \in field
               THEN [e \in Ents |-> IF e \in Counted(i)
                                    THEN total[i][e] - base[i][e] ELSE stored[e]]
               ELSE stored
  /\ UNCHANGED <<loopVars, unread, carried, setCalls, steps>>

\* close and then data.proxy = null: the core stops carrying traffic, the
\* looper the field names, if it does, is cancelled and its totals are stored.
close(i) ==
  /\ proxy = i /\ phase[i] \in {"new", "ready", "launched"}
  /\ phase' = [phase EXCEPT ![i] = "closed"] /\ proxy' = 0
  /\ field' = field \ {i}
  /\ cancelled' = cancelled \cup {j \in field \cap {i} : loop[j] # "made"}
  /\ stored' = IF i \in field
               THEN [e \in Ents |-> IF e \in Counted(i) THEN total[i][e]
                                    ELSE stored[e]]
               ELSE stored
  /\ UNCHANGED <<loopVars, unread, carried, setCalls, steps>>

-----------------------------------------------------------------------------
(* The core *)

\* A connection moves a byte through tag t; the tracker that SetV2rayStats
\* appended counts it.
Carry(i, t) ==
  /\ phase[i] = "launched" /\ setCalls[i] > 0
  /\ carried[i][t] < MaxBytes
  /\ carried' = [carried EXCEPT ![i][t] = @ + 1]
  /\ unread' = [unread EXCEPT ![i][t] = @ + 1]
  /\ UNCHANGED <<proxy, phase, field, loopVars, cancelled, setCalls, stored, steps>>

-----------------------------------------------------------------------------
(* The looper, on worker threads *)

Goto(i, pc) == loop' = [loop EXCEPT ![i] = pc]

\* The posted creation of the looper, which may come after close.
Create(i) ==
  /\ loop[i] = "making" /\ Goto(i, "made") /\ field' = field \cup {i}
  /\ UNCHANGED <<proxy, phase, cancelled, bound, todo, total, base, unread,
                 carried, setCalls, stored, steps>>

\* start: loop() is launched.  A stop that came before it had no job to cancel.
start(i) ==
  /\ loop[i] = "made" /\ Goto(i, "posted")
  /\ UNCHANGED <<proxy, phase, field, cancelled, bound, todo, total, base,
                 unread, carried, setCalls, stored, steps>>

\* loop() begins, unless it was cancelled first; it returns at once when the
\* user has turned the display of speeds off (an interval of 0).
Begin(i) ==
  /\ loop[i] = "posted"
  /\ Goto(i, "ended") \/ (i \notin cancelled /\ Goto(i, "top"))
  /\ UNCHANGED <<proxy, phase, field, cancelled, bound, todo, total, base,
                 unread, carried, setCalls, stored, steps>>

\* No instance: wait.  (An instance that is not initialised is asked again
\* at once, so the loop stays at the top, cancelled or not.)
Idle(i) ==
  /\ loop[i] = "top" /\ proxy = 0 /\ Goto(i, "delay")
  /\ UNCHANGED <<proxy, phase, field, cancelled, bound, todo, total, base,
                 unread, carried, setCalls, stored, steps>>

Loaded == proxy # 0 /\ phase[proxy] # "new"

\* The first pass that finds an instance initialised: idMap begins with the
\* totals of its profiles, one item each, and the core is told to count under
\* every tag.  (Reading data.proxy is part of the step: what is closed before
\* it is bound carries nothing.)
Bind(i) ==
  /\ loop[i] = "top" /\ Loaded /\ bound[i] = 0
  /\ bound' = [bound EXCEPT ![i] = proxy]
  /\ total' = [total EXCEPT ![i] = stored] /\ base' = [base EXCEPT ![i] = stored]
  /\ setCalls' = [setCalls EXCEPT ![proxy] = @ + 1]
  /\ todo' = [todo EXCEPT ![i] = Polled] /\ Goto(i, "poll")
  /\ UNCHANGED <<proxy, phase, field, cancelled, unread, carried, stored, steps>>

\* A later pass polls the core it is bound to, whatever data.proxy names.
Again(i) ==
  /\ loop[i] = "top" /\ proxy # 0 /\ bound[i] # 0
  /\ todo' = [todo EXCEPT ![i] = Polled] /\ Goto(i, "poll")
  /\ UNCHANGED <<proxy, phase, field, cancelled, bound, total, base, unread,
                 carried, setCalls, stored, steps>>

\* The item that stands first in the list of the updater for its tag.
Lead(t) == CHOOSE e \in Ents : TagOf[e] = t

\* Mutant: every item of a tag queries the core anew (the counter is reset
\* by the first of them).
QueryEach(i, t) ==
  /\ total' = [total EXCEPT ![i] = [e \in Ents |->
                 IF e = Lead(t) THEN @[e] + unread[bound[i]][t] ELSE @[e]]]
  /\ unread' = [unread EXCEPT ![bound[i]][t] = 0]

\* updateOne for the first item of tag t, which takes and resets what the
\* core counted, and the same difference for its other items.
Query(i, t) ==
  /\ total' = [total EXCEPT ![i] = [e \in Ents |->
                 IF TagOf[e] = t THEN @[e] + unread[bound[i]][t] ELSE @[e]]]
  /\ unread' = [unread EXCEPT ![bound[i]][t] = 0]

\* updateOne when no time has passed since the last update: the core is not
\* asked, and the item itself is returned where a difference is expected.
NoTime(i, t) ==
  /\ steps < MaxSteps /\ steps' = steps + 1
  /\ total' = [total EXCEPT ![i] = [e \in Ents |->
                 IF TagOf[e] = t /\ e # Lead(t) THEN @[e] + @[Lead(t)] ELSE @[e]]]
  /\ UNCHANGED unread

\* updateAll comes to the items of one more tag.
Update(i, t) ==
  /\ loop[i] = "poll" /\ t \in todo[i]
  /\ (Query(i, t) /\ UNCHANGED steps) \/ NoTime(i, t)
  /\ todo' = [todo EXCEPT ![i] = @ \ {t}]
  /\ UNCHANGED <<proxy, phase, field, loop, cancelled, bound, base, carried,
                 setCalls, stored>>

\* The speed is broadcast and the loop waits.
Broadcast(i) ==
  /\ loop[i] = "poll" /\ todo[i] = {} /\ Goto(i, "delay")
  /\ UNCHANGED <<proxy, phase, field, cancelled, bound, todo, total, base,
                 unread, carried, setCalls, stored, steps>>

\* Mutant: the exception of a cancelled delay is swallowed.
WakeAnyway(i) ==
  /\ loop[i] = "delay" /\ Goto(i, "top")
  /\ UNCHANGED <<proxy, phase, field, cancelled, bound, todo, total, base,
                 unread, carried, setCalls, stored, steps>>

\* The delay ends, or throws when the job is cancelled.
Wake(i) ==
  /\ loop[i] = "delay" /\ Goto(i, IF i \in cancelled THEN "ended" ELSE "top")
  /\ UNCHANGED <<proxy, phase, field, cancelled, bound, todo, total, base,
                 unread, carried, setCalls, stored, steps>>

Loop(i) == start(i) \/ Begin(i) \/ Idle(i) \/ Bind(i) \/ Again(i) \/ Broadcast(i) \/ Wake(i)
           \/ \E t \in Tags : Update(i, t)

Next ==
  \E i \in Instances :
    \/ New(i) \/ Load(i) \/ launch(i) \/ close(i) \/ Create(i) \/ Loop(i)
    \/ \E t \in Tags : Carry(i, t)

\* The worker threads run what is posted to them; init ends, and a failing
\* one is followed by close.  Nobody has to start or stop the service.
Fairness ==
  \A i \in Instances : WF_vars(Create(i)) /\ WF_vars(Loop(i)) /\ WF_vars(Load(i))

Spec == Init /\ [][Next]_vars /\ Fairness

-----------------------------------------------------------------------------
(* Properties *)

\* The sums of the first n values of f, and the sum over all instances.
PartialSums(f) ==
  LET upTo[n \in 0..Sessions] == IF n = 0 THEN 0 ELSE upTo[n - 1] + f[n]
  IN  upTo
Sum(f) == PartialSums(f)[Sessions]

\* What was carried under the tag of e's item.
CarriedFor(e) == Sum([i \in Instances |-> carried[i][TagOf[e]]])

\* What looper i has added to profile e, if it reads core b.
Added(i, b, e) == IF bound[i] = b THEN total[i][e] - base[i][e] ELSE 0

\* The profiles whose totals are exact whatever the clock does: the first of
\* each tag.  For the others updateOne returns the total itself where a
\* difference is expected, once an update finds no time to have passed.
Exact == {e \in Ents : steps = 0 \/ e = Lead(TagOf[e])}

\* What the loopers bound to a core have added to a profile, with what no
\* query has taken yet, is what the core carried under the tag of the
\* profile's item.
PolledOnce ==
  \A b \in Instances : \A e \in Exact :
    carried[b][TagOf[e]] = unread[b][TagOf[e]]
                             + Sum([i \in Instances |-> Added(i, b, e)])

\* What is carried under a tag without items stays in the core's counter.
OthersUntaken ==
  \A b \in Instances : \A t \in Tags \ Polled : unread[b][t] = carried[b][t]

\* Every byte a core counts under a tag that has items reaches exactly one
\* looper and each of these items once (QueryStats reads and resets in one
\* step, updateAll queries a tag once and shares the difference).  The bytes of
\* the other tags a profile is listed under do not reach it, and those of a tag
\* all of whose profiles have their items elsewhere reach nobody
\* (idMap[ent.id] = item).
EveryByteOnce == PolledOnce /\ OthersUntaken

\* The database never credits a profile with more than was carried under the
\* tag of its item, whichever loopers polled and whenever their instances were
\* closed ("return diff", TrafficUpdater.updateOne), and stop never takes back
\* what earlier sessions have stored.
StoredIsSound ==
  [][\A e \in Exact : stored'[e] >= stored[e] /\ stored'[e] <= CarriedFor(e)]_vars

\* A looper that stop cancelled ends: it may bind and poll once more, but it
\* comes to its delay.
StoppedEnds ==
  \A i \in Instances : (i \in cancelled) ~> (loop[i] = "ended")
=============================================================================
