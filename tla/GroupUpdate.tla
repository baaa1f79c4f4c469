---------------------------- MODULE GroupUpdate ----------------------------
(***************************************************************************)
(* Updates of one subscription group (GroupUpdater.executeUpdate and       *)
(* RawUpdater.doUpdate), started by the user and by the periodic worker.   *)
(* A group is reserved in the set `updating`; an update that finds it      *)
(* reserved cancels its own scope and runs on to the next cancellation     *)
(* point, and so does an update of the worker when WorkManager stops it.   *)
(***************************************************************************)
EXTENDS SubscriptionDiff

CONSTANTS Lists,      \* what the subscription may contain
          MaxRuns,    \* bound: updates started
          MaxEdits    \* bound: overrides the user saves meanwhile

ASSUME UpdateAssumption ==
  Lists \subseteq Seq(Profile) /\ MaxRuns \in Nat \ {0} /\ MaxEdits \in Nat

Runs == 1..MaxRuns
Pcs == {"absent", "reload", "confirm", "download", "commit", "committed", "success",
        "catch", "ended"}

VARIABLES updating,  \* is the group in GroupUpdater.updating: "free" or "reserved"
          run,       \* the coroutine of each update
          plan,      \* what it has decided on the rows it read
          db,        \* the rows of the group
          lastId,    \* the last row id given out
          current,   \* the list of the last transaction
          ui,        \* GroupManager.userInterface: "alive" or "gone"
          edits,     \* overrides saved
          incidents  \* history, for the properties: see Incidents

vars == <<updating, run, plan, db, lastId, current, ui, edits, incidents>>

\* The user has declined an update that had been refused, the interface has
\* been gone, an override was saved between the reading and the transaction,
\* two names have merged in forceResolve, a worker has been stopped in an
\* update.
Incidents == {"declined", "left", "raced", "merged", "stopped"}

NoPlan == [update |-> {}, add |-> {}, delete |-> {}]
Absent == [pc |-> "absent", by |-> "user", refused |-> FALSE, stopped |-> FALSE,
           ui |-> "gone", list |-> <<>>]

TypeOK ==
  /\ updating \in {"free", "reserved"}
  /\ \A r \in Runs :
       /\ run[r].pc \in Pcs /\ run[r].by \in {"user", "worker"}
       /\ {run[r].refused, run[r].stopped} \subseteq BOOLEAN /\ run[r].ui \in {"alive", "gone"}
  /\ ui \in {"alive", "gone"} /\ edits \in 0..MaxEdits /\ incidents \subseteq Incidents
  /\ \A e, f \in db : e.id = f.id => e = f
  /\ \A e \in db : e.id \in 1..lastId

\* No address has been resolved.
NotFound(list) == [i \in DOMAIN list |-> "none"]

Init ==
  /\ updating = "free" /\ ui = "alive" /\ edits = 0 /\ incidents = {}
  /\ run = [r \in Runs |-> Absent]
  /\ plan = [r \in Runs |-> NoPlan]
  /\ \E list \in Lists, deduplication \in BOOLEAN :
       /\ current = Prepared(list, NotFound(list), deduplication)
       /\ db = Commit({}, Plan({}, NameMap(current)), 0) /\ lastId = Len(current)

At(r, pc) == run[r].pc = pc
Cancelled(r) == run[r].refused \/ run[r].stopped
Goto(r, pc) == run' = [run EXCEPT ![r].pc = pc]
Leave(r, pc) ==
  /\ run' = [run EXCEPT ![r].pc = pc, ![r].list = <<>>]
  /\ plan' = [plan EXCEPT ![r] = NoPlan]
End(r) == run' = [run EXCEPT ![r] = [Absent EXCEPT !.pc = "ended"]]
Note(i, happens) == incidents' = incidents \cup {j \in {i} : happens}

-----------------------------------------------------------------------------

\* Mutant: an update that is refused goes on with its scope intact.
executeUpdateAnyway(r) ==
  /\ At(r, "absent") /\ \A q \in Runs : q < r => ~ At(q, "absent")
  /\ \E by \in {"user", "worker"} : run' = [run EXCEPT ![r].pc = "reload", ![r].by = by]
  /\ updating' = "reserved"
  /\ UNCHANGED <<plan, db, lastId, current, ui, edits, incidents>>

\* executeUpdate: the reservation, or the cancellation of the own scope.
executeUpdate(r) ==
  /\ At(r, "absent") /\ \A q \in Runs : q < r => ~ At(q, "absent")
  /\ \E by \in {"user", "worker"} :
       run' = [run EXCEPT ![r].pc = "reload", ![r].by = by, ![r].refused = (updating = "reserved")]
  /\ updating' = "reserved"
  /\ UNCHANGED <<plan, db, lastId, current, ui, edits, incidents>>

\* The worker is stopped in an update of this group: reconfigureUpdater calls
\* cancelUniqueWork whenever a subscription is added, changed or removed.
Stop(r) ==
  /\ run[r].by = "worker" /\ run[r].pc \notin {"absent", "ended"} /\ ~ Cancelled(r)
  /\ run' = [run EXCEPT ![r].stopped = TRUE]
  /\ Note("stopped", TRUE)
  /\ UNCHANGED <<updating, plan, db, lastId, current, ui, edits>>

\* postReload is a cancellation point if a listener suspends (the group list
\* is on the screen), outside the try block; after it the interface is
\* captured, and a user's update may have to be confirmed.
PostReload(r) ==
  /\ At(r, "reload")
  /\ \/ Cancelled(r) /\ ui = "alive" /\ End(r)
     \/ \E pc \in {"confirm", "download"} :
          /\ pc = "confirm" => ui = "alive" /\ run[r].by = "user"
          /\ run' = [run EXCEPT ![r].pc = pc, ![r].ui = ui]
  /\ UNCHANGED <<updating, plan, db, lastId, current, ui, edits, incidents>>

\* The dialog, which suspends without being a cancellation point.
Confirmed(r) ==
  /\ At(r, "confirm") /\ Goto(r, "download")
  /\ UNCHANGED <<updating, plan, db, lastId, current, ui, edits, incidents>>

\* Without interface, or declined: finishUpdate, reserved by this run or not.
Declined(r) ==
  /\ At(r, "confirm") \/ (At(r, "reload") /\ run[r].by = "user" /\ ui = "gone")
  /\ updating' = "free" /\ End(r)
  /\ Note("declined", run[r].refused)
  /\ UNCHANGED <<plan, db, lastId, current, ui, edits>>

\* Downloading and parsing: no agent of the chain of user agents may succeed.
\* The join of forceResolve's lookups throws in a scope that is cancelled.
DownloadFails(r) ==
  /\ At(r, "download") /\ Goto(r, "catch")
  /\ UNCHANGED <<updating, plan, db, lastId, current, ui, edits, incidents>>

\* A list is downloaded, its names made unique and, if the subscription says
\* so, addresses resolved and duplicates dropped; the rows of the group are
\* then read and compared.
Download(r) ==
  /\ At(r, "download")
  /\ \E raw \in Lists, deduplication \in BOOLEAN :
     \E found \in IF Cancelled(r) THEN {NotFound(raw)} ELSE Lookups(raw) :
       LET list == Prepared(raw, found, deduplication)
       IN  /\ plan' = [plan EXCEPT ![r] = Plan(db, NameMap(list))]
           /\ run' = [run EXCEPT ![r].pc = "commit", ![r].list = list]
           /\ Note("merged", Merges(UniqueNames(raw), found))
  /\ UNCHANGED <<updating, db, lastId, current, ui, edits>>

\* withTransaction, a cancellation point at its beginning and at its end.
Transaction(r) ==
  /\ At(r, "commit")
  /\ IF Cancelled(r)
     THEN Leave(r, "catch") /\ UNCHANGED <<db, lastId, current>>
     ELSE /\ db' = Commit(db, plan[r], lastId)
          /\ lastId' = lastId + Cardinality(plan[r].add)
          /\ current' = run[r].list
          /\ Leave(r, "committed")
  /\ UNCHANGED <<updating, ui, edits, incidents>>

\* finishUpdate, unless the worker was stopped in the transaction.
Committed(r) ==
  /\ At(r, "committed")
  /\ IF Cancelled(r) THEN Goto(r, "catch") /\ UNCHANGED updating
                     ELSE Goto(r, "success") /\ updating' = "free"
  /\ UNCHANGED <<plan, db, lastId, current, ui, edits, incidents>>

\* onUpdateSuccess, inside the try: it may throw when its activity has ended,
\* and like the listeners of postUpdate when the worker has been stopped.
Success(r) ==
  /\ At(r, "success")
  /\ \/ End(r)
     \/ /\ \/ run[r].ui = "alive" /\ ui = "gone"
           \/ Cancelled(r) /\ "alive" \in {ui, run[r].ui}
        /\ Goto(r, "catch")
  /\ UNCHANGED <<updating, plan, db, lastId, current, ui, edits, incidents>>


\* The catch block: onUpdateFailure is a cancellation point, so that with an
\* interface a refused update does not come to finishUpdate, and no more does
\* one whose worker was stopped, although it holds the group.
Catch(r) ==
  /\ At(r, "catch")
  /\ updating' = IF Cancelled(r) /\ run[r].ui = "alive" THEN updating ELSE "free"
  /\ End(r)
  /\ UNCHANGED <<plan, db, lastId, current, ui, edits, incidents>>

\* The user saves an override of a stored profile.
SaveOverride(e) ==
  /\ edits < MaxEdits /\ edits' = edits + 1
  /\ db' = (db \ {e}) \cup {[e EXCEPT !.custom = "mine"]}
  /\ Note("raced", \E r \in Runs : At(r, "commit"))
  /\ UNCHANGED <<updating, run, plan, lastId, current, ui>>

\* MainActivity.onDestroy and onCreate.
UiChanges ==
  /\ ui' = IF ui = "alive" THEN "gone" ELSE "alive"
  /\ Note("left", TRUE)
  /\ UNCHANGED <<updating, run, plan, db, lastId, current, edits>>

Step(r) ==
  \/ PostReload(r) \/ Confirmed(r) \/ Declined(r) \/ DownloadFails(r) \/ Download(r)
  \/ Transaction(r) \/ Committed(r) \/ Success(r) \/ Catch(r)

Next ==
  \/ \E r \in Runs : executeUpdate(r) \/ Stop(r) \/ Step(r)
  \/ \E e \in db : SaveOverride(e)
  \/ UiChanges

\* A coroutine goes on, the download has timeouts, and a dialog is answered.
Spec == Init /\ [][Next]_vars /\ \A r \in Runs : WF_vars(Step(r))

-----------------------------------------------------------------------------

\* Updates that were not refused and have not finished.
Active(r) ==
  run[r].pc \in {"reload", "confirm", "download", "commit", "committed"} /\ ~ run[r].refused

\* Nothing has happened that lets a refused update free the group under the
\* one that holds it.
Undisturbed == incidents \cap {"declined", "left"} = {}

\* A reserved group means that one update is at work, however the refused ones
\* run on and fail.  finishUpdate does not ask who reserved the group: a refused
\* update that is declined, or that finds no interface, is the exception.
Exclusive ==
  Undisturbed =>
    /\ \A q, r \in Runs : Active(q) /\ Active(r) => q = r
    /\ \A r \in Runs : Active(r) => updating = "reserved"

\* "if (existCount != proxies.size) Logs.e(...)" (RawUpdater.kt:258): after a
\* transaction the group holds each profile of the list once, and nothing else.
\* Where forceResolve gives two profiles without names one address, one of them
\* is lost and the counts differ: then the group still holds each name once.
ListStored ==
  Undisturbed =>
    /\ {e.name : e \in db} = Names(current) /\ Cardinality(db) = Cardinality(Names(current))
    /\ "merged" \notin incidents =>
         /\ Cardinality(db) = Len(current)
         /\ {<<e.name, e.body>> : e \in db} = {<<p.name, p.body>> : p \in ToSet(current)}

\* A profile that stays keeps its row, which the selection and the chains refer
\* to, and the override the user has saved ("更新订阅，保留自定义覆写设置",
\* RawUpdater.kt:203); an override saved after the rows were read is lost.
StoredIsKept ==
  [][Undisturbed' /\ "raced" \notin incidents' =>
       \A e \in db : e.name \in Names(current') =>
         \E f \in db' : f.id = e.id /\ f.name = e.name /\ f.custom \in {e.custom, "mine"}]_vars

=============================================================================
