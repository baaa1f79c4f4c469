-------------------------- MODULE SubscriptionDiff --------------------------
(***************************************************************************)
(* How RawUpdater.doUpdate turns a downloaded list of profiles into        *)
(* changes of the stored group: names are made unique, addresses resolved, *)
(* duplicates dropped, and the list is compared by name with the stored    *)
(* profiles.                                                               *)
(* A downloaded profile is [name, body]; a stored one has its row id, the  *)
(* user's custom override and its place (userOrder) as well.  The name is  *)
(* the one displayed, a base and the sequence of the numbers of its " (n)" *)
(* suffixes: a profile without a name of its own displays its address,     *)
(* which is host and port.                                                 *)
(***************************************************************************)
EXTENDS Naturals, Sequences, FiniteSets, SequencesExt

CONSTANT IPs    \* addresses that are not looked up, but may be found

ASSUME AddressAssumption == IPs \subseteq STRING

\* sni is "" where a TLS profile names no server.
Body == [address : STRING, sni : STRING, rest : STRING]
Name == [base : STRING, suffixes : Seq(Nat)]
Profile == [name : Name, body : Body]

\* The suffixes that k turns of the renaming loop leave: 0 to k - 1 are
\* removed, from the first n of them in left[n].
Without(suffixes, k) ==
  LET left[n \in 0..Len(suffixes)] ==
        IF n = 0 THEN <<>>
        ELSE IF suffixes[n] < k THEN left[n - 1] ELSE Append(left[n - 1], suffixes[n])
  IN  left

\* The name after k turns of the renaming loop: turn i removes every " (i-1)"
\* and appends " (i)".
Renamed(name, k) ==
  IF k = 0 THEN name
  ELSE [name EXCEPT !.suffixes = Append(Without(@, k)[Len(@)], k)]

Names(list) == {list[i].name : i \in DOMAIN list}

\* Mutant: a name that is taken is renamed once.
FreshNameOnce(name, list) ==
  IF name \in Names(list) THEN Renamed(name, 1) ELSE name

\* The loop leaves at the first name that the map does not contain.
FreshName(name, list) ==
  LET free == {k \in 0..(Len(list) + 1) : Renamed(name, k) \notin Names(list)}
  IN  Renamed(name, CHOOSE k \in free : \A i \in free : k <= i)

\* The loop over the downloaded profiles: proxiesMap after each of them.
AddUnique(done, p) == Append(done, [p EXCEPT !.name = FreshName(p.name, done)])

ProxiesMap(list) ==
  LET done[n \in 0..Len(list)] == IF n = 0 THEN <<>> ELSE AddUnique(done[n - 1], list[n])
  IN  done

UniqueNames(list) == ProxiesMap(list)[Len(list)]

AddressName(address) == [base |-> address, suffixes |-> <<>>]

\* rewriteAddress: what a lookup that finds ip makes of a profile.
Rewritten(p, ip) ==
  [name |-> IF p.name = AddressName(p.body.address) THEN AddressName(ip) ELSE p.name,
   body |-> [p.body EXCEPT !.address = ip, !.sni = IF @ = "" THEN p.body.address ELSE @]]

\* What the lookups of forceResolve may find: an address for each profile that
\* has none yet, where "none" stands for a lookup that fails and for the kinds
\* of profiles that are passed over.
Lookups(list) ==
  {found \in [DOMAIN list -> IPs \cup {"none"}] :
     \A i \in DOMAIN list : list[i].body.address \in IPs => found[i] = "none"}

\* forceResolve, once its lookups are joined.
Resolved(list, found) ==
  [i \in DOMAIN list |->
     IF found[i] = "none" THEN list[i] ELSE Rewritten(list[i], found[i])]

\* Two profiles that had different names now display one address.
Merges(list, found) ==
  \E i, k \in DOMAIN list :
    /\ list[i].name # list[k].name
    /\ Resolved(list, found)[i].name = Resolved(list, found)[k].name

\* With deduplication, the first of the profiles that differ in name only:
\* uniqueProxies after each of them.
AddDistinct(done, p) ==
  IF \E i \in DOMAIN done : done[i].body = p.body THEN done ELSE Append(done, p)

UniqueProxies(list) ==
  LET done[n \in 0..Len(list)] == IF n = 0 THEN <<>> ELSE AddDistinct(done[n - 1], list[n])
  IN  done

Deduplicated(list) == UniqueProxies(list)[Len(list)]

Prepared(list, found, deduplication) ==
  LET resolved == Resolved(UniqueNames(list), found)
  IN  IF deduplication THEN Deduplicated(resolved) ELSE resolved

\* associateBy: of the profiles with one name the last, in the place of the
\* first; the map after each of the profiles.
AddNamed(done, p) ==
  IF p.name \in Names(done)
  THEN [i \in DOMAIN done |-> IF done[i].name = p.name THEN p ELSE done[i]]
  ELSE Append(done, p)

NamedProxies(list) ==
  LET done[n \in 0..Len(list)] == IF n = 0 THEN <<>> ELSE AddNamed(done[n - 1], list[n])
  IN  done

NameMap(list) == NamedProxies(list)[Len(list)]

-----------------------------------------------------------------------------

\* toDelete: stored profiles whose name is not in the list.
ToDelete(db, list) == {e \in db : e.name \notin Names(list)}

\* toReplace: of the stored profiles with that name, the last one.
ToReplace(db, p) ==
  {e \in db : e.name = p.name /\ \A f \in db : f.name = p.name => f.order <= e.order}

\* Mutant: the override is replaced with the rest of the profile.
UpdatedPlain(e, p, i) ==
  [e EXCEPT !.body = p.body, !.custom = "none",
            !.order = IF e.body # p.body THEN e.order ELSE i]

\* A stored profile takes over the downloaded one and keeps its override; it
\* moves to its new place only if nothing else has changed.
Updated(e, p, i) ==
  [e EXCEPT !.body = p.body, !.order = IF e.body # p.body THEN e.order ELSE i]

\* What doUpdate decides on the profiles it has read and the name map: rows to
\* write (those that are left alone are not among them), to add and to delete.
Plan(db, list) ==
  [update |-> (UNION {{Updated(e, list[i], i) : e \in ToReplace(db, list[i])} : i \in DOMAIN list}) \ db,
   add    |-> {[name |-> list[i].name, body |-> list[i].body, order |-> i] :
                 i \in {i \in DOMAIN list : ToReplace(db, list[i]) = {}}},
   delete |-> ToDelete(db, list)]

\* The transaction: rows are found by id, so what has been deleted since is not
\* updated, and what has been edited since is overwritten.  New rows get the
\* ids that follow `last`.
Commit(db, plan, last) ==
  LET Id(p) == last + Cardinality({q \in plan.add : q.order <= p.order})
      Ids(rows) == {e.id : e \in rows}
  IN  {e \in db : e.id \notin Ids(plan.update) \cup Ids(plan.delete)}
        \cup {e \in plan.update : e.id \in Ids(db)}
        \cup {[id |-> Id(p), name |-> p.name, body |-> p.body,
               custom |-> "none", order |-> p.order] : p \in plan.add}
=============================================================================
