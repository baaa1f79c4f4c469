-------------------------- MODULE AssetFilesProofs --------------------------
(***************************************************************************)
(* A geo database on disk, for any number of updates and of faults (a     *)
(* process is killed, a write fails).  What the properties ask holds in    *)
(* four regimes, and each has its invariant: updates one at a time,        *)
(* extractions one at a time, no fault, and nobody meeting anybody.        *)
(***************************************************************************)
EXTENDS AssetFiles, TLAPS

Unpacking == {"copy", "copied", "unxz"}
Stamping == {"stamp", "stamping"}

USE DEF Succeeds, Fails, Fault

\* Who has truncated the database is at work on it, or it will not be stamped.
Owned == \E p \in Procs : pc[p] = "unxz" /\ dst.by = p

TypeInv ==
  /\ TypeOK
  /\ faults \in Nat /\ MaxFaults \in Nat
  /\ \A p \in Procs : pc[p] \in {"unxz"} \cup Stamping => dst.has # "none"

\* Updates that do not meet: the .tmp is that of the only one.
UpdateInv ==
  Alone("updates") =>
    /\ \A u, v \in Updates : Updating(u) /\ Updating(v) => u = v
    /\ \A u \in Updates : upc[u] = "download" => tmp.by = u
    /\ \A u \in Updates : upc[u] = "saved" => tmp.has = "whole"

\* Extractions that do not meet: the version of the APK is absent while one
\* is under way, and is put beside a whole database.
SoleInv ==
  Alone("updates") /\ Alone("extractions") =>
    /\ \A p, q \in Procs : Extracting(p) /\ Extracting(q) => p = q
    /\ \A p \in Procs : pc[p] \in Unpacking => version # "apk"
    /\ \A p \in Procs : pc[p] = "unxz" => dst.by = p \/ dst.has = "whole"
    /\ \A p \in Procs : pc[p] \in Stamping => dst.has = "whole"
    /\ version = "apk" => dst.has = "whole"

\* Two extractions that may meet, without a fault.  The one that reads a .xz
\* that is not whole, over a database it truncated last, has the other one
\* waiting to unpack; a torn database that nobody is unpacking has therefore
\* no version and nobody to write one.
PairInv ==
  Alone("updates") /\ faults = 0 =>
    /\ \A p, q \in Procs : version = "apk" /\ pc[p] \in Unpacking /\ pc[q] \in Unpacking => p = q
    /\ \A p \in Procs : dst = Torn(p) /\ pc[p] = "unxz" /\ p \in bad
                          => \E q \in Procs : pc[q] = "copied"
    /\ xz.has = "torn" => \E q \in Procs : xz.by = q /\ pc[q] = "copied"
    /\ \A p, q \in Procs : pc[p] = "unxz" /\ pc[q] = "copied" => xz.has # "none"
    /\ dst.has = "torn" /\ ~Owned =>
         version # "apk" /\ \A p \in Procs : pc[p] \notin {"unxz"} \cup Stamping

\* Nobody meets anybody, official source: neither the version of the APK nor
\* a newer one is there while the database is not whole.
StartInv ==
  source = "official" /\ incidents = {} =>
    /\ \A u \in Updates, p \in Procs : Updating(u) => ~Extracting(p)
    /\ \A p \in Procs : pc[p] \in Unpacking => version \notin {"apk", "newer"}
    /\ \A p \in Procs : pc[p] = "copied" => xz.has = "torn" /\ xz.by = p
    /\ \A p \in Procs : pc[p] = "unxz" => p \notin bad /\ dst.by = p
    /\ \A p \in Procs : pc[p] = "remove" => p \in failed
    /\ \A u \in Updates : upc[u] = "replaced" => dst.has = "whole"
    /\ version \in {"apk", "newer"} => dst.has = "whole"

AssetInv == TypeInv /\ UpdateInv /\ SoleInv /\ PairInv /\ StartInv

-----------------------------------------------------------------------------
\* The two files a writer makes.
LEMMA TornFile ==
  ASSUME NEW w \in Procs \cup Updates
  PROVE  Torn(w) \in File /\ Torn(w).has = "torn" /\ Torn(w).by = w
  BY DEF Torn, File

LEMMA NoFile == None \in File /\ None.has = "none"
  BY DEF None, File

LEMMA WholeFile ==
  ASSUME NEW f \in File, NEW w
  PROVE  /\ Whole(f, w) \in File /\ Whole(f, w).by = f.by
         /\ Whole(f, w).has = IF f.by = w THEN "whole" ELSE f.has
  BY DEF Whole, File

\* Whom a writer that begins has not met, by what it notes.
LEMMA EnterAlone ==
  ASSUME NEW p \in Procs, Enter(p)
  PROVE  /\ incidents \subseteq incidents'
         /\ Alone("extractions")' => \A q \in Procs : ~Extracting(q)
         /\ incidents' = {} => \A u \in Updates : ~Updating(u)
  BY DEF Enter, NoteOverlap, Alone

LEMMA DownloadAlone ==
  ASSUME NEW u \in Updates, Download(u)
  PROVE  /\ incidents \subseteq incidents'
         /\ Alone("updates")' => \A v \in Updates : ~Updating(v)
         /\ incidents' = {} => \A q \in Procs : ~Extracting(q)
  BY DEF Download, NoteOverlap, Alone

\* The history only grows.
LEMMA HistoryGrows ==
  ASSUME TypeInv, [Next]_vars
  PROVE  incidents \subseteq incidents' /\ faults' \in Nat /\ (faults' = 0 => faults = 0)
         /\ (faults \in 0..MaxFaults => faults' \in 0..MaxFaults)
<1> USE DEF TypeInv
<1> DEFINE grown == incidents \subseteq incidents' /\ faults' \in Nat /\ (faults' = 0 => faults = 0)
                    /\ (faults \in 0..MaxFaults => faults' \in 0..MaxFaults)
<1>1. ASSUME NEW p \in Procs, Enter(p) PROVE grown
  BY <1>1, EnterAlone DEF Enter
<1>2. ASSUME NEW p \in Procs, 
             \/ Decide(p) \/ CopyBegin(p) \/ CopyFails(p) \/ Unxz(p) \/ UnxzRefused(p)
             \/ RemoveXz(p) \/ UnxzEnd(p) \/ Stamp(p)
      PROVE  grown
  BY <1>2 DEF Decide, CopyBegin, CopyFails, Unxz, UnxzRefused, RemoveXz, UnxzEnd, Stamp
<1>3. ASSUME NEW p \in Procs, Crash(p) PROVE grown
  BY <1>3 DEF Crash
<1>4. ASSUME NEW u \in Updates, Download(u) PROVE grown
  BY <1>4, DownloadAlone DEF Download
<1>5. ASSUME NEW u \in Updates, Save(u) \/ Fail(u) \/ Replace(u) \/ RenameFails(u) \/ Tagged(u) PROVE grown
  BY <1>5 DEF Save, Fail, Replace, RenameFails, Tagged
<1>6. CASE Upgrade \/ UNCHANGED vars
  BY <1>6 DEF Upgrade, vars
<1> QED
  BY <1>1, <1>2, <1>3, <1>4, <1>5, <1>6 DEF Next

\* Every variable keeps its type, and no step takes the database away.
LEMMA TypeStep == ASSUME TypeInv, [Next]_vars PROVE TypeInv'
<1>0. TypeOK /\ dst \in File /\ xz \in File /\ tmp \in File /\ faults' \in Nat
      /\ faults' \in 0..MaxFaults
  BY HistoryGrows DEF TypeInv, TypeOK
<1>a. incidents' \subseteq {"extractions", "updates", "mixed", "rename"}
  <2>1. ASSUME NEW m \in {"extractions", "updates"}, NoteOverlap(m)
        PROVE  incidents' \subseteq {"extractions", "updates", "mixed", "rename"}
    BY <1>0, <2>1 DEF NoteOverlap, TypeOK
  <2>2. CASE incidents' \in {incidents, incidents \cup {"rename"}}
    BY <1>0, <2>2 DEF TypeOK
  <2> QED
    BY <2>1, <2>2 DEF Next, vars, Enter, Decide, CopyBegin, CopyFails, Unxz, UnxzRefused, RemoveXz, UnxzEnd, Stamp, Crash,
       Upgrade, Download, Save, Fail, Replace, RenameFails, Tagged
<1>1. ASSUME NEW p \in Procs, Enter(p) PROVE TypeInv'
  BY <1>0, <1>1, <1>a DEF Enter, Goto, fileVars, TypeInv, TypeOK, Stamping
<1>2. ASSUME NEW p \in Procs, Decide(p) PROVE TypeInv'
  BY <1>0, <1>2, <1>a DEF Decide, Goto, fileVars, TypeInv, TypeOK, Stamping
<1>3. ASSUME NEW p \in Procs, CopyBegin(p) PROVE TypeInv'
  <2>1. xz' \in File
    BY <1>0, <1>3, TornFile DEF CopyBegin
  <2> QED
    BY <1>0, <1>3, <1>a, <2>1 DEF CopyBegin, Goto, TypeInv, TypeOK, Stamping
<1>4. ASSUME NEW p \in Procs, Unxz(p) PROVE TypeInv'
  <2>1. xz' \in File /\ dst' \in File /\ (dst' = dst \/ dst'.has = "torn")
    BY <1>0, <1>4, TornFile, WholeFile DEF Unxz
  <2>2. pc' \in [Procs -> {"down", "decide", "copy", "copied", "unxz", "remove", "stamp", "stamping", "done"}]
    BY <1>0, <1>4 DEF Unxz, Goto, TypeOK
  <2>3. bad' \subseteq Procs /\ holders' \subseteq Procs
    BY <1>0, <1>4 DEF Unxz, TypeOK
  <2>4. \A q \in Procs : pc'[q] \in {"unxz"} \cup Stamping => dst'.has # "none"
    BY <1>0, <1>4, <2>1, TornFile DEF Unxz, Goto, TypeInv, TypeOK, Stamping
  <2> QED
    BY <1>0, <1>4, <1>a, <2>1, <2>2, <2>3, <2>4 DEF Unxz, TypeInv, TypeOK
<1>5. ASSUME NEW p \in Procs, UnxzEnd(p) PROVE TypeInv'
  <2>1. xz' \in File /\ dst' \in File /\ (dst.has # "none" => dst'.has # "none") /\ dst.has # "none"
    BY <1>0, <1>5, NoFile, WholeFile DEF UnxzEnd, TypeInv
  <2>2. pc' \in [Procs -> {"down", "decide", "copy", "copied", "unxz", "remove", "stamp", "stamping", "done"}]
    BY <1>0, <1>5 DEF UnxzEnd, Goto, TypeOK
  <2> QED
    BY <1>0, <1>5, <1>a, <2>1, <2>2 DEF UnxzEnd, TypeInv, TypeOK
<1>6. ASSUME NEW p \in Procs, Stamp(p) PROVE TypeInv'
  BY <1>0, <1>6, <1>a DEF Stamp, Goto, TypeInv, TypeOK, Stamping
<1>7. ASSUME NEW p \in Procs, Crash(p) PROVE TypeInv'
  BY <1>0, <1>7, <1>a DEF Crash, Goto, fileVars, TypeInv, TypeOK, Stamping
<1>8. CASE Upgrade
  BY <1>0, <1>8, <1>a DEF Upgrade, TypeInv, TypeOK, Stamping
<1>9. ASSUME NEW u \in Updates, Download(u) PROVE TypeInv'
  <2>1. tmp' \in File
    BY <1>9, TornFile DEF Download
  <2> QED
    BY <1>0, <1>9, <1>a, <2>1 DEF Download, Ugoto, TypeInv, TypeOK, Stamping
<1>10. ASSUME NEW u \in Updates, Save(u) PROVE TypeInv'
  <2>1. tmp' \in File /\ dst' \in File /\ (dst.has # "none" => dst'.has # "none")
    BY <1>0, <1>10, WholeFile DEF Save
  <2> QED
    BY <1>0, <1>10, <1>a, <2>1 DEF Save, Ugoto, TypeInv, TypeOK, Stamping
<1>11. ASSUME NEW u \in Updates, Fail(u) PROVE TypeInv'
  <2>1. tmp' \in File
    BY <1>0, <1>11, NoFile DEF Fail
  <2> QED
    BY <1>0, <1>11, <1>a, <2>1 DEF Fail, Ugoto, TypeInv, TypeOK, Stamping
<1>12. ASSUME NEW u \in Updates, Replace(u) PROVE TypeInv'
  <2>1. tmp' \in File /\ dst' \in File /\ (dst.has # "none" => dst'.has # "none")
    BY <1>0, <1>12, NoFile DEF Replace
  <2> QED
    BY <1>0, <1>12, <1>a, <2>1 DEF Replace, Ugoto, TypeInv, TypeOK, Stamping
<1>13. ASSUME NEW u \in Updates, Tagged(u) PROVE TypeInv'
  BY <1>0, <1>13, <1>a DEF Tagged, Ugoto, TypeInv, TypeOK, Stamping
<1>15. ASSUME NEW p \in Procs, CopyFails(p) PROVE TypeInv'
  BY <1>0, <1>15, <1>a DEF CopyFails, Goto, fileVars, TypeInv, TypeOK, Stamping
<1>16. ASSUME NEW p \in Procs, UnxzRefused(p) PROVE TypeInv'
  <2>1. xz' \in File
    BY <1>0, <1>16, WholeFile DEF UnxzRefused
  <2> QED
    BY <1>0, <1>16, <1>a, <2>1 DEF UnxzRefused, Goto, TypeInv, TypeOK, Stamping
<1>17. ASSUME NEW p \in Procs, RemoveXz(p) PROVE TypeInv'
  BY <1>0, <1>17, <1>a, NoFile DEF RemoveXz, Goto, TypeInv, TypeOK, Stamping
<1>18. ASSUME NEW u \in Updates, RenameFails(u) PROVE TypeInv'
  <2>1. tmp' \in File
    BY <1>0, <1>18, NoFile DEF RenameFails
  <2> QED
    BY <1>0, <1>18, <1>a, <2>1 DEF RenameFails, Ugoto, TypeInv, TypeOK, Stamping
<1>14. CASE UNCHANGED vars
  BY <1>0, <1>14, <1>a DEF vars, TypeInv, TypeOK, Stamping
<1> QED
  BY <1>1, <1>2, <1>3, <1>4, <1>5, <1>6, <1>7, <1>8, <1>9, <1>10, <1>11, <1>12, <1>13,
     <1>14, <1>15, <1>16, <1>17, <1>18 DEF Next

\* An update alone is the only one to touch the .tmp.
LEMMA UpdateStep == ASSUME TypeInv, UpdateInv, [Next]_vars PROVE UpdateInv'
<1> SUFFICES ASSUME Alone("updates")' PROVE UpdateInv'
  BY DEF UpdateInv
<1>0. /\ upc \in [Updates -> {"idle", "download", "saved", "replaced"}]
      /\ tmp \in File /\ Alone("updates")
  BY HistoryGrows DEF TypeInv, TypeOK, Alone
<1>a. /\ \A u, v \in Updates : Updating(u) /\ Updating(v) => u = v
      /\ \A u \in Updates : upc[u] = "download" => tmp.by = u
      /\ \A u \in Updates : upc[u] = "saved" => tmp.has = "whole"
  BY <1>0 DEF UpdateInv
<1>1. CASE upc' = upc /\ tmp' = tmp
  BY <1>1, <1>a DEF UpdateInv, Updating
<1>2. ASSUME NEW p \in Procs, Crash(p) PROVE UpdateInv'
  BY <1>0, <1>2, <1>a DEF Crash, fileVars, UpdateInv, Updating
<1>3. ASSUME NEW u \in Updates, Download(u) PROVE UpdateInv'
  <2>1. \A v \in Updates : ~Updating(v)
    BY <1>3, DownloadAlone
  <2>2. tmp'.by = u
    BY <1>3, TornFile DEF Download
  <2> QED
    BY <1>0, <1>3, <2>1, <2>2 DEF Download, Ugoto, UpdateInv, Updating
<1>4. ASSUME NEW u \in Updates, Save(u) PROVE UpdateInv'
  <2>1. tmp'.has = "whole"
    BY <1>0, <1>4, <1>a, WholeFile DEF Save
  <2> QED
    BY <1>0, <1>4, <1>a, <2>1 DEF Save, Ugoto, UpdateInv, Updating
<1>5. ASSUME NEW u \in Updates, Fail(u) \/ Replace(u) \/ RenameFails(u) \/ Tagged(u) PROVE UpdateInv'
  BY <1>0, <1>5, <1>a DEF Fail, Replace, RenameFails, Tagged, Ugoto, UpdateInv, Updating
<1> QED
  BY <1>1, <1>2, <1>3, <1>4, <1>5 DEF Next, vars, fileVars, Enter, Decide, CopyBegin, CopyFails, UnxzRefused, RemoveXz, Unxz,
     UnxzEnd, Stamp, Upgrade

\* All that an extraction can see of an update alone: the database is left
\* or replaced by a whole one, and the version is never that of the APK.
LEMMA UpdateEffect ==
  ASSUME TypeInv, UpdateInv, Alone("updates"), NEW u \in Updates,
         Download(u) \/ Save(u) \/ Fail(u) \/ Replace(u) \/ RenameFails(u) \/ Tagged(u)
  PROVE  /\ pc' = pc /\ bad' = bad /\ xz' = xz /\ source' = source
         /\ dst' = dst \/ dst'.has = "whole"
         /\ version' \in {version, "empty", "older", "newer"}
<1>0. dst \in File /\ tmp \in File
  BY DEF TypeInv, TypeOK
<1>1. CASE Download(u) \/ Fail(u) \/ Tagged(u)
  BY <1>1 DEF Download, Fail, Tagged
<1>2. CASE Save(u)
  BY <1>0, <1>2 DEF Save, Whole, File
<1>3. CASE Replace(u)
  <2>1. tmp.has = "whole"
    BY <1>3 DEF Replace, UpdateInv
  <2> QED
    BY <1>3, <2>1 DEF Replace
<1>4. CASE RenameFails(u)
  BY <1>4 DEF RenameFails
<1> QED
  BY <1>1, <1>2, <1>3, <1>4

\* One extraction at a time, whatever is killed.
LEMMA SoleStep == ASSUME TypeInv, UpdateInv, SoleInv, [Next]_vars PROVE SoleInv'
<1> SUFFICES ASSUME Alone("updates")', Alone("extractions")' PROVE SoleInv'
  BY DEF SoleInv
<1>0. /\ pc \in [Procs -> {"down", "decide", "copy", "copied", "unxz", "remove", "stamp", "stamping", "done"}]
      /\ dst \in File /\ Alone("updates") /\ Alone("extractions")
      /\ (version = "apk" => dst.has # "none")
  BY HistoryGrows DEF TypeInv, TypeOK, Alone
<1>a. /\ \A p, q \in Procs : Extracting(p) /\ Extracting(q) => p = q
      /\ \A p \in Procs : pc[p] \in Unpacking => version # "apk"
      /\ \A p \in Procs : pc[p] = "unxz" => dst.by = p \/ dst.has = "whole"
      /\ \A p \in Procs : pc[p] \in Stamping => dst.has = "whole"
      /\ version = "apk" => dst.has = "whole"
  BY <1>0 DEF SoleInv
<1> USE DEF Extracting, Unpacking, Stamping
<1>1. ASSUME NEW p \in Procs, Enter(p) PROVE SoleInv'
  <2>1. \A q \in Procs : pc[q] \in {"down", "done"}
    BY <1>1, EnterAlone
  <2> QED
    BY <1>0, <1>1, <1>a, <2>1 DEF Enter, Goto, fileVars, SoleInv
<1>2. ASSUME NEW p \in Procs, Decide(p) PROVE SoleInv'
  BY <1>0, <1>2, <1>a DEF Decide, Goto, fileVars, SoleInv
<1>3. ASSUME NEW p \in Procs, CopyBegin(p) PROVE SoleInv'
  BY <1>0, <1>3, <1>a DEF CopyBegin, Goto, SoleInv
<1>4. ASSUME NEW p \in Procs, Unxz(p) PROVE SoleInv'
  <2>1. CASE pc'[p] = "done"
    BY <1>0, <1>4, <1>a, <2>1 DEF Unxz, Goto, SoleInv
  <2>2. CASE dst' = Torn(p) /\ Goto(p, "unxz")
    <3>1. dst'.by = p /\ version' = version /\ version # "apk"
      BY <1>4, <1>a, <2>2, TornFile DEF Unxz
    <3>2. \A q \in Procs \ {p} : ~Extracting(q)
      BY <1>4, <1>a DEF Unxz
    <3> QED
      BY <1>0, <2>2, <3>1, <3>2 DEF Goto, SoleInv
  <2> QED
    BY <1>0, <1>4, <2>1, <2>2 DEF Unxz, Goto
<1>5. ASSUME NEW p \in Procs, UnxzEnd(p) PROVE SoleInv'
  <2>1. /\ version' = version /\ version # "apk" /\ (\A q \in Procs \ {p} : ~Extracting(q))
    BY <1>5, <1>a DEF UnxzEnd
  <2>2. CASE Goto(p, "stamp") /\ dst' = Whole(dst, p)
    <3>1. dst'.has = "whole"
      BY <1>0, <1>5, <1>a, <2>2, WholeFile DEF UnxzEnd
    <3> QED
      BY <1>0, <2>1, <2>2, <3>1 DEF Goto, SoleInv
  <2>3. CASE Goto(p, "done")
    BY <1>0, <2>1, <2>3 DEF Goto, SoleInv
  <2> QED
    BY <1>5, <2>2, <2>3 DEF UnxzEnd
<1>6. ASSUME NEW p \in Procs, Stamp(p) PROVE SoleInv'
  <2>1. dst.has = "whole" /\ dst' = dst /\ (\A q \in Procs \ {p} : ~Extracting(q))
    BY <1>6, <1>a DEF Stamp
  <2> QED
    BY <1>0, <1>6, <2>1 DEF Stamp, Goto, SoleInv
<1>11. ASSUME NEW p \in Procs, CopyFails(p) \/ UnxzRefused(p) \/ RemoveXz(p) PROVE SoleInv'
  BY <1>0, <1>11, <1>a DEF CopyFails, UnxzRefused, RemoveXz, Goto, fileVars, SoleInv
<1>7. ASSUME NEW p \in Procs, Crash(p) PROVE SoleInv'
  BY <1>0, <1>7, <1>a DEF Crash, Goto, fileVars, SoleInv
<1>8. CASE Upgrade
  BY <1>8, <1>a DEF Upgrade, SoleInv
<1>9. ASSUME NEW u \in Updates,
             Download(u) \/ Save(u) \/ Fail(u) \/ Replace(u) \/ RenameFails(u) \/ Tagged(u)
      PROVE  SoleInv'
  BY <1>0, <1>9, <1>a, UpdateEffect DEF SoleInv
<1>10. CASE UNCHANGED vars
  BY <1>10, <1>a DEF vars, SoleInv
<1> QED
  BY <1>1, <1>2, <1>3, <1>4, <1>5, <1>6, <1>7, <1>8, <1>9, <1>10, <1>11 DEF Next

\* Two processes that unpack over each other, without a fault.
LEMMA PairStep == ASSUME TypeInv, UpdateInv, PairInv, [Next]_vars PROVE PairInv'
<1> SUFFICES ASSUME Alone("updates")', faults' = 0 PROVE PairInv'
  BY DEF PairInv
<1>0. /\ pc \in [Procs -> {"down", "decide", "copy", "copied", "unxz", "remove", "stamp", "stamping", "done"}]
      /\ dst \in File /\ xz \in File /\ Alone("updates") /\ faults = 0
      /\ (version = "apk" => dst.has # "none")
      /\ \A p \in Procs : Torn(p) \in File /\ Torn(p).has = "torn" /\ Torn(p).by = p
  BY HistoryGrows, TornFile DEF TypeInv, TypeOK, Alone
<1>a. /\ \A p, q \in Procs : version = "apk" /\ pc[p] \in Unpacking /\ pc[q] \in Unpacking => p = q
      /\ \A p \in Procs : dst = Torn(p) /\ pc[p] = "unxz" /\ p \in bad
                            => \E q \in Procs : pc[q] = "copied"
      /\ xz.has = "torn" => \E q \in Procs : xz.by = q /\ pc[q] = "copied"
      /\ \A p, q \in Procs : pc[p] = "unxz" /\ pc[q] = "copied" => xz.has # "none"
      /\ dst.has = "torn" /\ ~Owned =>
           version # "apk" /\ \A p \in Procs : pc[p] \notin {"unxz"} \cup Stamping
  BY <1>0 DEF PairInv
<1>b. \A p, q, r \in Procs : p = q \/ q = r \/ p = r
  BY AssetAssumption
<1> USE DEF Unpacking, Stamping
<1>1. ASSUME NEW p \in Procs, Enter(p) PROVE PairInv'
  BY <1>0, <1>1, <1>a DEF Enter, Goto, fileVars, PairInv, Owned
<1>2. ASSUME NEW p \in Procs, Decide(p) PROVE PairInv'
  BY <1>0, <1>2, <1>a DEF Decide, Goto, fileVars, PairInv, Owned
<1>3. ASSUME NEW p \in Procs, CopyBegin(p) PROVE PairInv'
  BY <1>0, <1>3, <1>a DEF CopyBegin, Goto, PairInv, Owned
<1>4. ASSUME NEW p \in Procs, Unxz(p) PROVE PairInv'
  <2>1. pc[p] = "copied" /\ version' = version
    BY <1>4 DEF Unxz
  <2>2. CASE xz.has = "none"
    <3>1. Goto(p, "done") /\ UNCHANGED <<bad, dst, xz>>
      BY <1>4, <2>2 DEF Unxz
    <3>2. \A r \in Procs : pc[r] # "unxz"
      BY <1>a, <2>1, <2>2
    <3> QED
      BY <1>0, <1>a, <2>1, <2>2, <3>1, <3>2 DEF Goto, PairInv, Owned
  <2>3. CASE xz.has # "none"
    <3>1. /\ Goto(p, "unxz") /\ dst' = Torn(p) /\ xz' = Whole(xz, p)
          /\ bad' = IF xz'.has = "whole" THEN bad \ {p} ELSE bad \cup {p}
      BY <1>4, <2>3 DEF Unxz
    <3>2. xz'.by = xz.by /\ xz'.has = (IF xz.by = p THEN "whole" ELSE xz.has)
      BY <1>0, <3>1, WholeFile
    <3>3. pc'[p] = "unxz" /\ dst'.by = p /\ \A q \in Procs \ {p} : pc'[q] = pc[q]
      BY <1>0, <3>1 DEF Goto
    <3>4. xz'.has = "torn" => \E q \in Procs : xz'.by = q /\ pc'[q] = "copied"
      BY <1>a, <3>2, <3>3
    <3>5. p \in bad' => xz'.has = "torn"
      BY <1>0, <2>3, <3>1, <3>2 DEF File
    <3>6. ASSUME NEW r \in Procs, dst' = Torn(r), pc'[r] = "unxz", r \in bad'
          PROVE  \E q \in Procs : pc'[q] = "copied"
      <4>1. Torn(r).by = r /\ dst'.by = p
        BY <3>3, TornFile
      <4> QED
        BY <3>4, <3>5, <3>6, <4>1
    <3>7. Owned'
      BY <3>3 DEF Owned
    <3>8. \A q, r \in Procs : version' = "apk" /\ pc'[q] \in Unpacking /\ pc'[r] \in Unpacking => q = r
      BY <1>a, <2>1, <3>3
    <3>9. xz'.has # "none"
      BY <2>3, <3>2
    <3> QED
      BY <3>4, <3>6, <3>7, <3>8, <3>9 DEF PairInv
  <2> QED
    BY <2>2, <2>3
<1>5. ASSUME NEW p \in Procs, UnxzEnd(p) PROVE PairInv'
  <2>1. pc[p] = "unxz" /\ version' = version /\ xz'.has = "none" /\ bad' = bad \ {p}
    BY <1>5, NoFile DEF UnxzEnd
  <2>2. pc'[p] \in {"stamp", "done"} /\ \A q \in Procs \ {p} : pc'[q] = pc[q]
    BY <1>0, <1>5 DEF UnxzEnd, Goto
  <2>3. \A q, r \in Procs : pc'[q] = "unxz" /\ pc'[r] = "copied" => FALSE
    BY <1>b, <2>1, <2>2
  <2>4. \A q, r \in Procs : version' = "apk" /\ pc'[q] \in Unpacking /\ pc'[r] \in Unpacking => q = r
    BY <1>a, <2>1, <2>2
  <2>5. CASE pc'[p] = "stamp" /\ dst' = Whole(dst, p)
    <3>1. dst'.by = dst.by /\ dst'.has = (IF dst.by = p THEN "whole" ELSE dst.has)
      BY <1>0, <2>5, WholeFile
    <3>2. dst'.has = "torn" => dst' = dst /\ Owned'
      BY <1>0, <1>a, <2>1, <2>2, <2>5, <3>1 DEF Owned, Whole
    <3>3. \A r \in Procs : dst' = Torn(r) /\ pc'[r] = "unxz" /\ r \in bad'
                            => \E q \in Procs : pc'[q] = "copied"
      BY <1>0, <1>a, <2>1, <2>2, <3>2
    <3> QED
      BY <2>1, <2>3, <2>4, <3>2, <3>3 DEF PairInv
  <2>6. CASE p \in bad /\ pc'[p] = "done" /\ dst' = dst
    <3>1. \A r \in Procs : dst' = Torn(r) /\ pc'[r] = "unxz" /\ r \in bad'
                            => \E q \in Procs : pc'[q] = "copied"
      BY <1>a, <2>1, <2>2, <2>6
    <3>2. ASSUME dst'.has = "torn", ~Owned'
          PROVE  version' # "apk" /\ \A r \in Procs : pc'[r] \notin {"unxz"} \cup Stamping
      <4>1. CASE dst.by = p
        <5>1. dst = Torn(p)
          BY <1>0, <2>6, <3>2, <4>1 DEF File, Torn
        <5>2. PICK q \in Procs : pc[q] = "copied"
          BY <1>a, <2>1, <2>6, <5>1
        <5>3. version # "apk"
          BY <1>a, <2>1, <5>2
        <5> QED
          BY <1>b, <2>1, <2>2, <2>6, <5>2, <5>3
      <4>2. CASE dst.by # p
        BY <1>a, <2>1, <2>2, <2>6, <3>2, <4>2 DEF Owned
      <4> QED
        BY <4>1, <4>2
    <3> QED
      BY <2>1, <2>3, <2>4, <3>1, <3>2 DEF PairInv
  <2> QED
    BY <1>0, <1>5, <2>5, <2>6 DEF UnxzEnd, Goto
<1>6. ASSUME NEW p \in Procs, Stamp(p) PROVE PairInv'
  BY <1>0, <1>6, <1>a, <1>b DEF Stamp, Goto, PairInv, Owned
<1>11. ASSUME NEW p \in Procs, CopyFails(p) PROVE PairInv'
  BY <1>0, <1>11 DEF CopyFails
<1>12. ASSUME NEW p \in Procs, UnxzRefused(p) PROVE PairInv'
  <2>1. /\ pc[p] = "copied" /\ Goto(p, "remove") /\ xz' = Whole(xz, p) /\ xz'.has # "whole"
        /\ UNCHANGED <<bad, dst, version>>
    BY <1>0, <1>12 DEF UnxzRefused
  <2>2. xz' = xz /\ xz.by # p
    BY <1>0, <2>1, WholeFile DEF Whole
  <2>3. pc'[p] = "remove" /\ \A q \in Procs \ {p} : pc'[q] = pc[q]
    BY <1>0, <2>1 DEF Goto
  <2>4. Owned' <=> Owned
    BY <2>1, <2>3 DEF Owned
  <2>5. xz'.has = "torn" => \E q \in Procs : xz'.by = q /\ pc'[q] = "copied"
    BY <1>a, <2>2, <2>3
  <2>6. ASSUME NEW r \in Procs, pc[r] = "unxz" PROVE \E q \in Procs : pc'[q] = "copied"
    <3>1. xz'.has = "torn"
      BY <1>0, <1>a, <2>1, <2>2, <2>6 DEF File
    <3> QED
      BY <2>5, <3>1
  <2>7. \A r \in Procs : pc'[r] = "unxz" => pc[r] = "unxz"
    BY <2>3
  <2>8. \A r \in Procs : dst' = Torn(r) /\ pc'[r] = "unxz" /\ r \in bad'
                         => \E q \in Procs : pc'[q] = "copied"
    BY <2>6, <2>7
  <2>9. \A q, r \in Procs : pc'[q] = "unxz" /\ pc'[r] = "copied" => xz'.has # "none"
    BY <1>a, <2>2, <2>3
  <2>10. \A q, r \in Procs : version' = "apk" /\ pc'[q] \in Unpacking /\ pc'[r] \in Unpacking => q = r
    BY <1>a, <2>1, <2>3
  <2>11. dst'.has = "torn" /\ ~Owned' =>
           version' # "apk" /\ \A r \in Procs : pc'[r] \notin {"unxz"} \cup Stamping
    BY <1>a, <2>1, <2>3, <2>4
  <2> QED
    BY <2>5, <2>8, <2>9, <2>10, <2>11 DEF PairInv
<1>13. ASSUME NEW p \in Procs, RemoveXz(p) PROVE PairInv'
  <2>1. pc[p] = "remove" /\ xz'.has = "none" /\ UNCHANGED <<bad, dst, version>>
    BY <1>13, NoFile DEF RemoveXz
  <2>2. pc'[p] = "done" /\ \A q \in Procs \ {p} : pc'[q] = pc[q]
    BY <1>0, <1>13 DEF RemoveXz, Goto
  <2>3. \A q, r \in Procs : ~(pc'[q] = "unxz" /\ pc'[r] = "copied")
    BY <1>b, <2>1, <2>2
  <2>4. Owned' <=> Owned
    BY <2>1, <2>2 DEF Owned
  <2> QED
    BY <1>a, <2>1, <2>2, <2>3, <2>4 DEF PairInv
<1>7. ASSUME NEW p \in Procs, Crash(p) PROVE PairInv'
  BY <1>0, <1>7 DEF Crash
<1>8. CASE Upgrade
  BY <1>8, <1>a DEF Upgrade, PairInv, Owned
<1>9. ASSUME NEW u \in Updates,
             Download(u) \/ Save(u) \/ Fail(u) \/ Replace(u) \/ RenameFails(u) \/ Tagged(u)
      PROVE  PairInv'
  BY <1>0, <1>9, <1>a, UpdateEffect DEF PairInv, Owned
<1>10. CASE UNCHANGED vars
  BY <1>10, <1>a DEF vars, PairInv, Owned
<1> QED
  BY <1>1, <1>2, <1>3, <1>4, <1>5, <1>6, <1>7, <1>8, <1>9, <1>10, <1>11, <1>12,
     <1>13 DEF Next

\* Nobody meets anybody: a process that was killed, or failed, leaves no version behind
\* that the next one would trust.
LEMMA StartStep ==
  ASSUME TypeInv, UpdateInv, SoleInv, StartInv, [Next]_vars
  PROVE  StartInv'
<1> SUFFICES ASSUME source' = "official", incidents' = {} PROVE StartInv'
  BY DEF StartInv
<1>0. /\ pc \in [Procs -> {"down", "decide", "copy", "copied", "unxz", "remove", "stamp", "stamping", "done"}]
      /\ upc \in [Updates -> {"idle", "download", "saved", "replaced"}]
      /\ dst \in File /\ xz \in File /\ incidents = {}
      /\ Alone("updates") /\ Alone("extractions")
  BY HistoryGrows DEF TypeInv, TypeOK, Alone
<1>s. source = "official"
  BY DEF Next, vars, Enter, Decide, CopyBegin, CopyFails, Unxz, UnxzRefused, RemoveXz, UnxzEnd, Stamp, Crash,
     Upgrade, Download, Save, Fail, Replace, RenameFails, Tagged
<1>a. /\ \A u \in Updates, p \in Procs : Updating(u) => ~Extracting(p)
      /\ \A p \in Procs : pc[p] \in Unpacking => version \notin {"apk", "newer"}
      /\ \A p \in Procs : pc[p] = "copied" => xz.has = "torn" /\ xz.by = p
      /\ \A p \in Procs : pc[p] = "unxz" => p \notin bad /\ dst.by = p
      /\ \A p \in Procs : pc[p] = "remove" => p \in failed
      /\ \A u \in Updates : upc[u] = "replaced" => dst.has = "whole"
      /\ version \in {"apk", "newer"} => dst.has = "whole"
  BY <1>0, <1>s DEF StartInv
<1>b. /\ \A p, q \in Procs : Extracting(p) /\ Extracting(q) => p = q
      /\ \A p \in Procs : pc[p] \in Stamping => dst.has = "whole"
  BY <1>0 DEF SoleInv
<1> USE DEF Extracting, Updating, Unpacking, Stamping
<1>1. ASSUME NEW p \in Procs, Enter(p) PROVE StartInv'
  <2>1. (\A u \in Updates : ~Updating(u)) /\ (\A q \in Procs : ~Extracting(q))
    <3>1. Alone("extractions")'
      BY DEF Alone
    <3> QED
      BY <1>1, <3>1, EnterAlone
  <2> QED
    BY <1>0, <1>1, <1>a, <2>1 DEF Enter, Goto, fileVars, StartInv
<1>2. ASSUME NEW p \in Procs, Decide(p) PROVE StartInv'
  BY <1>0, <1>s, <1>2, <1>a DEF Decide, Goto, fileVars, StartInv
<1>3. ASSUME NEW p \in Procs, CopyBegin(p) PROVE StartInv'
  <2>1. \A q \in Procs \ {p} : ~Extracting(q)
    BY <1>3, <1>b DEF CopyBegin
  <2>2. CASE Goto(p, "copied") /\ xz' = Torn(p)
    <3>1. xz'.has = "torn" /\ xz'.by = p
      BY <2>2, TornFile
    <3> QED
      BY <1>0, <1>3, <1>a, <2>1, <2>2, <3>1 DEF CopyBegin, Goto, StartInv
  <2>3. CASE Goto(p, "done")
    BY <1>0, <1>3, <1>a, <2>1, <2>3 DEF CopyBegin, Goto, StartInv
  <2> QED
    BY <1>3, <2>2, <2>3 DEF CopyBegin
<1>4. ASSUME NEW p \in Procs, Unxz(p) PROVE StartInv'
  <2>1. xz.has # "none" /\ xz.by = p /\ (\A q \in Procs \ {p} : ~Extracting(q))
        /\ (\A u \in Updates : ~Updating(u)) /\ version \notin {"apk", "newer"}
    BY <1>4, <1>a, <1>b DEF Unxz
  <2>2. xz' = Whole(xz, p) /\ xz'.has = "whole" /\ Goto(p, "unxz") /\ dst' = Torn(p) /\ dst'.by = p
    BY <1>0, <1>4, <2>1, WholeFile, TornFile DEF Unxz
  <2>3. p \notin bad' /\ upc' = upc /\ version' = version
    BY <1>4, <2>1, <2>2 DEF Unxz
  <2> QED
    BY <1>0, <2>1, <2>2, <2>3 DEF Goto, StartInv
<1>5. ASSUME NEW p \in Procs, UnxzEnd(p) PROVE StartInv'
  <2>1. /\ p \notin bad /\ dst.by = p /\ (\A q \in Procs \ {p} : ~Extracting(q))
        /\ (\A u \in Updates : ~Updating(u)) /\ version \notin {"apk", "newer"}
    BY <1>5, <1>a, <1>b DEF UnxzEnd
  <2>2. (Goto(p, "stamp") \/ Goto(p, "done")) /\ upc' = upc /\ version' = version
    BY <1>5, <2>1 DEF UnxzEnd
  <2> QED
    BY <1>0, <2>1, <2>2 DEF Goto, StartInv
<1>6. ASSUME NEW p \in Procs, Stamp(p) PROVE StartInv'
  <2>1. /\ dst.has = "whole" /\ dst' = dst /\ (\A q \in Procs \ {p} : ~Extracting(q))
        /\ (\A u \in Updates : ~Updating(u))
    BY <1>6, <1>a, <1>b DEF Stamp
  <2> QED
    BY <1>0, <1>6, <2>1 DEF Stamp, Goto, StartInv
<1>11. ASSUME NEW p \in Procs, CopyFails(p) \/ RemoveXz(p) PROVE StartInv'
  <2>1. \A q \in Procs \ {p} : ~Extracting(q)
    BY <1>11, <1>b DEF CopyFails, RemoveXz
  <2> QED
    BY <1>0, <1>11, <1>a, <2>1 DEF CopyFails, RemoveXz, Goto, fileVars, StartInv
<1>12. ASSUME NEW p \in Procs, UnxzRefused(p) PROVE StartInv'
  <2>1. \A q \in Procs \ {p} : ~Extracting(q)
    BY <1>12, <1>b DEF UnxzRefused
  <2>2. xz'.has = "whole"
    BY <1>0, <1>12, <1>a, WholeFile DEF UnxzRefused
  <2> QED
    BY <1>0, <1>12, <1>a, <2>1, <2>2 DEF UnxzRefused, Goto, StartInv
<1>7. ASSUME NEW p \in Procs, Crash(p) PROVE StartInv'
  BY <1>0, <1>7, <1>a DEF Crash, Goto, fileVars, StartInv
<1>8. CASE Upgrade
  BY <1>0, <1>8, <1>a DEF Upgrade, StartInv
<1>9. ASSUME NEW u \in Updates,
             Download(u) \/ Save(u) \/ Fail(u) \/ Replace(u) \/ RenameFails(u) \/ Tagged(u)
      PROVE  StartInv'
  <2>1. /\ pc' = pc /\ (dst' = dst \/ dst'.has = "whole")
        /\ version' \in {version, "empty", "older", "newer"}
    BY <1>0, <1>9, UpdateEffect
  <2>2. \A q \in Procs : ~Extracting(q)
    BY <1>9, <1>a, DownloadAlone DEF Save, Fail, Replace, RenameFails, Tagged
  <2>3. \A v \in Updates : upc'[v] = "replaced" => dst'.has = "whole"
    <3>1. CASE Replace(u)
      BY <1>0, <1>a, <2>1, <3>1 DEF Replace, Ugoto, UpdateInv
    <3>2. CASE RenameFails(u)
      <4>1. Ugoto(u, "idle") /\ dst' = dst
        BY <3>2 DEF RenameFails
      <4> QED
        BY <1>0, <1>a, <4>1 DEF Ugoto
    <3>3. CASE ~Replace(u) /\ ~RenameFails(u)
      BY <1>0, <1>9, <1>a, <2>1, <3>3 DEF Download, Save, Fail, Tagged, Ugoto
    <3> QED
      BY <3>1, <3>2, <3>3
  <2>4. version' \in {"apk", "newer"} => dst'.has = "whole"
    BY <1>0, <1>9, <1>a, <2>1 DEF Download, Save, Fail, Replace, RenameFails, Tagged
  <2> QED
    BY <2>1, <2>2, <2>3, <2>4 DEF StartInv
<1>10. CASE UNCHANGED vars
  BY <1>10, <1>a DEF vars, StartInv
<1> QED
  BY <1>1, <1>2, <1>3, <1>4, <1>5, <1>6, <1>7, <1>8, <1>9, <1>10, <1>11, <1>12 DEF Next

LEMMA AssetInvHolds == Spec => []AssetInv
<1>1. Init => AssetInv
  <2> SUFFICES ASSUME Init PROVE AssetInv
    OBVIOUS
  <2>1. dst \in File /\ xz \in File /\ tmp \in File /\ xz.has = "none"
        /\ dst.has \in {"none", "whole"} /\ (dst.has = "none" => version = "none")
    BY DEF Init, None, File
  <2>2. TypeInv
    BY <2>1, AssetAssumption DEF Init, TypeInv, TypeOK, Stamping
  <2>3. UpdateInv
    BY DEF Init, UpdateInv, Updating
  <2>4. SoleInv
    BY DEF Init, SoleInv, Extracting, Unpacking, Stamping
  <2>5. PairInv
    BY <2>1 DEF Init, PairInv, Unpacking, Stamping
  <2>6. StartInv
    BY DEF Init, StartInv, Updating, Unpacking
  <2> QED
    BY <2>2, <2>3, <2>4, <2>5, <2>6 DEF AssetInv
<1>2. AssetInv /\ [Next]_vars => AssetInv'
  BY TypeStep, UpdateStep, SoleStep, PairStep, StartStep DEF AssetInv
<1> QED
  BY <1>1, <1>2, PTL DEF Spec

-----------------------------------------------------------------------------
\* Every variable keeps its type, and the version of the APK never stands
\* beside a database that is missing.
THEOREM AssetTypeCorrect == Spec => []TypeOK
<1>1. AssetInv => TypeOK
  BY DEF AssetInv, TypeInv
<1> QED
  BY <1>1, AssetInvHolds, PTL

\* With the two processes of the app and any number of updates and faults,
\* the version of the APK stands beside a whole database whenever nobody is
\* unpacking: also after faults while extractions do not meet, and also when
\* they do and no process is killed and no write fails.
THEOREM VersionAlwaysVouches == Spec => []VersionVouches
<1>1. AssetInv => VersionVouches
  <2> SUFFICES ASSUME AssetInv, Alone("updates"), Alone("extractions") \/ faults = 0,
                      version = "apk", \A p \in Procs : pc[p] # "unxz"
               PROVE  dst.has = "whole"
    BY DEF VersionVouches
  <2>1. CASE Alone("extractions")
    BY <2>1 DEF AssetInv, SoleInv
  <2>2. CASE faults = 0
    <3>1. dst.has \in {"none", "torn", "whole"} /\ dst.has # "none"
      BY DEF AssetInv, TypeInv, TypeOK, File
    <3>2. dst.has # "torn"
      BY <2>2 DEF AssetInv, PairInv, Owned
    <3> QED
      BY <3>1, <3>2
  <2> QED
    BY <2>1, <2>2
<1> QED
  BY <1>1, AssetInvHolds, PTL

\* With the official source a process whose pass met no error is through
\* extractAssets only when the database is whole, however many were killed or failed
\* before it, unless two writers have met or a failed rename was ignored.
THEOREM AlwaysStartedWhole == Spec => StartedWhole
<1>1. AssetInv /\ [Next]_vars =>
        [source = "official" /\ incidents' = {} =>
           \A p \in Procs \ failed' :
             pc[p] # "done" /\ pc'[p] = "done" => dst'.has = "whole"]_vars
  <2> SUFFICES ASSUME AssetInv, Next, source = "official", incidents' = {},
                      NEW p \in Procs, p \notin failed', pc[p] # "done", pc'[p] = "done"
               PROVE  dst'.has = "whole"
    OBVIOUS
  <2>0. /\ pc \in [Procs -> {"down", "decide", "copy", "copied", "unxz", "remove", "stamp", "stamping", "done"}]
        /\ incidents = {} /\ Alone("updates") /\ Alone("extractions")
    BY HistoryGrows DEF AssetInv, TypeInv, TypeOK, Alone
  <2>1. Decide(p) \/ RemoveXz(p) \/ UnxzEnd(p) \/ Stamp(p)
    <3>1. ASSUME NEW q \in Procs,
                 \/ Enter(q) \/ Decide(q) \/ CopyBegin(q) \/ CopyFails(q) \/ Unxz(q)
                 \/ UnxzRefused(q) \/ RemoveXz(q) \/ UnxzEnd(q) \/ Stamp(q) \/ Crash(q)
          PROVE  Decide(p) \/ RemoveXz(p) \/ UnxzEnd(p) \/ Stamp(p)
      BY <2>0, <3>1 DEF Enter, Decide, CopyBegin, CopyFails, Unxz, UnxzRefused, RemoveXz, UnxzEnd, Stamp, Crash, Goto
    <3>2. ASSUME pc' = pc PROVE FALSE
      BY <3>2
    <3> QED
      BY <3>1, <3>2 DEF Next, Upgrade, Download, Save, Fail, Replace, RenameFails, Tagged
  <2>2. CASE Decide(p)
    <3>1. version \in {"apk", "newer"} /\ dst' = dst
      BY <2>0, <2>2 DEF Decide, Goto, fileVars
    <3> QED
      BY <2>0, <3>1 DEF AssetInv, StartInv
  <2>3. CASE RemoveXz(p)
    BY <2>0, <2>3 DEF RemoveXz, AssetInv, StartInv
  <2>4. CASE UnxzEnd(p)
    <3>1. p \notin bad
      BY <2>0, <2>4 DEF UnxzEnd, AssetInv, StartInv
    <3> QED
      BY <2>0, <2>4, <3>1 DEF UnxzEnd, Goto
  <2>5. CASE Stamp(p)
    BY <2>0, <2>5 DEF Stamp, AssetInv, SoleInv, Stamping
  <2> QED
    BY <2>1, <2>2, <2>3, <2>4, <2>5
<1> QED
  BY <1>1, AssetInvHolds, PTL DEF Spec, StartedWhole

\* No step of an update tears the database, unless two updates have met:
\* only an extraction that begins to unpack does.
THEOREM UpdateAlwaysAtomic == Spec => UpdateAtomic
<1>1. AssetInv /\ [Next]_vars =>
        [Alone("updates") /\ dst'.has = "torn" =>
           dst.has = "torn" \/ \E p \in Procs : Unxz(p)]_vars
  <2> SUFFICES ASSUME AssetInv, Next, Alone("updates"), dst'.has = "torn",
                      \A p \in Procs : ~Unxz(p)
               PROVE  dst.has = "torn"
    OBVIOUS
  <2>1. ASSUME NEW u \in Updates,
               Download(u) \/ Save(u) \/ Fail(u) \/ Replace(u) \/ RenameFails(u) \/ Tagged(u)
        PROVE  dst' = dst
    BY <2>1, UpdateEffect DEF AssetInv
  <2>2. ASSUME NEW p \in Procs, UnxzEnd(p) PROVE dst.has = "torn"
    BY <2>2, WholeFile DEF UnxzEnd, AssetInv, TypeInv, TypeOK
  <2> QED
    BY <2>1, <2>2 DEF Next, Enter, Decide, CopyBegin, CopyFails, UnxzRefused, RemoveXz, Stamp,
       Crash, Upgrade, fileVars
<1> QED
  BY <1>1, AssetInvHolds, PTL DEF Spec, UpdateAtomic
=============================================================================
