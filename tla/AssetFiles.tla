----------------------------- MODULE AssetFiles -----------------------------
(***************************************************************************)
(* One geo database (geoip.db or geosite.db) on disk.  Every process of    *)
(* the app extracts it from the APK when it starts (extractAssetName: copy *)
(* the .xz, unpack it over the database, write the version file), and the  *)
(* user may replace it by a download (downloadGeoAsset, updateAsset:       *)
(* write a .tmp, rename it).  A file is a pair: what it holds, and who     *)
(* truncated it last; it is whole again when that writer has finished.     *)
(***************************************************************************)
EXTENDS Naturals

CONSTANTS Procs,     \* the processes of the app
          Main,      \* the one with the user interface, in which updates run
          Updates,   \* concurrent updates of this database
          MaxFaults  \* bound: processes killed and writes that fail

\* The manifest names one process beside the main one, :bg.
ASSUME AssetAssumption ==
  /\ Main \in Procs /\ \A p, q \in Procs \ {Main} : p = q
  /\ Procs \cap Updates = {} /\ "none" \notin Procs \cup Updates
  /\ MaxFaults \in Nat

VARIABLES pc,      \* extractAssetName in each process
          passes,  \* calls of extractAssets a process has begun
          failed,  \* processes whose present pass met an error of the disk
          bad,     \* processes whose .xz is torn or was truncated under them
          holders, \* processes that are reading the .xz which has the name
          upc,     \* each update
          dst, xz, tmp,  \* the database, its .xz and its .tmp
          version, \* the version file
          source,  \* UseOfficialAssets: is an older database replaced?
          faults,
          incidents \* history, for the properties: what has been done twice at
                    \* once, and whether a rename has failed unnoticed

fileVars == <<dst, xz, tmp, version>>
vars == <<pc, passes, failed, bad, holders, upc, dst, xz, tmp, version, source, faults,
          incidents>>

None == [has |-> "none", by |-> "none"]
Torn(w) == [has |-> "torn", by |-> w]
Whole(f, w) == IF f.by = w THEN [f EXCEPT !.has = "whole"] ELSE f
File == [has : {"none", "torn", "whole"}, by : Procs \cup Updates \cup {"none"}]

TypeOK ==
  /\ pc \in [Procs -> {"down", "decide", "copy", "copied", "unxz", "remove",
                       "stamp", "stamping", "done"}]
  /\ passes \in [Procs -> 0..2] 
  /\ failed \subseteq Procs /\ bad \subseteq Procs /\ holders \subseteq Procs
  /\ upc \in [Updates -> {"idle", "download", "saved", "replaced"}]
  /\ dst \in File /\ xz \in File /\ tmp \in File
  /\ version \in {"none", "empty", "older", "apk", "newer"}
  /\ (version = "apk" => dst.has # "none")
  /\ source \in {"official", "other"} /\ faults \in 0..MaxFaults
  /\ incidents \subseteq {"extractions", "updates", "mixed", "rename"}

\* A first start, or one after the APK was upgraded.
Init ==
  /\ pc = [p \in Procs |-> "down"] /\ passes = [p \in Procs |-> 0]
  /\ failed = {} /\ bad = {} /\ holders = {} /\ upc = [u \in Updates |-> "idle"]
  /\ xz = None /\ tmp = None /\ source \in {"official", "other"}
  /\ faults = 0 /\ incidents = {}
  /\ \/ dst = None /\ version = "none"
     \/ dst = [None EXCEPT !.has = "whole"] /\ version = "older"

Goto(p, l) == pc' = [pc EXCEPT ![p] = l]
Running(p) == pc[p] # "down"
Extracting(p) == pc[p] \notin {"down", "done"}
Updating(u) == upc[u] # "idle"

\* A write fails: the disk is full, or the directory cannot be written.
Fault == faults < MaxFaults /\ faults' = faults + 1

\* What p does next, with its write done or with an error, which extractAssets
\* only logs.
Succeeds(p, l) == Goto(p, l) /\ UNCHANGED <<failed, faults>>
Fails(p, l) == Fault /\ Goto(p, l) /\ failed' = failed \cup {p}

\* A writer of the kind `mine` begins: whom does it meet?
NoteOverlap(mine) ==
  LET met == {k \in {"extractions"} : \E q \in Procs : Extracting(q)}
               \cup {k \in {"updates"} : \E v \in Updates : Updating(v)}
  IN  incidents' = incidents \cup {IF k = mine THEN k ELSE "mixed" : k \in met}

-----------------------------------------------------------------------------
(* Extraction *)

\* InitCore calls extractAssets, in the bg process a second time later.
Enter(p) ==
  /\ \/ pc[p] = "down" /\ passes[p] = 0
     \/ pc[p] = "done" /\ passes[p] = 1 /\ p # Main
  /\ passes' = [passes EXCEPT ![p] = @ + 1] /\ Goto(p, "decide")
  /\ failed' = failed \ {p} /\ NoteOverlap("extractions")
  /\ UNCHANGED <<bad, holders, upc, fileVars, source, faults>>

\* Mutant: only a missing database is extracted.
DecideMissing(p) ==
  /\ pc[p] = "decide"
  /\ IF dst.has = "none" THEN Goto(p, "copy") ELSE Goto(p, "done")
  /\ UNCHANGED <<passes, failed, bad, holders, upc, fileVars, source, faults, incidents>>

\* doExtract: the database or, with the official source, its version is
\* missing, unreadable or older than that of the APK.
Decide(p) ==
  /\ pc[p] = "decide"
  /\ \/ /\ \/ dst.has = "none"
           \/ source = "official" /\ version \in {"none", "empty", "older"}
        /\ Goto(p, "copy")
     \/ /\ dst.has # "none" /\ (source = "official" => version \in {"apk", "newer"})
        /\ Goto(p, "done")
  /\ UNCHANGED <<passes, failed, bad, holders, upc, fileVars, source, faults, incidents>>

\* extractAsset creates the .xz, under the eyes of those who read it, or
\* cannot; extractXz returns that error before it would remove anything.
CopyBegin(p) ==
  /\ pc[p] = "copy"
  /\ \/ Succeeds(p, "copied") /\ xz' = Torn(p) /\ bad' = bad \cup holders
     \/ Fails(p, "done") /\ UNCHANGED <<xz, bad>>
  /\ UNCHANGED <<passes, holders, upc, dst, tmp, version, source, incidents>>

\* extractAsset has not written all of the .xz, and leaves it.
CopyFails(p) ==
  /\ pc[p] = "copied" /\ Fails(p, "done")
  /\ UNCHANGED <<passes, bad, holders, upc, fileVars, source, incidents>>

\* extractAsset is done; Unxz opens the .xz, reads its header and creates the
\* database anew.
Unxz(p) ==
  /\ pc[p] = "copied" /\ xz.has # "none" /\ Succeeds(p, "unxz")
  /\ dst' = Torn(p) /\ xz' = Whole(xz, p) /\ holders' = holders \cup {p}
  /\ bad' = IF xz'.has = "whole" THEN bad \ {p} ELSE bad \cup {p}
  /\ UNCHANGED <<passes, upc, tmp, version, source, incidents>>

\* Unxz returns before it touches the database: the .xz is gone, or another
\* process has truncated it under its header, or the database cannot be created.
UnxzRefused(p) ==
  /\ pc[p] = "copied" /\ xz' = Whole(xz, p)
  /\ \/ xz'.has # "whole" /\ Succeeds(p, "remove")
     \/ xz'.has # "none" /\ Fails(p, "remove")
  /\ UNCHANGED <<passes, bad, holders, upc, dst, tmp, version, source, incidents>>

\* extractXz removes the .xz that then has the name.
RemoveXz(p) ==
  /\ pc[p] = "remove" /\ Goto(p, "done") /\ xz' = None /\ holders' = {}
  /\ UNCHANGED <<passes, failed, bad, upc, dst, tmp, version, source, faults, incidents>>

\* Mutant: the error of Unxz is ignored.
UnxzEndUnchecked(p) ==
  /\ pc[p] = "unxz" /\ xz' = None /\ holders' = {} /\ bad' = bad \ {p}
  /\ Succeeds(p, "stamp") /\ dst' = (IF p \in bad THEN dst ELSE Whole(dst, p))
  /\ UNCHANGED <<passes, upc, tmp, version, source, incidents>>

\* Unxz returns: it has written the database; or what it read was not whole,
\* and it noticed; or a write failed.  The .xz is removed in each case.
UnxzEnd(p) ==
  /\ pc[p] = "unxz" /\ xz' = None /\ holders' = {} /\ bad' = bad \ {p}
  /\ \/ Succeeds(p, "stamp") /\ dst' = Whole(dst, p)
     \/ p \in bad /\ Succeeds(p, "done") /\ UNCHANGED dst
     \/ Fails(p, "done") /\ UNCHANGED dst
  /\ UNCHANGED <<passes, upc, tmp, version, source, incidents>>

\* The version file is created, and then written.
Stamp(p) ==
  /\ \/ pc[p] = "stamp" /\ Succeeds(p, "stamping") /\ version' = "empty"
     \/ pc[p] = "stamping" /\ Succeeds(p, "done") /\ version' = "apk"
     \/ pc[p] \in {"stamp", "stamping"} /\ Fails(p, "done") /\ UNCHANGED version
  /\ UNCHANGED <<passes, bad, holders, upc, dst, xz, tmp, source, incidents>>

\* A process is killed; what it was writing stays as it is.
Crash(p) ==
  /\ Running(p) /\ faults < MaxFaults /\ faults' = faults + 1
  /\ failed' = failed \ {p}
  /\ Goto(p, "down") /\ passes' = [passes EXCEPT ![p] = 0]
  /\ bad' = bad \ {p} /\ holders' = holders \ {p}
  /\ upc' = IF p = Main THEN [u \in Updates |-> "idle"] ELSE upc
  /\ UNCHANGED <<fileVars, source, incidents>>

\* A new APK brings a newer database; installing it kills every process.
Upgrade ==
  /\ \A p \in Procs : ~Running(p)
  /\ version \in {"apk", "newer"} /\ version' = "older"
  /\ UNCHANGED <<pc, passes, failed, bad, holders, upc, dst, xz, tmp, source, faults, incidents>>

-----------------------------------------------------------------------------
(* Update *)

Ugoto(u, l) == upc' = [upc EXCEPT ![u] = l]

\* Mutant: the download is written over the database.
DownloadInPlace(u) ==
  /\ pc[Main] = "done" /\ upc[u] = "idle" /\ Ugoto(u, "download")
  /\ dst' = Torn(u) /\ tmp' = tmp
  /\ UNCHANGED <<pc, passes, failed, bad, holders, xz, version, source, faults, incidents>>

\* The answer arrives and the .tmp is created.
Download(u) ==
  /\ pc[Main] = "done" /\ upc[u] = "idle" /\ Ugoto(u, "download")
  /\ tmp' = Torn(u) /\ dst' = dst
  /\ NoteOverlap("updates")
  /\ UNCHANGED <<pc, passes, failed, bad, holders, xz, version, source, faults>>

\* The body is written, to wherever that file has been renamed since.
Save(u) ==
  /\ upc[u] = "download" /\ Ugoto(u, "saved")
  /\ tmp' = Whole(tmp, u) /\ dst' = Whole(dst, u)
  /\ UNCHANGED <<pc, passes, failed, bad, holders, xz, version, source, faults, incidents>>

\* The download fails or is too small: downloadGeoAsset removes the .tmp,
\* updateAsset leaves it.
Fail(u) ==
  /\ upc[u] = "download" /\ Ugoto(u, "idle") /\ tmp' \in {tmp, None}
  /\ UNCHANGED <<pc, passes, failed, bad, holders, dst, xz, version, source, faults, incidents>>

\* The .tmp takes the place of the database, if there is one.
Replace(u) ==
  /\ upc[u] = "saved" /\ Ugoto(u, "replaced")
  /\ dst' = (IF tmp.has = "none" THEN dst ELSE tmp) /\ tmp' = None
  /\ UNCHANGED <<pc, passes, failed, bad, holders, xz, version, source, faults, incidents>>

\* The rename fails: an error to downloadGeoAsset, which removes the .tmp, and
\* nothing to updateAsset, which goes on to the version.
RenameFails(u) ==
  /\ upc[u] = "saved" /\ Fault
  /\ \/ Ugoto(u, "idle") /\ tmp' = None /\ UNCHANGED incidents
     \/ Ugoto(u, "replaced") /\ tmp' = tmp /\ incidents' = incidents \cup {"rename"}
  /\ UNCHANGED <<pc, passes, failed, bad, holders, dst, xz, version, source>>

\* updateAsset writes the tag of the release as version: a date after or
\* before that of the APK, or no number, which counts as older; or cannot write it.
Tagged(u) ==
  /\ upc[u] = "replaced" /\ Ugoto(u, "idle") /\ version' \in {version, "empty", "older", "newer"}
  /\ UNCHANGED <<pc, passes, failed, bad, holders, dst, xz, tmp, source, faults, incidents>>

-----------------------------------------------------------------------------
Next ==
  \/ Upgrade
  \/ \E p \in Procs : \/ Enter(p) \/ Decide(p) \/ CopyBegin(p) \/ CopyFails(p)
                      \/ Unxz(p) \/ UnxzRefused(p) \/ RemoveXz(p) \/ UnxzEnd(p)
                      \/ Stamp(p) \/ Crash(p)
  \/ \E u \in Updates : \/ Download(u) \/ Save(u) \/ Fail(u) \/ Replace(u)
                        \/ RenameFails(u) \/ Tagged(u)

Spec == Init /\ [][Next]_vars

-----------------------------------------------------------------------------
Alone(what) == what \notin incidents

\* "extract assets immediately before service runs" (nb4a.go:59): a process
\* whose pass met no error of the disk is through extractAssets only when the
\* database is whole, whatever was killed or failed in earlier passes: the version
\* file is written last, so an extraction that was cut short is done again.  Not so
\* once two writers, extractions or updates, have met or an update has taken a
\* failed rename for done, and not with another source, where only a missing
\* database is replaced.
StartedWhole ==
  [][source = "official" /\ incidents' = {} =>
       \A p \in Procs \ failed' :
         pc[p] # "done" /\ pc'[p] = "done" => dst'.has = "whole"]_vars

\* The version file vouches for the database, whatever is killed or fails while
\* one process unpacks at a time.  Also when two have unpacked it over each other,
\* as long as no process is killed and no write fails: once nobody is unpacking,
\* the version of the APK stands beside a whole database.
VersionVouches ==
  Alone("updates") /\ (Alone("extractions") \/ faults = 0)
    => (version = "apk" /\ (\A p \in Procs : pc[p] # "unxz") => dst.has = "whole")

\* "atomically replaces the local asset" (assets_update.go:20): no step of an
\* update leaves the database torn.  Two updates at once share one .tmp and are
\* the exception.
UpdateAtomic ==
  [][Alone("updates") /\ dst'.has = "torn" =>
       dst.has = "torn" \/ \E p \in Procs : Unxz(p)]_vars
=============================================================================
