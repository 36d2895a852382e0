------------------------------ MODULE Registry ------------------------------
(***************************************************************************)
(* The artifact directories and those who share them: scans by the command *)
(* line (cli.py), which write one file after the other over the files of   *)
(* an earlier scan; the roster driver (docs/registry/scan_top50.py), which *)
(* runs scans with a timeout and skips repositories it takes for scanned;  *)
(* and the page generator (docs/registry/_gen_registry.py), which reads    *)
(* the files one by one while the others go on.                            *)
(*                                                                         *)
(* A file's content is the number of the scan it came from.  Files lie     *)
(* under docs/scans/<slug>; a roster has one repository per slug.          *)
(***************************************************************************)
EXTENDS Integers, Sequences, FiniteSets

CONSTANTS
  ROSTER,        \* the repositories, in the driver's order
  Hands,         \* scans that people start on a repository's directory
  MaxRuns,       \* bound: runs of the driver
  MaxHand,       \* bound: scans started by hand
  None,          \* no file, no scan, no row
  Broken         \* a file cut short or with the tail of another write

Repos     == {ROSTER[i] : i \in 1..Len(ROSTER)}
Scans     == Nat \ {0}
Contents  == Scans \cup {None, Broken}
Artifacts == {"ontology", "profile", "badge", "receipt", "meta"}

ASSUME RegistryAssumption ==
  /\ ROSTER \in Seq(Repos)
  /\ \A i, j \in 1..Len(ROSTER) : ROSTER[i] = ROSTER[j] => i = j
  /\ MaxRuns \in Nat /\ MaxHand \in Nat
  /\ None \notin Nat /\ Broken \notin Nat /\ None # Broken
  /\ None \notin Repos
  /\ "driver" \notin Hands

Procs == Hands \cup {"driver"}      \* "driver" is the driver's child process

VARIABLES
  disk,      \* the files of each repository's directory
  scan,      \* each scan process: [repo, num, left, open], or None
  started,   \* the scans started on each repository
  clone,     \* each repository's clone: "none", "cut" by a kill, or "kept"
  pc, repo,  \* what the driver does next, and for which repository
  todo,      \* the repositories of its run that it has left
  commit,    \* the scan made of the clone whose commit the driver noted
  reading,   \* the directory the generator reads, and what it read of it
  runs, handScans,
  byHand,    \* history: a scan by hand was started on this directory
  overlapped \* history: two scans ran on this directory at a time

files     == <<disk, scan, started, byHand, overlapped, handScans>>
driver    == <<clone, pc, repo, todo, commit, runs>>
vars      == <<files, driver, reading>>

Init ==
  /\ disk = [r \in Repos |-> [a \in Artifacts |-> None]]
  /\ scan = [p \in Procs |-> None]
  /\ started = [r \in Repos |-> 0]
  /\ clone = [r \in Repos |-> "none"]
  /\ pc = "idle" /\ repo = None /\ todo = {} /\ commit = None
  /\ reading = None
  /\ runs = 0 /\ handScans = 0
  /\ byHand = [r \in Repos |-> FALSE] /\ overlapped = [r \in Repos |-> FALSE]

-----------------------------------------------------------------------------
(* cli.py: one scan.                                                       *)

\* Seeded fault: the ontology, which the receipt seals, is written last.
WriteOrder_evidence_last(receipt) ==
  IF receipt THEN <<"profile", "badge", "receipt", "ontology">>
  ELSE <<"profile", "badge", "ontology">>

\* _write_artifacts; --no-receipt leaves receipt.json alone.
WriteOrder(receipt) ==
  IF receipt THEN <<"ontology", "profile", "badge", "receipt">>
  ELSE <<"ontology", "profile", "badge">>

Running(p) == scan[p] # None

\* main, up to the end of the pipeline, which writes nothing.
Start(p, r, receipt) ==
  /\ ~Running(p)
  /\ scan' = [scan EXCEPT ![p] = [repo |-> r, num  |-> started[r] + 1,
                                  left |-> WriteOrder(receipt), open |-> FALSE]]
  /\ started' = [started EXCEPT ![r] = @ + 1]
  /\ overlapped' = [overlapped EXCEPT
       ![r] = @ \/ \E q \in Procs : Running(q) /\ scan[q].repo = r]

StartByHand(p, r, receipt) ==
  /\ handScans < MaxHand
  /\ handScans' = handScans + 1
  /\ Start(p, r, receipt)
  /\ byHand' = [byHand EXCEPT ![r] = TRUE]
  /\ UNCHANGED <<disk, driver, reading>>

\* write_text truncates the file.
OpenFile(p) ==
  /\ Running(p) /\ scan[p].left # <<>> /\ ~scan[p].open
  /\ disk' = [disk EXCEPT ![scan[p].repo][Head(scan[p].left)] = Broken]
  /\ scan' = [scan EXCEPT ![p].open = TRUE]
  /\ UNCHANGED <<started, byHand, overlapped, handScans, driver, reading>>

\* The content is written from the start of the file: what another scan wrote
\* there since is overwritten, or sticks out behind it.
WriteFile(p) ==
  /\ Running(p) /\ scan[p].open
  /\ LET r == scan[p].repo
         a == Head(scan[p].left)
     IN  \E c \in IF disk[r][a] = Broken THEN {scan[p].num} ELSE {scan[p].num, Broken} :
           disk' = [disk EXCEPT ![r][a] = c]
  /\ scan' = [scan EXCEPT ![p].left = Tail(@), ![p].open = FALSE]
  /\ UNCHANGED <<started, byHand, overlapped, handScans, driver, reading>>

\* The scan ends: with its summary, with exit code 2 after a pipeline error or
\* an OSError, or killed.  What is open stays truncated.
End(p) ==
  /\ Running(p)
  /\ scan' = [scan EXCEPT ![p] = None]
  /\ UNCHANGED <<disk, started, byHand, overlapped, handScans, driver, reading>>

-----------------------------------------------------------------------------
(* scan_top50.py: the driver.  A git or a scan that never ends by itself   *)
(* is stopped by its timeout.  Nobody checks their exit codes.             *)

\* Seeded fault: a repository counts as scanned once its _meta.json exists.
_scanned_by_meta(r) == disk[r]["meta"] # None

_scanned(r) == disk[r]["profile"] # None

\* main: the repositories to scan, the first `limit` of them with --limit.
StartRun ==
  /\ pc = "idle" /\ runs < MaxRuns
  /\ runs' = runs + 1
  /\ LET left(n) == {i \in 1..n : ~_scanned(ROSTER[i])}
     IN  \E limit \in 1..Len(ROSTER) :
           todo' = {ROSTER[i] : i \in {n \in left(Len(ROSTER)) : Cardinality(left(n)) <= limit}}
  /\ pc' = "next"
  /\ UNCHANGED <<clone, repo, commit, files, reading>>

EndRun ==
  /\ pc = "next" /\ todo = {}
  /\ pc' = "idle"
  /\ UNCHANGED <<clone, repo, todo, commit, runs, files, reading>>

\* The loop takes the repositories in the order of the roster.
Take(r) ==
  /\ pc = "next"
  /\ \E i \in 1..Len(ROSTER) : ROSTER[i] = r /\ \A j \in 1..(i - 1) : ROSTER[j] \notin todo
  /\ r \in todo /\ todo' = todo \ {r}

NextRepo == pc' = "next" /\ repo' = None /\ commit' = None /\ UNCHANGED todo
StopRun  == pc' = "idle" /\ repo' = None /\ commit' = None /\ todo' = {}

\* scan_one: nothing for a repository scanned since; else git clones it anew.
Skip(r) ==
  /\ Take(r)
  /\ _scanned(r)
  /\ UNCHANGED <<clone, pc, repo, commit, runs, files, reading>>

\* Seeded fault: what an earlier run left of a clone is not removed.
StartClone_over_leftovers(r) ==
  /\ Take(r)
  /\ ~_scanned(r)
  /\ pc' = "cloning" /\ repo' = r
  /\ UNCHANGED <<clone, commit, runs, files, reading>>

StartClone(r) ==
  /\ Take(r)
  /\ ~_scanned(r)
  /\ clone' = [clone EXCEPT ![r] = "none"]
  /\ pc' = "cloning" /\ repo' = r
  /\ UNCHANGED <<commit, runs, files, reading>>

\* git ends: it removes what it made of a failed clone, and touches no
\* directory that was there before.
CloneEnds ==
  /\ pc = "cloning"
  /\ \E made \in {"none", "kept"} :
       clone' = [clone EXCEPT ![repo] = IF @ = "none" THEN made ELSE @]
  /\ IF clone'[repo] = "none" THEN NextRepo
     ELSE pc' = "cloned" /\ UNCHANGED <<repo, todo, commit>>
  /\ UNCHANGED <<runs, files, reading>>

\* Killed, git leaves what it has so far.
CutClone ==
  \E left \in {"none", "cut"} :
    clone' = [clone EXCEPT ![repo] = IF @ = "none" THEN left ELSE @]

CloneTimeout ==
  /\ pc = "cloning"
  /\ CutClone
  /\ NextRepo
  /\ UNCHANGED <<runs, files, reading>>

\* rev-parse, and the scan of the clone, with a receipt.
StartScan ==
  /\ pc = "cloned"
  /\ Start("driver", repo, TRUE)
  /\ commit' = started[repo] + 1
  /\ pc' = "scanning"
  /\ UNCHANGED <<disk, byHand, handScans, clone, repo, todo, runs, reading>>

Unclone == clone' = [clone EXCEPT ![repo] = "none"]

\* The scan ended.  A profile that does not parse ends the driver's run with a
\* traceback.
ScanEnds ==
  /\ pc = "scanning" /\ ~Running("driver")
  /\ Unclone
  /\ \/ disk[repo]["profile"] = None /\ NextRepo
     \/ disk[repo]["profile"] = Broken /\ StopRun
     \/ disk[repo]["profile"] \in Scans /\ pc' = "meta" /\ UNCHANGED <<repo, todo, commit>>
  /\ UNCHANGED <<runs, files, reading>>

\* Seeded fault: the child is left to itself.
KillScan_orphan == UNCHANGED scan

KillScan == scan' = [scan EXCEPT !["driver"] = None]

\* Seeded fault: the scan runs without a timeout.
ScanTimeout_never == FALSE /\ UNCHANGED vars

ScanTimeout ==
  /\ pc = "scanning" /\ Running("driver")
  /\ KillScan
  /\ Unclone
  /\ NextRepo
  /\ UNCHANGED <<disk, started, byHand, overlapped, handScans, runs, reading>>

WriteMeta ==
  /\ pc = "meta"
  /\ disk' = [disk EXCEPT ![repo]["meta"] = commit]
  /\ NextRepo
  /\ UNCHANGED <<scan, started, byHand, overlapped, handScans, clone, runs, reading>>

\* Someone stops the driver, which stops its child.  Only the scan is inside a
\* `finally` that removes the clone.
Interrupt ==
  /\ pc # "idle"
  /\ StopRun
  /\ KillScan
  /\ CASE pc = "cloning"  -> CutClone
       [] pc = "scanning" -> Unclone
       [] OTHER           -> UNCHANGED clone
  /\ \/ UNCHANGED disk
     \/ pc = "meta" /\ disk' = [disk EXCEPT ![repo]["meta"] = Broken]
  /\ UNCHANGED <<started, byHand, overlapped, handScans, runs, reading>>

-----------------------------------------------------------------------------
(* _gen_registry.py: collect.                                              *)

\* Seeded fault: the ontology is read before the profile.
ReadOrder_ontology_first == <<"ontology", "profile", "receipt", "meta">>

ReadOrder == <<"profile", "ontology", "receipt", "meta">>

\* _load: {} for a file that is missing or does not parse.
_load(r, a) == IF disk[r][a] = Broken THEN None ELSE disk[r][a]

OpenDirectory(r) ==
  /\ reading = None
  /\ reading' = [repo |-> r, got |-> <<>>]
  /\ UNCHANGED <<files, driver>>

AllRead == reading # None /\ Len(reading.got) = Len(ReadOrder)
Read(a) == reading.got[CHOOSE i \in 1..Len(ReadOrder) : ReadOrder[i] = a]

\* A directory without a profile or an ontology gets no row.
ReadNext ==
  /\ reading # None /\ ~AllRead
  /\ LET a       == ReadOrder[Len(reading.got) + 1]
         content == _load(reading.repo, a)
     IN  reading' = IF a \in {"profile", "ontology"} /\ content = None THEN None
                    ELSE [reading EXCEPT !.got = Append(@, content)]
  /\ UNCHANGED <<files, driver>>

\* rows.append
AppendRow ==
  /\ AllRead
  /\ reading' = None
  /\ UNCHANGED <<files, driver>>

DriverStep ==
  \/ EndRun \/ CloneTimeout \/ StartScan \/ ScanEnds \/ ScanTimeout \/ WriteMeta
  \/ \E r \in Repos : Skip(r) \/ StartClone(r)

Next ==
  \/ \E p \in Hands, r \in Repos, receipt \in BOOLEAN : StartByHand(p, r, receipt)
  \/ \E p \in Procs : OpenFile(p) \/ WriteFile(p) \/ End(p)
  \/ StartRun \/ CloneEnds \/ Interrupt \/ DriverStep
  \/ \E r \in Repos : OpenDirectory(r)
  \/ ReadNext \/ AppendRow

Spec == Init /\ [][Next]_vars

\* The driver is scheduled and its timeouts fire; no git and no scan has to end.
FairSpec == Spec /\ WF_vars(DriverStep)

-----------------------------------------------------------------------------
(* Properties.                                                             *)

\* Every variable keeps its type, and the driver works on a repository it has.
TypeOK ==
  /\ disk \in [Repos -> [Artifacts -> Contents]]
  /\ \A p \in Procs : Running(p) =>
       /\ scan[p].repo \in Repos /\ scan[p].num \in 1..started[scan[p].repo]
       /\ scan[p].open \in BOOLEAN /\ (scan[p].open => scan[p].left # <<>>)
  /\ started \in [Repos -> 0..(runs + handScans)]
  /\ clone \in [Repos -> {"none", "cut", "kept"}]
  /\ pc \in {"idle", "next", "cloning", "cloned", "scanning", "meta"}
  /\ todo \subseteq Repos
  /\ IF pc \in {"idle", "next"} THEN repo = None ELSE repo \in Repos
  /\ Running("driver") => pc = "scanning" /\ scan["driver"].repo = repo
  /\ commit \in Scans \cup {None}
  /\ reading # None => reading.repo \in Repos /\ Len(reading.got) <= 4
  /\ runs \in 0..MaxRuns /\ handScans \in 0..MaxHand
  /\ byHand \in [Repos -> BOOLEAN] /\ overlapped \in [Repos -> BOOLEAN]

\* A receipt that is of the same scan as the ontology beside it vouches for the
\* whole directory, whatever scans died on the way, as long as no two ran on it
\* at a time: profile and badge are of that scan too.
ReceiptSealsSet ==
  \A r \in Repos :
    ~overlapped[r] /\ disk[r]["receipt"] \in Scans
      /\ disk[r]["receipt"] = disk[r]["ontology"]
    => disk[r]["profile"] = disk[r]["receipt"] /\ disk[r]["badge"] = disk[r]["receipt"]

\* No row of the page mixes scans, though the driver writes and is killed while
\* the generator reads: what it lays out is what one scan found (the invariant
\* in the docstring of _gen_registry.py).
RowsAreOneScan ==
  AllRead /\ ~byHand[reading.repo] =>
    /\ Read("ontology") = Read("profile")
    /\ Read("receipt") \in {None, Read("profile")}
    /\ Read("meta") \in {None, Read("profile")}

\* "Every row below is a signed, reproducible scan" (_gen_registry.py:271): once
\* the driver is done, a row only it has scanned for has the receipt of the scan
\* it shows.
RowsAreSigned ==
  AllRead /\ pc = "idle" /\ ~byHand[reading.repo] => Read("receipt") = Read("profile")

\* No scan reads a clone that a timeout or an interrupt cut short, in this run
\* of the driver or in an earlier one.
ScansKeptClones == pc \in {"cloned", "scanning"} => clone[repo] = "kept"

\* Re-running the driver never replaces a published profile or the ontology it
\* was scored from, however the earlier run ended.
FinishedStays ==
  [][\A r \in Repos : ~byHand'[r] /\ disk[r]["profile"] \in Scans =>
       \A a \in {"profile", "ontology"} : disk'[r][a] = disk[r][a]]_vars

\* One repository whose clone or scan hangs does not stall the run
\* (scan_top50.py:6-7).
RunEnds == pc # "idle" ~> pc = "idle"
=============================================================================
