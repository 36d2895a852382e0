--------------------------- MODULE RegistryProofs ---------------------------
(***************************************************************************)
(* What holds of the artifact directories for every roster, any number of  *)
(* runs, scans and readers.                                                *)
(*                                                                         *)
(* Where only the driver scans, the profile is the file that commits: it   *)
(* is written once, after the ontology, and whoever finds it leaves both   *)
(* alone (FreshInv), so a reader that starts from it reads one scan        *)
(* (ReadInv).  Where scans do not overlap, the ontology is the first file  *)
(* a scan destroys and the receipt the last it makes (SealInv).            *)
(***************************************************************************)
EXTENDS Registry, TLAPS

\* What a scan has left to write.
AllLefts ==
  { <<"ontology", "profile", "badge", "receipt">>, <<"ontology", "profile", "badge">>,
    <<"profile", "badge", "receipt">>, <<"profile", "badge">>,
    <<"badge", "receipt">>, <<"badge">>, <<"receipt">>, <<>> }

ScanStates == [repo : Repos, num : Scans, left : AllLefts, open : BOOLEAN]

TypeInv ==
  /\ disk \in [Repos -> [Artifacts -> Contents]]
  /\ scan \in [Procs -> ScanStates \cup {None}]
  /\ \A p \in Procs : Running(p) /\ scan[p].open => scan[p].left # <<>>
  /\ started \in [Repos -> Nat]
  /\ byHand \in [Repos -> BOOLEAN] /\ overlapped \in [Repos -> BOOLEAN]
  /\ clone \in [Repos -> {"none", "cut", "kept"}]
  /\ pc \in {"idle", "next", "cloning", "cloned", "scanning", "meta"}
  /\ todo \subseteq Repos
  /\ IF pc \in {"idle", "next"} THEN repo = None ELSE repo \in Repos

\* The driver's child scans the repository the driver is at; all other scans
\* were started by hand.
ChildInv ==
  /\ \A p \in Hands : Running(p) => byHand[scan[p].repo]
  /\ Running("driver") =>
       pc = "scanning" /\ scan["driver"].repo = repo /\ scan["driver"].num = commit
  /\ pc \in {"scanning", "meta"} => commit \in Scans

CloneInv ==
  /\ pc = "cloning" => clone[repo] = "none"
  /\ pc \in {"cloned", "scanning"} => clone[repo] = "kept"

Ahead(s, a) == s.left # <<>> /\ Head(s.left) = a

\* A directory only the driver scans: nothing follows an unfinished profile, and
\* what goes with a finished one is of its scan.
Fresh(r) ==
  /\ disk[r]["profile"] \notin Scans =>
       disk[r]["receipt"] = None /\ disk[r]["meta"] = None
  /\ disk[r]["profile"] \in Scans =>
       /\ disk[r]["ontology"] = disk[r]["profile"]
       /\ disk[r]["receipt"] \in {None, Broken, disk[r]["profile"]}
       /\ disk[r]["meta"] \in {None, Broken, disk[r]["profile"]}
  /\ repo = r /\ pc \in {"cloning", "cloned"} => disk[r]["profile"] = None
  /\ repo = r /\ pc = "scanning" => disk[r]["profile"] \in {None, Broken, commit}
  /\ repo = r /\ pc = "meta" => disk[r]["profile"] = commit
  /\ Running("driver") /\ repo = r =>
       LET s == scan["driver"]
       IN  /\ s.open => disk[r][Head(s.left)] = Broken
           /\ Ahead(s, "ontology") => disk[r]["profile"] = None
           /\ Ahead(s, "profile") =>
                /\ disk[r]["ontology"] = s.num
                /\ disk[r]["profile"] = IF s.open THEN Broken ELSE None
           /\ ~Ahead(s, "ontology") /\ ~Ahead(s, "profile") => disk[r]["profile"] = s.num
FreshInv == \A r \in Repos : ~byHand[r] => Fresh(r)

\* What the generator has read of such a directory is of the profile's scan.
ReadInv ==
  reading # None =>
    /\ reading \in [repo : Repos, got : Seq(Contents)] /\ Len(reading.got) <= 4
    /\ ~byHand[reading.repo] =>
         LET g == reading.got
         IN  /\ Len(g) >= 1 => g[1] \in Scans /\ disk[reading.repo]["profile"] = g[1]
             /\ Len(g) >= 2 => g[2] = g[1]
             /\ Len(g) >= 3 => g[3] \in {None, g[1]}
             /\ Len(g) >= 4 => g[4] \in {None, g[1]}

Sealed == {"ontology", "profile", "badge", "receipt"}

\* A scan that runs alone on a directory is the latest one: before it begins
\* nothing is of it, then what it has written is, and the receipt is not yet.
Writing(r, s) ==
  /\ s.num = started[r]
  /\ s.open => disk[r][Head(s.left)] = Broken
  /\ Ahead(s, "ontology") => \A a \in Sealed : disk[r][a] # s.num
  /\ ~Ahead(s, "ontology") => disk[r]["ontology"] = s.num
  /\ ~Ahead(s, "ontology") /\ ~Ahead(s, "profile") => disk[r]["profile"] = s.num
  /\ Ahead(s, "receipt") \/ s.left = <<>> => disk[r]["badge"] = s.num
  /\ s.left # <<>> => disk[r]["receipt"] # s.num

Scanning(p, r) == Running(p) /\ scan[p].repo = r

SealOf(r) ==
  /\ \A a \in Sealed : disk[r][a] \in Scans => disk[r][a] <= started[r]
  /\ ~overlapped[r] =>
       /\ \A p, q \in Procs : Scanning(p, r) /\ Scanning(q, r) => p = q
       /\ \A p \in Procs : Scanning(p, r) => Writing(r, scan[p])
       /\ disk[r]["receipt"] \in Scans /\ disk[r]["receipt"] = disk[r]["ontology"] =>
            /\ disk[r]["profile"] = disk[r]["receipt"]
            /\ disk[r]["badge"] = disk[r]["receipt"]

NumInv  == \A p \in Procs : Running(p) => scan[p].num <= started[scan[p].repo]
SealInv == NumInv /\ \A r \in Repos : SealOf(r)

IInv == TypeInv /\ ChildInv /\ CloneInv /\ FreshInv /\ ReadInv /\ SealInv

-----------------------------------------------------------------------------
(* Steps of a scan.                                                        *)

\* A scan begins with the ontology.
LEMMA OrderTyped ==
  ASSUME NEW receipt \in BOOLEAN
  PROVE  /\ WriteOrder(receipt) \in AllLefts /\ WriteOrder(receipt) # <<>>
         /\ Head(WriteOrder(receipt)) = "ontology"
<1>1. CASE receipt
  <2>1. WriteOrder(receipt) = <<"ontology", "profile", "badge", "receipt">>
    BY <1>1 DEF WriteOrder
  <2>. QED BY <2>1 DEF AllLefts
<1>2. CASE ~receipt
  <2>1. WriteOrder(receipt) = <<"ontology", "profile", "badge">>
    BY <1>2 DEF WriteOrder
  <2>. QED BY <2>1 DEF AllLefts
<1>. QED BY <1>1, <1>2

\* What is written after which file.
LEMMA LeftFacts ==
  ASSUME NEW l \in AllLefts, l # <<>>
  PROVE  /\ Head(l) \in Sealed /\ Tail(l) \in AllLefts
         /\ Head(l) = "ontology" => Tail(l) # <<>> /\ Head(Tail(l)) = "profile"
         /\ Head(l) = "profile" => Tail(l) # <<>> /\ Head(Tail(l)) = "badge"
         /\ Head(l) = "badge" => Tail(l) = <<>> \/ Head(Tail(l)) = "receipt"
         /\ Head(l) = "receipt" => Tail(l) = <<>>
<1>1. CASE l = <<"ontology", "profile", "badge", "receipt">>
  BY <1>1 DEF AllLefts, Sealed
<1>2. CASE l = <<"ontology", "profile", "badge">>
  BY <1>2 DEF AllLefts, Sealed
<1>3. CASE l = <<"profile", "badge", "receipt">>
  BY <1>3 DEF AllLefts, Sealed
<1>4. CASE l = <<"profile", "badge">>
  BY <1>4 DEF AllLefts, Sealed
<1>5. CASE l = <<"badge", "receipt">>
  BY <1>5 DEF AllLefts, Sealed
<1>6. CASE l = <<"badge">>
  BY <1>6 DEF AllLefts, Sealed
<1>7. CASE l = <<"receipt">>
  BY <1>7 DEF AllLefts, Sealed
<1>. QED BY <1>1, <1>2, <1>3, <1>4, <1>5, <1>6, <1>7 DEF AllLefts

\* What a write does to the disk and to the scans.
LEMMA OpenStep ==
  ASSUME TypeInv, NEW p \in Procs, OpenFile(p)
  PROVE  LET s == scan[p]
         IN  /\ s \in ScanStates /\ s.left # <<>> /\ ~s.open
             /\ Head(s.left) \in Sealed
             /\ scan'[p].repo = s.repo /\ scan'[p].num = s.num
             /\ scan'[p].left = s.left /\ scan'[p].open = TRUE
             /\ \A q \in Procs : q # p => scan'[q] = scan[q]
             /\ disk'[s.repo][Head(s.left)] = Broken
             /\ \A r \in Repos, a \in Artifacts :
                  r # s.repo \/ a # Head(s.left) => disk'[r][a] = disk[r][a]
             /\ scan' \in [Procs -> ScanStates \cup {None}]
             /\ disk' \in [Repos -> [Artifacts -> Contents]]
<1>. DEFINE s == scan[p]
<1>1. s \in ScanStates /\ s.left # <<>> /\ ~s.open
  BY DEF TypeInv, OpenFile, Running
<1>2. Head(s.left) \in Sealed /\ Head(s.left) \in Artifacts
  BY <1>1, LeftFacts DEF ScanStates, Sealed, Artifacts
<1>3. /\ disk' = [disk EXCEPT ![s.repo][Head(s.left)] = Broken]
      /\ scan' = [scan EXCEPT ![p].open = TRUE]
  BY DEF OpenFile
<1>4. scan'[p] = [s EXCEPT !.open = TRUE] /\ \A q \in Procs : q # p => scan'[q] = scan[q]
  BY <1>3 DEF TypeInv
<1>5. scan'[p] = [repo |-> s.repo, num |-> s.num, left |-> s.left, open |-> TRUE]
  BY <1>1, <1>4 DEF ScanStates
<1>6. scan'[p] \in ScanStates
  BY <1>1, <1>5 DEF ScanStates
<1>7. scan' \in [Procs -> ScanStates \cup {None}]
  BY <1>3, <1>4, <1>6 DEF TypeInv
<1>8. s.repo \in Repos
  BY <1>1 DEF ScanStates
<1>9. disk' \in [Repos -> [Artifacts -> Contents]]
  BY <1>2, <1>3, <1>8 DEF TypeInv, Contents
<1>10. disk'[s.repo][Head(s.left)] = Broken
  BY <1>2, <1>3, <1>8 DEF TypeInv
<1>11. \A r \in Repos, a \in Artifacts :
         r # s.repo \/ a # Head(s.left) => disk'[r][a] = disk[r][a]
  BY <1>2, <1>3, <1>8 DEF TypeInv
<1>. QED BY <1>1, <1>2, <1>4, <1>5, <1>7, <1>9, <1>10, <1>11

\* What the end of a write does.
LEMMA WriteStep ==
  ASSUME TypeInv, NEW p \in Procs, WriteFile(p)
  PROVE  LET s == scan[p]
         IN  /\ s \in ScanStates /\ s.left # <<>> /\ s.open
             /\ Head(s.left) \in Sealed
             /\ scan'[p].repo = s.repo /\ scan'[p].num = s.num
             /\ scan'[p].left = Tail(s.left) /\ scan'[p].open = FALSE
             /\ \A q \in Procs : q # p => scan'[q] = scan[q]
             /\ disk'[s.repo][Head(s.left)] \in {s.num, Broken}
             /\ disk[s.repo][Head(s.left)] = Broken => disk'[s.repo][Head(s.left)] = s.num
             /\ \A r \in Repos, a \in Artifacts :
                  r # s.repo \/ a # Head(s.left) => disk'[r][a] = disk[r][a]
             /\ scan' \in [Procs -> ScanStates \cup {None}]
             /\ disk' \in [Repos -> [Artifacts -> Contents]]
<1>. DEFINE s == scan[p]
            a0 == Head(s.left)
<1>1. s \in ScanStates /\ s.left # <<>> /\ s.open
  BY DEF TypeInv, WriteFile, Running
<1>2. a0 \in Sealed /\ a0 \in Artifacts /\ Tail(s.left) \in AllLefts
  BY <1>1, LeftFacts DEF ScanStates, Sealed, Artifacts
<1>3. PICK c \in IF disk[s.repo][a0] = Broken THEN {s.num} ELSE {s.num, Broken} :
        disk' = [disk EXCEPT ![s.repo][a0] = c]
  BY DEF WriteFile
<1>3a. scan' = [scan EXCEPT ![p].left = Tail(@), ![p].open = FALSE]
  BY DEF WriteFile
<1>4. scan'[p] = [[s EXCEPT !.left = Tail(@)] EXCEPT !.open = FALSE]
      /\ \A q \in Procs : q # p => scan'[q] = scan[q]
  BY <1>3a DEF TypeInv
<1>5. scan'[p] = [repo |-> s.repo, num |-> s.num, left |-> Tail(s.left), open |-> FALSE]
  BY <1>1, <1>4 DEF ScanStates
<1>6. scan'[p] \in ScanStates
  BY <1>1, <1>2, <1>5 DEF ScanStates
<1>7. scan' \in [Procs -> ScanStates \cup {None}]
  BY <1>3a, <1>4, <1>6 DEF TypeInv
<1>8. s.repo \in Repos /\ s.num \in Contents
  BY <1>1 DEF ScanStates, Contents
<1>9. disk' \in [Repos -> [Artifacts -> Contents]]
  BY <1>2, <1>3, <1>8 DEF TypeInv, Contents
<1>10. disk'[s.repo][a0] = c
  BY <1>2, <1>3, <1>8 DEF TypeInv
<1>11. \A r \in Repos, a \in Artifacts : r # s.repo \/ a # a0 => disk'[r][a] = disk[r][a]
  BY <1>2, <1>3, <1>8 DEF TypeInv
<1>12. c \in {s.num, Broken} /\ (disk[s.repo][a0] = Broken => c = s.num)
  OBVIOUS
<1>. QED BY <1>1, <1>2, <1>4, <1>5, <1>7, <1>9, <1>10, <1>11, <1>12

\* A scan starts in a directory, with a receipt or without.
Starts(p, r) == \E receipt \in BOOLEAN : Start(p, r, receipt)

\* A scan that starts.
LEMMA StartStep ==
  ASSUME TypeInv, NEW p \in Procs, NEW r \in Repos,
         Starts(p, r)
  PROVE  /\ ~Running(p)
         /\ scan'[p].repo = r /\ scan'[p].num = started[r] + 1
         /\ scan'[p].left # <<>> /\ Head(scan'[p].left) = "ontology"
         /\ scan'[p].open = FALSE
         /\ scan'[p] \in ScanStates
         /\ \A q \in Procs : q # p => scan'[q] = scan[q]
         /\ scan' \in [Procs -> ScanStates \cup {None}]
         /\ started' \in [Repos -> Nat] /\ started'[r] = started[r] + 1
         /\ \A q \in Repos : q # r => started'[q] = started[q] /\ overlapped'[q] = overlapped[q]
         /\ overlapped' \in [Repos -> BOOLEAN]
         /\ ~overlapped'[r] => ~overlapped[r] /\ \A q \in Procs : Running(q) => scan[q].repo # r
<1>. PICK receipt \in BOOLEAN : Start(p, r, receipt)
  BY DEF Starts
<1>1. started[r] + 1 \in Scans
  BY DEF TypeInv, Scans
<1>2. [repo |-> r, num |-> started[r] + 1, left |-> WriteOrder(receipt), open |-> FALSE]
        \in ScanStates
  BY <1>1, OrderTyped DEF ScanStates
<1>3. /\ ~Running(p)
      /\ scan' = [scan EXCEPT ![p] = [repo |-> r, num |-> started[r] + 1,
                                      left |-> WriteOrder(receipt), open |-> FALSE]]
      /\ started' = [started EXCEPT ![r] = @ + 1]
      /\ overlapped' = [overlapped EXCEPT
           ![r] = @ \/ \E q \in Procs : Running(q) /\ scan[q].repo = r]
  BY DEF Start
<1>4. /\ started' \in [Repos -> Nat] /\ started'[r] = started[r] + 1
      /\ \A q \in Repos : q # r => started'[q] = started[q]
  BY <1>3 DEF TypeInv
<1>5. /\ \A q \in Repos : q # r => overlapped'[q] = overlapped[q]
      /\ overlapped' \in [Repos -> BOOLEAN]
      /\ ~overlapped'[r] => ~overlapped[r] /\ \A q \in Procs : Running(q) => scan[q].repo # r
  <2>. DEFINE busy == \E q \in Procs : Running(q) /\ scan[q].repo = r
  <2>1. busy \in BOOLEAN
    OBVIOUS
  <2>2. overlapped' = [overlapped EXCEPT ![r] = @ \/ busy]
    BY <1>3
  <2>. HIDE DEF busy
  <2>3. /\ \A q \in Repos : q # r => overlapped'[q] = overlapped[q]
        /\ overlapped' \in [Repos -> BOOLEAN]
        /\ ~overlapped'[r] => ~overlapped[r] /\ ~busy
    BY <2>1, <2>2 DEF TypeInv
  <2>. QED BY <2>3 DEF busy
<1>6. /\ scan'[p] = [repo |-> r, num |-> started[r] + 1,
                     left |-> WriteOrder(receipt), open |-> FALSE]
      /\ \A q \in Procs : q # p => scan'[q] = scan[q]
      /\ scan' \in [Procs -> ScanStates \cup {None}]
  BY <1>2, <1>3 DEF TypeInv
<1>. QED BY <1>2, <1>3, <1>4, <1>5, <1>6, OrderTyped

-----------------------------------------------------------------------------
(* The invariant holds initially.                                          *)

\* The invariant holds of empty directories.
LEMMA InitInv == Init => IInv
<1>. SUFFICES ASSUME Init PROVE IInv
  OBVIOUS
<1>1. \A p \in Procs : ~Running(p)
  BY DEF Init, Running
<1>2. \A r \in Repos, a \in Artifacts : disk[r][a] = None
  BY DEF Init
<1>3. {"ontology", "profile", "badge", "receipt", "meta"} \subseteq Artifacts
  BY DEF Artifacts
<1>4. None \notin Scans
  BY RegistryAssumption DEF Scans
<1>5. TypeInv
  <2>1. \A r \in Repos : disk[r] \in [Artifacts -> Contents]
    BY DEF Init, Contents
  <2>. QED BY <1>1, <2>1 DEF Init, TypeInv, Contents
<1>6. ChildInv /\ CloneInv
  BY <1>1 DEF Init, ChildInv, CloneInv, Procs
<1>7. FreshInv
  BY <1>1, <1>2, <1>3, <1>4 DEF Init, FreshInv, Fresh, Procs
<1>8. ReadInv
  BY DEF Init, ReadInv
<1>9. SealInv
  BY <1>1, <1>2, <1>3, <1>4 DEF Init, SealInv, NumInv, SealOf, Scanning, Sealed
<1>. QED BY <1>5, <1>6, <1>7, <1>8, <1>9 DEF IInv

-----------------------------------------------------------------------------
(* Types.                                                                  *)

\* Every step keeps the types.
LEMMA TypeNext == TypeInv /\ ChildInv /\ [Next]_vars => TypeInv'
<1>. SUFFICES ASSUME TypeInv, ChildInv, [Next]_vars PROVE TypeInv'
  OBVIOUS
<1>1. ASSUME NEW p \in Hands, NEW r \in Repos, NEW receipt \in BOOLEAN,
             StartByHand(p, r, receipt)
      PROVE  TypeInv'
  <2>1. p \in Procs /\ Starts(p, r)
    BY <1>1 DEF StartByHand, Procs, Starts
  <2>2. byHand' \in [Repos -> BOOLEAN]
    BY <1>1 DEF StartByHand, TypeInv
  <2>3. /\ scan'[p].open = FALSE
        /\ \A q \in Procs : q # p => scan'[q] = scan[q]
        /\ scan' \in [Procs -> ScanStates \cup {None}]
        /\ started' \in [Repos -> Nat] /\ overlapped' \in [Repos -> BOOLEAN]
    BY <2>1, StartStep
  <2>4. \A q \in Procs : Running(q)' /\ scan'[q].open => scan'[q].left # <<>>
    BY <2>3 DEF TypeInv, Running
  <2>. QED BY <1>1, <2>2, <2>3, <2>4 DEF StartByHand, TypeInv, driver
<1>2. ASSUME NEW p \in Procs, OpenFile(p) PROVE TypeInv'
  <2>1. /\ scan'[p].open => scan'[p].left # <<>>
        /\ \A q \in Procs : q # p => scan'[q] = scan[q]
        /\ scan' \in [Procs -> ScanStates \cup {None}]
        /\ disk' \in [Repos -> [Artifacts -> Contents]]
    BY <1>2, OpenStep
  <2>2. \A q \in Procs : Running(q)' /\ scan'[q].open => scan'[q].left # <<>>
    BY <2>1 DEF TypeInv, Running
  <2>. QED BY <1>2, <2>1, <2>2 DEF OpenFile, TypeInv, driver
<1>3. ASSUME NEW p \in Procs, WriteFile(p) PROVE TypeInv'
  <2>1. /\ scan'[p].open => scan'[p].left # <<>>
        /\ \A q \in Procs : q # p => scan'[q] = scan[q]
        /\ scan' \in [Procs -> ScanStates \cup {None}]
        /\ disk' \in [Repos -> [Artifacts -> Contents]]
    BY <1>3, WriteStep
  <2>2. \A q \in Procs : Running(q)' /\ scan'[q].open => scan'[q].left # <<>>
    BY <2>1 DEF TypeInv, Running
  <2>. QED BY <1>3, <2>1, <2>2 DEF WriteFile, TypeInv, driver
<1>4. ASSUME NEW p \in Procs, End(p) PROVE TypeInv'
  <2>1. scan' \in [Procs -> ScanStates \cup {None}]
    BY <1>4 DEF End, TypeInv
  <2>2. \A q \in Procs : Running(q)' => scan'[q] = scan[q] /\ Running(q)
    BY <1>4 DEF End, TypeInv, Running
  <2>. QED BY <1>4, <2>1, <2>2 DEF End, TypeInv, driver
<1>5. CASE StartRun
  <2>1. todo' \subseteq Repos
    BY <1>5 DEF StartRun, Repos
  <2>. QED BY <1>5, <2>1 DEF StartRun, TypeInv, files, Running
<1>6. CASE EndRun
  BY <1>6 DEF EndRun, TypeInv, files, Running
<1>7. ASSUME NEW r \in Repos, Skip(r) PROVE TypeInv'
  BY <1>7 DEF Skip, Take, TypeInv, files, Running
<1>8. ASSUME NEW r \in Repos, StartClone(r) PROVE TypeInv'
  BY <1>8 DEF StartClone, Take, TypeInv, files, Running
<1>9. CASE CloneEnds
  <2>1. clone' \in [Repos -> {"none", "cut", "kept"}]
    BY <1>9 DEF CloneEnds, TypeInv
  <2>. QED BY <1>9, <2>1 DEF CloneEnds, NextRepo, TypeInv, files, Running
<1>10. CASE CloneTimeout
  <2>1. clone' \in [Repos -> {"none", "cut", "kept"}]
    BY <1>10 DEF CloneTimeout, CutClone, TypeInv
  <2>. QED BY <1>10, <2>1 DEF CloneTimeout, NextRepo, TypeInv, files, Running
<1>11. CASE StartScan
  <2>1. "driver" \in Procs /\ repo \in Repos /\ Starts("driver", repo)
    BY <1>11 DEF StartScan, Procs, TypeInv, Starts
  <2>2. /\ scan'["driver"].open = FALSE
        /\ \A q \in Procs : q # "driver" => scan'[q] = scan[q]
        /\ scan' \in [Procs -> ScanStates \cup {None}]
        /\ started' \in [Repos -> Nat] /\ overlapped' \in [Repos -> BOOLEAN]
    BY <2>1, StartStep
  <2>3. \A q \in Procs : Running(q)' /\ scan'[q].open => scan'[q].left # <<>>
    BY <2>2 DEF TypeInv, Running
  <2>. QED BY <1>11, <2>2, <2>3 DEF StartScan, TypeInv
<1>12. CASE ScanEnds
  BY <1>12 DEF ScanEnds, Unclone, NextRepo, StopRun, TypeInv, files, Running
<1>. DEFINE Killed == /\ scan' \in [Procs -> ScanStates \cup {None}]
                      /\ \A q \in Procs : Running(q)' => scan'[q] = scan[q] /\ Running(q)
<1>13. KillScan => Killed
  BY DEF KillScan, TypeInv, Running
<1>14. CASE ScanTimeout
  BY <1>13, <1>14 DEF ScanTimeout, Unclone, NextRepo, TypeInv
<1>15. CASE WriteMeta
  <2>1. disk' \in [Repos -> [Artifacts -> Contents]]
    <3>1. "meta" \in Artifacts /\ repo \in Repos
      BY <1>15 DEF WriteMeta, Artifacts, TypeInv
    <3>2. commit \in Contents
      BY <1>15 DEF WriteMeta, ChildInv, Contents
    <3>. QED BY <1>15, <3>1, <3>2 DEF WriteMeta, TypeInv
  <2>. QED BY <1>15, <2>1 DEF WriteMeta, NextRepo, TypeInv, Running
<1>16. CASE Interrupt
  <2>1. disk' \in [Repos -> [Artifacts -> Contents]]
    <3>1. CASE UNCHANGED disk
      BY <3>1 DEF TypeInv
    <3>2. CASE pc = "meta" /\ disk' = [disk EXCEPT ![repo]["meta"] = Broken]
      <4>1. repo \in Repos /\ "meta" \in Artifacts /\ Broken \in Contents
        BY <3>2 DEF TypeInv, Artifacts, Contents
      <4>. QED BY <3>2, <4>1 DEF TypeInv
    <3>. QED BY <1>16, <3>1, <3>2 DEF Interrupt
  <2>2. clone' \in [Repos -> {"none", "cut", "kept"}]
    BY <1>16 DEF Interrupt, CutClone, Unclone, TypeInv
  <2>. QED BY <1>13, <1>16, <2>1, <2>2 DEF Interrupt, StopRun, TypeInv
<1>17. ASSUME NEW r \in Repos, OpenDirectory(r) PROVE TypeInv'
  BY <1>17 DEF OpenDirectory, TypeInv, files, driver, Running
<1>18. CASE ReadNext \/ AppendRow \/ UNCHANGED vars
  BY <1>18 DEF ReadNext, AppendRow, vars, TypeInv, files, driver, Running
<1>. QED BY <1>1, <1>2, <1>3, <1>4, <1>5, <1>6, <1>7, <1>8, <1>9, <1>10, <1>11, <1>12,
            <1>14, <1>15, <1>16, <1>17, <1>18 DEF Next, DriverStep

-----------------------------------------------------------------------------
(* The driver, its child and its clone.                                    *)

\* A step that starts no scan leaves every running scan its repository and
\* number.
LEMMA NoNewScan ==
  ASSUME TypeInv, NEW p \in Procs, OpenFile(p) \/ WriteFile(p) \/ End(p)
  PROVE  /\ \A q \in Procs : Running(q)' =>
              Running(q) /\ scan'[q].repo = scan[q].repo /\ scan'[q].num = scan[q].num
         /\ UNCHANGED <<started, byHand, overlapped, clone, pc, repo, commit, reading>>
<1>1. CASE OpenFile(p)
  <2>1. /\ scan'[p].repo = scan[p].repo /\ scan'[p].num = scan[p].num
        /\ \A q \in Procs : q # p => scan'[q] = scan[q]
    BY <1>1, OpenStep
  <2>. QED BY <1>1, <2>1 DEF OpenFile, Running, driver
<1>2. CASE WriteFile(p)
  <2>1. /\ scan'[p].repo = scan[p].repo /\ scan'[p].num = scan[p].num
        /\ \A q \in Procs : q # p => scan'[q] = scan[q]
    BY <1>2, WriteStep
  <2>. QED BY <1>2, <2>1 DEF WriteFile, Running, driver
<1>3. CASE End(p)
  BY <1>3 DEF End, Running, TypeInv, driver
<1>. QED BY <1>1, <1>2, <1>3

\* Every step keeps the driver and its child together.
LEMMA ChildNext == TypeInv /\ ChildInv /\ [Next]_vars => ChildInv'
<1>. SUFFICES ASSUME TypeInv, ChildInv, [Next]_vars PROVE ChildInv'
  OBVIOUS
<1>0. "driver" \in Procs /\ Hands \subseteq Procs /\ "driver" \notin Hands
  BY RegistryAssumption DEF Procs
<1>1. ASSUME NEW p \in Hands, NEW r \in Repos, NEW receipt \in BOOLEAN,
             StartByHand(p, r, receipt)
      PROVE  ChildInv'
  <2>1. p \in Procs /\ Starts(p, r)
    BY <1>1 DEF StartByHand, Procs, Starts
  <2>2. scan'[p].repo = r /\ \A q \in Procs : q # p => scan'[q] = scan[q]
    BY <2>1, StartStep
  <2>3. byHand'[r] = TRUE /\ \A q \in Repos : q # r => byHand'[q] = byHand[q]
    BY <1>1 DEF StartByHand, TypeInv
  <2>4. \A q \in Procs : Running(q) => scan[q].repo \in Repos
    BY DEF TypeInv, ScanStates, Running
  <2>5. \A q \in Hands : Running(q)' => byHand'[scan'[q].repo]
    BY <1>0, <2>2, <2>3, <2>4 DEF ChildInv, Running
  <2>6. UNCHANGED <<scan["driver"], pc, repo, commit>>
    BY <1>0, <1>1, <2>2 DEF StartByHand, driver
  <2>. QED BY <2>5, <2>6 DEF ChildInv, Running
<1>2. ASSUME NEW p \in Procs, OpenFile(p) \/ WriteFile(p) \/ End(p) PROVE ChildInv'
  BY <1>0, <1>2, NoNewScan DEF ChildInv
<1>3. CASE StartRun \/ EndRun \/ \E r \in Repos : Skip(r) \/ StartClone(r)
  BY <1>3 DEF StartRun, EndRun, Skip, StartClone, Take, ChildInv, files, Running
<1>4. CASE CloneEnds \/ CloneTimeout
  BY <1>4 DEF CloneEnds, CloneTimeout, NextRepo, ChildInv, files, Running
<1>5. CASE StartScan
  <2>1. repo \in Repos /\ Starts("driver", repo)
    BY <1>5 DEF StartScan, TypeInv, Starts
  <2>2. /\ scan'["driver"].repo = repo /\ scan'["driver"].num = started[repo] + 1
        /\ scan'["driver"] \in ScanStates
        /\ \A q \in Procs : q # "driver" => scan'[q] = scan[q]
    BY <1>0, <2>1, StartStep
  <2>3. scan'["driver"].num \in Scans
    BY <2>2 DEF ScanStates
  <2>4. \A q \in Hands : Running(q)' => byHand'[scan'[q].repo]
    BY <1>0, <1>5, <2>2 DEF StartScan, ChildInv, Running
  <2>. QED BY <1>5, <2>2, <2>3, <2>4 DEF StartScan, ChildInv
<1>6. CASE ScanEnds
  BY <1>6 DEF ScanEnds, NextRepo, StopRun, ChildInv, files, Running
<1>7. KillScan => ~Running("driver")' /\ \A q \in Hands : scan'[q] = scan[q]
  BY <1>0 DEF KillScan, TypeInv, Running
<1>8. CASE ScanTimeout
  BY <1>7, <1>8 DEF ScanTimeout, NextRepo, ChildInv, Running
<1>9. CASE WriteMeta
  BY <1>9 DEF WriteMeta, NextRepo, ChildInv, Running
<1>10. CASE Interrupt
  BY <1>7, <1>10 DEF Interrupt, StopRun, ChildInv, Running
<1>11. CASE \/ \E r \in Repos : OpenDirectory(r)
            \/ ReadNext \/ AppendRow \/ UNCHANGED vars
  BY <1>11 DEF OpenDirectory, ReadNext, AppendRow, vars, files, driver, ChildInv, Running
<1>. QED BY <1>1, <1>2, <1>3, <1>4, <1>5, <1>6, <1>8, <1>9, <1>10, <1>11 DEF Next, DriverStep

\* Every step keeps cut clones away from the scanner.
LEMMA CloneNext == TypeInv /\ CloneInv /\ [Next]_vars => CloneInv'
<1>. SUFFICES ASSUME TypeInv, CloneInv, [Next]_vars PROVE CloneInv'
  OBVIOUS
<1>1. CASE \E r \in Repos : StartClone(r)
  BY <1>1 DEF StartClone, CloneInv, TypeInv
<1>2. CASE CloneEnds
  <2>1. repo \in Repos /\ clone[repo] = "none"
    BY <1>2 DEF CloneEnds, CloneInv, TypeInv
  <2>2. clone'[repo] \in {"none", "kept"}
    BY <1>2, <2>1 DEF CloneEnds, TypeInv
  <2>. QED BY <1>2, <2>2 DEF CloneEnds, NextRepo, CloneInv
<1>3. CASE StartScan
  BY <1>3 DEF StartScan, CloneInv
<1>4. CASE ScanEnds \/ ScanTimeout \/ CloneTimeout \/ WriteMeta \/ Interrupt
  BY <1>4 DEF ScanEnds, ScanTimeout, CloneTimeout, WriteMeta, Interrupt, NextRepo,
              StopRun, CloneInv
<1>5. CASE StartRun \/ EndRun \/ \E r \in Repos : Skip(r)
  BY <1>5 DEF StartRun, EndRun, Skip, Take, CloneInv
<1>6. CASE UNCHANGED <<clone, pc, repo>>
  BY <1>6 DEF CloneInv
<1>. QED BY <1>1, <1>2, <1>3, <1>4, <1>5, <1>6 DEF Next, DriverStep, vars, driver,
            StartByHand, OpenFile, WriteFile, End, OpenDirectory, ReadNext, AppendRow

-----------------------------------------------------------------------------
(* Directories only the driver scans.                                      *)

\* The files by name.
LEMMA Names5 == {"ontology", "profile", "badge", "receipt", "meta"} = Artifacts
BY DEF Artifacts

\* A directory whose files stay, and which the driver is not at or stays at.
LEMMA FreshFrame ==
  ASSUME TypeInv, NEW r \in Repos, Fresh(r),
         \A a \in Artifacts : disk'[r][a] = disk[r][a],
         \/ UNCHANGED <<scan["driver"], pc, repo, commit>>
         \/ repo' # r
  PROVE  Fresh(r)'
<1>1. /\ disk'[r]["profile"] = disk[r]["profile"] /\ disk'[r]["ontology"] = disk[r]["ontology"]
      /\ disk'[r]["receipt"] = disk[r]["receipt"] /\ disk'[r]["meta"] = disk[r]["meta"]
  BY Names5
<1>2. CASE repo' # r
  BY <1>1, <1>2 DEF Fresh
<1>3. CASE UNCHANGED <<scan["driver"], pc, repo, commit>> /\ repo = r
  <2>1. Running("driver") /\ scan["driver"].open => Head(scan["driver"].left) \in Artifacts
    <3>. SUFFICES ASSUME Running("driver"), scan["driver"].open
                  PROVE  Head(scan["driver"].left) \in Artifacts
      OBVIOUS
    <3>1. scan["driver"].left \in AllLefts /\ scan["driver"].left # <<>>
      BY DEF TypeInv, Procs, Running, ScanStates
    <3>. QED BY <3>1, LeftFacts DEF Sealed, Artifacts
  <2>. QED BY <1>1, <1>3, <2>1 DEF Fresh, Ahead, Running
<1>. QED BY <1>2, <1>3

\* A step of the driver's child.
LEMMA FreshChild ==
  ASSUME TypeInv, ChildInv, Fresh(repo), Running("driver"), pc = "scanning",
         OpenFile("driver") \/ WriteFile("driver") \/ End("driver")
  PROVE  Fresh(repo)'
<1>. DEFINE s == scan["driver"]
            t == scan'["driver"]
<1>0. /\ "driver" \in Procs /\ repo \in Repos /\ s \in ScanStates
      /\ s.repo = repo /\ s.num = commit /\ s.num \in Scans
  BY DEF Procs, TypeInv, ChildInv, Running, ScanStates
<1>1. UNCHANGED <<pc, repo, commit>>
  BY <1>0, NoNewScan
<1>2. None \notin Scans /\ Broken \notin Scans
  BY RegistryAssumption DEF Scans
<1>3. CASE OpenFile("driver")
  <2>1. /\ s.left # <<>> /\ ~s.open /\ Head(s.left) \in Sealed
        /\ t.num = s.num /\ t.left = s.left /\ t.open = TRUE
        /\ disk'[repo][Head(s.left)] = Broken
        /\ \A a \in Artifacts : a # Head(s.left) => disk'[repo][a] = disk[repo][a]
    BY <1>0, <1>3, OpenStep
  <2>2. Fresh(repo) /\ pc = "scanning" /\ Running("driver")
    OBVIOUS
  <2>3. CASE Head(s.left) = "ontology"
    BY <1>0, <1>1, <1>2, <2>1, <2>2, <2>3, Names5 DEF Fresh, Ahead
  <2>4. CASE Head(s.left) = "profile"
    BY <1>0, <1>1, <1>2, <2>1, <2>2, <2>4, Names5 DEF Fresh, Ahead
  <2>5. CASE Head(s.left) = "badge"
    BY <1>0, <1>1, <1>2, <2>1, <2>2, <2>5, Names5 DEF Fresh, Ahead
  <2>6. CASE Head(s.left) = "receipt"
    BY <1>0, <1>1, <1>2, <2>1, <2>2, <2>6, Names5 DEF Fresh, Ahead
  <2>. QED BY <2>1, <2>3, <2>4, <2>5, <2>6 DEF Sealed
<1>4. CASE WriteFile("driver")
  <2>1. /\ s.left # <<>> /\ s.open /\ Head(s.left) \in Sealed
        /\ t.num = s.num /\ t.left = Tail(s.left) /\ t.open = FALSE
        /\ disk[repo][Head(s.left)] = Broken => disk'[repo][Head(s.left)] = s.num
        /\ \A a \in Artifacts : a # Head(s.left) => disk'[repo][a] = disk[repo][a]
    <3>1. /\ s.left # <<>> /\ s.open /\ Head(s.left) \in Sealed
          /\ t.num = s.num /\ t.left = Tail(s.left) /\ t.open = FALSE
      BY <1>0, <1>4, WriteStep
    <3>2. disk[s.repo][Head(s.left)] = Broken => disk'[s.repo][Head(s.left)] = s.num
      BY <1>0, <1>4, WriteStep
    <3>3. \A r \in Repos, a \in Artifacts :
            r # s.repo \/ a # Head(s.left) => disk'[r][a] = disk[r][a]
      BY <1>0, <1>4, WriteStep
    <3>. QED BY <1>0, <3>1, <3>2, <3>3
  <2>2. Fresh(repo) /\ pc = "scanning" /\ Running("driver")
    OBVIOUS
  <2>3. disk'[repo][Head(s.left)] = s.num
    BY <2>1, <2>2 DEF Fresh
  <2>4. s.left \in AllLefts
    BY <1>0 DEF ScanStates
  <2>5. CASE Head(s.left) = "ontology"
    <3>1. t.left # <<>> /\ Head(t.left) = "profile"
      BY <2>1, <2>4, <2>5, LeftFacts
    <3>. QED BY <1>0, <1>1, <1>2, <2>1, <2>2, <2>3, <2>5, <3>1, Names5 DEF Fresh, Ahead
  <2>6. CASE Head(s.left) = "profile"
    <3>1. t.left # <<>> /\ Head(t.left) = "badge"
      BY <2>1, <2>4, <2>6, LeftFacts
    <3>. QED BY <1>0, <1>1, <1>2, <2>1, <2>2, <2>3, <2>6, <3>1, Names5 DEF Fresh, Ahead
  <2>7. CASE Head(s.left) = "badge"
    <3>1. t.left = <<>> \/ Head(t.left) = "receipt"
      BY <2>1, <2>4, <2>7, LeftFacts
    <3>. QED BY <1>0, <1>1, <1>2, <2>1, <2>2, <2>3, <2>7, <3>1, Names5 DEF Fresh, Ahead
  <2>8. CASE Head(s.left) = "receipt"
    <3>1. t.left = <<>>
      BY <2>1, <2>4, <2>8, LeftFacts
    <3>. QED BY <1>0, <1>1, <1>2, <2>1, <2>2, <2>3, <2>8, <3>1, Names5 DEF Fresh, Ahead
  <2>. QED BY <2>1, <2>5, <2>6, <2>7, <2>8 DEF Sealed
<1>5. CASE End("driver")
  <2>1. disk' = disk /\ ~Running("driver")'
    BY <1>0, <1>5 DEF End, TypeInv, Running
  <2>2. Fresh(repo)
    OBVIOUS
  <2>. QED BY <1>1, <2>1, <2>2 DEF Fresh
<1>. QED BY <1>3, <1>4, <1>5

\* A directory scanned by hand stays one.
LEMMA ByHandStays ==
  ASSUME TypeInv, [Next]_vars, NEW r \in Repos, ~byHand'[r] PROVE ~byHand[r]
<1>1. CASE \E p \in Hands, q \in Repos, receipt \in BOOLEAN : StartByHand(p, q, receipt)
  BY <1>1 DEF StartByHand, TypeInv
<1>2. CASE UNCHANGED byHand
  BY <1>2
<1>. QED BY <1>1, <1>2 DEF Next, DriverStep, vars, files, OpenFile, WriteFile, End, StartRun,
            EndRun, Skip, StartClone, CloneEnds, CloneTimeout, StartScan, ScanEnds,
            ScanTimeout, WriteMeta, Interrupt, OpenDirectory, ReadNext, AppendRow

\* A step of a scan on another directory.
LEMMA OtherDirectory ==
  ASSUME TypeInv, NEW p \in Procs, OpenFile(p) \/ WriteFile(p) \/ End(p),
         NEW r \in Repos, scan[p].repo # r
  PROVE  \A a \in Artifacts : disk'[r][a] = disk[r][a]
<1>1. CASE OpenFile(p)
  BY <1>1, OpenStep
<1>2. CASE WriteFile(p)
  BY <1>2, WriteStep
<1>3. CASE End(p)
  BY <1>3 DEF End
<1>. QED BY <1>1, <1>2, <1>3

\* A step of any scan.
LEMMA ScanStepFresh ==
  ASSUME TypeInv, ChildInv, NEW p \in Procs, OpenFile(p) \/ WriteFile(p) \/ End(p),
         NEW r \in Repos, ~byHand[r], Fresh(r)
  PROVE  Fresh(r)'
<1>0. Running(p) /\ UNCHANGED <<pc, repo, commit>>
  BY NoNewScan DEF OpenFile, WriteFile, End
<1>1. CASE p \in Hands
  <2>1. scan[p].repo # r
    BY <1>0, <1>1 DEF ChildInv
  <2>2. p # "driver" /\ "driver" \in Procs
    BY <1>1, RegistryAssumption DEF Procs
  <2>3. scan'["driver"] = scan["driver"]
    <3>1. CASE OpenFile(p)
      BY <2>2, <3>1, OpenStep
    <3>2. CASE WriteFile(p)
      BY <2>2, <3>2, WriteStep
    <3>3. CASE End(p)
      BY <2>2, <3>3 DEF End, TypeInv
    <3>. QED BY <3>1, <3>2, <3>3
  <2>. QED BY <1>0, <2>1, <2>3, OtherDirectory, FreshFrame
<1>2. CASE p = "driver" /\ r = repo
  <2>1. pc = "scanning"
    BY <1>0, <1>2 DEF ChildInv
  <2>. QED BY <1>0, <1>2, <2>1, FreshChild
<1>3. CASE p = "driver" /\ r # repo
  <2>1. scan[p].repo # r
    BY <1>0, <1>3 DEF ChildInv
  <2>. QED BY <1>0, <1>3, <2>1, OtherDirectory, FreshFrame
<1>. QED BY <1>1, <1>2, <1>3 DEF Procs

\* Every step keeps the directories only the driver scans.
LEMMA FreshNext == TypeInv /\ ChildInv /\ FreshInv /\ [Next]_vars => FreshInv'
<1>. SUFFICES ASSUME TypeInv, ChildInv, FreshInv, [Next]_vars, NEW r \in Repos, ~byHand'[r]
              PROVE  Fresh(r)'
  BY DEF FreshInv
<1>1. ~byHand[r] /\ Fresh(r)
  BY ByHandStays DEF FreshInv
<1>3. /\ "driver" \in Procs /\ Hands \subseteq Procs /\ "driver" \notin Hands
      /\ None \notin Scans /\ Broken \notin Scans /\ None # Broken /\ None # r
  BY RegistryAssumption DEF Procs, Scans
<1>4. ASSUME NEW p \in Hands, NEW q \in Repos, NEW receipt \in BOOLEAN,
             StartByHand(p, q, receipt)
      PROVE  Fresh(r)'
  <2>1. p \in Procs /\ Starts(p, q)
    BY <1>4 DEF StartByHand, Procs, Starts
  <2>2. \A o \in Procs : o # p => scan'[o] = scan[o]
    BY <2>1, StartStep
  <2>3. "driver" # p
    BY <1>3
  <2>4. scan'["driver"] = scan["driver"]
    BY <1>3, <2>2, <2>3
  <2>. QED BY <1>1, <1>4, <2>4, FreshFrame DEF StartByHand, driver
<1>5. ASSUME NEW p \in Procs, OpenFile(p) \/ WriteFile(p) \/ End(p) PROVE Fresh(r)'
  BY <1>1, <1>5, ScanStepFresh
<1>6. CASE StartRun \/ EndRun \/ \E q \in Repos : Skip(q)
  <2>1. disk' = disk /\ repo' # r
    BY <1>3, <1>6 DEF StartRun, EndRun, Skip, Take, files, TypeInv
  <2>. QED BY <1>1, <2>1, FreshFrame
<1>7. ASSUME NEW q \in Repos, StartClone(q) PROVE Fresh(r)'
  <2>1. /\ disk' = disk /\ scan' = scan /\ repo' = q /\ pc' = "cloning"
        /\ disk[q]["profile"] = None /\ pc = "next"
    BY <1>7 DEF StartClone, Take, files, _scanned
  <2>2. ~Running("driver")
    BY <2>1 DEF ChildInv
  <2>. QED BY <1>1, <2>1, <2>2 DEF Fresh, Running
<1>8. CASE CloneEnds \/ CloneTimeout
  <2>1. disk' = disk /\ scan' = scan /\ pc = "cloning"
        /\ \/ repo' = None
           \/ repo' = repo /\ pc' = "cloned"
    BY <1>8 DEF CloneEnds, CloneTimeout, NextRepo, files
  <2>2. ~Running("driver")
    BY <2>1 DEF ChildInv
  <2>. QED BY <1>1, <1>3, <2>1, <2>2 DEF Fresh, Running
<1>9. CASE StartScan
  <2>1. repo \in Repos /\ Starts("driver", repo)
    BY <1>9 DEF StartScan, TypeInv, Starts
  <2>2. /\ scan'["driver"].left # <<>> /\ Head(scan'["driver"].left) = "ontology"
        /\ scan'["driver"].open = FALSE
    BY <1>3, <2>1, StartStep
  <2>3. disk' = disk /\ repo' = repo /\ pc = "cloned" /\ pc' = "scanning"
    BY <1>9 DEF StartScan
  <2>. QED BY <1>1, <2>2, <2>3 DEF Fresh, Ahead
<1>10. CASE ScanEnds
  <2>1. /\ disk' = disk /\ scan' = scan /\ pc = "scanning" /\ ~Running("driver")
        /\ \/ repo' = None
           \/ repo' = repo /\ commit' = commit /\ pc' = "meta" /\ disk[repo]["profile"] \in Scans
    BY <1>10 DEF ScanEnds, NextRepo, StopRun, files
  <2>. QED BY <1>1, <1>3, <2>1 DEF Fresh, Running
<1>11. CASE ScanTimeout
  <2>1. disk' = disk /\ repo' # r
    BY <1>3, <1>11 DEF ScanTimeout, NextRepo
  <2>. QED BY <1>1, <2>1, FreshFrame
<1>12. CASE WriteMeta \/ Interrupt
  <2>1. repo' # r
    BY <1>3, <1>12 DEF WriteMeta, Interrupt, NextRepo, StopRun
  <2>2. CASE \A a \in Artifacts : disk'[r][a] = disk[r][a]
    BY <1>1, <2>1, <2>2, FreshFrame
  <2>3. CASE /\ pc = "meta" /\ repo = r
             /\ \E c \in {commit, Broken} : disk' = [disk EXCEPT ![repo]["meta"] = c]
    <3>1. /\ disk'[r]["meta"] \in {commit, Broken}
          /\ disk'[r]["profile"] = disk[r]["profile"] /\ disk'[r]["ontology"] = disk[r]["ontology"]
          /\ disk'[r]["receipt"] = disk[r]["receipt"]
      BY <2>3, Names5 DEF TypeInv
    <3>2. disk[r]["profile"] = commit /\ commit \in Scans
      BY <1>1, <2>3 DEF Fresh, ChildInv
    <3>. QED BY <1>1, <2>1, <3>1, <3>2 DEF Fresh
  <2>. QED BY <1>12, <2>2, <2>3 DEF WriteMeta, Interrupt, TypeInv
<1>13. CASE \/ \E q \in Repos : OpenDirectory(q)
            \/ ReadNext \/ AppendRow \/ UNCHANGED vars
  <2>1. UNCHANGED <<disk, scan, pc, repo, commit>>
    BY <1>13 DEF OpenDirectory, ReadNext, AppendRow, vars, files, driver
  <2>. QED BY <1>1, <2>1, FreshFrame
<1>. QED BY <1>4, <1>5, <1>6, <1>7, <1>8, <1>9, <1>10, <1>11, <1>12, <1>13 DEF Next, DriverStep

\* A published profile and its ontology are left alone.
LEMMA ProfileKept ==
  ASSUME TypeInv, ChildInv, FreshInv, [Next]_vars, NEW r \in Repos, ~byHand'[r],
         disk[r]["profile"] \in Scans
  PROVE  \A a \in {"profile", "ontology"} : disk'[r][a] = disk[r][a]
<1>1. ~byHand[r] /\ Fresh(r)
  BY ByHandStays DEF FreshInv
<1>2. None \notin Scans /\ Broken \notin Scans
  BY RegistryAssumption DEF Scans
<1>3. ASSUME NEW p \in Procs, OpenFile(p) \/ WriteFile(p) \/ End(p)
      PROVE  \A a \in {"profile", "ontology"} : disk'[r][a] = disk[r][a]
  <2>1. CASE scan[p].repo # r
    BY <1>3, <2>1, OtherDirectory, Names5
  <2>2. CASE scan[p].repo = r
    <3>1. Running(p)
      BY <1>3 DEF OpenFile, WriteFile, End
    <3>2. p = "driver" /\ repo = r
      BY <1>1, <2>2, <3>1 DEF ChildInv, Procs
    <3>3. ~Ahead(scan[p], "ontology") /\ ~Ahead(scan[p], "profile")
      BY <1>1, <1>2, <3>1, <3>2 DEF Fresh
    <3>4. CASE OpenFile(p)
      <4>1. /\ scan[p].left # <<>>
            /\ \A a \in Artifacts : a # Head(scan[p].left) => disk'[r][a] = disk[r][a]
        BY <3>4, OpenStep
      <4>. QED BY <3>3, <4>1, Names5 DEF Ahead
    <3>5. CASE WriteFile(p)
      <4>1. /\ scan[p].left # <<>>
            /\ \A a \in Artifacts : a # Head(scan[p].left) => disk'[r][a] = disk[r][a]
        BY <3>5, WriteStep
      <4>. QED BY <3>3, <4>1, Names5 DEF Ahead
    <3>6. CASE End(p)
      BY <3>6 DEF End
    <3>. QED BY <1>3, <3>4, <3>5, <3>6
  <2>. QED BY <2>1, <2>2
<1>4. CASE WriteMeta \/ Interrupt
  <2>1. CASE \E c \in Contents : disk' = [disk EXCEPT ![repo]["meta"] = c]
    BY <2>1, Names5 DEF TypeInv
  <2>2. CASE UNCHANGED disk
    BY <2>2
  <2>3. pc = "meta" => commit \in Contents
    BY DEF ChildInv, Contents
  <2>. QED BY <1>4, <2>1, <2>2, <2>3 DEF WriteMeta, Interrupt, Contents
<1>5. CASE UNCHANGED disk
  BY <1>5
<1>. QED BY <1>3, <1>4, <1>5 DEF Next, DriverStep, vars, files, StartByHand, StartRun, EndRun,
            Skip, StartClone, CloneEnds, CloneTimeout, StartScan, ScanEnds, ScanTimeout,
            OpenDirectory, ReadNext, AppendRow

-----------------------------------------------------------------------------
(* The generator.                                                          *)

\* Only the generator's own steps change what it has read.
LEMMA ReadingStays ==
  [Next]_vars => \/ UNCHANGED reading
                 \/ \E r \in Repos : OpenDirectory(r)
                 \/ ReadNext /\ UNCHANGED <<disk, byHand>>
                 \/ AppendRow
BY DEF Next, DriverStep, vars, files, driver, StartByHand, OpenFile, WriteFile, End, StartRun,
       EndRun, Skip, StartClone, CloneEnds, CloneTimeout, StartScan, ScanEnds, ScanTimeout,
       WriteMeta, Interrupt, ReadNext

\* Every step keeps what the generator has read in one scan.
LEMMA ReadingNext == TypeInv /\ ChildInv /\ FreshInv /\ ReadInv /\ [Next]_vars => ReadInv'
<1>. SUFFICES ASSUME TypeInv, ChildInv, FreshInv, ReadInv, [Next]_vars, reading' # None
              PROVE  ReadInv'
  BY DEF ReadInv
<1>1. CASE UNCHANGED reading
  <2>. DEFINE r == reading.repo
              g == reading.got
  <2>1. r \in Repos /\ g \in Seq(Contents)
    BY <1>1 DEF ReadInv
  <2>2. ~byHand'[r] /\ Len(g) >= 1 => disk'[r]["profile"] = g[1]
    <3>. SUFFICES ASSUME ~byHand'[r], Len(g) >= 1 PROVE disk'[r]["profile"] = g[1]
      OBVIOUS
    <3>1. g[1] \in Scans /\ disk[r]["profile"] = g[1]
      BY <1>1, <2>1, ByHandStays DEF ReadInv
    <3>. QED BY <2>1, <3>1, ProfileKept
  <2>3. ~byHand'[r] => ~byHand[r]
    BY <2>1, ByHandStays
  <2>. QED BY <1>1, <2>2, <2>3 DEF ReadInv
<1>2. ASSUME NEW r \in Repos, OpenDirectory(r) PROVE ReadInv'
  BY <1>2 DEF OpenDirectory, ReadInv
<1>3. CASE ReadNext /\ UNCHANGED <<disk, byHand>>
  <2>. DEFINE r == reading.repo
              g == reading.got
              n == Len(g)
              c == _load(r, ReadOrder[n + 1])
  <2>1. /\ reading # None /\ r \in Repos /\ g \in Seq(Contents) /\ n \in 0..3
        /\ reading \in [repo : Repos, got : Seq(Contents)]
    <3>1. Len(ReadOrder) = 4
      BY DEF ReadOrder
    <3>2. reading # None /\ n # 4
      BY <1>3, <3>1 DEF ReadNext, AllRead
    <3>3. reading \in [repo : Repos, got : Seq(Contents)] /\ n <= 4
      BY <3>2 DEF ReadInv
    <3>4. r \in Repos /\ g \in Seq(Contents)
      BY <3>3
    <3>5. n \in Nat
      BY <3>4
    <3>6. n \in 0..3
      <4>. HIDE DEF n
      <4>. QED BY <3>2, <3>3, <3>5
    <3>. QED BY <3>2, <3>3, <3>4, <3>6
  <2>2. /\ ReadOrder[1] = "profile" /\ ReadOrder[2] = "ontology"
        /\ ReadOrder[3] = "receipt" /\ ReadOrder[4] = "meta"
    BY DEF ReadOrder
  <2>3. /\ c # None \/ ReadOrder[n + 1] \notin {"profile", "ontology"}
        /\ reading' = [reading EXCEPT !.got = Append(@, c)]
    BY <1>3 DEF ReadNext
  <2>4. c \in Scans \cup {None}
    <3>1. ReadOrder[n + 1] \in Artifacts
      <4>1. n + 1 = 1 \/ n + 1 = 2 \/ n + 1 = 3 \/ n + 1 = 4
        <5>1. n \in 0..3
          BY <2>1
        <5>. HIDE DEF n
        <5>. QED BY <5>1
      <4>. QED BY <2>2, <4>1 DEF Artifacts
    <3>. QED BY <2>1, <3>1 DEF _load, TypeInv, Contents
  <2>5. /\ reading' \in [repo : Repos, got : Seq(Contents)]
        /\ reading'.repo = r /\ reading'.got = Append(g, c)
    BY SMTT(30), <2>1, <2>3, <2>4 DEF Contents
  <2>6. /\ Len(reading'.got) = n + 1 /\ reading'.got[n + 1] = c
        /\ \A i \in 1..n : reading'.got[i] = g[i]
    BY <2>1, <2>4, <2>5 DEF Contents
  <2>7. ASSUME ~byHand'[r]
        PROVE  /\ n = 0 => c \in Scans /\ disk[r]["profile"] = c
               /\ n = 1 => c = g[1]
               /\ n \in {2, 3} => c \in {None, g[1]}
    <3>1. ~byHand[r] /\ Fresh(r) /\ (n >= 1 => g[1] \in Scans /\ disk[r]["profile"] = g[1])
      BY <1>3, <2>1, <2>7 DEF FreshInv, ReadInv
    <3>2. CASE n = 0
      BY <2>2, <2>3, <2>4, <3>2, RegistryAssumption DEF _load, Scans
    <3>3. CASE n = 1
      BY <2>2, <2>3, <2>4, <3>1, <3>3 DEF _load, Fresh
    <3>4. CASE n = 2
      BY <2>2, <3>1, <3>4 DEF _load, Fresh
    <3>5. CASE n = 3
      BY <2>2, <3>1, <3>5 DEF _load, Fresh
    <3>. QED BY <2>1, <3>2, <3>3, <3>4, <3>5
  <2>8. ASSUME ~byHand'[r]
        PROVE  LET h == reading'.got
               IN  /\ Len(h) >= 1 => h[1] \in Scans /\ disk'[r]["profile"] = h[1]
                   /\ Len(h) >= 2 => h[2] = h[1]
                   /\ Len(h) >= 3 => h[3] \in {None, h[1]}
                   /\ Len(h) >= 4 => h[4] \in {None, h[1]}
    <3>1. /\ n >= 1 => g[1] \in Scans /\ disk[r]["profile"] = g[1]
          /\ n >= 2 => g[2] = g[1]
          /\ n >= 3 => g[3] \in {None, g[1]}
      BY <1>3, <2>1, <2>8 DEF ReadInv
    <3>2. /\ n = 0 => c \in Scans /\ disk[r]["profile"] = c
          /\ n = 1 => c = g[1]
          /\ n \in {2, 3} => c \in {None, g[1]}
      BY <2>7, <2>8
    <3>3. disk' = disk
      BY <1>3
    <3>4. CASE n = 0
      BY <2>6, <3>2, <3>3, <3>4
    <3>5. CASE n = 1
      BY <2>6, <3>1, <3>2, <3>3, <3>5
    <3>6. CASE n = 2
      BY <2>6, <3>1, <3>2, <3>3, <3>6
    <3>7. CASE n = 3
      BY <2>6, <3>1, <3>2, <3>3, <3>7
    <3>. QED BY <2>1, <3>4, <3>5, <3>6, <3>7
  <2>. QED BY <2>1, <2>5, <2>6, <2>8 DEF ReadInv
<1>4. CASE AppendRow
  BY <1>4 DEF AppendRow
<1>. QED BY <1>1, <1>2, <1>3, <1>4, ReadingStays

-----------------------------------------------------------------------------
(* Receipts.                                                               *)

\* The files a scan writes.
LEMMA Names4 == Sealed \subseteq Artifacts /\ {"ontology", "profile", "badge", "receipt"} = Sealed
BY DEF Sealed, Artifacts

\* A directory nobody writes to.
LEMMA SealFrame ==
  ASSUME TypeInv, NEW r \in Repos, SealOf(r),
         \A a \in Sealed : disk'[r][a] = disk[r][a],
         started'[r] = started[r], overlapped'[r] = overlapped[r],
         \A p \in Procs : Scanning(p, r)' => Scanning(p, r) /\ scan'[p] = scan[p]
  PROVE  SealOf(r)'
<1>1. \A p \in Procs : Scanning(p, r) /\ Writing(r, scan[p]) /\ scan'[p] = scan[p]
                       => Writing(r, scan[p])'
  <2>. SUFFICES ASSUME NEW p \in Procs, Scanning(p, r), Writing(r, scan[p]), scan'[p] = scan[p]
                PROVE  Writing(r, scan[p])'
    OBVIOUS
  <2>1. scan[p].left \in AllLefts /\ (scan[p].open => scan[p].left # <<>>)
    BY DEF Scanning, TypeInv, Running, ScanStates
  <2>2. scan[p].open => Head(scan[p].left) \in Sealed
    BY <2>1, LeftFacts
  <2>. QED BY <2>2, Names4 DEF Writing, Ahead
<1>. QED BY <1>1, Names4 DEF SealOf

\* A scan starts on the directory.
LEMMA SealStart ==
  ASSUME TypeInv, NumInv, NEW p \in Procs, NEW r \in Repos, SealOf(r), UNCHANGED disk,
         Starts(p, r)
  PROVE  SealOf(r)'
<1>. DEFINE t == scan'[p]
<1>1. /\ t.repo = r /\ t.num = started[r] + 1
      /\ t.left # <<>> /\ Head(t.left) = "ontology" /\ t.open = FALSE /\ t \in ScanStates
      /\ \A q \in Procs : q # p => scan'[q] = scan[q]
      /\ started'[r] = started[r] + 1
      /\ ~overlapped'[r] => ~overlapped[r] /\ \A q \in Procs : Running(q) => scan[q].repo # r
  BY StartStep
<1>2. started[r] \in Nat /\ \A a \in Sealed : disk[r][a] \in Contents
  BY Names4 DEF TypeInv
<1>3. \A a \in Sealed : disk[r][a] # started[r] + 1
  BY <1>2 DEF SealOf, Scans
<1>4. \A a \in Sealed : disk[r][a] \in Scans => disk[r][a] <= started[r] + 1
  BY <1>2 DEF SealOf, Scans
<1>5. ASSUME ~overlapped'[r]
      PROVE  /\ \A q \in Procs : Scanning(q, r)' => q = p
             /\ ~overlapped[r]
  BY <1>1, <1>5 DEF Scanning, Running
<1>6. Writing(r, scan[p])'
  BY <1>1, <1>3, Names4 DEF Writing, Ahead
<1>7. \A a \in Sealed : disk'[r][a] = disk[r][a]
  OBVIOUS
<1>. QED BY <1>1, <1>4, <1>5, <1>6, <1>7, Names4 DEF SealOf

\* A scan destroys or makes a file of the directory.
LEMMA SealOpen ==
  ASSUME TypeInv, NEW p \in Procs, NEW r \in Repos, SealOf(r), OpenFile(p), Scanning(p, r)
  PROVE  SealOf(r)'
<1>. DEFINE s == scan[p]
            t == scan'[p]
            a0 == Head(s.left)
<1>1. /\ s \in ScanStates /\ s.left # <<>> /\ a0 \in Sealed /\ s.repo = r
      /\ t.repo = s.repo /\ t.num = s.num /\ t.left = s.left /\ t.open = TRUE
      /\ \A q \in Procs : q # p => scan'[q] = scan[q]
      /\ disk'[r][a0] = Broken
      /\ \A a \in Artifacts : a # a0 => disk'[r][a] = disk[r][a]
  BY OpenStep DEF Scanning
<1>2. UNCHANGED <<started, overlapped>>
  BY DEF OpenFile
<1>3. Broken \notin Scans /\ s.num \in Scans
  BY <1>1, RegistryAssumption DEF Scans, ScanStates
<1>4. \A a \in Sealed : disk'[r][a] \in Scans => disk'[r][a] <= started'[r]
  BY <1>1, <1>2, <1>3, Names4 DEF SealOf
<1>5. ASSUME ~overlapped'[r]
      PROVE  /\ \A q, o \in Procs : Scanning(q, r)' /\ Scanning(o, r)' => q = o
             /\ \A q \in Procs : Scanning(q, r)' => Writing(r, scan[q])'
             /\ disk'[r]["receipt"] \in Scans => disk'[r]["receipt"] # disk'[r]["ontology"]
  <2>1. \A q \in Procs : Scanning(q, r)' => q = p
    BY <1>1, <1>2, <1>5 DEF SealOf, Scanning, Running
  <2>2. Writing(r, s)
    BY <1>2, <1>5 DEF SealOf
  <2>3. CASE a0 = "ontology"
    <3>1. Writing(r, scan[p])'
      BY <1>1, <1>2, <1>3, <2>2, <2>3, Names4 DEF Writing, Ahead
    <3>. QED BY <1>1, <1>3, <2>1, <2>3, <3>1
  <2>4. CASE a0 = "profile"
    <3>1. Writing(r, scan[p])'
      BY <1>1, <1>2, <1>3, <2>2, <2>4, Names4 DEF Writing, Ahead
    <3>. QED BY <1>1, <1>3, <2>1, <2>2, <2>4, <3>1, Names4 DEF Writing, Ahead
  <2>5. CASE a0 = "badge"
    <3>1. Writing(r, scan[p])'
      BY <1>1, <1>2, <1>3, <2>2, <2>5, Names4 DEF Writing, Ahead
    <3>. QED BY <1>1, <1>3, <2>1, <2>2, <2>5, <3>1, Names4 DEF Writing, Ahead
  <2>6. CASE a0 = "receipt"
    <3>1. Writing(r, scan[p])'
      BY <1>1, <1>2, <1>3, <2>2, <2>6, Names4 DEF Writing, Ahead
    <3>. QED BY <1>1, <1>3, <2>1, <2>6, <3>1
  <2>. QED BY <1>1, <2>3, <2>4, <2>5, <2>6, Names4
<1>. QED BY <1>4, <1>5 DEF SealOf

\* A scan finishes a file of the directory.
LEMMA SealWrite ==
  ASSUME TypeInv, NumInv, NEW p \in Procs, NEW r \in Repos, SealOf(r), WriteFile(p),
         Scanning(p, r)
  PROVE  SealOf(r)'
<1>. DEFINE s == scan[p]
            t == scan'[p]
            a0 == Head(s.left)
<1>1. /\ s \in ScanStates /\ s.left # <<>> /\ s.open /\ a0 \in Sealed /\ s.repo = r
      /\ t.repo = s.repo /\ t.num = s.num /\ t.left = Tail(s.left) /\ t.open = FALSE
      /\ \A q \in Procs : q # p => scan'[q] = scan[q]
      /\ disk'[r][a0] \in {s.num, Broken}
      /\ disk[r][a0] = Broken => disk'[r][a0] = s.num
      /\ \A a \in Artifacts : a # a0 => disk'[r][a] = disk[r][a]
  <2>1. s.repo = r /\ r \in Repos
    BY DEF Scanning
  <2>2. /\ s \in ScanStates /\ s.left # <<>> /\ s.open /\ a0 \in Sealed
        /\ t.repo = s.repo /\ t.num = s.num /\ t.left = Tail(s.left) /\ t.open = FALSE
        /\ \A q \in Procs : q # p => scan'[q] = scan[q]
    BY WriteStep
  <2>3. /\ disk'[s.repo][a0] \in {s.num, Broken}
        /\ disk[s.repo][a0] = Broken => disk'[s.repo][a0] = s.num
    BY WriteStep
  <2>4. \A q \in Repos, a \in Artifacts : q # s.repo \/ a # a0 => disk'[q][a] = disk[q][a]
    BY WriteStep
  <2>. QED BY <2>1, <2>2, <2>3, <2>4
<1>2. UNCHANGED <<started, overlapped>>
  BY DEF WriteFile
<1>3. Broken \notin Scans /\ s.num \in Scans /\ s.left \in AllLefts
  BY <1>1, RegistryAssumption DEF Scans, ScanStates
<1>4. \A a \in Sealed : disk'[r][a] \in Scans => disk'[r][a] <= started'[r]
  <2>1. s.num <= started[r]
    BY <1>1 DEF NumInv, Scanning
  <2>. QED BY <1>1, <1>2, <1>3, <2>1, Names4 DEF SealOf
<1>5. ASSUME ~overlapped'[r]
      PROVE  /\ \A q, o \in Procs : Scanning(q, r)' /\ Scanning(o, r)' => q = o
             /\ \A q \in Procs : Scanning(q, r)' => Writing(r, scan[q])'
             /\ disk'[r]["receipt"] \in Scans /\ disk'[r]["receipt"] = disk'[r]["ontology"] =>
                  /\ disk'[r]["profile"] = disk'[r]["receipt"]
                  /\ disk'[r]["badge"] = disk'[r]["receipt"]
  <2>1. \A q \in Procs : Scanning(q, r)' => q = p
    BY <1>1, <1>2, <1>5 DEF SealOf, Scanning, Running
  <2>2. Writing(r, s)
    BY <1>2, <1>5 DEF SealOf
  <2>3. disk'[r][a0] = s.num
    BY <1>1, <2>2 DEF Writing
  <2> DEFINE Matches == disk'[r]["receipt"] \in Scans /\ disk'[r]["receipt"] = disk'[r]["ontology"] =>
                          /\ disk'[r]["profile"] = disk'[r]["receipt"]
                          /\ disk'[r]["badge"] = disk'[r]["receipt"]
  <2>8. SUFFICES Writing(r, scan[p])' /\ Matches
    BY <2>1
  <2>4. CASE a0 = "ontology"
    <3>1. t.left # <<>> /\ Head(t.left) = "profile"
      BY <1>1, <1>3, <2>4, LeftFacts
    <3>2. Writing(r, scan[p])'
      BY <1>1, <1>2, <2>2, <2>3, <2>4, <3>1, Names4 DEF Writing, Ahead
    <3>. QED BY <1>1, <2>2, <2>3, <2>4, <3>2, Names4 DEF Writing, Ahead
  <2>5. CASE a0 = "profile"
    <3>1. t.left # <<>> /\ Head(t.left) = "badge"
      BY <1>1, <1>3, <2>5, LeftFacts
    <3>2. Writing(r, scan[p])'
      BY <1>1, <1>2, <2>2, <2>3, <2>5, <3>1, Names4 DEF Writing, Ahead
    <3>. QED BY <1>1, <2>2, <2>3, <2>5, <3>2, Names4 DEF Writing, Ahead
  <2>6. CASE a0 = "badge"
    <3>1. t.left = <<>> \/ Head(t.left) = "receipt"
      BY <1>1, <1>3, <2>6, LeftFacts
    <3>2. Writing(r, scan[p])'
      BY <1>1, <1>2, <2>2, <2>3, <2>6, <3>1, Names4 DEF Writing, Ahead
    <3>. QED BY <1>1, <2>2, <2>3, <2>6, <3>2, Names4 DEF Writing, Ahead
  <2>7. CASE a0 = "receipt"
    <3>1. t.left = <<>>
      BY <1>1, <1>3, <2>7, LeftFacts
    <3>2. Writing(r, scan[p])'
      BY <1>1, <1>2, <2>2, <2>3, <2>7, <3>1, Names4 DEF Writing, Ahead
    <3>. QED BY <1>1, <2>2, <2>3, <2>7, <3>2, Names4 DEF Writing, Ahead
  <2>. QED BY <1>1, <2>4, <2>5, <2>6, <2>7, Names4
<1>. QED BY <1>4, <1>5 DEF SealOf

\* Every step keeps receipts true to their directories.
LEMMA SealNext == TypeInv /\ ChildInv /\ SealInv /\ [Next]_vars => SealInv'
<1>. SUFFICES ASSUME TypeInv, ChildInv, SealInv, [Next]_vars PROVE SealInv'
  OBVIOUS
<1>0. /\ NumInv /\ \A r \in Repos : SealOf(r)
      /\ "driver" \in Procs /\ "meta" \notin Sealed
      /\ \A p \in Procs : Running(p) => scan[p].repo \in Repos
  BY DEF SealInv, Procs, Sealed, TypeInv, ScanStates, Running
<1>1. ASSUME NEW p \in Procs, NEW q \in Repos, UNCHANGED disk,
             Starts(p, q)
      PROVE  SealInv'
  <2>1. /\ scan'[p].repo = q /\ scan'[p].num = started[q] + 1
        /\ \A o \in Procs : o # p => scan'[o] = scan[o]
        /\ started'[q] = started[q] + 1
        /\ \A r \in Repos : r # q => started'[r] = started[r] /\ overlapped'[r] = overlapped[r]
    BY <1>1, StartStep
  <2>2. NumInv'
    <3>. SUFFICES ASSUME NEW o \in Procs, Running(o)'
                  PROVE  scan'[o].num <= started'[scan'[o].repo]
      BY DEF NumInv
    <3>1. CASE o = p
      BY <2>1, <3>1 DEF TypeInv
    <3>2. CASE o # p
      <4>1. /\ scan'[o] = scan[o] /\ scan[o].num <= started[scan[o].repo]
            /\ scan[o].repo \in Repos /\ scan[o].num \in Nat
        BY <1>0, <2>1, <3>2 DEF NumInv, Running, TypeInv, ScanStates, Scans
      <4>. QED BY <2>1, <4>1 DEF TypeInv
    <3>. QED BY <3>1, <3>2
  <2>3. ASSUME NEW r \in Repos PROVE SealOf(r)'
    <3>1. CASE r = q
      BY <1>0, <1>1, <3>1, SealStart
    <3>2. CASE r # q
      <4>1. \A o \in Procs : Scanning(o, r)' => Scanning(o, r) /\ scan'[o] = scan[o]
        BY <2>1, <3>2 DEF Scanning, Running
      <4>. QED BY <1>0, <1>1, <2>1, <3>2, <4>1, SealFrame
    <3>. QED BY <3>1, <3>2
  <2>. QED BY <2>2, <2>3 DEF SealInv
<1>2. ASSUME NEW p \in Procs, OpenFile(p) \/ WriteFile(p) \/ End(p) PROVE SealInv'
  <2>1. /\ \A q \in Procs : Running(q)' =>
             Running(q) /\ scan'[q].repo = scan[q].repo /\ scan'[q].num = scan[q].num
        /\ UNCHANGED <<started, overlapped>>
    BY <1>2, NoNewScan
  <2>2. NumInv'
    BY <1>0, <2>1 DEF NumInv
  <2>3. ASSUME NEW r \in Repos PROVE SealOf(r)'
    <3>1. CASE End(p)
      <4>1. \A o \in Procs : Scanning(o, r)' => Scanning(o, r) /\ scan'[o] = scan[o]
        BY <3>1 DEF End, TypeInv, Scanning, Running
      <4>. QED BY <1>0, <3>1, <4>1, SealFrame DEF End
    <3>2. CASE OpenFile(p) /\ scan[p].repo = r
      BY <1>0, <3>2, SealOpen DEF Scanning, OpenFile
    <3>3. CASE WriteFile(p) /\ scan[p].repo = r
      BY <1>0, <3>3, SealWrite DEF Scanning, WriteFile
    <3>4. CASE (OpenFile(p) \/ WriteFile(p)) /\ scan[p].repo # r
      <4>1. \A a \in Sealed : disk'[r][a] = disk[r][a]
        BY <3>4, OtherDirectory, Names4
      <4>2. \A o \in Procs : o # p => scan'[o] = scan[o]
        <5>1. CASE OpenFile(p)
          BY <5>1, OpenStep
        <5>2. CASE WriteFile(p)
          BY <5>2, WriteStep
        <5>. QED BY <3>4, <5>1, <5>2
      <4>3. \A o \in Procs : Scanning(o, r)' => Scanning(o, r) /\ scan'[o] = scan[o]
        BY <2>1, <3>4, <4>2 DEF Scanning, Running
      <4>. QED BY <1>0, <2>1, <4>1, <4>3, SealFrame
    <3>. QED BY <1>2, <3>1, <3>2, <3>3, <3>4
  <2>. QED BY <2>2, <2>3 DEF SealInv
\* What else the driver and the generator do starts no scan and writes no more
\* than _meta.json.
<1>3. ASSUME UNCHANGED <<started, overlapped>>, scan' = scan \/ KillScan,
             \A r \in Repos, a \in Sealed : disk'[r][a] = disk[r][a]
      PROVE  SealInv'
  <2>1. \A p \in Procs : Running(p)' => Running(p) /\ scan'[p] = scan[p]
    BY <1>0, <1>3 DEF KillScan, TypeInv, Running
  <2>2. NumInv'
    BY <1>0, <1>3, <2>1 DEF NumInv
  <2>3. ASSUME NEW r \in Repos PROVE SealOf(r)'
    <3>1. \A p \in Procs : Scanning(p, r)' => Scanning(p, r) /\ scan'[p] = scan[p]
      BY <2>1 DEF Scanning
    <3>. QED BY <1>0, <1>3, <3>1, SealFrame
  <2>. QED BY <2>2, <2>3 DEF SealInv
<1>4. ASSUME NEW p \in Hands, NEW q \in Repos, NEW receipt \in BOOLEAN,
             StartByHand(p, q, receipt)
      PROVE  SealInv'
  <2>1. p \in Procs /\ Starts(p, q) /\ UNCHANGED disk
    BY <1>4 DEF StartByHand, Procs, Starts
  <2>. QED BY <1>1, <2>1
<1>5. CASE StartScan
  <2>1. repo \in Repos /\ Starts("driver", repo) /\ UNCHANGED disk
    BY <1>5 DEF StartScan, TypeInv, Starts
  <2>. QED BY <1>0, <1>1, <2>1
<1>6. CASE WriteMeta \/ Interrupt
  <2>1. UNCHANGED <<started, overlapped>> /\ (scan' = scan \/ KillScan)
    BY <1>6 DEF WriteMeta, Interrupt
  <2>2. \A r \in Repos, a \in Sealed : disk'[r][a] = disk[r][a]
    <3>1. CASE \E c : disk' = [disk EXCEPT ![repo]["meta"] = c]
      BY <1>0, <3>1, Names4 DEF TypeInv
    <3>. QED BY <1>6, <3>1 DEF WriteMeta, Interrupt
  <2>. QED BY <1>3, <2>1, <2>2
<1>7. CASE ScanTimeout
  BY <1>3, <1>7 DEF ScanTimeout
<1>8. CASE UNCHANGED files
  BY <1>3, <1>8 DEF files
<1>. QED BY <1>2, <1>4, <1>5, <1>6, <1>7, <1>8 DEF Next, DriverStep, vars, StartRun, EndRun, Skip,
            StartClone, CloneEnds, CloneTimeout, ScanEnds, OpenDirectory, ReadNext, AppendRow

-----------------------------------------------------------------------------
(* How often a repository is scanned.                                      *)

\* r is still to be scanned in this run of the driver.
Due(r) == r \in todo \/ (repo = r /\ pc \in {"cloning", "cloned"})

\* A run of the driver starts at most one scan of a repository.
TallyInv ==
  /\ runs \in 0..MaxRuns /\ handScans \in 0..MaxHand
  /\ \A r \in Repos : started[r] <= runs + handScans
  /\ \A r \in Repos : Due(r) => started[r] < runs + handScans
  /\ pc \in {"cloning", "cloned"} => repo \notin todo
  /\ commit \in Scans \cup {None}

\* A scan that starts is counted for its directory and for no other.
LEMMA StartCounts ==
  ASSUME TypeInv, NEW p, NEW r \in Repos, NEW receipt, Start(p, r, receipt)
  PROVE  /\ started'[r] = started[r] + 1
         /\ \A q \in Repos : q # r => started'[q] = started[q]
BY DEF Start, TypeInv

\* Every step keeps the tally.
LEMMA TallyNext == TypeInv /\ TallyInv /\ [Next]_vars => TallyInv'
<1>. SUFFICES ASSUME TypeInv, TallyInv, [Next]_vars PROVE TallyInv'
  OBVIOUS
<1>0. /\ runs \in Nat /\ handScans \in Nat /\ \A r \in Repos : started[r] \in Nat
      /\ "driver" \in Procs /\ Hands \subseteq Procs
  BY RegistryAssumption DEF TallyInv, TypeInv, Procs
\* Steps that start no scan and make no repository due.
<1>1. ASSUME UNCHANGED <<started, runs, handScans>>,
             \A r \in Repos : Due(r)' => Due(r),
             pc' \in {"cloning", "cloned"} => repo' \notin todo',
             commit' \in Scans \cup {None}
      PROVE  TallyInv'
  BY <1>1 DEF TallyInv
<1>2. ASSUME NEW p \in Hands, NEW r \in Repos, NEW receipt \in BOOLEAN,
             StartByHand(p, r, receipt)
      PROVE  TallyInv'
  <2>1. p \in Procs /\ Starts(p, r)
    BY <1>0, <1>2 DEF StartByHand, Starts
  <2>2. /\ started'[r] = started[r] + 1
        /\ \A q \in Repos : q # r => started'[q] = started[q]
    BY <1>2, StartCounts DEF StartByHand
  <2>3. /\ handScans' = handScans + 1 /\ handScans < MaxHand
        /\ UNCHANGED <<runs, todo, repo, pc, commit>>
    BY <1>2 DEF StartByHand, driver
  <2>4. handScans' \in 0..MaxHand
    BY <1>0, <2>3, RegistryAssumption
  <2>5. \A q \in Repos : /\ started'[q] <= runs' + handScans'
                         /\ Due(q)' => started'[q] < runs' + handScans'
    <3>. SUFFICES ASSUME NEW q \in Repos
                  PROVE  /\ started'[q] <= runs' + handScans'
                         /\ Due(q)' => started'[q] < runs' + handScans'
      OBVIOUS
    <3>. DEFINE new == started'[q]
                sum == runs' + handScans'
    <3>1. started[q] \in Nat /\ started[q] <= runs + handScans
          /\ (Due(q) => started[q] < runs + handScans)
      BY <1>0 DEF TallyInv
    <3>2. new \in {started[q], started[q] + 1} /\ sum = runs + handScans + 1
      BY <1>0, <2>2, <2>3
    <3>3. Due(q)' => Due(q)
      BY <2>3 DEF Due
    <3>. HIDE DEF new, sum
    <3>4. new <= sum /\ (Due(q) => new < sum)
      BY <1>0, <3>1, <3>2
    <3>. QED BY <3>3, <3>4 DEF new, sum
  <2>. QED BY <2>3, <2>4, <2>5 DEF TallyInv
<1>3. ASSUME NEW p \in Procs, OpenFile(p) \/ WriteFile(p) \/ End(p) PROVE TallyInv'
  <2>1. UNCHANGED <<started, runs, handScans, pc, repo, todo, commit>>
    BY <1>3 DEF OpenFile, WriteFile, End, driver
  <2>. QED BY <1>1, <2>1 DEF TallyInv, Due
<1>4. CASE StartRun
  <2>1. /\ runs' = runs + 1 /\ runs < MaxRuns /\ pc' = "next"
        /\ UNCHANGED <<started, handScans, repo, commit>>
    BY <1>4 DEF StartRun, files
  <2>2. runs' \in 0..MaxRuns
    BY <1>0, <2>1, RegistryAssumption
  <2>3. \A q \in Repos : started'[q] <= runs' + handScans' /\ started'[q] < runs' + handScans'
    <3>. SUFFICES ASSUME NEW q \in Repos
                  PROVE  started'[q] <= runs' + handScans' /\ started'[q] < runs' + handScans'
      OBVIOUS
    <3>. DEFINE new == started'[q]
                sum == runs' + handScans'
    <3>1. new = started[q] /\ started[q] \in Nat /\ started[q] <= runs + handScans
          /\ sum = runs + handScans + 1
      BY <1>0, <2>1 DEF TallyInv
    <3>. HIDE DEF new, sum
    <3>2. new <= sum /\ new < sum
      BY <1>0, <3>1
    <3>. QED BY <3>2 DEF new, sum
  <2>. QED BY <2>1, <2>2, <2>3 DEF TallyInv
<1>5. CASE EndRun \/ \E r \in Repos : Skip(r) \/ StartClone(r)
  <2>1. UNCHANGED <<started, runs, handScans, commit>>
    BY <1>5 DEF EndRun, Skip, StartClone, files
  <2>2. \A r \in Repos : Due(r)' => Due(r)
    BY <1>5 DEF EndRun, Skip, StartClone, Take, Due
  <2>3. pc' \in {"cloning", "cloned"} => repo' \notin todo'
    BY <1>5 DEF EndRun, Skip, StartClone, Take
  <2>. QED BY <1>1, <2>1, <2>2, <2>3 DEF TallyInv
<1>6. CASE CloneEnds \/ CloneTimeout \/ ScanEnds \/ ScanTimeout \/ WriteMeta \/ Interrupt
  <2>1. UNCHANGED <<started, runs, handScans>>
    BY <1>6 DEF CloneEnds, CloneTimeout, ScanEnds, ScanTimeout, WriteMeta, Interrupt, files
  <2>2. \/ NextRepo \/ StopRun
        \/ /\ \/ pc = "cloning" /\ pc' = "cloned"
              \/ pc = "scanning" /\ pc' = "meta"
           /\ UNCHANGED <<repo, todo, commit>>
    <3>1. CASE CloneEnds
      BY <3>1 DEF CloneEnds
    <3>2. CASE ScanEnds
      BY <3>2 DEF ScanEnds
    <3>3. CASE CloneTimeout \/ ScanTimeout \/ WriteMeta \/ Interrupt
      BY <3>3 DEF CloneTimeout, ScanTimeout, WriteMeta, Interrupt
    <3>. QED BY <1>6, <3>1, <3>2, <3>3
  <2>3. \A r \in Repos : Due(r)' => Due(r)
    BY <2>2 DEF NextRepo, StopRun, Due
  <2>4. pc' \in {"cloning", "cloned"} => repo' \notin todo'
    BY <2>2 DEF NextRepo, StopRun, TallyInv
  <2>5. commit' \in Scans \cup {None}
    BY <2>2 DEF NextRepo, StopRun, TallyInv
  <2>. QED BY <1>1, <2>1, <2>3, <2>4, <2>5
<1>7. CASE StartScan
  <2>1. repo \in Repos /\ Starts("driver", repo)
    BY <1>7 DEF StartScan, TypeInv, Starts
  <2>2. /\ started'[repo] = started[repo] + 1
        /\ \A q \in Repos : q # repo => started'[q] = started[q]
    BY <1>7, <2>1, StartCounts DEF StartScan
  <2>3. /\ UNCHANGED <<runs, handScans, todo, repo>> /\ pc = "cloned" /\ pc' = "scanning"
        /\ commit' = started[repo] + 1
    BY <1>7 DEF StartScan
  <2>4. commit' \in Scans
    BY <1>0, <2>1, <2>3 DEF Scans
  <2>5. Due(repo)
    BY <2>3 DEF Due
  <2>6. \A q \in Repos : started'[q] <= runs + handScans
    BY <1>0, <2>1, <2>2, <2>5 DEF TallyInv
  <2>7. \A q \in Repos : Due(q)' => Due(q) /\ q # repo
    BY <2>3 DEF Due, TallyInv
  <2>8. \A q \in Repos : Due(q)' => started'[q] < runs + handScans
    BY <2>2, <2>7 DEF TallyInv
  <2>. QED BY <2>3, <2>4, <2>6, <2>8 DEF TallyInv
<1>8. CASE UNCHANGED <<files, driver>>
  BY <1>1, <1>8 DEF files, driver, TallyInv, Due
<1>9. (\E r \in Repos : OpenDirectory(r)) \/ ReadNext \/ AppendRow \/ UNCHANGED vars
        => UNCHANGED <<files, driver>>
  BY DEF OpenDirectory, ReadNext, AppendRow, vars
<1>. QED BY <1>2, <1>3, <1>4, <1>5, <1>6, <1>7, <1>8, <1>9 DEF Next, DriverStep

-----------------------------------------------------------------------------
(* Theorems.                                                               *)

\* Every step keeps the invariant.
LEMMA NextInv == IInv /\ [Next]_vars => IInv'
BY TypeNext, ChildNext, CloneNext, FreshNext, ReadingNext, SealNext DEF IInv

\* The inductive invariant holds in every state.
THEOREM Invariance == Spec => []IInv
<1>1. Init => IInv
  BY InitInv
<1>2. IInv /\ [Next]_vars => IInv'
  BY NextInv
<1>. QED BY <1>1, <1>2, PTL DEF Spec

\* The tally holds in every state.
THEOREM Tallied == Spec => []TallyInv
<1>1. Init => TallyInv
  <2>. SUFFICES ASSUME Init PROVE TallyInv
    OBVIOUS
  <2>1. \A r \in Repos : started[r] = 0
    BY DEF Init
  <2>. QED BY <2>1, RegistryAssumption DEF Init, TallyInv, Due
<1>2. IInv /\ TallyInv /\ [Next]_vars => TallyInv'
  BY TallyNext DEF IInv
<1>. QED BY <1>1, <1>2, Invariance, PTL DEF Spec

\* Every variable keeps its type; no scan has a number that its repository has
\* not reached, and no repository is scanned more often than people and the
\* driver's runs ask for.
THEOREM TypeCorrect == Spec => []TypeOK
<1>1. IInv /\ TallyInv => TypeOK
  <2>. SUFFICES ASSUME IInv, TallyInv PROVE TypeOK
    OBVIOUS
  <2>1. ASSUME NEW p \in Procs, Running(p)
        PROVE  /\ scan[p].repo \in Repos /\ scan[p].num \in 1..started[scan[p].repo]
               /\ scan[p].open \in BOOLEAN /\ (scan[p].open => scan[p].left # <<>>)
    <3>1. scan[p] \in ScanStates /\ (scan[p].open => scan[p].left # <<>>)
      BY <2>1 DEF IInv, TypeInv, Running
    <3>2. scan[p].repo \in Repos /\ scan[p].num \in Scans /\ scan[p].open \in BOOLEAN
      BY <3>1 DEF ScanStates
    <3>3. started[scan[p].repo] \in Nat /\ scan[p].num <= started[scan[p].repo]
      BY <2>1, <3>2 DEF IInv, TypeInv, SealInv, NumInv
    <3>4. scan[p].num \in 1..started[scan[p].repo]
      BY <3>2, <3>3 DEF Scans
    <3>. QED BY <3>1, <3>2, <3>4
  <2>2. started \in [Repos -> 0..(runs + handScans)]
    <3>1. /\ started \in [Repos -> Nat] /\ runs \in Nat /\ handScans \in Nat
          /\ \A r \in Repos : started[r] <= runs + handScans
      BY RegistryAssumption DEF IInv, TypeInv, TallyInv
    <3>2. \A r \in Repos : started[r] \in 0..(runs + handScans)
      BY <3>1
    <3>. QED BY <3>1, <3>2
  <2>3. Running("driver") => pc = "scanning" /\ scan["driver"].repo = repo
    BY DEF IInv, ChildInv
  <2>4. reading # None => reading.repo \in Repos /\ Len(reading.got) <= 4
    BY DEF IInv, ReadInv
  <2>. QED BY <2>1, <2>2, <2>3, <2>4 DEF IInv, TypeInv, TallyInv, TypeOK
<1>. QED BY <1>1, Invariance, Tallied, PTL

\* No scan reads a clone that was cut short: the driver scans only what git
\* says it finished in this run.
THEOREM KeptClones == Spec => []ScansKeptClones
<1>1. IInv => ScansKeptClones
  BY DEF IInv, CloneInv, ScansKeptClones
<1>. QED BY <1>1, Invariance, PTL

\* A row of the registry's page is of one scan, for any roster, any number of
\* runs and interrupts, and a reader that starts at any time.
THEOREM OneScanRows == Spec => []RowsAreOneScan
<1>1. IInv => RowsAreOneScan
  <2>. SUFFICES ASSUME IInv, AllRead, ~byHand[reading.repo]
                PROVE  /\ Read("ontology") = Read("profile")
                       /\ Read("receipt") \in {None, Read("profile")}
                       /\ Read("meta") \in {None, Read("profile")}
    BY DEF RowsAreOneScan
  <2>1. Len(ReadOrder) = 4
    BY DEF ReadOrder
  <2>2. /\ Read("profile") = reading.got[1] /\ Read("ontology") = reading.got[2]
        /\ Read("receipt") = reading.got[3] /\ Read("meta") = reading.got[4]
    BY <2>1 DEF Read, ReadOrder
  <2>3. reading # None /\ Len(reading.got) = 4
    BY <2>1 DEF AllRead
  <2>. QED BY <2>2, <2>3 DEF IInv, ReadInv
<1>. QED BY <1>1, Invariance, PTL

\* A published profile and its ontology are never replaced by a later run.
THEOREM PublishedStays == Spec => FinishedStays
<1>1. IInv /\ [Next]_vars =>
        [\A r \in Repos : ~byHand'[r] /\ disk[r]["profile"] \in Scans =>
           \A a \in {"profile", "ontology"} : disk'[r][a] = disk[r][a]]_vars
  BY ProfileKept DEF IInv
<1>. QED BY <1>1, Invariance, PTL DEF Spec, FinishedStays

\* A receipt that is of the ontology beside it vouches for the directory, for
\* any number of scans that die at any write.
THEOREM ReceiptVouches == Spec => []ReceiptSealsSet
<1>1. IInv => ReceiptSealsSet
  BY DEF IInv, SealInv, SealOf, ReceiptSealsSet
<1>. QED BY <1>1, Invariance, PTL
=============================================================================
