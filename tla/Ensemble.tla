------------------------------ MODULE Ensemble ------------------------------
(***************************************************************************)
(* The ensemble runner of src/orchestration/ensemble.ts: every run() call  *)
(* for a node lets several candidates work on copies of the project and    *)
(* merges the copy of one of them back.                                    *)
(*                                                                         *)
(* Calls of different nodes overlap when the executor has several workers. *)
(* Calls of one node follow each other, but the executor does not wait for *)
(* a call that exceeded its time limit: a retry may find it still at work. *)
(*                                                                         *)
(* Directories are flat.  The content of a file is the candidate that      *)
(* wrote it, <<call, candidate>>; a directory maps the files it has to     *)
(* their contents.  Candidates are numbered in the order of the list that  *)
(* selectCandidates returns, calls in the order the executor makes them.   *)
(***************************************************************************)
EXTENDS Integers, Sequences, FiniteSets

LOCAL INSTANCE FiniteSetsExt

CONSTANTS
  NumCalls,        \* bound on the run() calls
  NumCandidates,   \* maxCandidatesPerNode
  MaxParallel,     \* maxParallel
  Weight,          \* the weight of each candidate
  Quorum,          \* quorumWeight
  Node,            \* DAG nodes
  File,            \* file names
  ProjectFile,     \* files the project may have before the first call
  MayTimeOut,      \* the calls that may exceed their time limit
  MaxFaults        \* bound on the file operations that fail

Call == 1 .. NumCalls
Cand == 1 .. NumCandidates

ASSUME EnsembleAssumption ==
  /\ {NumCalls, MaxParallel, Quorum} \subseteq Nat \ {0}
  /\ NumCandidates \in Nat \ {0, 1}     \* one candidate runs in the project itself
  /\ Weight \in [Cand -> Nat \ {0}]
  /\ ProjectFile \subseteq File
  /\ MayTimeOut \subseteq Call /\ MaxFaults \in Nat

VARIABLES
  faults,      \* how many file operations have failed
  nodeOf,      \* the node each call is made for
  call,        \* where each call is
  abandoned,   \* the calls that exceeded their time limit
  stale,       \* (history) calls that kept files of an older one where copies failed
  torn,        \* (history) calls that left copies under way beside a candidate
  phase,       \* where each candidate of a call is
  left,        \* files still to be copied for a candidate
  result,      \* how a candidate ended
  winner,      \* the candidate a call has chosen, 0 before
  toMerge,     \* files of the winner's worktree still to be compared
  unwalked,    \* calls whose walk through the winner's worktree failed
  mergeErrors, \* files that could not be merged
  root,        \* the project directory
  worktree,    \* .omk/worktrees/ensemble/<node>/<candidate>
  undeleted,   \* (history) candidates whose worktree could not be removed
  wrote,       \* (history) files a candidate wrote after they were copied
  overlapped   \* (history) calls that did not have the project to themselves

vars == <<faults, nodeOf, call, abandoned, stale, torn, phase, left, result, winner,
          toMerge, unwalked, mergeErrors, root, worktree, undeleted, wrote, overlapped>>

(* mergeWinnerWorktree.                                                    *)
mergeVars == <<toMerge, unwalked, mergeErrors>>

Original == <<0, 0>>
Slot == Call \X Cand
Content == {Original} \cup Slot
Directory == UNION {[S -> Content] : S \in SUBSET File}

Empty == [f \in {} |-> Original]

(* The directory with new contents for some files.                         *)
Overlay(directory, files, content) ==
  [f \in DOMAIN directory \cup files |-> IF f \in files THEN content ELSE directory[f]]

(* The directory with no more than these files.                            *)
Only(directory, files) == [f \in DOMAIN directory \cap files |-> directory[f]]

(* A worktree is a sequence of at most one directory: none when removed.   *)
Removed == <<>>
Worktree == {Removed} \cup {<<d>> : d \in Directory}

Dir(s) == <<nodeOf[s[1]], s[2]>>
Exists(d) == worktree[d] # Removed
Files(d) == IF Exists(d) THEN DOMAIN worktree[d][1] ELSE {}

TypeOK ==
  /\ faults \in 0 .. MaxFaults
  /\ nodeOf \in [Call -> Node]
  /\ call \in [Call -> {"idle", "candidates", "merging", "succeeded", "failed", "rejected"}]
  /\ abandoned \in SUBSET Call
  /\ stale \in SUBSET Call /\ torn \in SUBSET Call
  /\ phase \in [Slot -> {"waiting", "copying", "running", "ended", "threw"}]
  /\ left \in [Slot -> SUBSET File]
  /\ result \in [Slot -> {"none", "failure", "weak", "strong"}]
  /\ winner \in [Call -> Cand \cup {0}]
  /\ toMerge \in [Call -> SUBSET File]
  /\ unwalked \in SUBSET Call /\ undeleted \in SUBSET Slot
  /\ mergeErrors \in [Call -> SUBSET File]
  /\ root \in Directory
  /\ worktree \in [Node \X Cand -> Worktree]
  /\ wrote \in [Slot -> SUBSET File]
  /\ overlapped \in SUBSET Call

Init ==
  /\ faults = 0
  /\ nodeOf \in [Call -> Node]
  /\ call = [c \in Call |-> "idle"]
  /\ abandoned = {}
  /\ stale = {} /\ torn = {}
  /\ phase = [s \in Slot |-> "waiting"]
  /\ left = [s \in Slot |-> {}]
  /\ result = [s \in Slot |-> "none"]
  /\ winner = [c \in Call |-> 0]
  /\ toMerge = [c \in Call |-> {}] /\ mergeErrors = [c \in Call |-> {}]
  /\ unwalked = {} /\ undeleted = {}
  /\ root \in {[f \in files |-> Original] : files \in SUBSET ProjectFile}
  /\ worktree = [d \in Node \X Cand |-> Removed]
  /\ wrote = [s \in Slot |-> {}]
  /\ overlapped = {}

-----------------------------------------------------------------------------
(* The executor.                                                           *)

(* mapWithConcurrency: a worker takes the next candidate; a candidate that *)
(* throws ends its worker.                                                 *)
Occupied(c) ==
  {i \in Cand : phase[<<c, i>>] \in {"copying", "running", "threw"}}

(* A rejected call may still have candidates at work or about to start,    *)
(* and one that has returned may still copy files into the project.        *)
AtWork(c) ==
  \/ call[c] \in {"candidates", "merging"} \/ toMerge[c] # {}
  \/ call[c] = "rejected" /\ \E i \in Cand :
       \/ phase[<<c, i>>] \in {"copying", "running"}
       \/ phase[<<c, i>>] = "waiting" /\ Cardinality(Occupied(c)) < MaxParallel

(* A node is run again only after its last call failed or was given up.    *)
(* Mutant: also while a call of the node is at work.                       *)
MayBeginAnyTime(c) == call[c] = "idle" /\ \A d \in 1 .. c - 1 : call[d] # "idle"

MayBegin(c) ==
  /\ call[c] = "idle"
  /\ \A d \in 1 .. c - 1 :
       /\ call[d] # "idle"
       /\ nodeOf[d] = nodeOf[c] => call[d] \in {"failed", "rejected"} \/ d \in abandoned

Begin(c) ==
  /\ MayBegin(c)
  /\ call' = [call EXCEPT ![c] = "candidates"]
  /\ overlapped' = overlapped \cup
       (LET others == {d \in Call : AtWork(d)} IN IF others = {} THEN {} ELSE {c} \cup others)
  /\ UNCHANGED <<faults, nodeOf, abandoned, stale, torn, phase, left, result, winner,
                 mergeVars, root, worktree, undeleted, wrote>>

(* The node's time limit, or the hard limit, wins the race: nothing stops  *)
(* the call.                                                               *)
TimeOut(c) ==
  /\ c \in MayTimeOut \ abandoned /\ call[c] \in {"candidates", "merging"}
  /\ abandoned' = abandoned \cup {c}
  /\ UNCHANGED <<faults, nodeOf, call, stale, torn, phase, left, result, winner,
                 mergeVars, root, worktree, undeleted, wrote, overlapped>>

-----------------------------------------------------------------------------
(* runCandidate.                                                           *)

(* The catch clause of the copy and copyWorktreeBase itself create the     *)
(* directory; what an earlier call left in it stays.                       *)
EnsureDir(d) == worktree' = [worktree EXCEPT ![d] = IF @ = Removed THEN <<Empty>> ELSE @]

(* The candidate starts to copy the project, and runs when all is copied.  *)
Copying(files) == IF files = {} THEN "running" ELSE "copying"

StartCandidate(c, i) ==
  /\ call[c] \in {"candidates", "rejected"}
  /\ phase[<<c, i>>] = "waiting"
  /\ \A j \in 1 .. i - 1 : phase[<<c, j>>] # "waiting"
  /\ Cardinality(Occupied(c)) < MaxParallel
  /\ phase' = [phase EXCEPT ![<<c, i>>] = Copying(DOMAIN root)]
  /\ left' = [left EXCEPT ![<<c, i>>] = DOMAIN root]
  /\ EnsureDir(Dir(<<c, i>>))
  /\ UNCHANGED <<faults, nodeOf, call, abandoned, stale, torn, result, winner,
                 mergeVars, root, undeleted, wrote, overlapped>>

(* Directory d, created if it is not there, with these files.              *)
Put(d, files, content) ==
  worktree' = [worktree EXCEPT ![d] =
    <<Overlay(IF @ = Removed THEN Empty ELSE @[1], files, content)>>]

(* A copyFile that fails after it has opened its target removes it.        *)
Loses(d, f) ==
  /\ f \in DOMAIN root /\ Exists(d)
  /\ worktree' = [worktree EXCEPT ![d] = <<Only(@[1], File \ {f})>>]

(* Operations on files may fail, up to a bound.                            *)
Faults(n) == faults + n <= MaxFaults /\ faults' = faults + n

(* One copyFile, which creates the directory again if the file is in a     *)
(* subdirectory that is still to be walked.  The copies that were under    *)
(* way when another one failed go on beside the candidate.                 *)
CopyFile(c, i, f) ==
  LET s == <<c, i>> IN
  /\ f \in left[s] /\ f \in DOMAIN root
  /\ Put(Dir(s), {f}, root[f])
  /\ left' = [left EXCEPT ![s] = @ \ {f}]
  /\ phase' = [phase EXCEPT ![s] = IF @ = "copying" THEN Copying(left[s] \ {f}) ELSE @]
  /\ UNCHANGED <<faults, nodeOf, call, abandoned, stale, torn, result, winner,
                 mergeVars, root, undeleted, wrote, overlapped>>

(* Such a copy may fail as well, for whatever the first one failed.        *)
CopyMissed(c, i, f) ==
  /\ f \in left[<<c, i>>] /\ phase[<<c, i>>] # "copying"
  /\ left' = [left EXCEPT ![<<c, i>>] = @ \ {f}]
  /\ UNCHANGED worktree \/ Loses(Dir(<<c, i>>), f)
  /\ UNCHANGED <<faults, nodeOf, call, abandoned, stale, torn, phase, result, winner,
                 mergeVars, root, undeleted, wrote, overlapped>>

(* A copy fails, or finds the directory removed: the catch clause creates  *)
(* the directory and the candidate starts on what is there.                *)
CopyFails(c, i, f) ==
  LET s == <<c, i>> IN
  /\ phase[s] = "copying" /\ f \in left[s]
  /\ Faults(IF Exists(Dir(s)) /\ f \in DOMAIN root THEN 1 ELSE 0)
  /\ phase' = [phase EXCEPT ![s] = "running"]
  /\ left' = [left EXCEPT ![s] = @ \ {f}]
  /\ stale' = IF left[s] \cap Files(Dir(s)) = {} THEN stale ELSE stale \cup {c}
  /\ torn' = IF left[s] = {f} THEN torn ELSE torn \cup {c}
  /\ EnsureDir(Dir(s)) \/ Loses(Dir(s), f)
  /\ UNCHANGED <<nodeOf, call, abandoned, result, winner, mergeVars, root, undeleted,
                 wrote, overlapped>>

(* What cleanupWorktree leaves of a worktree: nothing, or what rm had not  *)
(* removed when it failed, which nobody is told.                           *)
Remains(d) ==
  {Removed} \cup
    {<<Only(worktree[d][1], files)>> : files \in IF Exists(d) THEN SUBSET Files(d) ELSE {}}

(* When the directory cannot be created either, the candidate throws, its  *)
(* worktree is cleaned up and the call rejects.                            *)
CandidateThrows(c, i) ==
  /\ Faults(1) /\ phase[<<c, i>>] = "copying"
  /\ phase' = [phase EXCEPT ![<<c, i>>] = "threw"]
  /\ \E rest \in Remains(Dir(<<c, i>>)) :
       worktree' = [worktree EXCEPT ![Dir(<<c, i>>)] = rest]
  /\ call' = [call EXCEPT ![c] = "rejected"]
  /\ UNCHANGED <<nodeOf, abandoned, stale, torn, left, result, winner, mergeVars, root,
                 undeleted, wrote, overlapped>>

(* No copy that is still under way will overwrite the file.                *)
Settled(d, f) == \A t \in Slot : Dir(t) = d => f \notin left[t]

(* baseRunner.run: the agent writes files of its working directory, if it  *)
(* is still there, and ends: it fails, or succeeds with a score that is    *)
(* zero ("weak") or not.                                                   *)
EndCandidate(c, i, files, r) ==
  LET s == <<c, i>> IN
  /\ phase[s] = "running"
  /\ Exists(Dir(s)) \/ files = {}
  /\ phase' = [phase EXCEPT ![s] = "ended"]
  /\ result' = [result EXCEPT ![s] = r]
  /\ wrote' = [wrote EXCEPT ![s] = {f \in files : Settled(Dir(s), f)}]
  /\ IF files = {} THEN UNCHANGED worktree ELSE Put(Dir(s), files, s)
  /\ UNCHANGED <<faults, nodeOf, call, abandoned, stale, torn, left, winner, mergeVars,
                 root, undeleted, overlapped>>

-----------------------------------------------------------------------------
(* aggregateCandidateResults.                                              *)

(* Every result counts, and the first of those with the highest score      *)
(* wins.  Scores above zero depend on weights and confidence: any of those *)
(* candidates may have the highest.                                        *)
Strong(c) == {i \in Cand : result[<<c, i>>] = "strong"}

Best(c) == IF Strong(c) = {} THEN {1} ELSE Strong(c)

QuorumReached(c) ==
  MapThenSumSet(LAMBDA i : Weight[i],
                {i \in Cand : result[<<c, i>>] \in {"weak", "strong"}}) >= Quorum

(* When the last candidate is back the winner is chosen and the files of   *)
(* its worktree, if it is still there, are listed.  Mutant: the index of   *)
(* the winner is off by one.                                               *)
ChooseNext(c) ==
  \E w \in Best(c) :
    /\ winner' = [winner EXCEPT ![c] = w + 1]
    /\ toMerge' = [toMerge EXCEPT ![c] = Files(Dir(<<c, w>>))]
    /\ wrote' = [s \in Slot |-> IF s[1] = c /\ s[2] # w THEN {} ELSE wrote[s]]

Choose(c) ==
  \E w \in Best(c) :
    /\ winner' = [winner EXCEPT ![c] = w]
    /\ toMerge' = [toMerge EXCEPT ![c] = Files(Dir(<<c, w>>))]
    /\ wrote' = [s \in Slot |-> IF s[1] = c /\ s[2] # w THEN {} ELSE wrote[s]]

Aggregate(c) ==
  /\ call[c] = "candidates" /\ \A i \in Cand : phase[<<c, i>>] = "ended"
  /\ call' = [call EXCEPT ![c] = "merging"]
  /\ Choose(c)
  /\ UNCHANGED <<faults, nodeOf, abandoned, stale, torn, phase, left, result, unwalked,
                 mergeErrors, root, worktree, undeleted, overlapped>>

(* mergeWinnerWorktree compares one file and copies it when it differs.    *)
(* Mutants: files that the project already has are kept; the worktree of   *)
(* the first candidate is taken whoever has won.                           *)
Differs(d, f) == f \in DOMAIN root => root[f] # worktree[d][1][f]

Merge(c, f, d, shouldCopy) ==
  /\ f \in toMerge[c] /\ f \in Files(d)
  /\ toMerge' = [toMerge EXCEPT ![c] = @ \ {f}]
  /\ root' = IF shouldCopy THEN Overlay(root, {f}, worktree[d][1][f]) ELSE root
  /\ UNCHANGED <<faults, nodeOf, call, abandoned, stale, torn, phase, left, result,
                 winner, unwalked, mergeErrors, worktree, undeleted, wrote, overlapped>>

MergeNewOnly(c, f) == Merge(c, f, Dir(<<c, winner[c]>>), f \notin DOMAIN root)

MergeFirst(c, f) == Merge(c, f, Dir(<<c, 1>>), TRUE)

MergeFile(c, f) == LET d == Dir(<<c, winner[c]>>) IN Merge(c, f, d, Differs(d, f))

(* A file that is gone, or cannot be read or copied, is noted as an error; *)
(* the project keeps what it has, or loses the file when the copy fails    *)
(* (equal files are copied as well when they could not be compared).       *)
MergeFails(c, f) ==
  LET d == Dir(<<c, winner[c]>>) IN
  /\ f \in toMerge[c]
  /\ toMerge' = [toMerge EXCEPT ![c] = @ \ {f}]
  /\ mergeErrors' = [mergeErrors EXCEPT ![c] = @ \cup {f}]
  /\ \/ Faults(IF f \in Files(d) THEN 1 ELSE 0) /\ UNCHANGED root
     \/ /\ f \in Files(d) \cap DOMAIN root /\ Faults(IF Differs(d, f) THEN 1 ELSE 2)
        /\ root' = Only(root, File \ {f})
  /\ UNCHANGED <<nodeOf, call, abandoned, stale, torn, phase, left, result, winner,
                 unwalked, worktree, undeleted, wrote, overlapped>>

(* A directory cannot be read: what is in it is not merged, and the call   *)
(* goes on while the other files are still being merged.                   *)
WalkFails(c) ==
  /\ Faults(1) /\ call[c] = "merging" /\ toMerge[c] # {} /\ c \notin unwalked
  /\ unwalked' = unwalked \cup {c}
  /\ \E seen \in SUBSET toMerge[c] : toMerge' = [toMerge EXCEPT ![c] = seen]
  /\ UNCHANGED <<nodeOf, call, abandoned, stale, torn, phase, left, result, winner,
                 mergeErrors, root, worktree, undeleted, wrote, overlapped>>

(* The worktrees of all candidates are cleaned up and the call returns.    *)
(* Mutant: only that of the winner is.                                     *)
Finish(c, cleaned) ==
  /\ call[c] = "merging" /\ (toMerge[c] = {} \/ c \in unwalked)
  /\ \E rest \in [cleaned -> UNION {Remains(d) : d \in cleaned}] :
       /\ \A d \in cleaned : rest[d] \in Remains(d)
       /\ Faults(Cardinality({d \in cleaned : rest[d] # Removed}))
       /\ worktree' = [d \in Node \X Cand |-> IF d \in cleaned THEN rest[d] ELSE worktree[d]]
       /\ undeleted' = undeleted \cup
            {s \in Slot : s[1] = c /\ Dir(s) \in cleaned /\ rest[Dir(s)] # Removed}
  /\ call' = [call EXCEPT ![c] = IF QuorumReached(c) THEN "succeeded" ELSE "failed"]
  /\ result' = [s \in Slot |-> IF s[1] = c THEN "none" ELSE result[s]]
  /\ UNCHANGED <<nodeOf, abandoned, stale, torn, phase, left, winner, mergeVars, root,
                 wrote, overlapped>>

ReturnKeepsLosers(c) == Finish(c, {Dir(<<c, winner[c]>>)})

Return(c) == Finish(c, {Dir(<<c, i>>) : i \in Cand})

CopyStep(c, i) ==
  \/ StartCandidate(c, i)
  \/ \E f \in File : CopyFile(c, i, f) \/ CopyMissed(c, i, f) \/ CopyFails(c, i, f)
  \/ CandidateThrows(c, i)

AgentStep(c, i) ==
  \E files \in SUBSET File, r \in {"failure", "weak", "strong"} : EndCandidate(c, i, files, r)

MergeStep(c) ==
  \/ Aggregate(c) \/ WalkFails(c) \/ Return(c)
  \/ \E f \in File : MergeFile(c, f) \/ MergeFails(c, f)

Terminated ==
  /\ \A c \in Call : ~MayBegin(c) /\ ~AtWork(c)
  /\ UNCHANGED vars

Next ==
  \/ \E c \in Call : Begin(c) \/ TimeOut(c) \/ MergeStep(c)
  \/ \E c \in Call, i \in Cand : CopyStep(c, i) \/ AgentStep(c, i)
  \/ Terminated

Spec == Init /\ [][Next]_vars

-----------------------------------------------------------------------------
(* Properties.                                                             *)

(* Two candidates at work in one directory are the same candidate in two   *)
(* calls for one node, of which the earlier one has exceeded its limit or  *)
(* was rejected because of another candidate.                              *)
Working(s) == phase[s] \in {"copying", "running"}
GivenUp(c) == c \in abandoned \/ call[c] = "rejected"

SharedOnlyWhenGivenUp ==
  \A s, t \in Slot :
    s[1] < t[1] /\ Working(s) /\ Working(t) /\ Dir(s) = Dir(t) => GivenUp(s[1])

(* What is in the project was there before, or was written by the chosen   *)
(* candidate of a call.  The work of another candidate gets there only     *)
(* when it was in the directory that another call of its node merged:      *)
(* because one of the two was given up, the directory could not be         *)
(* removed, or the merge went on after its call had returned.              *)
Strayed(x, d) ==
  \/ GivenUp(x[1]) \/ x \in undeleted
  \/ GivenUp(d) \/ d \in unwalked

Earned(x) ==
  x = Original \/ \E d \in Call :
    /\ winner[d] = x[2]
    /\ x[1] = d \/ (nodeOf[x[1]] = nodeOf[d] /\ Strayed(x, d))

OnlyWinnersReachRoot == \A f \in DOMAIN root : Earned(root[f])

(* A call that had the project to itself changed what its winner changed,  *)
(* unless it could not merge the file or read a directory, and only a      *)
(* later call may have changed it again since: to what is newer, unless    *)
(* that call could not merge the file, or found an old worktree of its     *)
(* node and could not copy the project into it.                            *)
Undone(c, f) ==
  \E d \in Call : c < d /\ (f \in mergeErrors[d] \/ (d \in stale /\ winner[d] # 0))

DeliveredStays ==
  \A c \in Call \ (overlapped \cup unwalked) : call[c] \in {"succeeded", "failed"} =>
    \A f \in wrote[<<c, winner[c]>>] \ mergeErrors[c] :
      Undone(c, f) \/ (f \in DOMAIN root /\ root[f][1] >= c)

(* When every call has returned no worktree is left that its call could    *)
(* remove, in whichever order overlapping calls of one node have created   *)
(* and removed it: unless a call was rejected, or a failed copy left       *)
(* others under way that create the directory again.                       *)
NoWorktreeLeft ==
  (\A c \in Call : call[c] \in {"idle", "succeeded", "failed"}) /\ torn = {} =>
    \A d \in Node \X Cand : Exists(d) => \E s \in undeleted : Dir(s) = d

(* The inductive invariant behind these properties.                        *)
(*                                                                         *)
(* How far calls are and what that says of their candidates.               *)
CallCourse(c) ==
  /\ winner[c] # 0 <=> call[c] \in {"merging", "succeeded", "failed"}
  /\ call[c] = "idle" => \A i \in Cand : phase[<<c, i>>] = "waiting"
  /\ winner[c] # 0 => \A i \in Cand : phase[<<c, i>>] = "ended"
  /\ toMerge[c] # {} => winner[c] # 0 /\ (call[c] = "merging" \/ c \in unwalked)
  /\ c \in unwalked \/ mergeErrors[c] # {} => winner[c] # 0
  /\ \A d \in 1 .. c - 1 : call[c] # "idle" =>
       /\ call[d] # "idle"
       /\ nodeOf[d] = nodeOf[c] => call[d] = "failed" \/ GivenUp(d)

SlotCourse(s) ==
  /\ phase[s] = "waiting" => left[s] = {}
  /\ left[s] # {} => phase[s] = "copying" \/ s[1] \in torn \/ call[s[1]] = "rejected"
  /\ wrote[s] # {} => phase[s] = "ended"

Courses ==
  /\ \A c \in Call : CallCourse(c)
  /\ \A s \in Slot : SlotCourse(s)

(* A call at work has been so since it began.                              *)
Overlaps ==
  \A c, d \in Call : d < c /\ call[c] # "idle" /\ AtWork(d) =>
    c \in overlapped /\ (AtWork(c) => d \in overlapped)

(* Whose worktrees there are, and what of them was written there.          *)
Owned ==
  torn # {} \/ \A e \in Node \X Cand : Exists(e) =>
    \/ \E s \in undeleted : Dir(s) = e
    \/ \E c \in Call : nodeOf[c] = e[1] /\ call[c] \in {"candidates", "merging", "rejected"}

Traced ==
  \A e \in Node \X Cand : \A f \in Files(e) :
    LET x == worktree[e][1][f] IN
    \/ Earned(x)
    \/ /\ Dir(x) = e
       /\ \/ call[x[1]] \in {"candidates", "merging"}
          \/ GivenUp(x[1]) \/ x \in undeleted

(* The changes of a call that has the project to itself are on their way   *)
(* to the project, ...                                                     *)
Delivering ==
  \A c \in Call \ overlapped : call[c] \in {"candidates", "merging"} =>
    \A i \in Cand : \A f \in wrote[<<c, i>>] :
      /\ \A s \in Slot : Dir(s) = Dir(<<c, i>>) => f \notin left[s]
      /\ f \in Files(Dir(<<c, i>>)) /\ worktree[Dir(<<c, i>>)][1][f] = <<c, i>>
      /\ call[c] = "merging" =>
           /\ i = winner[c]
           /\ \/ c \in unwalked \/ f \in toMerge[c] \cup mergeErrors[c]
              \/ f \in DOMAIN root /\ root[f] = <<c, i>>

(* ... and later calls work on them.                                       *)
Fresh ==
  \A c \in Call \ (overlapped \cup unwalked), d \in Call \ stale :
    /\ c < d /\ call[c] \in {"succeeded", "failed"}
    /\ call[d] \in {"candidates", "merging"} \/ toMerge[d] # {}
    => \A i \in Cand :
         \A f \in (wrote[<<c, winner[c]>>] \ mergeErrors[c]) \cap Files(Dir(<<d, i>>)) :
           \/ phase[<<d, i>>] = "waiting"
           \/ phase[<<d, i>>] = "copying" /\ f \in left[<<d, i>>]
           \/ worktree[Dir(<<d, i>>)][1][f][1] >= c
           \/ Undone(c, f)

EnsembleInv ==
  /\ TypeOK /\ Courses /\ Overlaps /\ Owned /\ OnlyWinnersReachRoot /\ Traced
  /\ Delivering /\ DeliveredStays /\ Fresh

(* README: "Workers do not share mutable context; they operate in isolated *)
(* lanes until evidence is reviewed and merged."                           *)
IsolatedLanes ==
  \A s, t \in Slot : s # t /\ Working(s) /\ Working(t) => Dir(s) # Dir(t)
=============================================================================
