--------------------------- MODULE ServicesProofs ---------------------------
(***************************************************************************)
(* Proofs about GoalLoop, for every set of commands and every limit, about *)
(* CronEngine, for any jobs and settings and any number of ticks that      *)
(* overlap, and about MCServices, in which they take turns with the other  *)
(* components around the executor: what is proved of a component by itself *)
(* holds of that instance too.                                             *)
(***************************************************************************)
EXTENDS MCServices, DagProofs, WireClientProofs, McpHostProofs, ProviderProofs

-----------------------------------------------------------------------------
(* The goal loop.                                                          *)

(* The runs a command has made, counted by where it is.                    *)
Counted(p) ==
  /\ at[p] \notin {"running", "failing", "deciding", "over"} => made[p] = 0 /\ iteration[p] = 0
  /\ at[p] = "running" => made[p] <= iteration[p]
  /\ at[p] \in {"failing", "deciding", "over"} => made[p] <= iteration[p] + 1
  /\ iteration[p] <= limit[p]

(* A command never loses a run it made from its own copy.                  *)
Remembered(p) == at[p] # "idle" => RunsOf(p) \subseteq copy[p].runs

GoalInv ==
  /\ GoalTypeOK
  /\ \A p \in Command : Counted(p)
  /\ \A p \in Command : Remembered(p)
  /\ RunsRecorded

LEMMA InitGoalInv == GoalInit => GoalInv
<1> SUFFICES ASSUME GoalInit PROVE GoalInv
  OBVIOUS
<1>1. GoalTypeOK
  BY GoalLoopAssumption DEF GoalInit, GoalTypeOK, Goal, GoalStatus
<1>2. ASSUME NEW p \in Command PROVE Counted(p) /\ RunsOf(p) = {} /\ at[p] = "idle"
  BY GoalLoopAssumption DEF GoalInit, Counted, RunsOf
<1>3. RunsRecorded /\ \A p \in Command : Remembered(p)
  BY <1>2 DEF RunsRecorded, Remembered
<1> QED BY <1>1, <1>2, <1>3 DEF GoalInv

(* What a command does to the copies and the file, whatever its reason:    *)
(* it loads, or it saves its copy with as many runs and those made since.  *)
Loads(p) ==
  /\ copy' = [copy EXCEPT ![p] = goal]
  /\ UNCHANGED <<goal, made>>

Saves(p) ==
  \E g \in Goal :
    /\ copy' = [copy EXCEPT ![p] = g] /\ goal' = g
    /\ copy[p].runs \subseteq g.runs
    /\ \A q \in Command \ {p} : made'[q] = made[q]
    /\ RunsOf(p)' \subseteq RunsOf(p) \cup g.runs

LEMMA LoadKeepsRuns ==
  ASSUME GoalInv, NEW p \in Command, Loads(p), made[p] = 0,
         at' = [at EXCEPT ![p] = at'[p]], at'[p] # "idle"
  PROVE  RunsRecorded' /\ \A q \in Command : Remembered(q)'
<1>1. \A q \in Command : RunsOf(q)' = RunsOf(q)
  BY DEF Loads, RunsOf
<1>2. RunsOf(p) = {}
  BY DEF RunsOf
<1>3. \A q \in Command : /\ q # p => copy'[q] = copy[q] /\ at'[q] = at[q]
                         /\ q = p => copy'[q] = goal
  BY DEF Loads, GoalInv, GoalTypeOK
<1>4. \A q \in Command : Remembered(q)'
  BY <1>1, <1>2, <1>3 DEF GoalInv, Remembered
<1>5. ASSUME NEW q \in Command, ~(RunsOf(q)' \subseteq goal'.runs)
      PROVE  \E w \in Command \ {q} : /\ at'[w] # "idle" /\ goal'.runs \subseteq copy'[w].runs
                                      /\ ~(RunsOf(q)' \subseteq copy'[w].runs)
  <2>1. goal' = goal /\ ~(RunsOf(q) \subseteq goal.runs)
    BY <1>1, <1>5 DEF Loads
  <2>2. PICK w \in Command \ {q} : /\ at[w] # "idle" /\ goal.runs \subseteq copy[w].runs
                                   /\ ~(RunsOf(q) \subseteq copy[w].runs)
    BY <2>1 DEF GoalInv, RunsRecorded
  <2> QED BY <1>1, <1>3, <2>1, <2>2
<1> QED BY <1>4, <1>5 DEF RunsRecorded

LEMMA SaveKeepsRuns ==
  ASSUME GoalInv, NEW p \in Command, Saves(p), at[p] # "idle",
         at' = [at EXCEPT ![p] = at'[p]], at'[p] # "idle"
  PROVE  RunsRecorded' /\ \A q \in Command : Remembered(q)'
<1>1. PICK g \in Goal :
        /\ copy' = [copy EXCEPT ![p] = g] /\ goal' = g
        /\ copy[p].runs \subseteq g.runs
        /\ \A q \in Command \ {p} : made'[q] = made[q]
        /\ RunsOf(p)' \subseteq RunsOf(p) \cup g.runs
  BY DEF Saves
<1>2. \A q \in Command \ {p} : RunsOf(q)' = RunsOf(q) /\ copy'[q] = copy[q] /\ at'[q] = at[q]
  BY <1>1 DEF RunsOf, GoalInv, GoalTypeOK
<1>3. copy'[p] = g /\ RunsOf(p)' \subseteq g.runs
  BY <1>1 DEF GoalInv, GoalTypeOK, Remembered
<1>4. \A q \in Command : Remembered(q)'
  BY <1>2, <1>3 DEF GoalInv, Remembered
<1>5. ASSUME NEW q \in Command, ~(RunsOf(q)' \subseteq goal'.runs)
      PROVE  \E w \in Command \ {q} : /\ at'[w] # "idle" /\ goal'.runs \subseteq copy'[w].runs
                                      /\ ~(RunsOf(q)' \subseteq copy'[w].runs)
  <2>1. q # p
    BY <1>1, <1>3, <1>5
  <2> QED BY <1>1, <1>3, <1>5, <2>1
<1> QED BY <1>4, <1>5 DEF RunsRecorded

(* Every step of a command loads, saves or leaves the goal alone, and      *)
(* keeps its count.                                                        *)
LEMMA StepKeeps ==
  ASSUME GoalInv, NEW p \in Command, GoalTypeOK', limit' = limit,
         at' = [at EXCEPT ![p] = at'[p]], at'[p] # "idle",
         \A q \in Command \ {p} : made'[q] = made[q] /\ iteration'[q] = iteration[q],
         Counted(p)',
         \/ Loads(p) /\ made[p] = 0
         \/ Saves(p) /\ at[p] # "idle"
         \/ UNCHANGED <<goal, copy, made>> /\ at[p] # "idle"
  PROVE  GoalInv'
<1>1. \A q \in Command : Counted(q)'
  BY DEF GoalInv, Counted, GoalTypeOK
<1>2. CASE UNCHANGED <<goal, copy, made>> /\ at[p] # "idle"
  <2>1. \A q \in Command : RunsOf(q)' = RunsOf(q) /\ (at[q] # "idle" <=> at'[q] # "idle")
    BY <1>2 DEF RunsOf, GoalInv, GoalTypeOK
  <2>2. \A q \in Command : Remembered(q)'
    BY <1>2, <2>1 DEF GoalInv, Remembered
  <2>3. RunsRecorded'
    BY <1>2, <2>1 DEF GoalInv, RunsRecorded
  <2> QED BY <1>1, <2>2, <2>3 DEF GoalInv
<1>3. CASE ~(UNCHANGED <<goal, copy, made>> /\ at[p] # "idle")
  <2>1. RunsRecorded' /\ \A q \in Command : Remembered(q)'
    BY <1>3, LoadKeepsRuns, SaveKeepsRuns
  <2> QED BY <1>1, <2>1 DEF GoalInv
<1> QED BY <1>2, <1>3

(* Saving a status keeps the runs.                                         *)
LEMMA StatusSaves ==
  ASSUME GoalInv, NEW p \in Command, NEW s \in GoalStatus, SaveStatus(p, s), made' = made
  PROVE  Saves(p) /\ goal' \in Goal /\ copy' \in [Command -> Goal]
<1> DEFINE g == [copy[p] EXCEPT !.status = s]
<1>1. copy[p] \in Goal
  BY DEF GoalInv, GoalTypeOK
<1>2. g \in Goal /\ g.runs = copy[p].runs
  BY <1>1 DEF Goal
<1>3. copy' = [copy EXCEPT ![p] = g] /\ goal' = g
  BY DEF SaveStatus, Save
<1>4. RunsOf(p)' = RunsOf(p)
  BY DEF RunsOf
<1> HIDE DEF g
<1> QED BY <1>2, <1>3, <1>4 DEF Saves, GoalInv, GoalTypeOK

LEMMA NextGoalInv == GoalInv /\ [GoalNext]_goalVars => GoalInv'
<1> SUFFICES ASSUME GoalInv, [GoalNext]_goalVars PROVE GoalInv'
  OBVIOUS
<1>0. GoalTypeOK /\ MaxIterations \in Nat /\ \A p \in Command : Counted(p)
  BY GoalLoopAssumption DEF GoalInv
<1>1. ASSUME NEW p \in Command, NEW kind \in {"run", "plan", "block", "close", "verify"},
             LoadGoal(p, kind)
      PROVE  GoalInv'
  <2>1. Loads(p) /\ made[p] = 0 /\ at' = [at EXCEPT ![p] = kind] /\ UNCHANGED <<limit, iteration, made>>
    BY <1>0, <1>1 DEF LoadGoal, Loads, MoveCommand, Counted
  <2>2. GoalTypeOK' /\ at'[p] = kind
    BY <1>0, <2>1 DEF GoalTypeOK, Loads
  <2>3. Counted(p)'
    BY <1>0, <1>1, <2>1, <2>2 DEF Counted, LoadGoal
  <2> QED BY <2>1, <2>2, <2>3, StepKeeps
<1>2. ASSUME NEW p \in Command, NEW s \in GoalStatus, SaveStatus(p, s),
             NEW there \in {"over", "verified", "reload"}, MoveCommand(p, there),
             at[p] # "idle", Counted(p)', UNCHANGED <<limit, iteration, made>>
      PROVE  GoalInv'
  <2>1. Saves(p) /\ goal' \in Goal /\ copy' \in [Command -> Goal]
    BY <1>2, StatusSaves
  <2>2. at' = [at EXCEPT ![p] = there] /\ at'[p] = there
    BY <1>0, <1>2 DEF MoveCommand, GoalTypeOK
  <2>3. GoalTypeOK'
    BY <1>0, <1>2, <2>1, <2>2 DEF GoalTypeOK
  <2> QED BY <1>2, <2>1, <2>2, <2>3, StepKeeps
<1>3. ASSUME NEW p \in Command, SetStatus(p) PROVE GoalInv'
  <2>1. PICK s \in GoalStatus : SaveStatus(p, s) /\ at[p] # "idle"
    BY <1>3 DEF SetStatus, GoalStatus
  <2>2. MoveCommand(p, "over") /\ UNCHANGED <<limit, iteration, made>>
    BY <1>3 DEF SetStatus
  <2>3. at'[p] = "over"
    BY <1>0, <2>2 DEF MoveCommand, GoalTypeOK
  <2>4. Counted(p)'
    BY <1>0, <1>3, <2>2, <2>3 DEF Counted, SetStatus
  <2> QED BY <1>2, <2>1, <2>2, <2>4
<1>4. ASSUME NEW p \in Command, VerifyBegins(p) PROVE GoalInv'
  <2>1. at'[p] = "verified" /\ "verifying" \in GoalStatus
    BY <1>0, <1>4 DEF MoveCommand, GoalTypeOK, VerifyBegins, GoalStatus
  <2>2. Counted(p)'
    BY <1>0, <1>4, <2>1 DEF Counted, VerifyBegins
  <2> QED BY <1>2, <1>4, <2>1, <2>2 DEF VerifyBegins
<1>5. ASSUME NEW p \in Command, NEW score, Verified(p, score) PROVE GoalInv'
  <2>1. PICK s \in GoalStatus : SaveStatus(p, s)
    BY <1>5 DEF Verified, GoalStatus
  <2>2. at'[p] = "over"
    BY <1>0, <1>5 DEF MoveCommand, GoalTypeOK, Verified
  <2>3. Counted(p)'
    BY <1>0, <1>5, <2>2 DEF Counted, Verified
  <2> QED BY <1>2, <1>5, <2>1, <2>3 DEF Verified
<1>6. ASSUME NEW p \in Command, MarkRunning(p) PROVE GoalInv'
  <2>1. at'[p] = "reload" /\ "running" \in GoalStatus
    BY <1>0, <1>6 DEF MoveCommand, GoalTypeOK, MarkRunning, GoalStatus
  <2>2. Counted(p)'
    BY <1>0, <1>6, <2>1 DEF Counted, MarkRunning
  <2> QED BY <1>2, <1>6, <2>1, <2>2 DEF MarkRunning
<1>7. ASSUME NEW p \in Command, LoadForLoop(p) PROVE GoalInv'
  <2>1. Loads(p) /\ made[p] = 0 /\ at' = [at EXCEPT ![p] = "running"]
        /\ UNCHANGED <<limit, iteration, made>>
    BY <1>0, <1>7 DEF LoadForLoop, Loads, MoveCommand, Counted
  <2>2. GoalTypeOK' /\ at'[p] = "running"
    BY <1>0, <2>1 DEF GoalTypeOK, Loads
  <2>3. Counted(p)'
    BY <1>0, <1>7, <2>1, <2>2 DEF Counted, LoadForLoop
  <2> QED BY <2>1, <2>2, <2>3, StepKeeps
<1>8. ASSUME NEW p \in Command, NEW success \in BOOLEAN, RunReturns(p, success) PROVE GoalInv'
  <2> DEFINE k == made[p] + 1
             g == [copy[p] EXCEPT !.runs = @ \cup {<<p, k>>}]
  <2>1. /\ made' = [made EXCEPT ![p] = k] /\ copy' = [copy EXCEPT ![p] = g] /\ goal' = g
        /\ at' = [at EXCEPT ![p] = IF success THEN "deciding" ELSE "failing"]
        /\ at[p] = "running" /\ UNCHANGED <<limit, iteration>> /\ made'[p] = k
    BY <1>0, <1>8 DEF RunReturns, Save, MoveCommand, GoalTypeOK
  <2>2. /\ made[p] <= iteration[p] /\ made[p] \in Nat
        /\ iteration[p] \in 0 .. MaxIterations /\ copy[p] \in Goal
    BY <1>0, <2>1 DEF Counted, GoalTypeOK
  <2>3. k \in 1 .. MaxIterations + 1
    BY <1>0, <2>2
  <2>4. g \in Goal /\ g.runs = copy[p].runs \cup {<<p, k>>}
    BY <2>2, <2>3 DEF Goal
  <2>5. RunsOf(p)' \subseteq RunsOf(p) \cup g.runs
    <3>1. made[p] \in Nat
      BY <1>0, <2>2
    <3>2. 1 .. k = (1 .. made[p]) \cup {k}
      BY <3>1
    <3>3. RunsOf(p)' = {p} \X (1 .. k)
      BY <2>1 DEF RunsOf
    <3> HIDE DEF k, g
    <3> QED BY <2>4, <3>2, <3>3 DEF RunsOf
  <2> HIDE DEF k, g
  <2>6. Saves(p)
    BY <1>0, <2>1, <2>4, <2>5 DEF Saves, GoalTypeOK
  <2>7. GoalTypeOK'
    BY <1>0, <2>1, <2>3, <2>4 DEF GoalTypeOK
  <2>8. Counted(p)' /\ at'[p] # "idle"
    <3>1. at'[p] \in {"deciding", "failing"} /\ made'[p] <= iteration'[p] + 1 /\ limit' = limit
      BY <1>0, <2>1, <2>2 DEF GoalTypeOK, k
    <3>2. iteration'[p] <= limit'[p]
      BY <1>0, <2>1, <2>2, <3>1 DEF Counted
    <3> QED BY <3>1, <3>2 DEF Counted
  <2>9. /\ \A q \in Command \ {p} : made'[q] = made[q] /\ iteration'[q] = iteration[q]
        /\ at' = [at EXCEPT ![p] = at'[p]]
    BY <1>0, <2>1 DEF GoalTypeOK
  <2> QED BY <2>1, <2>6, <2>7, <2>8, <2>9, StepKeeps
<1>9. ASSUME NEW p \in Command, MarkFailed(p) PROVE GoalInv'
  <2>1. at'[p] = "over" /\ "failed" \in GoalStatus
    BY <1>0, <1>9 DEF MoveCommand, GoalTypeOK, MarkFailed, GoalStatus
  <2>2. Counted(p)'
    BY <1>0, <1>9, <2>1 DEF Counted, MarkFailed
  <2> QED BY <1>2, <1>9, <2>1, <2>2 DEF MarkFailed
<1>10. ASSUME NEW p \in Command, NEW score, NEW vote, Decide(p, score, vote) PROVE GoalInv'
  <2> DEFINE action == NextAction(p, score, vote)
             again == action \in {"continue", "replan"} /\ iteration[p] < limit[p]
  <2>1. /\ at[p] = "deciding" /\ UNCHANGED <<limit, made>>
        /\ at' = [at EXCEPT ![p] = IF again THEN "running" ELSE "over"]
        /\ iteration' = IF again THEN [iteration EXCEPT ![p] = @ + 1] ELSE iteration
    BY <1>10 DEF Decide, MoveCommand
  <2>2. \/ \E s \in GoalStatus : SaveStatus(p, s)
        \/ UNCHANGED <<goal, copy>>
    BY <1>10 DEF Decide, GoalStatus
  <2>3. \/ Saves(p) /\ goal' \in Goal /\ copy' \in [Command -> Goal]
        \/ UNCHANGED <<goal, copy>>
    BY <2>1, <2>2, StatusSaves
  <2>4. /\ made[p] <= iteration[p] + 1 /\ iteration[p] <= limit[p]
        /\ made[p] \in Nat /\ iteration[p] \in Nat /\ limit[p] \in 0 .. MaxIterations
    BY <1>0, <2>1 DEF Counted, GoalTypeOK
  <2> HIDE DEF again
  <2>5. /\ at'[p] = IF again THEN "running" ELSE "over"
        /\ iteration'[p] = IF again THEN iteration[p] + 1 ELSE iteration[p]
        /\ \A q \in Command \ {p} : made'[q] = made[q] /\ iteration'[q] = iteration[q]
    BY <1>0, <2>1 DEF GoalTypeOK
  <2>6. again => iteration[p] < limit[p]
    BY DEF again
  <2>7. iteration' \in [Command -> 0 .. MaxIterations]
    BY <1>0, <2>1, <2>4, <2>6 DEF GoalTypeOK
  <2>8. GoalTypeOK'
    BY <1>0, <2>1, <2>3, <2>7 DEF GoalTypeOK
  <2>9. Counted(p)'
    <3>1. made'[p] <= iteration[p] + 1 /\ limit'[p] = limit[p]
      BY <2>1, <2>4
    <3>2. CASE again
      <4>1. at'[p] = "running" /\ iteration'[p] = iteration[p] + 1
        BY <2>5, <3>2
      <4>2. made'[p] <= iteration'[p] /\ iteration'[p] <= limit'[p]
        BY <2>4, <2>6, <3>1, <3>2, <4>1
      <4> QED BY <4>1, <4>2 DEF Counted
    <3>3. CASE ~again
      <4>1. at'[p] = "over" /\ iteration'[p] = iteration[p]
        BY <2>5, <3>3
      <4> QED BY <2>4, <3>1, <4>1 DEF Counted
    <3> QED BY <3>2, <3>3
  <2>10. at' = [at EXCEPT ![p] = at'[p]] /\ at'[p] # "idle" /\ at[p] # "idle" /\ limit' = limit
    <3>1. PICK there \in {"running", "over"} : at' = [at EXCEPT ![p] = there]
      BY Zenon, <2>1
    <3> QED BY <1>0, <2>1, <3>1 DEF GoalTypeOK
  <2>11. \/ Saves(p) /\ at[p] # "idle"
         \/ UNCHANGED <<goal, copy, made>> /\ at[p] # "idle"
    BY <2>1, <2>3
  <2> QED BY ONLY GoalInv, <2>5, <2>8, <2>9, <2>10, <2>11, StepKeeps
<1>11. ASSUME NEW p \in Command, EndsEarly(p) PROVE GoalInv'
  <2>1. /\ at' = [at EXCEPT ![p] = "over"] /\ at'[p] = "over" /\ at[p] # "idle"
        /\ UNCHANGED <<goal, copy, limit, iteration, made>>
    BY <1>0, <1>11 DEF EndsEarly, MoveCommand, GoalTypeOK
  <2>2. GoalTypeOK'
    BY <1>0, <2>1 DEF GoalTypeOK
  <2>3. Counted(p)'
    BY <1>0, <2>1 DEF Counted, GoalTypeOK
  <2> QED BY <2>1, <2>2, <2>3, StepKeeps
<1>12. CASE UNCHANGED goalVars
  BY <1>12 DEF goalVars, GoalInv, GoalTypeOK, Counted, Remembered, RunsRecorded, RunsOf
<1> QED BY <1>1, <1>3, <1>4, <1>5, <1>6, <1>7, <1>8, <1>9, <1>10, <1>11, <1>12 DEF GoalNext

(* The count of runs, and what the copies remember, hold at every step.    *)
THEOREM GoalInvariance == GoalSpec => []GoalInv
BY InitGoalInv, NextGoalInv, PTL DEF GoalSpec

-----------------------------------------------------------------------------

(* The loop of a command ends after at most one run more than its limit.   *)
THEOREM LoopIsBounded == GoalSpec => []LoopBounded
<1>1. GoalInv => LoopBounded
  <2> SUFFICES ASSUME GoalInv, NEW p \in Command PROVE made[p] <= limit[p] + 1
    BY DEF LoopBounded
  <2>1. /\ Counted(p) /\ made[p] \in Nat /\ iteration[p] \in Nat /\ limit[p] \in Nat
    BY GoalLoopAssumption DEF GoalInv, GoalTypeOK
  <2> QED BY <2>1 DEF Counted
<1> QED BY <1>1, GoalInvariance, PTL

(* A run is lost only to another command's older copy.                     *)
THEOREM RunsAreRecorded == GoalSpec => []RunsRecorded
<1>1. GoalInv => RunsRecorded
  BY DEF GoalInv
<1> QED BY <1>1, GoalInvariance, PTL

-----------------------------------------------------------------------------
(* The cron engine.                                                        *)

CronInv == CronTypeOK /\ CronTracked

(* What a file says is what the engine may hold of its jobs.               *)
LEMMA FileTyped == \A f \in File : f \in [CronJob -> JobState]
<1> SUFFICES ASSUME NEW f \in File PROVE f \in [CronJob -> JobState]
  OBVIOUS
<1>1. \A s \in Setting : s \in JobState
  BY CronAssumption DEF JobState
<1> QED
  BY <1>1 DEF File

(* The engine starts with nothing tracked and nothing at work.             *)
LEMMA CronInitInv == CronInit => CronInv
<1> SUFFICES ASSUME CronInit PROVE CronInv
  OBVIOUS
<1>1. CronTypeOK
  <2>1. jobs \in [CronJob -> JobState]
    BY FileTyped DEF CronInit
  <2>2. 0 \in 0 .. MaxEdits /\ 0 \in 0 .. MaxRuns
    BY CronAssumption
  <2> QED
    BY <2>1, <2>2 DEF CronInit, CronTypeOK
<1>2. CronTracked
  BY DEF CronInit, CronTracked
<1> QED
  BY <1>1, <1>2 DEF CronInv

(* Steps that neither start nor end a run keep what is tracked.            *)
LEMMA CronKeepsTracked ==
  ASSUME CronTracked, UNCHANGED <<begun, working, activeRuns>>
  PROVE  CronTracked'
BY DEF CronTracked

(* A tick tracks each run it starts, which then is the latest of its job.  *)
LEMMA TickRunsInv ==
  ASSUME CronInv, NEW t \in CronTick, TickRuns(t)
  PROVE  CronInv'
<1> DEFINE loaded == read[t]
           runs == {j \in CronJob : /\ loaded[j].listed /\ loaded[j].enabled
                                    /\ Merged(loaded, j) \in {"due", "missed"}
                                    /\ activeRuns[j] = 0 \/ loaded[j].policy # "forbid"}
<1>0. CronTypeOK /\ CronTracked
  BY DEF CronInv
<1>1. loaded \in File /\ loaded \in [CronJob -> JobState]
  BY <1>0, FileTyped DEF CronTypeOK
<1>2. \A j \in CronJob : Merged(loaded, j) \in {"none", "to come", "due", "missed"}
  BY <1>0 DEF CronTypeOK, Merged
<1> HIDE DEF loaded
<1>3. /\ \A j \in runs : begun[j] < MaxRuns
      /\ reading' = reading \ {t} /\ jobs' = loaded
      /\ begun' = [j \in CronJob |-> IF j \in runs THEN begun[j] + 1 ELSE begun[j]]
      /\ working' = [j \in CronJob |-> IF j \in runs THEN working[j] \cup {begun'[j]} ELSE working[j]]
      /\ activeRuns' = [j \in CronJob |-> IF j \in runs THEN begun'[j] ELSE activeRuns[j]]
      /\ nextRunAt' = [j \in CronJob |-> IF j \in runs THEN "to come" ELSE Merged(loaded, j)]
      /\ UNCHANGED <<file, edits, timer, read>>
  BY DEF TickRuns, loaded
<1> HIDE DEF runs
<1>4. \A j \in CronJob : begun'[j] \in 0 .. MaxRuns /\ (j \in runs => begun'[j] \in 1 .. MaxRuns)
  <2> SUFFICES ASSUME NEW j \in CronJob
               PROVE  begun'[j] \in 0 .. MaxRuns /\ (j \in runs => begun'[j] \in 1 .. MaxRuns)
    OBVIOUS
  <2>1. begun[j] \in 0 .. MaxRuns /\ MaxRuns \in Nat
    BY <1>0, CronAssumption DEF CronTypeOK
  <2>2. begun'[j] = IF j \in runs THEN begun[j] + 1 ELSE begun[j]
    BY <1>3
  <2>3. j \in runs => begun[j] < MaxRuns
    BY <1>3
  <2> QED
    BY <2>1, <2>2, <2>3
<1>5. CronTypeOK'
  <2>1. begun' \in [CronJob -> 0 .. MaxRuns]
    BY <1>3, <1>4
  <2>2. working' \in [CronJob -> SUBSET (1 .. MaxRuns)]
    BY <1>0, <1>3, <1>4 DEF CronTypeOK
  <2>3. activeRuns' \in [CronJob -> 0 .. MaxRuns]
    BY <1>0, <1>3, <1>4 DEF CronTypeOK
  <2>4. nextRunAt' \in [CronJob -> {"none", "to come", "due", "missed"}]
    BY <1>2, <1>3
  <2>5. file' \in File /\ edits' \in 0 .. MaxEdits /\ timer' \in BOOLEAN
        /\ reading' \subseteq CronTick /\ read' \in [CronTick -> File]
    BY <1>0, <1>3 DEF CronTypeOK
  <2> QED
    BY <1>1, <1>3, <2>1, <2>2, <2>3, <2>4, <2>5 DEF CronTypeOK
<1>6. CronTracked'
  <2> SUFFICES ASSUME NEW j \in CronJob
               PROVE  activeRuns'[j] = IF begun'[j] \in working'[j] THEN begun'[j] ELSE 0
    BY DEF CronTracked
  <2>1. CASE j \in runs
    BY <1>3, <2>1
  <2>2. CASE j \notin runs
    BY <1>0, <1>3, <2>2 DEF CronTracked
  <2> QED
    BY <2>1, <2>2
<1> QED
  BY <1>5, <1>6 DEF CronInv

(* A run that ends takes along what is tracked only if that is itself.     *)
LEMMA RunEndsInv ==
  ASSUME CronInv, NEW j \in CronJob, NEW r \in 1 .. MaxRuns, RunEnds(j, r)
  PROVE  CronInv'
<1>0. CronTypeOK /\ CronTracked
  BY DEF CronInv
<1>1. CronTypeOK'
  <2>1. working' \in [CronJob -> SUBSET (1 .. MaxRuns)]
    BY <1>0 DEF RunEnds, CronTypeOK
  <2>2. activeRuns' \in [CronJob -> 0 .. MaxRuns]
    <3>1. activeRuns \in [CronJob -> 0 .. MaxRuns]
      BY <1>0 DEF CronTypeOK
    <3>2. 0 \in 0 .. MaxRuns
      BY CronAssumption
    <3>3. activeRuns' = [activeRuns EXCEPT ![j] = IF activeRuns[j] = r THEN 0 ELSE activeRuns[j]]
      BY DEF RunEnds
    <3> QED
      BY <3>1, <3>2, <3>3
  <2> QED
    BY <1>0, <2>1, <2>2 DEF RunEnds, CronTypeOK
<1>2. CronTracked'
  <2> SUFFICES ASSUME NEW k \in CronJob
               PROVE  activeRuns'[k] = IF begun'[k] \in working'[k] THEN begun'[k] ELSE 0
    BY DEF CronTracked
  <2>1. activeRuns[k] = IF begun[k] \in working[k] THEN begun[k] ELSE 0
    BY <1>0 DEF CronTracked
  <2>2. begun' = begun
    BY DEF RunEnds
  <2>3. CASE k = j
    <3>1. working'[k] = working[k] \ {r} /\ activeRuns'[k] = IF activeRuns[k] = r THEN 0 ELSE activeRuns[k]
      BY <1>0, <2>3 DEF RunEnds, CronTypeOK
    <3>2. r # 0
      BY CronAssumption
    <3> QED
      BY <2>1, <2>2, <3>1, <3>2
  <2>4. CASE k # j
    BY <1>0, <2>1, <2>2, <2>4 DEF RunEnds, CronTypeOK
  <2> QED
    BY <2>3, <2>4
<1> QED
  BY <1>1, <1>2 DEF CronInv

(* Every step keeps the invariant.                                         *)
LEMMA CronStepInv == CronInv /\ [CronNext]_cronVars => CronInv'
<1> SUFFICES ASSUME CronInv, [CronNext]_cronVars PROVE CronInv'
  OBVIOUS
<1>0. CronTypeOK /\ CronTracked
  BY DEF CronInv
<1>1. CASE StopTimer
  <2>1. CronTypeOK'
    BY <1>0, <1>1 DEF StopTimer, CronTypeOK
  <2> QED
    BY <1>0, <1>1, <2>1, CronKeepsTracked DEF StopTimer, CronInv
<1>2. ASSUME NEW t \in CronTick, TickBegins(t) PROVE CronInv'
  <2>1. CronTypeOK'
    BY <1>0, <1>2 DEF TickBegins, CronTypeOK
  <2> QED
    BY <1>0, <1>2, <2>1, CronKeepsTracked DEF TickBegins, CronInv
<1>3. ASSUME NEW t \in CronTick, TickRuns(t) PROVE CronInv'
  BY <1>3, TickRunsInv
<1>4. ASSUME NEW j \in CronJob, NEW s \in Setting, EditConfig(j, s) PROVE CronInv'
  <2>1. CronTypeOK'
    <3>1. edits' \in 0 .. MaxEdits
      <4>1. edits \in 0 .. MaxEdits /\ MaxEdits \in Nat
        BY <1>0, CronAssumption DEF CronTypeOK
      <4>2. edits < MaxEdits /\ edits' = edits + 1
        BY <1>4 DEF EditConfig
      <4> QED
        BY <4>1, <4>2
    <3>2. file' \in File
      BY <1>0, <1>4 DEF EditConfig, CronTypeOK, File
    <3> QED
      BY <1>0, <1>4, <3>1, <3>2 DEF EditConfig, CronTypeOK
  <2> QED
    BY <1>0, <1>4, <2>1, CronKeepsTracked DEF EditConfig, CronInv
<1>5. ASSUME NEW j \in CronJob, NEW r \in 1 .. MaxRuns, RunEnds(j, r) PROVE CronInv'
  BY <1>5, RunEndsInv
<1>6. ASSUME NEW j \in CronJob, TimePasses(j) PROVE CronInv'
  <2>1. CronTypeOK'
    BY <1>0, <1>6 DEF TimePasses, CronTypeOK
  <2> QED
    BY <1>0, <1>6, <2>1, CronKeepsTracked DEF TimePasses, CronInv
<1>7. ASSUME NEW j \in CronJob, NEW on \in BOOLEAN, SetEnabled(j, on) PROVE CronInv'
  <2>1. jobs' \in [CronJob -> JobState]
    BY <1>0, <1>7 DEF SetEnabled, CronTypeOK, JobState
  <2>2. CronTypeOK'
    BY <1>0, <1>7, <2>1 DEF SetEnabled, CronTypeOK
  <2> QED
    BY <1>0, <1>7, <2>2, CronKeepsTracked DEF SetEnabled, CronInv
<1>8. CASE UNCHANGED cronVars
  BY <1>0, <1>8 DEF cronVars, CronInv, CronTypeOK, CronTracked
<1> QED
  BY <1>1, <1>2, <1>3, <1>4, <1>5, <1>6, <1>7, <1>8 DEF CronNext

(* What is tracked of a job is always its latest run, while that goes on.  *)
THEOREM CronInvariance == CronSpec => []CronInv
BY CronInitInv, CronStepInv, PTL DEF CronSpec

(* Where "forbid" was read, no run is started beside the latest one.       *)
LEMMA StepForbidWaits ==
  ASSUME CronInv, [CronNext]_cronVars
  PROVE  [\A j \in CronJob :
            begun'[j] > begun[j] /\ jobs'[j].policy = "forbid" => begun[j] \notin working[j]]_cronVars
<1>0. CronTypeOK /\ CronTracked
  BY DEF CronInv
<1> SUFFICES ASSUME NEW j \in CronJob, CronNext,
                    begun'[j] > begun[j], jobs'[j].policy = "forbid"
             PROVE  begun[j] \notin working[j]
  BY DEF cronVars
<1>1. begun[j] \in 0 .. MaxRuns
  BY <1>0 DEF CronTypeOK
<1>2. begun' # begun
  BY <1>1, CronAssumption
<1>3. PICK t \in CronTick : TickRuns(t)
  BY <1>2 DEF CronNext, StopTimer, TickBegins, EditConfig, RunEnds, TimePasses, SetEnabled
<1>4. activeRuns[j] = 0 \/ read[t][j].policy # "forbid"
  <2>1. begun'[j] # begun[j]
    BY <1>1, CronAssumption
  <2> QED
    BY <1>3, <2>1 DEF TickRuns
<1>5. jobs'[j] = read[t][j]
  BY <1>3 DEF TickRuns
<1>6. activeRuns[j] = 0
  BY <1>4, <1>5
<1>7. 0 \notin working[j]
  <2>1. working[j] \subseteq 1 .. MaxRuns
    BY <1>0 DEF CronTypeOK
  <2> QED
    BY <2>1
<1> QED
  BY <1>0, <1>6, <1>7 DEF CronTracked

(* A "forbid" job never overlaps its latest run, whatever ticks overlap,   *)
(* however the file changes, and whichever runs went on under a policy     *)
(* that let them.                                                          *)
THEOREM ForbidIsKept == CronSpec => ForbidWaits
BY CronInvariance, StepForbidWaits, PTL DEF CronSpec, ForbidWaits

-----------------------------------------------------------------------------
(* The components, one of them at work.                                    *)

LEMMA PartsBegin ==
  ServicesInit =>
    ReplayInit /\ WireInit /\ HostInit /\ ProviderInit /\ GoalInit /\ CronInit
BY DEF ServicesInit

(* A step of one component leaves the others at rest.                      *)
LEMMA PartsTakeTurns ==
  [ServicesNext]_ServicesVars =>
    /\ [ReplayNext]_replayVars /\ [WireNext]_wireVars /\ [HostNext]_hostVars
    /\ [ProviderNext]_providerVars /\ [GoalNext]_goalVars /\ [CronNext]_cronVars
BY DEF ServicesNext, ServicesVars

(* Behaviors of the composition are behaviors of every component, so that  *)
(* the theorems about the components are theorems about the composition.   *)
THEOREM PartsAsSpecified ==
  ServicesSpec =>
    ReplaySpec /\ WireFairSpec /\ HostFairSpec /\ ProviderSpec /\ GoalSpec /\ CronSpec
BY PartsBegin, PartsTakeTurns, PTL
   DEF ServicesSpec, ReplaySpec, WireSpec, WireFairSpec, HostSpec, HostFairSpec, ProviderSpec,
       GoalSpec, CronSpec

(* Every component around the executor keeps its types.                    *)
THEOREM ServicesTypeCorrect == ServicesSpec => []ServicesTypeOK
<1>1. ReplayTypeOK /\ WireInv /\ HostTypeOK /\ PInv /\ GoalInv /\ CronInv => ServicesTypeOK
  BY DEF ServicesTypeOK, WireInv, PInv, GoalInv, CronInv
<1> QED
  BY <1>1, PartsAsSpecified, ReplayTypeCorrect, WireInvariance, HostTypeCorrect,
     ProviderInvariance, GoalInvariance, CronInvariance, PTL DEF WireFairSpec, HostFairSpec
=============================================================================
