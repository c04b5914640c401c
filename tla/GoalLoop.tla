------------------------------ MODULE GoalLoop ------------------------------
(***************************************************************************)
(* The commands on one goal (src/commands/goal.ts, the goal tools of the   *)
(* MCP server in src/mcp/omk-project-server.ts) and the loop of runs that  *)
(* "goal run" and "goal continue" start (orchestratePrompt).               *)
(*                                                                         *)
(* Every command is a process of its own: it loads goal.json, changes its  *)
(* copy and writes the whole copy back, atomically and without a lock.  A  *)
(* goal is its status and the runs recorded with it; a run is named by the *)
(* command that made it and its number.                                    *)
(***************************************************************************)
EXTENDS Naturals

CONSTANTS
  Command,        \* commands that work on the goal
  MaxIterations   \* HARD_MAX_AUTO_CONTINUE_ITERATIONS

ASSUME GoalLoopAssumption == MaxIterations \in Nat

VARIABLES
  goal,       \* goal.json
  copy,       \* the goal as each command has it in memory
  at,         \* where each command is
  limit,      \* maxAutoContinueIterations
  iteration,  \* of the loop
  made        \* runs made by each command

goalVars == <<goal, copy, at, limit, iteration, made>>

GoalStatus == {"draft", "planned", "running", "verifying", "done", "failed", "blocked", "closed"}

Goal == [status : GoalStatus, runs : SUBSET (Command \X (1 .. MaxIterations + 1))]

GoalTypeOK ==
  /\ goal \in Goal
  /\ copy \in [Command -> Goal]
  /\ at \in [Command -> {"idle", "run", "plan", "block", "close", "verify", "verified",
                         "reload", "running", "failing", "deciding", "over"}]
  /\ limit \in [Command -> 0 .. MaxIterations]
  /\ iteration \in [Command -> 0 .. MaxIterations]
  /\ made \in [Command -> 0 .. MaxIterations + 1]

GoalInit ==
  /\ goal = [status |-> "draft", runs |-> {}]
  /\ copy = [p \in Command |-> goal]
  /\ at = [p \in Command |-> "idle"]
  /\ limit \in [Command -> 0 .. MaxIterations]
  /\ iteration = [p \in Command |-> 0]
  /\ made = [p \in Command |-> 0]

MoveCommand(p, next) == at' = [at EXCEPT ![p] = next]

(* persister.save of the copy of p, with the changes made to it.           *)
Save(p, changed) ==
  /\ copy' = [copy EXCEPT ![p] = changed]
  /\ goal' = changed

SaveStatus(p, s) == Save(p, [copy[p] EXCEPT !.status = s])

-----------------------------------------------------------------------------
(* The commands that run nothing.                                          *)

(* A command begins by loading the goal.  "close" goes on only with passed *)
(* evidence, a goal that is done, or --force.                              *)
LoadGoal(p, kind) ==
  /\ at[p] = "idle"
  /\ copy' = [copy EXCEPT ![p] = goal]
  /\ MoveCommand(p, kind)
  /\ UNCHANGED <<goal, limit, iteration, made>>

(* goal plan, goal block, goal close and the tool that closes a goal.      *)
SetStatus(p) ==
  /\ \/ at[p] = "plan" /\ SaveStatus(p, "planned")
     \/ at[p] = "block" /\ SaveStatus(p, "blocked")
     \/ at[p] = "close" /\ SaveStatus(p, "closed")
  /\ MoveCommand(p, "over")
  /\ UNCHANGED <<limit, iteration, made>>

(* goal verify saves twice, the second time without another load.          *)
VerifyBegins(p) ==
  /\ at[p] = "verify"
  /\ SaveStatus(p, "verifying")
  /\ MoveCommand(p, "verified")
  /\ UNCHANGED <<limit, iteration, made>>

Verified(p, score) ==
  /\ at[p] = "verified"
  /\ SaveStatus(p, CASE score = "pass" -> "done"
                     [] score = "fail" -> "failed"
                     [] OTHER -> "verifying")
  /\ MoveCommand(p, "over")
  /\ UNCHANGED <<limit, iteration, made>>

-----------------------------------------------------------------------------
(* The loop.                                                               *)

(* goal run and goal continue mark the goal as running and hand it over to *)
(* orchestratePrompt, which loads it once more, and never again.           *)
MarkRunning(p) ==
  /\ at[p] = "run"
  /\ SaveStatus(p, "running")
  /\ MoveCommand(p, "reload")
  /\ UNCHANGED <<limit, iteration, made>>

LoadForLoop(p) ==
  /\ at[p] = "reload"
  /\ copy' = [copy EXCEPT ![p] = goal]
  /\ MoveCommand(p, "running")
  /\ UNCHANGED <<goal, limit, iteration, made>>

(* parallelCommand returns: the run is recorded with the goal.             *)
(* Mutant: it is recorded in what is saved, not in the copy.               *)
RunSavedOnly(p, success) ==
  /\ at[p] = "running"
  /\ made' = [made EXCEPT ![p] = @ + 1]
  /\ goal' = [copy[p] EXCEPT !.runs = @ \cup {<<p, made'[p]>>}]
  /\ MoveCommand(p, IF success THEN "deciding" ELSE "failing")
  /\ UNCHANGED <<copy, limit, iteration>>

RunReturns(p, success) ==
  /\ at[p] = "running"
  /\ made' = [made EXCEPT ![p] = @ + 1]
  /\ Save(p, [copy[p] EXCEPT !.runs = @ \cup {<<p, made'[p]>>}])
  /\ MoveCommand(p, IF success THEN "deciding" ELSE "failing")
  /\ UNCHANGED <<limit, iteration>>

MarkFailed(p) ==
  /\ at[p] = "failing"
  /\ SaveStatus(p, "failed")
  /\ MoveCommand(p, "over")
  /\ UNCHANGED <<limit, iteration, made>>

(* evaluateGoalProgressEnsemble: the guard on the number of iterations     *)
(* overrides the vote, also a vote to close.                               *)
GuardStops(p) == iteration[p] > 0 /\ limit[p] > 0 /\ iteration[p] >= limit[p]

NextAction(p, score, vote) ==
  IF ~GuardStops(p) THEN vote ELSE IF score = "fail" THEN "block" ELSE "handoff"

(* What the loop does about it.  The second guard counts only without a    *)
(* limit of its own.  Mutant: that guard is left to the first one.         *)
DecideByFirstGuard(p, score, vote) ==
  LET action == NextAction(p, score, vote)
      again == action \in {"continue", "replan"}
  IN /\ at[p] = "deciding"
     /\ CASE action = "close" -> SaveStatus(p, "done")
          [] action = "block" -> SaveStatus(p, "blocked")
          [] OTHER -> UNCHANGED <<goal, copy>>
     /\ MoveCommand(p, IF again THEN "running" ELSE "over")
     /\ iteration' = IF again THEN [iteration EXCEPT ![p] = @ + 1] ELSE iteration
     /\ UNCHANGED <<limit, made>>

Decide(p, score, vote) ==
  LET action == NextAction(p, score, vote)
      again == action \in {"continue", "replan"} /\ iteration[p] < limit[p]
  IN /\ at[p] = "deciding"
     /\ CASE action = "close" -> SaveStatus(p, "done")
          [] action = "block" -> SaveStatus(p, "blocked")
          [] OTHER -> UNCHANGED <<goal, copy>>
     /\ MoveCommand(p, IF again THEN "running" ELSE "over")
     /\ iteration' = IF again THEN [iteration EXCEPT ![p] = @ + 1] ELSE iteration
     /\ UNCHANGED <<limit, made>>

(* The command ends early: it refuses, an exception ends the loop, or the  *)
(* process is killed.                                                      *)
EndsEarly(p) ==
  /\ at[p] \notin {"idle", "over"}
  /\ MoveCommand(p, "over")
  /\ UNCHANGED <<goal, copy, limit, iteration, made>>

Score == {"pass", "fail", "incomplete"}

GoalNext ==
  \E p \in Command :
    \/ \E kind \in {"run", "plan", "block", "close", "verify"} : LoadGoal(p, kind)
    \/ SetStatus(p)
    \/ VerifyBegins(p) \/ \E score \in Score : Verified(p, score)
    \/ MarkRunning(p) \/ LoadForLoop(p)
    \/ \E success \in BOOLEAN : RunReturns(p, success)
    \/ MarkFailed(p)
    \/ \E score \in Score, vote \in {"close", "block", "handoff", "continue", "replan"} :
         Decide(p, score, vote)
    \/ EndsEarly(p)

GoalSpec == GoalInit /\ [][GoalNext]_goalVars

-----------------------------------------------------------------------------
(* Safety.                                                                 *)

(* Whatever the votes and scores, the loop comes to its end after the runs *)
(* its limit allows, with a limit of none after the first: of its two      *)
(* guards neither is enough alone.                                         *)
LoopBounded == \A p \in Command : made[p] <= limit[p] + 1

(* A run that was recorded is missing from goal.json only when another     *)
(* command wrote its own, older copy over it; the saves that follow in the *)
(* same loop, of the next run, of a failure or of a verdict, keep it.      *)
RunsOf(p) == {p} \X (1 .. made[p])

RunsRecorded ==
  \A p \in Command :
    \/ RunsOf(p) \subseteq goal.runs
    \/ \E q \in Command \ {p} : /\ at[q] # "idle" /\ goal.runs \subseteq copy[q].runs
                                /\ ~(RunsOf(p) \subseteq copy[q].runs)
=============================================================================
