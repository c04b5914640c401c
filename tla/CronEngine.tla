----------------------------- MODULE CronEngine -----------------------------
(***************************************************************************)
(* The cron engine of src/util/cron-engine.ts: ticks that read the         *)
(* configuration, merge it into what the engine remembers of its jobs, and *)
(* start what is due.                                                      *)
(*                                                                         *)
(* A tick awaits the file and does the rest in one go, so that ticks whose *)
(* reading overlaps may apply an older file after a newer one.  Time is    *)
(* what it makes of nextRunAt.  Left out are runs by hand (runJobNow),     *)
(* which the engine does not track, the logs, run times written into the   *)
(* file, and a file that cannot be read: the tick then rejects, which      *)
(* nothing handles.                                                        *)
(***************************************************************************)
EXTENDS Naturals

CONSTANTS
  CronJob,   \* names of jobs
  Setting,   \* what the file may say of a job
  MaxTicks,  \* bound on the ticks that read at the same time
  MaxRuns,   \* bound on the runs of a job
  MaxEdits   \* bound on the changes of the file

ConcurrencyPolicy == {"allow", "forbid", "replace"}

ASSUME CronAssumption ==
  /\ Setting \subseteq [listed : BOOLEAN, enabled : BOOLEAN, catchup : BOOLEAN, policy : ConcurrencyPolicy]
  /\ MaxTicks \in Nat \ {0} /\ MaxRuns \in Nat /\ MaxEdits \in Nat

VARIABLES
  file,       \* .omk/cron.yml
  edits,      \* changes of it so far
  timer,      \* the timer of the engine is set
  reading,    \* the ticks that await the file
  read,       \* what they found in it
  jobs,       \* state.jobs
  nextRunAt,  \* of each job: none yet, to come, due, or due for more than two ticks
  begun,      \* runs of each job so far; a run is its number
  working,    \* the runs at work
  activeRuns  \* the run that is tracked, 0 for none

cronVars == <<file, edits, timer, reading, read, jobs, nextRunAt, begun, working, activeRuns>>

CronTick == 1 .. MaxTicks

File == [CronJob -> Setting]

JobState == [listed : BOOLEAN, enabled : BOOLEAN, catchup : BOOLEAN, policy : ConcurrencyPolicy]

CronTypeOK ==
  /\ file \in File /\ edits \in 0 .. MaxEdits
  /\ timer \in BOOLEAN
  /\ reading \subseteq CronTick /\ read \in [CronTick -> File]
  /\ jobs \in [CronJob -> JobState]
  /\ nextRunAt \in [CronJob -> {"none", "to come", "due", "missed"}]
  /\ begun \in [CronJob -> 0 .. MaxRuns]
  /\ working \in [CronJob -> SUBSET (1 .. MaxRuns)]
  /\ activeRuns \in [CronJob -> 0 .. MaxRuns]

CronInit ==
  /\ file \in File /\ jobs \in File /\ edits = 0
  /\ timer = FALSE /\ reading = {} /\ read = [t \in CronTick |-> file]
  /\ nextRunAt = [j \in CronJob |-> "none"]
  /\ begun = [j \in CronJob |-> 0]
  /\ working = [j \in CronJob |-> {}]
  /\ activeRuns = [j \in CronJob |-> 0]

EditConfig(j, s) ==
  /\ edits < MaxEdits
  /\ edits' = edits + 1 /\ file' = [file EXCEPT ![j] = s]
  /\ UNCHANGED <<timer, reading, read, jobs, nextRunAt, begun, working, activeRuns>>

(* A tick begins: at once when the engine is started, then by its timer.   *)
(* What it will have read is decided here.                                 *)
TickBegins(t) ==
  /\ t \in CronTick \ reading
  /\ timer' = TRUE
  /\ reading' = reading \cup {t}
  /\ read' = [read EXCEPT ![t] = file]
  /\ UNCHANGED <<file, edits, jobs, nextRunAt, begun, working, activeRuns>>

(* stop clears the timer; a tick that is reading goes on.                  *)
StopTimer ==
  /\ timer
  /\ timer' = FALSE
  /\ UNCHANGED <<file, edits, reading, read, jobs, nextRunAt, begun, working, activeRuns>>

(* mergeCronRuntimeState: the time of the next run survives the reload, is *)
(* computed for a job without one, and is skipped when it was missed.      *)
Merged(loaded, j) ==
  LET previous == IF jobs[j].listed THEN nextRunAt[j] ELSE "none"
      next == IF previous = "none" /\ loaded[j].enabled THEN "to come" ELSE previous
  IN IF ~loaded[j].listed THEN "none"
     ELSE IF next = "missed" /\ ~loaded[j].catchup THEN "to come" ELSE next

(* The rest of a tick: every enabled job that is due is run and tracked,   *)
(* unless it is "forbid" and its tracked run goes on; then it stays due.   *)
TickRuns(t) ==
  LET loaded == read[t]
      runs == {j \in CronJob : /\ loaded[j].listed /\ loaded[j].enabled
                               /\ Merged(loaded, j) \in {"due", "missed"}
                               /\ activeRuns[j] = 0 \/ loaded[j].policy # "forbid"}
  IN /\ t \in reading
     /\ \A j \in runs : begun[j] < MaxRuns
     /\ reading' = reading \ {t}
     /\ jobs' = loaded
     /\ begun' = [j \in CronJob |-> IF j \in runs THEN begun[j] + 1 ELSE begun[j]]
     /\ working' = [j \in CronJob |-> IF j \in runs THEN working[j] \cup {begun'[j]} ELSE working[j]]
     /\ activeRuns' = [j \in CronJob |-> IF j \in runs THEN begun'[j] ELSE activeRuns[j]]
     /\ nextRunAt' = [j \in CronJob |-> IF j \in runs THEN "to come" ELSE Merged(loaded, j)]
     /\ UNCHANGED <<file, edits, timer, read>>

(* A run ends, well or not: it is no longer tracked if it was.             *)
(* Mutant: whatever is tracked is forgotten.                               *)
RunEndsUntracks(j, r) ==
  /\ r \in working[j]
  /\ working' = [working EXCEPT ![j] = @ \ {r}]
  /\ activeRuns' = [activeRuns EXCEPT ![j] = 0]
  /\ UNCHANGED <<file, edits, timer, reading, read, jobs, nextRunAt, begun>>

RunEnds(j, r) ==
  /\ r \in working[j]
  /\ working' = [working EXCEPT ![j] = @ \ {r}]
  /\ activeRuns' = [activeRuns EXCEPT ![j] = IF @ = r THEN 0 ELSE @]
  /\ UNCHANGED <<file, edits, timer, reading, read, jobs, nextRunAt, begun>>

(* Time passes for a job.                                                  *)
TimePasses(j) ==
  /\ \/ nextRunAt[j] = "to come" /\ nextRunAt' = [nextRunAt EXCEPT ![j] = "due"]
     \/ nextRunAt[j] = "due" /\ nextRunAt' = [nextRunAt EXCEPT ![j] = "missed"]
  /\ UNCHANGED <<file, edits, timer, reading, read, jobs, begun, working, activeRuns>>

(* enableJob and disableJob, until the next tick has read the file.        *)
SetEnabled(j, on) ==
  /\ jobs[j].listed
  /\ jobs' = [jobs EXCEPT ![j].enabled = on]
  /\ UNCHANGED <<file, edits, timer, reading, read, nextRunAt, begun, working, activeRuns>>

CronNext ==
  \/ StopTimer
  \/ \E t \in CronTick : TickBegins(t) \/ TickRuns(t)
  \/ \E j \in CronJob :
       \/ \E s \in Setting : EditConfig(j, s)
       \/ \E r \in 1 .. MaxRuns : RunEnds(j, r)
       \/ TimePasses(j)
       \/ \E on \in BOOLEAN : SetEnabled(j, on)

CronSpec == CronInit /\ [][CronNext]_cronVars

-----------------------------------------------------------------------------
(* Safety.                                                                 *)

(* What is tracked of a job is its latest run, as long as that goes on,    *)
(* through runs that overtake it and changes of its policy: so that where  *)
(* the file that a tick read says "forbid", the tick never starts a run    *)
(* beside the latest.  Older ones, started under another policy, may go on.*)
CronTracked ==
  \A j \in CronJob : activeRuns[j] = IF begun[j] \in working[j] THEN begun[j] ELSE 0

ForbidWaits ==
  [][\A j \in CronJob :
       begun'[j] > begun[j] /\ jobs'[j].policy = "forbid" => begun[j] \notin working[j]]_cronVars
=============================================================================
