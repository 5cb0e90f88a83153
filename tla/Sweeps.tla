-------------------------------- MODULE Sweeps --------------------------------
(***************************************************************************)
(* The services that work on due rows with a sweep in every API process:   *)
(* WorkflowRuns, Reminders, Interactions, Decisions.  They share no table  *)
(* and no process reads what another wrote, so every behaviour is one of   *)
(* either: their states are added up instead of multiplied.                *)
(***************************************************************************)
EXTENDS WorkflowRuns, Reminders, Interactions, Decisions

VARIABLE about   \* the service that runs

sweepsVars == <<about, runVars, reminderVars, vars, decisionVars>>

SweepsInit ==
    /\ about \in {"runs", "reminders", "interactions", "decisions"}
    /\ RunInit /\ ReminderInit /\ Init /\ DecisionInit

SweepsNext ==
    \/ about = "runs" /\ RunNext /\ UNCHANGED <<about, reminderVars, vars, decisionVars>>
    \/ about = "reminders" /\ ReminderNext /\ UNCHANGED <<about, runVars, vars, decisionVars>>
    \/ about = "interactions" /\ Next /\ UNCHANGED <<about, runVars, reminderVars, decisionVars>>
    \/ about = "decisions" /\ DecisionNext /\ UNCHANGED <<about, runVars, reminderVars, vars>>

SweepsSpec == SweepsInit /\ [][SweepsNext]_sweepsVars

--------------------------------------------------------------------------------
\* The variables of the four services have the values their actions expect.
SweepsTypeOK == RunTypeOK /\ ReminderTypeOK /\ TypeOK /\ DecisionTypeOK

--------------------------------------------------------------------------------
(* A run, or a row of a saved message, as a job of ClaimedJobs.             *)

SweepJobs == ({"run"} \X Runs) \cup ({"reminder"} \X Sources \X Rows)

OfJob(run(_), reminder(_, _)) ==
    [j \in SweepJobs |-> IF j[1] = "run" THEN run(j[2]) ELSE reminder(j[2], j[3])]

ReminderDone(s, n) == notified[s][n]

Claims == INSTANCE ClaimedJobs WITH
    Jobs <- SweepJobs,
    Workers <- Instances,
    state <- OfJob(RunState, ReminderState),
    work <- OfJob(RunWork, ReminderWork),
    done <- OfJob(RunDone, ReminderDone),
    holders <- OfJob(RunHolders, ReminderHolders)

\* Runs and reminders are jobs of ClaimedJobs: taken by one instance, carried
\* out once, and finished only when nothing is missing (class comments of
\* WorkflowRunSweepService and ReminderSweepService).
ClaimsHonoured == Claims!Spec
================================================================================
