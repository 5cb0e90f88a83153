------------------------------ MODULE WorkflowRuns ------------------------------
(***************************************************************************)
(* Channel workflows at work: the three triggers that create runs          *)
(* (WorkflowTriggerService, createWorkflowRun), the sweep every API        *)
(* instance uses to fire schedules and to claim and execute runs           *)
(* (WorkflowRunSweepService, WorkflowActionsService), and the edits of the *)
(* owner (WorkflowsService).                                               *)
(*                                                                         *)
(* One server.  One action is one statement the database commits on its    *)
(* own or one effect outside it.  A workflow's steps are the first so many *)
(* of Actions; a posted message matches every MESSAGE_MATCHES workflow.    *)
(* A text is its number, so nextRunAt is the number of times it was        *)
(* advanced and whether that time has come.                                *)
(***************************************************************************)
EXTENDS Deployment, Integers, Sequences, FiniteSets

CONSTANTS
    Workflows,    \* rows of ChannelWorkflow
    Callers,      \* message evaluations and webhook calls that may be in flight
    Servers,      \* the sets of workflows the server may have
    Trigger,      \* [Workflows -> trigger type]
    Actions,      \* the kinds of the steps a workflow may have, in order
    Keys,         \* idempotency keys of webhook calls
    NoHome,       \* the instance of a caller that is not in flight
    MaxDepth,     \* WORKFLOW_MAX_CHAIN_DEPTH
    PerWorkflow,  \* WORKFLOW_MAX_CONCURRENT_RUNS_PER_WORKFLOW
    PerServer,    \* WORKFLOW_MAX_CONCURRENT_RUNS_PER_SERVER
    MaxRuns,      \* bound of the runs created
    MaxMessages,  \* bound of the messages posted
    MaxFires,     \* bound of the fires of one schedule
    MaxUpsets     \* bound of the owner's edits, crashes and errors together

TriggerTypes == {"MESSAGE_MATCHES", "WEBHOOK_RECEIVED", "SCHEDULE"}

ASSUME WorkflowAssumption ==
    /\ Workflows # {} /\ Servers \subseteq SUBSET Workflows
    /\ Trigger \in [Workflows -> TriggerTypes]
    /\ Actions \in Seq({"POST_MESSAGE", "HTTP_CALL"}) /\ Actions # <<>>
    /\ Keys \subseteq Nat
    /\ NoHome \notin Instances
    /\ {MaxDepth, PerWorkflow, PerServer, MaxRuns, MaxMessages, MaxFires, MaxUpsets} \subseteq Nat

VARIABLES
    workflows,  \* the ChannelWorkflow table
    runs,       \* the WorkflowRun table, in the order of createdAt
    did,        \* did[r]: the steps of run r that had their effect, as they had it
    sweeps,     \* the sweep of each instance
    callers,    \* evaluations and webhook calls in flight
    cache,      \* outdated copies of the message triggers some instance may hold
    messages,   \* messages posted so far
    upsets      \* edits, crashes and errors so far

runVars == <<workflows, runs, did, sweeps, callers, cache, messages, upsets>>

--------------------------------------------------------------------------------
Runs == 1 .. MaxRuns
Steps == DOMAIN Actions
RunStatuses == {"ABSENT", "PENDING", "RUNNING", "SUCCEEDED", "FAILED", "GONE"}

\* What made a run: the message, the webhook key or the fire, by its number.
Causes == [by : TriggerTypes, id : Nat]
NoCause == [by |-> "SCHEDULE", id |-> 0]

\* nextRunAt: null, or a time to come, or a time that has come.
Workflow == [live : BOOLEAN, enabled : BOOLEAN, steps : Steps,
             next : {"null", "later", "due"}, fires : Nat]

\* A run about to be created; cause 0 of parent is null.
Draft == [of : Workflows, steps : Steps, cause : Causes, parent : 0 .. MaxRuns, depth : Nat]

Run == [status : RunStatuses, draft : Draft, aged : BOOLEAN]

\* A trigger as the cache or a query result holds it.
Triggers == [of : Workflows, steps : Steps]

SomeWorkflow == CHOOSE w \in Workflows : TRUE
NoDraft == [of |-> SomeWorkflow, steps |-> 1, cause |-> NoCause, parent |-> 0, depth |-> 0]
NoRun == [status |-> "ABSENT", draft |-> NoDraft, aged |-> FALSE]

Sweep == [pc : {"idle", "stale", "fire", "insert", "runs", "claim", "load", "step", "succeed", "fail"},
          stale : SUBSET Runs, fires : SUBSET [of : Workflows, steps : Steps, at : Nat],
          draft : Draft, verdict : {"PENDING", "FAILED"}, due : SUBSET Runs, steps : Steps, at : Steps]

Caller == [pc : {"idle", "load", "next", "insert"}, home : Instances \cup {NoHome}, todo : SUBSET Triggers,
           draft : Draft, verdict : {"PENDING", "FAILED"}]

RunTypeOK ==
    /\ workflows \in [Workflows -> Workflow]
    /\ runs \in [Runs -> Run]
    /\ did \in [Runs -> Seq(Steps)]
    /\ sweeps \in [Instances -> Sweep]
    /\ callers \in [Callers -> Caller]
    /\ cache \subseteq SUBSET Triggers
    /\ messages \in 0 .. MaxMessages
    /\ upsets \in 0 .. MaxUpsets

IdleSweep == [pc |-> "idle", stale |-> {}, fires |-> {}, draft |-> NoDraft, verdict |-> "PENDING",
              due |-> {}, steps |-> 1, at |-> 1]
IdleCaller == [pc |-> "idle", home |-> NoHome, todo |-> {}, draft |-> NoDraft, verdict |-> "PENDING"]

\* WorkflowsService.create leaves nextRunAt null and nothing under src writes
\* the first one; a row whose operator has set it, as the test plan of
\* docs/features/channel-workflows.md does, is included.
RunInit ==
    /\ \E server \in Servers : \E armed \in SUBSET {w \in server : Trigger[w] = "SCHEDULE"} :
         workflows = [w \in Workflows |-> [live |-> w \in server, enabled |-> TRUE, steps |-> Len(Actions),
                          next |-> IF w \in armed THEN "later" ELSE "null", fires |-> 0]]
    /\ runs = [r \in Runs |-> NoRun]
    /\ did = [r \in Runs |-> <<>>]
    /\ sweeps = [i \in Instances |-> IdleSweep]
    /\ callers = [c \in Callers |-> IdleCaller]
    /\ cache = {}
    /\ messages = 0
    /\ upsets = 0

--------------------------------------------------------------------------------
(* createWorkflowRun.                                                       *)

Active == {r \in Runs : runs[r].status \in {"PENDING", "RUNNING"}}

\* The depth cap, then the two counts: a statement of its own before the insert.
RunVerdict(d) ==
    IF \/ d.depth > MaxDepth
       \/ Cardinality({r \in Active : runs[r].draft.of = d.of}) >= PerWorkflow
       \/ Cardinality(Active) >= PerServer
    THEN "FAILED" ELSE "PENDING"

FreeRuns == {r \in Runs : runs[r].status = "ABSENT"}

\* A run is numbered when it is inserted: the lowest number is the oldest.
Oldest(s) == CHOOSE r \in s : \A t \in s : r <= t

\* The unique index on (workflowId, idempotencyKey): null for other triggers.
KeyTaken(d) ==
    /\ d.cause.by = "WEBHOOK_RECEIVED"
    /\ \E r \in Runs : /\ runs[r].status \notin {"ABSENT", "GONE"}
                       /\ runs[r].draft.of = d.of
                       /\ runs[r].draft.cause = d.cause

\* The insert violates a constraint: the workflow was deleted, or the key is taken.
Refused(d) == ~workflows[d.of].live \/ KeyTaken(d)

Inserted(d, status) ==
    /\ FreeRuns # {}
    /\ runs' = [runs EXCEPT ![Oldest(FreeRuns)] = [status |-> status, draft |-> d, aged |-> FALSE]]

--------------------------------------------------------------------------------
(* Messages and webhook calls.                                              *)

callerOthers == <<workflows, did, sweeps, upsets>>

Free(c) == callers[c].pc = "idle"

\* Process c of instance i will evaluate a message, by a user or by a run.
Evaluating(i, id, parent, depth) ==
    [IdleCaller EXCEPT !.home = i, !.pc = "load", !.draft =
        [NoDraft EXCEPT !.cause = [by |-> "MESSAGE_MATCHES", id |-> id], !.parent = parent, !.depth = depth]]

\* A user's message is stored; createMessage goes on to evaluateMessage.
SendMessage(c, i) ==
    /\ Free(c)
    /\ messages < MaxMessages
    /\ messages' = messages + 1
    /\ callers' = [callers EXCEPT ![c] = Evaluating(i, messages + 1, 0, 0)]
    /\ UNCHANGED <<runs, cache, callerOthers>>

MessageTriggers ==
    {[of |-> w, steps |-> workflows[w].steps] :
        w \in {v \in Workflows : /\ workflows[v].live
                                 /\ workflows[v].enabled
                                 /\ Trigger[v] = "MESSAGE_MATCHES"}}

\* loadServerTriggers: a query, or the copy the instance holds.
LoadTriggers(c) ==
    /\ callers[c].pc = "load"
    /\ \E copy \in cache \cup {MessageTriggers} :
         callers' = [callers EXCEPT ![c].pc = "next", ![c].todo = copy]
    /\ UNCHANGED <<runs, cache, messages, callerOthers>>

\* TRIGGER_CACHE_TTL_MS after the last edit every outdated copy has expired.
ExpireTriggers ==
    /\ cache # {}
    /\ cache' = {}
    /\ UNCHANGED <<runs, callers, messages, callerOthers>>

\* authenticate: an enabled WEBHOOK_RECEIVED workflow is read with its steps.
ReceiveWebhook(c, i, w, key) ==
    /\ Free(c)
    /\ workflows[w].live
    /\ workflows[w].enabled
    /\ Trigger[w] = "WEBHOOK_RECEIVED"
    /\ callers' = [callers EXCEPT ![c] =
          [IdleCaller EXCEPT !.home = i, !.pc = "next", !.todo = {[of |-> w, steps |-> workflows[w].steps]},
             !.draft = [NoDraft EXCEPT !.cause = [by |-> "WEBHOOK_RECEIVED", id |-> key]]]]
    /\ UNCHANGED <<runs, cache, messages, callerOthers>>

\* The next trigger of the loop: createWorkflowRun up to its counts.
CountCaller(c) ==
    /\ callers[c].pc = "next"
    /\ \/ /\ callers[c].todo = {}
          /\ callers' = [callers EXCEPT ![c] = IdleCaller]
       \/ \E t \in callers[c].todo :
            LET d == [callers[c].draft EXCEPT !.of = t.of, !.steps = t.steps] IN
            callers' = [callers EXCEPT ![c] = [callers[c] EXCEPT !.pc = "insert", !.todo = @ \ {t},
                                                   !.draft = d, !.verdict = RunVerdict(d)]]
    /\ UNCHANGED <<runs, cache, messages, callerOthers>>

\* The insert.  A refused one ends the loop; a webhook is answered with the run
\* its key already has.
InsertCaller(c) ==
    LET s == callers[c] IN
    /\ s.pc = "insert"
    /\ IF Refused(s.draft)
       THEN /\ callers' = [callers EXCEPT ![c] = IdleCaller]
            /\ UNCHANGED runs
       ELSE /\ Inserted(s.draft, s.verdict)
            /\ callers' = [callers EXCEPT ![c] = IF s.todo = {} THEN IdleCaller
                                                 ELSE [s EXCEPT !.pc = "next"]]
    /\ UNCHANGED <<cache, messages, callerOthers>>

--------------------------------------------------------------------------------
(* The sweep: stale claims, due schedules, pending runs.                    *)

sweepOthers == <<cache, upsets>>

\* The timer fires and isSweeping is false: failStaleClaims reads first.  A
\* read that finds nothing leaves no trace and is not a step: an idle instance
\* may be before any of the three reads of a tick.
FindStale(i) ==
    /\ sweeps[i].pc = "idle"
    /\ \E r \in Runs : runs[r].status = "RUNNING" /\ runs[r].aged
    /\ sweeps' = [sweeps EXCEPT ![i].pc = "stale",
          ![i].stale = {r \in Runs : runs[r].status = "RUNNING" /\ runs[r].aged}]
    /\ UNCHANGED <<workflows, runs, did, callers, messages, sweepOthers>>

\* One conditional update of that loop.
FailStale(i) ==
    /\ sweeps[i].pc = "stale"
    /\ \E r \in sweeps[i].stale :
         /\ runs' = IF runs[r].status = "RUNNING" THEN [runs EXCEPT ![r].status = "FAILED"] ELSE runs
         /\ sweeps' = [sweeps EXCEPT ![i] = IF sweeps[i].stale = {r} THEN IdleSweep
                                            ELSE [sweeps[i] EXCEPT !.stale = @ \ {r}]]
    /\ UNCHANGED <<workflows, did, callers, messages, sweepOthers>>

\* The tick with the schedules in rest still to be fired.
NextFire(rest) == IF rest = {} THEN IdleSweep ELSE [IdleSweep EXCEPT !.pc = "fire", !.fires = rest]

\* claimDueSchedules reads the due schedules with their steps and nextRunAt.
FindFires(i) ==
    LET due == {w \in Workflows : /\ workflows[w].live
                                  /\ workflows[w].enabled
                                  /\ workflows[w].next = "due"}
    IN
    /\ sweeps[i].pc = "idle"
    /\ due # {}
    /\ sweeps' = [sweeps EXCEPT ![i] = NextFire(
          {[of |-> w, steps |-> workflows[w].steps, at |-> workflows[w].fires] : w \in due})]
    /\ UNCHANGED <<workflows, runs, did, callers, messages, sweepOthers>>

\* Faulty form: the update does not ask for the nextRunAt that was read.
ClaimFireUnconditional(i) ==
    /\ sweeps[i].pc = "fire"
    /\ \E f \in sweeps[i].fires :
         LET d == [NoDraft EXCEPT !.of = f.of, !.steps = f.steps,
                                  !.cause = [by |-> "SCHEDULE", id |-> f.at]] IN
         /\ workflows' = [workflows EXCEPT ![f.of].next = "later", ![f.of].fires = f.at + 1]
         /\ sweeps' = [sweeps EXCEPT ![i].fires = @ \ {f}, ![i].pc = "insert",
                                     ![i].draft = d, ![i].verdict = RunVerdict(d)]
    /\ UNCHANGED <<runs, did, callers, messages, sweepOthers>>

\* nextRunAt is advanced where it is still the one that was read, then
\* createWorkflowRun counts.
ClaimFire(i) ==
    /\ sweeps[i].pc = "fire"
    /\ \E f \in sweeps[i].fires :
         LET d == [NoDraft EXCEPT !.of = f.of, !.steps = f.steps,
                                  !.cause = [by |-> "SCHEDULE", id |-> f.at]] IN
         IF workflows[f.of].live /\ workflows[f.of].fires = f.at
         THEN /\ workflows' = [workflows EXCEPT ![f.of].next = "later", ![f.of].fires = f.at + 1]
              /\ sweeps' = [sweeps EXCEPT ![i].fires = @ \ {f}, ![i].pc = "insert",
                                          ![i].draft = d, ![i].verdict = RunVerdict(d)]
         ELSE /\ sweeps' = [sweeps EXCEPT ![i] = NextFire(sweeps[i].fires \ {f})]
              /\ UNCHANGED workflows
    /\ UNCHANGED <<runs, did, callers, messages, sweepOthers>>

\* Its insert; a refused one is an error that ends the tick.
InsertFire(i) ==
    LET s == sweeps[i] IN
    /\ s.pc = "insert"
    /\ IF Refused(s.draft)
       THEN sweeps' = [sweeps EXCEPT ![i] = IdleSweep] /\ UNCHANGED runs
       ELSE /\ Inserted(s.draft, s.verdict)
            /\ sweeps' = [sweeps EXCEPT ![i] = NextFire(s.fires)]
    /\ UNCHANGED <<workflows, did, callers, messages, sweepOthers>>

\* The run the tick of instance i is at, and the ones after it.
Current(i) == Oldest(sweeps[i].due)
Later(i) == sweeps[i].due \ {Current(i)}

\* The tick with the runs in rest still to be claimed.
NextRun(rest) == IF rest = {} THEN IdleSweep ELSE [IdleSweep EXCEPT !.pc = "claim", !.due = rest]

\* claimAndExecutePendingRuns reads the runs of enabled workflows; its loop
\* takes the oldest first.
FindRuns(i) ==
    LET due == {r \in Runs : runs[r].status = "PENDING" /\ workflows[runs[r].draft.of].enabled} IN
    /\ sweeps[i].pc = "idle"
    /\ due # {}
    /\ sweeps' = [sweeps EXCEPT ![i] = NextRun(due)]
    /\ UNCHANGED <<workflows, runs, did, callers, messages, sweepOthers>>

\* Faulty form: the claim names the run by id alone.
ClaimRunAny(i) ==
    LET r == Current(i) IN
    /\ sweeps[i].pc = "claim"
    /\ runs[r].status # "GONE"
    /\ runs' = [runs EXCEPT ![r].status = "RUNNING"]
    /\ sweeps' = [sweeps EXCEPT ![i].pc = "load"]
    /\ UNCHANGED <<workflows, did, callers, messages, sweepOthers>>

\* The conditional claim; whether the workflow is enabled is not asked again.
ClaimRun(i) ==
    LET r == Current(i) IN
    /\ sweeps[i].pc = "claim"
    /\ IF runs[r].status = "PENDING"
       THEN /\ runs' = [runs EXCEPT ![r].status = "RUNNING"]
            /\ sweeps' = [sweeps EXCEPT ![i].pc = "load"]
       ELSE /\ sweeps' = [sweeps EXCEPT ![i] = NextRun(Later(i))]
            /\ UNCHANGED runs
    /\ UNCHANGED <<workflows, did, callers, messages, sweepOthers>>

\* A minute passes since the tick that claimed run r began: the run is stale
\* from now on, whether or not its instance is still at it.
Age(r) ==
    /\ runs[r].status = "RUNNING"
    /\ ~runs[r].aged
    /\ runs' = [runs EXCEPT ![r].aged = TRUE]
    /\ UNCHANGED <<workflows, did, sweeps, callers, messages, sweepOthers>>

\* execute reads the run and its workflow, which are deleted together.
LoadRun(i) ==
    LET r == Current(i) IN
    /\ sweeps[i].pc = "load"
    /\ sweeps' = [sweeps EXCEPT ![i] =
          IF runs[r].status = "GONE" THEN NextRun(Later(i))
          ELSE [sweeps[i] EXCEPT !.pc = "step", !.steps = runs[r].draft.steps, !.at = 1]]
    /\ UNCHANGED <<workflows, runs, did, callers, messages, sweepOthers>>

\* Faulty form: the loop runs one step too far.
AfterStepPast(s) == IF s.at > s.steps THEN [s EXCEPT !.pc = "succeed"] ELSE [s EXCEPT !.at = @ + 1]

AfterStep(s) == IF s.at = s.steps THEN [s EXCEPT !.pc = "succeed"] ELSE [s EXCEPT !.at = @ + 1]

Effect(i) == did' = [did EXCEPT ![Current(i)] = Append(@, sweeps[i].at)]

\* postMessage: the message is stored, then evaluateMessage runs on its own.
PostMessage(i) ==
    LET s == sweeps[i]
        r == Current(i)
    IN
    /\ s.pc = "step"
    /\ Actions[s.at] = "POST_MESSAGE"
    /\ messages < MaxMessages
    /\ messages' = messages + 1
    /\ Effect(i)
    /\ sweeps' = [sweeps EXCEPT ![i] = AfterStep(s)]
    /\ \E c \in Callers : Free(c) /\ callers' = [callers EXCEPT ![c] =
          Evaluating(i, messages + 1, r, runs[r].draft.depth + 1)]
    /\ UNCHANGED <<workflows, runs, sweepOthers>>

\* The error comes after the message was stored: execute swallows it and the
\* run stays RUNNING.
PostMessageThrows(i) ==
    LET s == sweeps[i] IN
    /\ s.pc = "step"
    /\ Actions[s.at] = "POST_MESSAGE"
    /\ messages < MaxMessages
    /\ upsets < MaxUpsets
    /\ messages' = messages + 1
    /\ upsets' = upsets + 1
    /\ Effect(i)
    /\ sweeps' = [sweeps EXCEPT ![i] = NextRun(Later(i))]
    /\ UNCHANGED <<workflows, runs, callers, cache>>

\* httpCall: any error after the request was sent is a failed step.
HttpCall(i) ==
    /\ sweeps[i].pc = "step"
    /\ Actions[sweeps[i].at] = "HTTP_CALL"
    /\ Effect(i)
    /\ sweeps' = [sweeps EXCEPT ![i] = AfterStep(sweeps[i])]
    /\ UNCHANGED <<workflows, runs, callers, messages, sweepOthers>>

HttpCallFails(i) ==
    /\ sweeps[i].pc = "step"
    /\ Actions[sweeps[i].at] = "HTTP_CALL"
    /\ Effect(i)
    /\ sweeps' = [sweeps EXCEPT ![i].pc = "fail"]
    /\ UNCHANGED <<workflows, runs, callers, messages, sweepOthers>>

\* The step is refused before it does anything (target, AutoMod, allowlist).
RefuseStep(i) ==
    /\ sweeps[i].pc = "step"
    /\ sweeps' = [sweeps EXCEPT ![i].pc = "fail"]
    /\ UNCHANGED <<workflows, runs, did, callers, messages, sweepOthers>>

\* The outcome is written by id alone; the update of a row that is gone throws.
EndRun(i, status) ==
    LET r == Current(i) IN
    /\ runs' = IF runs[r].status = "GONE" THEN runs ELSE [runs EXCEPT ![r].status = status]
    /\ sweeps' = [sweeps EXCEPT ![i] = NextRun(Later(i))]
    /\ UNCHANGED <<workflows, did, callers, messages, sweepOthers>>

Succeed(i) == sweeps[i].pc = "succeed" /\ EndRun(i, "SUCCEEDED")
Fail(i) == sweeps[i].pc = "fail" /\ EndRun(i, "FAILED")

\* Any other error in execute: the run is left as it is.
ExecuteError(i) ==
    /\ sweeps[i].pc \in {"load", "step", "succeed", "fail"}
    /\ upsets < MaxUpsets
    /\ upsets' = upsets + 1
    /\ sweeps' = [sweeps EXCEPT ![i] = NextRun(Later(i))]
    /\ UNCHANGED <<workflows, runs, did, callers, cache, messages>>

\* A crash of instance i, or an error that ends its tick: the tick and some or
\* all of its calls are over.
AbortSweep(i) ==
    /\ upsets < MaxUpsets
    /\ upsets' = upsets + 1
    /\ \E lost \in SUBSET {c \in Callers : callers[c].home = i} :
         callers' = [c \in Callers |-> IF c \in lost THEN IdleCaller ELSE callers[c]]
    /\ sweeps' = [sweeps EXCEPT ![i] = IdleSweep]
    /\ UNCHANGED <<workflows, runs, did, cache, messages>>

--------------------------------------------------------------------------------
(* Time, and the owner.                                                     *)

\* nextRunAt comes.
BecomeDue(w) ==
    /\ workflows[w].live
    /\ workflows[w].next = "later"
    /\ workflows[w].fires < MaxFires
    /\ workflows' = [workflows EXCEPT ![w].next = "due"]
    /\ UNCHANGED <<runs, did, sweeps, callers, cache, messages, upsets>>

\* invalidate empties the copy of the editing instance; another instance, or
\* a query that began before the edit, still has or stores the old one.
Outdate == cache' = IF MessageTriggers' = MessageTriggers THEN cache ELSE cache \cup {MessageTriggers}

\* update: enabled and the steps change, nextRunAt stays.
Update(w) ==
    /\ upsets < MaxUpsets
    /\ workflows[w].live
    /\ \E enabled \in BOOLEAN, steps \in Steps :
         /\ enabled # workflows[w].enabled \/ steps # workflows[w].steps
         /\ workflows' = [workflows EXCEPT ![w].enabled = enabled, ![w].steps = steps]
    /\ Outdate
    /\ upsets' = upsets + 1
    /\ UNCHANGED <<runs, did, sweeps, callers, messages>>

\* remove: the runs go with the workflow (onDelete: Cascade).
RemoveWorkflow(w) ==
    /\ upsets < MaxUpsets
    /\ workflows[w].live
    /\ workflows' = [workflows EXCEPT ![w].live = FALSE]
    /\ runs' = [r \in Runs |-> IF runs[r].status # "ABSENT" /\ runs[r].draft.of = w
                               THEN [runs[r] EXCEPT !.status = "GONE"] ELSE runs[r]]
    /\ Outdate
    /\ upsets' = upsets + 1
    /\ UNCHANGED <<did, sweeps, callers, messages>>

--------------------------------------------------------------------------------
SweepStep(i) ==
    \/ FindStale(i) \/ FailStale(i) \/ FindFires(i) \/ ClaimFire(i) \/ InsertFire(i) \/ FindRuns(i)
    \/ ClaimRun(i) \/ LoadRun(i) \/ PostMessage(i) \/ PostMessageThrows(i) \/ HttpCall(i)
    \/ HttpCallFails(i) \/ RefuseStep(i) \/ Succeed(i) \/ Fail(i) \/ ExecuteError(i)

CallerStep(c) ==
    \/ LoadTriggers(c) \/ CountCaller(c) \/ InsertCaller(c)
    \/ \E i \in Instances : SendMessage(c, i)
    \/ \E i \in Instances, w \in Workflows, key \in Keys : ReceiveWebhook(c, i, w, key)

RunNext ==
    \/ \E i \in Instances : SweepStep(i) \/ AbortSweep(i)
    \/ \E c \in Callers : CallerStep(c)
    \/ \E r \in Runs : Age(r)
    \/ ExpireTriggers
    \/ \E w \in Workflows : BecomeDue(w) \/ Update(w) \/ RemoveWorkflow(w)

RunSpec == RunInit /\ [][RunNext]_runVars

--------------------------------------------------------------------------------
(* Properties.                                                              *)

Created == {r \in Runs : runs[r].status # "ABSENT"}

\* Every trigger makes at most one run of a workflow, whatever is retried and
\* however many instances see it: one per fire of a schedule, one per webhook
\* key, one per message (docs/features/channel-workflows.md, acceptance
\* criteria).  And a chain of workflows ends: a run is one deeper than the run
\* that caused it, and one past the cap never has an effect.
Lineage ==
    /\ \A r, s \in Created : runs[r].draft.of = runs[s].draft.of
                             /\ runs[r].draft.cause = runs[s].draft.cause => r = s
    /\ \A r \in Created :
         LET d == runs[r].draft IN
         /\ d.parent = 0 => d.depth = 0
         /\ d.parent # 0 => d.parent < r /\ d.depth = runs[d.parent].draft.depth + 1
         /\ d.depth > MaxDepth => did[r] = <<>>

\* A run as a job of ClaimedJobs.
RunState(r) ==
    CASE runs[r].status = "ABSENT" -> "absent"
      [] runs[r].status = "PENDING" -> "open"
      [] runs[r].status = "RUNNING" -> "taken"
      [] runs[r].status = "SUCCEEDED" -> "finished"
      [] runs[r].status \in {"FAILED", "GONE"} -> "closed"

RunHolders(r) == {i \in Instances : /\ sweeps[i].pc \in {"load", "step", "succeed", "fail"}
                                    /\ Current(i) = r}

\* Steps of run r that had their effect, counted with repetition.
RunDone(r) == Len(did[r])

RunWork(r) == IF runs[r].status = "ABSENT" THEN 0 ELSE runs[r].draft.steps
================================================================================
