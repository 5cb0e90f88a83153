----------------------------- MODULE Sweeps_proofs -----------------------------
(***************************************************************************)
(* Proofs about the services that work on due rows with a sweep in every   *)
(* API process, for every number of instances, workflows, rows and callers *)
(* in flight.  Each service has an inductive invariant of its own; the     *)
(* last section puts them together.                                        *)
(***************************************************************************)
EXTENDS Sweeps, FiniteSetTheorems, WellFoundedInduction, TLAPS

--------------------------------------------------------------------------------
(* Workflow runs: one for each cause, and no chain beyond the cap.          *)

Executing == {"load", "step", "succeed", "fail"}

SameCause(d, e) == d.of = e.of /\ d.cause = e.cause

\* A draft is one deeper than the run that caused it.
Linked(d) ==
    /\ d.parent = 0 => d.depth = 0
    /\ d.parent # 0 => d.parent \in Created /\ d.depth = runs[d.parent].draft.depth + 1

\* A copy of the triggers names no workflow twice.
OneEach(copy) == \A t, u \in copy : t.of = u.of => t = u

\* A run that was created.
RunKept(r) ==
    LET d == runs[r].draft IN
    /\ Linked(d)
    /\ d.parent < r
    /\ runs[r].status \in {"PENDING", "RUNNING"} => d.depth <= MaxDepth
    /\ d.depth > MaxDepth => did[r] = <<>>
    /\ runs[r].status = "GONE" => ~workflows[d.of].live
    /\ d.cause.by = "SCHEDULE" => d.cause.id < workflows[d.of].fires
    /\ d.cause.by = "MESSAGE_MATCHES" => d.cause.id <= messages

\* The sweep of an instance.
SweepKept(s) ==
    /\ s.draft.parent = 0 /\ s.draft.depth = 0 /\ s.draft.cause.by = "SCHEDULE"
    /\ s.pc \in Executing \cup {"claim"} => s.due # {}
    /\ s.pc \in Executing =>
          Oldest(s.due) \in Created /\ runs[Oldest(s.due)].draft.depth <= MaxDepth
    /\ s.pc = "step" => s.at <= s.steps
    /\ s.pc = "insert" => /\ s.draft.cause.id < workflows[s.draft.of].fires
                          /\ \A r \in Created : ~SameCause(runs[r].draft, s.draft)

\* A caller at work on a message.
Evaluates(k) == k.pc # "idle" /\ k.draft.cause.by = "MESSAGE_MATCHES"

\* An evaluation or a webhook call: what it may still insert was not inserted
\* for its message yet.
CallerKept(k) ==
    /\ Linked(k.draft)
    /\ k.pc # "idle" => k.draft.cause.by # "SCHEDULE"
    /\ OneEach(k.todo)
    /\ k.pc = "insert" => /\ k.verdict = "PENDING" => k.draft.depth <= MaxDepth
                          /\ \A t \in k.todo : t.of # k.draft.of
    /\ Evaluates(k) =>
          /\ k.draft.cause.id <= messages
          /\ \A r \in Created : runs[r].draft.cause = k.draft.cause =>
                /\ k.pc # "load"
                /\ \A t \in k.todo : t.of # runs[r].draft.of
                /\ k.pc = "insert" => k.draft.of # runs[r].draft.of

TablesOK ==
    /\ workflows \in [Workflows -> Workflow]
    /\ cache \subseteq SUBSET Triggers
    /\ \A copy \in cache : OneEach(copy)
    /\ messages \in 0 .. MaxMessages
    /\ upsets \in 0 .. MaxUpsets

\* Runs are numbered without gaps, and none has a step behind it before it is there.
RunsOK ==
    /\ runs \in [Runs -> Run]
    /\ did \in [Runs -> Seq(Steps)]
    /\ \A r \in Created, q \in Runs : q < r => q \in Created
    /\ \A r \in Runs \ Created : did[r] = <<>>
    /\ \A r \in Created : RunKept(r)
    /\ \A r, q \in Created : SameCause(runs[r].draft, runs[q].draft) => r = q

SweepsOK ==
    /\ sweeps \in [Instances -> Sweep]
    /\ \A i \in Instances : SweepKept(sweeps[i])
    /\ \A i, j \in Instances :
          sweeps[i].pc = "insert" /\ sweeps[j].pc = "insert" /\ SameCause(sweeps[i].draft, sweeps[j].draft)
             => i = j

CallersOK ==
    /\ callers \in [Callers -> Caller]
    /\ \A c \in Callers : CallerKept(callers[c])
    /\ \A c, e \in Callers :
          Evaluates(callers[c]) /\ Evaluates(callers[e]) /\ callers[c].draft.cause = callers[e].draft.cause
             => c = e

RunIInv == TablesOK /\ RunsOK /\ SweepsOK /\ CallersOK

--------------------------------------------------------------------------------
(* What the records are made of.                                            *)

LEMMA LeastExists ==
    ASSUME NEW S \in SUBSET Nat, S # {}
    PROVE  \E k \in S : \A other \in S : k <= other
<1>1. PICK k \in S : \A other \in S : ~(<<other, k>> \in OpToRel(<, Nat))
  BY NatLessThanWellFounded, WFMin
<1>2. ASSUME NEW other \in S PROVE k <= other
  <2>1. <<other, k>> \in Nat \X Nat
    OBVIOUS
  <2>2. ~(other < k)
    BY <1>1, <2>1 DEF OpToRel
  <2> QED
    BY <2>2
<1> QED
  BY <1>2

LEMMA OldestIs ==
    ASSUME NEW s \in SUBSET Runs, s # {}
    PROVE  Oldest(s) \in s /\ \A t \in s : Oldest(s) <= t
<1>1. s \in SUBSET Nat
  BY DEF Runs
<1> QED
  BY <1>1, LeastExists DEF Oldest

LEMMA Bounds ==
    /\ MaxRuns \in Nat /\ MaxDepth \in Nat /\ MaxMessages \in Nat /\ MaxUpsets \in Nat
    /\ Steps = 1 .. Len(Actions) /\ Len(Actions) \in Steps /\ 1 \in Steps
    /\ SomeWorkflow \in Workflows
    /\ Runs \subseteq Nat \ {0}
<1>1. {MaxDepth, MaxRuns, MaxMessages, MaxUpsets} \subseteq Nat
  BY WorkflowAssumption DEF WorkflowAssumption
<1>2. Actions \in Seq({"POST_MESSAGE", "HTTP_CALL"}) /\ Actions # <<>>
  BY WorkflowAssumption DEF WorkflowAssumption
<1>3. Steps = 1 .. Len(Actions) /\ Len(Actions) \in Steps /\ 1 \in Steps
  BY <1>2 DEF Steps
<1>4. SomeWorkflow \in Workflows
  BY WorkflowAssumption DEF WorkflowAssumption, SomeWorkflow
<1> QED
  BY <1>1, <1>3, <1>4 DEF Runs

LEMMA Records ==
    /\ NoDraft \in Draft /\ NoDraft.parent = 0 /\ NoDraft.depth = 0 /\ NoDraft.cause.by = "SCHEDULE"
    /\ NoRun \in Run /\ NoRun.status = "ABSENT"
    /\ IdleSweep \in Sweep /\ IdleSweep.pc = "idle" /\ IdleSweep.draft = NoDraft
    /\ IdleCaller \in Caller /\ IdleCaller.pc = "idle" /\ IdleCaller.draft = NoDraft /\ IdleCaller.todo = {}
<1>1. NoDraft \in Draft
  BY Bounds DEF NoDraft, Draft, NoCause, Causes, TriggerTypes
<1>2. NoDraft.parent = 0 /\ NoDraft.depth = 0 /\ NoDraft.cause.by = "SCHEDULE"
  BY DEF NoDraft, NoCause
<1>3. NoRun \in Run
  BY <1>1 DEF NoRun, Run, RunStatuses
<1>4. IdleSweep \in Sweep
  BY <1>1, Bounds DEF IdleSweep, Sweep
<1>5. IdleCaller \in Caller
  BY <1>1 DEF IdleCaller, Caller
<1> QED
  BY <1>1, <1>2, <1>3, <1>4, <1>5 DEF NoRun, IdleSweep, IdleCaller

\* An idle sweep, and one that has only a list to work on, owes nothing.
LEMMA ListedSweep ==
    ASSUME NEW s, s.draft = NoDraft,
           s.pc \in {"idle", "stale", "fire"} \/ (s.pc = "claim" /\ s.due # {})
    PROVE  SweepKept(s) /\ SweepKept(s)' /\ s.pc # "insert" /\ s.pc \notin Executing
<1>1. s.draft.parent = 0 /\ s.draft.depth = 0 /\ s.draft.cause.by = "SCHEDULE"
  BY Records
<1> QED
  BY <1>1 DEF SweepKept, Executing

LEMMA NextFireIs ==
    ASSUME NEW fires \in SUBSET [of : Workflows, steps : Steps, at : Nat], NEW s, s = NextFire(fires)
    PROVE  s \in Sweep /\ SweepKept(s) /\ SweepKept(s)' /\ s.pc # "insert" /\ s.pc \notin Executing
<1>1. s \in Sweep /\ s.draft = NoDraft /\ s.pc \in {"idle", "fire"}
  <2>1. CASE fires = {}
    BY <2>1, Records DEF NextFire
  <2>2. CASE fires # {}
    BY <2>2, Records DEF NextFire, Sweep, IdleSweep
  <2> QED
    BY <2>1, <2>2
<1> QED
  BY <1>1, ListedSweep

LEMMA NextRunIs ==
    ASSUME NEW due \in SUBSET Runs, NEW s, s = NextRun(due)
    PROVE  s \in Sweep /\ SweepKept(s) /\ SweepKept(s)' /\ s.pc # "insert" /\ s.pc \notin Executing
<1>1. s \in Sweep /\ s.draft = NoDraft /\ (s.pc = "idle" \/ (s.pc = "claim" /\ s.due # {}))
  <2>1. CASE due = {}
    BY <2>1, Records DEF NextRun
  <2>2. CASE due # {}
    BY <2>2, Records DEF NextRun, Sweep, IdleSweep
  <2> QED
    BY <2>1, <2>2
<1> QED
  BY <1>1, ListedSweep

LEMMA IdleCallerKept == CallerKept(IdleCaller) /\ CallerKept(IdleCaller)' /\ ~Evaluates(IdleCaller)
<1>1. IdleCaller.draft.parent = 0 /\ IdleCaller.draft.depth = 0
  BY Records
<1> QED
  BY <1>1, Records DEF CallerKept, Linked, OneEach, Evaluates

LEMMA InitRuns == RunInit => RunIInv
<1> SUFFICES ASSUME RunInit PROVE RunIInv
  OBVIOUS
<1>1. TablesOK
  <2>1. PICK server, armed :
          workflows = [w \in Workflows |-> [live |-> w \in server, enabled |-> TRUE, steps |-> Len(Actions),
                next |-> IF w \in armed THEN "later" ELSE "null", fires |-> 0]]
    BY DEF RunInit
  <2>2. ASSUME NEW w \in Workflows
        PROVE  [live |-> w \in server, enabled |-> TRUE, steps |-> Len(Actions),
                next |-> IF w \in armed THEN "later" ELSE "null", fires |-> 0] \in Workflow
    BY Bounds DEF Workflow
  <2>3. workflows \in [Workflows -> Workflow]
    BY <2>1, <2>2
  <2> QED
    BY <2>3, Bounds DEF RunInit, TablesOK
<1>2. RunsOK
  <2>1. runs \in [Runs -> Run] /\ Created = {}
    BY Records DEF RunInit, Created
  <2>2. did \in [Runs -> Seq(Steps)] /\ \A r \in Runs : did[r] = <<>>
    BY DEF RunInit
  <2> QED
    BY <2>1, <2>2 DEF RunsOK
<1>3. SweepsOK
  <2>1. sweeps \in [Instances -> Sweep] /\ \A i \in Instances : sweeps[i] = IdleSweep
    BY Records DEF RunInit
  <2>2. SweepKept(IdleSweep) /\ IdleSweep.pc # "insert"
    BY Records, ListedSweep
  <2> QED
    BY <2>1, <2>2 DEF SweepsOK
<1>4. CallersOK
  <2>1. callers \in [Callers -> Caller] /\ \A c \in Callers : callers[c] = IdleCaller
    BY Records DEF RunInit
  <2> QED
    BY <2>1, IdleCallerKept DEF CallersOK
<1> QED
  BY <1>1, <1>2, <1>3, <1>4 DEF RunIInv

--------------------------------------------------------------------------------
(* What is kept of the parts a step leaves alone.                           *)

\* Runs are added and keep their drafts, fires and messages are counted up.
Extends ==
    /\ \A r \in Created : r \in Created' /\ runs'[r].draft = runs[r].draft
    /\ \A w \in Workflows : workflows[w].fires <= workflows'[w].fires
    /\ messages <= messages'

LEMMA LinkedStays ==
    ASSUME Extends, NEW d, Linked(d)
    PROVE  Linked(d)'
BY DEF Extends, Linked

LEMMA SweepStays ==
    ASSUME TablesOK, TablesOK', Extends, NEW s \in Sweep, SweepKept(s),
           s.pc = "insert" => \A r \in Created' \ Created : ~SameCause(runs'[r].draft, s.draft)
    PROVE  SweepKept(s)'
<1>1. s.draft.of \in Workflows /\ s.draft.cause.id \in Nat
  BY DEF Sweep, Draft, Causes
<1>2. workflows[s.draft.of].fires \in Nat /\ workflows'[s.draft.of].fires \in Nat
      /\ workflows[s.draft.of].fires <= workflows'[s.draft.of].fires
  BY <1>1 DEF TablesOK, Workflow, Extends
<1>3. s.pc = "insert" => s.draft.cause.id < workflows'[s.draft.of].fires
  BY <1>1, <1>2 DEF SweepKept
<1>4. ASSUME s.pc = "insert", NEW r \in Created' PROVE ~SameCause(runs'[r].draft, s.draft)
  BY <1>4 DEF SweepKept, Extends, SameCause
<1>5. ASSUME s.pc \in Executing
      PROVE  Oldest(s.due) \in Created' /\ runs'[Oldest(s.due)].draft.depth <= MaxDepth
  BY <1>5 DEF SweepKept, Extends
<1> QED
  BY <1>3, <1>4, <1>5 DEF SweepKept

LEMMA CallerStays ==
    ASSUME TablesOK, TablesOK', Extends, NEW k \in Caller, CallerKept(k),
           Evaluates(k) => \A r \in Created' \ Created : runs'[r].draft.cause # k.draft.cause
    PROVE  CallerKept(k)'
<1>1. Linked(k.draft)'
  BY LinkedStays DEF CallerKept
<1>2. k.draft.cause.id \in Nat /\ messages \in Nat /\ messages' \in Nat /\ messages <= messages'
  BY Bounds DEF TablesOK, Extends, Caller, Draft, Causes
<1>3. Evaluates(k) => k.draft.cause.id <= messages'
  BY <1>2 DEF CallerKept
<1>4. ASSUME Evaluates(k), NEW r \in Created', runs'[r].draft.cause = k.draft.cause
      PROVE  /\ k.pc # "load"
             /\ \A t \in k.todo : t.of # runs'[r].draft.of
             /\ k.pc = "insert" => k.draft.of # runs'[r].draft.of
  <2>1. r \in Created /\ runs'[r].draft = runs[r].draft
    BY <1>4 DEF Extends
  <2> QED
    BY <1>4, <2>1 DEF CallerKept
<1> QED
  BY <1>1, <1>3, <1>4 DEF CallerKept, Evaluates

LEMMA SweepsStay ==
    ASSUME RunIInv, TablesOK', Extends, UNCHANGED sweeps,
           \A i \in Instances : sweeps[i].pc = "insert" =>
               \A r \in Created' \ Created : ~SameCause(runs'[r].draft, sweeps[i].draft)
    PROVE  SweepsOK'
<1>1. ASSUME NEW i \in Instances PROVE SweepKept(sweeps[i])'
  <2>1. PICK s \in Sweep : s = sweeps[i]
    BY DEF RunIInv, SweepsOK
  <2>2. SweepKept(s)
    BY <2>1 DEF RunIInv, SweepsOK
  <2>3. SweepKept(s)'
    BY <2>1, <2>2, SweepStays DEF RunIInv
  <2>4. s = sweeps'[i]
    BY <2>1
  <2> QED
    BY <2>3, <2>4 DEF SweepKept
<1> QED
  BY <1>1 DEF RunIInv, SweepsOK

LEMMA SweepsMove ==
    ASSUME RunIInv, TablesOK', Extends, NEW i \in Instances, NEW s \in Sweep,
           sweeps' = [sweeps EXCEPT ![i] = s], SweepKept(s)',
           \A j \in Instances \ {i} : sweeps[j].pc = "insert" =>
               /\ \A r \in Created' \ Created : ~SameCause(runs'[r].draft, sweeps[j].draft)
               /\ s.pc = "insert" => ~SameCause(s.draft, sweeps[j].draft)
    PROVE  SweepsOK'
<1>1. /\ sweeps' \in [Instances -> Sweep] /\ sweeps'[i] = s
      /\ \A j \in Instances \ {i} : sweeps'[j] = sweeps[j]
  BY DEF RunIInv, SweepsOK
<1>2. ASSUME NEW j \in Instances PROVE SweepKept(sweeps[j])'
  <2>1. CASE j = i
    BY <1>1, <2>1 DEF SweepKept
  <2>2. CASE j # i
    <3>1. PICK t \in Sweep : t = sweeps[j]
      BY DEF RunIInv, SweepsOK
    <3>2. SweepKept(t)
      BY <3>1 DEF RunIInv, SweepsOK
    <3>3. SweepKept(t)'
      BY <2>2, <3>1, <3>2, SweepStays DEF RunIInv
    <3>4. t = sweeps'[j]
      BY <1>1, <2>2, <3>1
    <3> QED
      BY <3>3, <3>4 DEF SweepKept
  <2> QED
    BY <2>1, <2>2
<1>3. ASSUME NEW j \in Instances, NEW k \in Instances, sweeps'[j].pc = "insert", sweeps'[k].pc = "insert",
             SameCause(sweeps'[j].draft, sweeps'[k].draft)
      PROVE  j = k
  BY <1>1, <1>3 DEF RunIInv, SweepsOK, SameCause
<1> QED
  BY <1>1, <1>2, <1>3 DEF SweepsOK

LEMMA CallersStay ==
    ASSUME RunIInv, TablesOK', Extends, NEW lost \in SUBSET Callers,
           callers' = [c \in Callers |-> IF c \in lost THEN IdleCaller ELSE callers[c]],
           \A c \in Callers : Evaluates(callers[c]) =>
               \A r \in Created' \ Created : runs'[r].draft.cause # callers[c].draft.cause
    PROVE  CallersOK'
<1>1. /\ callers' \in [Callers -> Caller]
      /\ \A c \in Callers : callers'[c] = IF c \in lost THEN IdleCaller ELSE callers[c]
  BY Records DEF RunIInv, CallersOK
<1>2. ASSUME NEW c \in Callers PROVE CallerKept(callers[c])'
  <2>1. CASE c \in lost
    BY <1>1, <2>1, IdleCallerKept DEF CallerKept
  <2>2. CASE c \notin lost
    <3>1. PICK k \in Caller : k = callers[c]
      BY DEF RunIInv, CallersOK
    <3>2. CallerKept(k)
      BY <3>1 DEF RunIInv, CallersOK
    <3>3. CallerKept(k)'
      BY <3>1, <3>2, CallerStays DEF RunIInv
    <3>4. k = callers'[c]
      BY <1>1, <2>2, <3>1
    <3> QED
      BY <3>3, <3>4 DEF CallerKept, Evaluates
  <2> QED
    BY <2>1, <2>2
<1>3. ASSUME NEW c \in Callers, NEW e \in Callers, Evaluates(callers'[c]), Evaluates(callers'[e]),
             callers'[c].draft.cause = callers'[e].draft.cause
      PROVE  c = e
  <2>1. c \notin lost /\ e \notin lost
    BY <1>1, <1>3, IdleCallerKept
  <2> QED
    BY <1>1, <1>3, <2>1 DEF RunIInv, CallersOK
<1> QED
  BY <1>1, <1>2, <1>3 DEF CallersOK, Evaluates

LEMMA CallersMove ==
    ASSUME RunIInv, TablesOK', Extends, NEW c \in Callers, NEW k \in Caller,
           callers' = [callers EXCEPT ![c] = k], CallerKept(k)',
           \A e \in Callers \ {c} : Evaluates(callers[e]) =>
               /\ \A r \in Created' \ Created : runs'[r].draft.cause # callers[e].draft.cause
               /\ Evaluates(k) => k.draft.cause # callers[e].draft.cause
    PROVE  CallersOK'
<1>1. /\ callers' \in [Callers -> Caller] /\ callers'[c] = k
      /\ \A e \in Callers \ {c} : callers'[e] = callers[e]
  BY DEF RunIInv, CallersOK
<1>2. ASSUME NEW e \in Callers PROVE CallerKept(callers[e])'
  <2>1. CASE e = c
    BY <1>1, <2>1 DEF CallerKept, Evaluates
  <2>2. CASE e # c
    <3>1. PICK n \in Caller : n = callers[e]
      BY DEF RunIInv, CallersOK
    <3>2. CallerKept(n)
      BY <3>1 DEF RunIInv, CallersOK
    <3>3. CallerKept(n)'
      BY <2>2, <3>1, <3>2, CallerStays DEF RunIInv
    <3>4. n = callers'[e]
      BY <1>1, <2>2, <3>1
    <3> QED
      BY <3>3, <3>4 DEF CallerKept, Evaluates
  <2> QED
    BY <2>1, <2>2
<1>3. ASSUME NEW d \in Callers, NEW e \in Callers, Evaluates(callers'[d]), Evaluates(callers'[e]),
             callers'[d].draft.cause = callers'[e].draft.cause
      PROVE  d = e
  BY <1>1, <1>3 DEF RunIInv, CallersOK
<1> QED
  BY <1>1, <1>2, <1>3 DEF CallersOK, Evaluates

\* A run that was created stays in order unless its status is put wrong, or a
\* step of it carried out that should not be.
LEMMA RunStays ==
    ASSUME RunIInv, TablesOK', Extends, NEW r \in Created,
           runs'[r].status \in {"PENDING", "RUNNING"} => runs[r].draft.depth <= MaxDepth,
           runs[r].draft.depth > MaxDepth => did'[r] = did[r],
           runs'[r].status = "GONE" => ~workflows'[runs[r].draft.of].live
    PROVE  RunKept(r)'
<1> DEFINE d == runs[r].draft
<1>1. d \in Draft /\ runs'[r].draft = d /\ RunKept(r) /\ r \in Runs
  BY DEF RunIInv, RunsOK, Run, Created, Extends
<1>2. Linked(d)'
  <2>1. PICK e : e = d
    OBVIOUS
  <2>2. Linked(e)
    BY <1>1, <2>1 DEF RunKept
  <2>3. Linked(e)'
    BY <2>2, LinkedStays
  <2>4. e = runs'[r].draft
    BY <1>1, <2>1
  <2> QED
    BY <2>3, <2>4 DEF Linked
<1>3. d.cause.by = "SCHEDULE" => d.cause.id < workflows'[d.of].fires
  <2>1. d.of \in Workflows /\ d.cause.id \in Nat
    BY <1>1 DEF Draft, Causes
  <2>2. workflows[d.of].fires \in Nat /\ workflows'[d.of].fires \in Nat
        /\ workflows[d.of].fires <= workflows'[d.of].fires
    BY <2>1 DEF RunIInv, TablesOK, Workflow, Extends
  <2> QED
    BY <1>1, <2>1, <2>2 DEF RunKept
<1>4. d.cause.by = "MESSAGE_MATCHES" => d.cause.id <= messages'
  <2>1. d.cause.id \in Nat /\ messages \in Nat /\ messages' \in Nat /\ messages <= messages'
    BY <1>1, Bounds DEF Draft, Causes, RunIInv, TablesOK, Extends
  <2> QED
    BY <1>1, <2>1 DEF RunKept
<1>5. d.parent < r /\ (d.depth > MaxDepth => did'[r] = <<>>)
  BY <1>1 DEF RunKept
<1> HIDE DEF d
<1> QED
  BY <1>1, <1>2, <1>3, <1>4, <1>5 DEF RunKept, Linked, d

\* A step that creates no run.
LEMMA RunsMove ==
    ASSUME RunIInv, TablesOK', Extends, runs' \in [Runs -> Run], did' \in [Runs -> Seq(Steps)],
           \A r \in Runs \ Created : runs'[r] = runs[r] /\ did'[r] = did[r],
           \A r \in Created :
               /\ runs'[r].status \in {"PENDING", "RUNNING"} => runs[r].draft.depth <= MaxDepth
               /\ runs[r].draft.depth > MaxDepth => did'[r] = did[r]
               /\ runs'[r].status = "GONE" => ~workflows'[runs[r].draft.of].live
    PROVE  RunsOK' /\ Created' = Created
<1>1. Created' = Created
  BY DEF Created, Extends
<1>2. \A r \in Created : RunKept(r)'
  BY RunStays
<1>3. ASSUME NEW r \in Created', NEW q \in Created', SameCause(runs'[r].draft, runs'[q].draft) PROVE r = q
  <2>1. r \in Created /\ q \in Created /\ runs'[r].draft = runs[r].draft /\ runs'[q].draft = runs[q].draft
    BY <1>1 DEF Extends
  <2> QED
    BY <1>3, <2>1 DEF RunIInv, RunsOK
<1> QED
  BY <1>1, <1>2, <1>3 DEF RunIInv, RunsOK

LEMMA RunsStay ==
    ASSUME RunIInv, TablesOK', UNCHANGED <<runs, did>>,
           \A w \in Workflows : /\ workflows[w].fires <= workflows'[w].fires
                                /\ workflows'[w].live => workflows[w].live,
           messages <= messages'
    PROVE  RunsOK' /\ Created' = Created /\ Extends
<1>1. Extends
  BY DEF Extends, Created
<1>2. runs' \in [Runs -> Run] /\ did' \in [Runs -> Seq(Steps)]
  BY DEF RunIInv, RunsOK
<1>3. ASSUME NEW r \in Created
      PROVE  /\ runs'[r].status \in {"PENDING", "RUNNING"} => runs[r].draft.depth <= MaxDepth
             /\ runs'[r].status = "GONE" => ~workflows'[runs[r].draft.of].live
  <2>1. RunKept(r) /\ runs[r].draft.of \in Workflows
    BY DEF RunIInv, RunsOK, Created, Run, Draft
  <2> QED
    BY <2>1 DEF RunKept
<1> QED
  BY <1>1, <1>2, <1>3, RunsMove

\* Nothing was created, and nobody is about to insert who was not before.
LEMMA CallersSame ==
    ASSUME RunIInv, TablesOK', Extends, UNCHANGED callers,
           \A c \in Callers : Evaluates(callers[c]) =>
               \A r \in Created' \ Created : runs'[r].draft.cause # callers[c].draft.cause
    PROVE  CallersOK'
<1>1. PICK lost \in SUBSET Callers : lost = {}
  OBVIOUS
<1>2. callers' = [c \in Callers |-> IF c \in lost THEN IdleCaller ELSE callers[c]]
  BY <1>1 DEF RunIInv, CallersOK
<1> QED
  BY <1>2, CallersStay

LEMMA TablesStay ==
    ASSUME RunIInv, UNCHANGED <<workflows, cache>>, messages' \in 0 .. MaxMessages, upsets' \in 0 .. MaxUpsets
    PROVE  /\ TablesOK'
           /\ \A w \in Workflows : /\ workflows[w].fires <= workflows'[w].fires
                                   /\ workflows'[w].live => workflows[w].live
<1>1. \A w \in Workflows : workflows[w].fires \in Nat
  BY DEF RunIInv, TablesOK, Workflow
<1> QED
  BY <1>1 DEF RunIInv, TablesOK

\* A step of one sweep that creates no run and leaves it with no run to insert.
LEMMA SweepMoves ==
    ASSUME RunIInv, TablesOK', Extends, RunsOK', Created' = Created,
           NEW i \in Instances, NEW s \in Sweep, sweeps' = [sweeps EXCEPT ![i] = s],
           SweepKept(s), s.pc # "insert", UNCHANGED callers
    PROVE  RunIInv'
<1>1. SweepKept(s)'
  BY SweepStays DEF RunIInv
<1>2. SweepsOK'
  BY <1>1, SweepsMove
<1>3. CallersOK'
  BY CallersSame
<1> QED
  BY <1>2, <1>3 DEF RunIInv

\* And one that changes no table at all.
LEMMA QuietSweep ==
    ASSUME RunIInv, NEW i \in Instances, NEW s \in Sweep, sweeps' = [sweeps EXCEPT ![i] = s],
           SweepKept(s), s.pc # "insert",
           UNCHANGED <<workflows, runs, did, callers, cache, messages>>, upsets' \in 0 .. MaxUpsets
    PROVE  RunIInv'
<1>1. messages \in Nat /\ messages' \in 0 .. MaxMessages /\ messages <= messages'
  BY Bounds DEF RunIInv, TablesOK
<1>2. TablesOK' /\ RunsOK' /\ Created' = Created /\ Extends
  BY <1>1, TablesStay, RunsStay
<1> QED
  BY <1>2, SweepMoves

--------------------------------------------------------------------------------
(* Runs that are claimed, ended, given up.                                  *)

\* The run an instance works on.
LEMMA AtWork ==
    ASSUME RunIInv, NEW i \in Instances, sweeps[i].pc \in Executing \cup {"claim"}
    PROVE  /\ Current(i) \in Runs /\ Current(i) \in sweeps[i].due /\ Later(i) \in SUBSET Runs
           /\ sweeps[i].pc \in Executing =>
                 Current(i) \in Created /\ runs[Current(i)].draft.depth <= MaxDepth
<1>1. sweeps[i] \in Sweep /\ SweepKept(sweeps[i])
  BY DEF RunIInv, SweepsOK
<1>2. sweeps[i].due \in SUBSET Runs /\ sweeps[i].due # {}
  BY <1>1 DEF Sweep, SweepKept
<1>3. Current(i) \in sweeps[i].due
  BY <1>2, OldestIs DEF Current
<1> QED
  BY <1>1, <1>2, <1>3 DEF Current, Later, SweepKept

\* One run changes its status, or ages.
LEMMA StatusMoves ==
    ASSUME RunIInv, TablesOK', NEW r \in Created, NEW status \in RunStatuses \ {"ABSENT", "GONE"}, NEW aged \in BOOLEAN,
           runs' = [runs EXCEPT ![r] = [runs[r] EXCEPT !.status = status, !.aged = aged]],
           status \in {"PENDING", "RUNNING"} => runs[r].draft.depth <= MaxDepth,
           UNCHANGED <<workflows, did, messages>>
    PROVE  RunsOK' /\ Created' = Created /\ Extends
<1>1. r \in Runs /\ runs[r] \in Run
  BY DEF Created, RunIInv, RunsOK
<1> DEFINE q == [runs[r] EXCEPT !.status = status, !.aged = aged]
<1>2. q \in Run /\ q.status = status /\ q.draft = runs[r].draft
  BY <1>1 DEF Run
<1>3. runs' \in [Runs -> Run] /\ runs'[r] = q /\ \A t \in Runs : t # r => runs'[t] = runs[t]
  BY <1>1, <1>2 DEF RunIInv, RunsOK
<1> HIDE DEF q
<1>4. Created' = Created
  BY <1>1, <1>2, <1>3 DEF Created
<1>5. Extends
  <2>1. \A w \in Workflows : workflows[w].fires \in Nat
    BY DEF RunIInv, TablesOK, Workflow
  <2>2. messages \in Nat
    BY Bounds DEF RunIInv, TablesOK
  <2> QED
    BY <1>2, <1>3, <1>4, <2>1, <2>2 DEF Extends, Created
<1>6. ASSUME NEW t \in Created
      PROVE  /\ runs'[t].status \in {"PENDING", "RUNNING"} => runs[t].draft.depth <= MaxDepth
             /\ runs[t].draft.depth > MaxDepth => did'[t] = did[t]
             /\ runs'[t].status = "GONE" => ~workflows'[runs[t].draft.of].live
  <2>1. RunKept(t) /\ t \in Runs
    BY DEF RunIInv, RunsOK, Created
  <2> QED
    BY <1>2, <1>3, <2>1 DEF RunKept
<1>7. \A t \in Runs \ Created : runs'[t] = runs[t] /\ did'[t] = did[t]
  BY <1>3
<1>8. did' \in [Runs -> Seq(Steps)]
  BY DEF RunIInv, RunsOK
<1> QED
  BY <1>3, <1>4, <1>5, <1>6, <1>7, <1>8, RunsMove

\* The sweep of instance i moves on to s, and the status of run r changes.
LEMMA StatusStep ==
    ASSUME RunIInv, NEW r \in Created, NEW status \in RunStatuses \ {"ABSENT", "GONE"},
           runs' = [runs EXCEPT ![r].status = status],
           status \in {"PENDING", "RUNNING"} => runs[r].draft.depth <= MaxDepth,
           NEW i \in Instances, NEW s \in Sweep, sweeps' = [sweeps EXCEPT ![i] = s],
           SweepKept(s), s.pc # "insert", UNCHANGED <<workflows, did, callers, cache, messages, upsets>>
    PROVE  RunIInv'
<1>1. r \in Runs /\ runs[r] \in Run /\ runs \in [Runs -> Run]
  BY DEF Created, RunIInv, RunsOK
<1>2. [runs[r] EXCEPT !.status = status] = [runs[r] EXCEPT !.status = status, !.aged = runs[r].aged]
      /\ runs[r].aged \in BOOLEAN
  BY <1>1 DEF Run
<1>3. PICK aged \in BOOLEAN : runs' = [runs EXCEPT ![r] = [runs[r] EXCEPT !.status = status, !.aged = aged]]
  BY <1>1, <1>2
<1>4. TablesOK'
  BY TablesStay DEF RunIInv, TablesOK
<1>5. RunsOK' /\ Created' = Created /\ Extends
  BY <1>3, <1>4, StatusMoves
<1> QED
  BY <1>4, <1>5, SweepMoves

LEMMA FindStaleStep ==
    ASSUME RunIInv, NEW i \in Instances, FindStale(i)
    PROVE  RunIInv'
<1>1. PICK stale \in SUBSET Runs : sweeps' = [sweeps EXCEPT ![i].pc = "stale", ![i].stale = stale]
  BY DEF FindStale
<1>2. sweeps[i] \in Sweep /\ SweepKept(sweeps[i]) /\ sweeps \in [Instances -> Sweep]
  BY DEF RunIInv, SweepsOK
<1> DEFINE s == [sweeps[i] EXCEPT !.pc = "stale", !.stale = stale]
<1>3. s \in Sweep /\ s.pc = "stale" /\ s.draft = sweeps[i].draft
  BY <1>2 DEF Sweep
<1>4. sweeps' = [sweeps EXCEPT ![i] = s]
  BY <1>1, <1>2
<1> HIDE DEF s
<1>5. SweepKept(s)
  BY <1>2, <1>3 DEF SweepKept, Executing
<1>6. upsets' \in 0 .. MaxUpsets
  BY DEF FindStale, sweepOthers, RunIInv, TablesOK
<1> QED
  BY <1>3, <1>4, <1>5, <1>6, QuietSweep DEF FindStale, sweepOthers

LEMMA FailStaleStep ==
    ASSUME RunIInv, NEW i \in Instances, FailStale(i)
    PROVE  RunIInv'
<1>1. PICK r \in sweeps[i].stale :
        /\ runs' = IF runs[r].status = "RUNNING" THEN [runs EXCEPT ![r].status = "FAILED"] ELSE runs
        /\ sweeps' = [sweeps EXCEPT ![i] = IF sweeps[i].stale = {r} THEN IdleSweep
                                           ELSE [sweeps[i] EXCEPT !.stale = @ \ {r}]]
  BY DEF FailStale
<1>2. sweeps[i] \in Sweep /\ SweepKept(sweeps[i]) /\ sweeps[i].pc = "stale" /\ r \in Runs
  BY <1>1 DEF RunIInv, SweepsOK, FailStale, Sweep
<1> DEFINE s == IF sweeps[i].stale = {r} THEN IdleSweep ELSE [sweeps[i] EXCEPT !.stale = @ \ {r}]
<1>3. s \in Sweep /\ SweepKept(s) /\ s.pc # "insert"
  <2>1. CASE sweeps[i].stale = {r}
    BY <2>1, Records, ListedSweep
  <2>2. CASE sweeps[i].stale # {r}
    <3>1. s \in Sweep /\ s.pc = "stale" /\ s.draft = sweeps[i].draft
      BY <1>2, <2>2 DEF Sweep
    <3> QED
      BY <1>2, <3>1 DEF SweepKept, Executing
  <2> QED
    BY <2>1, <2>2
<1>4. sweeps' = [sweeps EXCEPT ![i] = s]
  BY <1>1
<1> HIDE DEF s
<1>5. UNCHANGED <<workflows, did, callers, cache, messages, upsets>>
  BY DEF FailStale, sweepOthers
<1>6. CASE runs[r].status = "RUNNING"
  <2>1. r \in Created /\ runs' = [runs EXCEPT ![r].status = "FAILED"]
    BY <1>1, <1>2, <1>6 DEF Created
  <2> QED
    BY <1>3, <1>4, <1>5, <2>1, StatusStep DEF RunStatuses
<1>7. CASE runs[r].status # "RUNNING"
  <2>1. UNCHANGED runs /\ upsets' \in 0 .. MaxUpsets
    BY <1>1, <1>5, <1>7 DEF RunIInv, TablesOK
  <2> QED
    BY <1>3, <1>4, <1>5, <2>1, QuietSweep
<1> QED
  BY <1>6, <1>7

LEMMA FindFiresStep ==
    ASSUME RunIInv, NEW i \in Instances, FindFires(i)
    PROVE  RunIInv'
<1> DEFINE due == {w \in Workflows : workflows[w].live /\ workflows[w].enabled /\ workflows[w].next = "due"}
           fires == {[of |-> w, steps |-> workflows[w].steps, at |-> workflows[w].fires] : w \in due}
<1>1. fires \in SUBSET [of : Workflows, steps : Steps, at : Nat]
  BY DEF RunIInv, TablesOK, Workflow
<1>2. sweeps' = [sweeps EXCEPT ![i] = NextFire(fires)]
  BY DEF FindFires
<1> HIDE DEF fires
<1>3. PICK s : s = NextFire(fires)
  OBVIOUS
<1>4. s \in Sweep /\ SweepKept(s) /\ s.pc # "insert"
  BY <1>1, <1>3, NextFireIs
<1>5. upsets' \in 0 .. MaxUpsets
  BY DEF FindFires, sweepOthers, RunIInv, TablesOK
<1> QED
  BY <1>2, <1>3, <1>4, <1>5, QuietSweep DEF FindFires, sweepOthers

LEMMA FindRunsStep ==
    ASSUME RunIInv, NEW i \in Instances, FindRuns(i)
    PROVE  RunIInv'
<1>1. PICK due \in SUBSET Runs : sweeps' = [sweeps EXCEPT ![i] = NextRun(due)]
  BY DEF FindRuns
<1>2. PICK s : s = NextRun(due)
  OBVIOUS
<1>3. s \in Sweep /\ SweepKept(s) /\ s.pc # "insert"
  BY <1>2, NextRunIs
<1>4. upsets' \in 0 .. MaxUpsets
  BY DEF FindRuns, sweepOthers, RunIInv, TablesOK
<1> QED
  BY <1>1, <1>2, <1>3, <1>4, QuietSweep DEF FindRuns, sweepOthers

\* Instance i is done with its run, whatever became of it.
LEMMA LaterIs ==
    ASSUME RunIInv, NEW i \in Instances, sweeps[i].pc \in Executing \cup {"claim"},
           NEW s, s = NextRun(Later(i))
    PROVE  s \in Sweep /\ SweepKept(s) /\ s.pc # "insert"
BY AtWork, NextRunIs

LEMMA ClaimRunStep ==
    ASSUME RunIInv, NEW i \in Instances, ClaimRun(i)
    PROVE  RunIInv'
<1> DEFINE r == Current(i)
<1>1. sweeps[i].pc = "claim" /\ UNCHANGED <<workflows, did, callers, messages, cache, upsets>>
  BY DEF ClaimRun, sweepOthers
<1>2. sweeps[i] \in Sweep /\ SweepKept(sweeps[i]) /\ sweeps \in [Instances -> Sweep]
  BY DEF RunIInv, SweepsOK
<1>3. r \in Runs /\ r \in sweeps[i].due
  BY <1>1, AtWork
<1>4. CASE runs[r].status = "PENDING"
  <2> DEFINE s == [sweeps[i] EXCEPT !.pc = "load"]
  <2>1. r \in Created /\ runs[r].draft.depth <= MaxDepth
    BY <1>3, <1>4 DEF Created, RunIInv, RunsOK, RunKept
  <2>2. s \in Sweep /\ s.pc = "load" /\ s.draft = sweeps[i].draft /\ s.due = sweeps[i].due
    BY <1>2 DEF Sweep
  <2>3. runs' = [runs EXCEPT ![r].status = "RUNNING"] /\ sweeps' = [sweeps EXCEPT ![i] = s]
    BY <1>2, <1>4 DEF ClaimRun
  <2>4. Oldest(s.due) = r
    BY <2>2 DEF Current
  <2> HIDE DEF s, r
  <2>5. SweepKept(s)
    BY <1>2, <1>3, <2>1, <2>2, <2>4 DEF SweepKept, Executing
  <2> QED
    BY <1>1, <2>1, <2>2, <2>3, <2>5, StatusStep DEF RunStatuses
<1>5. CASE runs[r].status # "PENDING"
  <2>1. PICK s : s = NextRun(Later(i))
    OBVIOUS
  <2>2. s \in Sweep /\ SweepKept(s) /\ s.pc # "insert"
    BY <1>1, <2>1, LaterIs
  <2>3. sweeps' = [sweeps EXCEPT ![i] = s] /\ UNCHANGED runs /\ upsets' \in 0 .. MaxUpsets
    BY <1>1, <1>5, <2>1 DEF ClaimRun, RunIInv, TablesOK
  <2> QED
    BY <1>1, <2>2, <2>3, QuietSweep
<1> QED
  BY <1>4, <1>5

LEMMA EndRunStep ==
    ASSUME RunIInv, NEW i \in Instances, Succeed(i) \/ Fail(i)
    PROVE  RunIInv'
<1>1. PICK status \in {"SUCCEEDED", "FAILED"} : EndRun(i, status)
  BY DEF Succeed, Fail
<1>2. sweeps[i].pc \in Executing
  BY DEF Succeed, Fail, Executing
<1> DEFINE r == Current(i)
<1>3. r \in Created
  BY <1>2, AtWork
<1>4. PICK s : s = NextRun(Later(i))
  OBVIOUS
<1>5. s \in Sweep /\ SweepKept(s) /\ s.pc # "insert"
  BY <1>2, <1>4, LaterIs
<1>6. sweeps' = [sweeps EXCEPT ![i] = s] /\ UNCHANGED <<workflows, did, callers, cache, messages, upsets>>
  BY <1>1, <1>4 DEF EndRun, sweepOthers
<1>7. runs' = IF runs[r].status = "GONE" THEN runs ELSE [runs EXCEPT ![r].status = status]
  BY <1>1 DEF EndRun
<1> HIDE DEF r
<1>8. CASE runs[r].status = "GONE"
  <2>1. UNCHANGED runs /\ upsets' \in 0 .. MaxUpsets
    BY <1>6, <1>7, <1>8 DEF RunIInv, TablesOK
  <2> QED
    BY <1>5, <1>6, <2>1, QuietSweep
<1>9. CASE runs[r].status # "GONE"
  <2>1. runs' = [runs EXCEPT ![r].status = status] /\ status \in RunStatuses \ {"ABSENT", "GONE"}
        /\ status \notin {"PENDING", "RUNNING"}
    BY <1>7, <1>9 DEF RunStatuses
  <2> QED
    BY <1>3, <1>5, <1>6, <2>1, StatusStep
<1> QED
  BY <1>8, <1>9

LEMMA AgeStep ==
    ASSUME RunIInv, NEW r \in Runs, Age(r)
    PROVE  RunIInv'
<1>1. runs[r].status = "RUNNING" /\ r \in Created /\ UNCHANGED <<workflows, did, sweeps, callers, messages, cache, upsets>>
  BY DEF Age, sweepOthers, Created
<1>2. runs[r].draft.depth <= MaxDepth /\ runs[r] \in Run /\ runs \in [Runs -> Run]
  BY <1>1 DEF RunIInv, RunsOK, RunKept
<1>3. [runs[r] EXCEPT !.aged = TRUE] = [runs[r] EXCEPT !.status = "RUNNING", !.aged = TRUE]
  BY <1>1, <1>2 DEF Run
<1>4. runs' = [runs EXCEPT ![r] = [runs[r] EXCEPT !.status = "RUNNING", !.aged = TRUE]]
  BY <1>2, <1>3 DEF Age
<1>5. TablesOK'
  BY <1>1, TablesStay DEF RunIInv, TablesOK
<1>6. RunsOK' /\ Created' = Created /\ Extends
  BY <1>1, <1>2, <1>4, <1>5, StatusMoves DEF RunStatuses
<1>7. SweepsOK'
  BY <1>1, <1>5, <1>6, SweepsStay
<1>8. CallersOK'
  BY <1>1, <1>5, <1>6, CallersSame
<1> QED
  BY <1>5, <1>6, <1>7, <1>8 DEF RunIInv

--------------------------------------------------------------------------------
(* A run at work.                                                           *)

LEMMA LoadRunStep ==
    ASSUME RunIInv, NEW i \in Instances, LoadRun(i)
    PROVE  RunIInv'
<1> DEFINE r == Current(i)
<1>1. /\ sweeps[i].pc = "load" /\ sweeps[i].pc \in Executing
      /\ UNCHANGED <<workflows, runs, did, callers, messages, cache, upsets>>
  BY DEF LoadRun, sweepOthers, Executing
<1>2. sweeps[i] \in Sweep /\ SweepKept(sweeps[i]) /\ sweeps \in [Instances -> Sweep]
  BY DEF RunIInv, SweepsOK
<1>3. r \in Created /\ runs[r].draft.depth <= MaxDepth /\ r \in Runs /\ r \in sweeps[i].due
  BY <1>1, AtWork
<1>4. upsets' \in 0 .. MaxUpsets
  BY <1>1 DEF RunIInv, TablesOK
<1>5. CASE runs[r].status = "GONE"
  <2>1. PICK s : s = NextRun(Later(i))
    OBVIOUS
  <2>2. s \in Sweep /\ SweepKept(s) /\ s.pc # "insert"
    BY <1>1, <2>1, LaterIs
  <2>3. sweeps' = [sweeps EXCEPT ![i] = s]
    BY <1>5, <2>1 DEF LoadRun
  <2> QED
    BY <1>1, <1>4, <2>2, <2>3, QuietSweep
<1>6. CASE runs[r].status # "GONE"
  <2> DEFINE s == [sweeps[i] EXCEPT !.pc = "step", !.steps = runs[r].draft.steps, !.at = 1]
  <2>1. runs[r].draft.steps \in Steps /\ 1 <= runs[r].draft.steps
    BY <1>3, Bounds DEF RunIInv, RunsOK, Run, Draft
  <2>2. s \in Sweep /\ s.pc = "step" /\ s.draft = sweeps[i].draft /\ s.due = sweeps[i].due /\ s.at <= s.steps
    BY <1>2, <2>1, Bounds DEF Sweep
  <2>3. sweeps' = [sweeps EXCEPT ![i] = s]
    BY <1>2, <1>6 DEF LoadRun
  <2>4. Oldest(s.due) = r
    BY <2>2 DEF Current
  <2> HIDE DEF s, r
  <2>5. SweepKept(s)
    BY <1>2, <1>3, <2>2, <2>4 DEF SweepKept, Executing
  <2> QED
    BY <1>1, <1>4, <2>2, <2>3, <2>5, QuietSweep
<1> QED
  BY <1>5, <1>6

LEMMA RefuseStepStep ==
    ASSUME RunIInv, NEW i \in Instances, RefuseStep(i)
    PROVE  RunIInv'
<1>1. /\ sweeps[i].pc = "step"
      /\ UNCHANGED <<workflows, runs, did, callers, messages, cache, upsets>>
  BY DEF RefuseStep, sweepOthers
<1>2. sweeps[i] \in Sweep /\ SweepKept(sweeps[i]) /\ sweeps \in [Instances -> Sweep]
  BY DEF RunIInv, SweepsOK
<1> DEFINE s == [sweeps[i] EXCEPT !.pc = "fail"]
<1>3. s \in Sweep /\ s.pc = "fail" /\ s.draft = sweeps[i].draft /\ s.due = sweeps[i].due
  BY <1>2 DEF Sweep
<1>4. sweeps' = [sweeps EXCEPT ![i] = s] /\ upsets' \in 0 .. MaxUpsets
  BY <1>1, <1>2 DEF RefuseStep, RunIInv, TablesOK
<1> HIDE DEF s
<1>5. SweepKept(s)
  BY <1>1, <1>2, <1>3 DEF SweepKept, Executing
<1> QED
  BY <1>1, <1>3, <1>4, <1>5, QuietSweep

\* The step that is due has its effect.
LEMMA EffectIs ==
    ASSUME RunIInv, TablesOK', NEW i \in Instances, sweeps[i].pc = "step", Effect(i),
           UNCHANGED <<workflows, runs>>, messages <= messages'
    PROVE  RunsOK' /\ Created' = Created /\ Extends
<1> DEFINE r == Current(i)
           k == sweeps[i].at
<1>1. r \in Created /\ r \in Runs /\ runs[r].draft.depth <= MaxDepth
  BY AtWork DEF Executing
<1>2. k \in Steps
  BY DEF RunIInv, SweepsOK, Sweep
<1>3. did \in [Runs -> Seq(Steps)] /\ did' = [did EXCEPT ![r] = Append(did[r], k)]
  BY DEF RunIInv, RunsOK, Effect
<1> HIDE DEF r, k
<1>4. did' \in [Runs -> Seq(Steps)] /\ \A t \in Runs : t # r => did'[t] = did[t]
  BY <1>1, <1>2, <1>3
<1>5. Extends
  <2>1. \A w \in Workflows : workflows[w].fires \in Nat
    BY DEF RunIInv, TablesOK, Workflow
  <2> QED
    BY <2>1 DEF Extends, Created
<1>6. ASSUME NEW t \in Created
      PROVE  /\ runs'[t].status \in {"PENDING", "RUNNING"} => runs[t].draft.depth <= MaxDepth
             /\ runs[t].draft.depth > MaxDepth => did'[t] = did[t]
             /\ runs'[t].status = "GONE" => ~workflows'[runs[t].draft.of].live
  <2>1. RunKept(t) /\ t \in Runs /\ runs[t].draft.depth \in Nat
    BY DEF RunIInv, RunsOK, Created, Run, Draft
  <2>2. runs[t].draft.depth > MaxDepth => t # r
    BY <1>1, <2>1, Bounds
  <2> QED
    BY <1>4, <2>1, <2>2 DEF RunKept
<1>7. \A t \in Runs \ Created : runs'[t] = runs[t] /\ did'[t] = did[t]
  BY <1>1, <1>4
<1>8. runs' \in [Runs -> Run]
  BY DEF RunIInv, RunsOK
<1> QED
  BY <1>4, <1>5, <1>6, <1>7, <1>8, RunsMove

LEMMA AfterStepIs ==
    ASSUME RunIInv, NEW i \in Instances, sweeps[i].pc = "step", NEW s,
           s = AfterStep(sweeps[i]) \/ s = [sweeps[i] EXCEPT !.pc = "fail"]
    PROVE  s \in Sweep /\ SweepKept(s) /\ s.pc # "insert"
<1>1. sweeps[i] \in Sweep /\ SweepKept(sweeps[i])
  BY DEF RunIInv, SweepsOK
<1>2. sweeps[i].at \in 1 .. Len(Actions) /\ sweeps[i].steps \in 1 .. Len(Actions) /\ sweeps[i].at <= sweeps[i].steps
  BY <1>1, Bounds DEF Sweep, SweepKept
<1>3. Len(Actions) \in Nat
  BY WorkflowAssumption DEF WorkflowAssumption
<1>4. /\ s \in Sweep /\ s.draft = sweeps[i].draft /\ s.due = sweeps[i].due
      /\ s.pc \in {"succeed", "fail"} \/ (s.pc = "step" /\ s.at <= s.steps)
  <2>1. CASE s = [sweeps[i] EXCEPT !.pc = "fail"]
    BY <1>1, <2>1 DEF Sweep
  <2>2. CASE s = AfterStep(sweeps[i]) /\ sweeps[i].at = sweeps[i].steps
    BY <1>1, <2>2 DEF Sweep, AfterStep
  <2>3. CASE s = AfterStep(sweeps[i]) /\ sweeps[i].at # sweeps[i].steps
    <3>1. sweeps[i].at + 1 \in Steps /\ sweeps[i].at + 1 <= sweeps[i].steps
      BY <1>2, <1>3, <2>3, Bounds
    <3>2. s = [sweeps[i] EXCEPT !.at = sweeps[i].at + 1]
      BY <2>3 DEF AfterStep
    <3> QED
      BY <1>1, <3>1, <3>2 DEF Sweep
  <2> QED
    BY <2>1, <2>2, <2>3
<1> QED
  BY <1>1, <1>4 DEF SweepKept, Executing

LEMMA HttpSteps ==
    ASSUME RunIInv, NEW i \in Instances, HttpCall(i) \/ HttpCallFails(i)
    PROVE  RunIInv'
<1>1. /\ sweeps[i].pc = "step" /\ Effect(i)
      /\ UNCHANGED <<workflows, runs, callers, messages, cache, upsets>>
  BY DEF HttpCall, HttpCallFails, sweepOthers
<1>2. PICK s : /\ s = AfterStep(sweeps[i]) \/ s = [sweeps[i] EXCEPT !.pc = "fail"]
               /\ sweeps' = [sweeps EXCEPT ![i] = s]
  <2>1. CASE HttpCall(i)
    BY <2>1 DEF HttpCall
  <2>2. CASE HttpCallFails(i)
    <3>1. sweeps' = [sweeps EXCEPT ![i] = [sweeps[i] EXCEPT !.pc = "fail"]]
      BY <2>2 DEF HttpCallFails, RunIInv, SweepsOK
    <3> QED
      BY <3>1
  <2> QED
    BY <2>1, <2>2
<1>3. s \in Sweep /\ SweepKept(s) /\ s.pc # "insert"
  BY <1>1, <1>2, AfterStepIs
<1>4. messages \in Nat /\ messages <= messages' /\ TablesOK'
  BY <1>1, Bounds, TablesStay DEF RunIInv, TablesOK
<1>5. RunsOK' /\ Created' = Created /\ Extends
  BY <1>1, <1>4, EffectIs
<1> QED
  BY <1>1, <1>2, <1>3, <1>4, <1>5, SweepMoves

LEMMA PostStoredIs ==
    ASSUME RunIInv, messages < MaxMessages, messages' = messages + 1, UNCHANGED <<workflows, cache>>,
           upsets' \in 0 .. MaxUpsets
    PROVE  TablesOK' /\ messages \in Nat /\ messages <= messages'
<1>1. messages \in Nat /\ messages' \in 0 .. MaxMessages /\ messages <= messages'
  BY Bounds DEF RunIInv, TablesOK
<1> QED
  BY <1>1, TablesStay

LEMMA PostThrowsStep ==
    ASSUME RunIInv, NEW i \in Instances, PostMessageThrows(i)
    PROVE  RunIInv'
<1>1. /\ sweeps[i].pc = "step" /\ sweeps[i].pc \in Executing /\ Effect(i) /\ messages < MaxMessages
      /\ messages' = messages + 1
      /\ upsets < MaxUpsets /\ upsets' = upsets + 1
      /\ UNCHANGED <<workflows, runs, callers, cache>>
  BY DEF PostMessageThrows, Executing
<1>2. PICK s : s = NextRun(Later(i))
  OBVIOUS
<1>3. s \in Sweep /\ SweepKept(s) /\ s.pc # "insert"
  BY <1>1, <1>2, LaterIs
<1>4. sweeps' = [sweeps EXCEPT ![i] = s]
  BY <1>2 DEF PostMessageThrows
<1>5. upsets' \in 0 .. MaxUpsets
  BY <1>1, Bounds DEF RunIInv, TablesOK
<1>6. TablesOK' /\ messages <= messages'
  BY <1>1, <1>5, PostStoredIs
<1>7. RunsOK' /\ Created' = Created /\ Extends
  BY <1>1, <1>6, EffectIs
<1> QED
  BY <1>1, <1>3, <1>4, <1>6, <1>7, SweepMoves

\* A message that was just stored sets out to be evaluated.
LEMMA EvaluatingIs ==
    ASSUME RunIInv, TablesOK', Extends, Created' = Created, messages < MaxMessages, messages' = messages + 1,
           UNCHANGED runs, NEW i \in Instances, NEW parent \in 0 .. MaxRuns, NEW depth \in Nat,
           parent = 0 => depth = 0,
           parent # 0 => parent \in Created /\ depth = runs[parent].draft.depth + 1,
           NEW c \in Callers, callers' = [callers EXCEPT ![c] = Evaluating(i, messages + 1, parent, depth)]
    PROVE  CallersOK'
<1>1. PICK k : k = Evaluating(i, messages + 1, parent, depth)
  OBVIOUS
<1>2. messages \in Nat
  BY Bounds DEF RunIInv, TablesOK
<1>3. PICK cause : cause = [by |-> "MESSAGE_MATCHES", id |-> messages + 1]
  OBVIOUS
<1>c. cause \in Causes /\ cause.by = "MESSAGE_MATCHES" /\ cause.id = messages + 1
  BY <1>2, <1>3 DEF Causes, TriggerTypes
<1>d. PICK d : d = [NoDraft EXCEPT !.cause = cause, !.parent = parent, !.depth = depth]
  OBVIOUS
<1>4. d \in Draft /\ d.cause = cause /\ d.parent = parent /\ d.depth = depth
  BY <1>c, <1>d, Records DEF Draft
<1>5. k = [IdleCaller EXCEPT !.home = i, !.pc = "load", !.draft = d]
  BY <1>1, <1>3, <1>d DEF Evaluating
<1>6. k \in Caller /\ k.pc = "load" /\ k.draft = d /\ k.todo = {}
  BY <1>4, <1>5, Records DEF Caller
<1>7. ASSUME NEW r \in Created PROVE runs[r].draft.cause # d.cause
  <2>1. RunKept(r) /\ runs[r].draft.cause.id \in Nat
    BY DEF RunIInv, RunsOK, Created, Run, Draft, Causes
  <2> QED
    BY <1>2, <1>c, <1>4, <2>1 DEF RunKept
<1>8. CallerKept(k)'
  <2>1. Linked(k.draft)'
    BY <1>4, <1>6 DEF Linked, Extends
  <2>2. k.draft.cause.id <= messages'
    BY <1>2, <1>c, <1>4, <1>6
  <2>3. \A r \in Created' : runs'[r].draft.cause # k.draft.cause
    BY <1>6, <1>7
  <2>4. k.draft.cause.by # "SCHEDULE"
    BY <1>c, <1>4, <1>6
  <2> QED
    BY <1>6, <2>1, <2>2, <2>3, <2>4 DEF CallerKept, OneEach, Evaluates
<1>9. ASSUME NEW e \in Callers, Evaluates(callers[e]) PROVE k.draft.cause # callers[e].draft.cause
  <2>1. CallerKept(callers[e]) /\ callers[e].draft.cause.id \in Nat
    BY DEF RunIInv, CallersOK, Caller, Draft, Causes
  <2>2. callers[e].draft.cause.id <= messages
    BY <1>9, <2>1 DEF CallerKept
  <2> QED
    BY <1>2, <1>c, <1>4, <1>6, <2>1, <2>2
<1>10. callers' = [callers EXCEPT ![c] = k]
  BY <1>1
<1> QED
  BY <1>6, <1>8, <1>9, <1>10, CallersMove

LEMMA PostStep ==
    ASSUME RunIInv, NEW i \in Instances, PostMessage(i)
    PROVE  RunIInv'
<1> DEFINE r == Current(i)
<1>1. /\ sweeps[i].pc = "step" /\ sweeps[i].pc \in Executing /\ Effect(i) /\ messages < MaxMessages
      /\ messages' = messages + 1
      /\ sweeps' = [sweeps EXCEPT ![i] = AfterStep(sweeps[i])]
      /\ UNCHANGED <<workflows, runs, cache, upsets>>
  BY DEF PostMessage, Executing, sweepOthers
<1>2. PICK c \in Callers : callers' = [callers EXCEPT ![c] = Evaluating(i, messages + 1, r, runs[r].draft.depth + 1)]
  BY DEF PostMessage
<1>3. PICK s : s = AfterStep(sweeps[i])
  OBVIOUS
<1>4. s \in Sweep /\ SweepKept(s) /\ s.pc # "insert"
  BY <1>1, <1>3, AfterStepIs
<1>5. upsets' \in 0 .. MaxUpsets
  BY <1>1 DEF RunIInv, TablesOK
<1>6. TablesOK' /\ messages <= messages'
  BY <1>1, <1>5, PostStoredIs
<1>7. RunsOK' /\ Created' = Created /\ Extends
  BY <1>1, <1>6, EffectIs
<1>8. SweepKept(s)'
  BY <1>4, <1>6, <1>7, SweepStays DEF RunIInv
<1>9. SweepsOK'
  BY <1>1, <1>3, <1>4, <1>6, <1>7, <1>8, SweepsMove
<1>10. r \in Created /\ r \in Runs /\ r # 0 /\ r \in 0 .. MaxRuns /\ runs[r].draft.depth + 1 \in Nat
  <2>1. r \in Created /\ r \in Runs
    BY <1>1, AtWork
  <2>2. runs[r].draft.depth \in Nat
    BY <2>1 DEF RunIInv, RunsOK, Run, Draft
  <2> QED
    BY <2>1, <2>2, Bounds DEF Runs
<1> HIDE DEF r
<1>11. CallersOK'
  BY <1>1, <1>2, <1>6, <1>7, <1>10, EvaluatingIs
<1> QED
  BY <1>6, <1>7, <1>9, <1>11 DEF RunIInv

LEMMA ExecuteErrorStep ==
    ASSUME RunIInv, NEW i \in Instances, ExecuteError(i)
    PROVE  RunIInv'
<1>1. /\ sweeps[i].pc \in Executing /\ upsets < MaxUpsets /\ upsets' = upsets + 1
      /\ UNCHANGED <<workflows, runs, did, callers, cache, messages>>
  BY DEF ExecuteError, Executing
<1>2. PICK s : s = NextRun(Later(i))
  OBVIOUS
<1>3. s \in Sweep /\ SweepKept(s) /\ s.pc # "insert"
  BY <1>1, <1>2, LaterIs
<1>4. sweeps' = [sweeps EXCEPT ![i] = s]
  BY <1>2 DEF ExecuteError
<1>5. upsets' \in 0 .. MaxUpsets
  BY <1>1, Bounds DEF RunIInv, TablesOK
<1> QED
  BY <1>1, <1>3, <1>4, <1>5, QuietSweep

LEMMA AbortSweepStep ==
    ASSUME RunIInv, NEW i \in Instances, AbortSweep(i)
    PROVE  RunIInv'
<1>1. PICK lost \in SUBSET Callers : callers' = [c \in Callers |-> IF c \in lost THEN IdleCaller ELSE callers[c]]
  BY DEF AbortSweep
<1>2. upsets < MaxUpsets /\ upsets' = upsets + 1 /\ UNCHANGED <<workflows, runs, did, cache, messages>>
  BY DEF AbortSweep
<1>3. upsets' \in 0 .. MaxUpsets /\ messages \in Nat /\ messages' \in 0 .. MaxMessages /\ messages <= messages'
  BY <1>2, Bounds DEF RunIInv, TablesOK
<1>4. TablesOK' /\ RunsOK' /\ Created' = Created /\ Extends
  BY <1>2, <1>3, TablesStay, RunsStay
<1>5. PICK s : s = IdleSweep
  OBVIOUS
<1>6. s \in Sweep /\ SweepKept(s)' /\ s.pc # "insert" /\ sweeps' = [sweeps EXCEPT ![i] = s]
  BY <1>5, Records, ListedSweep DEF AbortSweep
<1>7. SweepsOK'
  BY <1>4, <1>6, SweepsMove
<1>8. CallersOK'
  BY <1>1, <1>4, CallersStay
<1> QED
  BY <1>4, <1>7, <1>8 DEF RunIInv

--------------------------------------------------------------------------------
(* Runs that are created.                                                   *)

\* The database accepts no second run of a workflow for one webhook key.
LEMMA NotRefused ==
    ASSUME RunIInv, NEW d \in Draft, ~Refused(d), d.cause.by = "WEBHOOK_RECEIVED"
    PROVE  \A r \in Created : ~SameCause(runs[r].draft, d)
<1> SUFFICES ASSUME NEW r \in Created, SameCause(runs[r].draft, d) PROVE FALSE
  OBVIOUS
<1>1. RunKept(r) /\ r \in Runs /\ runs[r].status # "ABSENT"
  BY DEF RunIInv, RunsOK, Created
<1>2. runs[r].status # "GONE"
  BY <1>1 DEF RunKept, Refused, SameCause
<1> QED
  BY <1>1, <1>2 DEF Refused, KeyTaken, SameCause

\* The run that is inserted is the next by number, and it is in order.
LEMMA RunInserted ==
    ASSUME RunIInv, NEW d \in Draft, NEW status \in {"PENDING", "FAILED"}, Inserted(d, status),
           UNCHANGED <<workflows, did, cache, messages, upsets>>,
           Linked(d), status = "PENDING" => d.depth <= MaxDepth,
           \A r \in Created : ~SameCause(runs[r].draft, d),
           d.cause.by = "SCHEDULE" => d.cause.id < workflows[d.of].fires,
           d.cause.by = "MESSAGE_MATCHES" => d.cause.id <= messages
    PROVE  TablesOK' /\ RunsOK' /\ Extends /\ \A r \in Created' \ Created : runs'[r].draft = d
<1> DEFINE q == [status |-> status, draft |-> d, aged |-> FALSE]
<1>1. FreeRuns = Runs \ Created /\ FreeRuns # {} /\ FreeRuns \in SUBSET Runs
  BY DEF Inserted, FreeRuns, Created
<1>2. PICK n \in Runs \ Created : n = Oldest(FreeRuns) /\ \A t \in Runs \ Created : n <= t
  BY <1>1, OldestIs
<1>3. q \in Run /\ q.status \in {"PENDING", "FAILED"} /\ q.status = status /\ q.draft = d
  BY DEF Run, RunStatuses
<1>4. runs' = [runs EXCEPT ![n] = q]
  BY <1>2 DEF Inserted
<1> HIDE DEF q
<1>5. runs' \in [Runs -> Run] /\ runs'[n] = q /\ \A t \in Runs : t # n => runs'[t] = runs[t]
  BY <1>2, <1>3, <1>4 DEF RunIInv, RunsOK
<1>6. Created' = Created \cup {n} /\ Created \subseteq Runs
  BY <1>2, <1>3, <1>5 DEF Created
<1>7. messages \in Nat /\ messages' \in 0 .. MaxMessages /\ messages <= messages' /\ upsets' \in 0 .. MaxUpsets
  BY Bounds DEF RunIInv, TablesOK
<1>8. TablesOK' /\ \A w \in Workflows : workflows[w].fires <= workflows'[w].fires
  BY <1>7, TablesStay
<1>9. Extends
  BY <1>2, <1>5, <1>6, <1>7, <1>8 DEF Extends
<1>10. ASSUME NEW r \in Created, NEW t \in Runs, t < r PROVE t \in Created
  BY <1>10 DEF RunIInv, RunsOK
<1>11. \A t \in Created : t < n
  <2> SUFFICES ASSUME NEW t \in Created PROVE t < n
    OBVIOUS
  <2>1. t \in Nat /\ n \in Nat /\ t # n /\ t \in Runs /\ n \in Runs
    BY <1>2, <1>6, Bounds
  <2> QED
    BY <1>2, <1>10, <2>1
<1>12. \A r \in Created', t \in Runs : t < r => t \in Created'
  <2> SUFFICES ASSUME NEW r \in Created', NEW t \in Runs, t < r PROVE t \in Created'
    OBVIOUS
  <2>1. CASE r \in Created
    BY <1>6, <1>10, <2>1
  <2>2. CASE r = n
    <3>1. t \in Nat /\ n \in Nat
      BY <1>2, Bounds
    <3> QED
      BY <1>2, <1>6, <2>2, <3>1
  <2> QED
    BY <1>6, <2>1, <2>2
<1>13. \A r \in Runs \ Created' : did'[r] = <<>>
  BY <1>6 DEF RunIInv, RunsOK
<1>14. ASSUME NEW r \in Created PROVE RunKept(r)'
  <2>1. RunKept(r) /\ r # n /\ r \in Runs
    BY <1>2, <1>6 DEF RunIInv, RunsOK
  <2>2. runs'[r] = runs[r]
    BY <1>5, <2>1
  <2> QED
    BY <1>8, <1>9, <2>1, <2>2, RunStays DEF RunKept
<1>15. RunKept(n)'
  <2>1. Linked(d)'
    BY <1>9, LinkedStays
  <2>2. d.parent < n
    <3>1. CASE d.parent = 0
      <4>1. n \in Nat /\ n # 0
        BY <1>2, Bounds
      <4> QED
        BY <3>1, <4>1
    <3>2. CASE d.parent # 0
      BY <1>11, <3>2 DEF Linked
    <3> QED
      BY <3>1, <3>2
  <2>3. did'[n] = <<>>
    BY <1>2 DEF RunIInv, RunsOK
  <2>4. runs'[n].draft = d /\ runs'[n].status = status
    BY <1>3, <1>5
  <2> QED
    BY <2>1, <2>2, <2>3, <2>4 DEF RunKept, Linked
<1>16. ASSUME NEW r \in Created', NEW t \in Created', SameCause(runs'[r].draft, runs'[t].draft) PROVE r = t
  <2>1. runs'[n].draft = d /\ \A u \in Created : runs'[u].draft = runs[u].draft /\ ~SameCause(runs[u].draft, d)
    BY <1>3, <1>5, <1>9 DEF Extends
  <2>2. CASE r \in Created /\ t \in Created
    BY <1>16, <2>1, <2>2 DEF RunIInv, RunsOK
  <2>3. CASE r = n /\ t \in Created
    BY <1>16, <2>1, <2>3 DEF SameCause
  <2>4. CASE r \in Created /\ t = n
    BY <1>16, <2>1, <2>4
  <2> QED
    BY <1>6, <2>2, <2>3, <2>4
<1>17. RunsOK'
  <2>1. did' \in [Runs -> Seq(Steps)]
    BY DEF RunIInv, RunsOK
  <2>2. \A r \in Created' : RunKept(r)'
    BY <1>6, <1>14, <1>15
  <2> QED
    BY <1>5, <1>12, <1>13, <1>16, <2>1, <2>2 DEF RunsOK
<1> QED
  BY <1>3, <1>5, <1>6, <1>8, <1>9, <1>17

LEMMA InsertFireStep ==
    ASSUME RunIInv, NEW i \in Instances, InsertFire(i)
    PROVE  RunIInv'
<1>1. sweeps[i].pc = "insert" /\ UNCHANGED <<workflows, did, callers, messages, cache, upsets>>
  BY DEF InsertFire, sweepOthers
<1>2. sweeps[i] \in Sweep /\ SweepKept(sweeps[i])
  BY DEF RunIInv, SweepsOK
<1>3. PICK d : d = sweeps[i].draft
  OBVIOUS
<1>4. d \in Draft /\ sweeps[i].verdict \in {"PENDING", "FAILED"}
      /\ sweeps[i].fires \in SUBSET [of : Workflows, steps : Steps, at : Nat]
  BY <1>2, <1>3 DEF Sweep
<1>5. CASE Refused(d)
  <2>1. PICK s : s = IdleSweep
    OBVIOUS
  <2>2. s \in Sweep /\ SweepKept(s) /\ s.pc # "insert"
    BY <2>1, Records, ListedSweep
  <2>3. sweeps' = [sweeps EXCEPT ![i] = s] /\ UNCHANGED runs /\ upsets' \in 0 .. MaxUpsets
    BY <1>1, <1>3, <1>5, <2>1 DEF InsertFire, RunIInv, TablesOK
  <2> QED
    BY <1>1, <2>2, <2>3, QuietSweep
<1>6. CASE ~Refused(d)
  <2>1. PICK s : s = NextFire(sweeps[i].fires)
    OBVIOUS
  <2>2. s \in Sweep /\ SweepKept(s)' /\ s.pc # "insert"
    BY <1>4, <2>1, NextFireIs
  <2>3. sweeps' = [sweeps EXCEPT ![i] = s] /\ Inserted(d, sweeps[i].verdict)
    BY <1>3, <1>6, <2>1 DEF InsertFire
  <2>4. /\ d.parent = 0 /\ d.depth = 0 /\ d.cause.by = "SCHEDULE" /\ d.cause.id < workflows[d.of].fires
        /\ \A r \in Created : ~SameCause(runs[r].draft, d)
    BY <1>1, <1>2, <1>3 DEF SweepKept
  <2>5. Linked(d) /\ d.depth <= MaxDepth
    BY <2>4, Bounds DEF Linked
  <2>6. TablesOK' /\ RunsOK' /\ Extends /\ \A r \in Created' \ Created : runs'[r].draft = d
    BY <1>1, <1>4, <2>3, <2>4, <2>5, RunInserted
  <2>7. \A j \in Instances \ {i} : sweeps[j].pc = "insert" => ~SameCause(d, sweeps[j].draft)
    BY <1>1, <1>3 DEF RunIInv, SweepsOK
  <2>8. SweepsOK'
    BY <2>2, <2>3, <2>6, <2>7, SweepsMove
  <2>9. \A c \in Callers : Evaluates(callers[c]) => d.cause # callers[c].draft.cause
    BY <2>4 DEF Evaluates
  <2>10. CallersOK'
    BY <1>1, <2>6, <2>9, CallersSame
  <2> QED
    BY <2>6, <2>8, <2>10 DEF RunIInv
<1> QED
  BY <1>5, <1>6

LEMMA InsertCallerStep ==
    ASSUME RunIInv, NEW c \in Callers, InsertCaller(c)
    PROVE  RunIInv'
<1>1. callers[c].pc = "insert" /\ UNCHANGED <<workflows, did, sweeps, messages, cache, upsets>>
  BY DEF InsertCaller, callerOthers
<1>2. callers[c] \in Caller /\ CallerKept(callers[c])
  BY DEF RunIInv, CallersOK
<1>3. PICK d : d = callers[c].draft
  OBVIOUS
<1>4. d \in Draft /\ callers[c].verdict \in {"PENDING", "FAILED"} /\ callers[c].todo \in SUBSET Triggers
  BY <1>2, <1>3 DEF Caller
<1>5. CASE Refused(d)
  <2>1. PICK k : k = IdleCaller
    OBVIOUS
  <2>2. k \in Caller /\ CallerKept(k)' /\ ~Evaluates(k)
    BY <2>1, Records, IdleCallerKept
  <2>3. callers' = [callers EXCEPT ![c] = k] /\ UNCHANGED runs
    BY <1>3, <1>5, <2>1 DEF InsertCaller
  <2>4. messages \in Nat /\ messages' \in 0 .. MaxMessages /\ messages <= messages' /\ upsets' \in 0 .. MaxUpsets
    BY <1>1, Bounds DEF RunIInv, TablesOK
  <2>5. TablesOK' /\ RunsOK' /\ Created' = Created /\ Extends
    BY <1>1, <2>3, <2>4, TablesStay, RunsStay
  <2>6. SweepsOK'
    BY <1>1, <2>5, SweepsStay
  <2>7. CallersOK'
    BY <2>2, <2>3, <2>5, CallersMove
  <2> QED
    BY <2>5, <2>6, <2>7 DEF RunIInv
<1>6. CASE ~Refused(d)
  <2>1. Inserted(d, callers[c].verdict)
        /\ callers' = [callers EXCEPT ![c] = IF callers[c].todo = {} THEN IdleCaller
                                             ELSE [callers[c] EXCEPT !.pc = "next"]]
    BY <1>3, <1>6 DEF InsertCaller
  <2>2. /\ Linked(d) /\ d.cause.by # "SCHEDULE"
        /\ callers[c].verdict = "PENDING" => d.depth <= MaxDepth
        /\ \A t \in callers[c].todo : t.of # d.of
        /\ d.cause.by = "MESSAGE_MATCHES" =>
             /\ d.cause.id <= messages
             /\ \A r \in Created : ~SameCause(runs[r].draft, d)
    BY <1>1, <1>2, <1>3 DEF CallerKept, Evaluates, SameCause
  <2>3. \A r \in Created : ~SameCause(runs[r].draft, d)
    <3>1. d.cause.by \in TriggerTypes
      BY <1>4 DEF Draft, Causes
    <3> QED
      BY <1>4, <1>6, <2>2, <3>1, NotRefused DEF TriggerTypes
  <2>4. TablesOK' /\ RunsOK' /\ Extends /\ \A r \in Created' \ Created : runs'[r].draft = d
    BY <1>1, <1>4, <2>1, <2>2, <2>3, RunInserted
  <2>5. SweepsOK'
    <3>1. \A i \in Instances : ~SameCause(d, sweeps[i].draft)
      BY <2>2 DEF RunIInv, SweepsOK, SweepKept, SameCause
    <3> QED
      BY <1>1, <2>4, <3>1, SweepsStay
  <2>6. PICK k : k = IF callers[c].todo = {} THEN IdleCaller ELSE [callers[c] EXCEPT !.pc = "next"]
    OBVIOUS
  <2>7. k \in Caller /\ CallerKept(k)' /\ (Evaluates(k) => Evaluates(callers[c]) /\ k.draft = d)
    <3>1. CASE callers[c].todo = {}
      BY <2>6, <3>1, Records, IdleCallerKept
    <3>2. CASE callers[c].todo # {}
      <4>1. k \in Caller /\ k.pc = "next" /\ k.draft = d /\ k.todo = callers[c].todo
        BY <1>2, <1>3, <2>6, <3>2 DEF Caller
      <4>2. Linked(d)'
        BY <2>2, <2>4, LinkedStays
      <4>3. OneEach(k.todo)
        BY <1>2, <4>1 DEF CallerKept
      <4>4. ASSUME Evaluates(k), NEW r \in Created', runs'[r].draft.cause = d.cause
            PROVE  \A t \in k.todo : t.of # runs'[r].draft.of
        <5>1. CASE r \in Created
          BY <1>1, <1>2, <1>3, <2>4, <4>1, <4>4, <5>1 DEF CallerKept, Evaluates, Extends
        <5>2. CASE r \notin Created
          BY <2>2, <2>4, <4>1, <4>4, <5>2
        <5> QED
          BY <5>1, <5>2
      <4>5. Evaluates(k) => d.cause.id <= messages' /\ Evaluates(callers[c])
        BY <1>1, <1>3, <2>2, <4>1 DEF Evaluates
      <4> QED
        BY <2>2, <4>1, <4>2, <4>3, <4>4, <4>5 DEF CallerKept, Evaluates
    <3> QED
      BY <3>1, <3>2
  <2>8. \A e \in Callers \ {c} : Evaluates(callers[e]) => d.cause # callers[e].draft.cause
    <3> SUFFICES ASSUME NEW e \in Callers \ {c}, Evaluates(callers[e]), d.cause = callers[e].draft.cause PROVE FALSE
      OBVIOUS
    <3>1. Evaluates(callers[c])
      BY <1>1, <1>3 DEF Evaluates
    <3> QED
      BY <1>3, <3>1 DEF RunIInv, CallersOK
  <2>9. \A e \in Callers \ {c} : Evaluates(callers[e]) =>
           /\ \A r \in Created' \ Created : runs'[r].draft.cause # callers[e].draft.cause
           /\ Evaluates(k) => k.draft.cause # callers[e].draft.cause
    BY <2>4, <2>7, <2>8
  <2>10. CallersOK'
    BY <2>1, <2>4, <2>6, <2>7, <2>9, CallersMove
  <2> QED
    BY <2>4, <2>5, <2>10 DEF RunIInv
<1> QED
  BY <1>5, <1>6

--------------------------------------------------------------------------------
(* Callers before their insert.                                             *)

\* A step of one caller that changes no table.
LEMMA CallerMoves ==
    ASSUME RunIInv, NEW c \in Callers, NEW k \in Caller, callers' = [callers EXCEPT ![c] = k], CallerKept(k),
           Evaluates(k) => Evaluates(callers[c]) /\ k.draft.cause = callers[c].draft.cause,
           UNCHANGED <<workflows, runs, did, sweeps, messages, upsets>>, cache' \in {cache, {}}
    PROVE  RunIInv'
<1>1. /\ messages \in Nat /\ messages <= messages'
      /\ \A w \in Workflows : workflows[w].fires \in Nat
  BY Bounds DEF RunIInv, TablesOK, Workflow
<1>2. TablesOK'
  BY DEF RunIInv, TablesOK
<1>3. /\ \A w \in Workflows : /\ workflows[w].fires <= workflows'[w].fires
                              /\ workflows'[w].live => workflows[w].live
  BY <1>1
<1>4. RunsOK' /\ Created' = Created /\ Extends
  BY <1>1, <1>2, <1>3, RunsStay
<1>5. CallerKept(k)'
  BY <1>2, <1>4, CallerStays DEF RunIInv
<1>6. SweepsOK'
  BY <1>2, <1>4, SweepsStay
<1>7. \A e \in Callers \ {c} : Evaluates(callers[e]) => (Evaluates(k) => k.draft.cause # callers[e].draft.cause)
  BY DEF RunIInv, CallersOK
<1>8. CallersOK'
  BY <1>2, <1>4, <1>5, <1>7, CallersMove
<1> QED
  BY <1>2, <1>4, <1>6, <1>8 DEF RunIInv

LEMMA TriggersOnce == TablesOK => OneEach(MessageTriggers) /\ MessageTriggers \in SUBSET Triggers
  BY DEF OneEach, MessageTriggers, TablesOK, Workflow, Triggers

LEMMA LoadTriggersStep ==
    ASSUME RunIInv, NEW c \in Callers, LoadTriggers(c)
    PROVE  RunIInv'
<1>1. PICK copy \in cache \cup {MessageTriggers} :
        callers' = [callers EXCEPT ![c].pc = "next", ![c].todo = copy]
  BY DEF LoadTriggers
<1>2. OneEach(copy) /\ copy \in SUBSET Triggers
  BY TriggersOnce DEF RunIInv, TablesOK
<1>3. callers[c] \in Caller /\ CallerKept(callers[c]) /\ callers \in [Callers -> Caller] /\ callers[c].pc = "load"
  BY DEF RunIInv, CallersOK, LoadTriggers
<1>4. PICK k : k = [callers[c] EXCEPT !.pc = "next", !.todo = copy]
  OBVIOUS
<1>5. k \in Caller /\ k.pc = "next" /\ k.todo = copy /\ k.draft = callers[c].draft
  BY <1>2, <1>3, <1>4 DEF Caller
<1>6. Evaluates(k) => Evaluates(callers[c]) /\ k.draft.cause = callers[c].draft.cause
  BY <1>3, <1>5 DEF Evaluates
<1>7. CallerKept(k)
  BY <1>2, <1>3, <1>5, <1>6 DEF CallerKept
<1>8. callers' = [callers EXCEPT ![c] = k]
  BY <1>1, <1>3, <1>4
<1> QED
  BY <1>5, <1>6, <1>7, <1>8, CallerMoves DEF LoadTriggers, callerOthers

LEMMA WebhookStep ==
    ASSUME RunIInv, NEW c \in Callers, NEW i \in Instances, NEW w \in Workflows, NEW key \in Keys,
           ReceiveWebhook(c, i, w, key)
    PROVE  RunIInv'
<1>1. PICK todo : todo = {[of |-> w, steps |-> workflows[w].steps]}
  OBVIOUS
<1>2. PICK cause : cause = [by |-> "WEBHOOK_RECEIVED", id |-> key]
  OBVIOUS
<1>3. PICK d : d = [NoDraft EXCEPT !.cause = cause]
  OBVIOUS
<1>4. PICK k : k = [IdleCaller EXCEPT !.home = i, !.pc = "next", !.todo = todo, !.draft = d]
  OBVIOUS
<1>5. todo \in SUBSET Triggers /\ OneEach(todo)
  BY <1>1 DEF RunIInv, TablesOK, Workflow, Triggers, OneEach
<1>6. cause \in Causes /\ cause.by = "WEBHOOK_RECEIVED"
  BY <1>2, WorkflowAssumption DEF WorkflowAssumption, Causes, TriggerTypes
<1>7. d \in Draft /\ d.cause = cause /\ d.parent = 0 /\ d.depth = 0
  BY <1>3, <1>6, Records DEF Draft
<1>8. k \in Caller /\ k.pc = "next" /\ k.todo = todo /\ k.draft = d
  BY <1>4, <1>5, <1>7, Records DEF Caller
<1>9. ~Evaluates(k)
  BY <1>6, <1>7, <1>8 DEF Evaluates
<1>10. CallerKept(k)
  BY <1>5, <1>6, <1>7, <1>8, <1>9 DEF CallerKept, Linked
<1>11. callers' = [callers EXCEPT ![c] = k]
  BY <1>1, <1>2, <1>3, <1>4 DEF ReceiveWebhook
<1> QED
  BY <1>8, <1>9, <1>10, <1>11, CallerMoves DEF ReceiveWebhook, callerOthers

LEMMA CountCallerStep ==
    ASSUME RunIInv, NEW c \in Callers, CountCaller(c)
    PROVE  RunIInv'
<1>1. callers[c].pc = "next" /\ UNCHANGED <<workflows, runs, did, sweeps, messages, upsets, cache>>
  BY DEF CountCaller, callerOthers
<1>2. callers[c] \in Caller /\ CallerKept(callers[c]) /\ callers \in [Callers -> Caller]
  BY DEF RunIInv, CallersOK
<1>3. CASE callers' = [callers EXCEPT ![c] = IdleCaller]
  <2>1. PICK k : k = IdleCaller
    OBVIOUS
  <2>2. k \in Caller /\ CallerKept(k) /\ ~Evaluates(k)
    BY <2>1, Records, IdleCallerKept
  <2>3. callers' = [callers EXCEPT ![c] = k]
    BY <1>3, <2>1
  <2> QED
    BY <1>1, <2>2, <2>3, CallerMoves
<1>4. CASE callers' # [callers EXCEPT ![c] = IdleCaller]
  <2>1. PICK t \in callers[c].todo :
          LET d == [callers[c].draft EXCEPT !.of = t.of, !.steps = t.steps] IN
          callers' = [callers EXCEPT ![c] = [callers[c] EXCEPT !.pc = "insert", !.todo = @ \ {t},
                                                 !.draft = d, !.verdict = RunVerdict(d)]]
    BY <1>4 DEF CountCaller
  <2>2. PICK d : d = [callers[c].draft EXCEPT !.of = t.of, !.steps = t.steps]
    OBVIOUS
  <2>3. PICK v : v = RunVerdict(d)
    OBVIOUS
  <2>4. PICK k : k = [callers[c] EXCEPT !.pc = "insert", !.todo = callers[c].todo \ {t}, !.draft = d, !.verdict = v]
    OBVIOUS
  <2>5. t.of \in Workflows /\ t.steps \in Steps /\ callers[c].draft \in Draft
    BY <1>2 DEF Caller, Triggers
  <2>6. /\ d \in Draft /\ d.of = t.of /\ d.cause = callers[c].draft.cause
        /\ d.parent = callers[c].draft.parent /\ d.depth = callers[c].draft.depth
    BY <2>2, <2>5 DEF Draft
  <2>7. v \in {"PENDING", "FAILED"} /\ (v = "PENDING" => d.depth <= MaxDepth)
    <3>1. d.depth \in Nat
      BY <2>6 DEF Draft
    <3> QED
      BY <2>3, <3>1, Bounds DEF RunVerdict
  <2>8. k \in Caller /\ k.pc = "insert" /\ k.todo = callers[c].todo \ {t} /\ k.draft = d /\ k.verdict = v
    BY <1>2, <2>4, <2>6, <2>7 DEF Caller
  <2>9. Evaluates(k) => Evaluates(callers[c]) /\ k.draft.cause = callers[c].draft.cause
    BY <1>1, <2>6, <2>8 DEF Evaluates
  <2>10. Linked(d)
    BY <1>2, <2>6 DEF CallerKept, Linked
  <2>11. OneEach(k.todo) /\ \A u \in k.todo : u.of # d.of
    BY <1>2, <2>6, <2>8 DEF CallerKept, OneEach
  <2>12. ASSUME Evaluates(k)
         PROVE  /\ d.cause.id <= messages
                /\ \A r \in Created : runs[r].draft.cause = d.cause =>
                      /\ \A u \in k.todo : u.of # runs[r].draft.of
                      /\ d.of # runs[r].draft.of
    BY <1>2, <2>6, <2>8, <2>9, <2>12 DEF CallerKept
  <2>13. CallerKept(k)
    BY <1>1, <1>2, <2>6, <2>7, <2>8, <2>10, <2>11, <2>12 DEF CallerKept
  <2>14. callers' = [callers EXCEPT ![c] = k]
    BY <2>1, <2>2, <2>3, <2>4
  <2> QED
    BY <1>1, <2>8, <2>9, <2>13, <2>14, CallerMoves
<1> QED
  BY <1>3, <1>4

LEMMA SendStep ==
    ASSUME RunIInv, NEW c \in Callers, NEW i \in Instances, SendMessage(c, i)
    PROVE  RunIInv'
<1>1. /\ messages < MaxMessages /\ messages' = messages + 1
      /\ callers' = [callers EXCEPT ![c] = Evaluating(i, messages + 1, 0, 0)]
      /\ UNCHANGED <<workflows, runs, did, sweeps, upsets, cache>>
  BY DEF SendMessage, callerOthers
<1>2. upsets' \in 0 .. MaxUpsets
  BY <1>1 DEF RunIInv, TablesOK
<1>3. TablesOK' /\ messages <= messages'
  BY <1>1, <1>2, PostStoredIs
<1>4. \A w \in Workflows : workflows[w].fires \in Nat
  BY DEF RunIInv, TablesOK, Workflow
<1>5. \A w \in Workflows : /\ workflows[w].fires <= workflows'[w].fires
                           /\ workflows'[w].live => workflows[w].live
  BY <1>1, <1>4
<1>6. RunsOK' /\ Created' = Created /\ Extends
  BY <1>1, <1>3, <1>5, RunsStay
<1>7. SweepsOK'
  BY <1>1, <1>3, <1>6, SweepsStay
<1>8. 0 \in 0 .. MaxRuns /\ 0 \in Nat
  BY Bounds
<1>9. CallersOK'
  BY <1>1, <1>3, <1>6, <1>8, EvaluatingIs
<1> QED
  BY <1>3, <1>6, <1>7, <1>9 DEF RunIInv

--------------------------------------------------------------------------------
(* Steps that change the workflows.                                         *)

\* What becomes of a workflow: it may be deleted, and its fires are counted up.
LEMMA WorkflowMoves ==
    ASSUME RunIInv, NEW w \in Workflows, NEW f \in Workflow, workflows' = [workflows EXCEPT ![w] = f],
           workflows[w].fires <= f.fires, f.live => workflows[w].live,
           messages' = messages
    PROVE  /\ workflows' \in [Workflows -> Workflow] /\ workflows'[w] = f
           /\ \A v \in Workflows : v # w => workflows'[v] = workflows[v]
           /\ \A v \in Workflows : /\ workflows[v].fires <= workflows'[v].fires
                                   /\ workflows'[v].live => workflows[v].live
           /\ messages \in Nat /\ messages <= messages'
<1>1. workflows \in [Workflows -> Workflow] /\ \A v \in Workflows : workflows[v].fires \in Nat
  BY DEF RunIInv, TablesOK, Workflow
<1>2. messages \in Nat
  BY Bounds DEF RunIInv, TablesOK
<1> QED
  BY <1>1, <1>2

LEMMA ClaimFireStep ==
    ASSUME RunIInv, NEW i \in Instances, ClaimFire(i)
    PROVE  RunIInv'
<1>1. PICK f \in sweeps[i].fires :
        LET d == [NoDraft EXCEPT !.of = f.of, !.steps = f.steps,
                                 !.cause = [by |-> "SCHEDULE", id |-> f.at]] IN
        IF workflows[f.of].live /\ workflows[f.of].fires = f.at
        THEN /\ workflows' = [workflows EXCEPT ![f.of].next = "later", ![f.of].fires = f.at + 1]
             /\ sweeps' = [sweeps EXCEPT ![i].fires = @ \ {f}, ![i].pc = "insert",
                                         ![i].draft = d, ![i].verdict = RunVerdict(d)]
        ELSE /\ sweeps' = [sweeps EXCEPT ![i] = NextFire(sweeps[i].fires \ {f})]
             /\ UNCHANGED workflows
  BY DEF ClaimFire
<1>2. UNCHANGED <<runs, did, callers, messages, cache, upsets>>
  BY DEF ClaimFire, sweepOthers
<1>3. /\ sweeps[i] \in Sweep /\ sweeps \in [Instances -> Sweep]
      /\ sweeps[i].fires \in SUBSET [of : Workflows, steps : Steps, at : Nat]
  BY DEF RunIInv, SweepsOK, Sweep
<1>4. f.of \in Workflows /\ f.steps \in Steps /\ f.at \in Nat
  BY <1>1, <1>3
<1>5. CASE ~(workflows[f.of].live /\ workflows[f.of].fires = f.at)
  <2>1. PICK s : s = NextFire(sweeps[i].fires \ {f})
    OBVIOUS
  <2>2. sweeps[i].fires \ {f} \in SUBSET [of : Workflows, steps : Steps, at : Nat]
    BY <1>3
  <2>3. s \in Sweep /\ SweepKept(s) /\ s.pc # "insert"
    BY <2>1, <2>2, NextFireIs
  <2>4. sweeps' = [sweeps EXCEPT ![i] = s] /\ UNCHANGED workflows /\ upsets' \in 0 .. MaxUpsets
    BY <1>1, <1>2, <1>5, <2>1 DEF RunIInv, TablesOK
  <2> QED
    BY <1>2, <2>3, <2>4, QuietSweep
<1>6. CASE workflows[f.of].live /\ workflows[f.of].fires = f.at
  <2>1. PICK cause : cause = [by |-> "SCHEDULE", id |-> f.at]
    OBVIOUS
  <2>2. PICK d : d = [NoDraft EXCEPT !.of = f.of, !.steps = f.steps, !.cause = cause]
    OBVIOUS
  <2>3. PICK v : v = RunVerdict(d)
    OBVIOUS
  <2>4. PICK s : s = [sweeps[i] EXCEPT !.fires = sweeps[i].fires \ {f}, !.pc = "insert", !.draft = d, !.verdict = v]
    OBVIOUS
  <2>n. PICK n \in Nat : n = f.at + 1
    BY <1>4
  <2>5. PICK g : g = [workflows[f.of] EXCEPT !.next = "later", !.fires = n]
    OBVIOUS
  <2>6. cause \in Causes /\ cause.by = "SCHEDULE" /\ cause.id = f.at
    BY <1>4, <2>1 DEF Causes, TriggerTypes
  <2>7. d \in Draft /\ d.of = f.of /\ d.cause = cause /\ d.parent = 0 /\ d.depth = 0
    BY <1>4, <2>2, <2>6, Records DEF Draft
  <2>8. v \in {"PENDING", "FAILED"}
    BY <2>3 DEF RunVerdict
  <2>9. s \in Sweep /\ s.pc = "insert" /\ s.draft = d
    BY <1>3, <2>4, <2>7, <2>8 DEF Sweep
  <2>10. workflows[f.of] \in Workflow /\ workflows \in [Workflows -> Workflow]
    BY <1>4 DEF RunIInv, TablesOK
  <2>11. g \in Workflow /\ g.fires = n /\ g.live = workflows[f.of].live
         /\ workflows[f.of].fires <= g.fires
    <3>1. PICK old \in Workflow : old = workflows[f.of]
      BY <2>10
    <3>2. g = [old EXCEPT !.next = "later", !.fires = n]
      BY <2>5, <3>1
    <3>3. g \in Workflow /\ g.fires = n /\ g.live = old.live
      BY <3>2 DEF Workflow
    <3>4. workflows[f.of].fires <= n
      BY <1>4, <1>6, <2>n
    <3> QED
      BY <2>n, <3>1, <3>3, <3>4
  <2>12. workflows' = [workflows EXCEPT ![f.of] = g]
    BY <1>1, <1>4, <1>6, <2>n, <2>5, <2>10
  <2>13. sweeps' = [sweeps EXCEPT ![i] = s]
    BY <1>1, <1>3, <1>6, <2>1, <2>2, <2>3, <2>4
  <2>14. /\ workflows' \in [Workflows -> Workflow] /\ workflows'[f.of] = g
         /\ \A w \in Workflows : /\ workflows[w].fires <= workflows'[w].fires
                                 /\ workflows'[w].live => workflows[w].live
         /\ messages \in Nat /\ messages <= messages'
    BY <1>2, <1>4, <1>6, <2>11, <2>12, WorkflowMoves
  <2>15. TablesOK'
    BY <1>2, <2>14 DEF RunIInv, TablesOK
  <2>16. RunsOK' /\ Created' = Created /\ Extends
    BY <1>2, <2>14, <2>15, RunsStay
  <2>17. \A r \in Created : ~SameCause(runs[r].draft, d)
    <3> SUFFICES ASSUME NEW r \in Created, SameCause(runs[r].draft, d) PROVE FALSE
      OBVIOUS
    <3>1. RunKept(r)
      BY DEF RunIInv, RunsOK
    <3>2. f.at < f.at
      BY <1>6, <2>6, <2>7, <3>1 DEF RunKept, SameCause
    <3> QED
      BY <1>4, <3>2
  <2>18. SweepKept(s)'
    <3>1. \A r \in Created' : ~SameCause(runs'[r].draft, d)
      BY <1>2, <2>16, <2>17
    <3>2. d.cause.id < workflows'[d.of].fires
      BY <1>4, <2>n, <2>6, <2>7, <2>11, <2>14
    <3> QED
      BY <2>6, <2>7, <2>9, <3>1, <3>2 DEF SweepKept, Executing
  <2>19. \A j \in Instances \ {i} : sweeps[j].pc = "insert" => ~SameCause(d, sweeps[j].draft)
    <3> SUFFICES ASSUME NEW j \in Instances, sweeps[j].pc = "insert", SameCause(d, sweeps[j].draft) PROVE FALSE
      OBVIOUS
    <3>1. SweepKept(sweeps[j])
      BY DEF RunIInv, SweepsOK
    <3>2. f.at < f.at
      BY <1>6, <2>6, <2>7, <3>1 DEF SweepKept, SameCause
    <3> QED
      BY <1>4, <3>2
  <2>20. SweepsOK'
    BY <2>9, <2>13, <2>15, <2>16, <2>18, <2>19, SweepsMove
  <2>21. CallersOK'
    BY <1>2, <2>15, <2>16, CallersSame
  <2> QED
    BY <2>15, <2>16, <2>20, <2>21 DEF RunIInv
<1> QED
  BY <1>5, <1>6

LEMMA OutdateIs ==
    ASSUME RunIInv, Outdate
    PROVE  cache' \subseteq SUBSET Triggers /\ \A copy \in cache' : OneEach(copy)
<1>1. cache' \subseteq cache \cup {MessageTriggers}
  BY DEF Outdate
<1> QED
  BY <1>1, TriggersOnce DEF RunIInv, TablesOK

LEMMA OwnerSteps ==
    ASSUME RunIInv, NEW w \in Workflows, BecomeDue(w) \/ Update(w)
    PROVE  RunIInv'
<1>1. workflows \in [Workflows -> Workflow] /\ workflows[w] \in Workflow
  BY DEF RunIInv, TablesOK
<1>2. PICK f : /\ f \in Workflow /\ f.fires = workflows[w].fires /\ f.live = workflows[w].live
               /\ workflows' = [workflows EXCEPT ![w] = f]
  <2>1. CASE BecomeDue(w)
    <3>1. workflows' = [workflows EXCEPT ![w] = [workflows[w] EXCEPT !.next = "due"]]
      BY <1>1, <2>1 DEF BecomeDue
    <3>2. PICK f : f = [workflows[w] EXCEPT !.next = "due"]
      OBVIOUS
    <3>3. f \in Workflow /\ f.fires = workflows[w].fires /\ f.live = workflows[w].live
      BY <1>1, <3>2 DEF Workflow
    <3> QED
      BY <3>1, <3>2, <3>3
  <2>2. CASE Update(w)
    <3>1. PICK enabled \in BOOLEAN, steps \in Steps :
            workflows' = [workflows EXCEPT ![w].enabled = enabled, ![w].steps = steps]
      BY <2>2 DEF Update
    <3>2. PICK f : f = [workflows[w] EXCEPT !.enabled = enabled, !.steps = steps]
      OBVIOUS
    <3>3. f \in Workflow /\ f.fires = workflows[w].fires /\ f.live = workflows[w].live
      BY <1>1, <3>2 DEF Workflow
    <3>4. workflows' = [workflows EXCEPT ![w] = f]
      BY <1>1, <3>1, <3>2
    <3> QED
      BY <3>3, <3>4
  <2> QED
    BY <2>1, <2>2
<1>3. workflows[w].fires \in Nat /\ workflows[w].fires <= f.fires
  BY <1>1, <1>2 DEF Workflow
<1>4. UNCHANGED <<runs, did, sweeps, callers, messages>>
  BY DEF BecomeDue, Update
<1>5. /\ workflows' \in [Workflows -> Workflow]
      /\ \A v \in Workflows : /\ workflows[v].fires <= workflows'[v].fires
                              /\ workflows'[v].live => workflows[v].live
      /\ messages \in Nat /\ messages <= messages'
  BY <1>2, <1>3, <1>4, WorkflowMoves
<1>6. cache' \subseteq SUBSET Triggers /\ (\A copy \in cache' : OneEach(copy)) /\ upsets' \in 0 .. MaxUpsets
  <2>1. CASE BecomeDue(w)
    BY <2>1 DEF BecomeDue, RunIInv, TablesOK
  <2>2. CASE Update(w)
    <3>1. Outdate /\ upsets < MaxUpsets /\ upsets' = upsets + 1
      BY <2>2 DEF Update
    <3>2. upsets' \in 0 .. MaxUpsets
      BY <3>1, Bounds DEF RunIInv, TablesOK
    <3> QED
      BY <3>1, <3>2, OutdateIs
  <2> QED
    BY <2>1, <2>2
<1>7. TablesOK'
  BY <1>4, <1>5, <1>6 DEF RunIInv, TablesOK
<1>8. RunsOK' /\ Created' = Created /\ Extends
  BY <1>4, <1>5, <1>7, RunsStay
<1>9. SweepsOK'
  BY <1>4, <1>7, <1>8, SweepsStay
<1>10. CallersOK'
  BY <1>4, <1>7, <1>8, CallersSame
<1> QED
  BY <1>7, <1>8, <1>9, <1>10 DEF RunIInv

LEMMA RemoveStep ==
    ASSUME RunIInv, NEW w \in Workflows, RemoveWorkflow(w)
    PROVE  RunIInv'
<1>1. workflows \in [Workflows -> Workflow] /\ workflows[w] \in Workflow
  BY DEF RunIInv, TablesOK
<1>2. PICK f : f = [workflows[w] EXCEPT !.live = FALSE]
  OBVIOUS
<1>3. f \in Workflow /\ f.fires = workflows[w].fires /\ f.live = FALSE
  BY <1>1, <1>2 DEF Workflow
<1>4. workflows' = [workflows EXCEPT ![w] = f] /\ UNCHANGED <<did, sweeps, callers, messages>>
  BY <1>1, <1>2 DEF RemoveWorkflow
<1>5. workflows[w].fires \in Nat /\ workflows[w].fires <= f.fires
  BY <1>1, <1>3 DEF Workflow
<1>6. /\ workflows' \in [Workflows -> Workflow] /\ workflows'[w] = f
      /\ \A v \in Workflows : v # w => workflows'[v] = workflows[v]
      /\ \A v \in Workflows : /\ workflows[v].fires <= workflows'[v].fires
                              /\ workflows'[v].live => workflows[v].live
      /\ messages \in Nat /\ messages <= messages'
  BY <1>3, <1>4, <1>5, WorkflowMoves
<1>7. TablesOK'
  BY <1>4, <1>6, Bounds, OutdateIs DEF RemoveWorkflow, RunIInv, TablesOK
<1>8. runs' = [r \in Runs |-> IF runs[r].status # "ABSENT" /\ runs[r].draft.of = w
                              THEN [runs[r] EXCEPT !.status = "GONE"] ELSE runs[r]]
  BY DEF RemoveWorkflow
<1>9. ASSUME NEW r \in Runs
      PROVE  /\ runs'[r] \in Run /\ runs'[r].draft = runs[r].draft
             /\ runs'[r].status = "ABSENT" <=> runs[r].status = "ABSENT"
             /\ runs'[r].status = runs[r].status \/ (runs'[r].status = "GONE" /\ runs[r].draft.of = w)
             /\ r \notin Created => runs'[r] = runs[r]
  <2>1. runs[r] \in Run
    BY DEF RunIInv, RunsOK
  <2>2. [runs[r] EXCEPT !.status = "GONE"] \in Run
    BY <2>1 DEF Run, RunStatuses
  <2> QED
    BY <1>8, <2>1, <2>2 DEF Run, Created
<1>10. runs' \in [Runs -> Run]
  BY <1>8, <1>9
<1>11. Created' = Created
  BY <1>9 DEF Created
<1>12. Extends
  BY <1>6, <1>9, <1>11 DEF Extends, Created
<1>13. ASSUME NEW r \in Created
       PROVE  /\ runs'[r].status \in {"PENDING", "RUNNING"} => runs[r].draft.depth <= MaxDepth
              /\ runs[r].draft.depth > MaxDepth => did'[r] = did[r]
              /\ runs'[r].status = "GONE" => ~workflows'[runs[r].draft.of].live
  <2>1. RunKept(r) /\ r \in Runs /\ runs[r].draft.of \in Workflows
    BY DEF RunIInv, RunsOK, Created, Run, Draft
  <2> QED
    BY <1>3, <1>4, <1>6, <1>9, <2>1 DEF RunKept
<1>14. did' \in [Runs -> Seq(Steps)] /\ \A r \in Runs \ Created : runs'[r] = runs[r] /\ did'[r] = did[r]
  BY <1>4, <1>9 DEF RunIInv, RunsOK
<1>15. RunsOK'
  BY <1>7, <1>10, <1>12, <1>13, <1>14, RunsMove
<1>16. SweepsOK'
  BY <1>4, <1>7, <1>11, <1>12, SweepsStay
<1>17. CallersOK'
  BY <1>4, <1>7, <1>11, <1>12, CallersSame
<1> QED
  BY <1>7, <1>15, <1>16, <1>17 DEF RunIInv

--------------------------------------------------------------------------------

LEMMA RunNextStep == RunIInv /\ [RunNext]_runVars => RunIInv'
<1> SUFFICES ASSUME RunIInv, [RunNext]_runVars PROVE RunIInv'
  OBVIOUS
<1>1. ASSUME NEW i \in Instances, SweepStep(i) PROVE RunIInv'
  BY <1>1, FindStaleStep, FailStaleStep, FindFiresStep, ClaimFireStep, InsertFireStep, FindRunsStep,
     ClaimRunStep, LoadRunStep, PostStep, PostThrowsStep, HttpSteps, RefuseStepStep, EndRunStep,
     ExecuteErrorStep DEF SweepStep
<1>2. ASSUME NEW i \in Instances, AbortSweep(i) PROVE RunIInv'
  BY <1>2, AbortSweepStep
<1>3. ASSUME NEW c \in Callers, CallerStep(c) PROVE RunIInv'
  BY <1>3, LoadTriggersStep, CountCallerStep, InsertCallerStep, SendStep, WebhookStep DEF CallerStep
<1>4. ASSUME NEW r \in Runs, Age(r) PROVE RunIInv'
  BY <1>4, AgeStep
<1>5. ASSUME ExpireTriggers \/ UNCHANGED runVars PROVE RunIInv'
  <2>1. UNCHANGED <<workflows, runs, did, sweeps, callers, messages, upsets>> /\ cache' \in {cache, {}}
    BY <1>5 DEF ExpireTriggers, callerOthers, runVars
  <2>2. /\ messages \in Nat /\ messages <= messages'
        /\ \A w \in Workflows : workflows[w].fires \in Nat
    BY <2>1, Bounds DEF RunIInv, TablesOK, Workflow
  <2>3. TablesOK'
    BY <2>1 DEF RunIInv, TablesOK
  <2>4. \A w \in Workflows : /\ workflows[w].fires <= workflows'[w].fires
                             /\ workflows'[w].live => workflows[w].live
    BY <2>1, <2>2
  <2>5. RunsOK' /\ Created' = Created /\ Extends
    BY <2>1, <2>2, <2>3, <2>4, RunsStay
  <2>6. SweepsOK'
    BY <2>1, <2>3, <2>5, SweepsStay
  <2>7. CallersOK'
    BY <2>1, <2>3, <2>5, CallersSame
  <2> QED
    BY <2>3, <2>5, <2>6, <2>7 DEF RunIInv
<1>6. ASSUME NEW w \in Workflows, BecomeDue(w) \/ Update(w) PROVE RunIInv'
  BY <1>6, OwnerSteps
<1>7. ASSUME NEW w \in Workflows, RemoveWorkflow(w) PROVE RunIInv'
  BY <1>7, RemoveStep
<1> QED
  BY <1>1, <1>2, <1>3, <1>4, <1>5, <1>6, <1>7 DEF RunNext

LEMMA RunInvariance == RunSpec => []RunIInv
BY InitRuns, RunNextStep, PTL DEF RunSpec

\* The tables, the sweeps and the callers of the workflow services hold what
\* their statements expect, whatever is created, crashes or is deleted.
LEMMA RunTypesHold == RunSpec => []RunTypeOK
<1>1. RunIInv => RunTypeOK
  BY DEF RunIInv, RunTypeOK, TablesOK, RunsOK, SweepsOK, CallersOK
<1> QED
  BY <1>1, RunInvariance, PTL

\* A message, a webhook key or a fire of a schedule makes one run of a
\* workflow, however many instances and callers race for it and whatever is
\* retried; and the runs caused by runs end at the depth cap.
THEOREM OneRunPerCause == RunSpec => []Lineage
<1>1. RunIInv => Lineage
  <2> SUFFICES ASSUME RunIInv PROVE Lineage
    OBVIOUS
  <2>1. \A r, s \in Created : runs[r].draft.of = runs[s].draft.of
                              /\ runs[r].draft.cause = runs[s].draft.cause => r = s
    BY DEF RunIInv, RunsOK, SameCause
  <2>2. \A r \in Created : RunKept(r)
    BY DEF RunIInv, RunsOK
  <2> QED
    BY <2>1, <2>2 DEF Lineage, RunKept, Linked
<1> QED
  BY <1>1, RunInvariance, PTL

--------------------------------------------------------------------------------
(* Reminders: one inbox entry at most for each row.                         *)

RowsOK ==
    /\ \A s \in Sources : saved[s].exists => saved[s].id \in Rows
    /\ \A s \in Sources, n \in Rows :
          n > saved[s].id \/ (IsRow(s, n) /\ ~saved[s].reminded) => notified[s][n] = 0

\* What the tick of an instance has before it: rows that were there, and the
\* one it claimed, of which nobody was reminded yet.
TickFits(t) ==
    /\ \A d \in t.due \cup t.held : d[2] <= saved[d[1]].id
    /\ t.pc = "deliver" =>
          \E d \in Sources \X Rows :
              /\ t.held = {d}
              /\ IsRow(d[1], d[2]) => saved[d[1]].reminded
              /\ notified[d[1]][d[2]] = 0

TicksOK ==
    /\ \A i \in Instances : TickFits(ticks[i])
    /\ \A i, k \in Instances :
          ticks[i].pc = "deliver" /\ ticks[k].pc = "deliver" /\ ticks[i].held = ticks[k].held => i = k

ReminderIInv == ReminderTypeOK /\ RowsOK /\ TicksOK

LEMMA ReminderRecords ==
    /\ MaxTime \in Nat \ {0} /\ MaxSaves \in Nat /\ ReminderFaults \in Nat /\ Rows \subseteq Nat \ {0}
    /\ IdleSave \in Save
    /\ IdleTick \in Tick /\ IdleTick.pc = "idle" /\ IdleTick.due = {} /\ IdleTick.held = {}
<1>1. MaxTime \in Nat \ {0} /\ MaxSaves \in Nat /\ ReminderFaults \in Nat
  BY ReminderAssumption DEF ReminderAssumption
<1>2. (CHOOSE s \in Sources : TRUE) \in Sources
  BY ReminderAssumption DEF ReminderAssumption
<1> QED
  BY <1>1, <1>2 DEF Rows, IdleSave, Save, IdleTick, Tick

LEMMA ReminderInitOK == ReminderInit => ReminderIInv
<1> SUFFICES ASSUME ReminderInit PROVE ReminderIInv
  OBVIOUS
<1>1. ReminderTypeOK
  BY ReminderRecords DEF ReminderInit, ReminderTypeOK, Saved
<1>2. RowsOK
  BY DEF ReminderInit, RowsOK
<1>3. TicksOK
  BY ReminderRecords DEF ReminderInit, TicksOK, TickFits
<1> QED
  BY <1>1, <1>2, <1>3 DEF ReminderIInv

\* Rows are numbered upwards, and one that is still there was there before.
SavedGrows ==
    \A s \in Sources :
        /\ saved[s].id <= saved'[s].id
        /\ \A n \in Rows : n <= saved[s].id /\ IsRow(s, n)' =>
              IsRow(s, n) /\ (saved[s].reminded => saved'[s].reminded)

LEMMA TickStays ==
    ASSUME ReminderTypeOK, ReminderTypeOK', SavedGrows, NEW t \in Tick, TickFits(t),
           t.pc = "deliver" => \A d \in t.held : notified'[d[1]][d[2]] = notified[d[1]][d[2]]
    PROVE  TickFits(t)'
<1>1. t.due \cup t.held \subseteq Sources \X Rows
  BY DEF Tick
<1>2. ASSUME NEW d \in t.due \cup t.held PROVE d[2] <= saved'[d[1]].id
  <2>1. d[1] \in Sources /\ d[2] \in Rows
    BY <1>1
  <2>2. saved[d[1]].id \in Nat /\ saved'[d[1]].id \in Nat /\ d[2] \in Nat
    <3>1. PICK s \in Sources : s = d[1]
      BY <2>1
    <3>2. saved[s].id \in 0 .. MaxSaves /\ saved'[s].id \in 0 .. MaxSaves
      BY <3>1 DEF ReminderTypeOK, Saved
    <3>3. d[2] \in Nat
      BY <2>1, ReminderRecords
    <3>4. saved[s].id \in Nat /\ saved'[s].id \in Nat
      BY <3>2, ReminderRecords
    <3> QED
      BY <3>1, <3>3, <3>4
  <2>3. d[2] <= saved[d[1]].id
    BY DEF TickFits
  <2>4. saved[d[1]].id <= saved'[d[1]].id
    BY <2>1 DEF SavedGrows
  <2> QED
    BY <2>2, <2>3, <2>4
<1>3. ASSUME t.pc = "deliver"
      PROVE  \E d \in Sources \X Rows :
                 /\ t.held = {d}
                 /\ IsRow(d[1], d[2])' => saved'[d[1]].reminded
                 /\ notified'[d[1]][d[2]] = 0
  <2>1. PICK d \in Sources \X Rows :
          t.held = {d} /\ (IsRow(d[1], d[2]) => saved[d[1]].reminded) /\ notified[d[1]][d[2]] = 0
    BY <1>3 DEF TickFits
  <2>2. PICK s \in Sources, n \in Rows : s = d[1] /\ n = d[2]
    BY <2>1
  <2>3. n <= saved[s].id
    BY <2>1, <2>2 DEF TickFits
  <2>4. IsRow(s, n)' => saved'[s].reminded
    BY <2>1, <2>2, <2>3 DEF SavedGrows
  <2> QED
    BY <1>3, <2>1, <2>2, <2>4 DEF IsRow
<1> QED
  BY <1>2, <1>3 DEF TickFits

\* A step of the tick of instance i.
LEMMA TicksMove ==
    ASSUME ReminderIInv, ReminderTypeOK', SavedGrows, NEW i \in Instances, NEW t \in Tick,
           ticks' = [ticks EXCEPT ![i] = t], TickFits(t)',
           \A k \in Instances \ {i} : ticks[k].pc = "deliver" =>
               /\ \A d \in ticks[k].held : notified'[d[1]][d[2]] = notified[d[1]][d[2]]
               /\ t.pc = "deliver" => t.held # ticks[k].held
    PROVE  TicksOK'
<1>1. /\ ticks'[i] = t /\ \A k \in Instances \ {i} : ticks'[k] = ticks[k]
      /\ ticks \in [Instances -> Tick]
  BY DEF ReminderIInv, ReminderTypeOK
<1>2. ASSUME NEW k \in Instances PROVE TickFits(ticks[k])'
  <2>1. CASE k = i
    BY <1>1, <2>1 DEF TickFits
  <2>2. CASE k # i
    <3>1. PICK u \in Tick : u = ticks[k]
      BY <1>1
    <3>2. TickFits(u)
      BY <3>1 DEF ReminderIInv, TicksOK
    <3>3. TickFits(u)'
      BY <2>2, <3>1, <3>2, TickStays DEF ReminderIInv
    <3>4. u = ticks'[k]
      BY <1>1, <2>2, <3>1
    <3> QED
      BY <3>3, <3>4 DEF TickFits
  <2> QED
    BY <2>1, <2>2
<1>3. ASSUME NEW j \in Instances, NEW k \in Instances, ticks'[j].pc = "deliver", ticks'[k].pc = "deliver",
             ticks'[j].held = ticks'[k].held
      PROVE  j = k
  BY <1>1, <1>3 DEF ReminderIInv, TicksOK
<1> QED
  BY <1>2, <1>3 DEF TicksOK

\* A step that is none of a tick.
LEMMA TicksStay ==
    ASSUME ReminderIInv, ReminderTypeOK', SavedGrows, UNCHANGED <<ticks, notified>>
    PROVE  TicksOK'
<1>1. ASSUME NEW k \in Instances PROVE TickFits(ticks[k])'
  <2>1. PICK u \in Tick : u = ticks[k]
    BY DEF ReminderIInv, ReminderTypeOK
  <2>2. TickFits(u)
    BY <2>1 DEF ReminderIInv, TicksOK
  <2>3. TickFits(u)'
    BY <2>2, TickStays DEF ReminderIInv
  <2>4. u = ticks'[k]
    BY <2>1
  <2> QED
    BY <2>3, <2>4 DEF TickFits
<1> QED
  BY <1>1 DEF ReminderIInv, TicksOK

LEMMA SavedStays ==
    ASSUME ReminderIInv, UNCHANGED saved
    PROVE  SavedGrows
<1>1. \A s \in Sources : saved[s].id \in Nat
  BY ReminderRecords DEF ReminderIInv, ReminderTypeOK, Saved
<1> QED
  BY <1>1 DEF SavedGrows, IsRow

\* The owner's steps that change a row.
LEMMA RowChanges ==
    ASSUME ReminderIInv, ReminderTypeOK', NEW s \in Sources, NEW row \in Saved,
           saved' = [saved EXCEPT ![s] = row],
           row.exists => row.id \in Rows,
           saved[s].id <= row.id,
           row.id = saved[s].id => /\ row.exists => saved[s].exists
                                   /\ row.reminded = saved[s].reminded,
           UNCHANGED <<notified, ticks>>
    PROVE  ReminderIInv'
<1>1. /\ saved'[s] = row /\ \A z \in Sources : z # s => saved'[z] = saved[z]
      /\ \A z \in Sources : saved[z].id \in Nat
  BY ReminderRecords DEF ReminderIInv, ReminderTypeOK, Saved
<1>2. SavedGrows
  <2> SUFFICES ASSUME NEW z \in Sources
               PROVE  /\ saved[z].id <= saved'[z].id
                      /\ \A n \in Rows : n <= saved[z].id /\ IsRow(z, n)' =>
                            IsRow(z, n) /\ (saved[z].reminded => saved'[z].reminded)
    BY DEF SavedGrows
  <2>1. CASE z # s
    BY <1>1, <2>1 DEF IsRow
  <2>2. CASE z = s
    <3>1. ASSUME NEW n \in Rows, n <= saved[s].id, IsRow(s, n)'
          PROVE  IsRow(s, n) /\ (saved[s].reminded => saved'[s].reminded)
      <4>1. n \in Nat /\ row.exists /\ row.id = n
        BY <1>1, <3>1, ReminderRecords DEF IsRow
      <4>2. row.id = saved[s].id
        BY <1>1, <3>1, <4>1
      <4> QED
        BY <1>1, <4>1, <4>2 DEF IsRow
    <3> QED
      BY <1>1, <2>2, <3>1
  <2> QED
    BY <2>1, <2>2
<1>3. RowsOK'
  <2>1. ASSUME NEW n \in Rows, n > row.id \/ (row.exists /\ row.id = n /\ ~row.reminded)
        PROVE  notified[s][n] = 0
    <3>1. n \in Nat /\ saved[s].id \in Nat /\ row.id \in Nat
      BY <1>1, ReminderRecords DEF Saved
    <3>2. n > saved[s].id \/ (IsRow(s, n) /\ ~saved[s].reminded)
      BY <2>1, <3>1 DEF IsRow
    <3> QED
      BY <3>2 DEF ReminderIInv, RowsOK
  <2>2. ASSUME NEW z \in Sources, z # s, NEW n \in Rows
        PROVE  /\ saved'[z].exists => saved'[z].id \in Rows
               /\ n > saved'[z].id \/ (IsRow(z, n)' /\ ~saved'[z].reminded) => notified[z][n] = 0
    BY <1>1, <2>2 DEF ReminderIInv, RowsOK, IsRow
  <2>3. \A z \in Sources : saved'[z].exists => saved'[z].id \in Rows
    BY <1>1 DEF ReminderIInv, RowsOK
  <2>4. \A z \in Sources, n \in Rows :
          n > saved'[z].id \/ (IsRow(z, n)' /\ ~saved'[z].reminded) => notified'[z][n] = 0
    BY <1>1, <2>1, <2>2 DEF IsRow
  <2> QED
    BY <2>3, <2>4 DEF RowsOK
<1>4. TicksOK'
  BY <1>2, TicksStay
<1> QED
  BY <1>3, <1>4 DEF ReminderIInv

\* Steps of the clock and of a save that change no row.
LEMMA QuietOwner ==
    ASSUME ReminderIInv, ReminderTypeOK', UNCHANGED <<saved, notified, ticks>>
    PROVE  ReminderIInv'
<1>1. TicksOK'
  BY SavedStays, TicksStay
<1>2. RowsOK'
  BY DEF ReminderIInv, RowsOK, IsRow
<1> QED
  BY <1>1, <1>2 DEF ReminderIInv

LEMMA FoundIs ==
    ASSUME ReminderTypeOK, NEW s \in Sources, NEW t \in 0 .. MaxTime
    PROVE  Found(s, t) \in Save
BY ReminderRecords DEF Found, Save, ReminderTypeOK, Saved

LEMMA SaveSteps ==
    ASSUME ReminderIInv, NEW q \in Requests,
           \/ \E s \in Sources, t \in 0 .. MaxTime : StartSave(q, s, t)
           \/ FindRaced(q)
    PROVE  ReminderIInv'
<1>1. UNCHANGED <<saved, clock, notified, ticks, failures>>
  BY DEF StartSave, FindRaced, saveOthers
<1>2. saves[q] \in Save /\ saves \in [Requests -> Save]
  BY DEF ReminderIInv, ReminderTypeOK
<1>3. PICK v \in Save : saves' = [saves EXCEPT ![q] = v]
  <2>1. ASSUME NEW s \in Sources, NEW t \in 0 .. MaxTime, StartSave(q, s, t)
        PROVE  \E v \in Save : saves' = [saves EXCEPT ![q] = v]
    <3>1. [pc |-> "create", source |-> s, id |-> 0, remindAt |-> t] \in Save
      BY ReminderRecords DEF Save
    <3>2. Found(s, t) \in Save
      BY FoundIs DEF ReminderIInv
    <3> QED
      BY <2>1, <3>1, <3>2 DEF StartSave
  <2>2. ASSUME FindRaced(q)
        PROVE  \E v \in Save : saves' = [saves EXCEPT ![q] = v]
    <3>1. Found(saves[q].source, saves[q].remindAt) \in Save /\ IdleSave \in Save
      BY <1>2, FoundIs, ReminderRecords DEF ReminderIInv, Save
    <3> QED
      BY <2>2, <3>1 DEF FindRaced
  <2> QED
    BY <2>1, <2>2
<1>4. ReminderTypeOK'
  BY <1>1, <1>2, <1>3 DEF ReminderIInv, ReminderTypeOK
<1> QED
  BY <1>1, <1>4, QuietOwner

LEMMA CreateStep ==
    ASSUME ReminderIInv, NEW q \in Requests, Create(q)
    PROVE  ReminderIInv'
<1> DEFINE s == saves[q].source
<1>1. saves[q] \in Save /\ saves \in [Requests -> Save] /\ s \in Sources /\ saves[q].remindAt \in 0 .. MaxTime
  BY DEF ReminderIInv, ReminderTypeOK, Save
<1>2. UNCHANGED <<clock, notified, ticks, failures>>
  BY DEF Create, saveOthers
<1>3. CASE saved[s].exists
  <2>1. saves' = [saves EXCEPT ![q] = [saves[q] EXCEPT !.pc = "find"]] /\ UNCHANGED saved
    BY <1>1, <1>3 DEF Create
  <2>2. [saves[q] EXCEPT !.pc = "find"] \in Save
    BY <1>1 DEF Save
  <2>3. ReminderTypeOK'
    BY <1>1, <1>2, <2>1, <2>2 DEF ReminderIInv, ReminderTypeOK
  <2> QED
    BY <1>2, <2>1, <2>3, QuietOwner
<1>4. CASE ~saved[s].exists
  <2>1. PICK row : row = [exists |-> TRUE, id |-> saved[s].id + 1, remindAt |-> saves[q].remindAt, reminded |-> FALSE]
    OBVIOUS
  <2>2. saved[s].id < MaxSaves /\ saved' = [saved EXCEPT ![s] = row] /\ saves' = [saves EXCEPT ![q] = IdleSave]
    BY <1>4, <2>1 DEF Create
  <2>3. saved[s].id \in Nat /\ saved[s].id + 1 \in 1 .. MaxSaves /\ saved[s].id + 1 \in Rows
    BY <1>1, <2>2, ReminderRecords DEF ReminderIInv, ReminderTypeOK, Saved, Rows
  <2>4. row \in Saved /\ row.id = saved[s].id + 1 /\ row.exists
    BY <1>1, <2>1, <2>3, ReminderRecords DEF Saved
  <2>5. ReminderTypeOK'
    BY <1>1, <1>2, <2>2, <2>4, ReminderRecords DEF ReminderIInv, ReminderTypeOK
  <2>6. PICK z \in Sources : z = s
    BY <1>1
  <2> HIDE DEF s
  <2>7. saved' = [saved EXCEPT ![z] = row] /\ saved[z].id <= row.id /\ row.id # saved[z].id /\ row.id \in Rows
    BY <2>2, <2>3, <2>4, <2>6
  <2> QED
    BY <1>2, <2>4, <2>5, <2>7, RowChanges
<1> QED
  BY <1>3, <1>4

LEMMA RescheduleStep ==
    ASSUME ReminderIInv, NEW q \in Requests, Reschedule(q)
    PROVE  ReminderIInv'
<1>1. PICK s \in Sources, t \in 0 .. MaxTime : s = saves[q].source /\ t = saves[q].remindAt
  BY DEF ReminderIInv, ReminderTypeOK, Save
<1>2. UNCHANGED <<clock, notified, ticks, failures>> /\ saves' = [saves EXCEPT ![q] = IdleSave]
  BY DEF Reschedule, saveOthers
<1>3. saves' \in [Requests -> Save] /\ saved[s] \in Saved
  BY <1>2, ReminderRecords DEF ReminderIInv, ReminderTypeOK
<1>4. PICK row \in Saved : /\ saved' = [saved EXCEPT ![s] = row]
                           /\ row.exists = saved[s].exists /\ row.id = saved[s].id
                           /\ row.reminded = saved[s].reminded
  <2>1. CASE IsRow(s, saves[q].id) /\ ~saved[s].reminded
    <3>1. PICK row : row = [saved[s] EXCEPT !.remindAt = t]
      OBVIOUS
    <3>2. row \in Saved /\ row.exists = saved[s].exists /\ row.id = saved[s].id /\ row.reminded = saved[s].reminded
      BY <1>3, <3>1 DEF Saved
    <3>3. saved' = [saved EXCEPT ![s] = row]
      BY <1>1, <2>1, <3>1 DEF Reschedule
    <3> QED
      BY <3>2, <3>3
  <2>2. CASE ~(IsRow(s, saves[q].id) /\ ~saved[s].reminded)
    <3>1. saved' = [saved EXCEPT ![s] = saved[s]]
      BY <1>1, <2>2 DEF Reschedule, ReminderIInv, ReminderTypeOK
    <3> QED
      BY <1>3, <3>1
  <2> QED
    BY <2>1, <2>2
<1>5. ReminderTypeOK'
  BY <1>2, <1>3, <1>4 DEF ReminderIInv, ReminderTypeOK
<1>6. saved[s].id \in Nat /\ (row.exists => row.id \in Rows)
  BY <1>3, <1>4, ReminderRecords DEF Saved, ReminderIInv, RowsOK
<1>7. saved[s].id <= row.id /\ (row.exists => saved[s].exists)
  BY <1>4, <1>6
<1>8. UNCHANGED <<notified, ticks>>
  BY <1>2
<1> QED
  BY <1>4, <1>5, <1>6, <1>7, <1>8, RowChanges

LEMMA RemoveSavedStep ==
    ASSUME ReminderIInv, NEW s \in Sources, RemoveSaved(s)
    PROVE  ReminderIInv'
<1>1. PICK row : row = [saved[s] EXCEPT !.exists = FALSE]
  OBVIOUS
<1>2. saved[s] \in Saved /\ saved[s].id \in Nat
  BY ReminderRecords DEF ReminderIInv, ReminderTypeOK, Saved
<1>3. row \in Saved /\ ~row.exists /\ row.id = saved[s].id /\ row.reminded = saved[s].reminded
  BY <1>1, <1>2 DEF Saved
<1>4. saved' = [saved EXCEPT ![s] = row] /\ UNCHANGED <<saves, clock, notified, ticks, failures>>
  BY <1>1 DEF RemoveSaved, saveOthers
<1>5. ReminderTypeOK'
  BY <1>3, <1>4 DEF ReminderIInv, ReminderTypeOK
<1>6. saved[s].id <= row.id /\ UNCHANGED <<notified, ticks>>
  BY <1>2, <1>3, <1>4
<1> QED
  BY <1>3, <1>4, <1>5, <1>6, RowChanges

--------------------------------------------------------------------------------
(* The reminder sweep.                                                      *)

LEMMA NextReminderIs ==
    ASSUME ReminderIInv, NEW i \in Instances, NEW rest, rest \subseteq ticks[i].due,
           NEW t, t = NextReminder(ticks[i], rest) \/ t = IdleTick
    PROVE  t \in Tick /\ TickFits(t) /\ t.pc # "deliver"
<1>1. ticks[i] \in Tick /\ TickFits(ticks[i])
  BY DEF ReminderIInv, ReminderTypeOK, TicksOK
<1>2. CASE t = IdleTick
  BY <1>2, ReminderRecords DEF TickFits
<1>3. CASE t # IdleTick
  <2>1. t = [ticks[i] EXCEPT !.pc = "claim", !.due = rest, !.held = {}]
    BY <1>3 DEF NextReminder
  <2>2. t \in Tick /\ t.pc = "claim" /\ t.due = rest /\ t.held = {}
    BY <1>1, <2>1 DEF Tick
  <2> QED
    BY <1>1, <2>2 DEF TickFits
<1> QED
  BY <1>2, <1>3

\* A tick moves on, and no row changes.
LEMMA QuietTick ==
    ASSUME ReminderIInv, NEW i \in Instances, NEW t \in Tick, ticks' = [ticks EXCEPT ![i] = t],
           TickFits(t), t.pc # "deliver", failures' \in 0 .. ReminderFaults,
           UNCHANGED <<clock, saved, notified, saves>>
    PROVE  ReminderIInv'
<1>1. ReminderTypeOK'
  BY DEF ReminderIInv, ReminderTypeOK
<1>2. SavedGrows
  BY SavedStays
<1>3. TickFits(t)'
  BY <1>1, <1>2, TickStays DEF ReminderIInv
<1>4. TicksOK'
  BY <1>1, <1>2, <1>3, TicksMove
<1>5. RowsOK'
  BY DEF ReminderIInv, RowsOK, IsRow
<1> QED
  BY <1>1, <1>4, <1>5 DEF ReminderIInv

LEMMA FindRemindersStep ==
    ASSUME ReminderIInv, NEW i \in Instances, FindReminders(i)
    PROVE  ReminderIInv'
<1> DEFINE due == {<<s, saved[s].id>> : s \in {x \in Sources : /\ saved[x].exists
                                                              /\ saved[x].remindAt \in 1 .. clock
                                                              /\ ~saved[x].reminded}}
<1>1. PICK t : t = [pc |-> "claim", now |-> clock, due |-> due, held |-> {}]
  OBVIOUS
<1>2. /\ ticks' = [ticks EXCEPT ![i] = t]
      /\ UNCHANGED <<clock, saved, notified, saves, failures>>
  BY <1>1 DEF FindReminders, tickOthers
<1>3. due \in SUBSET (Sources \X Rows)
  BY DEF ReminderIInv, RowsOK
<1>4. \A d \in due : d[2] <= saved[d[1]].id
  BY ReminderRecords DEF ReminderIInv, ReminderTypeOK, Saved
<1> HIDE DEF due
<1>5. t \in Tick /\ t.pc = "claim" /\ t.due = due /\ t.held = {}
  BY <1>1, <1>3, ReminderRecords DEF Tick, ReminderIInv, ReminderTypeOK
<1>6. TickFits(t) /\ failures' \in 0 .. ReminderFaults
  BY <1>2, <1>4, <1>5 DEF TickFits, ReminderIInv, ReminderTypeOK
<1> QED
  BY <1>2, <1>5, <1>6, QuietTick

LEMMA ClaimReminderStep ==
    ASSUME ReminderIInv, NEW i \in Instances, Claim(i)
    PROVE  ReminderIInv'
<1>1. PICK d \in ticks[i].due :
        LET row == saved[d[1]] IN
        IF IsRow(d[1], d[2]) /\ ~row.reminded /\ row.remindAt \in 1 .. ticks[i].now
        THEN /\ saved' = [saved EXCEPT ![d[1]].reminded = TRUE]
             /\ ticks' = [ticks EXCEPT ![i].pc = "deliver", ![i].due = @ \ {d}, ![i].held = {d}]
        ELSE /\ ticks' = [ticks EXCEPT ![i] = NextReminder(ticks[i], ticks[i].due \ {d})]
             /\ UNCHANGED saved
  BY DEF Claim
<1>2. UNCHANGED <<clock, notified, saves, failures>>
  BY DEF Claim, tickOthers
<1>3. ticks[i] \in Tick /\ TickFits(ticks[i]) /\ ticks[i].due \subseteq Sources \X Rows
  BY DEF ReminderIInv, ReminderTypeOK, TicksOK, Tick
<1>4. PICK s \in Sources, n \in Rows : d = <<s, n>> /\ s = d[1] /\ n = d[2]
  BY <1>3
<1>5. failures' \in 0 .. ReminderFaults
  BY <1>2 DEF ReminderIInv, ReminderTypeOK
<1>6. CASE ~(IsRow(s, n) /\ ~saved[s].reminded /\ saved[s].remindAt \in 1 .. ticks[i].now)
  <2>1. PICK t : t = NextReminder(ticks[i], ticks[i].due \ {d})
    OBVIOUS
  <2>2. t \in Tick /\ TickFits(t) /\ t.pc # "deliver"
    BY <2>1, NextReminderIs
  <2>3. ticks' = [ticks EXCEPT ![i] = t] /\ UNCHANGED saved
    BY <1>1, <1>4, <1>6, <2>1
  <2> QED
    BY <1>2, <1>5, <2>2, <2>3, QuietTick
<1>7. CASE IsRow(s, n) /\ ~saved[s].reminded /\ saved[s].remindAt \in 1 .. ticks[i].now
  <2>1. PICK row : row = [saved[s] EXCEPT !.reminded = TRUE]
    OBVIOUS
  <2>2. saved[s] \in Saved /\ saved[s].id \in Nat
    BY ReminderRecords DEF ReminderIInv, ReminderTypeOK, Saved
  <2>3. row \in Saved /\ row.reminded /\ row.id = saved[s].id /\ row.exists = saved[s].exists
    BY <2>1, <2>2 DEF Saved
  <2>4. saved' = [saved EXCEPT ![s] = row]
    BY <1>1, <1>4, <1>7, <2>1
  <2>5. PICK t : t = [ticks[i] EXCEPT !.pc = "deliver", !.due = ticks[i].due \ {d}, !.held = {d}]
    OBVIOUS
  <2>6. t \in Tick /\ t.pc = "deliver" /\ t.due = ticks[i].due \ {d} /\ t.held = {d}
    BY <1>3, <1>4, <2>5 DEF Tick
  <2>7. ticks' = [ticks EXCEPT ![i] = t]
    BY <1>1, <1>4, <1>7, <2>5 DEF ReminderIInv, ReminderTypeOK
  <2>8. ReminderTypeOK'
    BY <1>2, <2>3, <2>4, <2>6, <2>7 DEF ReminderIInv, ReminderTypeOK
  <2>9. saved'[s] = row /\ \A z \in Sources : z # s => saved'[z] = saved[z]
    BY <2>4 DEF ReminderIInv, ReminderTypeOK
  <2>10. SavedGrows
    <3>1. \A z \in Sources : saved[z].id \in Nat
      BY ReminderRecords DEF ReminderIInv, ReminderTypeOK, Saved
    <3> QED
      BY <2>3, <2>9, <3>1 DEF SavedGrows, IsRow
  <2>11. notified[s][n] = 0
    BY <1>7 DEF ReminderIInv, RowsOK
  <2>12. RowsOK'
    BY <1>2, <2>3, <2>9 DEF ReminderIInv, RowsOK, IsRow
  <2>13. TickFits(t)'
    <3>1. ASSUME NEW e \in t.due \cup t.held PROVE e[2] <= saved'[e[1]].id
      <4>1. e \in ticks[i].due /\ e[1] \in Sources
        BY <1>1, <1>3, <2>6, <3>1
      <4>2. e[2] <= saved[e[1]].id /\ saved'[e[1]].id = saved[e[1]].id
        BY <1>3, <2>3, <2>9, <4>1 DEF TickFits
      <4> QED
        BY <4>2
    <3>2. d \in Sources \X Rows /\ saved'[d[1]].reminded /\ notified'[d[1]][d[2]] = 0
      BY <1>2, <1>4, <2>3, <2>9, <2>11
    <3> QED
      BY <2>6, <3>1, <3>2 DEF TickFits
  <2>14. ASSUME NEW k \in Instances, ticks[k].pc = "deliver" PROVE t.held # ticks[k].held
    <3>1. PICK e \in Sources \X Rows : ticks[k].held = {e} /\ (IsRow(e[1], e[2]) => saved[e[1]].reminded)
      BY <2>14 DEF ReminderIInv, TicksOK, TickFits
    <3> QED
      BY <1>4, <1>7, <2>6, <3>1
  <2>15. TicksOK'
    BY <1>2, <2>6, <2>7, <2>8, <2>10, <2>13, <2>14, TicksMove
  <2> QED
    BY <2>8, <2>12, <2>15 DEF ReminderIInv
<1> QED
  BY <1>6, <1>7

LEMMA DeliverStep ==
    ASSUME ReminderIInv, NEW i \in Instances, Deliver(i)
    PROVE  ReminderIInv'
<1>1. PICK d \in Sources \X Rows :
        /\ ticks[i].held = {d}
        /\ IsRow(d[1], d[2]) => saved[d[1]].reminded
        /\ notified[d[1]][d[2]] = 0
  BY DEF Deliver, ReminderIInv, TicksOK, TickFits
<1>2. PICK s \in Sources, n \in Rows : d = <<s, n>> /\ s = d[1] /\ n = d[2]
  OBVIOUS
<1>3. /\ notified' = IF IsRow(s, n) THEN [notified EXCEPT ![s][n] = @ + 1] ELSE notified
      /\ ticks[i].pc = "deliver"
      /\ UNCHANGED <<saved, clock, saves, failures>>
  BY <1>1, <1>2 DEF Deliver, tickOthers
<1>4. PICK t : t = NextReminder(ticks[i], ticks[i].due)
  OBVIOUS
<1>5. t \in Tick /\ TickFits(t) /\ t.pc # "deliver" /\ ticks' = [ticks EXCEPT ![i] = t]
  BY <1>4, NextReminderIs DEF Deliver
<1>6. /\ notified' \in [Sources -> [Rows -> Nat]]
      /\ \A z \in Sources, m \in Rows : <<z, m>> # d => notified'[z][m] = notified[z][m]
      /\ ~IsRow(s, n) => notified' = notified
  BY <1>2, <1>3 DEF ReminderIInv, ReminderTypeOK
<1>7. ReminderTypeOK'
  BY <1>3, <1>5, <1>6 DEF ReminderIInv, ReminderTypeOK
<1>8. SavedGrows
  BY <1>3, SavedStays
<1>9. TickFits(t)'
  BY <1>5, <1>7, <1>8, TickStays DEF ReminderIInv
<1>10. ASSUME NEW k \in Instances \ {i}, ticks[k].pc = "deliver", NEW e \in ticks[k].held
       PROVE  notified'[e[1]][e[2]] = notified[e[1]][e[2]]
  <2>1. PICK f \in Sources \X Rows : ticks[k].held = {f}
    BY <1>10 DEF ReminderIInv, TicksOK, TickFits
  <2>2. e = f /\ e # d
    BY <1>1, <1>3, <1>10, <2>1 DEF ReminderIInv, TicksOK
  <2> QED
    BY <1>6, <2>1, <2>2
<1>11. TicksOK'
  BY <1>5, <1>7, <1>8, <1>9, <1>10, TicksMove
<1>12. RowsOK'
  <2>1. ASSUME NEW z \in Sources, NEW m \in Rows,
               m > saved[z].id \/ (IsRow(z, m) /\ ~saved[z].reminded)
        PROVE  notified'[z][m] = 0
    <3>1. notified[z][m] = 0
      BY <2>1 DEF ReminderIInv, RowsOK
    <3>2. CASE <<z, m>> # d
      BY <1>6, <3>1, <3>2
    <3>3. CASE <<z, m>> = d
      <4>1. z = s /\ m = n /\ m <= saved[z].id /\ m \in Nat /\ saved[z].id \in Nat
        <5>1. z = s /\ m = n
          BY <1>2, <3>3
        <5>2. d[2] <= saved[d[1]].id
          BY <1>1 DEF ReminderIInv, TicksOK, TickFits
        <5> QED
          BY <1>2, <5>1, <5>2, ReminderRecords DEF ReminderIInv, ReminderTypeOK, Saved
      <4>2. ~IsRow(s, n)
        BY <1>1, <1>2, <2>1, <4>1
      <4> QED
        BY <1>6, <3>1, <4>2
    <3> QED
      BY <3>2, <3>3
  <2>2. \A z \in Sources, m \in Rows : IsRow(z, m)' = IsRow(z, m)
    BY <1>3 DEF IsRow
  <2> QED
    BY <1>3, <2>1, <2>2 DEF ReminderIInv, RowsOK
<1> QED
  BY <1>7, <1>11, <1>12 DEF ReminderIInv

LEMMA GiveUpSteps ==
    ASSUME ReminderIInv, NEW i \in Instances, DeliverError(i) \/ AbortTick(i)
    PROVE  ReminderIInv'
<1>1. PICK t : /\ ticks' = [ticks EXCEPT ![i] = t]
               /\ t = NextReminder(ticks[i], ticks[i].due) \/ t = IdleTick
  BY DEF DeliverError, AbortTick
<1>2. t \in Tick /\ TickFits(t) /\ t.pc # "deliver"
  BY <1>1, NextReminderIs
<1>3. failures < ReminderFaults /\ failures' = failures + 1 /\ UNCHANGED <<clock, saved, notified, saves>>
  BY DEF DeliverError, AbortTick
<1>4. failures' \in 0 .. ReminderFaults
  BY <1>3, ReminderRecords DEF ReminderIInv, ReminderTypeOK
<1> QED
  BY <1>1, <1>2, <1>3, <1>4, QuietTick

LEMMA ReminderNextStep == ReminderIInv /\ [ReminderNext]_reminderVars => ReminderIInv'
<1> SUFFICES ASSUME ReminderIInv, [ReminderNext]_reminderVars PROVE ReminderIInv'
  OBVIOUS
<1>1. ASSUME Pass PROVE ReminderIInv'
  <2>1. clock < MaxTime /\ clock' = clock + 1 /\ UNCHANGED <<saved, notified, saves, ticks, failures>>
    BY <1>1 DEF Pass
  <2>2. clock' \in 1 .. MaxTime
    BY <2>1, ReminderRecords DEF ReminderIInv, ReminderTypeOK
  <2>3. ReminderTypeOK'
    BY <2>1, <2>2 DEF ReminderIInv, ReminderTypeOK
  <2> QED
    BY <2>1, <2>3, QuietOwner
<1>2. ASSUME UNCHANGED reminderVars PROVE ReminderIInv'
  BY <1>2, QuietOwner DEF reminderVars, ReminderIInv, ReminderTypeOK
<1> QED
  BY <1>1, <1>2, SaveSteps, CreateStep, RescheduleStep, RemoveSavedStep, FindRemindersStep, ClaimReminderStep,
     DeliverStep, GiveUpSteps DEF ReminderNext

LEMMA ReminderInvariance == ReminderSpec => []ReminderIInv
BY ReminderInitOK, ReminderNextStep, PTL DEF ReminderSpec

--------------------------------------------------------------------------------
(* Decisions: the outcome fits the votes or the moderator.                  *)

\* A decision the sweep has set its eyes on is past its deadline, and what it
\* counted is still what the votes give.
CountFits(s) ==
    /\ \A d \in s.due \cup s.on : closed[d] /\ decision[d].status # "ABSENT"
    /\ \A d \in s.on : s.pc = "write" /\ d \notin crossed => s.verdict = Verdict(d)

DecisionIInv ==
    /\ DecisionTypeOK
    /\ OutcomeFits
    /\ \A d \in Proposals : decision[d].expired => closed[d]
    /\ \A i \in Instances : CountFits(counts[i])

LEMMA CountingTypes ==
    /\ NotCasting \in Casting
    /\ NotCounting \in Counting /\ NotCounting.due = {} /\ NotCounting.on = {}
    /\ \A rest \in SUBSET Proposals :
          NextDecision(rest) \in Counting /\ NextDecision(rest).due \subseteq rest /\ NextDecision(rest).on = {}
BY DEF NotCasting, Casting, Options, NotCounting, Counting, NextDecision

LEMMA DecisionInitOK == DecisionInit => DecisionIInv
<1> SUFFICES ASSUME DecisionInit PROVE DecisionIInv
  OBVIOUS
<1>1. 0 \in 0 .. DecisionFaults
  BY DecisionAssumption DEF DecisionAssumption
<1>2. DecisionTypeOK
  BY <1>1, CountingTypes DEF DecisionInit, DecisionTypeOK, Decision, DecisionStatuses
<1>3. \A i \in Instances : CountFits(counts[i])
  BY CountingTypes DEF DecisionInit, CountFits
<1> QED
  BY <1>2, <1>3 DEF DecisionInit, DecisionIInv, OutcomeFits

LEMMA VerdictStays ==
    ASSUME NEW d \in Proposals, votes'[d] = votes[d]
    PROVE  Verdict(d)' = Verdict(d)
BY DEF Verdict, Tally

\* The sweeps keep what they counted when no vote of a closed poll changes.
LEMMA CountsStay ==
    ASSUME DecisionIInv, NEW i \in Instances, UNCHANGED counts,
           \A d \in Proposals : /\ closed[d] => closed'[d]
                                /\ decision[d].status # "ABSENT" => decision'[d].status # "ABSENT"
                                /\ closed[d] /\ d \notin crossed' => d \notin crossed /\ votes'[d] = votes[d]
    PROVE  CountFits(counts[i])'
<1>1. CountFits(counts[i]) /\ counts[i].due \cup counts[i].on \subseteq Proposals
  BY DEF DecisionIInv, DecisionTypeOK, Counting
<1>2. ASSUME NEW d \in counts[i].due \cup counts[i].on PROVE closed'[d] /\ decision'[d].status # "ABSENT"
  BY <1>1 DEF CountFits
<1>3. ASSUME NEW d \in counts[i].on, counts[i].pc = "write", d \notin crossed'
      PROVE  counts[i].verdict = Verdict(d)'
  <2>1. d \in Proposals /\ closed[d] /\ d \notin crossed /\ votes'[d] = votes[d]
    BY <1>1, <1>3 DEF CountFits
  <2> QED
    BY <1>1, <1>3, <2>1, VerdictStays DEF CountFits
<1> QED
  BY <1>2, <1>3 DEF CountFits

\* What a step does to one decision that the others do not notice.
LEMMA RowMoves ==
    ASSUME DecisionIInv, NEW d \in Proposals, NEW row \in Decision, decision' = [decision EXCEPT ![d] = row]
    PROVE  /\ decision' \in [Proposals -> Decision] /\ decision'[d] = row
           /\ \A e \in Proposals : e # d => decision'[e] = decision[e]
BY DEF DecisionIInv, DecisionTypeOK

LEMMA MembersStep ==
    ASSUME DecisionIInv, NEW d \in Proposals, Propose(d) \/ Deadline(d)
    PROVE  DecisionIInv'
<1>1. CASE Propose(d)
  <2>1. PICK row : row = [decision[d] EXCEPT !.status = "PROPOSED"]
    OBVIOUS
  <2>2. decision[d] \in Decision /\ decision[d].status = "ABSENT"
    BY <1>1 DEF DecisionIInv, DecisionTypeOK, Propose
  <2>3. row \in Decision /\ row.status = "PROPOSED" /\ row.expired = decision[d].expired
    BY <2>1, <2>2 DEF Decision, DecisionStatuses
  <2>4. decision' = [decision EXCEPT ![d] = row] /\ UNCHANGED <<closed, votes, casting, ruling, crossed, counts, stumbles>>
    BY <1>1, <2>1 DEF Propose
  <2>5. /\ decision' \in [Proposals -> Decision] /\ decision'[d] = row
        /\ \A e \in Proposals : e # d => decision'[e] = decision[e]
    BY <2>3, <2>4, RowMoves
  <2>6. DecisionTypeOK'
    BY <2>4, <2>5 DEF DecisionIInv, DecisionTypeOK
  <2>7. \A i \in Instances : CountFits(counts[i])'
    BY <2>3, <2>4, <2>5, CountsStay
  <2>8. \A e \in Proposals : Verdict(e)' = Verdict(e)
    BY <2>4, VerdictStays
  <2>9. OutcomeFits'
    <3>1. \A e \in Proposals : e # d => decision'[e] = decision[e]
      BY <2>5
    <3>2. decision'[d].status = "PROPOSED" /\ decision'[d].expired = decision[d].expired
      BY <2>3, <2>5
    <3>3. ruling[d] = "none"
      BY <2>2 DEF DecisionIInv, DecisionTypeOK, OutcomeFits
    <3> QED
      BY <2>4, <2>8, <3>1, <3>2, <3>3 DEF DecisionIInv, OutcomeFits
  <2>10. \A e \in Proposals : decision'[e].expired => closed'[e]
    BY <2>3, <2>4, <2>5 DEF DecisionIInv
  <2> QED
    BY <2>6, <2>7, <2>9, <2>10 DEF DecisionIInv
<1>2. CASE Deadline(d)
  <2>1. closed' = [closed EXCEPT ![d] = TRUE] /\ UNCHANGED <<decision, votes, casting, ruling, crossed, counts, stumbles>>
    BY <1>2 DEF Deadline
  <2>2. DecisionTypeOK' /\ \A e \in Proposals : closed[e] => closed'[e]
    BY <2>1 DEF DecisionIInv, DecisionTypeOK
  <2>3. \A i \in Instances : CountFits(counts[i])'
    BY <2>1, <2>2, CountsStay
  <2>4. \A e \in Proposals : Verdict(e)' = Verdict(e)
    BY <2>1, VerdictStays
  <2>5. OutcomeFits'
    BY <2>1, <2>2, <2>4 DEF DecisionIInv, OutcomeFits
  <2> QED
    BY <2>1, <2>2, <2>3, <2>5 DEF DecisionIInv
<1> QED
  BY <1>1, <1>2

LEMMA VotersStep ==
    ASSUME DecisionIInv, NEW v \in Voters,
           Vote(v) \/ \E d \in Proposals, o \in Options : StartVote(v, d, o)
    PROVE  DecisionIInv'
<1>1. CASE Vote(v)
  <2>1. PICK d \in casting[v].on :
          /\ votes' = [votes EXCEPT ![d][v] = casting[v].option]
          /\ crossed' = IF closed[d] THEN crossed \cup {d} ELSE crossed
    BY <1>1 DEF Vote
  <2>2. casting' = [casting EXCEPT ![v] = NotCasting] /\ UNCHANGED <<decision, closed, ruling, counts, stumbles>>
    BY <1>1 DEF Vote
  <2>3. d \in Proposals /\ casting[v].option \in Options
    BY <2>1 DEF DecisionIInv, DecisionTypeOK, Casting
  <2>4. DecisionTypeOK'
    <3>1. votes' \in [Proposals -> [Voters -> Options \cup {"none"}]]
      BY <2>1, <2>3 DEF DecisionIInv, DecisionTypeOK
    <3>2. casting' \in [Voters -> Casting] /\ crossed' \subseteq Proposals
      BY <2>1, <2>2, <2>3, CountingTypes DEF DecisionIInv, DecisionTypeOK
    <3> QED
      BY <2>2, <3>1, <3>2 DEF DecisionIInv, DecisionTypeOK
  <2>5. \A e \in Proposals : closed[e] /\ e \notin crossed' => e \notin crossed /\ votes'[e] = votes[e]
    BY <2>1, <2>3 DEF DecisionIInv, DecisionTypeOK
  <2>6. \A i \in Instances : CountFits(counts[i])'
    BY <2>2, <2>5, CountsStay
  <2>7. \A e \in Proposals : closed[e] /\ e \notin crossed' => e \notin crossed /\ Verdict(e)' = Verdict(e)
    BY <2>5, VerdictStays
  <2>8. crossed \subseteq crossed'
    BY <2>1
  <2>9. OutcomeFits'
    BY <2>2, <2>7, <2>8 DEF DecisionIInv, OutcomeFits
  <2> QED
    BY <2>2, <2>4, <2>6, <2>9 DEF DecisionIInv
<1>2. ASSUME NEW d \in Proposals, NEW o \in Options, StartVote(v, d, o) PROVE DecisionIInv'
  <2>1. /\ casting' = [casting EXCEPT ![v] = [pc |-> "write", on |-> {d}, option |-> o]]
        /\ UNCHANGED <<decision, closed, votes, ruling, crossed, counts, stumbles>>
    BY <1>2 DEF StartVote
  <2>2. [pc |-> "write", on |-> {d}, option |-> o] \in Casting
    BY DEF Casting
  <2>3. DecisionTypeOK'
    BY <2>1, <2>2 DEF DecisionIInv, DecisionTypeOK
  <2>4. \A i \in Instances : CountFits(counts[i])'
    BY <2>1, CountsStay
  <2>5. \A e \in Proposals : Verdict(e)' = Verdict(e)
    BY <2>1, VerdictStays
  <2> QED
    BY <2>1, <2>3, <2>4, <2>5 DEF DecisionIInv, OutcomeFits
<1> QED
  BY <1>1, <1>2

LEMMA ModeratorsStep ==
    ASSUME DecisionIInv, NEW d \in Proposals,
           \/ \E status \in {"ACCEPTED", "REJECTED"} : Resolve(d, status)
           \/ \E e \in Proposals \cup Elsewhere : Supersede(d, e)
    PROVE  DecisionIInv'
<1>1. decision[d] \in Decision
  BY DEF DecisionIInv, DecisionTypeOK
<1>2. ASSUME NEW status \in {"ACCEPTED", "REJECTED"}, Resolve(d, status) PROVE DecisionIInv'
  <2>1. PICK row : row = [decision[d] EXCEPT !.status = status]
    OBVIOUS
  <2>2. row \in Decision /\ row.status = status /\ row.expired = decision[d].expired
    BY <1>1, <2>1 DEF Decision, DecisionStatuses
  <2>3. /\ decision' = [decision EXCEPT ![d] = row] /\ ruling' = [ruling EXCEPT ![d] = status]
        /\ UNCHANGED <<closed, votes, casting, crossed, counts, stumbles>>
    BY <1>2, <2>1 DEF Resolve
  <2>4. /\ decision' \in [Proposals -> Decision] /\ decision'[d] = row
        /\ \A e \in Proposals : e # d => decision'[e] = decision[e]
    BY <2>2, <2>3, RowMoves
  <2>5. /\ ruling' \in [Proposals -> {"none", "ACCEPTED", "REJECTED"}] /\ ruling'[d] = status
        /\ \A e \in Proposals : e # d => ruling'[e] = ruling[e]
    BY <2>3 DEF DecisionIInv, DecisionTypeOK
  <2>6. DecisionTypeOK'
    BY <2>3, <2>4, <2>5 DEF DecisionIInv, DecisionTypeOK
  <2>7. \A i \in Instances : CountFits(counts[i])'
    BY <2>2, <2>3, <2>4, CountsStay
  <2>8. \A e \in Proposals : Verdict(e)' = Verdict(e)
    BY <2>3, VerdictStays
  <2>9. OutcomeFits'
    BY <2>2, <2>3, <2>4, <2>5, <2>8 DEF DecisionIInv, OutcomeFits
  <2>10. \A e \in Proposals : decision'[e].expired => closed'[e]
    BY <2>2, <2>3, <2>4 DEF DecisionIInv
  <2> QED
    BY <2>6, <2>7, <2>9, <2>10 DEF DecisionIInv
<1>3. ASSUME NEW e \in Proposals \cup Elsewhere, Supersede(d, e) PROVE DecisionIInv'
  <2>1. PICK row : row = [decision[d] EXCEPT !.status = "SUPERSEDED", !.successor = {e}]
    OBVIOUS
  <2>2. row \in Decision /\ row.status = "SUPERSEDED" /\ row.expired = decision[d].expired
    BY <1>1, <2>1 DEF Decision, DecisionStatuses
  <2>3. decision[d].status = "ACCEPTED" /\ UNCHANGED <<closed, votes, casting, ruling, crossed, counts, stumbles>>
    BY <1>3 DEF Supersede
  <2>4. decision' = [decision EXCEPT ![d] = row]
    BY <1>3, <2>1 DEF Supersede, DecisionIInv, DecisionTypeOK
  <2>5. /\ decision' \in [Proposals -> Decision] /\ decision'[d] = row
        /\ \A f \in Proposals : f # d => decision'[f] = decision[f]
    BY <2>2, <2>4, RowMoves
  <2>6. DecisionTypeOK'
    BY <2>3, <2>5 DEF DecisionIInv, DecisionTypeOK
  <2>7. \A i \in Instances : CountFits(counts[i])'
    BY <2>2, <2>3, <2>5, CountsStay
  <2>8. \A f \in Proposals : Verdict(f)' = Verdict(f)
    BY <2>3, VerdictStays
  <2>9. OutcomeFits'
    BY <2>2, <2>3, <2>5, <2>8 DEF DecisionIInv, OutcomeFits
  <2>10. \A f \in Proposals : decision'[f].expired => closed'[f]
    BY <2>2, <2>3, <2>5 DEF DecisionIInv
  <2> QED
    BY <2>6, <2>7, <2>9, <2>10 DEF DecisionIInv
<1> QED
  BY <1>2, <1>3

\* A sweep moves on and no row changes.
LEMMA CountsMove ==
    ASSUME DecisionIInv, NEW i \in Instances, NEW s \in Counting, counts' = [counts EXCEPT ![i] = s],
           CountFits(s)', stumbles' \in 0 .. DecisionFaults,
           DecisionTypeOK, decision' \in [Proposals -> Decision], OutcomeFits',
           \A d \in Proposals : /\ decision'[d].expired => closed[d]
                                /\ decision[d].status # "ABSENT" => decision'[d].status # "ABSENT",
           UNCHANGED <<closed, votes, casting, ruling, crossed>>
    PROVE  DecisionIInv'
<1>1. /\ counts' \in [Instances -> Counting] /\ counts'[i] = s
      /\ \A k \in Instances : k # i => counts'[k] = counts[k]
  BY DEF DecisionTypeOK
<1>2. DecisionTypeOK'
  BY <1>1 DEF DecisionTypeOK
<1>3. ASSUME NEW k \in Instances PROVE CountFits(counts[k])'
  <2>1. CASE k = i
    BY <1>1, <2>1 DEF CountFits
  <2>2. CASE k # i
    <3>1. CountFits(counts[k]) /\ counts[k].due \cup counts[k].on \subseteq Proposals
      BY DEF DecisionIInv, DecisionTypeOK, Counting
    <3>2. \A d \in Proposals : Verdict(d)' = Verdict(d)
      BY VerdictStays
    <3> QED
      BY <1>1, <2>2, <3>1, <3>2 DEF CountFits
  <2> QED
    BY <2>1, <2>2
<1> QED
  BY <1>2, <1>3 DEF DecisionIInv

LEMMA NextDecisionFits ==
    ASSUME NEW rest \in SUBSET Proposals, NEW s, s = NextDecision(rest),
           \A d \in rest : closed'[d] /\ decision'[d].status # "ABSENT"
    PROVE  s \in Counting /\ CountFits(s)'
<1>1. s \in Counting /\ s.due \subseteq rest /\ s.on = {}
  BY CountingTypes
<1> QED
  BY <1>1 DEF CountFits

LEMMA CountStep ==
    ASSUME DecisionIInv, NEW i \in Instances, FindDecisions(i) \/ Count(i) \/ AbortCount(i)
    PROVE  DecisionIInv'
<1>1. UNCHANGED <<decision, closed, votes, casting, ruling, crossed>>
  BY DEF FindDecisions, Count, AbortCount, countOthers
<1>2. /\ counts[i].due \subseteq Proposals
      /\ \A d \in counts[i].due : closed[d] /\ decision[d].status # "ABSENT"
      /\ counts \in [Instances -> Counting] /\ decision \in [Proposals -> Decision]
  BY DEF DecisionIInv, DecisionTypeOK, Counting, CountFits
<1>3. stumbles' \in 0 .. DecisionFaults
  BY DecisionAssumption DEF FindDecisions, Count, AbortCount, DecisionIInv, DecisionTypeOK, DecisionAssumption
<1>4. PICK s \in Counting : CountFits(s)' /\ counts' = [counts EXCEPT ![i] = s]
  <2>1. CASE FindDecisions(i)
    <3>1. PICK due : /\ due = {d \in Proposals : decision[d].status = "PROPOSED" /\ ~decision[d].expired /\ closed[d]}
                     /\ counts' = [counts EXCEPT ![i] = NextDecision(due)]
      BY <2>1 DEF FindDecisions
    <3>2. PICK s : s = NextDecision(due)
      OBVIOUS
    <3>3. s \in Counting /\ CountFits(s)'
      BY <1>1, <3>1, <3>2, NextDecisionFits
    <3> QED
      BY <3>1, <3>2, <3>3
  <2>2. CASE AbortCount(i)
    <3>1. PICK rest \in {counts[i].due, {}} : counts' = [counts EXCEPT ![i] = NextDecision(rest)]
      BY <2>2 DEF AbortCount
    <3>2. PICK s : s = NextDecision(rest)
      OBVIOUS
    <3>3. rest \in SUBSET Proposals /\ \A d \in rest : closed'[d] /\ decision'[d].status # "ABSENT"
      BY <1>1, <1>2, <3>1
    <3>4. s \in Counting /\ CountFits(s)'
      BY <3>2, <3>3, NextDecisionFits
    <3> QED
      BY <3>1, <3>2, <3>4
  <2>3. CASE Count(i)
    <3>1. PICK d \in counts[i].due :
            counts' = [counts EXCEPT ![i] = [pc |-> "write", due |-> counts[i].due \ {d}, on |-> {d}, verdict |-> Verdict(d)]]
      BY <1>2, <2>3 DEF Count
    <3>2. PICK verdict : verdict = Verdict(d)
      OBVIOUS
    <3>3. verdict \in {"ACCEPTED", "REJECTED", "expired"}
      BY <3>2 DEF Verdict
    <3>4. PICK s : s = [pc |-> "write", due |-> counts[i].due \ {d}, on |-> {d}, verdict |-> verdict]
      OBVIOUS
    <3>5. d \in Proposals /\ s \in Counting
      BY <1>2, <3>1, <3>3, <3>4 DEF Counting
    <3>6. Verdict(d)' = verdict
      BY <1>1, <3>2, <3>5, VerdictStays
    <3>7. CountFits(s)'
      BY <1>1, <1>2, <3>1, <3>4, <3>6 DEF CountFits
    <3> QED
      BY <3>1, <3>2, <3>4, <3>5, <3>7
  <2> QED
    BY <2>1, <2>2, <2>3
<1>5. OutcomeFits'
  <2>1. \A d \in Proposals : Verdict(d)' = Verdict(d)
    BY <1>1, VerdictStays
  <2> QED
    BY <1>1, <2>1 DEF DecisionIInv, OutcomeFits
<1> QED
  BY <1>1, <1>2, <1>3, <1>4, <1>5, CountsMove DEF DecisionIInv

LEMMA SettleStep ==
    ASSUME DecisionIInv, NEW i \in Instances, Settle(i)
    PROVE  DecisionIInv'
<1>1. PICK d \in counts[i].on :
        decision' = IF decision[d].status # "PROPOSED" THEN decision
                    ELSE IF counts[i].verdict = "expired" THEN [decision EXCEPT ![d].expired = TRUE]
                    ELSE [decision EXCEPT ![d].status = counts[i].verdict]
  BY DEF Settle
<1>2. /\ counts[i].pc = "write" /\ counts' = [counts EXCEPT ![i] = NextDecision(counts[i].due)]
      /\ UNCHANGED <<stumbles, closed, votes, casting, ruling, crossed>>
  BY DEF Settle, countOthers
<1>3. /\ counts[i] \in Counting /\ CountFits(counts[i]) /\ counts[i].due \subseteq Proposals /\ d \in Proposals
      /\ stumbles' \in 0 .. DecisionFaults
  BY <1>1, <1>2 DEF DecisionIInv, DecisionTypeOK, Counting
<1>4. PICK verdict : verdict = counts[i].verdict
  OBVIOUS
<1>5. /\ closed[d] /\ verdict \in {"ACCEPTED", "REJECTED", "expired"}
      /\ d \notin crossed => verdict = Verdict(d)
  BY <1>1, <1>2, <1>3, <1>4 DEF CountFits, Counting
<1>6. decision[d] \in Decision /\ (decision[d].status = "PROPOSED" => ruling[d] = "none")
  BY <1>3 DEF DecisionIInv, DecisionTypeOK, OutcomeFits
<1>7. PICK row \in Decision :
        /\ decision' = [decision EXCEPT ![d] = row]
        /\ \/ row = decision[d]
           \/ /\ decision[d].status = "PROPOSED" /\ verdict = "expired"
              /\ row.status = "PROPOSED" /\ row.expired
           \/ /\ decision[d].status = "PROPOSED" /\ verdict # "expired"
              /\ row.status = verdict /\ row.expired = decision[d].expired
  <2>1. CASE decision[d].status # "PROPOSED"
    BY <1>1, <1>6, <2>1 DEF DecisionIInv, DecisionTypeOK
  <2>2. CASE decision[d].status = "PROPOSED" /\ verdict = "expired"
    <3>1. PICK row : row = [decision[d] EXCEPT !.expired = TRUE]
      OBVIOUS
    <3>2. row \in Decision /\ row.status = "PROPOSED" /\ row.expired
      BY <1>6, <2>2, <3>1 DEF Decision
    <3> QED
      BY <1>1, <1>4, <2>2, <3>1, <3>2
  <2>3. CASE decision[d].status = "PROPOSED" /\ verdict # "expired"
    <3>1. PICK row : row = [decision[d] EXCEPT !.status = verdict]
      OBVIOUS
    <3>2. row \in Decision /\ row.status = verdict /\ row.expired = decision[d].expired
      BY <1>5, <1>6, <2>3, <3>1 DEF Decision, DecisionStatuses
    <3> QED
      BY <1>1, <1>4, <2>3, <3>1, <3>2
  <2> QED
    BY <2>1, <2>2, <2>3
<1>8. /\ decision' \in [Proposals -> Decision] /\ decision'[d] = row
      /\ \A e \in Proposals : e # d => decision'[e] = decision[e]
  BY <1>3, <1>7, RowMoves
<1>9. \A e \in Proposals : Verdict(e)' = Verdict(e)
  BY <1>2, VerdictStays
<1>10. OutcomeFits'
  <2>1. ASSUME NEW e \in Proposals
        PROVE  LET status == decision'[e].status IN
               /\ ruling[e] # "none" => status = ruling[e] \/ (status = "SUPERSEDED" /\ ruling[e] = "ACCEPTED")
               /\ ruling[e] = "none" /\ status \notin {"ABSENT", "PROPOSED"} /\ e \notin crossed
                     => closed[e] /\ Verdict(e) = IF status = "REJECTED" THEN "REJECTED" ELSE "ACCEPTED"
               /\ decision'[e].expired /\ e \notin crossed => Verdict(e) = "expired"
    <3>1. CASE e # d
      BY <1>8, <3>1 DEF DecisionIInv, OutcomeFits
    <3>2. CASE e = d
      BY <1>5, <1>6, <1>7, <1>8, <3>2 DEF DecisionIInv, OutcomeFits
    <3> QED
      BY <3>1, <3>2
  <2> QED
    BY <1>2, <1>9, <2>1 DEF OutcomeFits
<1>11. \A e \in Proposals : /\ decision'[e].expired => closed[e]
                            /\ decision[e].status # "ABSENT" => decision'[e].status # "ABSENT"
  BY <1>5, <1>7, <1>8 DEF DecisionIInv
<1>12. PICK s : s = NextDecision(counts[i].due)
  OBVIOUS
<1>13. s \in Counting /\ CountFits(s)'
  <2>1. \A e \in counts[i].due : closed'[e] /\ decision'[e].status # "ABSENT"
    BY <1>2, <1>3, <1>11 DEF CountFits
  <2> QED
    BY <1>3, <1>12, <2>1, NextDecisionFits
<1> QED
  BY <1>2, <1>3, <1>8, <1>10, <1>11, <1>12, <1>13, CountsMove DEF DecisionIInv

LEMMA DecisionNextStep == DecisionIInv /\ [DecisionNext]_decisionVars => DecisionIInv'
<1> SUFFICES ASSUME DecisionIInv, [DecisionNext]_decisionVars PROVE DecisionIInv'
  OBVIOUS
<1>1. CASE DecisionNext
  BY <1>1, MembersStep, VotersStep, ModeratorsStep, CountStep, SettleStep DEF DecisionNext
<1>2. CASE UNCHANGED decisionVars
  <2>1. UNCHANGED <<decision, closed, votes, casting, ruling, crossed, counts, stumbles>>
    BY <1>2 DEF decisionVars
  <2>2. \A d \in Proposals : Verdict(d)' = Verdict(d)
    BY <2>1, VerdictStays
  <2>3. \A i \in Instances : CountFits(counts[i])'
    BY <2>1, CountsStay
  <2> QED
    BY <2>1, <2>2, <2>3 DEF DecisionIInv, DecisionTypeOK, OutcomeFits
<1> QED
  BY <1>1, <1>2

LEMMA DecisionInvariance == DecisionSpec => []DecisionIInv
BY DecisionInitOK, DecisionNextStep, PTL DEF DecisionSpec

\* However the sweeps of several instances, late votes and moderators meet: a
\* ruling is never overwritten, and an outcome without one is what the votes on
\* record give.
THEOREM OutcomesFit == DecisionSpec => []OutcomeFits
<1>1. DecisionIInv => OutcomeFits
  BY DEF DecisionIInv
<1> QED
  BY <1>1, DecisionInvariance, PTL

--------------------------------------------------------------------------------
(* Interactions.                                                           *)

Busy(c) == callbacks[c].pc \in {"write", "revert"}

\* Only an answered interaction can have an answer that was kept, and only a
\* timed out one a notice.
AnswersCounted ==
    \A x \in Tokens :
        /\ answered[x] <= spoilt[x] + 1
        /\ interaction[x].status # "RESPONDED" => answered[x] = spoilt[x]
        /\ told[x] <= 1
        /\ interaction[x].status # "TIMED_OUT" => told[x] = 0

\* A callback past its claim holds the interaction alone, and has not answered yet.
AnswersClaimed ==
    \A c \in Callbacks : \A x \in callbacks[c].token :
        /\ \A y \in callbacks[c].token : x = y
        /\ Busy(c) => /\ interaction[x].status = "RESPONDED"
                      /\ answered[x] = spoilt[x]
                      /\ \A d \in Callbacks : Busy(d) /\ x \in callbacks[d].token => c = d

\* A sweep past its claim alone owes the notice.
NoticesOwed ==
    \A i \in Instances : \A x \in timers[i].token :
        timers[i].pc = "tell" =>
            /\ interaction[x].status = "TIMED_OUT"
            /\ told[x] = 0
            /\ \A y \in timers[i].token : x = y
            /\ \A k \in Instances : timers[k].pc = "tell" /\ x \in timers[k].token => i = k

InteractionIInv == TypeOK /\ AnswersCounted /\ AnswersClaimed /\ NoticesOwed

LEMMA InteractionInitOK == Init => InteractionIInv
<1> SUFFICES ASSUME Init PROVE InteractionIInv
  OBVIOUS
<1>1. TypeOK
  BY InteractionAssumption DEF Init, TypeOK, InteractionAssumption, Interaction, Statuses, Callback, Timer,
         IdleCallback, IdleTimer
<1>2. AnswersCounted /\ AnswersClaimed /\ NoticesOwed
  BY DEF Init, AnswersCounted, AnswersClaimed, NoticesOwed, IdleCallback, IdleTimer
<1> QED
  BY <1>1, <1>2 DEF InteractionIInv

--------------------------------------------------------------------------------
(* Steps of the bot and of the clock.                                       *)

LEMMA RowSteps ==
    ASSUME InteractionIInv, NEW x \in Tokens, Invoke(x) \/ Late(x)
    PROVE  InteractionIInv'
<1>1. PICK r \in Interaction :
        /\ interaction' = [interaction EXCEPT ![x] = r]
        /\ r.status = interaction[x].status
             \/ (interaction[x].status = "ABSENT" /\ r.status = "PENDING")
  <2>1. CASE Invoke(x)
    <3>1. [interaction[x] EXCEPT !.status = "PENDING"] \in Interaction
      BY DEF InteractionIInv, TypeOK, Interaction, Statuses
    <3> QED
      BY <2>1, <3>1 DEF Invoke, InteractionIInv, TypeOK, Interaction
  <2>2. CASE Late(x)
    <3>1. [interaction[x] EXCEPT !.late = TRUE] \in Interaction
      BY DEF InteractionIInv, TypeOK, Interaction
    <3> QED
      BY <2>2, <3>1 DEF Late, InteractionIInv, TypeOK, Interaction
  <2> QED
    BY <2>1, <2>2
<1>2. UNCHANGED <<answered, spoilt, told, callbacks, timers, errors>>
  BY DEF Invoke, Late
<1>3. \A y \in Tokens : interaction'[y] = IF y = x THEN r ELSE interaction[y]
  BY <1>1 DEF InteractionIInv, TypeOK
<1>4. TypeOK'
  BY <1>1, <1>2 DEF InteractionIInv, TypeOK
<1>t. \A c \in Callbacks : callbacks[c].token \subseteq Tokens
  BY DEF InteractionIInv, TypeOK, Callback
<1>u. \A i \in Instances : timers[i].token \subseteq Tokens
  BY DEF InteractionIInv, TypeOK, Timer
<1>5. AnswersCounted'
  BY <1>1, <1>2, <1>3 DEF InteractionIInv, AnswersCounted
<1>6. AnswersClaimed'
  BY <1>1, <1>2, <1>3, <1>t DEF InteractionIInv, AnswersClaimed, Busy
<1>7. NoticesOwed'
  BY <1>1, <1>2, <1>3, <1>u DEF InteractionIInv, NoticesOwed
<1> QED
  BY <1>4, <1>5, <1>6, <1>7 DEF InteractionIInv

\* What a step of callback c leaves of the other callbacks.
LEMMA OtherAnswers ==
    ASSUME TypeOK, NEW c \in Callbacks, NEW r \in Callback, callbacks' = [callbacks EXCEPT ![c] = r]
    PROVE  /\ callbacks' \in [Callbacks -> Callback]
           /\ \A d \in Callbacks : callbacks'[d] = IF d = c THEN r ELSE callbacks[d]
BY DEF TypeOK

LEMMA CallbackTypes ==
    ASSUME TypeOK, NEW c \in Callbacks
    PROVE  /\ callbacks[c].token \subseteq Tokens
           /\ IdleCallback \in Callback
           /\ [callbacks[c] EXCEPT !.pc = "write"] \in Callback
           /\ [callbacks[c] EXCEPT !.pc = "revert"] \in Callback
BY DEF TypeOK, Callback, IdleCallback

\* A callback that starts, or that ends with nothing done.
LEMMA QuietCallback ==
    ASSUME InteractionIInv, NEW c \in Callbacks, NEW r \in Callback, callbacks' = [callbacks EXCEPT ![c] = r],
           r.pc \in {"idle", "claim"}, \A x, y \in r.token : x = y,
           UNCHANGED <<interaction, answered, spoilt, told, timers>>, errors' \in 0 .. InteractionFaults
    PROVE  InteractionIInv'
<1>1. /\ callbacks' \in [Callbacks -> Callback]
      /\ \A d \in Callbacks : callbacks'[d] = IF d = c THEN r ELSE callbacks[d]
  BY OtherAnswers DEF InteractionIInv
<1>2. TypeOK' /\ AnswersCounted' /\ NoticesOwed'
  BY <1>1 DEF InteractionIInv, TypeOK, AnswersCounted, NoticesOwed
<1>3. AnswersClaimed'
  BY <1>1 DEF InteractionIInv, AnswersClaimed, Busy
<1> QED
  BY <1>2, <1>3 DEF InteractionIInv

\* The claim: the interaction was pending, so nobody holds it and nobody was told.
LEMMA ClaimAnswerStep ==
    ASSUME InteractionIInv, NEW c \in Callbacks, ClaimCallback(c)
    PROVE  InteractionIInv'
<1>t. callbacks[c].token \subseteq Tokens /\ IdleCallback \in Callback
      /\ [callbacks[c] EXCEPT !.pc = "write"] \in Callback
  BY CallbackTypes DEF InteractionIInv
<1>1. PICK x \in callbacks[c].token :
        IF interaction[x].status = "PENDING"
        THEN /\ interaction' = [interaction EXCEPT ![x].status = "RESPONDED"]
             /\ callbacks' = [callbacks EXCEPT ![c].pc = "write"]
        ELSE /\ callbacks' = [callbacks EXCEPT ![c] = IdleCallback]
             /\ UNCHANGED interaction
  BY DEF ClaimCallback
<1>2. UNCHANGED <<answered, spoilt, told, timers, errors>>
  BY DEF ClaimCallback
<1>3. CASE interaction[x].status # "PENDING"
  <2>1. errors' \in 0 .. InteractionFaults
    BY <1>2 DEF InteractionIInv, TypeOK
  <2> QED
    BY <1>t, <1>1, <1>2, <1>3, <2>1, QuietCallback DEF IdleCallback
<1>4. CASE interaction[x].status = "PENDING"
  <2> DEFINE r == [callbacks[c] EXCEPT !.pc = "write"]
             row == [interaction[x] EXCEPT !.status = "RESPONDED"]
  <2>1. x \in Tokens /\ row \in Interaction /\ row.status = "RESPONDED"
    BY <1>t DEF InteractionIInv, TypeOK, Interaction, Statuses
  <2>2. \A y \in Tokens : interaction'[y] = IF y = x THEN row ELSE interaction[y]
    BY <1>1, <1>4, <2>1 DEF InteractionIInv, TypeOK
  <2>3. interaction' \in [Tokens -> Interaction]
    BY <1>1, <1>4, <2>1 DEF InteractionIInv, TypeOK
  <2>4. /\ callbacks' \in [Callbacks -> Callback]
        /\ \A d \in Callbacks : callbacks'[d] = IF d = c THEN r ELSE callbacks[d]
    BY <1>1, <1>4, <1>t, OtherAnswers DEF InteractionIInv
  <2>5. r.pc = "write" /\ r.token = callbacks[c].token
    BY DEF InteractionIInv, TypeOK, Callback
  <2>6. TypeOK'
    BY <1>2, <2>3, <2>4 DEF InteractionIInv, TypeOK
  <2>7. AnswersCounted'
    BY <1>2, <1>4, <2>1, <2>2 DEF InteractionIInv, AnswersCounted
  <2>8. \A d \in Callbacks : Busy(d) => x \notin callbacks[d].token
    BY <1>4 DEF InteractionIInv, AnswersClaimed
  <2>9. answered[x] = spoilt[x]
    BY <1>4, <2>1 DEF InteractionIInv, AnswersCounted
  <2>10. AnswersClaimed'
    <3> SUFFICES ASSUME NEW d \in Callbacks, NEW z \in callbacks'[d].token
                 PROVE  /\ \A y \in callbacks'[d].token : z = y
                        /\ Busy(d)' => /\ interaction'[z].status = "RESPONDED"
                                       /\ answered'[z] = spoilt'[z]
                                       /\ \A e \in Callbacks : Busy(e)' /\ z \in callbacks'[e].token => d = e
      BY DEF AnswersClaimed
    <3>1. callbacks'[d].token = callbacks[d].token /\ z \in Tokens
      BY <2>4, <2>5, <1>t, CallbackTypes DEF InteractionIInv
    <3>2. \A y \in callbacks'[d].token : z = y
      BY <3>1 DEF InteractionIInv, AnswersClaimed
    <3>3. ASSUME Busy(d)' PROVE interaction'[z].status = "RESPONDED" /\ answered'[z] = spoilt'[z]
      <4>1. CASE d = c
        <5>1. z = x
          BY <4>1, <3>1 DEF InteractionIInv, AnswersClaimed
        <5> QED
          BY <5>1, <2>1, <2>2, <2>9, <1>2
      <4>2. CASE d # c
        <5>1. Busy(d)
          BY <3>3, <4>2, <2>4 DEF Busy
        <5> QED
          BY <5>1, <3>1, <2>1, <2>2, <1>2 DEF InteractionIInv, AnswersClaimed
      <4> QED
        BY <4>1, <4>2
    <3>4. ASSUME Busy(d)', NEW e \in Callbacks, Busy(e)', z \in callbacks'[e].token PROVE d = e
      <4>1. ASSUME NEW f \in Callbacks, f # c, Busy(f)' PROVE Busy(f) /\ x \notin callbacks'[f].token
        BY <4>1, <2>4, <2>8 DEF Busy
      <4>2. z = x \/ (d # c /\ e # c)
        <5>1. z \in callbacks[c].token => z = x
          BY DEF InteractionIInv, AnswersClaimed
        <5> QED
          BY <5>1, <3>1, <3>4, <2>4, <2>5
      <4>3. CASE z = x
        BY <4>1, <4>3, <3>4
      <4>4. CASE d # c /\ e # c
        BY <4>1, <4>4, <3>1, <3>4, <2>4 DEF InteractionIInv, AnswersClaimed
      <4> QED
        BY <4>2, <4>3, <4>4
    <3> QED
      BY <3>2, <3>3, <3>4
  <2>11. NoticesOwed'
    <3>1. \A i \in Instances : timers[i].token \subseteq Tokens
      BY DEF InteractionIInv, TypeOK, Timer
    <3> QED
      BY <1>2, <1>4, <2>1, <2>2, <3>1 DEF InteractionIInv, NoticesOwed
  <2> QED
    BY <2>6, <2>7, <2>10, <2>11 DEF InteractionIInv
<1> QED
  BY <1>3, <1>4

\* A callback that holds its interaction: it alone can answer, and its notice is
\* not owed.
LEMMA Holder ==
    ASSUME InteractionIInv, NEW c \in Callbacks, Busy(c), NEW x \in callbacks[c].token
    PROVE  /\ x \in Tokens
           /\ callbacks[c].token = {x}
           /\ interaction[x].status = "RESPONDED"
           /\ answered[x] = spoilt[x] /\ told[x] = 0
           /\ \A d \in Callbacks : Busy(d) /\ x \in callbacks[d].token => c = d
           /\ \A i \in Instances : timers[i].pc = "tell" => x \notin timers[i].token
<1>1. x \in Tokens
  BY CallbackTypes DEF InteractionIInv
<1>2. interaction[x].status = "RESPONDED"
  BY DEF InteractionIInv, AnswersClaimed
<1> QED
  BY <1>1, <1>2 DEF InteractionIInv, AnswersClaimed, AnswersCounted, NoticesOwed

\* The answer, or the revert, of the one that holds it.
LEMMA AnswerStep ==
    ASSUME InteractionIInv, NEW c \in Callbacks, Answer(c) \/ AnswerThrows(c)
    PROVE  InteractionIInv'
<1>1. callbacks[c].pc = "write" /\ Busy(c)
  BY InteractionAssumption DEF Answer, AnswerThrows, Busy
<1>2. PICK x \in callbacks[c].token :
        /\ answered' = [answered EXCEPT ![x] = @ + 1]
        /\ \/ spoilt' = [spoilt EXCEPT ![x] = @ + 1] /\ callbacks' = [callbacks EXCEPT ![c].pc = "revert"]
           \/ UNCHANGED spoilt /\ callbacks' = [callbacks EXCEPT ![c] = IdleCallback]
  BY InteractionAssumption DEF Answer, AnswerThrows
<1>3. UNCHANGED <<interaction, told, timers>> /\ errors' \in 0 .. InteractionFaults
  BY InteractionAssumption DEF Answer, AnswerThrows, InteractionIInv, TypeOK, InteractionAssumption
<1>4. /\ x \in Tokens /\ callbacks[c].token = {x}
      /\ interaction[x].status = "RESPONDED" /\ answered[x] = spoilt[x]
      /\ \A d \in Callbacks : Busy(d) /\ x \in callbacks[d].token => c = d
  BY <1>1, Holder
<1>5. PICK r \in Callback :
        /\ callbacks' = [callbacks EXCEPT ![c] = r]
        /\ \/ r.pc = "revert" /\ r.token = {x} /\ spoilt' = [spoilt EXCEPT ![x] = @ + 1]
           \/ r = IdleCallback /\ UNCHANGED spoilt
  <2>1. [callbacks[c] EXCEPT !.pc = "revert"] \in Callback /\ IdleCallback \in Callback
    BY CallbackTypes DEF InteractionIInv
  <2>2. [callbacks[c] EXCEPT !.pc = "revert"].pc = "revert"
        /\ [callbacks[c] EXCEPT !.pc = "revert"].token = {x}
    BY <1>4 DEF InteractionIInv, TypeOK, Callback
  <2>3. [callbacks EXCEPT ![c].pc = "revert"] = [callbacks EXCEPT ![c] = [callbacks[c] EXCEPT !.pc = "revert"]]
    BY DEF InteractionIInv, TypeOK
  <2> QED
    BY <1>2, <2>1, <2>2, <2>3
<1>6. /\ callbacks' \in [Callbacks -> Callback]
      /\ \A d \in Callbacks : callbacks'[d] = IF d = c THEN r ELSE callbacks[d]
  BY <1>5, OtherAnswers DEF InteractionIInv
<1>7. /\ answered' \in [Tokens -> Nat] /\ spoilt' \in [Tokens -> Nat]
      /\ answered'[x] = answered[x] + 1
      /\ \A y \in Tokens : y # x => answered'[y] = answered[y] /\ spoilt'[y] = spoilt[y]
      /\ spoilt'[x] = IF r.pc = "revert" THEN spoilt[x] + 1 ELSE spoilt[x]
  BY <1>2, <1>4, <1>5 DEF InteractionIInv, TypeOK, IdleCallback
<1>8. TypeOK' /\ NoticesOwed'
  BY <1>3, <1>6, <1>7 DEF InteractionIInv, TypeOK, NoticesOwed
<1>9. AnswersCounted'
  BY <1>3, <1>4, <1>5, <1>7 DEF InteractionIInv, TypeOK, AnswersCounted
<1>10. AnswersClaimed'
  <2>1. ASSUME NEW d \in Callbacks, d # c, Busy(d) PROVE x \notin callbacks[d].token
    BY <2>1, <1>4
  <2>2. \A d \in Callbacks : callbacks[d].token \subseteq Tokens
    BY CallbackTypes DEF InteractionIInv
  <2>3. ASSUME NEW d \in Callbacks, d # c, NEW z \in callbacks'[d].token
        PROVE  /\ \A y \in callbacks'[d].token : z = y
               /\ Busy(d)' => /\ interaction'[z].status = "RESPONDED"
                              /\ answered'[z] = spoilt'[z]
                              /\ \A e \in Callbacks : Busy(e)' /\ z \in callbacks'[e].token => d = e
    <3>1. z \in callbacks[d].token /\ callbacks'[d] = callbacks[d] /\ z \in Tokens
      BY <2>2, <2>3, <1>6
    <3>2. ASSUME Busy(d)' PROVE Busy(d) /\ z # x
      BY <3>1, <3>2, <2>1, <2>3 DEF Busy
    <3>3. ASSUME Busy(d)', NEW e \in Callbacks, Busy(e)', z \in callbacks'[e].token PROVE d = e
      <4>1. e # c
        BY <3>2, <3>3, <1>5, <1>6 DEF IdleCallback
      <4> QED
        BY <4>1, <3>1, <3>2, <3>3, <1>6 DEF InteractionIInv, AnswersClaimed, Busy
    <3> QED
      BY <3>1, <3>2, <3>3, <1>3, <1>7 DEF InteractionIInv, AnswersClaimed
  <2>4. ASSUME NEW z \in callbacks'[c].token
        PROVE  /\ \A y \in callbacks'[c].token : z = y
               /\ Busy(c)' => /\ interaction'[z].status = "RESPONDED"
                              /\ answered'[z] = spoilt'[z]
                              /\ \A e \in Callbacks : Busy(e)' /\ z \in callbacks'[e].token => c = e
    <3>1. r.pc = "revert" /\ r.token = {x} /\ z = x
      BY <2>4, <1>5, <1>6 DEF IdleCallback
    <3>2. ASSUME NEW e \in Callbacks, Busy(e)', x \in callbacks'[e].token PROVE c = e
      BY <3>2, <2>1, <1>6 DEF Busy
    <3> QED
      BY <3>1, <3>2, <1>3, <1>4, <1>6, <1>7
  <2> QED
    BY <2>3, <2>4 DEF AnswersClaimed
<1> QED
  BY <1>8, <1>9, <1>10 DEF InteractionIInv

\* The end of a callback: it drops its interaction, and a revert sets it back.
LEMMA DropStep ==
    ASSUME InteractionIInv, NEW c \in Callbacks, Busy(c), NEW x \in callbacks[c].token,
           callbacks' = [callbacks EXCEPT ![c] = IdleCallback],
           interaction' = [interaction EXCEPT ![x].status = "PENDING"],
           UNCHANGED <<answered, spoilt, told, timers, errors>>
    PROVE  InteractionIInv'
<1> DEFINE row == [interaction[x] EXCEPT !.status = "PENDING"]
<1>1. /\ x \in Tokens /\ callbacks[c].token = {x}
      /\ answered[x] = spoilt[x] /\ told[x] = 0
      /\ \A d \in Callbacks : Busy(d) /\ x \in callbacks[d].token => c = d
      /\ \A i \in Instances : timers[i].pc = "tell" => x \notin timers[i].token
  BY Holder
<1>2. IdleCallback \in Callback /\ \A d \in Callbacks : callbacks[d].token \subseteq Tokens
  BY CallbackTypes DEF InteractionIInv
<1>3. /\ callbacks' \in [Callbacks -> Callback]
      /\ \A d \in Callbacks : callbacks'[d] = IF d = c THEN IdleCallback ELSE callbacks[d]
  BY <1>2, OtherAnswers DEF InteractionIInv
<1>4. row \in Interaction /\ row.status = "PENDING"
  BY <1>1 DEF InteractionIInv, TypeOK, Interaction, Statuses
<1>5. /\ interaction' \in [Tokens -> Interaction]
      /\ \A y \in Tokens : interaction'[y] = IF y = x THEN row ELSE interaction[y]
  BY <1>1, <1>4 DEF InteractionIInv, TypeOK
<1>6. TypeOK'
  BY <1>3, <1>5 DEF InteractionIInv, TypeOK
<1>7. AnswersCounted'
  BY <1>1, <1>4, <1>5 DEF InteractionIInv, AnswersCounted
<1>8. AnswersClaimed'
  <2> SUFFICES ASSUME NEW d \in Callbacks, NEW z \in callbacks'[d].token
               PROVE  /\ \A y \in callbacks'[d].token : z = y
                      /\ Busy(d)' => /\ interaction'[z].status = "RESPONDED"
                                     /\ answered'[z] = spoilt'[z]
                                     /\ \A e \in Callbacks : Busy(e)' /\ z \in callbacks'[e].token => d = e
    BY DEF AnswersClaimed
  <2>1. d # c /\ callbacks'[d] = callbacks[d] /\ z \in Tokens
    BY <1>2, <1>3 DEF IdleCallback
  <2>2. ASSUME Busy(d)' PROVE Busy(d) /\ z # x
    BY <2>1, <2>2, <1>1 DEF Busy
  <2>3. ASSUME Busy(d)', NEW e \in Callbacks, Busy(e)', z \in callbacks'[e].token PROVE d = e
    BY <2>1, <2>2, <2>3, <1>3 DEF InteractionIInv, AnswersClaimed, Busy, IdleCallback
  <2>4. ASSUME Busy(d)' PROVE interaction'[z].status = "RESPONDED" /\ answered'[z] = spoilt'[z]
    BY <2>1, <2>2, <2>4, <1>5 DEF InteractionIInv, AnswersClaimed
  <2> QED
    BY <2>1, <2>3, <2>4 DEF InteractionIInv, AnswersClaimed
<1>9. NoticesOwed'
  <2>1. \A i \in Instances : timers[i].token \subseteq Tokens
    BY DEF InteractionIInv, TypeOK, Timer
  <2> QED
    BY <1>1, <1>5, <2>1 DEF InteractionIInv, NoticesOwed
<1> QED
  BY <1>6, <1>7, <1>8, <1>9 DEF InteractionIInv

LEMMA RevertStep ==
    ASSUME InteractionIInv, NEW c \in Callbacks, Revert(c)
    PROVE  InteractionIInv'
<1>1. Busy(c)
  BY DEF Revert, Busy
<1>2. PICK x \in callbacks[c].token :
        interaction' = IF interaction[x].status = "RESPONDED"
                       THEN [interaction EXCEPT ![x].status = "PENDING"] ELSE interaction
  BY DEF Revert
<1>3. interaction[x].status = "RESPONDED"
  BY <1>1, Holder
<1> QED
  BY <1>1, <1>2, <1>3, DropStep DEF Revert

\* A refused write, and a callback that is lost, change no row.
LEMMA LeaveStep ==
    ASSUME InteractionIInv, NEW c \in Callbacks, Refuse(c) \/ LoseCallback(c)
    PROVE  InteractionIInv'
<1>1. CASE LoseCallback(c)
  <2>1. IdleCallback \in Callback
    BY CallbackTypes DEF InteractionIInv
  <2>2. errors' \in 0 .. InteractionFaults
    BY <1>1, InteractionAssumption DEF LoseCallback, InteractionIInv, TypeOK, InteractionAssumption
  <2> QED
    BY <1>1, <2>1, <2>2, QuietCallback DEF LoseCallback, IdleCallback
<1>2. CASE Refuse(c)
  <2> DEFINE r == [callbacks[c] EXCEPT !.pc = "revert"]
  <2>1. r \in Callback /\ r.pc = "revert" /\ r.token = callbacks[c].token
    BY CallbackTypes DEF InteractionIInv, TypeOK, Callback
  <2>2. callbacks' = [callbacks EXCEPT ![c] = r]
    BY <1>2 DEF Refuse, InteractionIInv, TypeOK
  <2>3. /\ callbacks' \in [Callbacks -> Callback]
        /\ \A d \in Callbacks : callbacks'[d] = IF d = c THEN r ELSE callbacks[d]
    BY <2>1, <2>2, OtherAnswers DEF InteractionIInv
  <2>4. \A d \in Callbacks : (Busy(d)' <=> Busy(d)) /\ callbacks'[d].token = callbacks[d].token
    BY <1>2, <2>1, <2>3 DEF Busy, Refuse
  <2>5. TypeOK' /\ AnswersCounted' /\ NoticesOwed'
    BY <1>2, <2>3 DEF Refuse, InteractionIInv, TypeOK, AnswersCounted, NoticesOwed
  <2>6. AnswersClaimed'
    BY <1>2, <2>4 DEF Refuse, InteractionIInv, AnswersClaimed
  <2> QED
    BY <2>5, <2>6 DEF InteractionIInv
<1> QED
  BY <1>1, <1>2

--------------------------------------------------------------------------------
(* Steps of the sweep.                                                      *)

LEMMA TimerTypes ==
    ASSUME TypeOK, NEW i \in Instances, NEW due \in SUBSET Tokens
    PROVE  NextDue(due) \in Timer /\ NextDue(due).token = {} /\ NextDue(due).pc # "tell"
BY DEF NextDue, Timer, IdleTimer

\* A tick that has nothing to tell.
LEMMA QuietTimer ==
    ASSUME InteractionIInv, NEW i \in Instances, NEW r \in Timer, timers' = [timers EXCEPT ![i] = r], r.pc # "tell",
           UNCHANGED <<interaction, answered, spoilt, told, callbacks>>, errors' \in 0 .. InteractionFaults
    PROVE  InteractionIInv'
<1>1. timers' \in [Instances -> Timer] /\ \A k \in Instances : timers'[k] = IF k = i THEN r ELSE timers[k]
  BY DEF InteractionIInv, TypeOK
<1>2. TypeOK' /\ AnswersCounted'
  BY <1>1 DEF InteractionIInv, TypeOK, AnswersCounted
<1>3. AnswersClaimed'
  BY DEF InteractionIInv, AnswersClaimed, Busy
<1>4. NoticesOwed'
  BY <1>1 DEF InteractionIInv, NoticesOwed
<1> QED
  BY <1>2, <1>3, <1>4 DEF InteractionIInv

LEMMA TimeOutStep ==
    ASSUME InteractionIInv, NEW i \in Instances, TimeOut(i)
    PROVE  InteractionIInv'
<1>1. PICK x \in timers[i].due :
        IF interaction[x].status = "PENDING"
        THEN /\ interaction' = [interaction EXCEPT ![x].status = "TIMED_OUT"]
             /\ timers' = [timers EXCEPT ![i] = [pc |-> "tell", due |-> @.due \ {x}, token |-> {x}]]
        ELSE /\ timers' = [timers EXCEPT ![i] = NextDue(timers[i].due \ {x})]
             /\ UNCHANGED interaction
  BY DEF TimeOut
<1>2. UNCHANGED <<answered, spoilt, told, callbacks, errors>>
  BY DEF TimeOut
<1>3. timers[i].due \subseteq Tokens
  BY DEF InteractionIInv, TypeOK, Timer
<1>4. CASE interaction[x].status # "PENDING"
  <2> DEFINE r == NextDue(timers[i].due \ {x})
  <2>1. r \in Timer /\ r.pc # "tell"
    BY <1>3, TimerTypes DEF InteractionIInv
  <2>2. errors' \in 0 .. InteractionFaults
    BY <1>2 DEF InteractionIInv, TypeOK
  <2>3. timers' = [timers EXCEPT ![i] = r]
    BY <1>1, <1>4
  <2> HIDE DEF r
  <2> QED
    BY <1>1, <1>2, <1>4, <2>1, <2>2, <2>3, QuietTimer
<1>5. CASE interaction[x].status = "PENDING"
  <2> DEFINE r == [pc |-> "tell", due |-> timers[i].due \ {x}, token |-> {x}]
             row == [interaction[x] EXCEPT !.status = "TIMED_OUT"]
  <2>1. /\ x \in Tokens /\ answered[x] = spoilt[x] /\ told[x] = 0
        /\ \A c \in Callbacks : Busy(c) => x \notin callbacks[c].token
        /\ \A k \in Instances : timers[k].pc = "tell" => x \notin timers[k].token
    BY <1>3, <1>5 DEF InteractionIInv, AnswersCounted, AnswersClaimed, NoticesOwed
  <2>2. row \in Interaction /\ row.status = "TIMED_OUT"
    BY <2>1 DEF InteractionIInv, TypeOK, Interaction, Statuses
  <2>3. r \in Timer
    BY <1>3 DEF Timer
  <2>4. /\ interaction' \in [Tokens -> Interaction]
        /\ \A y \in Tokens : interaction'[y] = IF y = x THEN row ELSE interaction[y]
    BY <1>1, <1>5, <2>1, <2>2 DEF InteractionIInv, TypeOK
  <2>5. timers' = [timers EXCEPT ![i] = r]
    BY <1>1, <1>5 DEF InteractionIInv, TypeOK
  <2>6. /\ timers' \in [Instances -> Timer]
        /\ \A k \in Instances : timers'[k] = IF k = i THEN r ELSE timers[k]
    BY <2>3, <2>5 DEF InteractionIInv, TypeOK
  <2>7. TypeOK'
    BY <1>2, <2>4, <2>6 DEF InteractionIInv, TypeOK
  <2>8. AnswersCounted'
    BY <1>2, <2>1, <2>2, <2>4 DEF InteractionIInv, AnswersCounted
  <2>9. AnswersClaimed'
    <3>1. \A c \in Callbacks : callbacks[c].token \subseteq Tokens
      BY CallbackTypes DEF InteractionIInv
    <3> QED
      BY <1>2, <2>1, <2>4, <3>1 DEF InteractionIInv, AnswersClaimed, Busy
  <2>10. NoticesOwed'
    <3>1. \A k \in Instances : timers[k].token \subseteq Tokens
      BY DEF InteractionIInv, TypeOK, Timer
    <3>2. ASSUME NEW k \in Instances, k # i, timers'[k].pc = "tell", NEW z \in timers'[k].token
          PROVE  z \in timers[k].token /\ timers[k].pc = "tell" /\ z # x /\ z \in Tokens
      BY <3>1, <3>2, <2>1, <2>6
    <3>3. ASSUME NEW k \in Instances, k # i, timers'[k].pc = "tell", NEW z \in timers'[k].token
          PROVE  /\ interaction'[z].status = "TIMED_OUT" /\ told'[z] = 0
                 /\ \A y \in timers'[k].token : z = y
                 /\ \A n \in Instances : timers'[n].pc = "tell" /\ z \in timers'[n].token => k = n
      BY <3>2, <3>3, <1>2, <2>4, <2>6 DEF InteractionIInv, NoticesOwed
    <3>4. ASSUME NEW z \in timers'[i].token
          PROVE  /\ interaction'[z].status = "TIMED_OUT" /\ told'[z] = 0
                 /\ \A y \in timers'[i].token : z = y
                 /\ \A n \in Instances : timers'[n].pc = "tell" /\ z \in timers'[n].token => i = n
      <4>1. timers'[i].token = {x} /\ z = x
        BY <3>4, <2>6
      <4>2. ASSUME NEW n \in Instances, n # i, timers'[n].pc = "tell" PROVE x \notin timers'[n].token
        BY <4>2, <2>1, <2>6
      <4> QED
        BY <4>1, <4>2, <1>2, <2>1, <2>2, <2>4
    <3> QED
      BY <3>3, <3>4 DEF NoticesOwed
  <2> QED
    BY <2>7, <2>8, <2>9, <2>10 DEF InteractionIInv
<1> QED
  BY <1>4, <1>5

LEMMA TellStep ==
    ASSUME InteractionIInv, NEW i \in Instances, TellTimeout(i)
    PROVE  InteractionIInv'
<1> DEFINE r == NextDue(timers[i].due)
<1>1. PICK x \in timers[i].token : told' = [told EXCEPT ![x] = @ + 1]
  BY DEF TellTimeout
<1>2. /\ timers[i].pc = "tell" /\ timers' = [timers EXCEPT ![i] = r]
      /\ UNCHANGED <<interaction, answered, spoilt, callbacks, errors>>
  BY DEF TellTimeout
<1>3. timers[i].due \subseteq Tokens /\ \A k \in Instances : timers[k].token \subseteq Tokens
  BY DEF InteractionIInv, TypeOK, Timer
<1>4. r \in Timer /\ r.pc # "tell"
  BY <1>3, TimerTypes DEF InteractionIInv
<1> HIDE DEF r
<1>5. /\ timers' \in [Instances -> Timer]
      /\ \A k \in Instances : timers'[k] = IF k = i THEN r ELSE timers[k]
  BY <1>2, <1>4 DEF InteractionIInv, TypeOK
<1>6. /\ x \in Tokens /\ interaction[x].status = "TIMED_OUT" /\ told[x] = 0
      /\ \A k \in Instances : timers[k].pc = "tell" /\ x \in timers[k].token => i = k
  BY <1>2, <1>3 DEF InteractionIInv, NoticesOwed
<1>7. /\ told' \in [Tokens -> Nat] /\ told'[x] = 1
      /\ \A y \in Tokens : y # x => told'[y] = told[y]
  BY <1>1, <1>6 DEF InteractionIInv, TypeOK
<1>8. TypeOK'
  BY <1>2, <1>5, <1>7 DEF InteractionIInv, TypeOK
<1>9. AnswersCounted'
  BY <1>2, <1>6, <1>7 DEF InteractionIInv, AnswersCounted
<1>10. AnswersClaimed'
  BY <1>2 DEF InteractionIInv, AnswersClaimed, Busy
<1>11. NoticesOwed'
  <2>1. ASSUME NEW k \in Instances, timers'[k].pc = "tell", NEW z \in timers'[k].token
        PROVE  k # i /\ timers'[k] = timers[k] /\ z \in Tokens /\ z # x
    BY <2>1, <1>3, <1>4, <1>5, <1>6
  <2> QED
    BY <2>1, <1>2, <1>4, <1>5, <1>7 DEF InteractionIInv, NoticesOwed
<1> QED
  BY <1>8, <1>9, <1>10, <1>11 DEF InteractionIInv

LEMMA InteractionNextStep == InteractionIInv /\ [Next]_vars => InteractionIInv'
<1> SUFFICES ASSUME InteractionIInv, [Next]_vars PROVE InteractionIInv'
  OBVIOUS
<1>1. ASSUME NEW x \in Tokens, Invoke(x) \/ Late(x) PROVE InteractionIInv'
  BY <1>1, RowSteps
<1>2. ASSUME NEW c \in Callbacks, NEW x \in Tokens, StartCallback(c, x) PROVE InteractionIInv'
  <2> DEFINE r == [pc |-> "claim", token |-> {x}]
  <2>1. r \in Callback /\ errors' \in 0 .. InteractionFaults
    BY <1>2 DEF StartCallback, Callback, InteractionIInv, TypeOK
  <2> QED
    BY <1>2, <2>1, QuietCallback DEF StartCallback
<1>3. ASSUME NEW c \in Callbacks, ClaimCallback(c) PROVE InteractionIInv'
  BY <1>3, ClaimAnswerStep
<1>4. ASSUME NEW c \in Callbacks, Answer(c) \/ AnswerThrows(c) PROVE InteractionIInv'
  BY <1>4, AnswerStep
<1>5. ASSUME NEW c \in Callbacks, Refuse(c) \/ LoseCallback(c) PROVE InteractionIInv'
  BY <1>5, LeaveStep
<1>6. ASSUME NEW c \in Callbacks, Revert(c) PROVE InteractionIInv'
  BY <1>6, RevertStep
<1>7. ASSUME NEW i \in Instances, FindDue(i) PROVE InteractionIInv'
  <2>1. PICK due \in SUBSET Tokens : timers' = [timers EXCEPT ![i] = NextDue(due)]
    BY <1>7 DEF FindDue
  <2>2. errors' \in 0 .. InteractionFaults
    BY <1>7 DEF FindDue, InteractionIInv, TypeOK
  <2>3. NextDue(due) \in Timer /\ NextDue(due).pc # "tell"
    BY TimerTypes DEF InteractionIInv
  <2> QED
    BY <1>7, <2>1, <2>2, <2>3, QuietTimer DEF FindDue
<1>8. ASSUME NEW i \in Instances, AbortTimer(i) PROVE InteractionIInv'
  <2>1. IdleTimer \in Timer /\ IdleTimer.pc # "tell"
    BY DEF IdleTimer, Timer
  <2>2. errors' \in 0 .. InteractionFaults
    BY <1>8, InteractionAssumption DEF AbortTimer, InteractionIInv, TypeOK, InteractionAssumption
  <2> QED
    BY <1>8, <2>1, <2>2, QuietTimer DEF AbortTimer
<1>9. ASSUME NEW i \in Instances, TimeOut(i) PROVE InteractionIInv'
  BY <1>9, TimeOutStep
<1>10. ASSUME NEW i \in Instances, TellTimeout(i) PROVE InteractionIInv'
  BY <1>10, TellStep
<1>11. CASE UNCHANGED vars
  BY <1>11 DEF vars, InteractionIInv, TypeOK, AnswersCounted, AnswersClaimed, NoticesOwed, Busy
<1> QED
  BY <1>1, <1>2, <1>3, <1>4, <1>5, <1>6, <1>7, <1>8, <1>9, <1>10, <1>11 DEF Next

LEMMA InteractionInvariance == Spec => []InteractionIInv
<1>1. Init => InteractionIInv
  BY InteractionInitOK
<1> QED
  BY <1>1, InteractionNextStep, PTL DEF Spec

--------------------------------------------------------------------------------
\* However many callbacks of the bot race for an interaction, and whichever of
\* them fail, it is answered once or its invoker is told once of the time-out;
\* only an answer that failed after it was posted is ever followed by another.
THEOREM AnsweredOnce == Spec => []AnsweredOrTimedOut
<1>1. InteractionIInv => AnsweredOrTimedOut
  <2> SUFFICES ASSUME InteractionIInv, NEW x \in Tokens
               PROVE  /\ answered[x] + Cardinality(Writing(x)) <= 1 + spoilt[x]
                      /\ told[x] <= 1
                      /\ told[x] = 1 => /\ interaction[x].status = "TIMED_OUT"
                                        /\ answered[x] = spoilt[x]
                                        /\ Writing(x) = {}
    BY DEF AnsweredOrTimedOut
  <2>1. answered[x] \in Nat /\ spoilt[x] \in Nat
    BY DEF InteractionIInv, TypeOK
  <2>2. CASE Writing(x) = {}
    <3>1. Cardinality(Writing(x)) = 0
      BY <2>2, FS_EmptySet
    <3> QED
      BY <2>1, <2>2, <3>1 DEF InteractionIInv, AnswersCounted
  <2>3. CASE Writing(x) # {}
    <3>1. PICK c \in Callbacks : callbacks[c].pc = "write" /\ x \in callbacks[c].token
      BY <2>3 DEF Writing
    <3>2. /\ interaction[x].status = "RESPONDED" /\ answered[x] = spoilt[x] /\ told[x] = 0
          /\ \A d \in Callbacks : Busy(d) /\ x \in callbacks[d].token => c = d
      BY <3>1, Holder DEF Busy
    <3>3. Writing(x) = {c}
      BY <3>1, <3>2 DEF Writing, Busy
    <3>4. Cardinality({c}) = 1
      BY FS_Singleton
    <3> QED
      BY <2>1, <3>2, <3>3, <3>4
  <2> QED
    BY <2>2, <2>3
<1> QED
  BY <1>1, InteractionInvariance, PTL

--------------------------------------------------------------------------------
(* The services together.                                                  *)

\* A step of the deployment is a step of each service, or leaves it alone.
LEMMA StepsOfOne ==
    ASSUME [SweepsNext]_sweepsVars
    PROVE  /\ [RunNext]_runVars
           /\ [ReminderNext]_reminderVars
           /\ [Next]_vars
           /\ [DecisionNext]_decisionVars
BY DEF SweepsNext, sweepsVars, runVars, reminderVars, vars, decisionVars

\* The services share no table: a behaviour of them all is one of each.
LEMMA EachService == SweepsSpec => RunSpec /\ ReminderSpec /\ Spec /\ DecisionSpec
<1>1. SweepsInit => RunInit /\ ReminderInit /\ Init /\ DecisionInit
  BY DEF SweepsInit
<1>2. [SweepsNext]_sweepsVars => /\ [RunNext]_runVars
                                 /\ [ReminderNext]_reminderVars
                                 /\ [Next]_vars
                                 /\ [DecisionNext]_decisionVars
  BY StepsOfOne
<1> QED
  BY <1>1, <1>2, PTL DEF SweepsSpec, RunSpec, ReminderSpec, Spec, DecisionSpec

\* Every variable of the four services keeps a value of its type.
THEOREM SweepsTypesHold == SweepsSpec => []SweepsTypeOK
<1>1. ReminderIInv => ReminderTypeOK
  BY DEF ReminderIInv
<1>2. InteractionIInv => TypeOK
  BY DEF InteractionIInv
<1>3. DecisionIInv => DecisionTypeOK
  BY DEF DecisionIInv
<1>4. RunTypeOK /\ ReminderTypeOK /\ TypeOK /\ DecisionTypeOK => SweepsTypeOK
  BY DEF SweepsTypeOK
<1> QED
  BY <1>1, <1>2, <1>3, <1>4, EachService, RunTypesHold, ReminderInvariance, InteractionInvariance,
     DecisionInvariance, PTL

\* A run has one cause and one origin, an interaction is answered or timed out
\* once, and a settled decision has the outcome its votes give it.
THEOREM SweepsAreSafe == SweepsSpec => [](Lineage /\ AnsweredOrTimedOut /\ OutcomeFits)
BY EachService, OneRunPerCause, AnsweredOnce, OutcomesFit, PTL
--------------------------------------------------------------------------------
(* Runs and reminders as jobs of ClaimedJobs.                               *)

RunJob(r) == [state |-> RunState(r), work |-> RunWork(r), done |-> RunDone(r), holders |-> RunHolders(r)]

ReminderJob(s, n) == [state |-> ReminderState(s, n), work |-> ReminderWork(s, n),
                      done |-> ReminderDone(s, n), holders |-> ReminderHolders(s, n)]

\* The steps of ClaimedJobs, from job a to job b.
Opens(a, b) ==
    /\ a.state \in {"absent", "open"} /\ b.state \in {"open", "closed"}
    /\ b.work \in Nat /\ b.done = 0 /\ b.holders = {}

Takes(a, b) ==
    /\ a.state = "open" /\ b.state = "taken"
    /\ \E i \in Instances : b.holders = {i}
    /\ b.work = a.work /\ b.done = 0

Carries(a, b) ==
    /\ a.holders # {} /\ b.holders \in {a.holders, {}}
    /\ a.done < a.work /\ b.done = a.done + 1
    /\ b.work = a.work /\ b.state = a.state

Leaves(a, b) ==
    /\ a.holders # {} /\ b.holders = {}
    /\ b.state \in {a.state, "closed", "finished"}
    /\ b.state = "finished" => a.done = a.work
    /\ b.work = a.work /\ b.done = a.done

Drops(a, b) ==
    /\ a.state \in {"taken", "finished"} /\ b.state = "closed"
    /\ b.work = a.work /\ b.done = a.done /\ b.holders = a.holders

JobMoves(a, b) == b = a \/ Opens(a, b) \/ Takes(a, b) \/ Carries(a, b) \/ Leaves(a, b) \/ Drops(a, b)

\* What the mapping gives for one job.
LEMMA MappedRun ==
    ASSUME NEW r \in Runs, NEW j, j = <<"run", r>>
    PROVE  /\ j \in SweepJobs
           /\ OfJob(RunState, ReminderState)[j] = RunState(r)
           /\ OfJob(RunWork, ReminderWork)[j] = RunWork(r)
           /\ OfJob(RunDone, ReminderDone)[j] = RunDone(r)
           /\ OfJob(RunHolders, ReminderHolders)[j] = RunHolders(r)
BY DEF SweepJobs, OfJob

LEMMA MappedReminder ==
    ASSUME NEW s \in Sources, NEW n \in Rows, NEW j, j = <<"reminder", s, n>>
    PROVE  /\ j \in SweepJobs
           /\ OfJob(RunState, ReminderState)[j] = ReminderState(s, n)
           /\ OfJob(RunWork, ReminderWork)[j] = ReminderWork(s, n)
           /\ OfJob(RunDone, ReminderDone)[j] = ReminderDone(s, n)
           /\ OfJob(RunHolders, ReminderHolders)[j] = ReminderHolders(s, n)
BY DEF SweepJobs, OfJob

LEMMA MovesAreSteps ==
    ASSUME \A r \in Runs : JobMoves(RunJob(r), RunJob(r)'),
           \A s \in Sources, n \in Rows : JobMoves(ReminderJob(s, n), ReminderJob(s, n)')
    PROVE  Claims!Next
<1> SUFFICES ASSUME NEW j \in SweepJobs PROVE Claims!JobStep(j)
  BY DEF Claims!Next
<1>1. PICK a, b :
        /\ JobMoves(a, b)
        /\ a.state = OfJob(RunState, ReminderState)[j] /\ b.state = OfJob(RunState, ReminderState)'[j]
        /\ a.work = OfJob(RunWork, ReminderWork)[j] /\ b.work = OfJob(RunWork, ReminderWork)'[j]
        /\ a.done = OfJob(RunDone, ReminderDone)[j] /\ b.done = OfJob(RunDone, ReminderDone)'[j]
        /\ a.holders = OfJob(RunHolders, ReminderHolders)[j] /\ b.holders = OfJob(RunHolders, ReminderHolders)'[j]
  <2>1. CASE j \in {"run"} \X Runs
    <3>1. PICK r \in Runs : j = <<"run", r>>
      BY <2>1
    <3>2. JobMoves(RunJob(r), RunJob(r)')
      OBVIOUS
    <3> QED
      BY <3>1, <3>2, MappedRun DEF RunJob, OfJob
  <2>2. CASE j \in {"reminder"} \X Sources \X Rows
    <3>1. PICK s \in Sources, n \in Rows : j = <<"reminder", s, n>>
      BY <2>2
    <3>2. JobMoves(ReminderJob(s, n), ReminderJob(s, n)')
      OBVIOUS
    <3> QED
      BY <3>1, <3>2, MappedReminder DEF ReminderJob, OfJob
  <2> QED
    BY <2>1, <2>2 DEF SweepJobs
<1>2. CASE b = a
  BY <1>1, <1>2 DEF Claims!JobStep, Claims!Same
<1>3. CASE Opens(a, b)
  BY <1>1, <1>3 DEF Opens, Claims!JobStep, Claims!Open, Claims!Withdraw
<1>4. CASE Takes(a, b)
  BY <1>1, <1>4 DEF Takes, Claims!JobStep, Claims!Take
<1>5. CASE Carries(a, b)
  BY <1>1, <1>5 DEF Carries, Claims!JobStep, Claims!Carry
<1>6. CASE Leaves(a, b)
  BY <1>1, <1>6 DEF Leaves, Claims!JobStep, Claims!Leave
<1>7. CASE Drops(a, b)
  BY <1>1, <1>7 DEF Drops, Claims!JobStep, Claims!GiveUp, Claims!Erase
<1> QED
  BY <1>1, <1>2, <1>3, <1>4, <1>5, <1>6, <1>7 DEF JobMoves
--------------------------------------------------------------------------------
(* Who holds a run.                                                         *)

Executes(i) == sweeps[i].pc \in Executing

\* What the instance at a run knows of it.
HoldFits(i) ==
    LET r == Current(i) IN
    /\ runs[r].status \in {"RUNNING", "FAILED", "GONE"}
    /\ sweeps[i].pc = "load" => did[r] = <<>>
    /\ sweeps[i].pc = "step" => Len(did[r]) = sweeps[i].at - 1 /\ sweeps[i].steps = runs[r].draft.steps
    /\ sweeps[i].pc = "succeed" => Len(did[r]) = runs[r].draft.steps

\* A run that was not claimed has no step behind it, and one that was has one
\* instance at most.
HeldOK ==
    /\ \A i \in Instances : Executes(i) => HoldFits(i)
    /\ \A i, k \in Instances : Executes(i) /\ Executes(k) /\ Current(i) = Current(k) => i = k
    /\ \A r \in Runs : runs[r].status \in {"ABSENT", "PENDING"} => did[r] = <<>>

RunJobsMove == HeldOK' /\ \A r \in Runs : JobMoves(RunJob(r), RunJob(r)')

LEMMA HoldersAre ==
    ASSUME NEW r
    PROVE  /\ RunHolders(r) = {i \in Instances : Executes(i) /\ Current(i) = r}
           /\ RunHolders(r)' = {i \in Instances : Executes(i)' /\ Current(i)' = r}
BY DEF RunHolders, Executes, Executing

\* What may become of a run while nobody works at it.
StatusMay(r) ==
    \/ runs'[r].status = runs[r].status /\ runs'[r].draft = runs[r].draft
    \/ runs[r].status = "ABSENT" /\ runs'[r].status \in {"PENDING", "FAILED"}
    \/ /\ runs'[r].draft = runs[r].draft
       /\ \/ runs[r].status \in {"PENDING", "SUCCEEDED", "FAILED"} /\ runs'[r].status = "GONE"
          \/ runs[r].status = "RUNNING" /\ runs'[r].status \in {"FAILED", "GONE"}

LEMMA RunTypes ==
    ASSUME RunIInv, NEW r \in Runs
    PROVE  /\ runs[r] \in Run /\ did[r] \in Seq(Steps) /\ Len(did[r]) \in Nat
           /\ runs[r].status \in RunStatuses /\ runs[r].draft.steps \in Nat \ {0}
BY Bounds DEF RunIInv, RunsOK, Run, Draft, Steps

LEMMA TableMoves ==
    ASSUME RunIInv, RunIInv', HeldOK, UNCHANGED did,
           \A i \in Instances : Executes(i) \/ Executes(i)' => sweeps'[i] = sweeps[i],
           \A r \in Runs : StatusMay(r)
    PROVE  RunJobsMove
<1>1. \A i \in Instances : /\ Executes(i)' <=> Executes(i)
                           /\ Executes(i) => Current(i)' = Current(i) /\ Current(i) \in Runs
  BY AtWork DEF Executes, Current
<1>2. \A r : RunHolders(r)' = RunHolders(r)
  BY <1>1, HoldersAre
<1>3. HeldOK'
  <2>1. ASSUME NEW i \in Instances, Executes(i)' PROVE HoldFits(i)'
    <3>1. PICK r \in Runs : r = Current(i) /\ r = Current(i)' /\ HoldFits(i)
      BY <1>1, <2>1 DEF HeldOK
    <3>2. sweeps'[i] = sweeps[i] /\ StatusMay(r)
      BY <2>1
    <3>3. runs'[r].draft = runs[r].draft /\ runs'[r].status \in {"RUNNING", "FAILED", "GONE"}
      BY <3>1, <3>2 DEF HoldFits, StatusMay
    <3> QED
      BY <3>1, <3>2, <3>3 DEF HoldFits
  <2>2. ASSUME NEW r \in Runs, runs'[r].status \in {"ABSENT", "PENDING"} PROVE did'[r] = <<>>
    <3>1. StatusMay(r)
      OBVIOUS
    <3>2. runs[r].status \in {"ABSENT", "PENDING"}
      BY <2>2, <3>1 DEF StatusMay
    <3> QED
      BY <3>2 DEF HeldOK
  <2>3. ASSUME NEW i \in Instances, NEW k \in Instances, Executes(i)', Executes(k)', Current(i)' = Current(k)'
        PROVE  i = k
    BY <1>1, <2>3 DEF HeldOK
  <2> QED
    BY <2>1, <2>2, <2>3 DEF HeldOK
<1>4. ASSUME NEW r \in Runs PROVE JobMoves(RunJob(r), RunJob(r)')
  <2>1. PICK a : a = RunJob(r)
    OBVIOUS
  <2>2. PICK b : b = RunJob(r)'
    OBVIOUS
  <2>3. a.holders = RunHolders(r) /\ b.holders = RunHolders(r) /\ a.done = Len(did[r]) /\ b.done = Len(did[r])
    BY <1>2, <2>1, <2>2 DEF RunJob, RunDone
  <2>4. /\ a.state = RunState(r) /\ b.state = RunState(r)'
        /\ a.work = RunWork(r) /\ b.work = RunWork(r)'
    BY <2>1, <2>2 DEF RunJob
  <2>5. runs'[r].status \in RunStatuses /\ runs'[r].draft.steps \in Nat /\ runs[r].status \in RunStatuses
    BY Bounds DEF RunIInv, RunsOK, Run, Draft, Steps
  <2>6. runs[r].status \in {"ABSENT", "PENDING"} => a.done = 0 /\ a.holders = {}
    <3>1. ASSUME runs[r].status \in {"ABSENT", "PENDING"}, NEW i \in RunHolders(r) PROVE FALSE
      BY <3>1, HoldersAre DEF HeldOK, HoldFits
    <3> QED
      BY <2>3, <3>1 DEF HeldOK
  <2>7. StatusMay(r)
    OBVIOUS
  <2>8. CASE runs'[r].status = runs[r].status /\ runs'[r].draft = runs[r].draft
    <3>1. RunState(r)' = RunState(r) /\ RunWork(r)' = RunWork(r)
      BY <2>8 DEF RunState, RunWork
    <3> QED
      BY <1>2, <3>1 DEF JobMoves, RunJob, RunDone
  <2>9. CASE runs[r].status = "ABSENT" /\ runs'[r].status \in {"PENDING", "FAILED"}
    <3>1. a.state = "absent" /\ b.state \in {"open", "closed"} /\ b.work \in Nat
      BY <2>4, <2>5, <2>9 DEF RunState, RunWork
    <3> QED
      BY <2>1, <2>2, <2>3, <2>6, <2>9, <3>1 DEF JobMoves, Opens
  <2>10. CASE runs[r].status = "PENDING" /\ runs'[r].status = "GONE" /\ runs'[r].draft = runs[r].draft
    <3>1. a.state = "open" /\ b.state = "closed" /\ b.work \in Nat
      BY <2>4, <2>5, <2>10 DEF RunState, RunWork
    <3> QED
      BY <2>1, <2>2, <2>3, <2>6, <2>10, <3>1 DEF JobMoves, Opens
  <2>11. CASE /\ runs[r].status \in {"SUCCEEDED", "RUNNING"} /\ runs'[r].status \in {"FAILED", "GONE"}
              /\ runs'[r].draft = runs[r].draft
    <3>1. a.state \in {"taken", "finished"} /\ b.state = "closed" /\ b.work = a.work
      BY <2>4, <2>11 DEF RunState, RunWork
    <3> QED
      BY <2>1, <2>2, <2>3, <3>1 DEF JobMoves, Drops
  <2>12. CASE /\ runs[r].status = "FAILED" /\ runs'[r].status = "GONE"
              /\ runs'[r].draft = runs[r].draft
    <3>1. RunState(r)' = RunState(r) /\ RunWork(r)' = RunWork(r)
      BY <2>12 DEF RunState, RunWork
    <3> QED
      BY <1>2, <3>1 DEF JobMoves, RunJob, RunDone
  <2> QED
    BY <2>7, <2>8, <2>9, <2>10, <2>11, <2>12 DEF StatusMay
<1> QED
  BY <1>3, <1>4 DEF RunJobsMove
\* Instance i is at run r; t is its sweep after the step, at the same run or
\* at none.
GoesOn(i, r, t) ==
    t.pc \in Executing =>
        /\ t.due = sweeps[i].due /\ t.pc # "load"
        /\ t.pc = "step" => Len(did'[r]) = t.at - 1 /\ t.steps = runs[r].draft.steps
        /\ t.pc = "succeed" => Len(did'[r]) = runs[r].draft.steps

\* What became of the run: nothing, one more step, or its outcome.
Result(i, r, t) ==
    /\ runs'[r].draft = runs[r].draft
    /\ \/ did'[r] = did[r] /\ runs'[r].status = runs[r].status
       \/ /\ sweeps[i].pc = "step" /\ runs'[r].status = runs[r].status
          /\ Len(did'[r]) = Len(did[r]) + 1
       \/ /\ did'[r] = did[r] /\ t.pc \notin Executing /\ runs'[r].status \in {"SUCCEEDED", "FAILED"}
          /\ runs'[r].status = "SUCCEEDED" => sweeps[i].pc = "succeed"

LEMMA HolderMoves ==
    ASSUME RunIInv, RunIInv', HeldOK,
           NEW i \in Instances, Executes(i), NEW r, r = Current(i),
           NEW t, sweeps' = [sweeps EXCEPT ![i] = t],
           GoesOn(i, r, t), Result(i, r, t),
           \A q \in Runs : q # r => runs'[q] = runs[q] /\ did'[q] = did[q]
    PROVE  RunJobsMove
<1>1. /\ sweeps[i] \in Sweep /\ sweeps'[i] = t /\ \A k \in Instances : k # i => sweeps'[k] = sweeps[k]
      /\ r \in Runs /\ r \in Created /\ HoldFits(i) /\ SweepKept(sweeps[i])
  BY AtWork DEF RunIInv, SweepsOK, HeldOK, Executes
<1>2. /\ Executes(i)' <=> t.pc \in Executing
      /\ Executes(i)' => Current(i)' = r
      /\ \A k \in Instances : k # i => /\ Executes(k)' <=> Executes(k)
                                       /\ Current(k)' = Current(k)
                                       /\ Executes(k) => Current(k) # r /\ Current(k) \in Runs
  <2>1. ASSUME NEW k \in Instances, k # i
        PROVE  /\ Executes(k)' <=> Executes(k)
               /\ Current(k)' = Current(k)
               /\ Executes(k) => Current(k) # r /\ Current(k) \in Runs
    BY <1>1, <2>1, AtWork DEF Executes, Current, HeldOK
  <2> QED
    BY <1>1, <2>1 DEF Executes, Current, GoesOn
<1>3. RunHolders(r) = {i} /\ RunHolders(r)' = IF t.pc \in Executing THEN {i} ELSE {}
  BY <1>2, HoldersAre
<1>4. ASSUME NEW q \in Runs, q # r PROVE RunHolders(q)' = RunHolders(q)
  <2>1. RunHolders(q) = {k \in Instances : Executes(k) /\ Current(k) = q}
    BY HoldersAre
  <2>2. RunHolders(q)' = {k \in Instances : Executes(k)' /\ Current(k)' = q}
    BY HoldersAre
  <2>3. \A k \in Instances : Executes(k) /\ Current(k) = q <=> Executes(k)' /\ Current(k)' = q
    BY <1>2, <1>4
  <2> QED
    BY <2>1, <2>2, <2>3
<1>5. runs[r].status \in {"RUNNING", "FAILED", "GONE"} /\ (t.pc \in Executing => runs'[r].status = runs[r].status)
      /\ Len(did[r]) \in Nat /\ runs'[r].status \notin {"ABSENT", "PENDING"}
  BY <1>1, RunTypes DEF HoldFits, Result
<1>6. HeldOK'
  <2>1. ASSUME NEW k \in Instances, Executes(k)' PROVE HoldFits(k)'
    <3>1. CASE k = i
      BY <1>1, <1>2, <1>5, <2>1, <3>1 DEF HoldFits, GoesOn, Result
    <3>2. CASE k # i
      <4>1. PICK q \in Runs : q = Current(k) /\ q = Current(k)' /\ q # r /\ HoldFits(k) /\ sweeps'[k] = sweeps[k]
        BY <1>1, <1>2, <2>1, <3>2 DEF HeldOK
      <4>2. runs'[q] = runs[q] /\ did'[q] = did[q]
        BY <4>1
      <4> QED
        BY <4>1, <4>2 DEF HoldFits
    <3> QED
      BY <3>1, <3>2
  <2>2. ASSUME NEW k \in Instances, NEW l \in Instances, Executes(k)', Executes(l)', Current(k)' = Current(l)'
        PROVE  k = l
    BY <1>2, <2>2 DEF HeldOK
  <2>3. ASSUME NEW q \in Runs, runs'[q].status \in {"ABSENT", "PENDING"} PROVE did'[q] = <<>>
    BY <1>5, <2>3 DEF HeldOK
  <2> QED
    BY <2>1, <2>2, <2>3 DEF HeldOK
<1>7. ASSUME NEW q \in Runs PROVE JobMoves(RunJob(q), RunJob(q)')
  <2>1. CASE q # r
    <3>1. RunState(q)' = RunState(q) /\ RunWork(q)' = RunWork(q) /\ RunDone(q)' = RunDone(q)
      BY <2>1 DEF RunState, RunWork, RunDone
    <3> QED
      BY <1>4, <2>1, <3>1 DEF JobMoves, RunJob
  <2>2. CASE q = r
    <3>1. PICK a : a = RunJob(r)
      OBVIOUS
    <3>2. PICK b : b = RunJob(r)'
      OBVIOUS
    <3>3. /\ a.holders = {i} /\ b.holders = IF t.pc \in Executing THEN {i} ELSE {}
          /\ a.done = Len(did[r]) /\ b.done = Len(did'[r])
          /\ a.state = RunState(r) /\ b.state = RunState(r)'
      BY <1>3, <3>1, <3>2 DEF RunJob, RunDone
    <3>4. a.work = runs[r].draft.steps /\ b.work = a.work
      BY <1>5, <3>1, <3>2 DEF RunJob, RunWork, Result
    <3>5. runs'[r].status = runs[r].status => b.state = a.state
      BY <3>3 DEF RunState
    <3>6. CASE did'[r] = did[r] /\ runs'[r].status = runs[r].status
      <4>1. CASE t.pc \in Executing
        <5>1. a.holders = b.holders /\ a.done = b.done /\ a.work = b.work /\ a.state = b.state
          BY <3>3, <3>4, <3>5, <3>6, <4>1
        <5>2. a = b
          BY <3>1, <3>2, <5>1 DEF RunJob
        <5> QED
          BY <2>2, <3>1, <3>2, <5>2 DEF JobMoves
      <4>2. CASE t.pc \notin Executing
        <5>1. a.state # "finished"
          BY <1>5, <3>3 DEF RunState
        <5>2. Leaves(a, b)
          BY <3>3, <3>4, <3>5, <3>6, <4>2, <5>1 DEF Leaves
        <5> QED
          BY <2>2, <3>1, <3>2, <5>2 DEF JobMoves
      <4> QED
        BY <4>1, <4>2
    <3>7. CASE sweeps[i].pc = "step" /\ runs'[r].status = runs[r].status /\ Len(did'[r]) = Len(did[r]) + 1
      <4>1. Len(did[r]) = sweeps[i].at - 1 /\ sweeps[i].steps = runs[r].draft.steps /\ sweeps[i].at <= sweeps[i].steps
        BY <1>1, <3>7 DEF HoldFits, SweepKept
      <4>2. sweeps[i].at \in Nat /\ sweeps[i].steps \in Nat
        BY <1>1, Bounds DEF Sweep, Steps
      <4>3. a.done < a.work /\ b.done = a.done + 1
        BY <3>3, <3>4, <3>7, <4>1, <4>2
      <4>4. Carries(a, b)
        BY <3>3, <3>4, <3>5, <3>7, <4>3 DEF Carries
      <4> QED
        BY <2>2, <3>1, <3>2, <4>4 DEF JobMoves
    <3>8. CASE /\ did'[r] = did[r] /\ t.pc \notin Executing /\ runs'[r].status \in {"SUCCEEDED", "FAILED"}
               /\ runs'[r].status = "SUCCEEDED" => sweeps[i].pc = "succeed"
      <4>1. b.state \in {"closed", "finished"} /\ (b.state = "finished" => runs'[r].status = "SUCCEEDED")
        BY <3>3, <3>8 DEF RunState
      <4>2. b.state = "finished" => a.done = a.work
        BY <1>1, <3>3, <3>4, <3>8, <4>1 DEF HoldFits
      <4>3. Leaves(a, b)
        BY <3>3, <3>4, <3>8, <4>1, <4>2 DEF Leaves
      <4> QED
        BY <2>2, <3>1, <3>2, <4>3 DEF JobMoves
    <3> QED
      BY <3>6, <3>7, <3>8 DEF Result
  <2> QED
    BY <2>1, <2>2
<1> QED
  BY <1>6, <1>7 DEF RunJobsMove

\* The conditional claim.
LEMMA ClaimMoves ==
    ASSUME RunIInv, RunIInv', HeldOK, NEW i \in Instances, sweeps[i].pc = "claim",
           NEW r, r = Current(i), runs[r].status = "PENDING",
           runs' = [runs EXCEPT ![r].status = "RUNNING"], sweeps' = [sweeps EXCEPT ![i].pc = "load"],
           UNCHANGED did
    PROVE  RunJobsMove
<1>1. /\ sweeps[i] \in Sweep /\ sweeps \in [Instances -> Sweep] /\ r \in Runs
      /\ runs \in [Runs -> Run] /\ runs[r] \in Run
  BY AtWork DEF RunIInv, SweepsOK, RunsOK
<1>2. PICK t : t = [sweeps[i] EXCEPT !.pc = "load"]
  OBVIOUS
<1>3. t.pc = "load" /\ t.due = sweeps[i].due
  BY <1>1, <1>2 DEF Sweep
<1>4. sweeps'[i] = t /\ \A k \in Instances : k # i => sweeps'[k] = sweeps[k]
  BY <1>1, <1>2
<1>5. /\ runs'[r].status = "RUNNING" /\ runs'[r].draft = runs[r].draft
      /\ \A q \in Runs : q # r => runs'[q] = runs[q]
  BY <1>1 DEF Run
<1>6. ~Executes(i) /\ Executes(i)' /\ Current(i)' = r
  BY <1>3, <1>4 DEF Executes, Executing, Current
<1>7. \A k \in Instances : k # i => /\ Executes(k)' <=> Executes(k)
                                    /\ Current(k)' = Current(k)
                                    /\ Executes(k) => Current(k) # r /\ Current(k) \in Runs
  BY <1>4, AtWork DEF Executes, Current, HeldOK, HoldFits
<1>8. RunHolders(r) = {} /\ RunHolders(r)' = {i} /\ \A q \in Runs : q # r => RunHolders(q)' = RunHolders(q)
  BY <1>6, <1>7, HoldersAre
<1>9. did[r] = <<>>
  BY <1>1 DEF HeldOK
<1>10. HeldOK'
  <2>1. ASSUME NEW k \in Instances, Executes(k)' PROVE HoldFits(k)'
    <3>1. CASE k = i
      BY <1>3, <1>4, <1>5, <1>6, <1>9, <3>1 DEF HoldFits
    <3>2. CASE k # i
      <4>1. PICK q \in Runs : q = Current(k) /\ q = Current(k)' /\ q # r /\ HoldFits(k) /\ sweeps'[k] = sweeps[k]
        BY <1>4, <1>7, <2>1, <3>2 DEF HeldOK
      <4>2. runs'[q] = runs[q] /\ did'[q] = did[q]
        BY <1>5, <4>1
      <4> QED
        BY <4>1, <4>2 DEF HoldFits
    <3> QED
      BY <3>1, <3>2
  <2>2. ASSUME NEW k \in Instances, NEW l \in Instances, Executes(k)', Executes(l)', Current(k)' = Current(l)'
        PROVE  k = l
    BY <1>6, <1>7, <2>2 DEF HeldOK
  <2>3. ASSUME NEW q \in Runs, runs'[q].status \in {"ABSENT", "PENDING"} PROVE did'[q] = <<>>
    BY <1>5, <2>3 DEF HeldOK
  <2> QED
    BY <2>1, <2>2, <2>3 DEF HeldOK
<1>11. ASSUME NEW q \in Runs PROVE JobMoves(RunJob(q), RunJob(q)')
  <2>1. CASE q # r
    <3>1. runs'[q] = runs[q]
      BY <1>5, <2>1
    <3>2. RunState(q)' = RunState(q)
      BY <3>1 DEF RunState
    <3>3. RunWork(q)' = RunWork(q)
      BY <3>1 DEF RunWork
    <3>4. RunDone(q)' = RunDone(q)
      BY DEF RunDone
    <3> QED
      BY <1>8, <2>1, <3>2, <3>3, <3>4 DEF JobMoves, RunJob
  <2>2. CASE q = r
    <3>1. PICK a : a = RunJob(r)
      OBVIOUS
    <3>2. PICK b : b = RunJob(r)'
      OBVIOUS
    <3>3. /\ b.holders = {i} /\ b.done = Len(did[r])
          /\ a.state = RunState(r) /\ b.state = RunState(r)'
          /\ a.work = RunWork(r) /\ b.work = RunWork(r)'
      BY <1>8, <3>1, <3>2 DEF RunJob, RunDone
    <3>4. a.state = "open" /\ b.state = "taken" /\ b.work = a.work
      BY <1>5, <3>3 DEF RunState, RunWork
    <3>5. Takes(a, b)
      BY <1>9, <3>3, <3>4 DEF Takes
    <3> QED
      BY <2>2, <3>1, <3>2, <3>5 DEF JobMoves
  <2> QED
    BY <2>1, <2>2
<1> QED
  BY <1>10, <1>11 DEF RunJobsMove
--------------------------------------------------------------------------------
(* Every step of the runs is one of these.                                  *)

LEMMA OneSweep ==
    ASSUME RunIInv, NEW i \in Instances, ~Executes(i), NEW t, t.pc \notin Executing,
           sweeps' = [sweeps EXCEPT ![i] = t]
    PROVE  \A k \in Instances : Executes(k) \/ Executes(k)' => sweeps'[k] = sweeps[k]
BY DEF RunIInv, SweepsOK, Executes

\* A step that writes no run and is none of an instance at a run.
LEMMA SameRuns ==
    ASSUME RunIInv, RunIInv', HeldOK, UNCHANGED <<runs, did>>,
           \A k \in Instances : Executes(k) \/ Executes(k)' => sweeps'[k] = sweeps[k]
    PROVE  RunJobsMove
<1>1. \A r \in Runs : StatusMay(r)
  BY DEF StatusMay
<1> QED
  BY <1>1, TableMoves

LEMMA InsertedMay ==
    ASSUME RunIInv, NEW d, NEW status \in {"PENDING", "FAILED"}, Inserted(d, status)
    PROVE  \A r \in Runs : StatusMay(r)
<1>1. PICK n : n = Oldest(FreeRuns)
  OBVIOUS
<1>2. n \in Runs /\ runs[n].status = "ABSENT"
  <2>1. FreeRuns \in SUBSET Runs /\ FreeRuns # {}
    BY DEF FreeRuns, Inserted
  <2>2. n \in FreeRuns
    BY <1>1, <2>1, OldestIs
  <2> QED
    BY <2>2 DEF FreeRuns
<1>3. PICK q : q = [status |-> status, draft |-> d, aged |-> FALSE]
  OBVIOUS
<1>4. runs' = [runs EXCEPT ![n] = q] /\ q.status = status
  BY <1>1, <1>3 DEF Inserted
<1>5. runs'[n] = q /\ \A r \in Runs : r # n => runs'[r] = runs[r]
  BY <1>2, <1>4 DEF RunIInv, RunsOK
<1> QED
  BY <1>2, <1>4, <1>5 DEF StatusMay

LEMMA ReadsMove ==
    ASSUME RunIInv, RunIInv', HeldOK, NEW i \in Instances,
           FindStale(i) \/ FindFires(i) \/ FindRuns(i)
    PROVE  RunJobsMove
<1>1. UNCHANGED <<runs, did>> /\ sweeps[i].pc = "idle" /\ sweeps[i] \in Sweep
  BY DEF FindStale, FindFires, FindRuns, RunIInv, SweepsOK
<1>2. ~Executes(i)
  BY <1>1 DEF Executes, Executing
<1>3. PICK t : sweeps' = [sweeps EXCEPT ![i] = t] /\ t.pc \notin Executing
  <2>1. CASE FindStale(i)
    <3>1. PICK stale : sweeps' = [sweeps EXCEPT ![i].pc = "stale", ![i].stale = stale]
      BY <2>1 DEF FindStale
    <3>2. PICK t : t = [sweeps[i] EXCEPT !.pc = "stale", !.stale = stale]
      OBVIOUS
    <3>3. sweeps' = [sweeps EXCEPT ![i] = t]
      BY <3>1, <3>2 DEF RunIInv, SweepsOK
    <3>4. t.pc \notin Executing
      BY <1>1, <3>2 DEF Sweep, Executing
    <3> QED
      BY <3>3, <3>4
  <2>2. CASE FindFires(i)
    <3>1. PICK due : due = {w \in Workflows : workflows[w].live /\ workflows[w].enabled /\ workflows[w].next = "due"}
      OBVIOUS
    <3>2. PICK fires : fires = {[of |-> w, steps |-> workflows[w].steps, at |-> workflows[w].fires] : w \in due}
      OBVIOUS
    <3>3. fires \in SUBSET [of : Workflows, steps : Steps, at : Nat]
      BY <3>1, <3>2 DEF RunIInv, TablesOK, Workflow
    <3>4. sweeps' = [sweeps EXCEPT ![i] = NextFire(fires)]
      BY <2>2, <3>1, <3>2 DEF FindFires
    <3> QED
      BY <3>3, <3>4, NextFireIs
  <2>3. CASE FindRuns(i)
    <3>1. PICK due : due = {r \in Runs : runs[r].status = "PENDING" /\ workflows[runs[r].draft.of].enabled}
      OBVIOUS
    <3>2. sweeps' = [sweeps EXCEPT ![i] = NextRun(due)] /\ due \in SUBSET Runs
      BY <2>3, <3>1 DEF FindRuns
    <3> QED
      BY <3>2, NextRunIs
  <2> QED
    BY <2>1, <2>2, <2>3
<1> QED
  BY <1>1, <1>2, <1>3, OneSweep, SameRuns

LEMMA FailStaleMoves ==
    ASSUME RunIInv, RunIInv', HeldOK, NEW i \in Instances, FailStale(i)
    PROVE  RunJobsMove
<1>1. PICK r \in sweeps[i].stale :
        /\ runs' = IF runs[r].status = "RUNNING" THEN [runs EXCEPT ![r].status = "FAILED"] ELSE runs
        /\ sweeps' = [sweeps EXCEPT ![i] = IF sweeps[i].stale = {r} THEN IdleSweep
                                           ELSE [sweeps[i] EXCEPT !.stale = sweeps[i].stale \ {r}]]
  BY DEF FailStale
<1>2. sweeps[i] \in Sweep /\ sweeps[i].pc = "stale" /\ r \in Runs /\ UNCHANGED did
  BY <1>1 DEF FailStale, RunIInv, SweepsOK, Sweep
<1>3. ~Executes(i)
  BY <1>2 DEF Executes, Executing
<1>4. PICK t : sweeps' = [sweeps EXCEPT ![i] = t] /\ t.pc \notin Executing
  <2>1. CASE sweeps[i].stale = {r}
    BY <1>1, <2>1, Records DEF Executing
  <2>2. CASE sweeps[i].stale # {r}
    <3>1. PICK t : t = [sweeps[i] EXCEPT !.stale = sweeps[i].stale \ {r}]
      OBVIOUS
    <3>2. sweeps' = [sweeps EXCEPT ![i] = t]
      BY <1>1, <2>2, <3>1
    <3>3. t.pc \notin Executing
      BY <1>2, <3>1 DEF Sweep, Executing
    <3> QED
      BY <3>2, <3>3
  <2> QED
    BY <2>1, <2>2
<1>5. \A q \in Runs : StatusMay(q)
  <2>1. runs \in [Runs -> Run] /\ runs[r] \in Run
    BY <1>2 DEF RunIInv, RunsOK
  <2>2. CASE runs[r].status # "RUNNING"
    BY <1>1, <2>2 DEF StatusMay
  <2>3. CASE runs[r].status = "RUNNING"
    <3>1. PICK q : q = [runs[r] EXCEPT !.status = "FAILED"]
      OBVIOUS
    <3>2. q.status = "FAILED" /\ q.draft = runs[r].draft
      BY <2>1, <3>1 DEF Run
    <3>3. runs' = [runs EXCEPT ![r] = q]
      BY <1>1, <2>3, <3>1
    <3>4. runs'[r] = q /\ \A z \in Runs : z # r => runs'[z] = runs[z]
      BY <1>2, <2>1, <3>3
    <3> QED
      BY <2>3, <3>2, <3>4 DEF StatusMay
  <2> QED
    BY <2>2, <2>3
<1> QED
  BY <1>2, <1>3, <1>4, <1>5, OneSweep, TableMoves

LEMMA FireMoves ==
    ASSUME RunIInv, RunIInv', HeldOK, NEW i \in Instances, ClaimFire(i) \/ InsertFire(i)
    PROVE  RunJobsMove
<1>1. /\ sweeps[i] \in Sweep /\ sweeps[i].pc \in {"fire", "insert"} /\ UNCHANGED did
      /\ sweeps[i].fires \in SUBSET [of : Workflows, steps : Steps, at : Nat]
      /\ sweeps[i].verdict \in {"PENDING", "FAILED"}
  BY DEF ClaimFire, InsertFire, RunIInv, SweepsOK, Sweep
<1>2. ~Executes(i)
  BY <1>1 DEF Executes, Executing
<1>3. PICK t : sweeps' = [sweeps EXCEPT ![i] = t] /\ t.pc \notin Executing
  <2>1. CASE ClaimFire(i)
    <3>1. PICK f \in sweeps[i].fires :
            LET d == [NoDraft EXCEPT !.of = f.of, !.steps = f.steps,
                                     !.cause = [by |-> "SCHEDULE", id |-> f.at]] IN
            \/ sweeps' = [sweeps EXCEPT ![i] = NextFire(sweeps[i].fires \ {f})]
            \/ sweeps' = [sweeps EXCEPT ![i].fires = @ \ {f}, ![i].pc = "insert",
                                        ![i].draft = d, ![i].verdict = RunVerdict(d)]
      BY <2>1 DEF ClaimFire
    <3>2. CASE sweeps' = [sweeps EXCEPT ![i] = NextFire(sweeps[i].fires \ {f})]
      <4>1. sweeps[i].fires \ {f} \in SUBSET [of : Workflows, steps : Steps, at : Nat]
        BY <1>1
      <4> QED
        BY <3>2, <4>1, NextFireIs
    <3>3. CASE sweeps' # [sweeps EXCEPT ![i] = NextFire(sweeps[i].fires \ {f})]
      <4>1. PICK d, v : sweeps' = [sweeps EXCEPT ![i].fires = @ \ {f}, ![i].pc = "insert",
                                                 ![i].draft = d, ![i].verdict = v]
        BY <3>1, <3>3
      <4>2. PICK t : t = [sweeps[i] EXCEPT !.fires = sweeps[i].fires \ {f}, !.pc = "insert", !.draft = d, !.verdict = v]
        OBVIOUS
      <4>3. sweeps' = [sweeps EXCEPT ![i] = t]
        BY <4>1, <4>2 DEF RunIInv, SweepsOK
      <4>4. t.pc \notin Executing
        BY <1>1, <4>2 DEF Sweep, Executing
      <4> QED
        BY <4>3, <4>4
    <3> QED
      BY <3>2, <3>3
  <2>2. CASE InsertFire(i)
    <3>1. sweeps' = [sweeps EXCEPT ![i] = IdleSweep] \/ sweeps' = [sweeps EXCEPT ![i] = NextFire(sweeps[i].fires)]
      BY <2>2 DEF InsertFire
    <3>2. IdleSweep.pc \notin Executing
      BY Records DEF Executing
    <3>3. NextFire(sweeps[i].fires).pc \notin Executing
      BY <1>1, NextFireIs
    <3> QED
      BY <3>1, <3>2, <3>3
  <2> QED
    BY <2>1, <2>2
<1>4. \A r \in Runs : StatusMay(r)
  <2>1. UNCHANGED runs \/ Inserted(sweeps[i].draft, sweeps[i].verdict)
    BY DEF ClaimFire, InsertFire
  <2>2. CASE UNCHANGED runs
    BY <2>2 DEF StatusMay
  <2>3. CASE Inserted(sweeps[i].draft, sweeps[i].verdict)
    BY <1>1, <2>3, InsertedMay
  <2> QED
    BY <2>1, <2>2, <2>3
<1> QED
  BY <1>1, <1>2, <1>3, <1>4, OneSweep, TableMoves

LEMMA ClaimRunMoves ==
    ASSUME RunIInv, RunIInv', HeldOK, NEW i \in Instances, ClaimRun(i)
    PROVE  RunJobsMove
<1>1. PICK r : r = Current(i)
  OBVIOUS
<1>2. CASE runs[r].status = "PENDING"
  BY <1>1, <1>2, ClaimMoves DEF ClaimRun
<1>3. CASE runs[r].status # "PENDING"
  <2>1. UNCHANGED <<runs, did>> /\ sweeps' = [sweeps EXCEPT ![i] = NextRun(Later(i))] /\ sweeps[i].pc = "claim"
    BY <1>1, <1>3 DEF ClaimRun
  <2>2. ~Executes(i) /\ NextRun(Later(i)).pc \notin Executing
    BY <2>1, AtWork, NextRunIs DEF Executes, Executing
  <2> QED
    BY <2>1, <2>2, OneSweep, SameRuns
<1> QED
  BY <1>2, <1>3
LEMMA LoadMoves ==
    ASSUME RunIInv, RunIInv', HeldOK, NEW i \in Instances, LoadRun(i)
    PROVE  RunJobsMove
<1>1. PICK r : r = Current(i)
  OBVIOUS
<1>2. /\ sweeps[i].pc = "load" /\ sweeps[i] \in Sweep /\ UNCHANGED <<runs, did>> /\ r \in Runs
      /\ Executes(i) /\ did[r] = <<>> /\ runs[r].draft.steps \in Nat
  <2>1. sweeps[i].pc = "load" /\ sweeps[i] \in Sweep /\ UNCHANGED <<runs, did>>
    BY DEF LoadRun, RunIInv, SweepsOK
  <2>2. Executes(i)
    BY <2>1 DEF Executes, Executing
  <2>3. r \in Runs
    BY <1>1, <2>1, AtWork DEF Executing
  <2> QED
    BY <1>1, <2>1, <2>2, <2>3, RunTypes DEF HeldOK, HoldFits
<1>3. CASE runs[r].status = "GONE"
  <2>1. sweeps' = [sweeps EXCEPT ![i] = NextRun(Later(i))]
    BY <1>1, <1>3 DEF LoadRun
  <2>2. NextRun(Later(i)).pc \notin Executing
    BY <1>2, AtWork, NextRunIs DEF Executes
  <2> QED
    BY <1>1, <1>2, <2>1, <2>2, HolderMoves DEF GoesOn, Result
<1>4. CASE runs[r].status # "GONE"
  <2>1. PICK t : t = [sweeps[i] EXCEPT !.pc = "step", !.steps = runs[r].draft.steps, !.at = 1]
    OBVIOUS
  <2>2. sweeps' = [sweeps EXCEPT ![i] = t]
    BY <1>1, <1>4, <2>1 DEF LoadRun
  <2>3. t.pc = "step" /\ t.due = sweeps[i].due /\ t.at = 1 /\ t.steps = runs[r].draft.steps
    BY <1>2, <2>1 DEF Sweep
  <2>4. Len(did'[r]) = t.at - 1
    BY <1>2, <2>3
  <2> QED
    BY <1>1, <1>2, <2>2, <2>3, <2>4, HolderMoves DEF GoesOn, Result
<1> QED
  BY <1>3, <1>4

\* A step of the run: its effect, or none when it is refused.
LEMMA StepMoves ==
    ASSUME RunIInv, RunIInv', HeldOK, NEW i \in Instances,
           sweeps[i].pc = "step", UNCHANGED runs,
           \/ /\ Effect(i)
              /\ \/ sweeps' = [sweeps EXCEPT ![i] = AfterStep(sweeps[i])]
                 \/ sweeps' = [sweeps EXCEPT ![i] = [sweeps[i] EXCEPT !.pc = "fail"]]
                 \/ sweeps' = [sweeps EXCEPT ![i] = NextRun(Later(i))]
           \/ UNCHANGED did /\ sweeps' = [sweeps EXCEPT ![i] = [sweeps[i] EXCEPT !.pc = "fail"]]
    PROVE  RunJobsMove
<1>1. PICK r : r = Current(i)
  OBVIOUS
<1>2. /\ sweeps[i] \in Sweep /\ Executes(i) /\ r \in Runs /\ SweepKept(sweeps[i])
      /\ Len(did[r]) = sweeps[i].at - 1 /\ sweeps[i].steps = runs[r].draft.steps
      /\ sweeps[i].at \in Nat /\ sweeps[i].steps \in Nat /\ sweeps[i].at <= sweeps[i].steps
  <2>1. sweeps[i] \in Sweep /\ Executes(i) /\ SweepKept(sweeps[i])
    BY DEF RunIInv, SweepsOK, Executes, Executing
  <2>2. r \in Runs
    BY <1>1, <2>1, AtWork DEF Executes
  <2> QED
    BY <1>1, <2>1, <2>2, Bounds DEF HeldOK, HoldFits, SweepKept, Sweep, Steps
<1>3. PICK t : /\ sweeps' = [sweeps EXCEPT ![i] = t]
               /\ t = AfterStep(sweeps[i]) \/ t = [sweeps[i] EXCEPT !.pc = "fail"] \/ t = NextRun(Later(i))
               /\ Effect(i) \/ (UNCHANGED did /\ t = [sweeps[i] EXCEPT !.pc = "fail"])
  OBVIOUS
<1>4. /\ t.pc \in Executing =>
           /\ t.due = sweeps[i].due /\ t.pc # "load"
           /\ t.pc = "step" => t.at = sweeps[i].at + 1 /\ t.steps = sweeps[i].steps
           /\ t.pc = "succeed" => sweeps[i].at = sweeps[i].steps
      /\ t = [sweeps[i] EXCEPT !.pc = "fail"] => t.pc = "fail"
  <2>1. CASE t = [sweeps[i] EXCEPT !.pc = "fail"]
    BY <1>2, <2>1 DEF Sweep
  <2>2. CASE t = NextRun(Later(i))
    <3>1. t.pc \notin Executing
      BY <1>2, <2>2, AtWork, NextRunIs DEF Executes
    <3>2. [sweeps[i] EXCEPT !.pc = "fail"].pc = "fail"
      BY <1>2 DEF Sweep
    <3> QED
      BY <3>1, <3>2
  <2>3. CASE t = AfterStep(sweeps[i]) /\ sweeps[i].at = sweeps[i].steps
    <3>1. t = [sweeps[i] EXCEPT !.pc = "succeed"]
      BY <2>3 DEF AfterStep
    <3> QED
      BY <1>2, <2>3, <3>1 DEF Sweep
  <2>4. CASE t = AfterStep(sweeps[i]) /\ sweeps[i].at # sweeps[i].steps
    <3>1. t = [sweeps[i] EXCEPT !.at = sweeps[i].at + 1]
      BY <2>4 DEF AfterStep
    <3> QED
      BY <1>2, <3>1 DEF Sweep
  <2> QED
    BY <1>3, <2>1, <2>2, <2>3, <2>4
<1>5. CASE UNCHANGED did /\ t = [sweeps[i] EXCEPT !.pc = "fail"]
  BY <1>1, <1>2, <1>3, <1>4, <1>5, HolderMoves DEF GoesOn, Result
<1>6. CASE Effect(i)
  <2>1. did \in [Runs -> Seq(Steps)] /\ did[r] \in Seq(Steps)
    BY <1>2 DEF RunIInv, RunsOK
  <2>2. did' = [did EXCEPT ![r] = Append(did[r], sweeps[i].at)]
    BY <1>1, <1>6, <2>1 DEF Effect
  <2>3. Len(Append(did[r], sweeps[i].at)) = Len(did[r]) + 1
    BY <1>2, <2>1 DEF Sweep
  <2>4. Len(did'[r]) = Len(did[r]) + 1 /\ \A q \in Runs : q # r => did'[q] = did[q]
    BY <1>2, <2>1, <2>2, <2>3
  <2>5. t.pc \in Executing =>
           /\ t.due = sweeps[i].due /\ t.pc # "load"
           /\ t.pc = "step" => Len(did'[r]) = t.at - 1 /\ t.steps = runs[r].draft.steps
           /\ t.pc = "succeed" => Len(did'[r]) = runs[r].draft.steps
    BY <1>2, <1>4, <2>4
  <2>6. \A q \in Runs : q # r => runs'[q] = runs[q] /\ did'[q] = did[q]
    BY <2>4
  <2>7. GoesOn(i, r, t) /\ Result(i, r, t)
    BY <2>4, <2>5 DEF GoesOn, Result
  <2> QED
    BY <1>1, <1>2, <1>3, <2>6, <2>7, HolderMoves
<1> QED
  BY <1>3, <1>5, <1>6

LEMMA EffectsMove ==
    ASSUME RunIInv, RunIInv', HeldOK, NEW i \in Instances,
           \/ PostMessage(i) \/ PostMessageThrows(i) \/ HttpCall(i) \/ HttpCallFails(i) \/ RefuseStep(i)
    PROVE  RunJobsMove
<1>1. sweeps[i].pc = "step" /\ UNCHANGED runs
  BY DEF PostMessage, PostMessageThrows, HttpCall, HttpCallFails, RefuseStep
<1>2. \/ /\ Effect(i)
         /\ \/ sweeps' = [sweeps EXCEPT ![i] = AfterStep(sweeps[i])]
            \/ sweeps' = [sweeps EXCEPT ![i].pc = "fail"]
            \/ sweeps' = [sweeps EXCEPT ![i] = NextRun(Later(i))]
      \/ UNCHANGED did /\ sweeps' = [sweeps EXCEPT ![i].pc = "fail"]
  BY DEF PostMessage, PostMessageThrows, HttpCall, HttpCallFails, RefuseStep
<1>3. [sweeps EXCEPT ![i].pc = "fail"] = [sweeps EXCEPT ![i] = [sweeps[i] EXCEPT !.pc = "fail"]]
  BY DEF RunIInv, SweepsOK
<1> QED
  BY <1>1, <1>2, <1>3, StepMoves

LEMMA EndRunMoves ==
    ASSUME RunIInv, RunIInv', HeldOK, NEW i \in Instances, Succeed(i) \/ Fail(i)
    PROVE  RunJobsMove
<1>1. PICK status \in {"SUCCEEDED", "FAILED"} :
         EndRun(i, status) /\ sweeps[i].pc \in {"succeed", "fail"} /\ (status = "SUCCEEDED" => sweeps[i].pc = "succeed")
  BY DEF Succeed, Fail
<1>2. PICK r : r = Current(i)
  OBVIOUS
<1>3. Executes(i) /\ r \in Runs /\ UNCHANGED did /\ runs \in [Runs -> Run] /\ runs[r] \in Run
  <2>1. Executes(i) /\ UNCHANGED did
    BY <1>1 DEF EndRun, Executes, Executing
  <2>2. r \in Runs
    BY <1>2, <2>1, AtWork DEF Executes
  <2> QED
    BY <2>1, <2>2 DEF RunIInv, RunsOK
<1>4. PICK t : t = NextRun(Later(i))
  OBVIOUS
<1>5. sweeps' = [sweeps EXCEPT ![i] = t] /\ t.pc \notin Executing
  BY <1>1, <1>3, <1>4, AtWork, NextRunIs DEF EndRun, Executes
<1>6. CASE runs[r].status = "GONE"
  <2>1. UNCHANGED runs
    BY <1>1, <1>2, <1>6 DEF EndRun
  <2> QED
    BY <1>2, <1>3, <1>5, <2>1, HolderMoves DEF GoesOn, Result
<1>7. CASE runs[r].status # "GONE"
  <2>1. PICK q : q = [runs[r] EXCEPT !.status = status]
    OBVIOUS
  <2>2. q.status = status /\ q.draft = runs[r].draft
    BY <1>3, <2>1 DEF Run
  <2>3. runs' = [runs EXCEPT ![r] = q]
    BY <1>1, <1>2, <1>7, <2>1 DEF EndRun
  <2>4. runs'[r] = q /\ \A z \in Runs : z # r => runs'[z] = runs[z]
    BY <1>3, <2>3
  <2> QED
    BY <1>1, <1>2, <1>3, <1>5, <2>2, <2>4, HolderMoves DEF GoesOn, Result
<1> QED
  BY <1>6, <1>7

LEMMA StopsMove ==
    ASSUME RunIInv, RunIInv', HeldOK, NEW i \in Instances, ExecuteError(i) \/ AbortSweep(i)
    PROVE  RunJobsMove
<1>1. UNCHANGED <<runs, did>>
  BY DEF ExecuteError, AbortSweep
<1>2. PICK t : sweeps' = [sweeps EXCEPT ![i] = t] /\ t.pc \notin Executing
  <2>1. CASE ExecuteError(i)
    <3>1. sweeps' = [sweeps EXCEPT ![i] = NextRun(Later(i))] /\ sweeps[i].pc \in Executing
      BY <2>1 DEF ExecuteError, Executing
    <3>2. NextRun(Later(i)).pc \notin Executing
      BY <3>1, AtWork, NextRunIs
    <3> QED
      BY <3>1, <3>2
  <2>2. CASE AbortSweep(i)
    BY <2>2, Records DEF AbortSweep, Executing
  <2> QED
    BY <2>1, <2>2
<1>3. CASE Executes(i)
  BY <1>1, <1>2, <1>3, HolderMoves DEF GoesOn, Result
<1>4. CASE ~Executes(i)
  BY <1>1, <1>2, <1>4, OneSweep, SameRuns
<1> QED
  BY <1>3, <1>4

LEMMA TimeMoves ==
    ASSUME RunIInv, RunIInv', HeldOK, NEW r \in Runs, Age(r)
    PROVE  RunJobsMove
<1>1. UNCHANGED <<did, sweeps>> /\ runs \in [Runs -> Run] /\ runs[r] \in Run
  BY DEF Age, RunIInv, RunsOK
<1>2. PICK q : q = [runs[r] EXCEPT !.aged = TRUE]
  OBVIOUS
<1>3. q.status = runs[r].status /\ q.draft = runs[r].draft
  BY <1>1, <1>2 DEF Run
<1>4. runs' = [runs EXCEPT ![r] = q]
  BY <1>1, <1>2 DEF Age
<1>5. \A z \in Runs : StatusMay(z)
  BY <1>1, <1>3, <1>4 DEF StatusMay
<1> QED
  BY <1>1, <1>5, TableMoves

LEMMA RemoveMoves ==
    ASSUME RunIInv, RunIInv', HeldOK, NEW w \in Workflows, RemoveWorkflow(w)
    PROVE  RunJobsMove
<1>1. UNCHANGED <<did, sweeps>>
  BY DEF RemoveWorkflow
<1>2. ASSUME NEW r \in Runs PROVE StatusMay(r)
  <2>1. runs[r] \in Run /\ runs[r].status \in RunStatuses
    BY RunTypes
  <2>2. runs'[r] = IF runs[r].status # "ABSENT" /\ runs[r].draft.of = w
                   THEN [runs[r] EXCEPT !.status = "GONE"] ELSE runs[r]
    BY DEF RemoveWorkflow
  <2>3. CASE runs[r].status # "ABSENT" /\ runs[r].draft.of = w
    <3>1. runs'[r].status = "GONE" /\ runs'[r].draft = runs[r].draft
      BY <2>1, <2>2, <2>3 DEF Run
    <3> QED
      BY <2>1, <2>3, <3>1 DEF StatusMay, RunStatuses
  <2>4. CASE ~(runs[r].status # "ABSENT" /\ runs[r].draft.of = w)
    BY <2>2, <2>4 DEF StatusMay
  <2> QED
    BY <2>3, <2>4
<1> QED
  BY <1>1, <1>2, TableMoves

LEMMA InsertCallerMoves ==
    ASSUME RunIInv, RunIInv', HeldOK, NEW c \in Callers, InsertCaller(c)
    PROVE  RunJobsMove
<1>1. UNCHANGED <<did, sweeps>> /\ callers[c].verdict \in {"PENDING", "FAILED"}
  BY DEF InsertCaller, callerOthers, RunIInv, CallersOK, Caller
<1>2. UNCHANGED runs \/ Inserted(callers[c].draft, callers[c].verdict)
  BY DEF InsertCaller
<1>3. \A r \in Runs : StatusMay(r)
  <2>1. CASE UNCHANGED runs
    BY <2>1 DEF StatusMay
  <2> QED
    BY <1>1, <1>2, <2>1, InsertedMay
<1> QED
  BY <1>1, <1>3, TableMoves

LEMMA RunStepMoves ==
    ASSUME RunIInv, RunIInv', HeldOK, [RunNext]_runVars
    PROVE  RunJobsMove
<1>1. ASSUME UNCHANGED <<runs, did, sweeps>> PROVE RunJobsMove
  BY <1>1, SameRuns
<1>2. ASSUME NEW i \in Instances, SweepStep(i) PROVE RunJobsMove
  BY <1>2, ReadsMove, FailStaleMoves, FireMoves, ClaimRunMoves, LoadMoves, EffectsMove, EndRunMoves, StopsMove
     DEF SweepStep
<1>3. ASSUME NEW i \in Instances, AbortSweep(i) PROVE RunJobsMove
  BY <1>3, StopsMove
<1>4. ASSUME NEW c \in Callers, CallerStep(c) PROVE RunJobsMove
  <2>1. InsertCaller(c) \/ UNCHANGED <<runs, did, sweeps>>
    BY <1>4 DEF CallerStep, LoadTriggers, CountCaller, SendMessage, ReceiveWebhook, callerOthers
  <2> QED
    BY <1>1, <2>1, InsertCallerMoves
<1>5. ASSUME NEW r \in Runs, Age(r) PROVE RunJobsMove
  BY <1>5, TimeMoves
<1>6. ASSUME NEW w \in Workflows, RemoveWorkflow(w) PROVE RunJobsMove
  BY <1>6, RemoveMoves
<1>7. ASSUME ExpireTriggers \/ (\E w \in Workflows : BecomeDue(w) \/ Update(w)) \/ UNCHANGED runVars
      PROVE  RunJobsMove
  <2>1. UNCHANGED <<runs, did, sweeps>>
    BY <1>7 DEF ExpireTriggers, BecomeDue, Update, callerOthers, runVars
  <2> QED
    BY <1>1, <2>1
<1> QED
  BY <1>2, <1>3, <1>4, <1>5, <1>6, <1>7 DEF RunNext

LEMMA HeldInit == RunInit => HeldOK
<1> SUFFICES ASSUME RunInit PROVE HeldOK
  OBVIOUS
<1>1. \A i \in Instances : ~Executes(i)
  BY Records DEF RunInit, Executes, Executing
<1> QED
  BY <1>1 DEF RunInit, HeldOK
--------------------------------------------------------------------------------
(* Who delivers a reminder.                                                 *)

\* The tick of an instance is at the reminder of the n-th row of s.
At(i, s, n) == ticks[i].pc = "deliver" /\ <<s, n>> \in ticks[i].held

LEMMA DeliverersAre ==
    ASSUME NEW s, NEW n
    PROVE  /\ ReminderHolders(s, n) = {i \in Instances : At(i, s, n)}
           /\ ReminderHolders(s, n)' = {i \in Instances : At(i, s, n)'}
BY DEF ReminderHolders, At

\* What the invariant says of a tick past its claim.
LEMMA Delivering ==
    ASSUME ReminderIInv, NEW i \in Instances, NEW s \in Sources, NEW n \in Rows, At(i, s, n)
    PROVE  /\ ticks[i].held = {<<s, n>>} /\ n <= saved[s].id /\ notified[s][n] = 0
           /\ IsRow(s, n) => saved[s].reminded
           /\ ReminderHolders(s, n) = {i}
<1>1. ticks[i].held = {<<s, n>>} /\ notified[s][n] = 0 /\ (IsRow(s, n) => saved[s].reminded)
  <2>1. PICK d \in Sources \X Rows : ticks[i].held = {d} /\ (IsRow(d[1], d[2]) => saved[d[1]].reminded)
                                     /\ notified[d[1]][d[2]] = 0
    BY DEF At, ReminderIInv, TicksOK, TickFits
  <2>2. d = <<s, n>> /\ d[1] = s /\ d[2] = n
    BY <2>1 DEF At
  <2> QED
    BY <2>1, <2>2
<1>2. n <= saved[s].id
  <2>1. PICK d \in Sources \X Rows : d = <<s, n>>
    OBVIOUS
  <2>2. d[1] = s /\ d[2] = n /\ d \in ticks[i].held
    BY <1>1, <2>1
  <2>3. d[2] <= saved[d[1]].id
    BY <2>2 DEF ReminderIInv, TicksOK, TickFits
  <2> QED
    BY <2>2, <2>3
<1>3. ASSUME NEW k \in Instances, At(k, s, n) PROVE k = i
  <2>1. PICK d \in Sources \X Rows : ticks[k].held = {d}
    BY <1>3 DEF At, ReminderIInv, TicksOK, TickFits
  <2>2. ticks[k].held = ticks[i].held
    BY <1>1, <1>3, <2>1 DEF At
  <2> QED
    BY <1>3, <2>2 DEF At, ReminderIInv, TicksOK
<1> QED
  BY <1>1, <1>2, <1>3, DeliverersAre

LEMMA RowTypes ==
    ASSUME ReminderIInv, NEW s \in Sources, NEW n \in Rows
    PROVE  /\ saved[s] \in Saved /\ saved[s].id \in Nat /\ n \in Nat /\ notified[s][n] \in Nat
           /\ n > saved[s].id \/ (IsRow(s, n) /\ ~saved[s].reminded) =>
                 notified[s][n] = 0 /\ ReminderHolders(s, n) = {}
<1>1. saved[s] \in Saved /\ saved[s].id \in 0 .. MaxSaves /\ notified[s][n] \in Nat
  BY DEF ReminderIInv, ReminderTypeOK, Saved
<1>2. saved[s].id \in Nat /\ n \in Nat
  BY <1>1, ReminderRecords
<1>3. ASSUME n > saved[s].id \/ (IsRow(s, n) /\ ~saved[s].reminded)
      PROVE  notified[s][n] = 0 /\ ReminderHolders(s, n) = {}
  <2>1. notified[s][n] = 0
    BY <1>3 DEF ReminderIInv, RowsOK
  <2>2. ASSUME NEW i \in Instances, At(i, s, n) PROVE FALSE
    BY <1>2, <1>3, <2>2, Delivering
  <2> QED
    BY <2>1, <2>2, DeliverersAre
<1> QED
  BY <1>1, <1>2, <1>3

\* What the owner may do to a row: nothing the mapping shows, save or remove it.
RowMay(s) ==
    \/ /\ saved'[s].exists = saved[s].exists /\ saved'[s].id = saved[s].id
       /\ saved'[s].reminded = saved[s].reminded
    \/ /\ ~saved[s].exists /\ saved'[s].exists /\ saved'[s].id = saved[s].id + 1
       /\ saved'[s].reminded = FALSE
    \/ saved[s].exists /\ ~saved'[s].exists /\ saved'[s].id = saved[s].id

LEMMA OwnerMoves ==
    ASSUME ReminderIInv, NEW s \in Sources, NEW n \in Rows, UNCHANGED <<notified, ticks>>, RowMay(s)
    PROVE  JobMoves(ReminderJob(s, n), ReminderJob(s, n)')
<1>1. PICK a : a = ReminderJob(s, n)
  OBVIOUS
<1>2. PICK b : b = ReminderJob(s, n)'
  OBVIOUS
<1>3. /\ a.holders = ReminderHolders(s, n) /\ b.holders = a.holders
      /\ a.done = notified[s][n] /\ b.done = a.done
      /\ a.state = ReminderState(s, n) /\ b.state = ReminderState(s, n)'
      /\ a.work = ReminderWork(s, n) /\ b.work = ReminderWork(s, n)'
  BY <1>1, <1>2 DEF ReminderJob, ReminderDone, ReminderHolders
<1>4. PICK id \in Nat : id = saved[s].id /\ n \in Nat
  BY RowTypes
<1>5. n > id \/ (IsRow(s, n) /\ ~saved[s].reminded) => a.done = 0 /\ a.holders = {}
  BY <1>3, <1>4, RowTypes
<1>6. ASSUME b.state = a.state, b.work = a.work PROVE JobMoves(a, b)
  <2>1. a = b
    BY <1>1, <1>2, <1>3, <1>6 DEF ReminderJob
  <2> QED
    BY <2>1 DEF JobMoves
<1>7. CASE saved'[s].exists = saved[s].exists /\ saved'[s].id = saved[s].id /\ saved'[s].reminded = saved[s].reminded
  <2>1. b.state = a.state /\ b.work = a.work
    BY <1>3, <1>7 DEF ReminderState, ReminderWork, IsRow
  <2> QED
    BY <1>1, <1>2, <1>6, <2>1
<1>8. CASE ~saved[s].exists /\ saved'[s].exists /\ saved'[s].id = saved[s].id + 1 /\ saved'[s].reminded = FALSE
  <2>1. CASE n = id + 1
    <3>1. n > id /\ saved'[s].id = n
      BY <1>4, <1>8, <2>1
    <3>2. a.state = "absent"
      BY <1>3, <1>4, <3>1 DEF ReminderState
    <3>3. b.state = "open" /\ b.work \in Nat
      BY <1>3, <1>4, <1>8, <3>1 DEF ReminderState, ReminderWork, IsRow
    <3>4. Opens(a, b)
      BY <1>3, <1>5, <3>1, <3>2, <3>3 DEF Opens
    <3> QED
      BY <1>1, <1>2, <3>4 DEF JobMoves
  <2>2. CASE n # id + 1
    <3>1. b.state = a.state /\ b.work = a.work
      BY <1>3, <1>4, <1>8, <2>2 DEF ReminderState, ReminderWork, IsRow
    <3> QED
      BY <1>1, <1>2, <1>6, <3>1
  <2> QED
    BY <2>1, <2>2
<1>9. CASE saved[s].exists /\ ~saved'[s].exists /\ saved'[s].id = saved[s].id
  <2>1. CASE n # id
    <3>1. b.state = a.state /\ b.work = a.work
      BY <1>3, <1>4, <1>9, <2>1 DEF ReminderState, ReminderWork, IsRow
    <3> QED
      BY <1>1, <1>2, <1>6, <3>1
  <2>2. CASE n = id /\ saved[s].reminded
    <3>1. a.state = "taken" /\ b.state = "closed" /\ b.work = a.work
      BY <1>3, <1>4, <1>9, <2>2 DEF ReminderState, ReminderWork, IsRow
    <3>2. Drops(a, b)
      BY <1>3, <3>1 DEF Drops
    <3> QED
      BY <1>1, <1>2, <3>2 DEF JobMoves
  <2>3. CASE n = id /\ ~saved[s].reminded
    <3>1. a.state = "open" /\ b.state = "closed" /\ b.work \in Nat /\ IsRow(s, n)
      BY <1>3, <1>4, <1>9, <2>3 DEF ReminderState, ReminderWork, IsRow
    <3>2. Opens(a, b)
      BY <1>3, <1>5, <2>3, <3>1 DEF Opens
    <3> QED
      BY <1>1, <1>2, <3>2 DEF JobMoves
  <2> QED
    BY <2>1, <2>2, <2>3
<1> QED
  BY <1>7, <1>8, <1>9 DEF RowMay
\* A step of the sweep that is at no reminder before or after it.
LEMMA TickElsewhere ==
    ASSUME ReminderIInv, NEW i \in Instances, ticks[i].pc # "deliver",
           NEW t, t.pc # "deliver", ticks' = [ticks EXCEPT ![i] = t], UNCHANGED <<saved, notified>>
    PROVE  \A s \in Sources, n \in Rows : JobMoves(ReminderJob(s, n), ReminderJob(s, n)')
<1> SUFFICES ASSUME NEW s \in Sources, NEW n \in Rows
             PROVE  JobMoves(ReminderJob(s, n), ReminderJob(s, n)')
  OBVIOUS
<1>1. \A k \in Instances : ticks'[k] = IF k = i THEN t ELSE ticks[k]
  BY DEF ReminderIInv, ReminderTypeOK
<1>2. \A k \in Instances : At(k, s, n) <=> At(k, s, n)'
  BY <1>1 DEF At
<1>3. ReminderHolders(s, n)' = ReminderHolders(s, n)
  BY <1>2, DeliverersAre
<1>4. ReminderState(s, n)' = ReminderState(s, n) /\ ReminderWork(s, n)' = ReminderWork(s, n)
      /\ ReminderDone(s, n)' = ReminderDone(s, n)
  BY DEF ReminderState, ReminderWork, ReminderDone, IsRow
<1> QED
  BY <1>3, <1>4 DEF JobMoves, ReminderJob

\* The instance at a reminder leaves it, having delivered it or not.
LEMMA TickLeaves ==
    ASSUME ReminderIInv, NEW i \in Instances, NEW z \in Sources, NEW m \in Rows, At(i, z, m),
           NEW t, t.pc # "deliver", ticks' = [ticks EXCEPT ![i] = t], UNCHANGED saved,
           \A s \in Sources, n \in Rows : <<s, n>> # <<z, m>> => notified'[s][n] = notified[s][n],
           notified'[z][m] \in {notified[z][m], notified[z][m] + 1}
    PROVE  \A s \in Sources, n \in Rows : JobMoves(ReminderJob(s, n), ReminderJob(s, n)')
<1> SUFFICES ASSUME NEW s \in Sources, NEW n \in Rows
             PROVE  JobMoves(ReminderJob(s, n), ReminderJob(s, n)')
  OBVIOUS
<1>1. \A k \in Instances : ticks'[k] = IF k = i THEN t ELSE ticks[k]
  BY DEF ReminderIInv, ReminderTypeOK
<1>2. ticks[i].held = {<<z, m>>} /\ ReminderHolders(z, m) = {i} /\ m <= saved[z].id /\ notified[z][m] = 0
  BY Delivering
<1>3. ReminderState(s, n)' = ReminderState(s, n) /\ ReminderWork(s, n)' = ReminderWork(s, n)
  BY DEF ReminderState, ReminderWork, IsRow
<1>4. CASE <<s, n>> # <<z, m>>
  <2>1. \A k \in Instances : At(k, s, n) <=> At(k, s, n)'
    BY <1>1, <1>2, <1>4 DEF At
  <2>2. ReminderHolders(s, n)' = ReminderHolders(s, n)
    <3>1. /\ ReminderHolders(s, n) = {k \in Instances : At(k, s, n)}
          /\ ReminderHolders(s, n)' = {k \in Instances : At(k, s, n)'}
      BY DeliverersAre
    <3> QED
      BY <2>1, <3>1
  <2>3. ReminderDone(s, n)' = ReminderDone(s, n)
    BY <1>4 DEF ReminderDone
  <2> QED
    BY <1>3, <2>2, <2>3 DEF JobMoves, ReminderJob
<1>5. CASE <<s, n>> = <<z, m>>
  <2>1. s = z /\ n = m
    BY <1>5
  <2>2. \A k \in Instances : At(k, z, m) => k = i
    BY <1>2, DeliverersAre
  <2>3. \A k \in Instances : ~At(k, z, m)'
    BY <1>1, <2>2 DEF At
  <2>4. ReminderHolders(z, m)' = {}
    BY <2>3, DeliverersAre
  <2>5. PICK a : a = ReminderJob(z, m)
    OBVIOUS
  <2>6. PICK b : b = ReminderJob(z, m)'
    OBVIOUS
  <2>7. /\ a.holders = {i} /\ b.holders = {} /\ a.done = 0 /\ b.done = notified'[z][m]
        /\ b.state = a.state /\ b.work = a.work /\ a.work = ReminderWork(z, m) /\ a.state = ReminderState(z, m)
    BY <1>2, <1>3, <2>1, <2>4, <2>5, <2>6 DEF ReminderJob, ReminderDone
  <2>8. a.work = 1 /\ a.state # "finished"
    BY <1>2, <2>7, RowTypes DEF ReminderWork, ReminderState
  <2>9. CASE notified'[z][m] = notified[z][m]
    <3>1. Leaves(a, b)
      BY <1>2, <2>7, <2>8, <2>9 DEF Leaves
    <3> QED
      BY <2>1, <2>5, <2>6, <3>1 DEF JobMoves
  <2>10. CASE notified'[z][m] = notified[z][m] + 1
    <3>1. Carries(a, b)
      BY <1>2, <2>7, <2>8, <2>10 DEF Carries
    <3> QED
      BY <2>1, <2>5, <2>6, <3>1 DEF JobMoves
  <2> QED
    BY <2>9, <2>10
<1> QED
  BY <1>4, <1>5

LEMMA ClaimReminderMoves ==
    ASSUME ReminderIInv, NEW i \in Instances, Claim(i)
    PROVE  \A s \in Sources, n \in Rows : JobMoves(ReminderJob(s, n), ReminderJob(s, n)')
<1>1. PICK d \in ticks[i].due :
        LET row == saved[d[1]] IN
        IF IsRow(d[1], d[2]) /\ ~row.reminded /\ row.remindAt \in 1 .. ticks[i].now
        THEN /\ saved' = [saved EXCEPT ![d[1]].reminded = TRUE]
             /\ ticks' = [ticks EXCEPT ![i].pc = "deliver", ![i].due = @ \ {d}, ![i].held = {d}]
        ELSE /\ ticks' = [ticks EXCEPT ![i] = NextReminder(ticks[i], ticks[i].due \ {d})]
             /\ UNCHANGED saved
  BY DEF Claim
<1>2. UNCHANGED notified /\ ticks[i].pc = "claim" /\ ticks[i] \in Tick /\ ticks[i].due \subseteq Sources \X Rows
  BY DEF Claim, tickOthers, ReminderIInv, ReminderTypeOK, Tick
<1>3. PICK z \in Sources, m \in Rows : d = <<z, m>> /\ z = d[1] /\ m = d[2]
  BY <1>2
<1>4. CASE ~(IsRow(z, m) /\ ~saved[z].reminded /\ saved[z].remindAt \in 1 .. ticks[i].now)
  <2>1. PICK t : t = NextReminder(ticks[i], ticks[i].due \ {d})
    OBVIOUS
  <2>2. t.pc # "deliver"
    BY <2>1, NextReminderIs
  <2>3. ticks' = [ticks EXCEPT ![i] = t] /\ UNCHANGED saved
    BY <1>1, <1>3, <1>4, <2>1
  <2> QED
    BY <1>2, <2>2, <2>3, TickElsewhere
<1>5. CASE IsRow(z, m) /\ ~saved[z].reminded /\ saved[z].remindAt \in 1 .. ticks[i].now
  <2>1. saved[z] \in Saved /\ saved \in [Sources -> Saved]
    BY DEF ReminderIInv, ReminderTypeOK
  <2>2. PICK row : row = [saved[z] EXCEPT !.reminded = TRUE]
    OBVIOUS
  <2>3. row.reminded = TRUE /\ row.id = saved[z].id /\ row.exists = saved[z].exists
    BY <2>1, <2>2 DEF Saved
  <2>4. saved' = [saved EXCEPT ![z] = row]
    BY <1>1, <1>3, <1>5, <2>2
  <2>5. saved'[z] = row /\ \A s \in Sources : s # z => saved'[s] = saved[s]
    BY <2>1, <2>4
  <2>6. PICK t : t = [ticks[i] EXCEPT !.pc = "deliver", !.due = ticks[i].due \ {d}, !.held = {d}]
    OBVIOUS
  <2>7. t.pc = "deliver" /\ t.held = {<<z, m>>}
    BY <1>2, <1>3, <2>6 DEF Tick
  <2>8. ticks' = [ticks EXCEPT ![i] = t]
    BY <1>1, <1>3, <1>5, <2>6 DEF ReminderIInv, ReminderTypeOK
  <2>9. \A k \in Instances : ticks'[k] = IF k = i THEN t ELSE ticks[k]
    BY <2>8 DEF ReminderIInv, ReminderTypeOK
  <2>10. ASSUME NEW s \in Sources, NEW n \in Rows, <<s, n>> # <<z, m>>
         PROVE  JobMoves(ReminderJob(s, n), ReminderJob(s, n)')
    <3>1. \A k \in Instances : At(k, s, n) <=> At(k, s, n)'
      BY <1>2, <2>7, <2>9, <2>10 DEF At
    <3>2. ReminderHolders(s, n)' = ReminderHolders(s, n)
      BY <3>1, DeliverersAre
    <3>3. saved'[s].id = saved[s].id /\ (IsRow(s, n)' <=> IsRow(s, n))
      BY <2>3, <2>5 DEF IsRow
    <3>4. IsRow(s, n) => saved'[s].reminded = saved[s].reminded
      BY <1>5, <2>5, <2>10 DEF IsRow
    <3>5. ReminderState(s, n)' = ReminderState(s, n)
      BY <3>3, <3>4 DEF ReminderState
    <3>6. ReminderWork(s, n)' = ReminderWork(s, n) /\ ReminderDone(s, n)' = ReminderDone(s, n)
      BY <1>2, <3>3 DEF ReminderWork, ReminderDone
    <3> QED
      BY <3>2, <3>5, <3>6 DEF JobMoves, ReminderJob
  <2>11. JobMoves(ReminderJob(z, m), ReminderJob(z, m)')
    <3>1. ReminderHolders(z, m) = {} /\ notified[z][m] = 0 /\ m = saved[z].id /\ m \in Nat
      BY <1>5, RowTypes DEF IsRow
    <3>2. \A k \in Instances : At(k, z, m)' <=> k = i
      <4>1. \A k \in Instances : ~At(k, z, m)
        BY <3>1, DeliverersAre
      <4> QED
        BY <2>7, <2>9, <4>1 DEF At
    <3>3. ReminderHolders(z, m)' = {i}
      BY <3>2, DeliverersAre
    <3>4. PICK a : a = ReminderJob(z, m)
      OBVIOUS
    <3>5. PICK b : b = ReminderJob(z, m)'
      OBVIOUS
    <3>6. /\ b.holders = {i} /\ b.done = 0
          /\ a.state = ReminderState(z, m) /\ b.state = ReminderState(z, m)'
          /\ a.work = ReminderWork(z, m) /\ b.work = ReminderWork(z, m)'
      BY <1>2, <3>1, <3>3, <3>4, <3>5 DEF ReminderJob, ReminderDone
    <3>7. a.state = "open" /\ b.state = "taken" /\ b.work = a.work
      BY <1>5, <2>3, <2>5, <3>1, <3>6 DEF ReminderState, ReminderWork, IsRow
    <3>8. Takes(a, b)
      BY <3>6, <3>7 DEF Takes
    <3> QED
      BY <3>4, <3>5, <3>8 DEF JobMoves
  <2> QED
    BY <2>10, <2>11
<1> QED
  BY <1>4, <1>5

LEMMA DeliveryMoves ==
    ASSUME ReminderIInv, NEW i \in Instances, Deliver(i) \/ DeliverError(i) \/ AbortTick(i)
    PROVE  \A s \in Sources, n \in Rows : JobMoves(ReminderJob(s, n), ReminderJob(s, n)')
<1>1. PICK t : /\ ticks' = [ticks EXCEPT ![i] = t]
               /\ t = NextReminder(ticks[i], ticks[i].due) \/ t = IdleTick
  BY DEF Deliver, DeliverError, AbortTick
<1>2. t.pc # "deliver" /\ UNCHANGED saved
  BY <1>1, NextReminderIs DEF Deliver, DeliverError, AbortTick, tickOthers
<1>3. CASE ticks[i].pc # "deliver"
  <2>1. UNCHANGED notified
    BY <1>3 DEF Deliver, DeliverError, AbortTick
  <2> QED
    BY <1>1, <1>2, <1>3, <2>1, TickElsewhere
<1>4. CASE ticks[i].pc = "deliver"
  <2>1. PICK d \in Sources \X Rows : ticks[i].held = {d}
    BY <1>4 DEF ReminderIInv, TicksOK, TickFits
  <2>2. PICK z \in Sources, m \in Rows : d = <<z, m>> /\ z = d[1] /\ m = d[2]
    OBVIOUS
  <2>3. At(i, z, m)
    BY <1>4, <2>1, <2>2 DEF At
  <2>4. notified \in [Sources -> [Rows -> Nat]]
    BY DEF ReminderIInv, ReminderTypeOK
  <2>5. UNCHANGED notified \/ notified' = [notified EXCEPT ![z][m] = @ + 1]
    BY <2>1, <2>2 DEF Deliver, DeliverError, AbortTick
  <2>6. /\ \A s \in Sources, n \in Rows : <<s, n>> # <<z, m>> => notified'[s][n] = notified[s][n]
        /\ notified'[z][m] \in {notified[z][m], notified[z][m] + 1}
    BY <2>4, <2>5
  <2> QED
    BY <1>1, <1>2, <2>3, <2>6, TickLeaves
<1> QED
  BY <1>3, <1>4

LEMMA ReminderStepMoves ==
    ASSUME ReminderIInv, [ReminderNext]_reminderVars
    PROVE  \A s \in Sources, n \in Rows : JobMoves(ReminderJob(s, n), ReminderJob(s, n)')
<1>1. saved \in [Sources -> Saved]
  BY DEF ReminderIInv, ReminderTypeOK
<1>2. ASSUME UNCHANGED <<notified, ticks>>, \A s \in Sources : RowMay(s)
      PROVE  \A s \in Sources, n \in Rows : JobMoves(ReminderJob(s, n), ReminderJob(s, n)')
  BY <1>2, OwnerMoves
<1>3. CASE Pass \/ UNCHANGED reminderVars \/ (\E q \in Requests : FindRaced(q))
           \/ (\E q \in Requests, s \in Sources, t \in 0 .. MaxTime : StartSave(q, s, t))
  <2>1. UNCHANGED <<saved, notified, ticks>>
    BY <1>3 DEF Pass, FindRaced, StartSave, saveOthers, reminderVars
  <2> QED
    BY <1>2, <2>1 DEF RowMay
<1>4. ASSUME NEW q \in Requests, Create(q)
      PROVE  \A s \in Sources, n \in Rows : JobMoves(ReminderJob(s, n), ReminderJob(s, n)')
  <2>1. PICK z \in Sources : z = saves[q].source
    BY DEF ReminderIInv, ReminderTypeOK, Save
  <2>2. UNCHANGED <<notified, ticks>>
    BY <1>4 DEF Create, saveOthers
  <2>3. CASE saved[z].exists
    BY <1>2, <1>4, <2>1, <2>2, <2>3 DEF Create, RowMay
  <2>4. CASE ~saved[z].exists
    <3>1. PICK row : row = [exists |-> TRUE, id |-> saved[z].id + 1, remindAt |-> saves[q].remindAt, reminded |-> FALSE]
      OBVIOUS
    <3>2. saved' = [saved EXCEPT ![z] = row]
      BY <1>4, <2>1, <2>4, <3>1 DEF Create
    <3>3. row.exists /\ row.id = saved[z].id + 1 /\ row.reminded = FALSE
      BY <3>1
    <3>4. saved'[z] = row /\ \A s \in Sources : s # z => saved'[s] = saved[s]
      BY <1>1, <3>2
    <3>5. \A s \in Sources : RowMay(s)
      BY <2>4, <3>3, <3>4 DEF RowMay
    <3> QED
      BY <1>2, <2>2, <3>5
  <2> QED
    BY <2>3, <2>4
<1>5. ASSUME NEW q \in Requests, Reschedule(q)
      PROVE  \A s \in Sources, n \in Rows : JobMoves(ReminderJob(s, n), ReminderJob(s, n)')
  <2>1. PICK z \in Sources : z = saves[q].source
    BY DEF ReminderIInv, ReminderTypeOK, Save
  <2>2. PICK row : row = [saved[z] EXCEPT !.remindAt = saves[q].remindAt]
    OBVIOUS
  <2>3. row.exists = saved[z].exists /\ row.id = saved[z].id /\ row.reminded = saved[z].reminded
    BY <1>1, <2>1, <2>2 DEF Saved
  <2>4. UNCHANGED <<notified, ticks>> /\ (UNCHANGED saved \/ saved' = [saved EXCEPT ![z] = row])
    BY <1>5, <2>1, <2>2 DEF Reschedule, saveOthers
  <2>5. \A s \in Sources : RowMay(s)
    BY <1>1, <2>3, <2>4 DEF RowMay
  <2> QED
    BY <1>2, <2>4, <2>5
<1>6. ASSUME NEW z \in Sources, RemoveSaved(z)
      PROVE  \A s \in Sources, n \in Rows : JobMoves(ReminderJob(s, n), ReminderJob(s, n)')
  <2>1. PICK row : row = [saved[z] EXCEPT !.exists = FALSE]
    OBVIOUS
  <2>2. ~row.exists /\ row.id = saved[z].id
    BY <1>1, <2>1 DEF Saved
  <2>3. UNCHANGED <<notified, ticks>> /\ saved' = [saved EXCEPT ![z] = row] /\ saved[z].exists
    BY <1>6, <2>1 DEF RemoveSaved, saveOthers
  <2>4. saved'[z] = row /\ \A s \in Sources : s # z => saved'[s] = saved[s]
    BY <1>1, <2>3
  <2>5. \A s \in Sources : RowMay(s)
    BY <2>2, <2>3, <2>4 DEF RowMay
  <2> QED
    BY <1>2, <2>3, <2>5
<1>7. ASSUME NEW i \in Instances, FindReminders(i)
      PROVE  \A s \in Sources, n \in Rows : JobMoves(ReminderJob(s, n), ReminderJob(s, n)')
  <2>1. PICK due : ticks' = [ticks EXCEPT ![i] = [pc |-> "claim", now |-> clock, due |-> due, held |-> {}]]
    BY <1>7 DEF FindReminders
  <2>2. PICK t : t = [pc |-> "claim", now |-> clock, due |-> due, held |-> {}]
    OBVIOUS
  <2>3. t.pc # "deliver" /\ ticks' = [ticks EXCEPT ![i] = t]
    BY <2>1, <2>2
  <2>4. ticks[i].pc # "deliver" /\ UNCHANGED <<saved, notified>>
    BY <1>7 DEF FindReminders
  <2> QED
    BY <2>3, <2>4, TickElsewhere
<1> QED
  BY <1>3, <1>4, <1>5, <1>6, <1>7, ClaimReminderMoves, DeliveryMoves DEF ReminderNext

--------------------------------------------------------------------------------
\* Every behaviour of the services is, read through the mapping, a behaviour of
\* ClaimedJobs: a workflow run, or a reminder of a saved message, is taken by
\* one instance while it waits, its steps are carried out in order and at most
\* once, and a run reads SUCCEEDED only when none of them is missing.
THEOREM RunsAndRemindersAreJobs == SweepsSpec => ClaimsHonoured
<1>1. RunInit /\ ReminderInit => Claims!Init
  <2> SUFFICES ASSUME RunInit, ReminderInit PROVE Claims!Init
    OBVIOUS
  <2>1. \A r \in Runs : RunState(r) = "absent" /\ RunWork(r) = 0 /\ RunDone(r) = 0 /\ RunHolders(r) = {}
    BY Records DEF RunInit, RunState, RunWork, RunDone, RunHolders
  <2>2. \A s \in Sources, n \in Rows : /\ ReminderState(s, n) = "absent" /\ ReminderWork(s, n) = 0
                                       /\ ReminderDone(s, n) = 0 /\ ReminderHolders(s, n) = {}
    BY ReminderRecords DEF ReminderInit, ReminderState, ReminderWork, ReminderDone, ReminderHolders, IdleTick
  <2>3. \A j \in SweepJobs : /\ OfJob(RunState, ReminderState)[j] = "absent"
                             /\ OfJob(RunWork, ReminderWork)[j] = 0
                             /\ OfJob(RunDone, ReminderDone)[j] = 0
                             /\ OfJob(RunHolders, ReminderHolders)[j] = {}
    BY <2>1, <2>2 DEF OfJob, SweepJobs
  <2> QED
    BY <2>3 DEF Claims!Init, OfJob
<1>2. RunInit => HeldOK
  BY HeldInit
<1>3. RunIInv /\ RunIInv' /\ HeldOK /\ [RunNext]_runVars => HeldOK'
  BY RunStepMoves DEF RunJobsMove
<1>4. /\ RunIInv /\ RunIInv' /\ HeldOK /\ [RunNext]_runVars
      /\ ReminderIInv /\ [ReminderNext]_reminderVars
      => Claims!Next
  BY RunStepMoves, ReminderStepMoves, MovesAreSteps DEF RunJobsMove
<1>5. SweepsSpec => RunSpec /\ ReminderSpec
  BY EachService
<1> QED
  BY <1>1, <1>2, <1>3, <1>4, <1>5, RunInvariance, ReminderInvariance, PTL
     DEF RunSpec, ReminderSpec, ClaimsHonoured, Claims!Spec

--------------------------------------------------------------------------------
(* What that means for the tables.                                          *)

\* A job carries out no more than its work, and a finished one all of it.
JobFits(a) == a.work \in Nat /\ a.done \in Nat /\ a.done <= a.work /\ (a.state = "finished" => a.done = a.work)

LEMMA MovesKeep ==
    ASSUME NEW a, NEW b, JobFits(a), JobMoves(a, b)
    PROVE  JobFits(b)
BY DEF JobFits, JobMoves, Opens, Takes, Carries, Leaves, Drops

\* The steps of a run had their effect in the order of the workflow, each once;
\* all of them where it reads SUCCEEDED; and no reminder was delivered twice.
CarriedOut ==
    /\ \A r \in Runs :
         /\ \A k \in 1 .. Len(did[r]) : did[r][k] = k
         /\ Len(did[r]) <= runs[r].draft.steps
         /\ runs[r].status = "SUCCEEDED" => Len(did[r]) = runs[r].draft.steps
    /\ \A s \in Sources, n \in Rows : notified[s][n] <= 1

InOrder == \A r \in Runs : \A k \in 1 .. Len(did[r]) : did[r][k] = k

JobsFit ==
    /\ \A r \in Runs : JobFits(RunJob(r))
    /\ \A s \in Sources, n \in Rows : JobFits(ReminderJob(s, n))

LEMMA OrderKept ==
    ASSUME RunIInv, HeldOK, InOrder, [RunNext]_runVars
    PROVE  InOrder'
<1>1. did \in [Runs -> Seq(Steps)]
  BY DEF RunIInv, RunsOK
<1>2. UNCHANGED did \/ \E i \in Instances : sweeps[i].pc = "step" /\ Effect(i)
  <2>1. ASSUME NEW i \in Instances, SweepStep(i)
        PROVE  UNCHANGED did \/ (sweeps[i].pc = "step" /\ Effect(i))
    BY <2>1 DEF SweepStep, FindStale, FailStale, FindFires, ClaimFire, InsertFire, FindRuns, ClaimRun, LoadRun,
           PostMessage, PostMessageThrows, HttpCall, HttpCallFails, RefuseStep, Succeed, Fail, EndRun, ExecuteError
  <2>2. ASSUME NEW c \in Callers, CallerStep(c) PROVE UNCHANGED did
    BY <2>2 DEF CallerStep, LoadTriggers, CountCaller, InsertCaller, SendMessage, ReceiveWebhook, callerOthers
  <2>3. ASSUME \/ \E i \in Instances : AbortSweep(i)
               \/ \E r \in Runs : Age(r)
               \/ ExpireTriggers
               \/ \E w \in Workflows : BecomeDue(w) \/ Update(w) \/ RemoveWorkflow(w)
               \/ UNCHANGED runVars
        PROVE  UNCHANGED did
    BY <2>3 DEF AbortSweep, Age, ExpireTriggers, BecomeDue, Update, RemoveWorkflow, callerOthers, runVars
  <2> QED
    BY <2>1, <2>2, <2>3 DEF RunNext
<1>3. CASE UNCHANGED did
  BY <1>3 DEF InOrder
<1>4. ASSUME NEW i \in Instances, sweeps[i].pc = "step", Effect(i) PROVE InOrder'
  <2>1. PICK r : r = Current(i)
    OBVIOUS
  <2>2. Executes(i)
    BY <1>4 DEF Executes, Executing
  <2>3. r \in Runs /\ sweeps[i].at \in Steps /\ did[r] \in Seq(Steps)
    BY <1>1, <2>1, <2>2, AtWork DEF Executes, RunIInv, SweepsOK, Sweep
  <2>4. Len(did[r]) = sweeps[i].at - 1 /\ Len(did[r]) \in Nat /\ sweeps[i].at \in Nat
    BY <1>4, <2>1, <2>2, <2>3, Bounds DEF HeldOK, HoldFits, Steps
  <2>5. PICK n \in Nat : n = Len(did[r])
    BY <2>4
  <2>6. PICK s : s = Append(did[r], sweeps[i].at)
    OBVIOUS
  <2>7. sweeps[i].at = n + 1
    BY <2>4, <2>5
  <2>8. Len(s) = n + 1 /\ s[n + 1] = n + 1 /\ \A k \in 1 .. n : s[k] = did[r][k]
    BY <2>3, <2>5, <2>6, <2>7
  <2>9. \A k \in 1 .. Len(s) : s[k] = k
    BY <2>3, <2>5, <2>8 DEF InOrder
  <2>10. did' = [did EXCEPT ![r] = s]
    BY <1>1, <1>4, <2>1, <2>6 DEF Effect
  <2>11. did'[r] = s /\ \A q \in Runs : q # r => did'[q] = did[q]
    BY <1>1, <2>3, <2>10
  <2> QED
    BY <2>9, <2>11 DEF InOrder
<1> QED
  BY <1>2, <1>3, <1>4

\* The steps of a workflow run are carried out in the order of the workflow, each
\* at most once whatever crashes, errors and stale claims; a run reads SUCCEEDED
\* only when all of them were; and a saved message's reminder is delivered at most
\* once, by however many instances find it due.
THEOREM EachStepOnce == SweepsSpec => []CarriedOut
<1>1. RunInit /\ ReminderInit => JobsFit /\ InOrder
  <2> SUFFICES ASSUME RunInit, ReminderInit PROVE JobsFit /\ InOrder
    OBVIOUS
  <2>1. InOrder
    BY DEF RunInit, InOrder
  <2>2. ASSUME NEW r \in Runs PROVE JobFits(RunJob(r))
    BY Records DEF RunInit, RunJob, RunState, RunWork, RunDone, JobFits
  <2>3. ASSUME NEW s \in Sources, NEW n \in Rows PROVE JobFits(ReminderJob(s, n))
    BY ReminderRecords DEF ReminderInit, ReminderJob, ReminderState, ReminderWork, ReminderDone, JobFits
  <2> QED
    BY <2>1, <2>2, <2>3 DEF JobsFit
<1>2. /\ RunIInv /\ RunIInv' /\ HeldOK /\ [RunNext]_runVars
      /\ ReminderIInv /\ [ReminderNext]_reminderVars
      /\ JobsFit
      => JobsFit' /\ HeldOK'
  BY RunStepMoves, ReminderStepMoves, MovesKeep DEF RunJobsMove, JobsFit
<1>3. RunIInv /\ HeldOK /\ InOrder /\ [RunNext]_runVars => InOrder'
  BY OrderKept
<1>4. RunIInv /\ ReminderIInv /\ JobsFit /\ HeldOK /\ InOrder => CarriedOut
  <2> SUFFICES ASSUME RunIInv, ReminderIInv, JobsFit, HeldOK, InOrder PROVE CarriedOut
    OBVIOUS
  <2>1. ASSUME NEW r \in Runs
        PROVE  /\ Len(did[r]) <= runs[r].draft.steps
               /\ runs[r].status = "SUCCEEDED" => Len(did[r]) = runs[r].draft.steps
    <3>1. JobFits(RunJob(r)) /\ runs[r].draft.steps \in Nat
      BY RunTypes DEF JobsFit
    <3>2. CASE runs[r].status = "ABSENT"
      BY <3>1, <3>2 DEF HeldOK
    <3>3. CASE runs[r].status # "ABSENT"
      <4>1. RunWork(r) = runs[r].draft.steps /\ RunDone(r) = Len(did[r])
        BY <3>3 DEF RunWork, RunDone
      <4>2. runs[r].status = "SUCCEEDED" => RunState(r) = "finished"
        BY DEF RunState
      <4> QED
        BY <3>1, <4>1, <4>2 DEF JobFits, RunJob
    <3> QED
      BY <3>2, <3>3
  <2>2. ASSUME NEW s \in Sources, NEW n \in Rows PROVE notified[s][n] <= 1
    <3>1. JobFits(ReminderJob(s, n))
      BY DEF JobsFit
    <3>2. notified[s][n] <= ReminderWork(s, n) /\ ReminderWork(s, n) \in {0, 1} /\ notified[s][n] \in Nat
      BY <3>1 DEF JobFits, ReminderJob, ReminderDone, ReminderWork
    <3> QED
      BY <3>2
  <2> QED
    BY <2>1, <2>2 DEF CarriedOut, InOrder
<1>5. SweepsSpec => RunSpec /\ ReminderSpec
  BY EachService
<1> QED
  BY <1>1, <1>2, <1>3, <1>4, <1>5, HeldInit, RunInvariance, ReminderInvariance, PTL DEF RunSpec, ReminderSpec
================================================================================
