------------------------------- MODULE Reminders -------------------------------
(***************************************************************************)
(* Reminders of saved messages: the owner saves a message, reschedules or  *)
(* removes it (SavedMessagesService), and the sweep of every API instance  *)
(* delivers what is due (ReminderSweepService).                            *)
(***************************************************************************)
EXTENDS Deployment, Integers, FiniteSets

CONSTANTS
    Sources,       \* messages one owner may save; a row each, by the unique index
    Requests,      \* save requests that may be in flight
    MaxTime,       \* bound of the clock
    MaxSaves,      \* bound of the rows a source may have had
    ReminderFaults \* bound of crashes and errors

ASSUME ReminderAssumption ==
    /\ Sources # {}
    /\ {MaxTime, MaxSaves, ReminderFaults} \subseteq Nat /\ MaxTime > 0

VARIABLES
    clock,      \* wall clock
    saved,      \* the SavedMessage row of each source
    notified,   \* notified[s][n]: reminders delivered for the n-th row of s
    saves,      \* save requests in flight
    ticks,      \* the sweep of each instance
    failures    \* crashes and errors so far

reminderVars == <<clock, saved, notified, saves, ticks, failures>>

--------------------------------------------------------------------------------
Rows == 1 .. MaxSaves

\* The id of the row (0 when none was ever saved), remindAt (0 is null), and
\* whether remindedAt is set.
Saved == [exists : BOOLEAN, id : 0 .. MaxSaves, remindAt : 0 .. MaxTime, reminded : BOOLEAN]

Save == [pc : {"idle", "create", "find", "reschedule"}, source : Sources, id : 0 .. MaxSaves,
         remindAt : 0 .. MaxTime]

Tick == [pc : {"idle", "claim", "deliver"}, now : 0 .. MaxTime,
         due : SUBSET (Sources \X Rows), held : SUBSET (Sources \X Rows)]

ReminderTypeOK ==
    /\ clock \in 1 .. MaxTime
    /\ saved \in [Sources -> Saved]
    /\ notified \in [Sources -> [Rows -> Nat]]
    /\ saves \in [Requests -> Save]
    /\ ticks \in [Instances -> Tick]
    /\ failures \in 0 .. ReminderFaults

IdleSave == [pc |-> "idle", source |-> CHOOSE s \in Sources : TRUE, id |-> 0, remindAt |-> 0]
IdleTick == [pc |-> "idle", now |-> 0, due |-> {}, held |-> {}]

ReminderInit ==
    /\ clock = 1
    /\ saved = [s \in Sources |-> [exists |-> FALSE, id |-> 0, remindAt |-> 0, reminded |-> FALSE]]
    /\ notified = [s \in Sources |-> [n \in Rows |-> 0]]
    /\ saves = [q \in Requests |-> IdleSave]
    /\ ticks = [i \in Instances |-> IdleTick]
    /\ failures = 0

Pass ==
    /\ clock < MaxTime
    /\ clock' = clock + 1
    /\ UNCHANGED <<saved, notified, saves, ticks, failures>>

--------------------------------------------------------------------------------
(* The owner.                                                               *)

saveOthers == <<clock, notified, ticks, failures>>

\* Where a save that found row saved[s] goes on: reschedule returns at once
\* without a new time and refuses a reminder that was sent.
Found(s, t) ==
    IF t = 0 \/ saved[s].reminded THEN IdleSave
    ELSE [pc |-> "reschedule", source |-> s, id |-> saved[s].id, remindAt |-> t]

\* save: a time lies ahead; the row is looked up.
StartSave(q, s, t) ==
    /\ saves[q].pc = "idle"
    /\ t = 0 \/ t > clock
    /\ saved[s].id < MaxSaves \/ saved[s].exists
    /\ saves' = [saves EXCEPT ![q] =
          IF saved[s].exists THEN Found(s, t)
          ELSE [pc |-> "create", source |-> s, id |-> 0, remindAt |-> t]]
    /\ UNCHANGED <<saved, saveOthers>>

\* The insert; the unique index refuses a second row, which is then looked up.
Create(q) ==
    LET s == saves[q].source IN
    /\ saves[q].pc = "create"
    /\ IF saved[s].exists
       THEN saves' = [saves EXCEPT ![q].pc = "find"] /\ UNCHANGED saved
       ELSE /\ saved[s].id < MaxSaves
            /\ saved' = [saved EXCEPT ![s] = [exists |-> TRUE, id |-> saved[s].id + 1,
                                              remindAt |-> saves[q].remindAt, reminded |-> FALSE]]
            /\ saves' = [saves EXCEPT ![q] = IdleSave]
    /\ UNCHANGED saveOthers

FindRaced(q) ==
    LET s == saves[q].source IN
    /\ saves[q].pc = "find"
    /\ saves' = [saves EXCEPT ![q] = IF saved[s].exists THEN Found(s, saves[q].remindAt) ELSE IdleSave]
    /\ UNCHANGED <<saved, saveOthers>>

\* The row s is still the one of id n.
IsRow(s, n) == saved[s].exists /\ saved[s].id = n

\* reschedule: conditional on remindedAt, so a sweep that claimed the row wins.
Reschedule(q) ==
    LET s == saves[q].source IN
    /\ saves[q].pc = "reschedule"
    /\ saved' = IF IsRow(s, saves[q].id) /\ ~saved[s].reminded
                THEN [saved EXCEPT ![s].remindAt = saves[q].remindAt] ELSE saved
    /\ saves' = [saves EXCEPT ![q] = IdleSave]
    /\ UNCHANGED saveOthers

RemoveSaved(s) ==
    /\ saved[s].exists
    /\ saved' = [saved EXCEPT ![s].exists = FALSE]
    /\ UNCHANGED <<saves, saveOthers>>

--------------------------------------------------------------------------------
(* The sweep.                                                               *)

tickOthers == <<clock, saves, failures>>

NextReminder(t, rest) == IF rest = {} THEN IdleTick ELSE [t EXCEPT !.pc = "claim", !.due = rest, !.held = {}]

\* A tick that finds nothing due leaves no trace.
FindReminders(i) ==
    LET due == {<<s, saved[s].id>> : s \in {x \in Sources : /\ saved[x].exists
                                                           /\ saved[x].remindAt \in 1 .. clock
                                                           /\ ~saved[x].reminded}} IN
    /\ ticks[i].pc = "idle"
    /\ due # {}
    /\ ticks' = [ticks EXCEPT ![i] = [pc |-> "claim", now |-> clock, due |-> due, held |-> {}]]
    /\ UNCHANGED <<saved, notified, tickOthers>>

\* The conditional claim of one of the rows found.
Claim(i) ==
    /\ ticks[i].pc = "claim"
    /\ \E d \in ticks[i].due :
         LET row == saved[d[1]] IN
         IF IsRow(d[1], d[2]) /\ ~row.reminded /\ row.remindAt \in 1 .. ticks[i].now
         THEN /\ saved' = [saved EXCEPT ![d[1]].reminded = TRUE]
              /\ ticks' = [ticks EXCEPT ![i].pc = "deliver", ![i].due = @ \ {d}, ![i].held = {d}]
         ELSE /\ ticks' = [ticks EXCEPT ![i] = NextReminder(ticks[i], ticks[i].due \ {d})]
              /\ UNCHANGED saved
    /\ UNCHANGED <<notified, tickOthers>>

\* deliver: one inbox entry; a row removed since the claim is left alone.
Deliver(i) ==
    /\ ticks[i].pc = "deliver"
    /\ \E d \in ticks[i].held :
         notified' = IF IsRow(d[1], d[2]) THEN [notified EXCEPT ![d[1]][d[2]] = @ + 1] ELSE notified
    /\ ticks' = [ticks EXCEPT ![i] = NextReminder(ticks[i], ticks[i].due)]
    /\ UNCHANGED <<saved, tickOthers>>

\* A delivery that fails after its claim is logged and not retried.
DeliverError(i) ==
    /\ ticks[i].pc = "deliver"
    /\ failures < ReminderFaults
    /\ failures' = failures + 1
    /\ ticks' = [ticks EXCEPT ![i] = NextReminder(ticks[i], ticks[i].due)]
    /\ UNCHANGED <<clock, saved, notified, saves>>

\* A crash, or an error that ends the tick.
AbortTick(i) ==
    /\ ticks[i].pc # "idle"
    /\ failures < ReminderFaults
    /\ failures' = failures + 1
    /\ ticks' = [ticks EXCEPT ![i] = IdleTick]
    /\ UNCHANGED <<clock, saved, notified, saves>>

--------------------------------------------------------------------------------
ReminderNext ==
    \/ Pass
    \/ \E q \in Requests : Create(q) \/ FindRaced(q) \/ Reschedule(q)
    \/ \E q \in Requests, s \in Sources, t \in 0 .. MaxTime : StartSave(q, s, t)
    \/ \E s \in Sources : RemoveSaved(s)
    \/ \E i \in Instances : FindReminders(i) \/ Claim(i) \/ Deliver(i) \/ DeliverError(i) \/ AbortTick(i)

ReminderSpec == ReminderInit /\ [][ReminderNext]_reminderVars

--------------------------------------------------------------------------------
(* The n-th row of source s as a job of ClaimedJobs: one piece of work.     *)

ReminderState(s, n) ==
    IF n > saved[s].id THEN "absent"
    ELSE IF ~IsRow(s, n) THEN "closed"
    ELSE IF saved[s].reminded THEN "taken" ELSE "open"

ReminderHolders(s, n) == {i \in Instances : ticks[i].pc = "deliver" /\ <<s, n>> \in ticks[i].held}

ReminderWork(s, n) == IF n > saved[s].id THEN 0 ELSE 1
================================================================================
