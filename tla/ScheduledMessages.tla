--------------------------- MODULE ScheduledMessages ---------------------------
(***************************************************************************)
(* Scheduled messages: the author's API (create, update, remove), the      *)
(* delivery sweep every API instance runs on a timer, and the account      *)
(* deletion that fails an author's pending rows.                           *)
(*                                                                         *)
(* One action is one statement the database or the send path commits on    *)
(* its own; everything between two awaits of one process belongs to the    *)
(* action before it.  An instance's sweep is a program counter and the     *)
(* values its local variables hold across those awaits.                    *)
(***************************************************************************)
EXTENDS Integers, Sequences, FiniteSets

CONSTANTS
    Instances,     \* API processes, each with its own sweep timer
    Messages,      \* identities of rows of the ScheduledMessage table
    Requests,      \* API calls that may be in flight at the same time
    Accounts,      \* users
    Destinations,  \* channels and conversations
    Author,        \* [Messages -> Accounts]
    Dest,          \* [Messages -> Destinations]
    NoRow,         \* a local variable that holds no row
    Batch,         \* SCHEDULED_SWEEP_BATCH
    PendingLimit,  \* SCHEDULED_PENDING_LIMIT_PER_DESTINATION
    StaleClaim,    \* SCHEDULED_STALE_CLAIM_MS, in clock units
    MinLead,       \* MIN_LEAD_MS - LEAD_GRACE_MS, in clock units
    MaxLead,       \* MAX_LEAD_MS, in clock units
    TickBound,     \* longest a sweep tick may last; the code sets no such bound
    MaxTime,       \* bound of the clock
    MaxRev,        \* bound of the accepted writes to one row
    MaxFaults      \* bound of crashes and database errors

ASSUME ScheduledAssumption ==
    /\ IsFiniteSet(Messages)
    /\ Author \in [Messages -> Accounts]
    /\ Dest \in [Messages -> Destinations]
    /\ NoRow \notin Messages
    /\ Batch \in Nat \ {0}
    /\ PendingLimit \in Nat
    /\ StaleClaim \in Nat
    /\ MinLead \in Nat
    /\ MaxLead \in Nat
    /\ TickBound \in Nat
    /\ MaxTime \in Nat
    /\ MaxRev \in Nat \ {0}
    /\ MaxFaults \in Nat

VARIABLES
    clock,     \* wall clock, shared by every instance
    rows,      \* the ScheduledMessage table
    posts,     \* posts[m][r]: chat messages created from revision r of row m
    notices,   \* SCHEDULED_MESSAGE_FAILED notifications stored for a row
    account,   \* deletion state of each account
    deleted,   \* destinations that were deleted
    sweeps,    \* the sweep of each instance
    requests,  \* the API calls in flight
    faults     \* crashes and errors so far

vars == <<clock, rows, posts, notices, account, deleted, sweeps, requests, faults>>

--------------------------------------------------------------------------------
Statuses == {"ABSENT", "PENDING", "SENDING", "SENT", "FAILED", "REMOVED"}
EditableStatuses == {"PENDING", "FAILED"}
Revisions == 1 .. MaxRev

\* A row as the table holds it.  rev counts the accepted writes of the author,
\* so it names the content and time that were saved together; sent is the
\* revision the chat message in sentMessageId was made from (0 is null).
Row == [status : Statuses, sendAt : Nat, claimedAt : Nat, rev : 0 .. MaxRev,
        sent : 0 .. MaxRev]

SweepPhases == {"idle", "findStale", "failStale", "tellStale", "findDue", "claim",
                "load", "send", "finish", "tell"}

Sweep == [pc : SweepPhases, now : Nat, stale : SUBSET Messages, due : Seq(Messages),
          row : Messages \cup {NoRow}, rev : 0 .. MaxRev, outcome : {"none", "SENT", "FAILED"}]

Request == [pc : {"idle", "count", "write"}, row : Messages \cup {NoRow},
            status : Statuses, sendAt : Nat]

AccountStates == {"ACTIVE", "DELETING", "ERASED"}

TypeOK ==
    /\ clock \in Nat
    /\ rows \in [Messages -> Row]
    /\ posts \in [Messages -> [Revisions -> Nat]]
    /\ notices \in [Messages -> Nat]
    /\ account \in [Accounts -> AccountStates]
    /\ deleted \subseteq Destinations
    /\ sweeps \in [Instances -> Sweep]
    /\ requests \in [Requests -> Request]
    /\ faults \in 0 .. MaxFaults

--------------------------------------------------------------------------------
IdleSweep == [pc |-> "idle", now |-> 0, stale |-> {}, due |-> <<>>, row |-> NoRow,
              rev |-> 0, outcome |-> "none"]
IdleRequest == [pc |-> "idle", row |-> NoRow, status |-> "ABSENT", sendAt |-> 0]
AbsentRow == [status |-> "ABSENT", sendAt |-> 0, claimedAt |-> 0, rev |-> 0, sent |-> 0]

Init ==
    /\ clock = 0
    /\ rows = [m \in Messages |-> AbsentRow]
    /\ posts = [m \in Messages |-> [r \in Revisions |-> 0]]
    /\ notices = [m \in Messages |-> 0]
    /\ account = [a \in Accounts |-> "ACTIVE"]
    /\ deleted = {}
    /\ sweeps = [i \in Instances |-> IdleSweep]
    /\ requests = [q \in Requests |-> IdleRequest]
    /\ faults = 0

\* A tick of the wall clock.  TickBound is the one assumption about speed: no
\* sweep is still running TickBound units after the time it captured.
Tick ==
    /\ clock < MaxTime
    /\ \A i \in Instances : sweeps[i].pc # "idle" => clock < sweeps[i].now + TickBound
    /\ clock' = clock + 1
    /\ UNCHANGED <<rows, posts, notices, account, deleted, sweeps, requests, faults>>

--------------------------------------------------------------------------------
(* The author's API.  A request is authenticated when it starts; a deletion *)
(* request revokes the sessions, so it stops later requests and not the     *)
(* ones already past the guard.                                             *)

ValidSendAt(t) == clock + MinLead <= t /\ t <= clock + MaxLead

PendingOf(m) == {n \in Messages : /\ Author[n] = Author[m]
                                  /\ Dest[n] = Dest[m]
                                  /\ rows[n].status = "PENDING"}

requestOthers == <<clock, posts, notices, account, deleted, sweeps, faults>>

\* createForChannel / createForConversation up to the limit check; m is the
\* id the insert will get.
StartCreate(q, m, t) ==
    /\ requests[q].pc = "idle"
    /\ rows[m].status = "ABSENT"
    /\ \A p \in Requests : requests[p].row # m
    /\ account[Author[m]] = "ACTIVE"
    /\ Dest[m] \notin deleted
    /\ ValidSendAt(t)
    /\ requests' = [requests EXCEPT ![q] =
          [pc |-> "count", row |-> m, status |-> "ABSENT", sendAt |-> t]]
    /\ UNCHANGED <<rows, requestOthers>>

\* update: reads the row; a failed one needs a valid time and passes the limit
\* check, a pending one may keep its time and skips it.
StartUpdate(q, m, t) ==
    /\ requests[q].pc = "idle"
    /\ account[Author[m]] = "ACTIVE"
    /\ rows[m].status \in EditableStatuses
    /\ rows[m].rev < MaxRev
    /\ \/ ValidSendAt(t)
       \/ t = rows[m].sendAt /\ rows[m].status = "PENDING"
    /\ requests' = [requests EXCEPT ![q] =
          [pc |-> IF rows[m].status = "FAILED" THEN "count" ELSE "write",
           row |-> m, status |-> rows[m].status, sendAt |-> t]]
    /\ UNCHANGED <<rows, requestOthers>>

\* requireBelowPendingLimit: a count of its own, before the write.
CountPending(q) ==
    /\ requests[q].pc = "count"
    /\ requests' = [requests EXCEPT ![q] =
          IF Cardinality(PendingOf(requests[q].row)) >= PendingLimit
          THEN IdleRequest
          ELSE [requests[q] EXCEPT !.pc = "write"]]
    /\ UNCHANGED <<rows, requestOthers>>

\* The row as the author's write leaves it; claimedAt and sentMessageId stay.
Rescheduled(r, t) == [status |-> "PENDING", sendAt |-> t, claimedAt |-> r.claimedAt,
                      rev |-> r.rev + 1, sent |-> r.sent]

\* The insert of create.  A destination deleted meanwhile fails its foreign key.
WriteCreate(q) ==
    LET m == requests[q].row IN
    /\ requests[q].pc = "write"
    /\ requests[q].status = "ABSENT"
    /\ rows' = IF Dest[m] \in deleted THEN rows
               ELSE [rows EXCEPT ![m] = Rescheduled(AbsentRow, requests[q].sendAt)]
    /\ requests' = [requests EXCEPT ![q] = IdleRequest]
    /\ UNCHANGED requestOthers

\* Faulty form: the update is not conditional on the status that was read.
WriteUpdateUnconditional(q) ==
    LET m == requests[q].row IN
    /\ requests[q].pc = "write"
    /\ requests[q].status \in EditableStatuses
    /\ rows[m].rev < MaxRev
    /\ rows' = [rows EXCEPT ![m] = Rescheduled(rows[m], requests[q].sendAt)]
    /\ requests' = [requests EXCEPT ![q] = IdleRequest]
    /\ UNCHANGED requestOthers

\* The updateMany of update, conditional on the status that was read.
WriteUpdate(q) ==
    LET m == requests[q].row IN
    /\ requests[q].pc = "write"
    /\ requests[q].status \in EditableStatuses
    /\ \/ /\ rows[m].status = requests[q].status
          /\ rows[m].rev < MaxRev
          /\ rows' = [rows EXCEPT ![m] = Rescheduled(rows[m], requests[q].sendAt)]
       \/ /\ rows[m].status # requests[q].status
          /\ UNCHANGED rows
    /\ requests' = [requests EXCEPT ![q] = IdleRequest]
    /\ UNCHANGED requestOthers

\* Faulty form: the row is marked with a status the enumeration does not have.
RemoveByStatus(m) ==
    /\ account[Author[m]] = "ACTIVE"
    /\ rows[m].status \in EditableStatuses
    /\ rows' = [rows EXCEPT ![m].status = "CANCELLED"]
    /\ UNCHANGED <<requests, requestOthers>>

\* remove: one conditional delete.
Remove(m) ==
    /\ account[Author[m]] = "ACTIVE"
    /\ rows[m].status \in EditableStatuses
    /\ rows' = [rows EXCEPT ![m].status = "REMOVED"]
    /\ UNCHANGED <<requests, requestOthers>>

--------------------------------------------------------------------------------
(* What happens to the account and the destination around a row.            *)

\* The transaction of requestDeletion: the flag, the pending rows, the
\* sessions (the guards of StartCreate, StartUpdate and Remove).
RequestDeletion(a) ==
    /\ account[a] = "ACTIVE"
    /\ account' = [account EXCEPT ![a] = "DELETING"]
    /\ rows' = [m \in Messages |->
          IF Author[m] = a /\ rows[m].status = "PENDING"
          THEN [rows[m] EXCEPT !.status = "FAILED"] ELSE rows[m]]
    /\ UNCHANGED <<clock, posts, notices, deleted, sweeps, requests, faults>>

CancelDeletion(a) ==
    /\ account[a] = "DELETING"
    /\ account' = [account EXCEPT ![a] = "ACTIVE"]
    /\ UNCHANGED <<clock, rows, posts, notices, deleted, sweeps, requests, faults>>

\* The table after the rows of S are deleted.
WithoutRows(S) ==
    [m \in Messages |-> IF m \in S /\ rows[m].status # "ABSENT"
                        THEN [rows[m] EXCEPT !.status = "REMOVED"] ELSE rows[m]]

\* Anonymization at the end of the grace period of days: nothing begun before
\* the deletion was requested is still in flight.
CompleteDeletion(a) ==
    /\ account[a] = "DELETING"
    /\ \A q \in Requests : requests[q].row \in Messages => Author[requests[q].row] # a
    /\ \A i \in Instances : sweeps[i].row \in Messages => Author[sweeps[i].row] # a
    /\ account' = [account EXCEPT ![a] = "ERASED"]
    /\ rows' = WithoutRows({m \in Messages : Author[m] = a})
    /\ UNCHANGED <<clock, posts, notices, deleted, sweeps, requests, faults>>

\* A deleted channel or conversation takes its rows along (onDelete: Cascade).
DeleteDestination(d) ==
    /\ d \notin deleted
    /\ deleted' = deleted \cup {d}
    /\ rows' = WithoutRows({m \in Messages : Dest[m] = d})
    /\ UNCHANGED <<clock, posts, notices, account, sweeps, requests, faults>>

--------------------------------------------------------------------------------
(* The sweep.                                                               *)

sweepOthers == <<clock, account, deleted, requests, faults>>

\* The timer fires and isSweeping is false: now is captured here, once.
StartSweep(i) ==
    /\ sweeps[i].pc = "idle"
    /\ sweeps' = [sweeps EXCEPT ![i] = [IdleSweep EXCEPT !.pc = "findStale", !.now = clock]]
    /\ UNCHANGED <<rows, posts, notices, sweepOthers>>

IsStale(m, now) == rows[m].status = "SENDING" /\ rows[m].claimedAt < now - StaleClaim

AtMost(n) == IF n <= Batch THEN n ELSE Batch

\* Faulty form: the sweep has no stale pass.
FindStaleNever(i) ==
    /\ sweeps[i].pc = "findStale"
    /\ sweeps' = [sweeps EXCEPT ![i].pc = "findDue"]
    /\ UNCHANGED <<rows, posts, notices, sweepOthers>>

\* failStaleClaims: an unordered findMany of at most Batch rows.
FindStale(i) ==
    LET old == {m \in Messages : IsStale(m, sweeps[i].now)} IN
    /\ sweeps[i].pc = "findStale"
    /\ \E S \in SUBSET old :
         /\ Cardinality(S) = AtMost(Cardinality(old))
         /\ sweeps' = [sweeps EXCEPT ![i].stale = S,
                                     ![i].pc = IF S = {} THEN "findDue" ELSE "failStale"]
    /\ UNCHANGED <<rows, posts, notices, sweepOthers>>

\* Where the loop over the stale rows goes after row m.
AfterStale(s, m) == [s EXCEPT !.stale = s.stale \ {m}, !.row = NoRow,
                              !.pc = IF s.stale \ {m} = {} THEN "findDue" ELSE "failStale"]

\* Faulty form: the update names the row by id alone.
FailStaleUnconditional(i) ==
    /\ sweeps[i].pc = "failStale"
    /\ \E m \in sweeps[i].stale :
         /\ rows' = [rows EXCEPT ![m].status = "FAILED"]
         /\ sweeps' = [sweeps EXCEPT ![i].pc = "tellStale", ![i].row = m]
    /\ UNCHANGED <<posts, notices, sweepOthers>>

\* One conditional update of that loop; count = 0 moves on in silence.
FailStale(i) ==
    /\ sweeps[i].pc = "failStale"
    /\ \E m \in sweeps[i].stale :
         IF IsStale(m, sweeps[i].now)
         THEN /\ rows' = [rows EXCEPT ![m].status = "FAILED"]
              /\ sweeps' = [sweeps EXCEPT ![i].pc = "tellStale", ![i].row = m]
         ELSE /\ sweeps' = [sweeps EXCEPT ![i] = AfterStale(sweeps[i], m)]
              /\ UNCHANGED rows
    /\ UNCHANGED <<posts, notices, sweepOthers>>

\* notifyFailed of the stale pass.
TellStale(i) ==
    /\ sweeps[i].pc = "tellStale"
    /\ notices' = [notices EXCEPT ![sweeps[i].row] = @ + 1]
    /\ sweeps' = [sweeps EXCEPT ![i] = AfterStale(sweeps[i], sweeps[i].row)]
    /\ UNCHANGED <<rows, posts, sweepOthers>>

DueRows(now) == {m \in Messages : rows[m].status = "PENDING" /\ rows[m].sendAt <= now}

\* findMany, earliest sendAt first, at most Batch rows.
IsDueBatch(s, now) ==
    /\ \A j, k \in DOMAIN s : j < k => s[j] # s[k] /\ rows[s[j]].sendAt <= rows[s[k]].sendAt
    /\ \A m \in DueRows(now) : \/ \E j \in DOMAIN s : s[j] = m
                               \/ \A j \in DOMAIN s : rows[s[j]].sendAt <= rows[m].sendAt

\* The sweep with the rest of the loop over the due rows still to do.
NextDue(s, rest) ==
    IF rest = <<>> THEN IdleSweep
    ELSE [pc |-> "claim", now |-> s.now, stale |-> {}, due |-> rest, row |-> NoRow,
          rev |-> 0, outcome |-> "none"]

FindDue(i) ==
    LET now == sweeps[i].now IN
    /\ sweeps[i].pc = "findDue"
    /\ \E s \in [1 .. AtMost(Cardinality(DueRows(now))) -> DueRows(now)] :
         /\ IsDueBatch(s, now)
         /\ sweeps' = [sweeps EXCEPT ![i] = NextDue(sweeps[i], s)]
    /\ UNCHANGED <<rows, posts, notices, sweepOthers>>

\* Faulty forms: the claim forgets the status, or the time, it has to re-check.
ClaimableAnyStatus(m, now) == rows[m].sendAt <= now /\ account[Author[m]] = "ACTIVE"

ClaimableAnyTime(m, now) == rows[m].status = "PENDING" /\ account[Author[m]] = "ACTIVE"

Claimable(m, now) ==
    /\ rows[m].status = "PENDING"
    /\ rows[m].sendAt <= now
    /\ account[Author[m]] = "ACTIVE"

\* The conditional claim; claimedAt is the time the tick began.
Claim(i) ==
    LET m == Head(sweeps[i].due) IN
    /\ sweeps[i].pc = "claim"
    /\ IF Claimable(m, sweeps[i].now)
       THEN /\ rows' = [rows EXCEPT ![m].status = "SENDING", ![m].claimedAt = sweeps[i].now]
            /\ sweeps' = [sweeps EXCEPT ![i].pc = "load", ![i].row = m]
       ELSE /\ sweeps' = [sweeps EXCEPT ![i] = NextDue(sweeps[i], Tail(sweeps[i].due))]
            /\ UNCHANGED rows
    /\ UNCHANGED <<posts, notices, sweepOthers>>

\* deliver: findUnique by id alone; a row that is gone ends the delivery.
Load(i) ==
    LET m == sweeps[i].row IN
    /\ sweeps[i].pc = "load"
    /\ sweeps' = [sweeps EXCEPT ![i] =
          IF rows[m].status = "REMOVED" THEN NextDue(sweeps[i], Tail(sweeps[i].due))
          ELSE [sweeps[i] EXCEPT !.pc = "send", !.rev = rows[m].rev]]
    /\ UNCHANGED <<rows, posts, notices, sweepOthers>>

\* send through the live send path.  A refusal posts nothing; an error raised
\* after the insert (reply lookup, mentions, read state, notifications) is
\* reported as a failure although the chat message exists.
Send(i) ==
    LET m == sweeps[i].row
        r == sweeps[i].rev
    IN
    /\ sweeps[i].pc = "send"
    /\ \/ /\ Dest[m] \notin deleted
          /\ posts' = [posts EXCEPT ![m][r] = @ + 1]
          /\ \E o \in {"SENT", "FAILED"} :
               sweeps' = [sweeps EXCEPT ![i].pc = "finish", ![i].outcome = o]
       \/ /\ sweeps' = [sweeps EXCEPT ![i].pc = "finish", ![i].outcome = "FAILED"]
          /\ UNCHANGED posts
    /\ UNCHANGED <<rows, notices, sweepOthers>>

\* The outcome is stored where the row is still SENDING, whoever claimed it.
Finish(i) ==
    LET m == sweeps[i].row
        s == sweeps[i]
    IN
    /\ s.pc = "finish"
    /\ IF rows[m].status = "SENDING"
       THEN /\ rows' = [rows EXCEPT ![m].status = s.outcome,
                                    ![m].sent = IF s.outcome = "SENT" THEN s.rev ELSE @]
            /\ sweeps' = [sweeps EXCEPT ![i] =
                  IF s.outcome = "FAILED" THEN [s EXCEPT !.pc = "tell"]
                  ELSE NextDue(s, Tail(s.due))]
       ELSE /\ sweeps' = [sweeps EXCEPT ![i] = NextDue(s, Tail(s.due))]
            /\ UNCHANGED rows
    /\ UNCHANGED <<posts, notices, sweepOthers>>

\* notifyFailed of the delivery.
Tell(i) ==
    /\ sweeps[i].pc = "tell"
    /\ notices' = [notices EXCEPT ![sweeps[i].row] = @ + 1]
    /\ sweeps' = [sweeps EXCEPT ![i] = NextDue(sweeps[i], Tail(sweeps[i].due))]
    /\ UNCHANGED <<rows, posts, sweepOthers>>

\* Faulty form: isSweeping is not reset when a tick ends with an error.
AbortSweepStuck(i) ==
    /\ faults < MaxFaults
    /\ sweeps[i].pc # "idle"
    /\ sweeps' = [sweeps EXCEPT ![i] = [IdleSweep EXCEPT !.pc = "stuck"]]
    /\ faults' = faults + 1
    /\ UNCHANGED <<clock, rows, posts, notices, account, deleted, requests>>

\* A crash of the process, or an error the catch of sweep() swallows: either
\* way the tick is over and the next one starts from nothing.
AbortSweep(i) ==
    /\ faults < MaxFaults
    /\ sweeps[i].pc # "idle"
    /\ sweeps' = [sweeps EXCEPT ![i] = IdleSweep]
    /\ faults' = faults + 1
    /\ UNCHANGED <<clock, rows, posts, notices, account, deleted, requests>>

\* An error the catch of deliver() swallows: the loop goes on and the row is
\* left as it is.
DeliverError(i) ==
    /\ faults < MaxFaults
    /\ sweeps[i].pc \in {"load", "finish", "tell"}
    /\ sweeps' = [sweeps EXCEPT ![i] = NextDue(sweeps[i], Tail(sweeps[i].due))]
    /\ faults' = faults + 1
    /\ UNCHANGED <<clock, rows, posts, notices, account, deleted, requests>>

--------------------------------------------------------------------------------
SweepStep(i) ==
    \/ FindStale(i) \/ FailStale(i) \/ TellStale(i)
    \/ FindDue(i) \/ Claim(i) \/ Load(i) \/ Send(i) \/ Finish(i) \/ Tell(i)

RequestStep(q) ==
    \/ CountPending(q) \/ WriteCreate(q) \/ WriteUpdate(q)
    \/ \E m \in Messages, t \in 0 .. MaxTime : StartCreate(q, m, t) \/ StartUpdate(q, m, t)

Next ==
    \/ Tick
    \/ \E q \in Requests : RequestStep(q)
    \/ \E m \in Messages : Remove(m)
    \/ \E a \in Accounts : RequestDeletion(a) \/ CancelDeletion(a) \/ CompleteDeletion(a)
    \/ \E d \in Destinations : DeleteDestination(d)
    \/ \E i \in Instances : StartSweep(i) \/ SweepStep(i) \/ AbortSweep(i) \/ DeliverError(i)

Spec == Init /\ [][Next]_vars

--------------------------------------------------------------------------------
(* Properties.                                                              *)

\* What the author saved once is posted at most once: across instances, stale
\* claims, crashes, failed and repeated attempts, one revision of a row makes
\* at most one chat message (the class comment of ScheduledMessageSweepService).
\* It needs TickBound <= StaleClaim.
OncePerScheduling == \A m \in Messages, r \in Revisions : posts[m][r] <= 1

\* A row reads SENT only when the content and time it now holds were posted,
\* and sentMessageId points at that very chat message, not at the result of an
\* earlier claim of the same row.
SentWasPosted ==
    \A m \in Messages : rows[m].status = "SENT" =>
        rows[m].sent = rows[m].rev /\ posts[m][rows[m].rev] = 1

\* The author is told of a failure at most once per attempt: a row that the
\* stale pass failed is not reported again by the delivery that comes late, and
\* a row that is waiting, being sent or sent has no notice for this attempt.
OneNoticePerFailure ==
    \A m \in Messages :
        notices[m] <= IF rows[m].status \in {"FAILED", "REMOVED"} THEN rows[m].rev
                      ELSE IF rows[m].rev = 0 THEN 0 ELSE rows[m].rev - 1

\* Nothing is posted before the time the author last saved, also when the
\* author moved that time while the row sat in a sweep's list of due rows.
NeverEarly ==
    [][\A m \in Messages, r \in Revisions :
          posts'[m][r] > posts[m][r] => rows[m].sendAt <= clock /\ rows[m].rev = r]_vars

\* What was sent stays sent: no write of the author, no late delivery and no
\* stale pass takes a row out of SENT; only a cascade or the account's erasure
\* removes it.
SentIsFinal ==
    [][\A m \in Messages : rows[m].status = "SENT" =>
          rows'[m].status \in {"SENT", "REMOVED"} /\ rows'[m].sent = rows[m].sent]_vars

Fairness ==
    /\ WF_vars(Tick)
    /\ \A i \in Instances : WF_vars(StartSweep(i) \/ SweepStep(i))

FairSpec == Spec /\ Fairness

\* A due row of an active author is not forgotten, whichever instance crashes.
DueIsTaken ==
    \A m \in Messages :
        (rows[m].status = "PENDING" /\ account[Author[m]] = "ACTIVE")
          ~> (rows[m].status # "PENDING" \/ account[Author[m]] # "ACTIVE")

\* A claim left behind by a crash or an error is resolved by some sweep; claims
\* too close to the bound of the clock to grow stale are left out.
ClaimIsResolved ==
    \A m \in Messages :
        (rows[m].status = "SENDING" /\ rows[m].claimedAt + StaleClaim < MaxTime)
          ~> rows[m].status # "SENDING"
================================================================================
