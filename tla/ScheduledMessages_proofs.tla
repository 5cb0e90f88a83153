----------------------- MODULE ScheduledMessages_proofs -----------------------
(***************************************************************************)
(* Proofs about ScheduledMessages.  They hold for every number of          *)
(* instances, rows, requests, accounts and destinations, and every value   *)
(* of the timing constants that the named assumptions allow.               *)
(***************************************************************************)
EXTENDS ScheduledMessages, FiniteSetTheorems, TLAPS

\* The one assumption about speed: a tick ends before its own claims are stale.
PromptTicks == TickBound <= StaleClaim

\* What the local variables of a sweep hold at each point of its loop.
Shaped(s) ==
    /\ s.pc \in {"claim", "load", "send", "finish", "tell"} => s.due # <<>>
    /\ s.pc \in {"load", "send", "finish", "tell"} => s.row = Head(s.due)
    /\ s.pc = "tellStale" => s.row \in Messages
    /\ s.pc = "finish" => s.outcome # "none"

SweepShape == \A i \in Instances : Shaped(sweeps[i])

\* A running sweep captured its time at most TickBound ago.
SweepTime ==
    \A i \in Instances : sweeps[i].pc # "idle" =>
        sweeps[i].now <= clock /\ clock <= sweeps[i].now + TickBound

Delivering(i) == sweeps[i].pc \in {"load", "send", "finish"}

\* A row under delivery is still claimed by the tick that delivers it, unless
\* its destination was deleted.
ClaimHeld ==
    \A i \in Instances : Delivering(i) =>
        LET m == sweeps[i].row IN
        \/ rows[m].status = "REMOVED" /\ Dest[m] \in deleted
        \/ /\ rows[m].status = "SENDING"
           /\ rows[m].claimedAt = sweeps[i].now
           /\ rows[m].sendAt <= sweeps[i].now

\* Two sweeps never deliver the same row.
ClaimExclusive ==
    \A i, j \in Instances :
        Delivering(i) /\ Delivering(j) /\ sweeps[i].row = sweeps[j].row => i = j

\* A row that exists was written at least once, and no later revision of it was
\* posted; a pending row was not posted for the revision it holds.
RevisionsPosted ==
    \A m \in Messages :
        /\ rows[m].status = "ABSENT" <=> rows[m].rev = 0
        /\ \A r \in Revisions : r > rows[m].rev => posts[m][r] = 0
        /\ rows[m].status = "PENDING" => posts[m][rows[m].rev] = 0

\* The progress of a delivery and what was posted agree.
DeliveryPosted ==
    \A i \in Instances :
        LET m == sweeps[i].row IN
        /\ sweeps[i].pc \in {"send", "finish"} => sweeps[i].rev = rows[m].rev
        /\ sweeps[i].pc \in {"load", "send"} => posts[m][rows[m].rev] = 0
        /\ sweeps[i].pc = "finish" /\ sweeps[i].outcome = "SENT" => posts[m][rows[m].rev] = 1

\* A create in flight still has its row to itself.
CreateFresh ==
    \A q \in Requests : requests[q].pc # "idle" /\ requests[q].status = "ABSENT" =>
        /\ requests[q].row \in Messages
        /\ rows[requests[q].row].status = "ABSENT"
        /\ \A p \in Requests :
              requests[p].pc # "idle" /\ requests[p].row = requests[q].row => p = q

ShapeInv == TypeOK /\ SweepShape

DeliveryInv ==
    /\ ClaimHeld
    /\ ClaimExclusive
    /\ RevisionsPosted
    /\ DeliveryPosted
    /\ OncePerScheduling
    /\ SentWasPosted
    /\ CreateFresh

IInv == ShapeInv /\ SweepTime /\ DeliveryInv

--------------------------------------------------------------------------------
(* Types and the shape of the sweep's local variables.                      *)

\* The size of a batch is a natural number, so a batch is a sequence.
LEMMA BatchIsSequence ==
    ASSUME NEW S, S \subseteq Messages,
           NEW s \in [1 .. AtMost(Cardinality(S)) -> S]
    PROVE  s \in Seq(Messages)
<1>1. IsFiniteSet(S)
  BY ScheduledAssumption, FS_Subset
<1>2. Cardinality(S) \in Nat
  BY <1>1, FS_CardinalityType
<1>3. AtMost(Cardinality(S)) \in Nat
  BY <1>2, ScheduledAssumption DEF AtMost
<1> QED
  BY <1>3

\* A sweep that enters the loop over the due rows, or leaves it, is well formed.
LEMMA NextDueType ==
    ASSUME NEW s \in Sweep, NEW rest \in Seq(Messages)
    PROVE  /\ NextDue(s, rest) \in Sweep
           /\ Shaped(NextDue(s, rest))
           /\ NextDue(s, rest).pc \in {"idle", "claim"}
           /\ NextDue(s, rest).pc # "idle" => NextDue(s, rest).now = s.now
<1>1. CASE rest = <<>>
  BY <1>1, ScheduledAssumption DEF NextDue, IdleSweep, Sweep, SweepPhases, Shaped
<1>2. CASE rest # <<>>
  BY <1>2, ScheduledAssumption DEF NextDue, Sweep, SweepPhases, Shaped
<1> QED
  BY <1>1, <1>2

\* The author's writes leave a well-formed row.
LEMMA RescheduledType ==
    ASSUME NEW r \in Row, NEW t \in Nat, r.rev < MaxRev
    PROVE  Rescheduled(r, t) \in Row
BY ScheduledAssumption DEF Rescheduled, Row, Statuses

LEMMA StatusType ==
    ASSUME NEW r \in Row, NEW st \in Statuses
    PROVE  [r EXCEPT !.status = st] \in Row
BY DEF Row

LEMMA ClaimedType ==
    ASSUME NEW r \in Row, NEW t \in Nat
    PROVE  [r EXCEPT !.status = "SENDING", !.claimedAt = t] \in Row
BY DEF Row, Statuses

LEMMA SentType ==
    ASSUME NEW r \in Row, NEW v \in 0 .. MaxRev
    PROVE  [r EXCEPT !.status = "SENT", !.sent = v] \in Row
BY DEF Row, Statuses

LEMMA AfterStaleType ==
    ASSUME NEW s \in Sweep, NEW m
    PROVE  /\ AfterStale(s, m) \in Sweep
           /\ AfterStale(s, m).pc \in {"findDue", "failStale"}
           /\ AfterStale(s, m).now = s.now
BY ScheduledAssumption DEF AfterStale, Sweep, SweepPhases

LEMMA ShapeInit == Init => ShapeInv
BY ScheduledAssumption
   DEF Init, ShapeInv, TypeOK, SweepShape, Shaped, AbsentRow, Row, Statuses, Revisions,
       IdleSweep, IdleRequest, Sweep, SweepPhases, Request, AccountStates

\* A step that gives one sweep a well-formed value and touches nothing else of
\* the types keeps ShapeInv.
LEMMA SweepUpdate ==
    ASSUME ShapeInv, NEW i \in Instances, NEW s \in Sweep, Shaped(s),
           sweeps' = [sweeps EXCEPT ![i] = s]
    PROVE  sweeps' \in [Instances -> Sweep] /\ SweepShape'
BY DEF ShapeInv, TypeOK, SweepShape

\* The author's requests keep the types; the sweeps are not theirs to change.
LEMMA RequestShape ==
    ASSUME ShapeInv, NEW q \in Requests, RequestStep(q)
    PROVE  ShapeInv'
<1> USE ScheduledAssumption DEF ShapeInv, TypeOK, requestOthers
<1>1. SweepShape' /\ requests[q] \in Request /\ IdleRequest \in Request
  <2>1. UNCHANGED requestOthers
    BY DEF RequestStep, CountPending, WriteCreate, WriteUpdate, StartCreate, StartUpdate
  <2> QED
    BY <2>1 DEF SweepShape, IdleRequest, Request, Statuses
<1>2. CASE CountPending(q)
  <2>1. [requests[q] EXCEPT !.pc = "write"] \in Request
    BY <1>1 DEF Request
  <2> QED
    BY <1>1, <1>2, <2>1 DEF CountPending
<1>3. CASE WriteCreate(q)
  <2>1. AbsentRow \in Row /\ AbsentRow.rev < MaxRev
    BY DEF AbsentRow, Row, Statuses
  <2>2. Rescheduled(AbsentRow, requests[q].sendAt) \in Row
    BY <1>1, <2>1, RescheduledType DEF Request
  <2>3. rows' \in [Messages -> Row]
    BY <1>3, <2>2 DEF WriteCreate
  <2> QED
    BY <1>1, <1>3, <2>3 DEF WriteCreate
<1>4. CASE WriteUpdate(q)
  <2> DEFINE m == requests[q].row
  <2>1. m \in Messages /\ rows[m].rev < MaxRev => Rescheduled(rows[m], requests[q].sendAt) \in Row
    BY <1>1, RescheduledType DEF Request
  <2>2. rows' \in [Messages -> Row]
    <3>1. CASE UNCHANGED rows
      BY <3>1
    <3>2. CASE rows[m].rev < MaxRev /\ rows' = [rows EXCEPT ![m] = Rescheduled(rows[m], requests[q].sendAt)]
      BY <3>2, <2>1
    <3> QED
      BY <1>4, <3>1, <3>2 DEF WriteUpdate
  <2> QED
    BY <1>1, <1>4, <2>2 DEF WriteUpdate
<1>5. ASSUME NEW m \in Messages, NEW t \in 0 .. MaxTime, StartCreate(q, m, t)
      PROVE  ShapeInv'
  BY <1>1, <1>5 DEF StartCreate, Request, Statuses
<1>6. ASSUME NEW m \in Messages, NEW t \in 0 .. MaxTime, StartUpdate(q, m, t)
      PROVE  ShapeInv'
  <2>1. rows[m].status \in Statuses
    BY DEF Row
  <2> DEFINE r == [pc |-> IF rows[m].status = "FAILED" THEN "count" ELSE "write",
                   row |-> m, status |-> rows[m].status, sendAt |-> t]
  <2>2. r \in Request
    BY <2>1 DEF Request
  <2> QED
    BY <1>1, <1>6, <2>2 DEF StartUpdate
<1> QED
  BY <1>2, <1>3, <1>4, <1>5, <1>6 DEF RequestStep

\* What happens to accounts, destinations and the clock keeps the types.
LEMMA SurroundingsShape ==
    ASSUME ShapeInv,
           \/ Tick
           \/ \E m \in Messages : Remove(m)
           \/ \E a \in Accounts : RequestDeletion(a) \/ CancelDeletion(a) \/ CompleteDeletion(a)
           \/ \E d \in Destinations : DeleteDestination(d)
    PROVE  ShapeInv'
<1> USE ScheduledAssumption DEF ShapeInv, TypeOK
<1>1. SweepShape' /\ sweeps' \in [Instances -> Sweep]
  BY DEF SweepShape, Tick, Remove, RequestDeletion, CancelDeletion, CompleteDeletion,
         DeleteDestination, requestOthers
<1>2. \A S : WithoutRows(S) \in [Messages -> Row]
  <2>1. \A r \in Row : [r EXCEPT !.status = "REMOVED"] \in Row
    BY DEF Row, Statuses
  <2> QED
    BY <2>1 DEF WithoutRows
<1>3. CASE Tick
  BY <1>1, <1>3 DEF Tick
<1>4. ASSUME NEW m \in Messages, Remove(m) PROVE ShapeInv'
  BY <1>1, <1>4 DEF Remove, requestOthers, Row, Statuses
<1>5. ASSUME NEW a \in Accounts, RequestDeletion(a) PROVE ShapeInv'
  <2>1. \A r \in Row : [r EXCEPT !.status = "FAILED"] \in Row
    BY DEF Row, Statuses
  <2> QED
    BY <1>1, <1>5, <2>1 DEF RequestDeletion, AccountStates
<1>6. ASSUME NEW a \in Accounts, CancelDeletion(a) PROVE ShapeInv'
  BY <1>1, <1>6 DEF CancelDeletion, AccountStates
<1>7. ASSUME NEW a \in Accounts, CompleteDeletion(a) PROVE ShapeInv'
  BY <1>1, <1>2, <1>7 DEF CompleteDeletion, AccountStates
<1>8. ASSUME NEW d \in Destinations, DeleteDestination(d) PROVE ShapeInv'
  BY <1>1, <1>2, <1>8 DEF DeleteDestination
<1> QED
  BY <1>3, <1>4, <1>5, <1>6, <1>7, <1>8

\* Every step of the sweep gives it a well-formed value.
LEMMA SweepShapeStep ==
    ASSUME ShapeInv, NEW i \in Instances,
           StartSweep(i) \/ SweepStep(i) \/ AbortSweep(i) \/ DeliverError(i)
    PROVE  ShapeInv'
<1> DEFINE s == sweeps[i]
           m == s.row
<1> USE ScheduledAssumption
<1>1. s \in Sweep /\ Shaped(s) /\ s.due \in Seq(Messages) /\ s.stale \subseteq Messages
  BY DEF ShapeInv, TypeOK, SweepShape, Sweep
<1>2. s.due # <<>> => Head(s.due) \in Messages /\ Tail(s.due) \in Seq(Messages)
  BY <1>1
<1>3. IdleSweep \in Sweep /\ Shaped(IdleSweep)
  BY DEF IdleSweep, Sweep, SweepPhases, Shaped
<1>4. s.due # <<>> => /\ NextDue(s, Tail(s.due)) \in Sweep
                      /\ Shaped(NextDue(s, Tail(s.due)))
  BY <1>1, <1>2, NextDueType
<1>5. s.pc \in {"load", "send", "finish", "tell"} => m \in Messages /\ s.due # <<>>
  BY <1>1, <1>2 DEF Shaped
<1>6. /\ clock \in Nat /\ rows \in [Messages -> Row] /\ posts \in [Messages -> [Revisions -> Nat]]
      /\ notices \in [Messages -> Nat] /\ account \in [Accounts -> AccountStates]
      /\ deleted \subseteq Destinations /\ requests \in [Requests -> Request]
      /\ faults \in 0 .. MaxFaults
  BY DEF ShapeInv, TypeOK
<1> DEFINE Others == /\ clock' \in Nat /\ rows' \in [Messages -> Row]
                     /\ posts' \in [Messages -> [Revisions -> Nat]]
                     /\ notices' \in [Messages -> Nat] /\ account' \in [Accounts -> AccountStates]
                     /\ deleted' \subseteq Destinations /\ requests' \in [Requests -> Request]
                     /\ faults' \in 0 .. MaxFaults
           To(t) == t \in Sweep /\ Shaped(t) /\ sweeps' = [sweeps EXCEPT ![i] = t]
<1>7. ASSUME NEW t, To(t), Others PROVE ShapeInv'
  BY <1>7, SweepUpdate DEF ShapeInv, TypeOK
<1>8. CASE StartSweep(i)
  <2> DEFINE t == [IdleSweep EXCEPT !.pc = "findStale", !.now = clock]
  <2>1. To(t)
    <3>1. t \in Sweep /\ Shaped(t)
      BY <1>3, <1>6 DEF IdleSweep, Sweep, SweepPhases, Shaped
    <3> QED
      BY <1>8, <3>1 DEF StartSweep
  <2>2. Others
    BY <1>6, <1>8 DEF StartSweep, sweepOthers
  <2> QED
    BY <1>7, <2>1, <2>2
<1>9. CASE FindStale(i)
  <2>1. PICK S \in SUBSET Messages :
          sweeps' = [sweeps EXCEPT ![i].stale = S,
                                   ![i].pc = IF S = {} THEN "findDue" ELSE "failStale"]
    BY <1>9 DEF FindStale
  <2> DEFINE t == [s EXCEPT !.stale = S, !.pc = IF S = {} THEN "findDue" ELSE "failStale"]
  <2>2. t \in Sweep /\ Shaped(t)
    BY <1>1 DEF Sweep, SweepPhases, Shaped
  <2>3. sweeps' = [sweeps EXCEPT ![i] = t]
    BY <2>1
  <2>4. Others
    BY <1>6, <1>9 DEF FindStale, sweepOthers
  <2> QED
    BY <1>7, <2>2, <2>3, <2>4
<1>10. CASE FailStale(i)
  <2>1. PICK n \in s.stale :
          \/ /\ rows' = [rows EXCEPT ![n].status = "FAILED"]
             /\ sweeps' = [sweeps EXCEPT ![i].pc = "tellStale", ![i].row = n]
          \/ /\ sweeps' = [sweeps EXCEPT ![i] = AfterStale(s, n)]
             /\ UNCHANGED rows
    BY <1>10 DEF FailStale
  <2>2. Others
    <3>1. [rows EXCEPT ![n].status = "FAILED"] \in [Messages -> Row]
      BY <1>1, <1>6, <2>1, StatusType DEF Statuses
    <3> QED
      BY <1>6, <1>10, <2>1, <3>1 DEF FailStale, sweepOthers
  <2>3. CASE sweeps' = [sweeps EXCEPT ![i].pc = "tellStale", ![i].row = n]
    <3> DEFINE t == [s EXCEPT !.pc = "tellStale", !.row = n]
    <3>1. t \in Sweep /\ Shaped(t)
      BY <1>1, <2>1 DEF Sweep, SweepPhases, Shaped
    <3>2. sweeps' = [sweeps EXCEPT ![i] = t]
      BY <2>3
    <3> QED
      BY <1>7, <2>2, <3>1, <3>2
  <2>4. CASE sweeps' = [sweeps EXCEPT ![i] = AfterStale(s, n)]
    <3>1. AfterStale(s, n) \in Sweep /\ Shaped(AfterStale(s, n))
      BY <1>1, AfterStaleType DEF Shaped
    <3> QED
      BY <1>7, <2>2, <2>4, <3>1
  <2> QED
    BY <2>1, <2>3, <2>4
<1>11. CASE TellStale(i)
  <2>1. AfterStale(s, m) \in Sweep /\ Shaped(AfterStale(s, m))
    BY <1>1, AfterStaleType DEF Shaped
  <2>2. Others
    <3>1. m \in Messages
      BY <1>1, <1>11 DEF TellStale, Shaped
    <3> QED
      BY <1>6, <1>11, <3>1 DEF TellStale, sweepOthers
  <2> QED
    BY <1>7, <1>11, <2>1, <2>2 DEF TellStale
<1>12. CASE FindDue(i)
  <2>1. PICK b \in [1 .. AtMost(Cardinality(DueRows(s.now))) -> DueRows(s.now)] :
          sweeps' = [sweeps EXCEPT ![i] = NextDue(s, b)]
    BY <1>12 DEF FindDue
  <2>2. b \in Seq(Messages)
    <3>1. DueRows(s.now) \subseteq Messages
      BY DEF DueRows
    <3> QED
      BY <2>1, <3>1, BatchIsSequence
  <2>3. NextDue(s, b) \in Sweep /\ Shaped(NextDue(s, b))
    BY <1>1, <2>2, NextDueType
  <2>4. Others
    BY <1>6, <1>12 DEF FindDue, sweepOthers
  <2> QED
    BY <1>7, <2>1, <2>3, <2>4
<1>13. CASE Claim(i)
  <2>1. s.due # <<>>
    BY <1>1, <1>13 DEF Claim, Shaped
  <2>2. Others
    <3> DEFINE h == Head(s.due)
    <3>1. h \in Messages /\ s.now \in Nat
      BY <1>1, <1>2, <2>1 DEF Sweep
    <3>2. [rows[h] EXCEPT !.status = "SENDING", !.claimedAt = s.now] \in Row
      BY <1>6, <3>1, ClaimedType
    <3>3. \/ UNCHANGED rows
          \/ rows' = [rows EXCEPT ![h] = [rows[h] EXCEPT !.status = "SENDING", !.claimedAt = s.now]]
      BY <1>6, <1>13, <3>1 DEF Claim
    <3>4. rows' \in [Messages -> Row]
      BY <1>6, <3>2, <3>3
    <3> QED
      BY <1>6, <1>13, <3>4 DEF Claim, sweepOthers
  <2>3. CASE Claimable(Head(s.due), s.now)
    <3> DEFINE t == [s EXCEPT !.pc = "load", !.row = Head(s.due)]
    <3>1. t \in Sweep /\ Shaped(t)
      BY <1>1, <1>2, <2>1 DEF Sweep, SweepPhases, Shaped
    <3>2. sweeps' = [sweeps EXCEPT ![i] = t]
      BY <1>13, <2>3 DEF Claim
    <3> QED
      BY <1>7, <2>2, <3>1, <3>2
  <2>4. CASE ~Claimable(Head(s.due), s.now)
    BY <1>4, <1>7, <1>13, <2>1, <2>2, <2>4 DEF Claim
  <2> QED
    BY <2>3, <2>4
<1>14. CASE Load(i)
  <2>1. Others
    BY <1>6, <1>14 DEF Load, sweepOthers
  <2>2. m \in Messages /\ s.due # <<>> /\ s.row = Head(s.due)
    BY <1>1, <1>5, <1>14 DEF Load, Shaped
  <2> DEFINE t == [s EXCEPT !.pc = "send", !.rev = rows[m].rev]
  <2>3. t \in Sweep /\ Shaped(t)
    <3>1. rows[m].rev \in 0 .. MaxRev
      BY <1>6, <2>2 DEF Row
    <3> QED
      BY <1>1, <2>2, <3>1 DEF Sweep, SweepPhases, Shaped
  <2>4. CASE rows[m].status = "REMOVED"
    BY <1>4, <1>7, <1>14, <2>1, <2>2, <2>4 DEF Load
  <2>5. CASE rows[m].status # "REMOVED"
    BY <1>7, <1>14, <2>1, <2>3, <2>5 DEF Load
  <2> QED
    BY <2>4, <2>5
<1>15. CASE Send(i)
  <2>1. PICK o \in {"SENT", "FAILED"} :
          sweeps' = [sweeps EXCEPT ![i].pc = "finish", ![i].outcome = o]
    BY <1>15 DEF Send
  <2> DEFINE t == [s EXCEPT !.pc = "finish", !.outcome = o]
  <2>2. t \in Sweep /\ Shaped(t)
    <3>1. s.row = Head(s.due) /\ s.due # <<>>
      BY <1>1, <1>15 DEF Send, Shaped
    <3> QED
      BY <1>1, <3>1 DEF Sweep, SweepPhases, Shaped
  <2>3. Others
    <3>1. m \in Messages /\ posts[m] \in [Revisions -> Nat]
      BY <1>5, <1>6, <1>15 DEF Send
    <3>2. [posts[m] EXCEPT ![s.rev] = @ + 1] \in [Revisions -> Nat]
      <4>1. CASE s.rev \in Revisions
        BY <3>1, <4>1
      <4>2. CASE s.rev \notin Revisions
        BY <3>1, <4>2
      <4> QED
        BY <4>1, <4>2
    <3>3. UNCHANGED posts \/ posts' = [posts EXCEPT ![m] = [posts[m] EXCEPT ![s.rev] = @ + 1]]
      BY <1>6, <1>15, <3>1 DEF Send
    <3>4. posts' \in [Messages -> [Revisions -> Nat]]
      BY <1>6, <3>2, <3>3
    <3> QED
      BY <1>6, <1>15, <3>4 DEF Send, sweepOthers
  <2>4. sweeps' = [sweeps EXCEPT ![i] = t]
    BY <2>1
  <2> QED
    BY <1>7, <2>2, <2>3, <2>4
<1>16. CASE Finish(i)
  <2>1. s.due # <<>> /\ s.row = Head(s.due) /\ s.outcome \in {"SENT", "FAILED"} /\ s.rev \in 0 .. MaxRev
    BY <1>1, <1>16 DEF Finish, Shaped, Sweep
  <2>2. rows' \in [Messages -> Row]
    <3> DEFINE f == [rows[m] EXCEPT !.status = s.outcome,
                                    !.sent = IF s.outcome = "SENT" THEN s.rev ELSE @]
    <3>1. m \in Messages
      BY <1>5, <1>16 DEF Finish
    <3>2. f \in Row
      <4>1. s.outcome = "FAILED" => f = [rows[m] EXCEPT !.status = "FAILED"]
        BY <1>6, <3>1 DEF Row
      <4>2. s.outcome = "SENT" => f = [rows[m] EXCEPT !.status = "SENT", !.sent = s.rev]
        OBVIOUS
      <4> QED
        BY <1>6, <2>1, <3>1, <4>1, <4>2, StatusType, SentType DEF Statuses
    <3>3. UNCHANGED rows \/ rows' = [rows EXCEPT ![m] = f]
      BY <1>6, <1>16, <3>1 DEF Finish
    <3> QED
      BY <1>6, <3>2, <3>3
  <2>3. Others
    BY <1>6, <1>16, <2>2 DEF Finish, sweepOthers
  <2> DEFINE t == [s EXCEPT !.pc = "tell"]
  <2>4. t \in Sweep /\ Shaped(t)
    BY <1>1, <2>1 DEF Sweep, SweepPhases, Shaped
  <2>5. \/ sweeps' = [sweeps EXCEPT ![i] = t]
        \/ sweeps' = [sweeps EXCEPT ![i] = NextDue(s, Tail(s.due))]
    BY <1>16 DEF Finish
  <2> QED
    BY <1>4, <1>7, <2>1, <2>3, <2>4, <2>5
<1>17. CASE Tell(i)
  <2>1. Others
    BY <1>5, <1>6, <1>17 DEF Tell, sweepOthers
  <2> QED
    BY <1>4, <1>5, <1>7, <1>17, <2>1 DEF Tell
<1>18. CASE AbortSweep(i)
  <2>1. Others
    BY <1>6, <1>18 DEF AbortSweep
  <2> QED
    BY <1>3, <1>7, <1>18, <2>1 DEF AbortSweep
<1>19. CASE DeliverError(i)
  <2>1. Others
    BY <1>6, <1>19 DEF DeliverError
  <2> QED
    BY <1>4, <1>5, <1>7, <1>19, <2>1 DEF DeliverError
<1> QED
  BY <1>8, <1>9, <1>10, <1>11, <1>12, <1>13, <1>14, <1>15, <1>16, <1>17, <1>18, <1>19
     DEF SweepStep

LEMMA ShapeStep == ShapeInv /\ [Next]_vars => ShapeInv'
<1>1. ASSUME ShapeInv, UNCHANGED vars PROVE ShapeInv'
  BY <1>1 DEF vars, ShapeInv, TypeOK, SweepShape
<1> QED
  BY <1>1, RequestShape, SurroundingsShape, SweepShapeStep DEF Next

\* Every behaviour of the scheduler keeps its variables in their types.
THEOREM TypeCorrect == Spec => []TypeOK
<1>1. ShapeInv => TypeOK
  BY DEF ShapeInv
<1> QED
  BY <1>1, ShapeInit, ShapeStep, PTL DEF Spec

--------------------------------------------------------------------------------
(* Time.                                                                    *)

LEMMA TimeStep == ShapeInv /\ SweepTime /\ [Next]_vars => SweepTime'
<1> SUFFICES ASSUME ShapeInv, SweepTime, [Next]_vars PROVE SweepTime'
  OBVIOUS
<1> USE ScheduledAssumption
<1>1. clock \in Nat /\ \A i \in Instances : sweeps[i] \in Sweep /\ sweeps[i].now \in Nat
  BY DEF ShapeInv, TypeOK, Sweep
<1>2. CASE UNCHANGED <<clock, sweeps>>
  BY <1>2 DEF SweepTime
<1>3. CASE Tick
  BY <1>1, <1>3 DEF Tick, SweepTime
<1>4. ASSUME NEW i \in Instances, clock' = clock,
             \A j \in Instances : j # i => sweeps'[j] = sweeps[j],
             sweeps'[i].pc # "idle" =>
                \/ sweeps'[i].now = clock
                \/ sweeps[i].pc # "idle" /\ sweeps'[i].now = sweeps[i].now
      PROVE  SweepTime'
  BY <1>1, <1>4 DEF SweepTime
<1>5. ASSUME NEW i \in Instances,
             StartSweep(i) \/ SweepStep(i) \/ AbortSweep(i) \/ DeliverError(i)
      PROVE  SweepTime'
  <2>1. sweeps \in [Instances -> Sweep] /\ sweeps[i] \in Sweep
    BY DEF ShapeInv, TypeOK
  <2>2. \A rest : NextDue(sweeps[i], rest).pc # "idle" => NextDue(sweeps[i], rest).now = sweeps[i].now
    BY DEF NextDue, IdleSweep
  <2>3. \A m : AfterStale(sweeps[i], m).now = sweeps[i].now
    BY <2>1 DEF AfterStale, Sweep
  <2>4. CASE StartSweep(i)
    BY <1>4, <2>1, <2>4 DEF StartSweep, IdleSweep, sweepOthers
  <2> DEFINE SameNow == \/ sweeps'[i].pc = "idle"
                        \/ sweeps[i].pc # "idle" /\ sweeps'[i].now = sweeps[i].now
             OnlyHere == clock' = clock /\ \A j \in Instances : j # i => sweeps'[j] = sweeps[j]
  <2>5. CASE FindStale(i) \/ FailStale(i) \/ TellStale(i)
    <3>1. FindStale(i) => SameNow /\ OnlyHere
      BY <2>1 DEF FindStale, sweepOthers, Sweep
    <3>2. FailStale(i) => SameNow /\ OnlyHere
      BY <2>1, <2>3 DEF FailStale, sweepOthers, Sweep
    <3>3. TellStale(i) => SameNow /\ OnlyHere
      BY <2>1, <2>3 DEF TellStale, sweepOthers
    <3>4. SameNow /\ OnlyHere
      BY <2>5, <3>1, <3>2, <3>3
    <3> QED
      BY <1>4, <3>4
  <2>6. CASE FindDue(i) \/ Claim(i) \/ Load(i)
    <3>1. FindDue(i) => SameNow /\ OnlyHere
      BY <2>1, <2>2 DEF FindDue, sweepOthers
    <3>2. Claim(i) => SameNow /\ OnlyHere
      BY <2>1, <2>2 DEF Claim, sweepOthers, Sweep
    <3>3. Load(i) => SameNow /\ OnlyHere
      BY <2>1, <2>2 DEF Load, sweepOthers, Sweep
    <3>4. SameNow /\ OnlyHere
      BY <2>6, <3>1, <3>2, <3>3
    <3> QED
      BY <1>4, <3>4
  <2>7. CASE Send(i) \/ Finish(i) \/ Tell(i)
    <3>1. Send(i) => SameNow /\ OnlyHere
      BY <2>1 DEF Send, sweepOthers, Sweep
    <3>2. Finish(i) => SameNow /\ OnlyHere
      BY <2>1, <2>2 DEF Finish, sweepOthers, Sweep
    <3>3. Tell(i) => SameNow /\ OnlyHere
      BY <2>1, <2>2 DEF Tell, sweepOthers
    <3>4. SameNow /\ OnlyHere
      BY <2>7, <3>1, <3>2, <3>3
    <3> QED
      BY <1>4, <3>4
  <2>8. CASE AbortSweep(i) \/ DeliverError(i)
    BY <1>4, <2>1, <2>2, <2>8 DEF AbortSweep, DeliverError, IdleSweep
  <2> QED
    BY <1>5, <2>4, <2>5, <2>6, <2>7, <2>8 DEF SweepStep
<1>6. CASE UNCHANGED vars
  BY <1>2, <1>6 DEF vars
<1>7. ASSUME NEW q \in Requests, RequestStep(q) PROVE SweepTime'
  BY <1>2, <1>7 DEF RequestStep, CountPending, WriteCreate, WriteUpdate, StartCreate,
                    StartUpdate, requestOthers
<1>8. ASSUME NEW m \in Messages, Remove(m) PROVE SweepTime'
  BY <1>2, <1>8 DEF Remove, requestOthers
<1>9. ASSUME NEW a \in Accounts, RequestDeletion(a) \/ CancelDeletion(a) \/ CompleteDeletion(a)
      PROVE  SweepTime'
  BY <1>2, <1>9 DEF RequestDeletion, CancelDeletion, CompleteDeletion
<1>10. ASSUME NEW d \in Destinations, DeleteDestination(d) PROVE SweepTime'
  BY <1>2, <1>10 DEF DeleteDestination
<1> QED
  BY <1>3, <1>5, <1>6, <1>7, <1>8, <1>9, <1>10 DEF Next

--------------------------------------------------------------------------------
(* Deliveries.  The steps are grouped by what they change.                  *)

LEMMA DeliveryInit == Init => DeliveryInv
BY ScheduledAssumption
   DEF Init, DeliveryInv, ClaimHeld, ClaimExclusive, RevisionsPosted, DeliveryPosted,
       OncePerScheduling, SentWasPosted, CreateFresh, AbsentRow, IdleSweep, IdleRequest,
       Delivering, Revisions

\* A step that leaves the table and the posts alone, and moves sweeps only out
\* of their delivery.
LEMMA KeepStep ==
    ASSUME IInv, UNCHANGED <<rows, posts, deleted>>, CreateFresh',
           \A j \in Instances : Delivering(j)' => sweeps'[j] = sweeps[j]
    PROVE  DeliveryInv'
<1>1. ClaimHeld' /\ ClaimExclusive'
  BY DEF IInv, DeliveryInv, ClaimHeld, ClaimExclusive, Delivering
<1>2. DeliveryPosted'
  BY DEF IInv, DeliveryInv, DeliveryPosted, Delivering
<1>3. RevisionsPosted' /\ OncePerScheduling' /\ SentWasPosted'
  BY DEF IInv, DeliveryInv, RevisionsPosted, OncePerScheduling, SentWasPosted
<1> QED
  BY <1>1, <1>2, <1>3 DEF DeliveryInv

\* A step that changes rows no sweep delivers, and posts nothing.
LEMMA RowsStep ==
    ASSUME IInv, UNCHANGED <<posts, sweeps, deleted>>, CreateFresh',
           \A m \in Messages :
              \/ rows'[m] = rows[m]
              \/ /\ \A i \in Instances : Delivering(i) => sweeps[i].row # m
                 /\ rows'[m].status \in {"PENDING", "FAILED", "REMOVED"}
                 /\ \/ rows'[m].status # "PENDING" /\ rows'[m].rev = rows[m].rev /\ rows[m].rev # 0
                    \/ rows'[m].rev = rows[m].rev + 1 /\ rows'[m].rev <= MaxRev
    PROVE  DeliveryInv'
<1> USE ScheduledAssumption
<1>0. /\ \A i \in Instances : Delivering(i) => sweeps[i].row \in Messages
      /\ \A m \in Messages : rows[m].rev \in 0 .. MaxRev /\ posts[m] \in [Revisions -> Nat]
  <2>1. \A i \in Instances : Delivering(i) => sweeps[i].row = Head(sweeps[i].due)
                                              /\ sweeps[i].due # <<>>
    BY DEF IInv, ShapeInv, SweepShape, Shaped, Delivering
  <2>2. \A i \in Instances : sweeps[i].due \in Seq(Messages)
    BY DEF IInv, ShapeInv, TypeOK, Sweep
  <2>3. \A i \in Instances : Delivering(i) => sweeps[i].row \in Messages
    BY <2>1, <2>2
  <2> QED
    BY <2>3 DEF IInv, ShapeInv, TypeOK, Row
<1>1. \A i \in Instances : Delivering(i) => rows'[sweeps[i].row] = rows[sweeps[i].row]
  BY <1>0
<1>2. ClaimHeld' /\ ClaimExclusive' /\ DeliveryPosted'
  BY <1>1 DEF IInv, DeliveryInv, ClaimHeld, ClaimExclusive, DeliveryPosted, Delivering
<1>3. RevisionsPosted'
  BY <1>0 DEF IInv, DeliveryInv, RevisionsPosted, Revisions
<1>4. OncePerScheduling' /\ SentWasPosted'
  BY DEF IInv, DeliveryInv, OncePerScheduling, SentWasPosted
<1> QED
  BY <1>2, <1>3, <1>4 DEF DeliveryInv

\* What the types say of a sweep that is delivering.
LEMMA DeliveringRow ==
    ASSUME ShapeInv, NEW i \in Instances, sweeps[i].pc \in {"load", "send", "finish", "tell"}
    PROVE  /\ sweeps[i].row \in Messages
           /\ sweeps[i].row = Head(sweeps[i].due)
           /\ Tail(sweeps[i].due) \in Seq(Messages)
<1>1. sweeps[i].row = Head(sweeps[i].due) /\ sweeps[i].due # <<>>
  BY DEF ShapeInv, SweepShape, Shaped
<1>2. sweeps[i].due \in Seq(Messages)
  BY DEF ShapeInv, TypeOK, Sweep
<1> QED
  BY <1>1, <1>2

\* The author's requests reach only rows nobody delivers.
LEMMA RequestDelivery ==
    ASSUME IInv, NEW q \in Requests, RequestStep(q)
    PROVE  DeliveryInv'
<1> USE ScheduledAssumption
<1>1. /\ \A p \in Requests : requests[p] \in Request
      /\ requests \in [Requests -> Request]
      /\ rows \in [Messages -> Row]
  BY DEF IInv, ShapeInv, TypeOK
<1>2. \A i \in Instances : Delivering(i) =>
          sweeps[i].row \in Messages /\ rows[sweeps[i].row].status \in {"SENDING", "REMOVED"}
  BY DeliveringRow DEF IInv, DeliveryInv, ClaimHeld, Delivering
<1>3. CreateFresh
  BY DEF IInv, DeliveryInv
<1>4. \A j \in Instances : sweeps' = sweeps => (Delivering(j)' => sweeps'[j] = sweeps[j])
  OBVIOUS
<1>5. CASE CountPending(q)
  <2>1. CreateFresh'
    BY <1>1, <1>3, <1>5 DEF CountPending, CreateFresh, IdleRequest, Request
  <2> QED
    BY <1>4, <1>5, <2>1, KeepStep DEF CountPending, requestOthers
<1>6. ASSUME NEW m \in Messages, NEW t \in 0 .. MaxTime, StartCreate(q, m, t)
      PROVE  DeliveryInv'
  <2>1. CreateFresh'
    BY <1>1, <1>3, <1>6 DEF StartCreate, CreateFresh
  <2> QED
    BY <1>4, <1>6, <2>1, KeepStep DEF StartCreate, requestOthers
<1>7. ASSUME NEW m \in Messages, NEW t \in 0 .. MaxTime, StartUpdate(q, m, t)
      PROVE  DeliveryInv'
  <2>1. CreateFresh'
    BY <1>1, <1>3, <1>7 DEF StartUpdate, CreateFresh, EditableStatuses
  <2> QED
    BY <1>4, <1>7, <2>1, KeepStep DEF StartUpdate, requestOthers
<1>8. CASE WriteCreate(q)
  <2> DEFINE m == requests[q].row
  <2>1. m \in Messages /\ rows[m].status = "ABSENT"
    BY <1>3, <1>8 DEF WriteCreate, CreateFresh
  <2>2. rows[m].rev = 0
    BY <2>1 DEF IInv, DeliveryInv, RevisionsPosted
  <2>3. CreateFresh'
    BY <1>1, <1>3, <1>8, <2>1 DEF WriteCreate, CreateFresh, IdleRequest
  <2>4. \/ UNCHANGED rows
        \/ rows' = [rows EXCEPT ![m] = Rescheduled(AbsentRow, requests[q].sendAt)]
    BY <1>8 DEF WriteCreate
  <2>5. Rescheduled(AbsentRow, requests[q].sendAt).status = "PENDING"
        /\ Rescheduled(AbsentRow, requests[q].sendAt).rev = 1
    BY DEF Rescheduled, AbsentRow
  <2> QED
    BY <1>1, <1>2, <1>8, <2>1, <2>2, <2>3, <2>4, <2>5, RowsStep DEF WriteCreate, requestOthers
<1>9. CASE WriteUpdate(q)
  <2> DEFINE m == requests[q].row
  <2>1. CreateFresh'
    BY <1>1, <1>3, <1>9 DEF WriteUpdate, CreateFresh, IdleRequest, EditableStatuses
  <2>2. \/ UNCHANGED rows
        \/ /\ rows[m].status \in EditableStatuses
           /\ rows[m].rev < MaxRev
           /\ rows' = [rows EXCEPT ![m] = Rescheduled(rows[m], requests[q].sendAt)]
    BY <1>9 DEF WriteUpdate
  <2>3. Rescheduled(rows[m], requests[q].sendAt).status = "PENDING"
        /\ Rescheduled(rows[m], requests[q].sendAt).rev = rows[m].rev + 1
    BY DEF Rescheduled
  <2>4. \A n \in Messages : rows[n].rev \in 0 .. MaxRev
    BY <1>1 DEF Row
  <2> QED
    BY <1>1, <1>2, <1>9, <2>1, <2>2, <2>3, <2>4, RowsStep
       DEF WriteUpdate, requestOthers, EditableStatuses
<1> QED
  BY <1>5, <1>6, <1>7, <1>8, <1>9 DEF RequestStep

LEMMA SurroundingsDelivery ==
    ASSUME IInv,
           \/ Tick
           \/ \E m \in Messages : Remove(m)
           \/ \E a \in Accounts : RequestDeletion(a) \/ CancelDeletion(a) \/ CompleteDeletion(a)
           \/ \E d \in Destinations : DeleteDestination(d)
    PROVE  DeliveryInv'
<1> USE ScheduledAssumption
<1>1. rows \in [Messages -> Row]
  BY DEF IInv, ShapeInv, TypeOK
<1>2. \A i \in Instances : Delivering(i) =>
          sweeps[i].row \in Messages /\ rows[sweeps[i].row].status \in {"SENDING", "REMOVED"}
  BY DeliveringRow DEF IInv, DeliveryInv, ClaimHeld, Delivering
<1>3. CreateFresh /\ \A m \in Messages : rows[m].status = "ABSENT" <=> rows[m].rev = 0
  BY DEF IInv, DeliveryInv, RevisionsPosted
<1>4. CASE Tick
  <2>1. CreateFresh'
    BY <1>3, <1>4 DEF Tick, CreateFresh
  <2> QED
    BY <1>4, <2>1, KeepStep DEF Tick
<1>5. ASSUME NEW m \in Messages, Remove(m) PROVE DeliveryInv'
  <2>1. CreateFresh'
    BY <1>1, <1>3, <1>5 DEF Remove, CreateFresh, requestOthers, EditableStatuses
  <2>2. rows'[m].status = "REMOVED" /\ rows'[m].rev = rows[m].rev /\ rows[m].rev # 0
    BY <1>1, <1>3, <1>5 DEF Remove, EditableStatuses, Row
  <2> QED
    BY <1>1, <1>2, <1>5, <2>1, <2>2, RowsStep DEF Remove, requestOthers, EditableStatuses
<1>6. ASSUME NEW a \in Accounts, RequestDeletion(a) PROVE DeliveryInv'
  <2>1. CreateFresh'
    BY <1>1, <1>3, <1>6 DEF RequestDeletion, CreateFresh
  <2>2. \A m \in Messages : \/ rows'[m] = rows[m]
                            \/ /\ rows[m].status = "PENDING"
                               /\ rows'[m].status = "FAILED" /\ rows'[m].rev = rows[m].rev
    BY <1>1, <1>6 DEF RequestDeletion, Row
  <2> QED
    BY <1>2, <1>3, <1>6, <2>1, <2>2, RowsStep DEF RequestDeletion
<1>7. ASSUME NEW a \in Accounts, CancelDeletion(a) PROVE DeliveryInv'
  <2>1. CreateFresh'
    BY <1>3, <1>7 DEF CancelDeletion, CreateFresh
  <2> QED
    BY <1>7, <2>1, KeepStep DEF CancelDeletion
<1>8. ASSUME NEW S, rows' = WithoutRows(S)
      PROVE  \A m \in Messages :
                \/ rows'[m] = rows[m]
                \/ /\ m \in S /\ rows[m].status # "ABSENT"
                   /\ rows'[m].status = "REMOVED"
                   /\ rows'[m].rev = rows[m].rev
  BY <1>1, <1>8 DEF WithoutRows, Row
<1>9. ASSUME NEW a \in Accounts, CompleteDeletion(a) PROVE DeliveryInv'
  <2> DEFINE S == {m \in Messages : Author[m] = a}
  <2>1. rows' = WithoutRows(S)
    BY <1>9 DEF CompleteDeletion
  <2>2. \A m \in Messages : \/ rows'[m] = rows[m]
                            \/ /\ Author[m] = a /\ rows[m].status # "ABSENT"
                               /\ rows'[m].status = "REMOVED"
                               /\ rows'[m].rev = rows[m].rev
    BY <1>8, <2>1
  <2>3. CreateFresh'
    BY <1>3, <1>9, <2>2 DEF CompleteDeletion, CreateFresh
  <2>4. \A i \in Instances : Delivering(i) => Author[sweeps[i].row] # a
    BY <1>2, <1>9 DEF CompleteDeletion
  <2> QED
    BY <1>3, <1>9, <2>2, <2>3, <2>4, RowsStep DEF CompleteDeletion
<1>10. ASSUME NEW d \in Destinations, DeleteDestination(d) PROVE DeliveryInv'
  <2> DEFINE S == {m \in Messages : Dest[m] = d}
  <2>7. rows' = WithoutRows(S)
    BY <1>10 DEF DeleteDestination
  <2>2. UNCHANGED <<posts, sweeps>> /\ deleted' = deleted \cup {d}
    BY <1>10 DEF DeleteDestination
  <2>3. \A m \in Messages : \/ rows'[m] = rows[m]
                            \/ /\ Dest[m] = d /\ rows[m].status # "ABSENT"
                               /\ rows'[m].status = "REMOVED"
                               /\ rows'[m].rev = rows[m].rev
    BY <1>8, <2>7
  <2>1. CreateFresh'
    BY <1>3, <1>10, <2>3 DEF DeleteDestination, CreateFresh
  <2>4. ClaimHeld' /\ ClaimExclusive'
    BY <1>2, <2>2, <2>3 DEF IInv, DeliveryInv, ClaimHeld, ClaimExclusive, Delivering
  <2>5. DeliveryPosted'
    BY <1>2, <2>2, <2>3 DEF IInv, DeliveryInv, DeliveryPosted, Delivering
  <2>6. RevisionsPosted' /\ OncePerScheduling' /\ SentWasPosted'
    BY <1>3, <2>2, <2>3 DEF IInv, DeliveryInv, RevisionsPosted, OncePerScheduling, SentWasPosted
  <2> QED
    BY <2>1, <2>4, <2>5, <2>6 DEF DeliveryInv
<1> QED
  BY <1>4, <1>5, <1>6, <1>7, <1>9, <1>10

\* A step of one sweep that writes no row and ends, or does not begin, a delivery.
LEMMA IdleSweepStep ==
    ASSUME IInv, NEW i \in Instances, UNCHANGED <<rows, posts, deleted, requests>>,
           NEW t, t.pc \notin {"load", "send", "finish"},
           sweeps' = [sweeps EXCEPT ![i] = t]
    PROVE  DeliveryInv'
<1>1. \A j \in Instances : Delivering(j)' => sweeps'[j] = sweeps[j]
  BY DEF Delivering, IInv, ShapeInv, TypeOK
<1>2. CreateFresh'
  BY DEF IInv, DeliveryInv, CreateFresh
<1> QED
  BY <1>1, <1>2, KeepStep

\* With prompt ticks the stale pass fails no row that a live sweep delivers.
LEMMA StaleIsAbandoned ==
    ASSUME PromptTicks, IInv, NEW i \in Instances, sweeps[i].pc = "failStale",
           NEW m \in Messages, IsStale(m, sweeps[i].now),
           NEW j \in Instances, Delivering(j)
    PROVE  sweeps[j].row # m
<1>1. SUFFICES ASSUME sweeps[j].row = m PROVE FALSE
  OBVIOUS
<1>2. rows[m].claimedAt = sweeps[j].now
  BY <1>1 DEF IInv, DeliveryInv, ClaimHeld, IsStale
<1>3. /\ sweeps[i].now \in Nat /\ sweeps[j].now \in Nat /\ clock \in Nat
      /\ sweeps[i].now <= clock /\ clock <= sweeps[j].now + TickBound
  BY DEF IInv, ShapeInv, TypeOK, Sweep, SweepTime, Delivering
<1>4. sweeps[j].now < sweeps[i].now - StaleClaim
  BY <1>2 DEF IsStale
<1> QED
  BY <1>3, <1>4, ScheduledAssumption DEF PromptTicks

LEMMA StaleDelivery ==
    ASSUME PromptTicks, IInv, NEW i \in Instances,
           StartSweep(i) \/ FindStale(i) \/ FailStale(i) \/ TellStale(i)
    PROVE  DeliveryInv'
<1> DEFINE s == sweeps[i]
<1>1. s \in Sweep /\ sweeps \in [Instances -> Sweep] /\ rows \in [Messages -> Row]
  BY DEF IInv, ShapeInv, TypeOK
<1>2. \A m : AfterStale(s, m).pc \in {"findDue", "failStale"}
  BY <1>1, AfterStaleType
<1>3. CASE StartSweep(i)
  <2> DEFINE t == [IdleSweep EXCEPT !.pc = "findStale", !.now = clock]
  <2>1. t.pc = "findStale"
    BY DEF IdleSweep
  <2> QED
    BY <1>3, <2>1, IdleSweepStep DEF StartSweep, sweepOthers
<1>4. CASE FindStale(i)
  <2>1. PICK S : sweeps' = [sweeps EXCEPT ![i].stale = S,
                                   ![i].pc = IF S = {} THEN "findDue" ELSE "failStale"]
    BY <1>4 DEF FindStale
  <2> DEFINE t == [s EXCEPT !.stale = S, !.pc = IF S = {} THEN "findDue" ELSE "failStale"]
  <2>2. t.pc \in {"findDue", "failStale"}
    BY <1>1 DEF Sweep
  <2>3. sweeps' = [sweeps EXCEPT ![i] = t]
    BY <2>1
  <2> QED
    BY <1>4, <2>2, <2>3, IdleSweepStep DEF FindStale, sweepOthers
<1>5. CASE TellStale(i)
  BY <1>2, <1>5, IdleSweepStep DEF TellStale, sweepOthers
<1>6. CASE FailStale(i)
  <2>1. PICK m \in s.stale :
          \/ /\ IsStale(m, s.now)
             /\ rows' = [rows EXCEPT ![m].status = "FAILED"]
             /\ sweeps' = [sweeps EXCEPT ![i].pc = "tellStale", ![i].row = m]
          \/ /\ sweeps' = [sweeps EXCEPT ![i] = AfterStale(s, m)]
             /\ UNCHANGED rows
    BY <1>6 DEF FailStale
  <2>2. m \in Messages
    BY <1>1, <2>1 DEF Sweep
  <2>3. CASE UNCHANGED rows /\ sweeps' = [sweeps EXCEPT ![i] = AfterStale(s, m)]
    BY <1>2, <1>6, <2>3, IdleSweepStep DEF FailStale, sweepOthers
  <2>4. CASE /\ IsStale(m, s.now)
             /\ rows' = [rows EXCEPT ![m].status = "FAILED"]
             /\ sweeps' = [sweeps EXCEPT ![i].pc = "tellStale", ![i].row = m]
    <3>1. \A j \in Instances : Delivering(j) => sweeps[j].row # m
      BY <1>6, <2>2, <2>4, StaleIsAbandoned DEF FailStale
    <3>2. \A j \in Instances : Delivering(j)' => Delivering(j) /\ sweeps'[j] = sweeps[j]
      BY <1>1, <2>4 DEF Delivering, Sweep
    <3>3. /\ UNCHANGED <<posts, deleted, requests>>
          /\ rows[m].status = "SENDING"
          /\ rows'[m].status = "FAILED" /\ rows'[m].rev = rows[m].rev
          /\ \A n \in Messages : n # m => rows'[n] = rows[n]
      BY <1>1, <1>6, <2>2, <2>4 DEF FailStale, sweepOthers, IsStale, Row
    <3>4. \A j \in Instances : Delivering(j) => sweeps[j].row \in Messages
      BY DeliveringRow DEF IInv, Delivering
    <3>5. \A j \in Instances : Delivering(j)' => rows'[sweeps'[j].row] = rows[sweeps[j].row]
      BY <3>1, <3>2, <3>3, <3>4
    <3>6. ClaimHeld' /\ ClaimExclusive'
      BY <3>2, <3>3, <3>5 DEF IInv, DeliveryInv, ClaimHeld, ClaimExclusive, Delivering
    <3>7. DeliveryPosted'
      BY <3>2, <3>3, <3>5 DEF IInv, DeliveryInv, DeliveryPosted, Delivering
    <3>8. RevisionsPosted' /\ OncePerScheduling' /\ SentWasPosted' /\ CreateFresh'
      BY <2>2, <3>3
         DEF IInv, DeliveryInv, RevisionsPosted, OncePerScheduling, SentWasPosted, CreateFresh
    <3> QED
      BY <3>6, <3>7, <3>8 DEF DeliveryInv
  <2> QED
    BY <1>6, <2>1, <2>3, <2>4
<1> QED
  BY <1>3, <1>4, <1>5, <1>6

LEMMA NextDueIdle ==
    ASSUME NEW s, NEW rest
    PROVE  NextDue(s, rest).pc \notin {"load", "send", "finish"}
BY DEF NextDue, IdleSweep

\* A claim takes a pending row: nobody delivers it yet and its revision is new.
LEMMA ClaimDelivery ==
    ASSUME IInv, NEW i \in Instances, Claim(i)
    PROVE  DeliveryInv'
<1> DEFINE s == sweeps[i]
           m == Head(s.due)
<1>1. s \in Sweep /\ sweeps \in [Instances -> Sweep] /\ rows \in [Messages -> Row]
  BY DEF IInv, ShapeInv, TypeOK
<1>2. m \in Messages
  <2>1. s.due # <<>>
    BY DEF Claim, IInv, ShapeInv, SweepShape, Shaped
  <2> QED
    BY <1>1, <2>1 DEF Sweep
<1>3. CASE ~Claimable(m, s.now)
  BY <1>3, NextDueIdle, IdleSweepStep DEF Claim, sweepOthers
<1>4. CASE Claimable(m, s.now)
  <2> DEFINE t == [s EXCEPT !.pc = "load", !.row = m]
  <2>1. /\ sweeps' = [sweeps EXCEPT ![i] = t]
        /\ rows' = [rows EXCEPT ![m].status = "SENDING", ![m].claimedAt = s.now]
        /\ UNCHANGED <<posts, deleted, requests>>
    BY <1>4 DEF Claim, sweepOthers
  <2>2. /\ sweeps'[i].pc = "load" /\ sweeps'[i].row = m /\ sweeps'[i].now = s.now
        /\ \A j \in Instances : j # i => sweeps'[j] = sweeps[j]
    BY <1>1, <2>1 DEF Sweep
  <2>3. /\ rows'[m].status = "SENDING" /\ rows'[m].claimedAt = s.now
        /\ rows'[m].rev = rows[m].rev /\ rows'[m].sendAt = rows[m].sendAt
        /\ \A n \in Messages : n # m => rows'[n] = rows[n]
    BY <1>1, <1>2, <2>1 DEF Row
  <2>4. rows[m].status = "PENDING" /\ rows[m].sendAt <= s.now /\ posts[m][rows[m].rev] = 0
    BY <1>2, <1>4 DEF Claimable, IInv, DeliveryInv, RevisionsPosted
  <2>5. \A j \in Instances : Delivering(j) => sweeps[j].row \in Messages /\ sweeps[j].row # m
    BY <2>4, DeliveringRow DEF IInv, DeliveryInv, ClaimHeld, Delivering
  <2>6. UNCHANGED <<posts, deleted, requests>>
    BY <2>1
  <2> HIDE DEF m
  <2>7. ClaimHeld'
    BY <1>2, <2>6, <2>2, <2>3, <2>4, <2>5 DEF IInv, DeliveryInv, ClaimHeld, Delivering
  <2>8. ClaimExclusive'
    BY <1>2, <2>2, <2>5 DEF IInv, DeliveryInv, ClaimExclusive, Delivering
  <2>9. DeliveryPosted'
    BY <1>2, <2>6, <2>2, <2>3, <2>4, <2>5 DEF IInv, DeliveryInv, DeliveryPosted, Delivering
  <2>10. RevisionsPosted' /\ OncePerScheduling' /\ SentWasPosted'
    <3>1. RevisionsPosted'
      BY <1>2, <2>6, <2>3, <2>4 DEF IInv, DeliveryInv, RevisionsPosted
    <3>2. OncePerScheduling' /\ SentWasPosted'
      BY <1>2, <2>6, <2>3, <2>4 DEF IInv, DeliveryInv, OncePerScheduling, SentWasPosted
    <3> QED
      BY <3>1, <3>2
  <2>11. CreateFresh'
    <3>1. \A q \in Requests : requests'[q] = requests[q]
      BY <2>1
    <3> QED
      BY <1>2, <2>6, <2>3, <2>4, <3>1 DEF IInv, DeliveryInv, CreateFresh
  <2> QED
    BY <2>7, <2>8, <2>9, <2>10, <2>11 DEF DeliveryInv
<1> QED
  BY <1>3, <1>4

\* The delivery reads the revision that is saved while it holds the claim.
LEMMA LoadDelivery ==
    ASSUME IInv, NEW i \in Instances, Load(i)
    PROVE  DeliveryInv'
<1> DEFINE s == sweeps[i]
           m == s.row
<1>1. s \in Sweep /\ sweeps \in [Instances -> Sweep] /\ m \in Messages
  BY DeliveringRow DEF IInv, ShapeInv, TypeOK, Load
<1>2. CASE rows[m].status = "REMOVED"
  BY <1>2, NextDueIdle, IdleSweepStep DEF Load, sweepOthers
<1>3. CASE rows[m].status # "REMOVED"
  <2>1. /\ sweeps'[i].pc = "send" /\ sweeps'[i].row = m /\ sweeps'[i].now = s.now
        /\ sweeps'[i].rev = rows[m].rev
        /\ \A j \in Instances : j # i => sweeps'[j] = sweeps[j]
        /\ s.pc = "load"
    BY <1>1, <1>3 DEF Load, Sweep
  <2>2. UNCHANGED <<rows, posts, deleted, requests>>
    BY <1>3 DEF Load, sweepOthers
  <2>3. ClaimHeld' /\ ClaimExclusive'
    BY <2>1, <2>2 DEF IInv, DeliveryInv, ClaimHeld, ClaimExclusive, Delivering
  <2>4. DeliveryPosted'
    BY <2>1, <2>2 DEF IInv, DeliveryInv, DeliveryPosted
  <2>5. RevisionsPosted' /\ OncePerScheduling' /\ SentWasPosted' /\ CreateFresh'
    BY <2>2 DEF IInv, DeliveryInv, RevisionsPosted, OncePerScheduling, SentWasPosted, CreateFresh
  <2> QED
    BY <2>3, <2>4, <2>5 DEF DeliveryInv
<1> QED
  BY <1>2, <1>3

\* Only the holder of the claim posts, and it had not posted yet.
LEMMA SendDelivery ==
    ASSUME IInv, NEW i \in Instances, Send(i)
    PROVE  DeliveryInv'
<1> USE ScheduledAssumption
<1> DEFINE s == sweeps[i]
           m == s.row
           r == s.rev
<1>1. s \in Sweep /\ sweeps \in [Instances -> Sweep] /\ m \in Messages
      /\ posts \in [Messages -> [Revisions -> Nat]] /\ rows \in [Messages -> Row]
  BY DeliveringRow DEF IInv, ShapeInv, TypeOK, Send
<1>2. /\ s.pc = "send" /\ Delivering(i)
      /\ r = rows[m].rev /\ posts[m][r] = 0
      /\ rows[m].status \in {"SENDING", "REMOVED"}
  BY DEF Send, IInv, DeliveryInv, DeliveryPosted, ClaimHeld, Delivering
<1>3. r \in Revisions
  BY <1>1, <1>2 DEF IInv, DeliveryInv, RevisionsPosted, Revisions, Row
<1>4. \A j \in Instances : j # i /\ Delivering(j) => sweeps[j].row \in Messages /\ sweeps[j].row # m
  BY <1>2, DeliveringRow DEF IInv, DeliveryInv, ClaimExclusive, Delivering
<1>5. /\ sweeps'[i].pc = "finish" /\ sweeps'[i].row = m /\ sweeps'[i].now = s.now
      /\ sweeps'[i].rev = r
      /\ \A j \in Instances : j # i => sweeps'[j] = sweeps[j]
      /\ UNCHANGED <<rows, deleted, requests>>
  BY <1>1 DEF Send, sweepOthers, Sweep
<1>6. \/ posts' = posts /\ sweeps'[i].outcome = "FAILED"
      \/ posts' = [posts EXCEPT ![m][r] = @ + 1]
  BY <1>1 DEF Send, Sweep
<1>7. /\ \A n \in Messages : n # m => posts'[n] = posts[n]
      /\ \A v \in Revisions : v # r => posts'[m][v] = posts[m][v]
      /\ posts'[m][r] \in {0, 1}
      /\ sweeps'[i].outcome = "SENT" => posts'[m][r] = 1
  BY <1>1, <1>2, <1>3, <1>6
<1>8. ClaimHeld' /\ ClaimExclusive'
  BY <1>2, <1>5 DEF IInv, DeliveryInv, ClaimHeld, ClaimExclusive, Delivering
<1>9. DeliveryPosted'
  BY <1>2, <1>4, <1>5, <1>7 DEF IInv, DeliveryInv, DeliveryPosted, Delivering
<1>10. \A n \in Messages : rows[n].rev \in 0 .. MaxRev
  BY <1>1 DEF Row
<1>11. RevisionsPosted'
  <2>1. \A n \in Messages, v \in Revisions : v > rows[n].rev => posts'[n][v] = posts[n][v]
    BY <1>2, <1>3, <1>7, <1>10 DEF Revisions
  <2>2. \A n \in Messages : rows[n].status = "PENDING" => posts'[n] = posts[n]
    BY <1>2, <1>7
  <2> QED
    BY <1>5, <2>1, <2>2 DEF IInv, DeliveryInv, RevisionsPosted
<1>12. OncePerScheduling'
  BY <1>7 DEF IInv, DeliveryInv, OncePerScheduling
<1>13. SentWasPosted'
  BY <1>2, <1>5, <1>7 DEF IInv, DeliveryInv, SentWasPosted
<1>14. CreateFresh'
  BY <1>5 DEF IInv, DeliveryInv, CreateFresh
<1> QED
  BY <1>8, <1>9, <1>11, <1>12, <1>13, <1>14 DEF DeliveryInv

\* The outcome lands on the row the sweep still holds.
LEMMA FinishDelivery ==
    ASSUME IInv, NEW i \in Instances, Finish(i)
    PROVE  DeliveryInv'
<1> DEFINE s == sweeps[i]
           m == s.row
<1>1. s \in Sweep /\ sweeps \in [Instances -> Sweep] /\ m \in Messages /\ rows \in [Messages -> Row]
  BY DeliveringRow DEF IInv, ShapeInv, TypeOK, Finish
<1>2. CASE rows[m].status # "SENDING"
  BY <1>2, NextDueIdle, IdleSweepStep DEF Finish, sweepOthers
<1>3. CASE rows[m].status = "SENDING"
  <2>1. /\ s.pc = "finish" /\ Delivering(i)
        /\ s.rev = rows[m].rev /\ s.outcome \in {"SENT", "FAILED"}
        /\ s.outcome = "SENT" => posts[m][rows[m].rev] = 1
    BY <1>1 DEF Finish, Delivering, IInv, DeliveryInv, DeliveryPosted, ShapeInv, SweepShape,
                Shaped, Sweep
  <2>2. /\ rows' = [rows EXCEPT ![m].status = s.outcome,
                                ![m].sent = IF s.outcome = "SENT" THEN s.rev ELSE @]
        /\ UNCHANGED <<posts, deleted, requests>>
    BY <1>3 DEF Finish, sweepOthers
  <2>3. /\ rows'[m].status = s.outcome /\ rows'[m].rev = rows[m].rev
        /\ s.outcome = "SENT" => rows'[m].sent = s.rev
        /\ \A n \in Messages : n # m => rows'[n] = rows[n]
    BY <1>1, <2>2 DEF Row
  <2>4. UNCHANGED <<posts, deleted, requests>>
    BY <2>2
  <2>5. ~Delivering(i)' /\ \A j \in Instances : j # i => sweeps'[j] = sweeps[j]
    <3>1. [s EXCEPT !.pc = "tell"].pc = "tell"
      BY <1>1 DEF Sweep
    <3>2. \/ sweeps' = [sweeps EXCEPT ![i] = [s EXCEPT !.pc = "tell"]]
          \/ sweeps' = [sweeps EXCEPT ![i] = NextDue(s, Tail(s.due))]
      BY <1>3 DEF Finish
    <3> QED
      BY <1>1, <3>1, <3>2, NextDueIdle DEF Delivering
  <2>6. \A j \in Instances : Delivering(j)' => /\ sweeps'[j] = sweeps[j]
                                               /\ sweeps[j].row \in Messages
                                               /\ rows'[sweeps[j].row] = rows[sweeps[j].row]
    <3>1. ASSUME NEW j \in Instances, Delivering(j)' PROVE j # i /\ sweeps'[j] = sweeps[j]
      BY <2>5, <3>1
    <3>2. ASSUME NEW j \in Instances, Delivering(j), j # i
          PROVE  sweeps[j].row \in Messages /\ sweeps[j].row # m
      BY <2>1, <3>2, DeliveringRow DEF IInv, DeliveryInv, ClaimExclusive, Delivering
    <3> QED
      BY <2>3, <3>1, <3>2 DEF Delivering
  <2> HIDE DEF m
  <2>7. ClaimHeld' /\ ClaimExclusive'
    BY <2>4, <2>6 DEF IInv, DeliveryInv, ClaimHeld, ClaimExclusive, Delivering
  <2>8. DeliveryPosted'
    BY <2>4, <2>6 DEF IInv, DeliveryInv, DeliveryPosted, Delivering
  <2>9. RevisionsPosted' /\ OncePerScheduling'
    BY <1>1, <1>3, <2>1, <2>3, <2>4 DEF IInv, DeliveryInv, RevisionsPosted, OncePerScheduling
  <2>10. SentWasPosted'
    BY <1>1, <2>1, <2>3, <2>4 DEF IInv, DeliveryInv, SentWasPosted
  <2>11. CreateFresh'
    BY <1>3, <2>1, <2>3, <2>4 DEF IInv, DeliveryInv, CreateFresh
  <2> QED
    BY <2>7, <2>8, <2>9, <2>10, <2>11 DEF DeliveryInv
<1> QED
  BY <1>2, <1>3

LEMMA SweepDelivery ==
    ASSUME PromptTicks, IInv, NEW i \in Instances,
           StartSweep(i) \/ SweepStep(i) \/ AbortSweep(i) \/ DeliverError(i)
    PROVE  DeliveryInv'
<1> DEFINE s == sweeps[i]
<1>1. CASE FindDue(i)
  <2>1. PICK b : sweeps' = [sweeps EXCEPT ![i] = NextDue(s, b)]
    BY <1>1 DEF FindDue
  <2> QED
    BY <1>1, <2>1, NextDueIdle, IdleSweepStep DEF FindDue, sweepOthers
<1>2. CASE Tell(i)
  BY <1>2, NextDueIdle, IdleSweepStep DEF Tell, sweepOthers
<1>3. CASE AbortSweep(i)
  <2>1. IdleSweep.pc = "idle"
    BY DEF IdleSweep
  <2> QED
    BY <1>3, <2>1, IdleSweepStep DEF AbortSweep
<1>4. CASE DeliverError(i)
  BY <1>4, NextDueIdle, IdleSweepStep DEF DeliverError
<1> QED
  BY <1>1, <1>2, <1>3, <1>4, StaleDelivery, ClaimDelivery, LoadDelivery, SendDelivery,
     FinishDelivery DEF SweepStep

LEMMA IInvInit == Init => IInv
<1>1. Init => SweepTime
  BY DEF Init, SweepTime, IdleSweep
<1> QED
  BY <1>1, ShapeInit, DeliveryInit DEF IInv

LEMMA IInvStep == ASSUME PromptTicks PROVE IInv /\ [Next]_vars => IInv'
<1>1. ASSUME IInv, UNCHANGED vars PROVE DeliveryInv'
  <2>1. CreateFresh'
    BY <1>1 DEF vars, IInv, DeliveryInv, CreateFresh
  <2> QED
    BY <1>1, <2>1, KeepStep DEF vars
<1>2. ASSUME IInv, Next PROVE DeliveryInv'
  BY <1>2, RequestDelivery, SurroundingsDelivery, SweepDelivery DEF Next
<1> QED
  BY <1>1, <1>2, ShapeStep, TimeStep DEF IInv

\* With prompt ticks, whatever the author saved once is posted at most once, on
\* any number of instances, through crashes, stale claims and reschedules.
THEOREM AtMostOnce == ASSUME PromptTicks PROVE Spec => []OncePerScheduling
<1>1. IInv => OncePerScheduling
  BY DEF IInv, DeliveryInv
<1> QED
  BY <1>1, IInvInit, IInvStep, PTL DEF Spec

\* With prompt ticks, a row marked SENT points at the post of what it holds now.
THEOREM SentIsTruthful == ASSUME PromptTicks PROVE Spec => []SentWasPosted
<1>1. IInv => SentWasPosted
  BY DEF IInv, DeliveryInv
<1> QED
  BY <1>1, IInvInit, IInvStep, PTL DEF Spec

\* Only the sweep's send step posts.
LEMMA OnlySendPosts ==
    ASSUME [Next]_vars, posts' # posts
    PROVE  \E i \in Instances : Send(i)
<1>1. ~UNCHANGED vars
  BY DEF vars
<1>2. ASSUME NEW q \in Requests, RequestStep(q) PROVE FALSE
  BY <1>2 DEF RequestStep, CountPending, WriteCreate, WriteUpdate, StartCreate, StartUpdate,
              requestOthers
<1>3. ASSUME NEW i \in Instances,
             StartSweep(i) \/ SweepStep(i) \/ AbortSweep(i) \/ DeliverError(i)
      PROVE  Send(i)
  BY <1>3 DEF SweepStep, StartSweep, FindStale, FailStale, TellStale, FindDue, Claim, Load,
              Finish, Tell, AbortSweep, DeliverError
<1> QED
  BY <1>1, <1>2, <1>3 DEF Next, Tick, Remove, RequestDeletion, CancelDeletion, CompleteDeletion,
                          DeleteDestination, requestOthers

LEMMA SendIsDue ==
    ASSUME IInv, NEW i \in Instances, Send(i), NEW m \in Messages, NEW r \in Revisions,
           posts'[m][r] > posts[m][r]
    PROVE  rows[m].sendAt <= clock /\ rows[m].rev = r
<1> DEFINE s == sweeps[i]
<1>1. s \in Sweep /\ s.row \in Messages /\ posts \in [Messages -> [Revisions -> Nat]]
      /\ s.now \in Nat /\ clock \in Nat /\ rows[m].sendAt \in Nat
  BY DeliveringRow DEF IInv, ShapeInv, TypeOK, Send, Sweep, Row
<1>2. Dest[s.row] \notin deleted /\ posts' = [posts EXCEPT ![s.row][s.rev] = @ + 1]
  BY <1>1 DEF Send
<1>3. m = s.row /\ r = s.rev
  BY <1>1, <1>2
<1>4. rows[s.row].sendAt <= s.now /\ s.rev = rows[s.row].rev /\ s.now <= clock
  BY <1>2 DEF Send, Delivering, IInv, SweepTime, DeliveryInv, ClaimHeld, DeliveryPosted
<1> QED
  BY <1>1, <1>3, <1>4

\* With prompt ticks, nothing is posted before the time last saved, and what is
\* posted is what was last saved.
THEOREM NotBeforeItsTime == ASSUME PromptTicks PROVE Spec => NeverEarly
<1> DEFINE Due == \A m \in Messages, r \in Revisions :
                     posts'[m][r] > posts[m][r] => rows[m].sendAt <= clock /\ rows[m].rev = r
<1>1. ASSUME IInv, [Next]_vars PROVE [Due]_vars
  <2>1. ASSUME posts' = posts PROVE Due
    BY <1>1, <2>1 DEF IInv, ShapeInv, TypeOK
  <2>2. ASSUME posts' # posts PROVE Due
    BY <1>1, <2>2, OnlySendPosts, SendIsDue
  <2> QED
    BY <2>1, <2>2
<1> QED
  BY <1>1, IInvInit, IInvStep, PTL DEF Spec, NeverEarly

--------------------------------------------------------------------------------
(* What was sent stays sent.                                                *)

\* With prompt ticks, no write of the author, no late delivery and no stale pass
\* takes a row out of SENT or moves its sentMessageId.
THEOREM SentStays == ASSUME PromptTicks PROVE Spec => SentIsFinal
<1> DEFINE Kept(m) == rows'[m].status \in {"SENT", "REMOVED"} /\ rows'[m].sent = rows[m].sent
           Final == \A m \in Messages : rows[m].status = "SENT" => Kept(m)
<1>1. ASSUME IInv, Next PROVE Final
  <2> SUFFICES ASSUME NEW m \in Messages, rows[m].status = "SENT", rows'[m] # rows[m]
               PROVE  Kept(m)
    OBVIOUS
  <2>1. rows \in [Messages -> Row]
    BY <1>1 DEF IInv, ShapeInv, TypeOK
  <2>2. \A S : WithoutRows(S)[m] = rows[m] \/ WithoutRows(S)[m] = [rows[m] EXCEPT !.status = "REMOVED"]
    BY DEF WithoutRows
  <2>3. ASSUME NEW S, rows' = WithoutRows(S) PROVE Kept(m)
    BY <2>1, <2>2, <2>3 DEF Row
  <2>4. ASSUME NEW q \in Requests, RequestStep(q) PROVE FALSE
    <3>1. CASE WriteCreate(q)
      <4>1. rows[requests[q].row].status = "ABSENT"
        BY <1>1, <3>1 DEF WriteCreate, IInv, DeliveryInv, CreateFresh
      <4> QED
        BY <2>1, <3>1, <4>1 DEF WriteCreate
    <3>2. CASE WriteUpdate(q)
      BY <2>1, <3>2 DEF WriteUpdate, EditableStatuses
    <3> QED
      BY <2>4, <3>1, <3>2 DEF RequestStep, CountPending, StartCreate, StartUpdate
  <2>5. ASSUME NEW i \in Instances,
               StartSweep(i) \/ SweepStep(i) \/ AbortSweep(i) \/ DeliverError(i)
        PROVE  FALSE
    <3>1. CASE Claim(i) \/ Finish(i) \/ FailStale(i)
      BY <2>1, <3>1 DEF Claim, Claimable, Finish, FailStale, IsStale
    <3> QED
      BY <2>5, <3>1 DEF StartSweep, SweepStep, AbortSweep, DeliverError, FindStale, TellStale,
                        FindDue, Load, Send, Tell
  <2>6. ASSUME NEW n \in Messages, Remove(n) PROVE FALSE
    BY <2>1, <2>6 DEF Remove, EditableStatuses
  <2>7. ASSUME NEW a \in Accounts, RequestDeletion(a) PROVE FALSE
    BY <2>1, <2>7 DEF RequestDeletion
  <2>8. ASSUME NEW a \in Accounts, CompleteDeletion(a) PROVE Kept(m)
    BY <2>3, <2>8 DEF CompleteDeletion
  <2>9. ASSUME NEW d \in Destinations, DeleteDestination(d) PROVE Kept(m)
    BY <2>3, <2>9 DEF DeleteDestination
  <2> QED
    BY <1>1, <2>4, <2>5, <2>6, <2>7, <2>8, <2>9 DEF Next, Tick, CancelDeletion
<1>2. ASSUME IInv, [Next]_vars PROVE [Final]_vars
  BY <1>1, <1>2
<1> QED
  BY <1>2, IInvInit, IInvStep, PTL DEF Spec, SentIsFinal

--------------------------------------------------------------------------------
(* One notice for each failed attempt.                                      *)

\* Sweeps that are about to tell the author of row m.
Tellers(m) == {i \in Instances : sweeps[i].pc \in {"tellStale", "tell"} /\ sweeps[i].row = m}

\* The notices row m may have had by now.
Room(m) == IF rows[m].status \in {"FAILED", "REMOVED"} THEN rows[m].rev
           ELSE IF rows[m].rev = 0 THEN 0 ELSE rows[m].rev - 1

\* The notices stored and those on their way stay within it.
Noticed(m) == /\ IsFiniteSet(Tellers(m))
              /\ notices[m] + Cardinality(Tellers(m)) <= Room(m)

NoticeInv == \A m \in Messages : Noticed(m)

\* No new teller, no notice, and the room has not shrunk.
LEMMA NoticeKept ==
    ASSUME IInv, NEW m \in Messages, Noticed(m), notices'[m] = notices[m],
           Tellers(m)' \subseteq Tellers(m), Room(m)' \in Int, Room(m) <= Room(m)'
    PROVE  Noticed(m)'
<1>1. IsFiniteSet(Tellers(m)') /\ Cardinality(Tellers(m)') <= Cardinality(Tellers(m))
  BY FS_Subset DEF Noticed
<1>2. Cardinality(Tellers(m)) \in Nat /\ Cardinality(Tellers(m)') \in Nat
  BY <1>1, FS_CardinalityType DEF Noticed
<1>3. notices[m] \in Nat /\ Room(m) \in Int
  BY DEF IInv, ShapeInv, TypeOK, Room, Row
<1>4. notices[m] + Cardinality(Tellers(m)') <= Room(m)'
  BY <1>1, <1>2, <1>3 DEF Noticed
<1> QED
  BY <1>1, <1>4 DEF Noticed

\* An attempt fails: one more teller and one more notice of room.
LEMMA NoticeOwed ==
    ASSUME IInv, NEW m \in Messages, NEW i \in Instances, Noticed(m), notices'[m] = notices[m],
           Tellers(m)' \subseteq Tellers(m) \cup {i}, Room(m)' = Room(m) + 1
    PROVE  Noticed(m)'
<1>1. /\ IsFiniteSet(Tellers(m) \cup {i})
      /\ Cardinality(Tellers(m) \cup {i}) <= Cardinality(Tellers(m)) + 1
  <2>1. IsFiniteSet(Tellers(m)) /\ Cardinality(Tellers(m)) \in Nat
    BY FS_CardinalityType DEF Noticed
  <2> QED
    BY <2>1, FS_AddElement
<1>2. IsFiniteSet(Tellers(m)') /\ Cardinality(Tellers(m)') <= Cardinality(Tellers(m) \cup {i})
  BY <1>1, FS_Subset
<1>3. /\ Cardinality(Tellers(m)) \in Nat /\ Cardinality(Tellers(m)') \in Nat
      /\ Cardinality(Tellers(m) \cup {i}) \in Nat
  BY <1>1, <1>2, FS_CardinalityType DEF Noticed
<1>4. notices[m] \in Nat /\ Room(m) \in Int
  BY DEF IInv, ShapeInv, TypeOK, Room, Row
<1>5. notices[m] + Cardinality(Tellers(m)') <= Room(m)'
  BY <1>1, <1>2, <1>3, <1>4 DEF Noticed
<1> QED
  BY <1>2, <1>5 DEF Noticed

\* A teller stores its notice.
LEMMA NoticeStored ==
    ASSUME IInv, NEW m \in Messages, NEW i \in Tellers(m), Noticed(m),
           notices'[m] = notices[m] + 1, Tellers(m)' = Tellers(m) \ {i}, Room(m)' = Room(m)
    PROVE  Noticed(m)'
<1>1. /\ IsFiniteSet(Tellers(m)')
      /\ Cardinality(Tellers(m)') = Cardinality(Tellers(m)) - 1
  BY FS_RemoveElement DEF Noticed
<1>2. Cardinality(Tellers(m)) \in Nat
  BY FS_CardinalityType DEF Noticed
<1>3. notices[m] \in Nat /\ Room(m) \in Int
  BY DEF IInv, ShapeInv, TypeOK, Room, Row
<1>4. notices[m] + 1 + (Cardinality(Tellers(m)) - 1) <= Room(m)
  BY <1>2, <1>3 DEF Noticed
<1>5. notices'[m] + Cardinality(Tellers(m)') <= Room(m)'
  BY <1>1, <1>2, <1>3, <1>4
<1> QED
  BY <1>1, <1>5 DEF Noticed

LEMMA NoticeStep == ASSUME IInv, NoticeInv, Next PROVE NoticeInv'
<1> SUFFICES ASSUME NEW m \in Messages PROVE Noticed(m)'
  BY DEF NoticeInv
<1>1. /\ Noticed(m) /\ rows \in [Messages -> Row] /\ notices \in [Messages -> Nat]
      /\ sweeps \in [Instances -> Sweep] /\ rows[m].rev \in Nat
      /\ rows[m].status = "ABSENT" <=> rows[m].rev = 0
  BY DEF NoticeInv, IInv, ShapeInv, TypeOK, Row, DeliveryInv, RevisionsPosted
<1>2. Room(m) \in Nat
  BY <1>1 DEF Room
<1>3. ASSUME UNCHANGED <<rows, notices>>, Tellers(m)' \subseteq Tellers(m) PROVE Noticed(m)'
  <2>1. Room(m)' = Room(m)
    BY <1>3 DEF Room
  <2> QED
    BY <1>1, <1>2, <1>3, <2>1, NoticeKept
<1>4. ASSUME NEW q \in Requests, RequestStep(q) PROVE Noticed(m)'
  <2>1. UNCHANGED <<notices, sweeps>>
    BY <1>4 DEF RequestStep, CountPending, WriteCreate, WriteUpdate, StartCreate, StartUpdate,
                requestOthers
  <2>2. Tellers(m)' = Tellers(m)
    BY <2>1 DEF Tellers
  <2>3. CASE rows'[m] = rows[m]
    BY <1>1, <1>2, <2>1, <2>2, <2>3, NoticeKept DEF Room
  <2>4. CASE rows'[m] # rows[m]
    <3>1. CASE WriteCreate(q)
      <4>1. m = requests[q].row /\ rows'[m] = Rescheduled(AbsentRow, requests[q].sendAt)
        BY <1>1, <2>4, <3>1 DEF WriteCreate
      <4>2. rows[m].status = "ABSENT"
        BY <3>1, <4>1 DEF WriteCreate, IInv, DeliveryInv, CreateFresh
      <4>3. Room(m) = 0 /\ Room(m)' = 0
        BY <1>1, <4>1, <4>2 DEF Room, Rescheduled, AbsentRow
      <4> QED
        BY <1>1, <2>1, <2>2, <4>3, NoticeKept
    <3>2. CASE WriteUpdate(q)
      <4>1. /\ rows[m].status \in {"PENDING", "FAILED"}
            /\ rows'[m] = Rescheduled(rows[m], requests[q].sendAt)
        BY <1>1, <2>4, <3>2 DEF WriteUpdate, EditableStatuses
      <4>2. Room(m) <= Room(m)' /\ Room(m)' \in Nat
        BY <1>1, <4>1 DEF Room, Rescheduled
      <4> QED
        BY <1>1, <2>1, <2>2, <4>2, NoticeKept
    <3> QED
      BY <1>4, <2>4, <3>1, <3>2 DEF RequestStep, CountPending, StartCreate, StartUpdate
  <2> QED
    BY <2>3, <2>4
<1>5. ASSUME \/ Tick
             \/ \E n \in Messages : Remove(n)
             \/ \E a \in Accounts : RequestDeletion(a) \/ CancelDeletion(a) \/ CompleteDeletion(a)
             \/ \E d \in Destinations : DeleteDestination(d)
      PROVE  Noticed(m)'
  <2>1. UNCHANGED <<notices, sweeps>>
    BY <1>5 DEF Tick, Remove, RequestDeletion, CancelDeletion, CompleteDeletion,
                DeleteDestination, requestOthers
  <2>2. \A S : WithoutRows(S)[m] = rows[m] \/ WithoutRows(S)[m] = [rows[m] EXCEPT !.status = "REMOVED"]
    BY DEF WithoutRows
  <2>3. \/ rows'[m] = rows[m]
        \/ rows'[m].rev = rows[m].rev /\ rows'[m].status \in {"FAILED", "REMOVED"}
    <3>1. ASSUME NEW n \in Messages, Remove(n) PROVE <2>3
      BY <1>1, <3>1 DEF Remove, Row
    <3>2. ASSUME NEW a \in Accounts, RequestDeletion(a) PROVE <2>3
      BY <1>1, <3>2 DEF RequestDeletion, Row
    <3>3. ASSUME NEW S, rows' = WithoutRows(S) PROVE <2>3
      BY <1>1, <2>2, <3>3 DEF Row
    <3> QED
      BY <1>5, <3>1, <3>2, <3>3 DEF Tick, CancelDeletion, CompleteDeletion, DeleteDestination
  <2>4. Tellers(m)' = Tellers(m)
    BY <2>1 DEF Tellers
  <2>5. Room(m) <= Room(m)' /\ Room(m)' \in Nat
    BY <1>1, <2>3 DEF Room
  <2> QED
    BY <1>1, <2>1, <2>4, <2>5, NoticeKept
<1>6. ASSUME NEW i \in Instances,
             StartSweep(i) \/ SweepStep(i) \/ AbortSweep(i) \/ DeliverError(i)
      PROVE  Noticed(m)'
  <2> DEFINE Telling(s) == s.pc \in {"tellStale", "tell"}
  <2>1. /\ \A j \in Instances \ {i} : sweeps'[j] = sweeps[j]
        /\ sweeps[i] \in Sweep /\ Shaped(sweeps[i])
    <3>1. \E s : sweeps' = [sweeps EXCEPT ![i] = s]
      BY <1>6 DEF StartSweep, SweepStep, AbortSweep, DeliverError, FindStale, FailStale, TellStale,
                  FindDue, Claim, Load, Send, Finish, Tell
    <3> QED
      BY <1>1, <3>1 DEF IInv, ShapeInv, SweepShape
  <2>2. ~Telling(sweeps'[i]) => Tellers(m)' \subseteq Tellers(m) \ {i}
    BY <2>1 DEF Tellers
  <2>3. \A s, t : NextDue(s, t).pc \in {"idle", "claim"}
    BY DEF NextDue, IdleSweep
  <2>4. \A n : AfterStale(sweeps[i], n).pc \in {"findDue", "failStale"}
    BY <2>1 DEF AfterStale, Sweep
  <2>5. CASE StartSweep(i) \/ FindDue(i) \/ AbortSweep(i) \/ DeliverError(i) \/ Load(i)
    <3>1. UNCHANGED <<rows, notices>>
      BY <2>5 DEF StartSweep, FindDue, AbortSweep, DeliverError, Load
    <3>2. CASE Load(i)
      <4>1. \/ sweeps'[i] = NextDue(sweeps[i], Tail(sweeps[i].due))
            \/ sweeps'[i] = [sweeps[i] EXCEPT !.pc = "send", !.rev = rows[sweeps[i].row].rev]
        BY <1>1, <3>2 DEF Load
      <4>2. [sweeps[i] EXCEPT !.pc = "send", !.rev = rows[sweeps[i].row].rev].pc = "send"
        BY <2>1 DEF Sweep
      <4>3. ~Telling(sweeps'[i])
        BY <2>3, <4>1, <4>2
      <4> QED
        BY <1>3, <2>2, <3>1, <4>3
    <3>3. CASE StartSweep(i) \/ FindDue(i) \/ AbortSweep(i) \/ DeliverError(i)
      <4>1. \/ \E s, t : sweeps' = [sweeps EXCEPT ![i] = NextDue(s, t)]
            \/ sweeps' = [sweeps EXCEPT ![i] = IdleSweep]
            \/ sweeps' = [sweeps EXCEPT ![i] = [IdleSweep EXCEPT !.pc = "findStale", !.now = clock]]
        BY <3>3 DEF StartSweep, FindDue, AbortSweep, DeliverError
      <4>2. IdleSweep.pc = "idle" /\ [IdleSweep EXCEPT !.pc = "findStale", !.now = clock].pc = "findStale"
        BY DEF IdleSweep
      <4>3. ~Telling(sweeps'[i])
        <5>1. \A x : sweeps' = [sweeps EXCEPT ![i] = x] => sweeps'[i] = x
          BY <1>1
        <5>2. CASE \E s, t : sweeps' = [sweeps EXCEPT ![i] = NextDue(s, t)]
          <6>1. PICK s, t : sweeps' = [sweeps EXCEPT ![i] = NextDue(s, t)]
            BY <5>2
          <6>2. sweeps'[i] = NextDue(s, t)
            BY <5>1, <6>1
          <6> QED
            BY <2>3, <6>2
        <5>3. CASE sweeps' = [sweeps EXCEPT ![i] = IdleSweep]
          BY <4>2, <5>1, <5>3
        <5>4. CASE sweeps' = [sweeps EXCEPT ![i] = [IdleSweep EXCEPT !.pc = "findStale", !.now = clock]]
          BY <4>2, <5>1, <5>4
        <5> QED
          BY <4>1, <5>2, <5>3, <5>4
      <4> QED
        BY <1>3, <2>2, <3>1, <4>3
    <3> QED
      BY <2>5, <3>2, <3>3
  <2>6. CASE FindStale(i)
    <3>1. PICK S : sweeps' = [sweeps EXCEPT ![i].stale = S,
                                 ![i].pc = IF S = {} THEN "findDue" ELSE "failStale"]
      BY <2>6 DEF FindStale
    <3>2. ~Telling(sweeps'[i])
      BY <1>1, <2>1, <3>1 DEF Sweep
    <3> QED
      BY <1>3, <2>2, <2>6, <3>2 DEF FindStale
  <2>7. CASE FailStale(i)
    <3>1. PICK n \in sweeps[i].stale :
              IF IsStale(n, sweeps[i].now)
              THEN /\ rows' = [rows EXCEPT ![n].status = "FAILED"]
                   /\ sweeps' = [sweeps EXCEPT ![i].pc = "tellStale", ![i].row = n]
              ELSE /\ sweeps' = [sweeps EXCEPT ![i] = AfterStale(sweeps[i], n)]
                   /\ UNCHANGED rows
      BY <2>7 DEF FailStale
    <3>2. n \in Messages /\ notices' = notices
      BY <2>1, <2>7 DEF Sweep, FailStale
    <3>3. CASE ~IsStale(n, sweeps[i].now)
      <4>1. ~Telling(sweeps'[i]) /\ rows' = rows
        BY <1>1, <2>4, <3>1, <3>3
      <4> QED
        BY <1>3, <2>2, <3>2, <4>1
    <3>4. CASE IsStale(n, sweeps[i].now)
      <4>1. sweeps'[i].row = n
        BY <1>1, <2>1, <3>1, <3>4 DEF Sweep
      <4>2. CASE m = n
        <5>1. Tellers(m)' \subseteq Tellers(m) \cup {i}
          BY <2>1 DEF Tellers
        <5>2. /\ rows[m].status = "SENDING" /\ rows'[m].status = "FAILED"
              /\ rows'[m].rev = rows[m].rev
          BY <1>1, <3>1, <3>4, <4>2 DEF IsStale, Row
        <5>3. Room(m)' = Room(m) + 1
          BY <1>1, <5>2 DEF Room
        <5> QED
          BY <1>1, <3>2, <5>1, <5>3, NoticeOwed
      <4>3. CASE m # n
        <5>1. Tellers(m)' \subseteq Tellers(m)
          BY <2>1, <4>1, <4>3 DEF Tellers
        <5>2. Room(m)' = Room(m)
          BY <1>1, <3>1, <3>4, <4>3 DEF Room
        <5> QED
          BY <1>1, <1>2, <3>2, <5>1, <5>2, NoticeKept
      <4> QED
        BY <4>2, <4>3
    <3> QED
      BY <3>3, <3>4
  <2>8. CASE TellStale(i) \/ Tell(i)
    <3>1. ~Telling(sweeps'[i]) /\ Telling(sweeps[i]) /\ rows' = rows
      BY <1>1, <2>3, <2>4, <2>8 DEF TellStale, Tell
    <3>2. /\ notices' = [notices EXCEPT ![sweeps[i].row] = @ + 1]
      BY <2>8 DEF TellStale, Tell
    <3>3. Room(m)' = Room(m)
      BY <3>1 DEF Room
    <3>4. CASE m = sweeps[i].row
      <4>1. i \in Tellers(m) /\ Tellers(m)' = Tellers(m) \ {i}
        BY <2>1, <3>1, <3>4 DEF Tellers
      <4>2. notices'[m] = notices[m] + 1
        BY <1>1, <3>2, <3>4
      <4> QED
        BY <1>1, <3>3, <4>1, <4>2, NoticeStored
    <3>5. CASE m # sweeps[i].row
      <4>1. notices'[m] = notices[m]
        BY <1>1, <3>2, <3>5
      <4> QED
        BY <1>1, <1>2, <2>2, <3>1, <3>3, <4>1, NoticeKept
    <3> QED
      BY <3>4, <3>5
  <2>9. CASE Claim(i)
    <3>1. ~Telling(sweeps'[i]) /\ notices' = notices
      <4>1. \/ sweeps' = [sweeps EXCEPT ![i].pc = "load", ![i].row = Head(sweeps[i].due)]
            \/ sweeps' = [sweeps EXCEPT ![i] = NextDue(sweeps[i], Tail(sweeps[i].due))]
        BY <2>9 DEF Claim
      <4>2. CASE sweeps' = [sweeps EXCEPT ![i].pc = "load", ![i].row = Head(sweeps[i].due)]
        <5>1. sweeps'[i].pc = "load"
          BY <1>1, <2>1, <4>2 DEF Sweep
        <5> QED
          BY <2>9, <5>1 DEF Claim
      <4>3. CASE sweeps' = [sweeps EXCEPT ![i] = NextDue(sweeps[i], Tail(sweeps[i].due))]
        BY <1>1, <2>3, <2>9, <4>3 DEF Claim
      <4> QED
        BY <4>1, <4>2, <4>3
    <3>2. \/ rows'[m] = rows[m]
          \/ /\ rows[m].status = "PENDING" /\ rows'[m].status = "SENDING"
             /\ rows'[m].rev = rows[m].rev
      BY <1>1, <2>9 DEF Claim, Claimable, Row
    <3>3. Room(m)' = Room(m)
      BY <1>1, <3>2 DEF Room
    <3> QED
      BY <1>1, <1>2, <2>2, <3>1, <3>3, NoticeKept
  <2>10. CASE Send(i)
    <3>1. sweeps'[i].pc = "finish"
      BY <1>1, <2>1, <2>10 DEF Send, Sweep
    <3> QED
      BY <1>3, <2>2, <2>10, <3>1 DEF Send
  <2>11. CASE Finish(i)
    <3> DEFINE n == sweeps[i].row
    <3>1. n \in Messages /\ notices' = notices /\ sweeps[i].pc = "finish"
      BY <2>11, DeliveringRow DEF Finish, IInv
    <3>2. CASE rows[n].status = "SENDING" /\ sweeps[i].outcome = "FAILED"
      <4>1. /\ sweeps'[i] = [sweeps[i] EXCEPT !.pc = "tell"]
            /\ rows' = [rows EXCEPT ![n].status = "FAILED", ![n].sent = rows[n].sent]
        BY <1>1, <2>11, <3>1, <3>2 DEF Finish
      <4>2. sweeps'[i].row = n
        BY <2>1, <4>1 DEF Sweep
      <4>3. CASE m = n
        <5>1. Tellers(m)' \subseteq Tellers(m) \cup {i}
          BY <2>1 DEF Tellers
        <5>2. /\ rows[m].status = "SENDING" /\ rows'[m].status = "FAILED"
              /\ rows'[m].rev = rows[m].rev
          BY <1>1, <3>2, <4>1, <4>3 DEF Row
        <5>3. Room(m)' = Room(m) + 1
          BY <1>1, <5>2 DEF Room
        <5> QED
          BY <1>1, <3>1, <5>1, <5>3, NoticeOwed
      <4>4. CASE m # n
        <5>1. Tellers(m)' \subseteq Tellers(m)
          BY <2>1, <4>2, <4>4 DEF Tellers
        <5>2. Room(m)' = Room(m)
          BY <1>1, <4>1, <4>4 DEF Room
        <5> QED
          BY <1>1, <1>2, <3>1, <5>1, <5>2, NoticeKept
      <4> QED
        BY <4>3, <4>4
    <3>3. CASE ~(rows[n].status = "SENDING" /\ sweeps[i].outcome = "FAILED")
      <4>1. sweeps'[i] = NextDue(sweeps[i], Tail(sweeps[i].due))
        BY <1>1, <2>11, <3>3 DEF Finish
      <4>2. ~Telling(sweeps'[i])
        BY <2>3, <4>1
      <4>3. sweeps[i].outcome = "SENT" \/ rows' = rows
        BY <2>1, <2>11, <3>3 DEF Finish, Shaped, Sweep
      <4>4. \/ rows'[m] = rows[m]
            \/ /\ rows[m].status = "SENDING" /\ rows'[m].status = "SENT"
               /\ rows'[m].rev = rows[m].rev
        BY <1>1, <2>11, <4>3 DEF Finish, Row
      <4>5. Room(m)' = Room(m)
        BY <1>1, <4>4 DEF Room
      <4> QED
        BY <1>1, <1>2, <2>2, <3>1, <4>2, <4>5, NoticeKept
    <3> QED
      BY <3>2, <3>3
  <2> QED
    BY <1>6, <2>5, <2>6, <2>7, <2>8, <2>9, <2>10, <2>11 DEF SweepStep
<1> QED
  BY <1>4, <1>5, <1>6 DEF Next

\* With prompt ticks, the author is told of a failed attempt once at most,
\* whichever instance, stale pass or delivery reports it.
THEOREM ToldOnce == ASSUME PromptTicks PROVE Spec => []OneNoticePerFailure
<1>1. Init => NoticeInv
  <2> SUFFICES ASSUME Init, NEW m \in Messages PROVE Noticed(m)
    BY DEF NoticeInv
  <2>1. Tellers(m) = {} /\ notices[m] = 0 /\ Room(m) = 0
    BY DEF Init, Tellers, Room, IdleSweep, AbsentRow
  <2> QED
    BY <2>1, FS_EmptySet DEF Noticed
<1>2. ASSUME IInv, NoticeInv, [Next]_vars PROVE NoticeInv'
  <2>1. CASE UNCHANGED vars
    BY <1>2, <2>1 DEF vars, NoticeInv, Noticed, Tellers, Room
  <2> QED
    BY <1>2, <2>1, NoticeStep
<1>3. ASSUME IInv, NoticeInv PROVE OneNoticePerFailure
  <2> SUFFICES ASSUME NEW m \in Messages PROVE notices[m] <= Room(m)
    BY DEF OneNoticePerFailure, Room
  <2>1. Cardinality(Tellers(m)) \in Nat /\ notices[m] + Cardinality(Tellers(m)) <= Room(m)
    BY <1>3, FS_CardinalityType DEF NoticeInv, Noticed
  <2>2. notices[m] \in Nat /\ Room(m) \in Int
    BY <1>3 DEF IInv, ShapeInv, TypeOK, Room, Row
  <2> QED
    BY <2>1, <2>2
<1> QED
  BY <1>1, <1>2, <1>3, IInvInit, IInvStep, PTL DEF Spec
================================================================================
