-------------------------- MODULE ScheduledJobs_proofs --------------------------
(***************************************************************************)
(* ScheduledMessages implements ClaimedJobs, for any number of instances,  *)
(* rows, requests and revisions, while ticks are prompt.  It rests on the  *)
(* inductive invariant of ScheduledMessages_proofs.                        *)
(***************************************************************************)
EXTENDS ScheduledJobs, ScheduledMessages_proofs

--------------------------------------------------------------------------------
(* The steps of ClaimedJobs, read through the mapping.                      *)

Unmoved(m, r) ==
    /\ JobState(m, r)' = JobState(m, r)
    /\ JobWork(m, r)' = JobWork(m, r)
    /\ JobDone(m, r)' = JobDone(m, r)
    /\ JobHolders(m, r)' = JobHolders(m, r)

Opened(m, r) ==
    /\ JobState(m, r) = "absent"
    /\ JobState(m, r)' \in {"open", "closed"}
    /\ JobWork(m, r)' \in Nat
    /\ JobDone(m, r)' = 0
    /\ JobHolders(m, r)' = {}

Withdrawn(m, r) ==
    /\ JobState(m, r) = "open"
    /\ JobState(m, r)' \in {"open", "closed"}
    /\ JobWork(m, r)' \in Nat
    /\ JobDone(m, r)' = 0
    /\ JobHolders(m, r)' = {}

Taken(m, r) ==
    /\ JobState(m, r) = "open"
    /\ JobState(m, r)' = "taken"
    /\ \E i \in Instances : JobHolders(m, r)' = {i}
    /\ JobWork(m, r)' = JobWork(m, r)
    /\ JobDone(m, r)' = 0

Carried(m, r) ==
    /\ JobHolders(m, r) # {}
    /\ JobDone(m, r) < JobWork(m, r)
    /\ JobDone(m, r)' = JobDone(m, r) + 1
    /\ JobWork(m, r)' = JobWork(m, r)
    /\ JobState(m, r)' = JobState(m, r)
    /\ JobHolders(m, r)' = JobHolders(m, r)

Left(m, r) ==
    /\ JobHolders(m, r) # {}
    /\ JobHolders(m, r)' = {}
    /\ JobState(m, r)' \in {JobState(m, r), "closed", "finished"}
    /\ JobState(m, r)' = "finished" => JobDone(m, r) = JobWork(m, r)
    /\ JobWork(m, r)' = JobWork(m, r)
    /\ JobDone(m, r)' = JobDone(m, r)

\* Given up by a stale pass, or erased with what it belonged to.
Dropped(m, r) ==
    /\ JobState(m, r) \in {"taken", "finished"}
    /\ JobState(m, r)' = "closed"
    /\ JobWork(m, r)' = JobWork(m, r)
    /\ JobDone(m, r)' = JobDone(m, r)
    /\ JobHolders(m, r)' = JobHolders(m, r)

Moved(m, r) ==
    \/ Unmoved(m, r) \/ Opened(m, r) \/ Withdrawn(m, r) \/ Taken(m, r)
    \/ Carried(m, r) \/ Left(m, r) \/ Dropped(m, r)

\* A step that moves every revision one of these ways is a step of ClaimedJobs.
LEMMA MovedIsStep ==
    ASSUME \A m \in Messages, r \in Revisions : Moved(m, r)
    PROVE  Claims!Next
<1> SUFFICES ASSUME NEW j \in SavedJobs PROVE Claims!JobStep(j)
  BY DEF Claims!Next
<1> DEFINE m == j[1]
           r == j[2]
<1>1. m \in Messages /\ r \in Revisions
  BY DEF SavedJobs
<1>2. Moved(m, r)
  BY <1>1
<1>3. CASE Unmoved(m, r)
  <2>1. Claims!Same(j)
    BY <1>3 DEF Unmoved, Claims!Same
  <2> QED
    BY <2>1 DEF Claims!JobStep
<1>4. CASE Opened(m, r)
  <2>1. Claims!Open(j)
    BY <1>4 DEF Opened, Claims!Open
  <2> QED
    BY <2>1 DEF Claims!JobStep
<1>5. CASE Withdrawn(m, r)
  <2>1. Claims!Withdraw(j)
    BY <1>5 DEF Withdrawn, Claims!Withdraw
  <2> QED
    BY <2>1 DEF Claims!JobStep
<1>6. CASE Taken(m, r)
  <2>1. Claims!Take(j)
    BY <1>6 DEF Taken, Claims!Take
  <2> QED
    BY <2>1 DEF Claims!JobStep
<1>7. CASE Carried(m, r)
  <2>1. Claims!Carry(j)
    BY <1>7 DEF Carried, Claims!Carry
  <2> QED
    BY <2>1 DEF Claims!JobStep
<1>8. CASE Left(m, r)
  <2>1. Claims!Leave(j)
    BY <1>8 DEF Left, Claims!Leave
  <2> QED
    BY <2>1 DEF Claims!JobStep
<1>9. CASE Dropped(m, r)
  <2>1. Claims!GiveUp(j) \/ Claims!Erase(j)
    BY <1>9 DEF Dropped, Claims!GiveUp, Claims!Erase
  <2> QED
    BY <2>1 DEF Claims!JobStep
<1> QED
  BY <1>2, <1>3, <1>4, <1>5, <1>6, <1>7, <1>8, <1>9 DEF Moved

--------------------------------------------------------------------------------
(* Who holds a job.                                                         *)

\* The row of a delivery belongs to one instance, at the revision it holds.
LEMMA HoldersOf ==
    ASSUME IInv, NEW i \in Instances, Delivering(i), NEW r \in Revisions
    PROVE  JobHolders(sweeps[i].row, r) = IF r = rows[sweeps[i].row].rev THEN {i} ELSE {}
<1> DEFINE m == sweeps[i].row
<1>1. \A j \in Instances : Delivering(j) /\ sweeps[j].row = m => j = i
  BY DEF IInv, DeliveryInv, ClaimExclusive
<1>2. sweeps[i].pc \in {"send", "finish"} => sweeps[i].rev = rows[m].rev
  BY DEF IInv, DeliveryInv, DeliveryPosted
<1> QED
  BY <1>1, <1>2 DEF JobHolders, Delivering

\* Nobody holds a row that is neither being sent nor gone.
LEMMA NoHolders ==
    ASSUME IInv, NEW m \in Messages, rows[m].status \notin {"SENDING", "REMOVED"}
    PROVE  /\ \A i \in Instances : Delivering(i) => sweeps[i].row # m
           /\ \A r \in Revisions : JobHolders(m, r) = {}
<1>1. \A i \in Instances : Delivering(i) => sweeps[i].row # m
  BY DEF IInv, DeliveryInv, ClaimHeld
<1> QED
  BY <1>1 DEF JobHolders, Delivering

\* What the types say of the revisions and the posts of a row.
LEMMA RowTypes ==
    ASSUME IInv, NEW m \in Messages, NEW r \in Revisions
    PROVE  /\ rows[m].rev \in Nat /\ r \in Nat \ {0} /\ posts[m][r] \in Nat
           /\ rows[m].status \in Statuses
           /\ rows[m].rev = 0 <=> rows[m].status = "ABSENT"
           /\ r > rows[m].rev => posts[m][r] = 0
           /\ rows[m].status = "PENDING" /\ r = rows[m].rev => posts[m][r] = 0
BY ScheduledAssumption
   DEF IInv, ShapeInv, TypeOK, Row, Revisions, DeliveryInv, RevisionsPosted

--------------------------------------------------------------------------------
(* What a step of each kind does to the revisions of a row.                 *)

\* The row keeps its place and the deliveries of it go on.
LEMMA Rests ==
    ASSUME IInv, NEW m \in Messages, NEW r \in Revisions, rows'[m] = rows[m],
           posts'[m][r] = posts[m][r], JobHolders(m, r)' = JobHolders(m, r)
    PROVE  Moved(m, r)
BY DEF Moved, Unmoved, JobState, JobWork, JobDone

\* A step of sweeps that are not delivering, before or after it.
LEMMA HoldersKept ==
    ASSUME IInv, NEW m \in Messages, NEW r \in Revisions, rows'[m].rev = rows[m].rev,
           \A i \in Instances : sweeps'[i] = sweeps[i] \/ (~Delivering(i) /\ ~Delivering(i)')
    PROVE  JobHolders(m, r)' = JobHolders(m, r)
BY DEF JobHolders, Delivering

\* The author saves the row anew: the revision it held closes, the next opens.
LEMMA Saves ==
    ASSUME IInv, NEW m \in Messages, NEW r \in Revisions, UNCHANGED <<posts, sweeps>>,
           rows[m].status \in {"ABSENT", "PENDING", "FAILED"},
           rows'[m].status = "PENDING", rows'[m].rev = rows[m].rev + 1
    PROVE  Moved(m, r)
<1>1. /\ rows[m].rev \in Nat /\ r \in Nat \ {0}
      /\ rows[m].rev = 0 <=> rows[m].status = "ABSENT"
      /\ r > rows[m].rev => posts[m][r] = 0
      /\ rows[m].status = "PENDING" /\ r = rows[m].rev => posts[m][r] = 0
  BY RowTypes
<1>2. JobHolders(m, r) = {} /\ JobHolders(m, r)' = {}
  BY NoHolders DEF JobHolders, Delivering
<1>3. CASE r > rows[m].rev + 1
  <2>1. Unmoved(m, r)
    BY <1>1, <1>2, <1>3 DEF Unmoved, JobState, JobWork, JobDone
  <2> QED
    BY <2>1 DEF Moved
<1>4. CASE r = rows[m].rev + 1
  <2>1. Opened(m, r)
    BY <1>1, <1>2, <1>4 DEF Opened, JobState, JobWork, JobDone
  <2> QED
    BY <2>1 DEF Moved
<1>5. CASE r = rows[m].rev /\ rows[m].status = "PENDING"
  <2>1. Withdrawn(m, r)
    BY <1>1, <1>2, <1>5 DEF Withdrawn, JobState, JobWork, JobDone
  <2> QED
    BY <2>1 DEF Moved
<1>6. CASE r < rows[m].rev \/ (r = rows[m].rev /\ rows[m].status # "PENDING")
  <2>1. rows[m].rev # 0
    BY <1>1, <1>6
  <2>2. Unmoved(m, r)
    BY <1>1, <1>2, <1>6, <2>1 DEF Unmoved, JobState, JobWork, JobDone
  <2> QED
    BY <2>2 DEF Moved
<1>7. \/ r > rows[m].rev + 1
      \/ r = rows[m].rev + 1
      \/ r = rows[m].rev /\ rows[m].status = "PENDING"
      \/ r < rows[m].rev \/ (r = rows[m].rev /\ rows[m].status # "PENDING")
  BY <1>1
<1> QED
  BY <1>3, <1>4, <1>5, <1>6, <1>7

\* The row is failed or removed; a delivery may still be at work on it.
LEMMA Closes ==
    ASSUME IInv, NEW m \in Messages, NEW r \in Revisions, posts' = posts,
           \A i \in Instances : sweeps'[i] = sweeps[i] \/ (~Delivering(i) /\ ~Delivering(i)'),
           rows'[m].rev = rows[m].rev,
           \/ rows[m].status # "ABSENT" /\ rows'[m].status = "REMOVED"
           \/ rows[m].status \in {"PENDING", "SENDING"} /\ rows'[m].status = "FAILED"
    PROVE  Moved(m, r)
<1>1. /\ rows[m].rev \in Nat /\ r \in Nat \ {0}
      /\ rows[m].status \in Statuses
      /\ rows[m].status = "PENDING" /\ r = rows[m].rev => posts[m][r] = 0
  BY RowTypes
<1>2. JobHolders(m, r)' = JobHolders(m, r)
  BY HoldersKept
<1>3. CASE r # rows[m].rev \/ rows[m].status \in {"FAILED", "REMOVED"}
  <2>1. Unmoved(m, r)
    BY <1>1, <1>2, <1>3 DEF Unmoved, JobState, JobWork, JobDone
  <2> QED
    BY <2>1 DEF Moved
<1>4. CASE r = rows[m].rev /\ rows[m].status = "PENDING"
  <2>1. JobHolders(m, r) = {}
    BY <1>4, NoHolders
  <2>2. Withdrawn(m, r)
    BY <1>1, <1>2, <1>4, <2>1 DEF Withdrawn, JobState, JobWork, JobDone
  <2> QED
    BY <2>2 DEF Moved
<1>5. CASE r = rows[m].rev /\ rows[m].status \in {"SENDING", "SENT"}
  <2>1. Dropped(m, r)
    BY <1>1, <1>2, <1>5 DEF Dropped, JobState, JobWork, JobDone
  <2> QED
    BY <2>1 DEF Moved
<1> QED
  BY <1>1, <1>3, <1>4, <1>5 DEF Statuses

\* A delivery ends: the row keeps its status, or takes the outcome.
LEMMA Ends ==
    ASSUME IInv, NEW i \in Instances, Delivering(i), ~Delivering(i)', posts' = posts,
           \A j \in Instances \ {i} : sweeps'[j] = sweeps[j],
           \A n \in Messages : n # sweeps[i].row => rows'[n] = rows[n],
           rows'[sweeps[i].row].rev = rows[sweeps[i].row].rev,
           \/ rows'[sweeps[i].row] = rows[sweeps[i].row]
           \/ rows[sweeps[i].row].status = "SENDING" /\ rows'[sweeps[i].row].status = "FAILED"
           \/ /\ rows[sweeps[i].row].status = "SENDING"
              /\ rows'[sweeps[i].row].status = "SENT"
              /\ sweeps[i].pc = "finish" /\ sweeps[i].outcome = "SENT",
           NEW m \in Messages, NEW r \in Revisions
    PROVE  Moved(m, r)
<1>1. rows[m].rev \in Nat /\ r \in Nat \ {0}
  BY RowTypes
<1>2. CASE m # sweeps[i].row
  <2>1. JobHolders(m, r)' = JobHolders(m, r)
    BY <1>2 DEF JobHolders, Delivering
  <2> QED
    BY <1>2, <2>1, Rests
<1>3. CASE m = sweeps[i].row
  <2>1. JobHolders(m, r) = IF r = rows[m].rev THEN {i} ELSE {}
    BY <1>3, HoldersOf
  <2>2. \A j \in Instances : Delivering(j) /\ sweeps[j].row = m => j = i
    BY <1>3 DEF IInv, DeliveryInv, ClaimExclusive
  <2>3. JobHolders(m, r)' = {}
    BY <2>2 DEF JobHolders, Delivering
  <2>4. CASE r # rows[m].rev
    <3>1. Unmoved(m, r)
      BY <1>1, <1>3, <2>1, <2>3, <2>4 DEF Unmoved, JobState, JobWork, JobDone
    <3> QED
      BY <3>1 DEF Moved
  <2>5. CASE r = rows[m].rev
    <3>1. sweeps[i].pc = "finish" /\ sweeps[i].outcome = "SENT" => posts[m][r] = 1
      BY <1>3, <2>5 DEF IInv, DeliveryInv, DeliveryPosted
    <3>2. rows'[m] = rows[m] /\ rows[m].status = "SENT" => posts[m][r] = 1
      BY <2>5 DEF IInv, DeliveryInv, SentWasPosted
    <3>3. Left(m, r)
      BY <1>1, <1>3, <2>1, <2>3, <2>5, <3>1, <3>2 DEF Left, JobState, JobWork, JobDone
    <3> QED
      BY <3>3 DEF Moved
  <2> QED
    BY <2>4, <2>5
<1> QED
  BY <1>2, <1>3

--------------------------------------------------------------------------------
(* Every action is one of these, for every row.                             *)

LEMMA RequestMoves ==
    ASSUME IInv, NEW q \in Requests, RequestStep(q), NEW m \in Messages, NEW r \in Revisions
    PROVE  Moved(m, r)
<1>1. UNCHANGED <<posts, sweeps>> /\ rows \in [Messages -> Row]
  BY DEF RequestStep, CountPending, WriteCreate, WriteUpdate, StartCreate, StartUpdate,
         requestOthers, IInv, ShapeInv, TypeOK
<1>2. CASE rows'[m] = rows[m]
  <2>1. JobHolders(m, r)' = JobHolders(m, r)
    BY <1>1, <1>2 DEF JobHolders
  <2> QED
    BY <1>1, <1>2, <2>1, Rests
<1>3. CASE rows'[m] # rows[m] /\ WriteCreate(q)
  <2>1. m = requests[q].row /\ rows'[m] = Rescheduled(AbsentRow, requests[q].sendAt)
    BY <1>1, <1>3 DEF WriteCreate
  <2>2. rows[m].status = "ABSENT"
    BY <1>3, <2>1 DEF WriteCreate, IInv, DeliveryInv, CreateFresh
  <2>3. rows[m].rev = 0
    BY <2>2 DEF IInv, DeliveryInv, RevisionsPosted
  <2>4. rows'[m].status = "PENDING" /\ rows'[m].rev = rows[m].rev + 1
    BY <2>1, <2>3 DEF Rescheduled, AbsentRow
  <2> QED
    BY <1>1, <2>2, <2>4, Saves
<1>4. CASE rows'[m] # rows[m] /\ WriteUpdate(q)
  <2>1. /\ m = requests[q].row /\ rows[m].status = requests[q].status
        /\ requests[q].status \in EditableStatuses
        /\ rows'[m] = Rescheduled(rows[m], requests[q].sendAt)
    BY <1>1, <1>4 DEF WriteUpdate
  <2>2. rows'[m].status = "PENDING" /\ rows'[m].rev = rows[m].rev + 1
    BY <2>1 DEF Rescheduled
  <2> QED
    BY <1>1, <2>1, <2>2, Saves DEF EditableStatuses
<1>5. rows'[m] # rows[m] => WriteCreate(q) \/ WriteUpdate(q)
  BY DEF RequestStep, CountPending, StartCreate, StartUpdate
<1> QED
  BY <1>2, <1>3, <1>4, <1>5

LEMMA SurroundingsMove ==
    ASSUME IInv, NEW m \in Messages, NEW r \in Revisions,
           \/ Tick
           \/ \E n \in Messages : Remove(n)
           \/ \E a \in Accounts : RequestDeletion(a) \/ CancelDeletion(a) \/ CompleteDeletion(a)
           \/ \E d \in Destinations : DeleteDestination(d)
    PROVE  Moved(m, r)
<1>1. UNCHANGED <<posts, sweeps>> /\ rows \in [Messages -> Row]
  BY DEF Tick, Remove, RequestDeletion, CancelDeletion, CompleteDeletion, DeleteDestination,
         requestOthers, IInv, ShapeInv, TypeOK
<1>2. \/ rows'[m] = rows[m]
      \/ /\ rows'[m].rev = rows[m].rev
         /\ \/ rows[m].status # "ABSENT" /\ rows'[m].status = "REMOVED"
            \/ rows[m].status \in {"PENDING", "SENDING"} /\ rows'[m].status = "FAILED"
  <2>1. \A S : \/ WithoutRows(S)[m] = rows[m]
               \/ /\ WithoutRows(S)[m].rev = rows[m].rev
                  /\ rows[m].status # "ABSENT" /\ WithoutRows(S)[m].status = "REMOVED"
    BY <1>1 DEF WithoutRows, Row
  <2>2. ASSUME NEW n \in Messages, Remove(n) PROVE <1>2!1 \/ <1>2!2
    BY <1>1, <2>2 DEF Remove, EditableStatuses, Row
  <2>3. ASSUME NEW a \in Accounts, RequestDeletion(a) PROVE <1>2!1 \/ <1>2!2
    BY <1>1, <2>3 DEF RequestDeletion, Row
  <2> QED
    BY <2>1, <2>2, <2>3 DEF Tick, CancelDeletion, CompleteDeletion, DeleteDestination
<1>3. CASE rows'[m] = rows[m]
  <2>1. JobHolders(m, r)' = JobHolders(m, r)
    BY <1>1, <1>3 DEF JobHolders
  <2> QED
    BY <1>1, <1>3, <2>1, Rests
<1>4. \A i \in Instances : sweeps'[i] = sweeps[i] \/ (~Delivering(i) /\ ~Delivering(i)')
  BY <1>1
<1> QED
  BY <1>1, <1>2, <1>3, <1>4, Closes

\* The steps of a sweep outside its deliveries.
LEMMA IdleSweepMoves ==
    ASSUME IInv, NEW i \in Instances, NEW m \in Messages, NEW r \in Revisions,
           posts' = posts, ~Delivering(i), ~Delivering(i)',
           \A j \in Instances \ {i} : sweeps'[j] = sweeps[j],
           \/ rows' = rows
           \/ \E n \in Messages : /\ rows[n].status = "SENDING"
                                  /\ rows' = [rows EXCEPT ![n].status = "FAILED"]
    PROVE  Moved(m, r)
<1>1. \A j \in Instances : sweeps'[j] = sweeps[j] \/ (~Delivering(j) /\ ~Delivering(j)')
  BY DEF Delivering
<1>2. rows \in [Messages -> Row]
  BY DEF IInv, ShapeInv, TypeOK
<1>3. CASE rows'[m] = rows[m]
  <2>1. JobHolders(m, r)' = JobHolders(m, r)
    BY <1>1, <1>3, HoldersKept
  <2> QED
    BY <1>3, <2>1, Rests
<1>4. CASE rows'[m] # rows[m]
  <2>1. rows[m].status = "SENDING" /\ rows'[m].status = "FAILED" /\ rows'[m].rev = rows[m].rev
    BY <1>2, <1>4 DEF Row
  <2> QED
    BY <1>1, <2>1, Closes
<1> QED
  BY <1>3, <1>4

\* What every step of instance i's sweep leaves alone, and the types it rests on.
LEMMA SweepFrame ==
    ASSUME IInv, NEW i \in Instances,
           StartSweep(i) \/ SweepStep(i) \/ AbortSweep(i) \/ DeliverError(i)
    PROVE  /\ rows \in [Messages -> Row] /\ posts \in [Messages -> [Revisions -> Nat]]
           /\ sweeps \in [Instances -> Sweep]
           /\ \A j \in Instances \ {i} : sweeps'[j] = sweeps[j]
           /\ Delivering(i) => sweeps[i].row \in Messages
<1>1. sweeps \in [Instances -> Sweep]
  BY DEF IInv, ShapeInv, TypeOK
<1>2. \E s : sweeps' = [sweeps EXCEPT ![i] = s]
  BY DEF StartSweep, SweepStep, AbortSweep, DeliverError, FindStale, FailStale, TellStale,
         FindDue, Claim, Load, Send, Finish, Tell
<1>3. Delivering(i) => sweeps[i].row \in Messages
  BY DeliveringRow DEF IInv, Delivering
<1> QED
  BY <1>1, <1>2, <1>3 DEF IInv, ShapeInv, TypeOK

\* The claim: the revision the row holds is taken by this instance alone.
LEMMA ClaimMoves ==
    ASSUME IInv, NEW i \in Instances, Claim(i), NEW m \in Messages, NEW r \in Revisions
    PROVE  Moved(m, r)
<1> DEFINE n == Head(sweeps[i].due)
<1>1. /\ rows \in [Messages -> Row] /\ sweeps \in [Instances -> Sweep]
      /\ \A j \in Instances \ {i} : sweeps'[j] = sweeps[j]
  BY SweepFrame DEF SweepStep
<1>2. posts' = posts /\ ~Delivering(i)
  BY DEF Claim, Delivering
<1>3. CASE ~Claimable(n, sweeps[i].now)
  <2>1. rows' = rows /\ sweeps'[i] = NextDue(sweeps[i], Tail(sweeps[i].due))
    BY <1>1, <1>3 DEF Claim
  <2>2. ~Delivering(i)'
    BY <2>1 DEF Delivering, NextDue, IdleSweep
  <2> QED
    BY <1>1, <1>2, <2>1, <2>2, IdleSweepMoves
<1>4. CASE Claimable(n, sweeps[i].now)
  <2>1. /\ rows' = [rows EXCEPT ![n].status = "SENDING", ![n].claimedAt = sweeps[i].now]
        /\ sweeps'[i].pc = "load" /\ sweeps'[i].row = n
    BY <1>1, <1>4 DEF Claim, Sweep
  <2>2. CASE m # n
    <3>1. rows'[m] = rows[m]
      BY <1>1, <2>1, <2>2
    <3>2. JobHolders(m, r)' = JobHolders(m, r)
      BY <1>1, <1>2, <2>1, <2>2 DEF JobHolders, Delivering
    <3> QED
      BY <1>2, <3>1, <3>2, Rests
  <2>3. CASE m = n
    <3>1. /\ rows[m].status = "PENDING" /\ rows'[m].status = "SENDING"
          /\ rows'[m].rev = rows[m].rev
      BY <1>1, <1>4, <2>1, <2>3 DEF Claimable, Row
    <3>2. \A j \in Instances : Delivering(j) => sweeps[j].row # m
      BY <3>1, NoHolders
    <3>3. JobHolders(m, r) = {}
      BY <3>1, NoHolders
    <3>4. JobHolders(m, r)' = IF r = rows[m].rev THEN {i} ELSE {}
      BY <1>1, <2>1, <2>3, <3>1, <3>2 DEF JobHolders, Delivering
    <3>5. /\ rows[m].rev \in Nat /\ r \in Nat \ {0}
          /\ r = rows[m].rev => posts[m][r] = 0
      BY <3>1, RowTypes
    <3>6. CASE r = rows[m].rev
      <4>1. Taken(m, r)
        BY <1>2, <3>1, <3>4, <3>5, <3>6 DEF Taken, JobState, JobWork, JobDone
      <4> QED
        BY <4>1 DEF Moved
    <3>7. CASE r # rows[m].rev
      <4>1. Unmoved(m, r)
        BY <1>2, <3>1, <3>3, <3>4, <3>5, <3>7 DEF Unmoved, JobState, JobWork, JobDone
      <4> QED
        BY <4>1 DEF Moved
    <3> QED
      BY <3>6, <3>7
  <2> QED
    BY <2>2, <2>3
<1> QED
  BY <1>3, <1>4

\* The load: the row is gone and the delivery ends, or the job is still held.
LEMMA LoadMoves ==
    ASSUME IInv, NEW i \in Instances, Load(i), NEW m \in Messages, NEW r \in Revisions
    PROVE  Moved(m, r)
<1>1. /\ rows \in [Messages -> Row] /\ sweeps \in [Instances -> Sweep]
      /\ \A j \in Instances \ {i} : sweeps'[j] = sweeps[j]
  BY SweepFrame DEF SweepStep
<1>2. rows' = rows /\ posts' = posts /\ Delivering(i)
  BY DEF Load, Delivering
<1>3. CASE sweeps'[i] = NextDue(sweeps[i], Tail(sweeps[i].due))
  <2>1. ~Delivering(i)'
    BY <1>3 DEF Delivering, NextDue, IdleSweep
  <2> QED
    BY <1>1, <1>2, <2>1, Ends
<1>4. CASE sweeps'[i] = [sweeps[i] EXCEPT !.pc = "send", !.rev = rows[sweeps[i].row].rev]
  <2>1. /\ sweeps[i].pc = "load" /\ sweeps'[i].pc = "send" /\ sweeps'[i].row = sweeps[i].row
        /\ sweeps'[i].rev = rows[sweeps[i].row].rev
    <3>1. sweeps[i] \in Sweep /\ sweeps[i].pc = "load"
      BY <1>1 DEF Load
    <3> QED
      BY <1>4, <3>1 DEF Sweep
  <2>2. JobHolders(m, r)' = JobHolders(m, r)
    BY <1>1, <1>2, <2>1 DEF JobHolders
  <2> QED
    BY <1>2, <2>2, Rests
<1> QED
  BY <1>1, <1>3, <1>4 DEF Load

\* The send: the one piece of work, by the instance that holds the job.
LEMMA SendMoves ==
    ASSUME IInv, NEW i \in Instances, Send(i), NEW m \in Messages, NEW r \in Revisions
    PROVE  Moved(m, r)
<1> DEFINE n == sweeps[i].row
           v == sweeps[i].rev
<1>1. /\ posts \in [Messages -> [Revisions -> Nat]] /\ sweeps \in [Instances -> Sweep]
      /\ \A j \in Instances \ {i} : sweeps'[j] = sweeps[j]
      /\ n \in Messages
  BY SweepFrame DEF SweepStep, Send, Delivering
<1>2. rows' = rows /\ Delivering(i) /\ sweeps[i].pc = "send"
  BY DEF Send, Delivering
<1>3. sweeps'[i].pc = "finish" /\ sweeps'[i].row = n /\ sweeps'[i].rev = v
  BY <1>1 DEF Send, Sweep
<1>4. JobHolders(m, r)' = JobHolders(m, r)
  BY <1>1, <1>2, <1>3 DEF JobHolders
<1>5. CASE posts'[m][r] = posts[m][r]
  BY <1>2, <1>4, <1>5, Rests
<1>6. CASE posts'[m][r] # posts[m][r]
  <2>1. m = n /\ r = v /\ posts'[m][r] = posts[m][r] + 1
    BY <1>1, <1>6 DEF Send
  <2>2. v = rows[n].rev /\ posts[n][rows[n].rev] = 0
    BY <1>2 DEF IInv, DeliveryInv, DeliveryPosted
  <2>3. JobHolders(m, r) = {i}
    BY <1>2, <2>1, <2>2, HoldersOf
  <2>4. r \in Nat
    BY RowTypes
  <2>5. JobWork(m, r) = 1 /\ JobDone(m, r) = 0 /\ JobDone(m, r)' = 1
    BY <2>1, <2>2, <2>4 DEF JobWork, JobDone
  <2>6. Carried(m, r)
    BY <1>2, <1>4, <2>3, <2>5 DEF Carried, JobState, JobWork
  <2> QED
    BY <2>6 DEF Moved
<1> QED
  BY <1>5, <1>6

\* The outcome is stored and the job let go.
LEMMA FinishMoves ==
    ASSUME IInv, NEW i \in Instances, Finish(i), NEW m \in Messages, NEW r \in Revisions
    PROVE  Moved(m, r)
<1> DEFINE n == sweeps[i].row
<1>1. /\ rows \in [Messages -> Row] /\ sweeps \in [Instances -> Sweep]
      /\ \A j \in Instances \ {i} : sweeps'[j] = sweeps[j]
      /\ n \in Messages /\ sweeps[i].outcome \in {"SENT", "FAILED"}
  <2>1. sweeps[i].outcome # "none"
    BY DEF Finish, IInv, ShapeInv, SweepShape, Shaped
  <2>2. sweeps[i] \in Sweep
    BY DEF IInv, ShapeInv, TypeOK
  <2> QED
    BY <2>1, <2>2, SweepFrame DEF SweepStep, Finish, Delivering, Sweep
<1>2. posts' = posts /\ Delivering(i) /\ sweeps[i].pc = "finish"
  BY DEF Finish, Delivering
<1>3. ~Delivering(i)'
  BY <1>1 DEF Finish, Delivering, NextDue, IdleSweep, Sweep
<1>4. /\ \A k \in Messages : k # n => rows'[k] = rows[k]
      /\ rows'[n].rev = rows[n].rev
      /\ \/ rows'[n] = rows[n]
         \/ rows[n].status = "SENDING" /\ rows'[n].status = sweeps[i].outcome
  BY <1>1 DEF Finish, Row
<1> QED
  BY <1>1, <1>2, <1>3, <1>4, Ends

\* A tick cut short, or one delivery given up.
LEMMA CutMoves ==
    ASSUME IInv, NEW i \in Instances, AbortSweep(i) \/ DeliverError(i),
           NEW m \in Messages, NEW r \in Revisions
    PROVE  Moved(m, r)
<1>1. /\ rows \in [Messages -> Row] /\ sweeps \in [Instances -> Sweep]
      /\ \A j \in Instances \ {i} : sweeps'[j] = sweeps[j]
  BY SweepFrame
<1>2. rows' = rows /\ posts' = posts
  BY DEF AbortSweep, DeliverError
<1>3. ~Delivering(i)'
  BY <1>1 DEF AbortSweep, DeliverError, Delivering, NextDue, IdleSweep
<1>4. CASE Delivering(i)
  BY <1>1, <1>2, <1>3, <1>4, Ends
<1>5. CASE ~Delivering(i)
  BY <1>1, <1>2, <1>3, <1>5, IdleSweepMoves
<1> QED
  BY <1>4, <1>5

\* The passes around the deliveries.
LEMMA PassMoves ==
    ASSUME IInv, NEW i \in Instances,
           StartSweep(i) \/ FindStale(i) \/ FailStale(i) \/ TellStale(i) \/ FindDue(i) \/ Tell(i),
           NEW m \in Messages, NEW r \in Revisions
    PROVE  Moved(m, r)
<1>1. /\ rows \in [Messages -> Row] /\ sweeps \in [Instances -> Sweep]
      /\ \A j \in Instances \ {i} : sweeps'[j] = sweeps[j]
  BY SweepFrame DEF SweepStep
<1>2. posts' = posts /\ ~Delivering(i)
  BY DEF StartSweep, FindStale, FailStale, TellStale, FindDue, Tell, Delivering
<1>3. ~Delivering(i)'
  <2>1. \A s, t : NextDue(s, t).pc \in {"idle", "claim"}
    BY DEF NextDue, IdleSweep
  <2>2. \A n : AfterStale(sweeps[i], n).pc \in {"findDue", "failStale"}
    BY <1>1 DEF AfterStale, Sweep
  <2>3. sweeps[i] \in Sweep
    BY <1>1
  <2>4. CASE StartSweep(i)
    BY <1>1, <2>4 DEF StartSweep, IdleSweep, Delivering
  <2>5. CASE FindStale(i)
    <3>1. PICK S : sweeps' = [sweeps EXCEPT ![i].stale = S,
                                 ![i].pc = IF S = {} THEN "findDue" ELSE "failStale"]
      BY <2>5 DEF FindStale
    <3>2. sweeps'[i].pc \in {"findDue", "failStale"}
      BY <1>1, <2>3, <3>1 DEF Sweep
    <3> QED
      BY <3>2 DEF Delivering
  <2>7. CASE FailStale(i)
    <3>1. \/ sweeps' = [sweeps EXCEPT ![i].pc = "tellStale", ![i].row = sweeps'[i].row]
          \/ \E n : sweeps' = [sweeps EXCEPT ![i] = AfterStale(sweeps[i], n)]
      <4>1. PICK n \in sweeps[i].stale :
                \/ sweeps' = [sweeps EXCEPT ![i].pc = "tellStale", ![i].row = n]
                \/ sweeps' = [sweeps EXCEPT ![i] = AfterStale(sweeps[i], n)]
        BY <2>7 DEF FailStale
      <4>2. sweeps' = [sweeps EXCEPT ![i].pc = "tellStale", ![i].row = n] => sweeps'[i].row = n
        BY <1>1, <2>3 DEF Sweep
      <4> QED
        BY <4>1, <4>2
    <3>2. sweeps'[i].pc \in {"tellStale", "findDue", "failStale"}
      BY <1>1, <2>2, <2>3, <3>1 DEF Sweep
    <3> QED
      BY <3>2 DEF Delivering
  <2>8. CASE TellStale(i)
    BY <1>1, <2>2, <2>8 DEF TellStale, Delivering
  <2>6. CASE FindDue(i) \/ Tell(i)
    BY <1>1, <2>1, <2>6 DEF FindDue, Tell, Delivering
  <2> QED
    BY <2>4, <2>5, <2>6, <2>7, <2>8
<1>4. \/ rows' = rows
      \/ \E n \in Messages : /\ rows[n].status = "SENDING"
                             /\ rows' = [rows EXCEPT ![n].status = "FAILED"]
  <2>1. sweeps[i].stale \subseteq Messages
    BY <1>1 DEF Sweep
  <2> QED
    BY <2>1 DEF StartSweep, FindStale, FailStale, TellStale, FindDue, Tell, IsStale
<1> QED
  BY <1>1, <1>2, <1>3, <1>4, IdleSweepMoves

LEMMA StepMoves ==
    ASSUME IInv, [Next]_vars, NEW m \in Messages, NEW r \in Revisions
    PROVE  Moved(m, r)
<1>1. CASE UNCHANGED vars
  <2>1. JobHolders(m, r)' = JobHolders(m, r)
    BY <1>1 DEF vars, JobHolders
  <2> QED
    BY <1>1, <2>1, Rests DEF vars
<1>2. ASSUME NEW i \in Instances,
             StartSweep(i) \/ SweepStep(i) \/ AbortSweep(i) \/ DeliverError(i)
      PROVE  Moved(m, r)
  BY <1>2, ClaimMoves, LoadMoves, SendMoves, FinishMoves, CutMoves, PassMoves DEF SweepStep
<1> QED
  BY <1>1, <1>2, RequestMoves, SurroundingsMove DEF Next

--------------------------------------------------------------------------------
\* While ticks are prompt, every behaviour of the scheduled messages is, read
\* through the mapping, a behaviour of ClaimedJobs: a saved revision is taken by
\* one instance, posted once at most, and reads SENT only when it was posted.
THEOREM Implements == ASSUME PromptTicks PROVE Spec => SavedIsAJob
<1>1. Init => Claims!Init
  BY DEF Init, Claims!Init, JobState, JobWork, JobDone, JobHolders, SavedJobs, AbsentRow,
         IdleSweep, Revisions
<1>2. IInv /\ [Next]_vars => Claims!Next
  BY StepMoves, MovedIsStep
<1> QED
  BY <1>1, <1>2, IInvInit, IInvStep, PTL DEF Spec, SavedIsAJob, Claims!Spec
================================================================================
