----------------------------- MODULE ScheduledJobs -----------------------------
(***************************************************************************)
(* Scheduled messages as jobs of ClaimedJobs: the refinement mapping.  A   *)
(* job is one revision of a row, what its author saved together.           *)
(***************************************************************************)
EXTENDS ScheduledMessages

SavedJobs == Messages \X Revisions

\* A revision that was replaced is closed, whatever became of it.
JobState(m, r) ==
    CASE rows[m].rev < r -> "absent"
      [] rows[m].rev > r -> "closed"
      [] rows[m].rev = r ->
            IF rows[m].status = "PENDING" THEN "open"
            ELSE IF rows[m].status = "SENDING" THEN "taken"
            ELSE IF rows[m].status = "SENT" THEN "finished" ELSE "closed"

JobWork(m, r) == IF rows[m].rev < r THEN 0 ELSE 1

JobDone(m, r) == posts[m][r]

JobHolders(m, r) ==
    {i \in Instances : /\ sweeps[i].pc \in {"load", "send", "finish"}
                       /\ sweeps[i].row = m
                       /\ r = IF sweeps[i].pc = "load" THEN rows[m].rev ELSE sweeps[i].rev}

Claims == INSTANCE ClaimedJobs WITH
    Jobs <- SavedJobs,
    Workers <- Instances,
    state <- [j \in SavedJobs |-> JobState(j[1], j[2])],
    work <- [j \in SavedJobs |-> JobWork(j[1], j[2])],
    done <- [j \in SavedJobs |-> JobDone(j[1], j[2])],
    holders <- [j \in SavedJobs |-> JobHolders(j[1], j[2])]

\* What the author saved is a job of ClaimedJobs: one sweep takes it while it is
\* still wanted, posts it at most once, and it counts as sent only when it was
\* posted (class comment of ScheduledMessageSweepService).
SavedIsAJob == Claims!Spec
================================================================================
