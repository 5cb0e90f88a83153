------------------------------ MODULE ClaimedJobs ------------------------------
(***************************************************************************)
(* What the sweeps of this code promise of a job that waits in a table: a  *)
(* job is taken by one worker of the many that poll the table, its pieces  *)
(* of work are carried out in order and at most once, and it counts as     *)
(* finished only after the last one.  A worker that disappears leaves the  *)
(* job taken; somebody closes it later, nobody takes it again.             *)
(***************************************************************************)
EXTENDS Integers

CONSTANTS
    Jobs,     \* identities of jobs
    Workers   \* those that may take one

VARIABLES
    state,    \* where each job is
    work,     \* pieces of work each job consists of, fixed when it is opened
    done,     \* pieces of work carried out so far
    holders   \* workers that are carrying the job out

vars == <<state, work, done, holders>>

States == {"absent", "open", "taken", "closed", "finished"}

TypeOK ==
    \A j \in Jobs :
        /\ state[j] \in States
        /\ work[j] \in Nat
        /\ done[j] \in Nat
        /\ holders[j] \subseteq Workers

Init ==
    /\ state = [j \in Jobs |-> "absent"]
    /\ work = [j \in Jobs |-> 0]
    /\ done = [j \in Jobs |-> 0]
    /\ holders = [j \in Jobs |-> {}]

--------------------------------------------------------------------------------
(* What one step may do to one job.                                         *)

Same(j) ==
    /\ state'[j] = state[j]
    /\ work'[j] = work[j]
    /\ done'[j] = done[j]
    /\ holders'[j] = holders[j]

\* The job is written down, or written down as refused.
Open(j) ==
    /\ state[j] = "absent"
    /\ state'[j] \in {"open", "closed"}
    /\ work'[j] \in Nat
    /\ done'[j] = 0
    /\ holders'[j] = {}

\* Its owner takes an open job back, or changes what it consists of.
Withdraw(j) ==
    /\ state[j] = "open"
    /\ state'[j] \in {"open", "closed"}
    /\ work'[j] \in Nat
    /\ done'[j] = 0
    /\ holders'[j] = {}

Take(j) ==
    /\ state[j] = "open"
    /\ state'[j] = "taken"
    /\ \E w \in Workers : holders'[j] = {w}
    /\ work'[j] = work[j]
    /\ done'[j] = 0

\* One more piece, by the worker that took the job; it may be the last thing
\* that worker does, and the job may have been given up meanwhile.
Carry(j) ==
    /\ holders[j] # {}
    /\ done[j] < work[j]
    /\ done'[j] = done[j] + 1
    /\ work'[j] = work[j]
    /\ state'[j] = state[j]
    /\ holders'[j] \in {holders[j], {}}

\* The worker stops: with the job finished, failed, or left as it is.
Leave(j) ==
    /\ holders[j] # {}
    /\ holders'[j] = {}
    /\ state'[j] \in {state[j], "closed", "finished"}
    /\ state'[j] = "finished" => done[j] = work[j]
    /\ work'[j] = work[j]
    /\ done'[j] = done[j]

\* A job that is taken is given up; its worker may not know.
GiveUp(j) ==
    /\ state[j] = "taken"
    /\ state'[j] = "closed"
    /\ work'[j] = work[j]
    /\ done'[j] = done[j]
    /\ holders'[j] = holders[j]

\* The record of a job is deleted with what it belonged to.
Erase(j) ==
    /\ state[j] = "finished"
    /\ state'[j] = "closed"
    /\ work'[j] = work[j]
    /\ done'[j] = done[j]
    /\ holders'[j] = holders[j]

JobStep(j) ==
    \/ Same(j) \/ Open(j) \/ Withdraw(j) \/ Take(j) \/ Carry(j) \/ Leave(j) \/ GiveUp(j) \/ Erase(j)

Next == \A j \in Jobs : JobStep(j)

Spec == Init /\ [][Next]_vars

--------------------------------------------------------------------------------
\* Nobody works on a job that was not taken, and two never do; no piece is
\* carried out twice and a finished job lacks none.
Once ==
    \A j \in Jobs :
        /\ \A v, w \in holders[j] : v = w
        /\ state[j] \in {"absent", "open"} => holders[j] = {} /\ done[j] = 0
        /\ done[j] <= work[j]
        /\ state[j] = "finished" => done[j] = work[j]
================================================================================
