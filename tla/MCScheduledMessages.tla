------------------------- MODULE MCScheduledMessages -------------------------
(* Small instances of ScheduledMessages: every row of one author goes to one  *)
(* destination, so the rows compete for one pending limit.                    *)
EXTENDS ScheduledJobs, TLC

CONSTANTS author, channel

MCAuthor == [m \in Messages |-> author]
MCDest == [m \in Messages |-> channel]

\* Instances, rows and requests are interchangeable (safety runs only).
MCSymmetry == Permutations(Instances) \cup Permutations(Messages) \cup Permutations(Requests)
================================================================================
