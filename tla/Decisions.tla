------------------------------- MODULE Decisions -------------------------------
(***************************************************************************)
(* Decision proposals: members vote in the proposal's poll until its       *)
(* deadline (PollsService.vote), the sweep of every API instance resolves  *)
(* or expires what is past it (DecisionSweepService), moderators resolve   *)
(* by hand and supersede (DecisionsService).                               *)
(***************************************************************************)
EXTENDS Deployment, Integers, FiniteSets

CONSTANTS
    Proposals,      \* rows of Decision
    Elsewhere,      \* decisions that exist beside those, in any status
    Voters,         \* members who may vote
    Quorum,         \* quorumCount of a proposal, 0 for null
    DecisionFaults  \* bound of crashes and errors

ASSUME DecisionAssumption ==
    /\ {Quorum, DecisionFaults} \subseteq Nat
    /\ Proposals \cap Elsewhere = {}

VARIABLES
    decision,  \* the Decision row of each proposal
    closed,    \* closed[d]: the deadline of d and of its poll has passed
    votes,     \* votes[d][v]: the option v's PollVote row names
    casting,   \* the vote transaction of each voter
    ruling,    \* what a moderator resolved each proposal to
    crossed,   \* proposals with a vote checked before and committed after the deadline
    counts,    \* the sweep of each instance
    stumbles   \* crashes and errors so far

decisionVars == <<decision, closed, votes, casting, ruling, crossed, counts, stumbles>>

--------------------------------------------------------------------------------
Options == {"Accept", "Reject"}
DecisionStatuses == {"ABSENT", "PROPOSED", "ACCEPTED", "REJECTED", "SUPERSEDED"}

Decision == [status : DecisionStatuses, expired : BOOLEAN, successor : SUBSET (Proposals \cup Elsewhere)]

Casting == [pc : {"idle", "write"}, on : SUBSET Proposals, option : Options]

Counting == [pc : {"idle", "count", "write"}, due : SUBSET Proposals, on : SUBSET Proposals,
             verdict : {"ACCEPTED", "REJECTED", "expired"}]

DecisionTypeOK ==
    /\ decision \in [Proposals -> Decision]
    /\ closed \in [Proposals -> BOOLEAN]
    /\ votes \in [Proposals -> [Voters -> Options \cup {"none"}]]
    /\ casting \in [Voters -> Casting]
    /\ ruling \in [Proposals -> {"none", "ACCEPTED", "REJECTED"}]
    /\ crossed \subseteq Proposals
    /\ counts \in [Instances -> Counting]
    /\ stumbles \in 0 .. DecisionFaults

NotCasting == [pc |-> "idle", on |-> {}, option |-> "Accept"]
NotCounting == [pc |-> "idle", due |-> {}, on |-> {}, verdict |-> "expired"]

DecisionInit ==
    /\ decision = [d \in Proposals |-> [status |-> "ABSENT", expired |-> FALSE, successor |-> {}]]
    /\ closed = [d \in Proposals |-> FALSE]
    /\ votes = [d \in Proposals |-> [v \in Voters |-> "none"]]
    /\ casting = [v \in Voters |-> NotCasting]
    /\ ruling = [d \in Proposals |-> "none"]
    /\ crossed = {}
    /\ counts = [i \in Instances |-> NotCounting]
    /\ stumbles = 0

--------------------------------------------------------------------------------
(* Members and moderators.                                                  *)

Propose(d) ==
    /\ decision[d].status = "ABSENT"
    /\ decision' = [decision EXCEPT ![d].status = "PROPOSED"]
    /\ UNCHANGED <<closed, votes, casting, ruling, crossed, counts, stumbles>>

\* votingDeadlineAt, which is the poll's expiresAt too.
Deadline(d) ==
    /\ decision[d].status # "ABSENT"
    /\ ~closed[d]
    /\ closed' = [closed EXCEPT ![d] = TRUE]
    /\ UNCHANGED <<decision, votes, casting, ruling, crossed, counts, stumbles>>

\* vote: the transaction locks the poll and finds it open; the decision's
\* status is not asked for.
StartVote(v, d, o) ==
    /\ casting[v].pc = "idle"
    /\ decision[d].status # "ABSENT"
    /\ ~closed[d]
    /\ votes[d][v] # o
    /\ casting' = [casting EXCEPT ![v] = [pc |-> "write", on |-> {d}, option |-> o]]
    /\ UNCHANGED <<decision, closed, votes, ruling, crossed, counts, stumbles>>

\* Its commit: the old selection is replaced.
Vote(v) ==
    /\ casting[v].pc = "write"
    /\ \E d \in casting[v].on :
         /\ votes' = [votes EXCEPT ![d][v] = casting[v].option]
         /\ crossed' = IF closed[d] THEN crossed \cup {d} ELSE crossed
    /\ casting' = [casting EXCEPT ![v] = NotCasting]
    /\ UNCHANGED <<decision, closed, ruling, counts, stumbles>>

\* resolve: a moderator's conditional update, open or expired alike.
Resolve(d, status) ==
    /\ decision[d].status = "PROPOSED"
    /\ decision' = [decision EXCEPT ![d].status = status]
    /\ ruling' = [ruling EXCEPT ![d] = status]
    /\ UNCHANGED <<closed, votes, casting, crossed, counts, stumbles>>

\* supersede: any other decision that exists will do as the successor.
Supersede(d, e) ==
    /\ d # e
    /\ e \in Proposals => decision[e].status # "ABSENT"
    /\ decision[d].status = "ACCEPTED"
    /\ decision' = [decision EXCEPT ![d].status = "SUPERSEDED", ![d].successor = {e}]
    /\ UNCHANGED <<closed, votes, casting, ruling, crossed, counts, stumbles>>

--------------------------------------------------------------------------------
(* The sweep.                                                               *)

countOthers == <<closed, votes, casting, ruling, crossed>>

Tally(d, o) == Cardinality({v \in Voters : votes[d][v] = o})

\* Below the quorum it waits for a moderator; a tie is a rejection.
Verdict(d) ==
    IF Tally(d, "Accept") + Tally(d, "Reject") < Quorum THEN "expired"
    ELSE IF Tally(d, "Accept") > Tally(d, "Reject") THEN "ACCEPTED" ELSE "REJECTED"

NextDecision(rest) == IF rest = {} THEN NotCounting
                 ELSE [pc |-> "count", due |-> rest, on |-> {}, verdict |-> "expired"]

\* A tick that finds nothing due leaves no trace.
FindDecisions(i) ==
    LET due == {d \in Proposals : /\ decision[d].status = "PROPOSED"
                                  /\ ~decision[d].expired
                                  /\ closed[d]} IN
    /\ counts[i].pc = "idle"
    /\ due # {}
    /\ counts' = [counts EXCEPT ![i] = NextDecision(due)]
    /\ UNCHANGED <<decision, stumbles, countOthers>>

\* voteCounts: a statement of its own, without the poll's lock.
Count(i) ==
    /\ counts[i].pc = "count"
    /\ \E d \in counts[i].due :
         counts' = [counts EXCEPT ![i] = [pc |-> "write", due |-> @.due \ {d}, on |-> {d},
                                          verdict |-> Verdict(d)]]
    /\ UNCHANGED <<decision, stumbles, countOthers>>

\* Faulty form: the update names the decision by id alone.
SettleAnyStatus(i) ==
    /\ counts[i].pc = "write"
    /\ \E d \in counts[i].on :
         decision' = IF counts[i].verdict = "expired" THEN [decision EXCEPT ![d].expired = TRUE]
                     ELSE [decision EXCEPT ![d].status = counts[i].verdict]
    /\ counts' = [counts EXCEPT ![i] = NextDecision(counts[i].due)]
    /\ UNCHANGED <<stumbles, countOthers>>

\* The conditional updates of resolveOne.
Settle(i) ==
    /\ counts[i].pc = "write"
    /\ \E d \in counts[i].on :
         decision' =
            IF decision[d].status # "PROPOSED" THEN decision
            ELSE IF counts[i].verdict = "expired" THEN [decision EXCEPT ![d].expired = TRUE]
            ELSE [decision EXCEPT ![d].status = counts[i].verdict]
    /\ counts' = [counts EXCEPT ![i] = NextDecision(counts[i].due)]
    /\ UNCHANGED <<stumbles, countOthers>>

\* A crash, or an error: of one decision, which is skipped, or of the tick.
AbortCount(i) ==
    /\ counts[i].pc # "idle"
    /\ stumbles < DecisionFaults
    /\ stumbles' = stumbles + 1
    /\ \E rest \in {counts[i].due, {}} : counts' = [counts EXCEPT ![i] = NextDecision(rest)]
    /\ UNCHANGED <<decision, countOthers>>

--------------------------------------------------------------------------------
DecisionNext ==
    \/ \E d \in Proposals : Propose(d) \/ Deadline(d)
    \/ \E d \in Proposals, status \in {"ACCEPTED", "REJECTED"} : Resolve(d, status)
    \/ \E d \in Proposals, e \in Proposals \cup Elsewhere : Supersede(d, e)
    \/ \E v \in Voters : Vote(v)
    \/ \E v \in Voters, d \in Proposals, o \in Options : StartVote(v, d, o)
    \/ \E i \in Instances : FindDecisions(i) \/ Count(i) \/ Settle(i) \/ AbortCount(i)

DecisionSpec == DecisionInit /\ [][DecisionNext]_decisionVars

--------------------------------------------------------------------------------
(* Properties.                                                              *)

\* What a decision says fits what was said: a moderator's ruling is never
\* overwritten by a sweep that counted before it, and without a ruling the
\* outcome is the one the votes on record give, unless a vote checked before
\* the deadline was committed after it.
OutcomeFits ==
    \A d \in Proposals :
        LET status == decision[d].status IN
        /\ ruling[d] # "none" => \/ status = ruling[d]
                                 \/ status = "SUPERSEDED" /\ ruling[d] = "ACCEPTED"
        /\ ruling[d] = "none" /\ status \notin {"ABSENT", "PROPOSED"} /\ d \notin crossed
              => /\ closed[d]
                 /\ Verdict(d) = IF status = "REJECTED" THEN "REJECTED" ELSE "ACCEPTED"
        /\ decision[d].expired /\ d \notin crossed => Verdict(d) = "expired"
================================================================================
