----------------------------- MODULE Interactions -----------------------------
(***************************************************************************)
(* A slash command or a component click and the bot's answer to it         *)
(* (InteractionsService), with the sweep that times it out on every API    *)
(* instance (InteractionTimeoutService).  The bot may send a callback any  *)
(* number of times; two of them and the sweep race for the same row.       *)
(***************************************************************************)
EXTENDS Deployment, Integers, FiniteSets

CONSTANTS
    Tokens,            \* interactions, by their token
    Callbacks,         \* callbacks of the bot that may be in flight
    InteractionFaults  \* bound of crashes and errors

ASSUME InteractionAssumption == InteractionFaults \in Nat

VARIABLES
    interaction,  \* the Interaction row of each token
    answered,     \* messages posted or updated in answer to each token
    spoilt,       \* answers whose callback failed after they were posted
    told,         \* interaction:timeout events emitted for each token
    callbacks,    \* callbacks in flight
    timers,       \* the sweep of each instance
    errors        \* crashes and errors so far

vars == <<interaction, answered, spoilt, told, callbacks, timers, errors>>

--------------------------------------------------------------------------------
Statuses == {"ABSENT", "PENDING", "RESPONDED", "TIMED_OUT"}

\* late: INTERACTION_TIMEOUT_MS have passed since the row was created.
Interaction == [status : Statuses, late : BOOLEAN]

Callback == [pc : {"idle", "claim", "write", "revert"}, token : SUBSET Tokens]

Timer == [pc : {"idle", "claim", "tell"}, due : SUBSET Tokens, token : SUBSET Tokens]

TypeOK ==
    /\ interaction \in [Tokens -> Interaction]
    /\ answered \in [Tokens -> Nat]
    /\ spoilt \in [Tokens -> Nat]
    /\ told \in [Tokens -> Nat]
    /\ callbacks \in [Callbacks -> Callback]
    /\ timers \in [Instances -> Timer]
    /\ errors \in 0 .. InteractionFaults

IdleCallback == [pc |-> "idle", token |-> {}]
IdleTimer == [pc |-> "idle", due |-> {}, token |-> {}]

Init ==
    /\ interaction = [x \in Tokens |-> [status |-> "ABSENT", late |-> FALSE]]
    /\ answered = [x \in Tokens |-> 0]
    /\ spoilt = [x \in Tokens |-> 0]
    /\ told = [x \in Tokens |-> 0]
    /\ callbacks = [c \in Callbacks |-> IdleCallback]
    /\ timers = [i \in Instances |-> IdleTimer]
    /\ errors = 0

\* invoke / invokeComponent: the row first, then the event to the bot, which
\* may be lost.
Invoke(x) ==
    /\ interaction[x].status = "ABSENT"
    /\ interaction' = [interaction EXCEPT ![x].status = "PENDING"]
    /\ UNCHANGED <<answered, spoilt, told, callbacks, timers, errors>>

Late(x) ==
    /\ interaction[x].status # "ABSENT"
    /\ ~interaction[x].late
    /\ interaction' = [interaction EXCEPT ![x].late = TRUE]
    /\ UNCHANGED <<answered, spoilt, told, callbacks, timers, errors>>

--------------------------------------------------------------------------------
(* respondToCallback.                                                       *)

\* The row is read; one that timed out is a conflict at once.
StartCallback(c, x) ==
    /\ callbacks[c].pc = "idle"
    /\ interaction[x].status \in {"PENDING", "RESPONDED"}
    /\ callbacks' = [callbacks EXCEPT ![c] = [pc |-> "claim", token |-> {x}]]
    /\ UNCHANGED <<interaction, answered, spoilt, told, timers, errors>>

\* Faulty form: the claim names the row by id alone.
ClaimAnswered(c) ==
    /\ callbacks[c].pc = "claim"
    /\ \E x \in callbacks[c].token :
         interaction' = [interaction EXCEPT ![x].status = "RESPONDED"]
    /\ callbacks' = [callbacks EXCEPT ![c].pc = "write"]
    /\ UNCHANGED <<answered, spoilt, told, timers, errors>>

\* The conditional claim; the deadline is not asked for.
ClaimCallback(c) ==
    /\ callbacks[c].pc = "claim"
    /\ \E x \in callbacks[c].token :
         IF interaction[x].status = "PENDING"
         THEN /\ interaction' = [interaction EXCEPT ![x].status = "RESPONDED"]
              /\ callbacks' = [callbacks EXCEPT ![c].pc = "write"]
         ELSE /\ callbacks' = [callbacks EXCEPT ![c] = IdleCallback]
              /\ UNCHANGED interaction
    /\ UNCHANGED <<answered, spoilt, told, timers, errors>>

\* The message is posted or updated.
Answer(c) ==
    /\ callbacks[c].pc = "write"
    /\ \E x \in callbacks[c].token : answered' = [answered EXCEPT ![x] = @ + 1]
    /\ callbacks' = [callbacks EXCEPT ![c] = IdleCallback]
    /\ UNCHANGED <<interaction, spoilt, told, timers, errors>>

\* The write is refused: nothing was posted.
Refuse(c) ==
    /\ callbacks[c].pc = "write"
    /\ callbacks' = [callbacks EXCEPT ![c].pc = "revert"]
    /\ UNCHANGED <<interaction, answered, spoilt, told, timers, errors>>

\* The write throws after the message was stored (notifications, unread).
AnswerThrows(c) ==
    /\ callbacks[c].pc = "write"
    /\ errors < InteractionFaults
    /\ errors' = errors + 1
    /\ \E x \in callbacks[c].token :
         /\ answered' = [answered EXCEPT ![x] = @ + 1]
         /\ spoilt' = [spoilt EXCEPT ![x] = @ + 1]
    /\ callbacks' = [callbacks EXCEPT ![c].pc = "revert"]
    /\ UNCHANGED <<interaction, told, timers>>

\* The claim is given back so that the interaction can time out.
Revert(c) ==
    /\ callbacks[c].pc = "revert"
    /\ \E x \in callbacks[c].token :
         interaction' = IF interaction[x].status = "RESPONDED"
                        THEN [interaction EXCEPT ![x].status = "PENDING"] ELSE interaction
    /\ callbacks' = [callbacks EXCEPT ![c] = IdleCallback]
    /\ UNCHANGED <<answered, spoilt, told, timers, errors>>

\* The instance stops, or the revert fails: the claim stays.
LoseCallback(c) ==
    /\ callbacks[c].pc # "idle"
    /\ errors < InteractionFaults
    /\ errors' = errors + 1
    /\ callbacks' = [callbacks EXCEPT ![c] = IdleCallback]
    /\ UNCHANGED <<interaction, answered, spoilt, told, timers>>

--------------------------------------------------------------------------------
(* The sweep.                                                               *)

NextDue(rest) == IF rest = {} THEN IdleTimer ELSE [pc |-> "claim", due |-> rest, token |-> {}]

\* A tick that finds nothing leaves no trace.
FindDue(i) ==
    LET due == {x \in Tokens : interaction[x].status = "PENDING" /\ interaction[x].late} IN
    /\ timers[i].pc = "idle"
    /\ due # {}
    /\ timers' = [timers EXCEPT ![i] = NextDue(due)]
    /\ UNCHANGED <<interaction, answered, spoilt, told, callbacks, errors>>

TimeOut(i) ==
    /\ timers[i].pc = "claim"
    /\ \E x \in timers[i].due :
         IF interaction[x].status = "PENDING"
         THEN /\ interaction' = [interaction EXCEPT ![x].status = "TIMED_OUT"]
              /\ timers' = [timers EXCEPT ![i] = [pc |-> "tell", due |-> @.due \ {x}, token |-> {x}]]
         ELSE /\ timers' = [timers EXCEPT ![i] = NextDue(timers[i].due \ {x})]
              /\ UNCHANGED interaction
    /\ UNCHANGED <<answered, spoilt, told, callbacks, errors>>

TellTimeout(i) ==
    /\ timers[i].pc = "tell"
    /\ \E x \in timers[i].token : told' = [told EXCEPT ![x] = @ + 1]
    /\ timers' = [timers EXCEPT ![i] = NextDue(timers[i].due)]
    /\ UNCHANGED <<interaction, answered, spoilt, callbacks, errors>>

\* A crash, or an error that ends the tick.
AbortTimer(i) ==
    /\ timers[i].pc # "idle"
    /\ errors < InteractionFaults
    /\ errors' = errors + 1
    /\ timers' = [timers EXCEPT ![i] = IdleTimer]
    /\ UNCHANGED <<interaction, answered, spoilt, told, callbacks>>

--------------------------------------------------------------------------------
Next ==
    \/ \E x \in Tokens : Invoke(x) \/ Late(x)
    \/ \E c \in Callbacks : \/ ClaimCallback(c) \/ Answer(c) \/ Refuse(c) \/ AnswerThrows(c)
                            \/ Revert(c) \/ LoseCallback(c)
                            \/ \E x \in Tokens : StartCallback(c, x)
    \/ \E i \in Instances : FindDue(i) \/ TimeOut(i) \/ TellTimeout(i) \/ AbortTimer(i)

Spec == Init /\ [][Next]_vars

--------------------------------------------------------------------------------
(* Properties.                                                              *)

Writing(x) == {c \in Callbacks : callbacks[c].pc = "write" /\ x \in callbacks[c].token}

\* Two racing callbacks never both answer, whatever is retried: only an answer
\* that failed after it was posted can be followed by another.  And the invoker
\* is told of a time-out once at most, and never of one that was answered or
\* still is being answered (class comments of InteractionsService and
\* InteractionTimeoutService).
AnsweredOrTimedOut ==
    \A x \in Tokens :
        /\ answered[x] + Cardinality(Writing(x)) <= 1 + spoilt[x]
        /\ told[x] <= 1
        /\ told[x] = 1 => /\ interaction[x].status = "TIMED_OUT"
                          /\ answered[x] = spoilt[x]
                          /\ Writing(x) = {}
================================================================================
