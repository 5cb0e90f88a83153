-------------------------------- MODULE DmCalls --------------------------------
(***************************************************************************)
(* The ring of a direct-message call: DmCallsService (ring, decline,       *)
(* cancel, participantJoined) over DmCallRings, whose two Redis keys, the  *)
(* ring and its deadline in a sorted set, every instance reads and writes. *)
(*                                                                         *)
(* A conversation has at most one ring and no step touches two             *)
(* conversations, so the module is about one.  One action is one Redis     *)
(* command or one MULTI; a handler is interleaved with the others between  *)
(* them.  A ring carries a number the code does not have: it tells the     *)
(* rings of successive calls apart.                                        *)
(***************************************************************************)
EXTENDS Integers, FiniteSets

CONSTANTS
    Users,           \* members of the conversation, and others
    Handlers,        \* socket handlers that may run at the same time
    Instances,       \* API instances, each sweeping rings every two seconds
    NoRing,          \* the ring key is absent
    NoUser,          \* an idle handler acts for nobody
    MaxRings,        \* bound of the calls placed
    CountTo,         \* missed calls are counted up to this many per ring
    MaxCrashes       \* bound of the handlers and sweeps that are cut short

ASSUME DmCallsAssumption ==
    /\ IsFiniteSet(Users)
    /\ IsFiniteSet(Handlers)
    /\ IsFiniteSet(Instances)
    /\ NoUser \notin Users
    /\ MaxRings \in Nat
    /\ CountTo \in Nat
    /\ MaxCrashes \in Nat

VARIABLES
    isGroup,   \* the kind of the conversation
    members,   \* its members
    ring,      \* value of the ring key
    hasTtl,    \* whether the ring key has a time to live
    deadline,  \* the conversation in the deadlines set: absent, in the future, passed
    handlers,  \* the socket handlers
    sweeps,    \* the sweep of each instance
    placed,    \* rings started so far
    declined,  \* who finished declining which ring of a group
    overtaken, \* who did while another decline was about to write them back on it
    missed,    \* rings the sweeps reported missed, all in all
    missedCalls, \* missedCalls[n]: times ring n became a missed call
    crashes

ringKeys == <<ring, hasTtl, deadline>>
history == <<placed, declined, overtaken, missed, missedCalls>>
vars == <<isGroup, members, ringKeys, handlers, sweeps, history, crashes>>

--------------------------------------------------------------------------------
RingIds == 1 .. MaxRings
Rings == [id : RingIds, caller : Users, members : SUBSET Users]
HandlerPhases == {"idle", "startClear", "startSet", "declineClear", "removeGet", "removeWrite",
                  "cancelClear", "answerClear"}
SweepPhases == {"idle", "claim", "get", "del"}

\* about is the ring the handler or sweep acts on (0: none), snap the one removeMember read.
IdleHandler == [pc |-> "idle", user |-> NoUser, about |-> 0, snap |-> NoRing]
IdleSweep == [pc |-> "idle", about |-> 0]

TypeOK ==
    /\ isGroup \in BOOLEAN
    /\ members \subseteq Users
    /\ ring \in Rings \cup {NoRing}
    /\ hasTtl \in BOOLEAN
    /\ deadline \in {"absent", "future", "passed"}
    /\ handlers \in [Handlers -> [pc : HandlerPhases, user : Users \cup {NoUser},
                                  about : 0 .. MaxRings, snap : Rings \cup {NoRing}]]
    /\ \A h \in Handlers : handlers[h].pc = "removeWrite" => handlers[h].snap # NoRing
    /\ sweeps \in [Instances -> [pc : SweepPhases, about : 0 .. MaxRings]]
    /\ placed \in 0 .. MaxRings
    /\ declined \in [RingIds -> SUBSET Users]
    /\ overtaken \in [RingIds -> SUBSET Users]
    /\ missed \in Nat
    /\ missedCalls \in [RingIds -> 0 .. CountTo]
    /\ crashes \in 0 .. MaxCrashes

Init ==
    /\ isGroup \in BOOLEAN
    /\ members \in {S \in SUBSET Users : Cardinality(S) >= 2 /\ (~isGroup => Cardinality(S) = 2)}
    /\ ring = NoRing
    /\ hasTtl = FALSE
    /\ deadline = "absent"
    /\ handlers = [h \in Handlers |-> IdleHandler]
    /\ sweeps = [i \in Instances |-> IdleSweep]
    /\ placed = 0
    /\ declined = [n \in RingIds |-> {}]
    /\ overtaken = [n \in RingIds |-> {}]
    /\ missed = 0
    /\ missedCalls = [n \in RingIds |-> 0]
    /\ crashes = 0

--------------------------------------------------------------------------------
(* Redis.                                                                   *)

\* DmCallRings.clear: DEL and ZREM in one MULTI (what it read before is not used).
ClearRing ==
    /\ ring' = NoRing
    /\ hasTtl' = FALSE
    /\ deadline' = "absent"

\* notifyMissedCall: every member the ring still has gets a missed-call notification.
NotifyMissedCall(n) == missedCalls' = [missedCalls EXCEPT ![n] = IF @ = CountTo THEN @ ELSE @ + 1]

DeadlinePasses ==
    /\ deadline = "future"
    /\ deadline' = "passed"
    /\ UNCHANGED <<isGroup, members, ring, hasTtl, handlers, sweeps, history, crashes>>

\* The time to live is four times the deadline, so it never fires first.
KeyExpires ==
    /\ ring # NoRing
    /\ hasTtl
    /\ deadline # "future"
    /\ ring' = NoRing
    /\ hasTtl' = FALSE
    /\ UNCHANGED <<isGroup, members, deadline, handlers, sweeps, history, crashes>>

--------------------------------------------------------------------------------
(* The socket handlers.                                                     *)

Begin(h, pc, u, n) ==
    /\ handlers[h].pc = "idle"
    /\ handlers' = [handlers EXCEPT ![h] = [pc |-> pc, user |-> u, about |-> n, snap |-> NoRing]]

At(h, pc) == handlers[h].pc = pc

End(h) == handlers' = [handlers EXCEPT ![h] = IdleHandler]

Handling(phases) == {g \in Handlers : handlers[g].pc \in phases}

\* ring: membership and blocks are checked, then DmCallRings.start clears
\* whatever rings now ...
StartRing(h, u) ==
    /\ u \in members
    /\ placed + Cardinality(Handling({"startClear", "startSet"})) < MaxRings
    /\ Begin(h, "startClear", u, 0)
    /\ UNCHANGED <<isGroup, members, ringKeys, sweeps, history, crashes>>

StartClear(h) ==
    /\ At(h, "startClear")
    /\ ClearRing
    /\ handlers' = [handlers EXCEPT ![h].pc = "startSet"]
    /\ UNCHANGED <<isGroup, members, sweeps, history, crashes>>

\* Faulty form: the ring is set without its entry in the deadlines set.
StartSetOnly(h) ==
    /\ At(h, "startSet")
    /\ placed < MaxRings
    /\ placed' = placed + 1
    /\ ring' = [id |-> placed + 1, caller |-> handlers[h].user, members |-> members]
    /\ hasTtl' = TRUE
    /\ End(h)
    /\ UNCHANGED <<isGroup, members, deadline, sweeps, declined, overtaken, missed, missedCalls, crashes>>

\* ... and sets ring and deadline in one MULTI.
StartSet(h) ==
    /\ At(h, "startSet")
    /\ placed < MaxRings
    /\ placed' = placed + 1
    /\ ring' = [id |-> placed + 1, caller |-> handlers[h].user, members |-> members]
    /\ hasTtl' = TRUE
    /\ deadline' = "future"
    /\ End(h)
    /\ UNCHANGED <<isGroup, members, sweeps, declined, overtaken, missed, missedCalls, crashes>>

\* Faulty form: every decline takes the member off the ring, 1-1 ones too.
DeclineAsGroup(h, u) ==
    /\ ring # NoRing
    /\ ring.caller # u
    /\ u \in ring.members
    /\ Begin(h, "removeGet", u, ring.id)
    /\ UNCHANGED <<isGroup, members, ringKeys, sweeps, history, crashes>>

\* decline reads the ring; only a member it still rings for gets past.
Decline(h, u) ==
    /\ ring # NoRing
    /\ ring.caller # u
    /\ u \in ring.members
    /\ Begin(h, IF isGroup THEN "removeGet" ELSE "declineClear", u, ring.id)
    /\ UNCHANGED <<isGroup, members, ringKeys, sweeps, history, crashes>>

\* The handlers about to write back ring n with u still on it.
Restoring(n, u) ==
    {g \in Handling({"removeWrite"}) : handlers[g].snap.id = n /\ u \in handlers[g].snap.members}

Declined(h) ==
    LET n == handlers[h].about
        u == handlers[h].user
    IN /\ declined' = [declined EXCEPT ![n] = @ \cup {u}]
       /\ overtaken' = IF Restoring(n, u) \ {h} = {} THEN overtaken
                       ELSE [overtaken EXCEPT ![n] = @ \cup {u}]

\* In a 1-1 conversation a decline ends the ring.
DeclineClear(h) ==
    /\ At(h, "declineClear")
    /\ ClearRing
    /\ End(h)
    /\ UNCHANGED <<isGroup, members, sweeps, history, crashes>>

\* Faulty form: a ring that is gone by now is written back all the same.
RemoveGetBlindly(h) ==
    /\ At(h, "removeGet")
    /\ handlers' = [handlers EXCEPT ![h].snap = ring, ![h].pc = "removeWrite"]
    /\ UNCHANGED <<isGroup, members, ringKeys, sweeps, history, crashes>>

\* removeMember reads the ring again ...
RemoveGet(h) ==
    /\ At(h, "removeGet")
    /\ IF ring = NoRing
       THEN Declined(h) /\ End(h)
       ELSE /\ handlers' = [handlers EXCEPT ![h].snap = ring, ![h].pc = "removeWrite"]
            /\ UNCHANGED <<declined, overtaken>>
    /\ UNCHANGED <<isGroup, members, ringKeys, sweeps, placed, missed, missedCalls, crashes>>

\* Faulty form: the decliner's devices are silenced and the ring is left as it is.
RemoveNobody(h) ==
    /\ At(h, "removeWrite")
    /\ Declined(h)
    /\ End(h)
    /\ UNCHANGED <<isGroup, members, ringKeys, sweeps, placed, missed, missedCalls, crashes>>

\* ... and writes back what it read without the decliner.  KEEPTTL keeps the time to
\* live of a key that exists and gives none to a key that is gone by now.
RemoveWrite(h) ==
    LET left == handlers[h].snap.members \ {handlers[h].user} IN
    /\ At(h, "removeWrite")
    /\ IF left = {} THEN ClearRing
       ELSE /\ ring' = [handlers[h].snap EXCEPT !.members = left]
            /\ hasTtl' = (ring # NoRing /\ hasTtl)
            /\ UNCHANGED deadline
    /\ Declined(h)
    /\ End(h)
    /\ UNCHANGED <<isGroup, members, sweeps, placed, missed, missedCalls, crashes>>

\* cancel, by the caller of the ring that is read.
Cancel(h, u) ==
    /\ ring # NoRing
    /\ ring.caller = u
    /\ Begin(h, "cancelClear", NoUser, ring.id)
    /\ UNCHANGED <<isGroup, members, ringKeys, sweeps, history, crashes>>

\* A cancelled call is announced, and is a missed call for every member rung.
CancelClear(h) ==
    /\ At(h, "cancelClear")
    /\ ClearRing
    /\ NotifyMissedCall(handlers[h].about)
    /\ End(h)
    /\ UNCHANGED <<isGroup, members, sweeps, placed, declined, overtaken, missed, crashes>>

\* participantJoined, after a member other than the caller is in the call.
Answer(h, u) ==
    /\ u \in members
    /\ ring # NoRing
    /\ ring.caller # u
    /\ Begin(h, "answerClear", NoUser, 0)
    /\ UNCHANGED <<isGroup, members, ringKeys, sweeps, history, crashes>>

AnswerClear(h) ==
    /\ At(h, "answerClear")
    /\ ClearRing
    /\ End(h)
    /\ UNCHANGED <<isGroup, members, sweeps, history, crashes>>

--------------------------------------------------------------------------------
(* The sweep of every instance.                                             *)

\* ZRANGEBYSCORE finds the conversation past its deadline.
SweepScan(i) ==
    /\ sweeps[i].pc = "idle"
    /\ deadline = "passed"
    /\ sweeps' = [sweeps EXCEPT ![i].pc = "claim"]
    /\ UNCHANGED <<isGroup, members, ringKeys, handlers, history, crashes>>

\* Faulty form: whatever ZREM replies, the sweep goes on.
SweepClaimAlways(i) ==
    /\ sweeps[i].pc = "claim"
    /\ sweeps' = [sweeps EXCEPT ![i].pc = "get"]
    /\ deadline' = "absent"
    /\ UNCHANGED <<isGroup, members, ring, hasTtl, handlers, history, crashes>>

\* ZREM is the claim.  It names the conversation and not the deadline that was
\* read, so it also takes the deadline of a ring that started in between.
SweepClaim(i) ==
    /\ sweeps[i].pc = "claim"
    /\ sweeps' = [sweeps EXCEPT ![i].pc = IF deadline = "absent" THEN "idle" ELSE "get"]
    /\ deadline' = "absent"
    /\ UNCHANGED <<isGroup, members, ring, hasTtl, handlers, history, crashes>>

SweepGet(i) ==
    /\ sweeps[i].pc = "get"
    /\ sweeps' = [sweeps EXCEPT ![i] = [pc |-> "del", about |-> IF ring = NoRing THEN 0 ELSE ring.id]]
    /\ UNCHANGED <<isGroup, members, ringKeys, handlers, history, crashes>>

\* Faulty form: the sweep reports the ring and leaves its key to the time to live.
SweepReportOnly(i) ==
    /\ sweeps[i].pc = "del"
    /\ IF sweeps[i].about = 0 THEN UNCHANGED <<missed, missedCalls>>
       ELSE missed' = missed + 1 /\ NotifyMissedCall(sweeps[i].about)
    /\ hasTtl' = FALSE
    /\ sweeps' = [sweeps EXCEPT ![i] = IdleSweep]
    /\ UNCHANGED <<isGroup, members, ring, deadline, handlers, placed, declined, overtaken, crashes>>

\* DEL, then onExpire with what GET returned: announced, and a missed call.
SweepDel(i) ==
    /\ sweeps[i].pc = "del"
    /\ ring' = NoRing
    /\ hasTtl' = FALSE
    /\ IF sweeps[i].about = 0 THEN UNCHANGED <<missed, missedCalls>>
       ELSE missed' = missed + 1 /\ NotifyMissedCall(sweeps[i].about)
    /\ sweeps' = [sweeps EXCEPT ![i] = IdleSweep]
    /\ UNCHANGED <<isGroup, members, deadline, handlers, placed, declined, overtaken, crashes>>

--------------------------------------------------------------------------------
\* A process stops, or Redis fails, between two commands.
CutHandler(h) ==
    /\ crashes < MaxCrashes
    /\ handlers[h].pc # "idle"
    /\ End(h)
    /\ crashes' = crashes + 1
    /\ UNCHANGED <<isGroup, members, ringKeys, sweeps, history>>

CutSweep(i) ==
    /\ crashes < MaxCrashes
    /\ sweeps[i].pc # "idle"
    /\ sweeps' = [sweeps EXCEPT ![i] = IdleSweep]
    /\ crashes' = crashes + 1
    /\ UNCHANGED <<isGroup, members, ringKeys, handlers, history>>

HandlerStep(h) ==
    \/ StartClear(h) \/ StartSet(h) \/ DeclineClear(h) \/ RemoveGet(h) \/ RemoveWrite(h)
    \/ CancelClear(h) \/ AnswerClear(h)

SweepStep(i) == SweepScan(i) \/ SweepClaim(i) \/ SweepGet(i) \/ SweepDel(i)

Next ==
    \/ DeadlinePasses
    \/ KeyExpires
    \/ \E h \in Handlers, u \in Users : StartRing(h, u) \/ Decline(h, u) \/ Cancel(h, u) \/ Answer(h, u)
    \/ \E h \in Handlers : HandlerStep(h) \/ CutHandler(h)
    \/ \E i \in Instances : SweepStep(i) \/ CutSweep(i)

Spec == Init /\ [][Next]_vars

Fairness ==
    /\ WF_vars(DeadlinePasses)
    /\ WF_vars(KeyExpires)
    /\ \A i \in Instances : WF_vars(SweepStep(i))
    /\ \A h \in Handlers : WF_vars(HandlerStep(h))

FairSpec == Spec /\ Fairness

--------------------------------------------------------------------------------
(* Properties.                                                              *)

\* Every missed call a sweep reports is paid for by a deadline of its own: the
\* instances together never report more rings than were placed, however scans,
\* claims, new calls and crashes interleave (the claim of sweepExpired).
MissesAreClaimed == missed <= placed

\* Who finished declining a group ring is no longer on it, so a later expiry or
\* cancel does not count them as having missed the call: except who finished between
\* the read and the write of another decline, which puts them back.
DeclinerOffRing ==
    isGroup /\ ring # NoRing => declined[ring.id] \cap ring.members \subseteq overtaken[ring.id]

\* A 1-1 ring is never left behind: it keeps its time to live, and its deadline is
\* in the set until a sweep holds the claim or a process was cut short with it.
NoLeakedRing ==
    ~isGroup /\ ring # NoRing =>
        /\ hasTtl
        /\ \/ deadline # "absent"
           \/ \E i \in Instances : sweeps[i].pc \in {"get", "del"}
           \/ crashes > 0

\* A 1-1 ring that is over never rings again: only a new call sets the key.
NoReturn ==
    [][~isGroup /\ ring' # ring /\ ring' # NoRing => ring'.id > placed]_vars

\* Every 1-1 ring ends, with every handler that could end it gone and a crash
\* at the worst moment.
RingEnds ==
    \A n \in RingIds :
        (~isGroup /\ ring # NoRing /\ ring.id = n) ~> (ring = NoRing \/ ring.id # n)

\* dm-call-rings.ts: "a ring is only ever missed once".  Both the expiry and the
\* cancel of a ring make it a missed call for the members it rang.
RingMissedOnce ==
    \A n \in RingIds : missedCalls[n] <= 1
================================================================================
