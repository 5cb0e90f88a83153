----------------------------- MODULE CallRegistry -----------------------------
(***************************************************************************)
(* Who is in a call: CallRegistryService over its two Redis keys, the hash *)
(* of the call's participants and the set of the calls of each socket,     *)
(* driven by VoiceGateway, the disconnect handler, the heartbeat of every  *)
(* instance, the removal of a server member, and the clients' own view of  *)
(* the call (useChannelCall).                                              *)
(*                                                                         *)
(* The keys of two calls are disjoint, so the module is about one.  One    *)
(* action is one Redis command or one MULTI.  A participant is kept as the *)
(* age of its lastSeen in heartbeat intervals.  An instance matters only   *)
(* through its sockets, so a crash kills a socket.                         *)
(***************************************************************************)
EXTENDS Integers, FiniteSets

CONSTANTS
    Users,
    CallSockets,
    UserOf,       \* the user of each socket
    Owner,        \* of the server: cannot be removed from it
    Nobody,       \* no participant, no user
    CallTtl,      \* heartbeatTtlMs in heartbeat intervals
    CallsAtOnce   \* most handlers under way together

ASSUME CallRegistryAssumption ==
    /\ IsFiniteSet(Users)
    /\ IsFiniteSet(CallSockets)
    /\ UserOf \in [CallSockets -> Users]
    /\ Nobody \notin Nat /\ Nobody \notin Users
    /\ Owner \in Users
    /\ CallTtl \in Nat \ {0}
    /\ CallsAtOnce \in Nat

VARIABLES
    stored,   \* stored[s]: the participant of s in the call's hash
    calls,    \* the sockets whose set of calls holds the call
    open,     \* the sockets that are connected
    ended,    \* those whose connection has ended: an identifier is not used again
    client,   \* client[s]: the call state of the client behind s
    told,     \* sockets with a 'voice:user-left' of their own on its way
    room,     \* the sockets in the call's room
    join,     \* join[s]: the handler of voice:join, at most one at a time
    leave,    \* leave[s]: that of voice:leave or of the disconnect, at most one at a time
    update,   \* sockets with a voice:state that has read its participant
    beat,     \* beat[s]: the heartbeat of s
    listing,  \* the stale participants a read is about to delete
    removal,  \* CallRegistryService.removeUser
    members,  \* the users of the server
    offered,  \* offered[s]: the participants that s, while it calls, offers a connection to
    crossed,  \* pairs of sockets whose joins overlapped
    caught,   \* users removed while no join of theirs was under way
    late,     \* sockets whose leave ended before their join had recorded its participant
    remnant,  \* sockets that recorded a participant an earlier leave or read may still delete
    away      \* away[s]: intervals s was stored in the call with its client out of it,
              \* its leave having come after its join

redis == <<stored, calls>>
clients == <<open, ended, client, told, room>>
handlers == <<join, leave, update, beat, listing, removal>>
callHistory == <<offered, crossed, caught, late, remnant, away>>
callVars == <<redis, clients, handlers, members, callHistory>>

--------------------------------------------------------------------------------
CallOldest == CallTtl + 1

CallOlder(age) == IF age \in Nat /\ age < CallOldest THEN age + 1 ELSE age

Idle == [pc |-> "idle", user |-> Nobody, found |-> {}]

CallTypeOK ==
    /\ stored \in [CallSockets -> 0 .. CallOldest \cup {Nobody}]
    /\ calls \subseteq CallSockets
    /\ open \subseteq CallSockets
    /\ ended \subseteq CallSockets
    /\ client \in [CallSockets -> {"out", "asking", "in"}]
    /\ told \subseteq CallSockets
    /\ room \subseteq CallSockets
    /\ join \in [CallSockets -> {"idle", "authorize", "list", "record", "room"}]
    /\ leave \in [CallSockets -> {"idle", "get", "remove", "members", "removeAll"}]
    /\ update \subseteq CallSockets
    /\ beat \in [CallSockets -> {"due", "listed", "found", "done"}]
    /\ listing \subseteq CallSockets
    /\ removal \in [pc : {"idle", "collect", "drop"}, user : Users \cup {Nobody}, found : SUBSET CallSockets]
    /\ members \subseteq Users
    /\ offered \in [CallSockets -> SUBSET CallSockets]
    /\ crossed \subseteq SUBSET CallSockets
    /\ caught \subseteq Users
    /\ late \subseteq CallSockets
    /\ remnant \subseteq CallSockets
    /\ away \in [CallSockets -> 0 .. CallOldest]

CallInit ==
    /\ stored = [s \in CallSockets |-> Nobody]
    /\ calls = {}
    /\ open = {}
    /\ ended = {}
    /\ client = [s \in CallSockets |-> "out"]
    /\ told = {}
    /\ room = {}
    /\ join = [s \in CallSockets |-> "idle"]
    /\ leave = [s \in CallSockets |-> "idle"]
    /\ update = {}
    /\ beat = [s \in CallSockets |-> "due"]
    /\ listing = {}
    /\ removal = Idle
    /\ members = Users
    /\ offered = [s \in CallSockets |-> {}]
    /\ crossed = {}
    /\ caught = {}
    /\ late = {}
    /\ remnant = {}
    /\ away = [s \in CallSockets |-> 0]

\* Participants a read keeps, and those it deletes afterwards.
Stale(s) == stored[s] \in Nat /\ stored[s] > CallTtl
Shown(s) == stored[s] \in Nat /\ stored[s] <= CallTtl

\* One more handler, heartbeat, read or removal may start.
MayStart ==
    LET working == {s \in CallSockets : join[s] # "idle"}
        leaving == {s \in CallSockets : leave[s] # "idle"}
        beating == {s \in CallSockets : beat[s] \in {"listed", "found"}}
        others == {k \in {"listing", "removal"} : IF k = "listing" THEN listing # {} ELSE removal # Idle}
    IN Cardinality(working) + Cardinality(leaving) + Cardinality(beating) + Cardinality(update)
         + Cardinality(others) < CallsAtOnce

--------------------------------------------------------------------------------
(* The clients.                                                             *)

OpenSocket(s) ==
    /\ s \notin open \cup ended
    /\ open' = open \cup {s}
    /\ UNCHANGED <<redis, ended, client, told, room, handlers, members, callHistory>>

\* s has no peer connection: what was offered to it, or by it, is gone.
Unpeered(s) == offered' = [t \in CallSockets |-> IF t = s THEN {} ELSE offered[t] \ {s}]

\* startCall: the state is set before the server is asked.
StartCall(s) ==
    /\ s \in open
    /\ client[s] = "out"
    /\ join[s] = "idle" /\ MayStart
    /\ client' = [client EXCEPT ![s] = "asking"]
    /\ join' = [join EXCEPT ![s] = "authorize"]
    /\ Unpeered(s)
    /\ crossed' = {p \in crossed : s \notin p} \cup
                  {{s, t} : t \in {x \in CallSockets \ {s} : join[x] # "idle"}}
    /\ late' = late \ {s}
    /\ remnant' = remnant \ ({s} \ calls)
    /\ away' = [away EXCEPT ![s] = 0]
    /\ UNCHANGED <<redis, open, ended, told, room, leave, update, beat, listing, removal, members, caught>>

\* The client of s is out of the call.
Out(s) ==
    /\ client' = [client EXCEPT ![s] = "out"]
    /\ Unpeered(s)
    /\ crossed' = {p \in crossed : s \notin p}

\* endCall: the leave is sent whatever the server knows, a join under way included,
\* and is not waited for.
EndCall(s) ==
    /\ Out(s)
    /\ leave' = [leave EXCEPT ![s] = IF s \in open THEN "get" ELSE @]

\* The user hangs up, a track ends, or the join is not answered in time.
HangUp(s) ==
    /\ s \in open
    /\ client[s] # "out"
    /\ leave[s] = "idle" /\ MayStart
    /\ EndCall(s)
    /\ UNCHANGED <<redis, open, ended, told, room, join, update, beat, listing, removal, members, caught, late, remnant, away>>

\* handleUserLeft for the client's own socket.
HearUserLeft(s) ==
    /\ s \in told
    /\ leave[s] = "idle" /\ MayStart
    /\ told' = told \ {s}
    /\ IF client[s] = "out" THEN UNCHANGED <<client, leave, offered, crossed>> ELSE EndCall(s)
    /\ UNCHANGED <<redis, open, ended, room, join, update, beat, listing, removal, members, caught, late, remnant, away>>

\* The socket of s is gone, and with it its places in rooms.
Gone(s) ==
    /\ open' = open \ {s}
    /\ ended' = ended \cup {s}
    /\ Out(s)
    /\ told' = told \ {s}
    /\ room' = room \ {s}
    /\ late' = late \ {s}
    /\ remnant' = remnant \ {s}

\* The connection closes: handleDisconnect runs leaveAll.
CloseSocket(s) ==
    /\ s \in open
    /\ leave[s] = "idle" /\ MayStart
    /\ Gone(s)
    /\ leave' = [leave EXCEPT ![s] = "members"]
    /\ UNCHANGED <<redis, join, update, beat, listing, removal, members, caught, away>>

\* The instance of s is killed with everything it was doing.
KillSocket(s) ==
    /\ s \in open \/ join[s] # "idle" \/ leave[s] # "idle"
    /\ Gone(s)
    /\ join' = [join EXCEPT ![s] = "idle"]
    /\ leave' = [leave EXCEPT ![s] = "idle"]
    /\ update' = update \ {s}
    /\ beat' = [beat EXCEPT ![s] = "done"]
    /\ calls' = calls \ {s}  \* only its own instance reads this key, and it expires
    /\ UNCHANGED <<stored, listing, removal, members, caught, away>>

--------------------------------------------------------------------------------
(* voice:join.                                                              *)

\* authorizeCallJoin; a refusal is answered, and the client hangs up.
AuthorizeCallJoin(s) ==
    /\ join[s] = "authorize"
    /\ IF UserOf[s] \in members
         THEN /\ join' = [join EXCEPT ![s] = "list"]
              /\ UNCHANGED <<client, leave, offered, crossed>>
         ELSE /\ join' = [join EXCEPT ![s] = "idle"]
              /\ IF client[s] = "asking" THEN leave[s] = "idle" /\ EndCall(s)
                                         ELSE UNCHANGED <<client, leave, offered, crossed>>
    /\ UNCHANGED <<redis, open, ended, told, room, update, beat, listing, removal, members, caught, late, remnant, away>>

\* A mistake: a participant due for its heartbeat is taken for stale.
JoinListFresh(s) ==
    /\ join[s] = "list"
    /\ join' = [join EXCEPT ![s] = "record"]
    /\ offered' = [offered EXCEPT ![s] = {t \in CallSockets \ {s} : Shown(t) /\ stored[t] < CallTtl}]
    /\ UNCHANGED <<redis, clients, leave, update, beat, listing, removal, members,
                   crossed, caught, late, remnant, away>>

\* join: the participants already there (a read deletes the stale ones later).
JoinList(s) ==
    /\ join[s] = "list"
    /\ join' = [join EXCEPT ![s] = "record"]
    /\ offered' = [offered EXCEPT ![s] = IF client[s] = "out" THEN {} ELSE {t \in CallSockets \ {s} : Shown(t)}]
    /\ UNCHANGED <<redis, clients, leave, update, beat, listing, removal, members,
                   crossed, caught, late, remnant, away>>

\* join: the MULTI that records the participant, whether or not the client still calls.
JoinRecord(s) ==
    /\ join[s] = "record"
    /\ join' = [join EXCEPT ![s] = "room"]
    /\ stored' = [stored EXCEPT ![s] = 0]
    /\ calls' = calls \cup {s}
    /\ remnant' = IF s \in open /\ (leave[s] # "idle" \/ s \in listing) THEN remnant \cup {s} ELSE remnant
    /\ UNCHANGED <<clients, leave, update, beat, listing, removal, members,
                   offered, crossed, caught, late, away>>

\* The socket joins the room and the join is answered: in the mesh the client offers
\* a connection to every participant of the answer.
JoinAnswer(s) ==
    /\ join[s] = "room"
    /\ join' = [join EXCEPT ![s] = "idle"]
    /\ client' = [client EXCEPT ![s] = IF @ = "asking" THEN "in" ELSE @]
    /\ room' = room \cup ({s} \cap open)
    /\ UNCHANGED <<redis, open, ended, told, leave, update, beat, listing, removal, members, callHistory>>

--------------------------------------------------------------------------------
(* voice:state, voice:leave, disconnect.                                    *)

\* updateState: the participant is read, patched, and written back unconditionally.
UpdateRead(s) ==
    /\ s \in open \ update /\ MayStart
    /\ client[s] # "out"
    /\ stored[s] # Nobody
    /\ update' = update \cup {s}
    /\ UNCHANGED <<redis, clients, join, leave, beat, listing, removal, members, callHistory>>

UpdateWrite(s) ==
    /\ s \in update
    /\ update' = update \ {s}
    /\ stored' = [stored EXCEPT ![s] = 0]
    /\ UNCHANGED <<calls, clients, join, leave, beat, listing, removal, members, callHistory>>

\* A leave of s ends; the participant its join has not yet recorded escapes it.
Left(s) ==
    /\ leave' = [leave EXCEPT ![s] = "idle"]
    /\ late' = IF s \in open /\ join[s] \in {"authorize", "list", "record"} THEN late \cup {s} ELSE late \ {s}

\* 'voice:user-left' of the sockets S: the others close their connections to them.
UserLeft(S) == offered' = [t \in CallSockets |-> IF t \in S /\ join[t] = "idle" THEN {} ELSE offered[t] \ S]

\* leave: without a participant it returns.
LeaveGet(s) ==
    /\ leave[s] = "get"
    /\ IF stored[s] = Nobody THEN Left(s) ELSE leave' = [leave EXCEPT ![s] = "remove"] /\ UNCHANGED late
    /\ UNCHANGED <<redis, clients, join, update, beat, listing, removal, members,
                   offered, crossed, caught, remnant, away>>

\* leaveAll: the calls of the socket, and the leave of each as above.
LeaveAllGet(s) ==
    /\ leave[s] = "members"
    /\ leave' = [leave EXCEPT ![s] = IF s \in calls /\ stored[s] # Nobody THEN "removeAll" ELSE "idle"]
    /\ calls' = IF leave'[s] = "idle" THEN calls \ {s} ELSE calls
    /\ UNCHANGED <<stored, clients, join, update, beat, listing, removal, members, callHistory>>

\* hdel and srem, then the room; leaveAll ends with the deletion of the socket's set of calls.
LeaveRemove(s) ==
    /\ leave[s] \in {"remove", "removeAll"}
    /\ stored' = [stored EXCEPT ![s] = Nobody]
    /\ calls' = calls \ {s}
    /\ room' = room \ {s}
    /\ UserLeft({s})
    /\ Left(s)
    /\ UNCHANGED <<open, ended, client, told, join, update, beat, listing, removal, members,
                   crossed, caught, remnant, away>>

--------------------------------------------------------------------------------
(* The heartbeat, reads, and the removal of a member.                       *)

\* A mistake: the heartbeat covers every stored participant.
BeatListAll(s) ==
    /\ beat[s] = "due" /\ MayStart
    /\ beat' = [beat EXCEPT ![s] = IF stored[s] # Nobody THEN "listed" ELSE "done"]
    /\ UNCHANGED <<redis, clients, join, leave, update, listing, removal, members, callHistory>>

\* heartbeat: the calls of a socket of this instance, ...
BeatList(s) ==
    /\ s \in open
    /\ beat[s] = "due" /\ MayStart
    /\ beat' = [beat EXCEPT ![s] = IF s \in calls THEN "listed" ELSE "done"]
    /\ UNCHANGED <<redis, clients, join, leave, update, listing, removal, members, callHistory>>

\* ... its participant in each, ...
BeatGet(s) ==
    /\ beat[s] = "listed"
    /\ beat' = [beat EXCEPT ![s] = IF stored[s] = Nobody THEN "done" ELSE "found"]
    /\ UNCHANGED <<redis, clients, join, leave, update, listing, removal, members, callHistory>>

\* A mistake: the keys are kept alive, but not lastSeen.
BeatWriteExpiry(s) ==
    /\ beat[s] = "found"
    /\ beat' = [beat EXCEPT ![s] = "done"]
    /\ UNCHANGED <<redis, clients, join, leave, update, listing, removal, members, callHistory>>

\* ... written back with the time of the tick.
BeatWrite(s) ==
    /\ beat[s] = "found"
    /\ beat' = [beat EXCEPT ![s] = "done"]
    /\ stored' = [stored EXCEPT ![s] = 0]
    /\ UNCHANGED <<calls, clients, join, leave, update, listing, removal, members, callHistory>>

\* listParticipants, which every read of a call goes through: stale participants
\* are not shown, and deleted by their socket afterwards.
List ==
    /\ listing = {} /\ MayStart
    /\ listing' = {s \in CallSockets : Stale(s)}
    /\ listing' # {}
    /\ UNCHANGED <<redis, clients, join, leave, update, beat, removal, members, callHistory>>

DeleteStale ==
    /\ listing # {}
    /\ stored' = [s \in CallSockets |-> IF s \in listing THEN Nobody ELSE stored[s]]
    /\ listing' = {}
    /\ UNCHANGED <<calls, clients, join, leave, update, beat, removal, members, callHistory>>

\* kick, ban or leave: the membership is gone before the calls are ended.
RemoveMember(u) ==
    /\ removal = Idle /\ MayStart
    /\ u \in members \ {Owner}
    /\ members' = members \ {u}
    /\ removal' = [pc |-> "collect", user |-> u, found |-> {}]
    /\ caught' = IF \A s \in CallSockets : UserOf[s] = u => join[s] = "idle" THEN caught \cup {u} ELSE caught
    /\ UNCHANGED <<redis, clients, join, leave, update, beat, listing,
                   offered, crossed, late, remnant, away>>

\* removeUser: the sockets of the user in the call.
RemoveCollect ==
    LET found == {s \in CallSockets : UserOf[s] = removal.user /\ stored[s] # Nobody} IN
    /\ removal.pc = "collect"
    /\ removal' = IF found = {} THEN Idle ELSE [removal EXCEPT !.pc = "drop", !.found = found]
    /\ UNCHANGED <<redis, clients, join, leave, update, beat, listing, members, callHistory>>

\* A mistake: the sockets are moved out of the room before it is told.
RemoveDropSilent ==
    /\ removal.pc = "drop"
    /\ stored' = [s \in CallSockets |-> IF s \in removal.found THEN Nobody ELSE stored[s]]
    /\ calls' = calls \ removal.found
    /\ room' = room \ removal.found
    /\ UserLeft(removal.found)
    /\ removal' = Idle
    /\ UNCHANGED <<open, ended, client, told, join, leave, update, beat, listing, members,
                   crossed, caught, late, remnant, away>>

\* The MULTI, then 'voice:user-left' to the room, the sockets themselves included,
\* and the sockets are moved out of it.
RemoveDrop ==
    /\ removal.pc = "drop"
    /\ stored' = [s \in CallSockets |-> IF s \in removal.found THEN Nobody ELSE stored[s]]
    /\ calls' = calls \ removal.found
    /\ told' = told \cup {s \in removal.found \cap room : client[s] # "out"}
    /\ room' = room \ removal.found
    /\ UserLeft(removal.found)
    /\ removal' = Idle
    /\ UNCHANGED <<open, ended, client, join, leave, update, beat, listing, members,
                   crossed, caught, late, remnant, away>>

\* The client of s is out of the call and no handler of s is at work.
Quiet(s) ==
    /\ client[s] = "out" /\ s \notin told \cup update
    /\ join[s] = "idle" /\ leave[s] = "idle"

\* The open socket of s has a participant that its client's last leave did not see:
\* the heartbeat keeps it until the socket closes.
Missed(s) == s \in open /\ s \in late \cup remnant

\* A heartbeat interval passes, in which every instance ran its heartbeat.
CallTick ==
    /\ \A s \in CallSockets : IF s \in open THEN beat[s] = "done" ELSE beat[s] \notin {"listed", "found"}
    /\ stored' = [s \in CallSockets |-> CallOlder(stored[s])]
    /\ beat' = [s \in CallSockets |-> "due"]
    /\ away' = [s \in CallSockets |-> IF Quiet(s) /\ ~Missed(s) /\ stored[s] # Nobody THEN CallOlder(away[s]) ELSE 0]
    /\ UNCHANGED <<calls, clients, join, leave, update, listing, removal, members,
                   offered, crossed, caught, late, remnant>>

JoinStep(s) == AuthorizeCallJoin(s) \/ JoinList(s) \/ JoinRecord(s) \/ JoinAnswer(s)
LeaveStep(s) == LeaveGet(s) \/ LeaveAllGet(s) \/ LeaveRemove(s)
BeatStep(s) == BeatList(s) \/ BeatGet(s) \/ BeatWrite(s)
RemoveStep == RemoveCollect \/ RemoveDrop

CallNext ==
    \/ CallTick \/ List \/ DeleteStale \/ RemoveStep
    \/ \E u \in Users : RemoveMember(u)
    \/ \E s \in CallSockets :
         \/ OpenSocket(s) \/ StartCall(s) \/ HangUp(s) \/ HearUserLeft(s) \/ CloseSocket(s) \/ KillSocket(s)
         \/ JoinStep(s) \/ LeaveStep(s) \/ BeatStep(s) \/ UpdateRead(s) \/ UpdateWrite(s)

CallSpec == CallInit /\ [][CallNext]_callVars

--------------------------------------------------------------------------------
(* Properties.                                                              *)

\* A client that is in the call of a server it belongs to is a participant that
\* every read shows, whatever the heartbeats, reads and removals of others do.  Left
\* out is a client that called again before its last leave, or the deletion of its
\* stale entry, had reached Redis: that one deletes the new participant.
ParticipantKept ==
    \A s \in open \ remnant : client[s] = "in" /\ UserOf[s] \in members => Shown(s) /\ s \in calls

\* In the mesh two participants hear each other: one of them offered.  Both
\* wait for the other when their joins overlapped, so that case is left out.
PeersConnected ==
    \A s, t \in open \ remnant :
        /\ s # t /\ {s, t} \notin crossed
        /\ client[s] = "in" /\ client[t] = "in"
        /\ UserOf[s] \in members /\ UserOf[t] \in members
        => s \in offered[t] \/ t \in offered[s]

\* Whoever is not in the call is not shown in it for longer than the time to live,
\* whatever update, heartbeat or join of theirs was under way when they hung up, were
\* disconnected or removed.  A leave that ends before the join is recorded leaves a
\* ghost for as long as the socket is open (Missed): its time counts from then on, so
\* that "a killed instance cannot leave a ghost participant in a call forever".
LeftIsHidden ==
    \A s \in CallSockets : away[s] > CallTtl => ~Shown(s)

\* The client of a removed member learns that it was taken out of the call, and
\* hangs up, unless a join of theirs was authorised before the removal.
RemovedIsTold ==
    \A s \in open \ remnant : client[s] = "in" /\ UserOf[s] \in caught =>
        s \in told \/ removal.user = UserOf[s]
================================================================================
