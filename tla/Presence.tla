------------------------------- MODULE Presence -------------------------------
(***************************************************************************)
(* Who is online: PresenceService over Redis and the users table, driven   *)
(* by the connect and disconnect handlers of RealtimeGateway and by the    *)
(* tick of RealtimeHeartbeatService on every instance.                     *)
(*                                                                         *)
(* The keys of two users are disjoint and no step reads both, so the       *)
(* module is about one user.  One action is one Redis command, one MULTI   *)
(* or one write of the status; the handlers and the sweeps of all          *)
(* instances interleave between them.  A Redis score is kept as its age in *)
(* heartbeat intervals.  A socket identifier is used again only when       *)
(* nothing of it is left, which is the same as a new one.                  *)
(***************************************************************************)
EXTENDS Integers, FiniteSets

CONSTANTS
    Sockets,    \* sockets the user may hold at the same time
    Instances,  \* API instances
    Home,       \* the instance each socket connects to
    None,       \* no member of a sorted set, no score
    Ttl,        \* heartbeatTtlMs in heartbeat intervals
    MaxLag,     \* most intervals a sweep may span
    AtOnce,     \* most handlers and sweeps under way together
    MaxFaults   \* bound of the crashes and failed commands

ASSUME PresenceAssumption ==
    /\ IsFiniteSet(Sockets)
    /\ IsFiniteSet(Instances)
    /\ Home \in [Sockets -> Instances]
    /\ None \notin Nat
    /\ Ttl \in Nat /\ Ttl > 1
    /\ MaxLag \in Nat
    /\ AtOnce \in Nat
    /\ MaxFaults \in Nat

VARIABLES
    running,  \* the instances that are up
    beaten,   \* those that sent a heartbeat in this interval
    sock,     \* the sockets and their handlers
    entry,    \* entry[s]: age of s in the sorted set of the user's sockets
    online,   \* age of the user in the sorted set of online users
    status,   \* users.status
    sweep,    \* the sweep of each instance
    faults,
    exposed,  \* a write of the status was lost or overtaken, or the user was not listed
    lost      \* intervals the user was listed without a socket, and no sweep failed

history == <<exposed, lost>>
vars == <<running, beaten, sock, entry, online, status, sweep, faults, history>>

--------------------------------------------------------------------------------
\* Past this age nothing changes any more: stale even for the oldest sweep.
Oldest == Ttl + MaxLag
Ages == 0 .. Oldest
Older(age) == IF age \in Nat /\ age < Oldest THEN age + 1 ELSE age

\* open: in server.sockets.sockets of its instance.  The connect handler (up)
\* and the disconnect handler (down) of one socket may run at the same time.
Unused == [open |-> FALSE, up |-> "idle", down |-> "idle"]
NoSweep == [pc |-> "idle", lag |-> 0]

TypeOK ==
    /\ running \subseteq Instances
    /\ beaten \subseteq Instances
    /\ sock \in [Sockets -> [open : BOOLEAN,
                             up : {"idle", "joining", "announcing"},
                             down : {"idle", "leaving", "unlisting", "announcing"}]]
    /\ entry \in [Sockets -> Ages \cup {None}]
    /\ online \in Ages \cup {None}
    /\ status \in {"ONLINE", "OFFLINE"}
    /\ sweep \in [Instances -> [pc : {"idle", "prune", "claim", "announce"},
                                lag : 0 .. MaxLag]]
    /\ faults \in 0 .. MaxFaults
    /\ exposed \in BOOLEAN
    /\ lost \in Nat

Init ==
    /\ running = Instances
    /\ beaten = {}
    /\ sock = [s \in Sockets |-> Unused]
    /\ entry = [s \in Sockets |-> None]
    /\ online = None
    /\ status = "OFFLINE"
    /\ sweep = [i \in Instances |-> NoSweep]
    /\ faults = 0
    /\ exposed = FALSE
    /\ lost = 0

\* zremrangebyscore(userKey, '-inf', staleBefore), staleBefore taken lag intervals ago.
Pruned(scores, lag) ==
    [s \in Sockets |-> IF scores[s] \in Nat /\ scores[s] - lag >= Ttl THEN None ELSE scores[s]]

\* No socket, and no handler of one.
Absent == \A s \in Sockets : sock[s] = Unused

\* The entries expire, or a sweep that began before the user left ends; then a sweep ends.
Soon == (IF MaxLag > Ttl THEN MaxLag ELSE Ttl) + MaxLag

\* zcard(userKey).
Count(scores) == Cardinality({s \in Sockets : scores[s] # None})

\* One more handler or sweep may start.
Free ==
    LET connecting == {s \in Sockets : sock[s].up # "idle"}
        leaving == {s \in Sockets : sock[s].down # "idle"}
        sweeping == {i \in Instances : sweep[i].pc # "idle"}
    IN Cardinality(connecting) + Cardinality(leaving) + Cardinality(sweeping) < AtOnce

--------------------------------------------------------------------------------
(* The handlers of a socket.                                                *)

\* The handshake is done; handleConnection joins the user's rooms.
Connect(s) ==
    /\ Home[s] \in running /\ Free
    /\ sock[s] = Unused
    /\ entry[s] = None
    /\ sock' = [sock EXCEPT ![s].open = TRUE, ![s].up = "joining"]
    /\ lost' = 0
    /\ UNCHANGED <<running, beaten, entry, online, status, sweep, faults, exposed>>

\* socketConnected: one MULTI, its count decides whether this socket turns the
\* user online.  The socket may have disconnected since.
SocketConnected(s) ==
    LET scores == Pruned([entry EXCEPT ![s] = 0], 0) IN
    /\ sock[s].up = "joining"
    /\ entry' = scores
    /\ online' = 0
    /\ sock' = [sock EXCEPT ![s].up = IF Count(scores) = 1 THEN "announcing" ELSE "idle"]
    /\ UNCHANGED <<running, beaten, status, sweep, faults, history>>

SetOnline(s) ==
    /\ sock[s].up = "announcing"
    /\ status' = "ONLINE"
    /\ exposed' = (exposed \/ online = None)
    /\ sock' = [sock EXCEPT ![s].up = "idle"]
    /\ UNCHANGED <<running, beaten, entry, online, sweep, faults, lost>>

\* handleConnection catches: the socket is disconnected.  setStatus may fail after its write.
ConnectFails(s) ==
    /\ sock[s].up # "idle"
    /\ faults < MaxFaults
    /\ faults' = faults + 1
    /\ status' \in IF sock[s].up = "announcing" THEN {status, "ONLINE"} ELSE {status}
    /\ exposed' = (exposed \/ (status' # status /\ online = None))
    /\ sock' = [sock EXCEPT ![s] = [open |-> FALSE, up |-> "idle",
                                    down |-> IF @.open THEN "leaving" ELSE @.down]]
    /\ UNCHANGED <<running, beaten, entry, online, sweep, lost>>

Disconnect(s) ==
    /\ sock[s].open /\ Free
    /\ sock' = [sock EXCEPT ![s].open = FALSE, ![s].down = "leaving"]
    /\ UNCHANGED <<running, beaten, entry, online, status, sweep, faults, history>>

\* socketDisconnected: one MULTI; with a socket left the handler returns.
SocketDisconnected(s) ==
    LET scores == Pruned([entry EXCEPT ![s] = None], 0) IN
    /\ sock[s].down = "leaving"
    /\ entry' = scores
    /\ sock' = [sock EXCEPT ![s].down = IF Count(scores) = 0 THEN "unlisting" ELSE "idle"]
    /\ UNCHANGED <<running, beaten, online, status, sweep, faults, history>>

Unlist(s) ==
    /\ sock[s].down = "unlisting"
    /\ online' = None
    /\ sock' = [sock EXCEPT ![s].down = "announcing"]
    /\ UNCHANGED <<running, beaten, entry, status, sweep, faults, history>>

SetOffline(s) ==
    /\ sock[s].down = "announcing"
    /\ status' = "OFFLINE"
    /\ sock' = [sock EXCEPT ![s].down = "idle"]
    /\ UNCHANGED <<running, beaten, entry, online, sweep, faults, history>>

\* handleDisconnect catches: nothing tries again (leaveAll, which runs first, may throw too).
DisconnectFails(s) ==
    /\ sock[s].down # "idle"
    /\ faults < MaxFaults
    /\ faults' = faults + 1
    /\ exposed' = (exposed \/ sock[s].down = "announcing")
    /\ sock' = [sock EXCEPT ![s].down = "idle"]
    /\ UNCHANGED <<running, beaten, entry, online, status, sweep, lost>>

--------------------------------------------------------------------------------
(* The tick of an instance.                                                 *)

\* A mistake the model checker must find: the heartbeat refreshes every stored socket.
HeartbeatOfAll(i) ==
    LET all == {s \in Sockets : entry[s] # None \/ (Home[s] = i /\ sock[s].open)} IN
    /\ i \in running \ beaten
    /\ beaten' = beaten \cup {i}
    /\ entry' = [s \in Sockets |-> IF s \in all THEN 0 ELSE entry[s]]
    /\ online' = IF all # {} THEN 0 ELSE online
    /\ UNCHANGED <<running, sock, status, sweep, faults, history>>

\* PresenceService.heartbeat: the sockets of this instance are taken and the
\* pipeline is sent in one go.  An instance without sockets of the user sends
\* nothing for them.  sweepStaleUsers follows, once or several times an interval.
Heartbeat(i) ==
    LET mine == {s \in Sockets : Home[s] = i /\ sock[s].open} IN
    /\ i \in running \ beaten
    /\ beaten' = beaten \cup {i}
    /\ entry' = [s \in Sockets |-> IF s \in mine THEN 0 ELSE entry[s]]
    /\ online' = IF mine # {} THEN 0 ELSE online
    /\ UNCHANGED <<running, sock, status, sweep, faults, history>>

\* zrangebyscore(online, '-inf', staleBefore).
Due(i) == sweep[i].pc = "idle" /\ online \in Nat /\ online >= Ttl

SweepSelect(i) ==
    /\ i \in running \cap beaten
    /\ Due(i) /\ Free
    /\ sweep' = [sweep EXCEPT ![i] = [pc |-> "prune", lag |-> 0]]
    /\ UNCHANGED <<running, beaten, sock, entry, online, status, faults, history>>

\* A mistake: the sweep drops the user's sockets without looking at their age.
SweepPruneAll(i) ==
    /\ sweep[i].pc = "prune"
    /\ entry' = [s \in Sockets |-> None]
    /\ sweep' = [sweep EXCEPT ![i].pc = "claim"]
    /\ UNCHANGED <<running, beaten, sock, online, status, faults, history>>

\* zremrangebyscore and zcard.  They are two commands, but what another process does
\* between them it could as well do before: it neither adds nor counts a stale member.
SweepPrune(i) ==
    LET scores == Pruned(entry, sweep[i].lag) IN
    /\ sweep[i].pc = "prune"
    /\ entry' = scores
    /\ sweep' = [sweep EXCEPT ![i] = IF Count(scores) > 0 THEN NoSweep ELSE [@ EXCEPT !.pc = "claim"]]
    /\ UNCHANGED <<running, beaten, sock, online, status, faults, history>>

\* A mistake: the user is removed and the status forgotten.
SweepClaimSilent(i) ==
    /\ sweep[i].pc = "claim"
    /\ online' = None
    /\ sweep' = [sweep EXCEPT ![i] = NoSweep]
    /\ UNCHANGED <<running, beaten, sock, entry, status, faults, history>>

\* zrem(online): the instance that removes the user goes on.
SweepClaim(i) ==
    /\ sweep[i].pc = "claim"
    /\ online' = None
    /\ sweep' = [sweep EXCEPT ![i] = IF online = None THEN NoSweep ELSE [@ EXCEPT !.pc = "announce"]]
    /\ UNCHANGED <<running, beaten, sock, entry, status, faults, history>>

\* A mistake: the age of the sweep is not reset.
SweepAnnounceAged(i) ==
    /\ sweep[i].pc = "announce"
    /\ status' = "OFFLINE"
    /\ sweep' = [sweep EXCEPT ![i] = [pc |-> "idle", lag |-> sweep[i].lag + 1]]
    /\ UNCHANGED <<running, beaten, sock, entry, online, faults, history>>

SweepAnnounce(i) ==
    /\ sweep[i].pc = "announce"
    /\ status' = "OFFLINE"
    /\ sweep' = [sweep EXCEPT ![i] = NoSweep]
    /\ UNCHANGED <<running, beaten, sock, entry, online, faults, history>>

\* A failed command or status write is caught and logged.
SweepFails(i) ==
    /\ sweep[i].pc # "idle"
    /\ faults < MaxFaults
    /\ faults' = faults + 1
    /\ exposed' = (exposed \/ sweep[i].pc = "announce")
    /\ lost' = 0
    /\ sweep' = [sweep EXCEPT ![i] = NoSweep]
    /\ UNCHANGED <<running, beaten, sock, entry, online, status>>

--------------------------------------------------------------------------------
(* Time and crashes.                                                        *)

\* The instance is killed: no handler of its sockets goes on or ever runs.
Crash(i) ==
    /\ i \in running
    /\ faults < MaxFaults
    /\ faults' = faults + 1
    /\ running' = running \ {i}
    /\ sock' = [s \in Sockets |-> IF Home[s] = i THEN Unused ELSE sock[s]]
    /\ exposed' = (exposed \/ sweep[i].pc = "announce"
                      \/ \E s \in Sockets : Home[s] = i /\ (sock[s].down = "announcing" \/ online = None))
    /\ lost' = 0
    /\ sweep' = [sweep EXCEPT ![i] = NoSweep]
    /\ UNCHANGED <<beaten, entry, online, status>>

Restart(i) ==
    /\ i \notin running
    /\ running' = running \cup {i}
    /\ UNCHANGED <<beaten, sock, entry, online, status, sweep, faults, history>>

\* An interval passes: every running instance sent its heartbeat and began its sweep
\* in it (it is a third of the time to live), and no sweep spans more than MaxLag.
\* The keys' own expiry, after twice the time to live, removes only stale members.
Tick ==
    /\ running \subseteq beaten
    /\ \A i \in running : ~Due(i)
    /\ \A i \in Instances : sweep[i].pc # "idle" => sweep[i].lag < MaxLag
    /\ beaten' = {}
    /\ entry' = [s \in Sockets |-> Older(entry[s])]
    /\ online' = Older(online)
    /\ sweep' = [i \in Instances |->
                    IF sweep[i].pc = "idle" THEN sweep[i] ELSE [sweep[i] EXCEPT !.lag = @ + 1]]
    /\ lost' = IF Absent /\ online # None /\ running # {} THEN IF lost > Soon THEN lost ELSE lost + 1 ELSE 0
    /\ UNCHANGED <<running, sock, status, faults, exposed>>

HandlerStep(s) ==
    \/ SocketConnected(s) \/ SetOnline(s)
    \/ SocketDisconnected(s) \/ Unlist(s) \/ SetOffline(s)

SweepStep(i) ==
    SweepSelect(i) \/ SweepPrune(i) \/ SweepClaim(i) \/ SweepAnnounce(i)

Next ==
    \/ Tick
    \/ \E s \in Sockets : Connect(s) \/ Disconnect(s) \/ HandlerStep(s) \/ ConnectFails(s) \/ DisconnectFails(s)
    \/ \E i \in Instances : Heartbeat(i) \/ SweepStep(i) \/ SweepFails(i) \/ Crash(i) \/ Restart(i)

Spec == Init /\ [][Next]_vars

--------------------------------------------------------------------------------
(* Properties.                                                              *)

\* A socket whose connect handler registered it and that is still open.
Live(s) == sock[s].open /\ sock[s].up = "idle"

\* A connected socket of a running instance is never pruned as if its instance
\* had crashed, by whichever connect, disconnect or sweep of another instance:
\* its score stays younger than the time to live.
LiveSocketKept ==
    \A s \in Sockets : Live(s) => entry[s] \in Nat /\ entry[s] < Ttl

\* However the user left, by disconnecting or with killed instances, the sweep of
\* some instance takes them out of the online set within the time to live and the
\* time a sweep takes.
GoneIsUnlisted == lost <= Soon

\* A user without sockets and out of the online set, whom no sweep looks at again, is
\* OFFLINE: also after a crash, a failed command or a failed sweep.  It takes one of
\* the windows in exposed to leave them ONLINE for good: the ONLINE of a connect is
\* written after the disconnect, an OFFLINE is lost after its claim, or an instance
\* is killed before the heartbeat that lists its user again.
GoneIsOffline ==
    Absent /\ online = None /\ (\A i \in Instances : sweep[i].pc # "announce") /\ ~exposed
        => status = "OFFLINE"
================================================================================
