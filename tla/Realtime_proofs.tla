---------------------------- MODULE Realtime_proofs ----------------------------
(***************************************************************************)
(* Proofs about presence and the call registry, for every number of        *)
(* instances, sockets, users and crashes and every time to live.           *)
(*                                                                         *)
(* Presence: no sweep prunes a live socket, a user who is gone is taken    *)
(* out of the online set in bounded time, and is OFFLINE in the end.       *)
(*                                                                         *)
(* Calls: a client in the call stays a participant, of two participants    *)
(* one offered a connection, who left is hidden, who was removed is told.  *)
(* Clients hang up during a join and call again during a leave; what then  *)
(* goes wrong is told apart by the histories late and remnant.             *)
(***************************************************************************)
EXTENDS Realtime, FiniteSetTheorems, TLAPS

Sock == [open : BOOLEAN,
         up : {"idle", "joining", "announcing"},
         down : {"idle", "leaving", "unlisting", "announcing"}]

\* An open socket belongs to a running instance and has not begun to disconnect.
\* Once registered it is never older than one interval, and new again as soon as
\* its instance sent the heartbeat of the interval.
Kept(s) ==
    sock[s].open => /\ Home[s] \in running
                    /\ sock[s].down = "idle"
                    /\ sock[s].up # "joining" => /\ entry[s] \in {0, 1}
                                                 /\ Home[s] \in beaten => entry[s] = 0

IInv == TypeOK /\ \A s \in Sockets : Kept(s)

LEMMA InitIInv == Init => IInv
<1> SUFFICES ASSUME Init PROVE IInv
  OBVIOUS
<1>1. Unused \in Sock /\ ~Unused.open /\ NoSweep \in [pc : {"idle", "prune", "claim", "announce"}, lag : 0 .. MaxLag]
  BY PresenceAssumption DEF Unused, Sock, NoSweep
<1>2. sock \in [Sockets -> Sock] /\ \A s \in Sockets : sock[s] = Unused
  BY <1>1 DEF Init
<1>3. TypeOK
  <2>1. sweep \in [Instances -> [pc : {"idle", "prune", "claim", "announce"}, lag : 0 .. MaxLag]]
    BY <1>1 DEF Init
  <2>2. /\ running \subseteq Instances /\ beaten \subseteq Instances
        /\ entry \in [Sockets -> Ages \cup {None}] /\ online \in Ages \cup {None}
        /\ status \in {"ONLINE", "OFFLINE"} /\ exposed \in BOOLEAN /\ lost \in Nat
    BY DEF Init
  <2>3. faults \in 0 .. MaxFaults
    BY PresenceAssumption DEF Init
  <2> QED
    BY <1>2, <2>1, <2>2, <2>3 DEF TypeOK, Sock
<1> QED
  BY <1>1, <1>2, <1>3 DEF IInv, Kept

\* Pruning takes only what is at least Ttl old.
LEMMA PrunedKeeps ==
    ASSUME NEW scores \in [Sockets -> Ages \cup {None}], NEW lag \in 0 .. MaxLag
    PROVE  /\ Pruned(scores, lag) \in [Sockets -> Ages \cup {None}]
           /\ \A s \in Sockets : scores[s] \in {0, 1} => Pruned(scores, lag)[s] = scores[s]
BY PresenceAssumption DEF Pruned

--------------------------------------------------------------------------------
\* A step of the handlers of s, which may prune and may change the entry of s.
LEMMA SocketStep ==
    ASSUME IInv, NEW s \in Sockets, NEW r \in Sock, sock' = [sock EXCEPT ![s] = r],
           UNCHANGED <<running, beaten, sweep>>,
           entry' \in [Sockets -> Ages \cup {None}], online' \in Ages \cup {None},
           status' \in {"ONLINE", "OFFLINE"}, faults' \in 0 .. MaxFaults, exposed' \in BOOLEAN, lost' \in Nat,
           \A t \in Sockets \ {s} : entry[t] \in {0, 1} => entry'[t] = entry[t],
           r.open => /\ Home[s] \in running /\ r.down = "idle"
                     /\ r.up # "joining" => /\ entry'[s] \in {0, 1}
                                            /\ Home[s] \in beaten => entry'[s] = 0
    PROVE  IInv'
<1>1. sock' \in [Sockets -> Sock] /\ \A t \in Sockets : sock'[t] = IF t = s THEN r ELSE sock[t]
  BY DEF IInv, TypeOK, Sock
<1>2. TypeOK'
  BY <1>1 DEF IInv, TypeOK, Sock
<1>3. ASSUME NEW t \in Sockets PROVE Kept(t)'
  <2>1. CASE t = s
    BY <2>1, <1>1 DEF Kept
  <2>2. CASE t # s
    <3>1. Kept(t) /\ sock'[t] = sock[t]
      BY <2>2, <1>1 DEF IInv
    <3> QED
      BY <2>2, <3>1 DEF Kept
  <2> QED
    BY <2>1, <2>2
<1> QED
  BY <1>2, <1>3 DEF IInv

LEMMA HandlerSteps ==
    ASSUME IInv, NEW s \in Sockets,
           Connect(s) \/ Disconnect(s) \/ HandlerStep(s) \/ ConnectFails(s) \/ DisconnectFails(s)
    PROVE  IInv'
<1> USE PresenceAssumption
<1>t. TypeOK /\ Kept(s) /\ sock[s] \in Sock
  BY DEF IInv, TypeOK, Sock
<1>a. 0 \in 0 .. MaxLag /\ 0 \in Ages
  BY DEF Ages, Oldest
<1>1. CASE Connect(s)
  <2> DEFINE r == [open |-> TRUE, up |-> "joining", down |-> "idle"]
  <2>1. r \in Sock /\ sock' = [sock EXCEPT ![s] = r]
    BY <1>1, <1>t DEF Connect, Unused, Sock, TypeOK
  <2> QED
    BY <1>1, <1>t, <2>1, SocketStep DEF Connect, TypeOK
<1>2. CASE SocketConnected(s)
  <2> DEFINE scores == [entry EXCEPT ![s] = 0]
             up == IF Count(Pruned(scores, 0)) = 1 THEN "announcing" ELSE "idle"
             r == [sock[s] EXCEPT !.up = up]
  <2>1. scores \in [Sockets -> Ages \cup {None}] /\ scores[s] = 0
        /\ \A t \in Sockets \ {s} : scores[t] = entry[t]
    BY <1>t, <1>a DEF TypeOK
  <2>2. entry' = Pruned(scores, 0)
    BY <1>2 DEF SocketConnected
  <2> HIDE DEF scores
  <2>3. /\ entry' \in [Sockets -> Ages \cup {None}] /\ entry'[s] = 0
        /\ \A t \in Sockets \ {s} : entry[t] \in {0, 1} => entry'[t] = entry[t]
    BY <2>1, <2>2, <1>a, PrunedKeeps
  <2>4. up \in {"announcing", "idle"}
    OBVIOUS
  <2>5. sock' = [sock EXCEPT ![s] = r]
    BY <1>2, <1>t DEF SocketConnected, TypeOK, scores
  <2> HIDE DEF up
  <2>6. r \in Sock /\ r.open = sock[s].open /\ r.down = sock[s].down
    BY <1>t, <2>4 DEF Sock
  <2> HIDE DEF r
  <2>7. r.open => Home[s] \in running /\ r.down = "idle"
    BY <1>t, <2>6 DEF Kept
  <2>8. /\ UNCHANGED <<running, beaten, sweep, status, faults, exposed, lost>>
        /\ online' \in Ages \cup {None}
    BY <1>2, <1>a DEF SocketConnected, history
  <2> QED
    BY <1>t, <2>3, <2>5, <2>6, <2>7, <2>8, SocketStep DEF TypeOK
<1>3. CASE SetOnline(s)
  <2> DEFINE r == [sock[s] EXCEPT !.up = "idle"]
  <2>1. r \in Sock /\ sock' = [sock EXCEPT ![s] = r] /\ r.open = sock[s].open /\ r.down = sock[s].down
    BY <1>3, <1>t DEF SetOnline, Sock, TypeOK
  <2>2. sock[s].up # "joining" /\ exposed' \in BOOLEAN
    BY <1>3, <1>t DEF SetOnline, TypeOK
  <2> HIDE DEF r
  <2>3. /\ UNCHANGED <<running, beaten, entry, online, sweep, faults, lost>>
        /\ status' \in {"ONLINE", "OFFLINE"}
    BY <1>3 DEF SetOnline
  <2>4. r.open => /\ Home[s] \in running /\ r.down = "idle"
                  /\ entry[s] \in {0, 1} /\ (Home[s] \in beaten => entry[s] = 0)
    BY <1>t, <2>1, <2>2 DEF Kept
  <2> QED
    BY <1>t, <2>1, <2>2, <2>3, <2>4, SocketStep DEF TypeOK
<1>4. CASE ConnectFails(s)
  <2> DEFINE r == [open |-> FALSE, up |-> "idle", down |-> IF sock[s].open THEN "leaving" ELSE sock[s].down]
  <2>1. r \in Sock
    BY <1>t DEF Sock
  <2>2. sock' = [sock EXCEPT ![s] = r]
    BY <1>4, <1>t DEF ConnectFails, TypeOK
  <2>3. /\ faults' \in 0 .. MaxFaults /\ status' \in {"ONLINE", "OFFLINE"}
    BY <1>4, <1>t DEF ConnectFails, TypeOK
  <2>4. exposed' \in BOOLEAN
    BY <1>4, <1>t DEF ConnectFails, TypeOK
  <2> QED
    BY <1>4, <1>t, <2>1, <2>2, <2>3, <2>4, SocketStep DEF ConnectFails, TypeOK
<1>5. CASE Disconnect(s)
  <2> DEFINE r == [[sock[s] EXCEPT !.open = FALSE] EXCEPT !.down = "leaving"]
  <2>1. r \in Sock /\ sock' = [sock EXCEPT ![s] = r] /\ ~r.open
    BY <1>5, <1>t DEF Disconnect, Sock, TypeOK
  <2> QED
    BY <1>5, <1>t, <2>1, SocketStep DEF Disconnect, TypeOK, history
<1>6. CASE SocketDisconnected(s)
  <2> DEFINE scores == [entry EXCEPT ![s] = None]
             down == IF Count(Pruned(scores, 0)) = 0 THEN "unlisting" ELSE "idle"
             r == [sock[s] EXCEPT !.down = down]
  <2>1. scores \in [Sockets -> Ages \cup {None}] /\ \A t \in Sockets \ {s} : scores[t] = entry[t]
    BY <1>t DEF TypeOK
  <2>2. entry' = Pruned(scores, 0)
    BY <1>6 DEF SocketDisconnected
  <2> HIDE DEF scores
  <2>3. /\ entry' \in [Sockets -> Ages \cup {None}]
        /\ \A t \in Sockets \ {s} : entry[t] \in {0, 1} => entry'[t] = entry[t]
    BY <2>1, <2>2, <1>a, PrunedKeeps
  <2>4. down \in {"unlisting", "idle"} /\ ~sock[s].open
    BY <1>6, <1>t DEF SocketDisconnected, Kept
  <2>5. sock' = [sock EXCEPT ![s] = r]
    BY <1>6, <1>t DEF SocketDisconnected, TypeOK, scores
  <2> HIDE DEF down
  <2>6. r \in Sock /\ ~r.open
    BY <1>t, <2>4 DEF Sock
  <2> HIDE DEF r
  <2> QED
    BY <1>6, <1>t, <2>3, <2>5, <2>6, SocketStep DEF SocketDisconnected, TypeOK, history
<1>7. CASE Unlist(s) \/ SetOffline(s) \/ DisconnectFails(s)
  <2>1. PICK down \in {"idle", "announcing"} : sock' = [sock EXCEPT ![s].down = down]
    BY <1>7 DEF Unlist, SetOffline, DisconnectFails
  <2> DEFINE r == [sock[s] EXCEPT !.down = down]
  <2>2. ~sock[s].open
    BY <1>7, <1>t DEF Unlist, SetOffline, DisconnectFails, Kept
  <2>3. r \in Sock /\ sock' = [sock EXCEPT ![s] = r] /\ ~r.open
    BY <2>1, <2>2, <1>t DEF Sock, TypeOK
  <2> HIDE DEF r
  <2>4. /\ online' \in Ages \cup {None} /\ status' \in {"ONLINE", "OFFLINE"} /\ faults' \in 0 .. MaxFaults
        /\ lost' \in Nat /\ UNCHANGED <<running, beaten, sweep, entry>>
    BY <1>7, <1>t DEF Unlist, SetOffline, DisconnectFails, TypeOK, history
  <2>5. exposed' \in BOOLEAN
    BY <1>7, <1>t DEF Unlist, SetOffline, DisconnectFails, TypeOK, history
  <2> QED
    BY <1>t, <2>3, <2>4, <2>5, SocketStep DEF TypeOK
<1> QED
  BY <1>1, <1>2, <1>3, <1>4, <1>5, <1>6, <1>7 DEF HandlerStep

--------------------------------------------------------------------------------
\* A step that leaves the sockets alone.
LEMMA QuietStep ==
    ASSUME IInv, UNCHANGED <<sock, beaten>>, running \subseteq running', running' \subseteq Instances,
           entry' \in [Sockets -> Ages \cup {None}],
           \A t \in Sockets : entry[t] \in {0, 1} => entry'[t] = entry[t],
           online' \in Ages \cup {None}, status' \in {"ONLINE", "OFFLINE"},
           sweep' \in [Instances -> [pc : {"idle", "prune", "claim", "announce"}, lag : 0 .. MaxLag]],
           faults' \in 0 .. MaxFaults, exposed' \in BOOLEAN, lost' \in Nat
    PROVE  IInv'
<1>1. TypeOK'
  BY DEF IInv, TypeOK
<1>2. ASSUME NEW t \in Sockets PROVE Kept(t)'
  <2>1. Kept(t)
    BY DEF IInv
  <2> QED
    BY <2>1 DEF Kept
<1> QED
  BY <1>1, <1>2 DEF IInv

LEMMA SweepSteps ==
    ASSUME IInv, NEW i \in Instances, SweepStep(i) \/ SweepFails(i)
    PROVE  IInv'
<1> USE PresenceAssumption
<1> DEFINE Sweep == [pc : {"idle", "prune", "claim", "announce"}, lag : 0 .. MaxLag]
<1>t. TypeOK /\ sweep \in [Instances -> Sweep] /\ NoSweep \in Sweep
  BY DEF IInv, TypeOK, NoSweep
<1>1. UNCHANGED <<sock, beaten, running>>
  BY DEF SweepStep, SweepSelect, SweepPrune, SweepClaim, SweepAnnounce, SweepFails, history
<1>2. entry' \in [Sockets -> Ages \cup {None}] /\ \A t \in Sockets : entry[t] \in {0, 1} => entry'[t] = entry[t]
  <2>1. CASE SweepPrune(i)
    <3>1. sweep[i].lag \in 0 .. MaxLag /\ entry' = Pruned(entry, sweep[i].lag)
      BY <2>1, <1>t DEF SweepPrune
    <3> QED
      BY <3>1, <1>t, PrunedKeeps DEF TypeOK
  <2>2. CASE UNCHANGED entry
    BY <2>2, <1>t DEF TypeOK
  <2> QED
    BY <2>1, <2>2 DEF SweepStep, SweepSelect, SweepClaim, SweepAnnounce, SweepFails
<1>3. sweep' \in [Instances -> Sweep]
  <2>1. ASSUME NEW pc \in {"prune", "claim", "announce"} PROVE [sweep[i] EXCEPT !.pc = pc] \in Sweep
    BY <1>t
  <2>2. [pc |-> "prune", lag |-> 0] \in Sweep
    OBVIOUS
  <2>3. \E r \in Sweep : sweep' = [sweep EXCEPT ![i] = r]
    <3>1. CASE SweepSelect(i)
      BY <3>1, <2>2 DEF SweepSelect
    <3>2. CASE SweepPrune(i)
      BY <3>2, <2>1, <1>t DEF SweepPrune
    <3>3. CASE SweepClaim(i)
      BY <3>3, <2>1, <1>t DEF SweepClaim
    <3>4. CASE SweepAnnounce(i) \/ SweepFails(i)
      BY <3>4, <1>t DEF SweepAnnounce, SweepFails
    <3> QED
      BY <3>1, <3>2, <3>3, <3>4 DEF SweepStep
  <2> QED
    BY <2>3, <1>t
<1>4. /\ online' \in Ages \cup {None} /\ status' \in {"ONLINE", "OFFLINE"} /\ faults' \in 0 .. MaxFaults
      /\ lost' \in Nat
  BY <1>t DEF SweepStep, SweepSelect, SweepPrune, SweepClaim, SweepAnnounce, SweepFails, history, TypeOK
<1>5. exposed' \in BOOLEAN
  BY <1>t DEF SweepStep, SweepSelect, SweepPrune, SweepClaim, SweepAnnounce, SweepFails, history, TypeOK
<1> QED
  BY <1>t, <1>1, <1>2, <1>3, <1>4, <1>5, QuietStep DEF TypeOK

\* The heartbeat refreshes what is open, and a crash takes its sockets with it.
LEMMA InstanceSteps ==
    ASSUME IInv, NEW i \in Instances, Heartbeat(i) \/ Crash(i) \/ Restart(i)
    PROVE  IInv'
<1> USE PresenceAssumption
<1>t. TypeOK /\ 0 \in Ages
  BY DEF IInv, Ages, Oldest
<1>1. CASE Restart(i)
  BY <1>1, <1>t, QuietStep DEF Restart, history, TypeOK
<1>2. CASE Heartbeat(i)
  <2> DEFINE mine == {s \in Sockets : Home[s] = i /\ sock[s].open}
  <2>1. /\ entry' = [s \in Sockets |-> IF s \in mine THEN 0 ELSE entry[s]]
        /\ beaten' = beaten \cup {i} /\ online' \in {0, online}
        /\ UNCHANGED <<running, sock, status, sweep, faults, exposed, lost>>
    BY <1>2 DEF Heartbeat, history
  <2>2. TypeOK'
    BY <2>1, <1>t DEF TypeOK
  <2>3. ASSUME NEW s \in Sockets PROVE Kept(s)'
    <3>1. Kept(s)
      BY DEF IInv
    <3> QED
      BY <3>1, <2>1 DEF Kept
  <2> QED
    BY <2>2, <2>3 DEF IInv
<1>3. CASE Crash(i)
  <2>1. /\ sock' = [s \in Sockets |-> IF Home[s] = i THEN Unused ELSE sock[s]]
        /\ running' = running \ {i} /\ sweep' = [sweep EXCEPT ![i] = NoSweep]
        /\ faults' \in 0 .. MaxFaults /\ lost' = 0
        /\ UNCHANGED <<beaten, entry, online, status>>
    BY <1>3, <1>t DEF Crash, TypeOK
  <2>2. exposed' \in BOOLEAN
    BY <1>3, <1>t DEF Crash, TypeOK
  <2>3. Unused \in Sock /\ ~Unused.open /\ NoSweep \in [pc : {"idle", "prune", "claim", "announce"}, lag : 0 .. MaxLag]
    BY DEF Unused, Sock, NoSweep
  <2>4. sock' \in [Sockets -> Sock]
    BY <2>1, <2>3, <1>t DEF TypeOK, Sock
  <2>5. TypeOK'
    BY <2>1, <2>2, <2>3, <2>4, <1>t DEF TypeOK, Sock
  <2>6. ASSUME NEW s \in Sockets PROVE Kept(s)'
    <3>1. Kept(s)
      BY DEF IInv
    <3>2. CASE Home[s] = i
      BY <3>2, <2>1, <2>3 DEF Kept
    <3>3. CASE Home[s] # i
      BY <3>1, <3>3, <2>1 DEF Kept
    <3> QED
      BY <3>2, <3>3
  <2> QED
    BY <2>5, <2>6 DEF IInv
<1> QED
  BY <1>1, <1>2, <1>3

\* An interval passes: what is open was refreshed in it, and is one interval old.
LEMMA TickStep == IInv /\ Tick => IInv'
<1> SUFFICES ASSUME IInv, Tick PROVE IInv'
  OBVIOUS
<1> USE PresenceAssumption
<1>t. TypeOK
  BY DEF IInv
<1>1. \A age \in Ages \cup {None} : Older(age) \in Ages \cup {None} /\ (age = 0 => Older(age) = 1)
  BY DEF Older, Ages, Oldest
<1>2. entry' \in [Sockets -> Ages \cup {None}] /\ online' \in Ages \cup {None}
      /\ \A s \in Sockets : entry'[s] = Older(entry[s])
  BY <1>1, <1>t DEF Tick, TypeOK
<1>3. sweep' \in [Instances -> [pc : {"idle", "prune", "claim", "announce"}, lag : 0 .. MaxLag]]
  <2>1. ASSUME NEW i \in Instances, sweep[i].pc # "idle"
        PROVE  [sweep[i] EXCEPT !.lag = @ + 1] \in [pc : {"idle", "prune", "claim", "announce"}, lag : 0 .. MaxLag]
    <3>1. sweep[i].lag + 1 \in 0 .. MaxLag
      BY <2>1, <1>t DEF Tick, TypeOK
    <3> QED
      BY <3>1, <1>t DEF TypeOK
  <2> QED
    BY <2>1, <1>t DEF Tick, TypeOK
<1>4. lost' \in Nat
  BY <1>t DEF Tick, TypeOK
<1>5. TypeOK'
  BY <1>2, <1>3, <1>4, <1>t DEF Tick, TypeOK
<1>6. ASSUME NEW s \in Sockets PROVE Kept(s)'
  <2>1. Kept(s)
    BY DEF IInv
  <2>2. running \subseteq beaten /\ beaten' = {} /\ UNCHANGED <<running, sock>>
    BY DEF Tick
  <2> QED
    BY <1>1, <1>2, <1>t, <2>1, <2>2 DEF Kept, TypeOK
<1> QED
  BY <1>5, <1>6 DEF IInv

LEMMA NextStep == IInv /\ [Next]_vars => IInv'
<1> SUFFICES ASSUME IInv, [Next]_vars PROVE IInv'
  OBVIOUS
<1>1. CASE Tick
  BY <1>1, TickStep
<1>2. ASSUME NEW s \in Sockets,
             Connect(s) \/ Disconnect(s) \/ HandlerStep(s) \/ ConnectFails(s) \/ DisconnectFails(s)
      PROVE  IInv'
  BY <1>2, HandlerSteps
<1>3. ASSUME NEW i \in Instances, SweepStep(i) \/ SweepFails(i) PROVE IInv'
  BY <1>3, SweepSteps
<1>4. ASSUME NEW i \in Instances, Heartbeat(i) \/ Crash(i) \/ Restart(i) PROVE IInv'
  BY <1>4, InstanceSteps
<1>5. CASE UNCHANGED vars
  BY <1>5, QuietStep DEF vars, history, IInv, TypeOK
<1> QED
  BY <1>1, <1>2, <1>3, <1>4, <1>5 DEF Next

----------------------------------------------------------------------

--------------------------------------------------------------------------------
(* A user who is gone.                                                      *)

\* While the ONLINE of an unlisted user can be trusted to the rest, a disconnect
\* or a sweep is about to write OFFLINE.
OfflineIsDue ==
    ~exposed /\ online = None /\ status = "ONLINE" =>
        \/ \E s \in Sockets : sock[s].down = "announcing"
        \/ \E i \in Instances : sweep[i].pc = "announce"

Longest == IF MaxLag > Ttl THEN MaxLag ELSE Ttl

\* The sweep of i finds nobody left, unless it began before the user left.
PrunesAll(i) == \A s \in Sockets : entry[s] \in Nat => entry[s] >= Ttl + sweep[i].lag

SweepFits(i) ==
    /\ sweep[i].pc = "prune" => PrunesAll(i) \/ sweep[i].lag >= lost
    /\ sweep[i].pc = "announce" => online = None \/ sweep[i].lag >= lost

\* The user is no younger than they are gone, none of their sockets younger than they,
\* and from the moment every sweep finds them gone there is one that will say so.
GoneFits ==
    /\ lost > 0 => Absent /\ running # {} /\ (online # None => online >= lost \/ online = Oldest)
    /\ online \in Nat => \A s \in Sockets : entry[s] \in Nat => entry[s] >= online
    /\ \A i \in Instances : SweepFits(i)
    /\ lost > Longest /\ online # None =>
         \E i \in running : sweep[i].pc \in {"prune", "claim"} /\ sweep[i].lag >= lost - Longest
    /\ lost <= Soon

PresenceIInv == IInv /\ OfflineIsDue /\ GoneFits

LEMMA OfflineSteps ==
    ASSUME IInv, OfflineIsDue, [Next]_vars
    PROVE  OfflineIsDue'
<1> USE PresenceAssumption DEF history, OfflineIsDue
<1>t. TypeOK /\ \A s \in Sockets : Kept(s)
  BY DEF IInv
<1>1. ASSUME NEW s \in Sockets,
             Connect(s) \/ Disconnect(s) \/ HandlerStep(s) \/ ConnectFails(s) \/ DisconnectFails(s)
      PROVE  OfflineIsDue'
  <2>1. \A t \in Sockets : t # s => sock'[t] = sock[t]
    BY <1>1, <1>t DEF TypeOK, Connect, Disconnect, HandlerStep, SocketConnected, SetOnline, SocketDisconnected, Unlist,
         SetOffline, ConnectFails, DisconnectFails
  <2>2. UNCHANGED sweep
    BY <1>1 DEF Connect, Disconnect, HandlerStep, SocketConnected, SetOnline, SocketDisconnected, Unlist, SetOffline,
         ConnectFails, DisconnectFails
  <2>3. CASE Connect(s)
    <3>1. sock[s].down = "idle" /\ UNCHANGED <<online, status, exposed>>
      BY <2>3 DEF Connect, Unused
    <3> QED
      BY <2>1, <2>2, <3>1
  <2>4. CASE SocketConnected(s)
    BY <2>4, <1>t DEF SocketConnected
  <2>5. CASE SetOnline(s)
    BY <2>1, <2>2, <2>5, <1>t DEF SetOnline, TypeOK
  <2>6. CASE ConnectFails(s)
    <3>1. sock[s].down = "announcing" => sock'[s].down = "announcing"
      BY <2>6, <1>t DEF ConnectFails, TypeOK, Kept
    <3>2. ~exposed' => ~exposed /\ (status' = status \/ online # None)
      BY <2>6, <1>t DEF ConnectFails, TypeOK
    <3>3. UNCHANGED online
      BY <2>6 DEF ConnectFails
    <3> QED
      BY <2>1, <2>2, <3>1, <3>2, <3>3
  <2>7. CASE Disconnect(s)
    BY <2>1, <2>2, <2>7, <1>t DEF Disconnect, Kept
  <2>8. CASE SocketDisconnected(s)
    BY <2>1, <2>2, <2>8, <1>t DEF SocketDisconnected
  <2>9. CASE Unlist(s)
    BY <2>9, <1>t DEF Unlist, TypeOK
  <2>10. CASE SetOffline(s)
    BY <2>10 DEF SetOffline
  <2>11. CASE DisconnectFails(s)
    <3>1. ~exposed' => ~exposed /\ sock[s].down # "announcing"
      BY <2>11, <1>t DEF DisconnectFails, TypeOK
    <3>2. UNCHANGED <<online, status>>
      BY <2>11 DEF DisconnectFails
    <3> QED
      BY <2>1, <2>2, <3>1, <3>2
  <2> QED
    BY <1>1, <2>3, <2>4, <2>5, <2>6, <2>7, <2>8, <2>9, <2>10, <2>11 DEF HandlerStep
<1>2. ASSUME NEW i \in Instances, SweepStep(i) \/ SweepFails(i) PROVE OfflineIsDue'
  <2>1. UNCHANGED sock /\ \A j \in Instances : j # i => sweep'[j] = sweep[j]
    BY <1>2, <1>t DEF TypeOK, SweepStep, SweepSelect, SweepPrune, SweepClaim, SweepAnnounce, SweepFails
  <2>2. CASE SweepSelect(i) \/ SweepPrune(i)
    <3>1. sweep[i].pc # "announce" /\ UNCHANGED <<online, status, exposed>>
      BY <2>2 DEF SweepSelect, SweepPrune, Due
    <3> QED
      BY <2>1, <3>1
  <2>3. CASE SweepClaim(i)
    <3>1. sweep[i].pc = "claim" /\ UNCHANGED <<status, exposed>> /\ online' = None
          /\ (online # None => sweep'[i].pc = "announce")
      BY <2>3, <1>t DEF SweepClaim, TypeOK
    <3> QED
      BY <2>1, <3>1
  <2>4. CASE SweepAnnounce(i)
    BY <2>4 DEF SweepAnnounce
  <2>5. CASE SweepFails(i)
    <3>1. ~exposed' => ~exposed /\ sweep[i].pc # "announce"
      BY <2>5, <1>t DEF SweepFails, TypeOK
    <3>2. UNCHANGED <<online, status>>
      BY <2>5 DEF SweepFails
    <3> QED
      BY <2>1, <3>1, <3>2
  <2> QED
    BY <1>2, <2>2, <2>3, <2>4, <2>5 DEF SweepStep
<1>3. ASSUME NEW i \in Instances, Heartbeat(i) PROVE OfflineIsDue'
  BY <1>3, <1>t DEF Heartbeat
<1>4. ASSUME NEW i \in Instances, Restart(i) PROVE OfflineIsDue'
  BY <1>4 DEF Restart
<1>5. ASSUME NEW i \in Instances, Crash(i) PROVE OfflineIsDue'
  <2>1. ~exposed' /\ online = None => ~exposed /\ sweep[i].pc # "announce" /\ \A s \in Sockets : Home[s] # i
    BY <1>5, <1>t DEF Crash, TypeOK
  <2>2. UNCHANGED <<online, status>>
    BY <1>5 DEF Crash
  <2>3. /\ \A s \in Sockets : Home[s] # i => sock'[s] = sock[s]
        /\ \A j \in Instances : j # i => sweep'[j] = sweep[j]
    BY <1>5, <1>t DEF Crash, TypeOK
  <2> QED
    BY <2>1, <2>2, <2>3
<1>6. CASE Tick
  <2>1. UNCHANGED <<sock, status, exposed>> /\ (online' = None => online = None)
    BY <1>6, <1>t DEF Tick, TypeOK, Older, Ages, Oldest
  <2>2. \A j \in Instances : sweep'[j].pc = sweep[j].pc
    BY <1>6, <1>t DEF Tick, TypeOK
  <2> QED
    BY <2>1, <2>2
<1>7. CASE UNCHANGED vars
  BY <1>7 DEF vars
<1> QED
  BY <1>1, <1>2, <1>3, <1>4, <1>5, <1>6, <1>7 DEF Next

\* An expired set of sockets is pruned to nothing.
LEMMA PrunedToNothing ==
    ASSUME NEW lag \in Nat, \A s \in Sockets : entry[s] \in Nat => entry[s] >= Ttl + lag, IInv
    PROVE  Count(Pruned(entry, lag)) = 0
<1>1. \A s \in Sockets : Pruned(entry, lag)[s] = None
  BY PresenceAssumption DEF Pruned, IInv, TypeOK, Ages, Oldest
<1>2. {s \in Sockets : Pruned(entry, lag)[s] # None} = {}
  BY <1>1
<1> QED
  BY <1>2, FS_EmptySet DEF Count

LEMMA OlderGrows ==
    /\ Older(None) = None
    /\ \A age \in Ages : /\ Older(age) \in Ages
                         /\ Older(age) = Oldest \/ Older(age) = age + 1
                         /\ \A younger \in Ages : younger <= age => Older(younger) <= Older(age)
BY PresenceAssumption DEF Older, Ages, Oldest

\* A handler of a socket starts the count again, or there is nobody to count.
LEMMA GoneHandlerSteps ==
    ASSUME IInv, GoneFits, IInv', NEW s \in Sockets,
           Connect(s) \/ Disconnect(s) \/ HandlerStep(s) \/ ConnectFails(s) \/ DisconnectFails(s)
    PROVE  GoneFits'
<1> USE PresenceAssumption DEF history
<1>t. TypeOK /\ TypeOK' /\ Kept(s)
  BY DEF IInv
<1>1. lost' = 0
  <2>1. CASE Connect(s)
    BY <2>1 DEF Connect
  <2>2. CASE ~Connect(s)
    <3>1. sock[s] # Unused
      BY <2>2 DEF Unused, Disconnect, HandlerStep, SocketConnected, SetOnline, SocketDisconnected, Unlist, SetOffline,
           ConnectFails, DisconnectFails
    <3>2. UNCHANGED lost
      BY <2>2 DEF Disconnect, HandlerStep, SocketConnected, SetOnline, SocketDisconnected, Unlist, SetOffline,
           ConnectFails, DisconnectFails
    <3> QED
      BY <1>t, <3>1, <3>2 DEF GoneFits, Absent, TypeOK
  <2> QED
    BY <2>1, <2>2
<1>2. UNCHANGED sweep
  BY DEF Connect, Disconnect, HandlerStep, SocketConnected, SetOnline, SocketDisconnected, Unlist, SetOffline,
         ConnectFails, DisconnectFails
<1>3. online' \in Nat => \A t \in Sockets : entry'[t] \in Nat => entry'[t] >= online'
  <2>1. CASE SocketConnected(s)
    BY <2>1, <1>t DEF SocketConnected, TypeOK, Ages, Oldest
  <2>2. CASE SocketDisconnected(s)
    BY <2>2, <1>t DEF SocketDisconnected, Pruned, TypeOK, Ages, Oldest, GoneFits
  <2>3. CASE Unlist(s)
    BY <2>3 DEF Unlist
  <2>4. CASE UNCHANGED <<entry, online>>
    BY <2>4 DEF GoneFits
  <2> QED
    BY <2>1, <2>2, <2>3, <2>4 DEF Connect, Disconnect, HandlerStep, SetOnline, SetOffline, ConnectFails, DisconnectFails
<1>4. \A i \in Instances : SweepFits(i)'
  BY <1>1, <1>2, <1>t DEF SweepFits, TypeOK
<1> QED
  BY <1>1, <1>3, <1>4 DEF GoneFits, Longest, Soon

LEMMA GoneSweepSteps ==
    ASSUME IInv, GoneFits, IInv', NEW i \in Instances, SweepStep(i) \/ SweepFails(i)
    PROVE  GoneFits'
<1> USE PresenceAssumption DEF history
<1>t. TypeOK /\ TypeOK'
  BY DEF IInv
<1>u. lost \in Nat /\ lost' \in Nat /\ MaxLag \in Nat /\ Ttl \in Nat /\ sweep[i].lag \in 0 .. MaxLag
  BY <1>t DEF TypeOK
<1>1. UNCHANGED <<sock, running>> /\ \A j \in Instances : j # i => sweep'[j] = sweep[j]
  BY <1>t DEF TypeOK, SweepStep, SweepSelect, SweepPrune, SweepClaim, SweepAnnounce, SweepFails
<1>2. lost' \in {0, lost} /\ online' \in {None, online}
  BY DEF SweepStep, SweepSelect, SweepPrune, SweepClaim, SweepAnnounce, SweepFails
<1>3. \A s \in Sockets : entry'[s] \in {entry[s], None}
  BY DEF SweepStep, SweepSelect, SweepPrune, SweepClaim, SweepAnnounce, SweepFails, Pruned
<1>4. \A j \in Instances : j # i => SweepFits(j)'
  BY <1>t, <1>u, <1>1, <1>2, <1>3 DEF GoneFits, SweepFits, PrunesAll, TypeOK
<1>5. /\ lost' > 0 => Absent' /\ running' # {} /\ (online' # None => online' >= lost' \/ online' = Oldest)
      /\ online' \in Nat => \A s \in Sockets : entry'[s] \in Nat => entry'[s] >= online'
      /\ lost' <= Soon
  BY <1>u, <1>1, <1>2, <1>3 DEF GoneFits, Absent, Soon
<1>6. ASSUME lost' > Longest, online' # None,
             NEW k \in running, sweep[k].pc \in {"prune", "claim"}, sweep[k].lag >= lost - Longest
      PROVE  sweep'[k].pc \in {"prune", "claim"} /\ sweep'[k].lag >= lost' - Longest
  <2>0. lost' = lost /\ lost > Longest /\ Longest >= MaxLag /\ Longest \in Nat /\ k \in Instances
    BY <1>2, <1>6, <1>u, <1>t DEF Longest, TypeOK
  <2>1. CASE k # i
    BY <1>1, <1>6, <2>0, <2>1
  <2>2. CASE k = i
    <3>1. CASE SweepPrune(i)
      <4>1. PrunesAll(i)
        BY <1>u, <2>0, <3>1 DEF GoneFits, SweepFits, SweepPrune
      <4>2. ~(Count(Pruned(entry, sweep[i].lag)) > 0)
        BY <1>u, <4>1, PrunedToNothing DEF PrunesAll
      <4>3. sweep' = [sweep EXCEPT ![i] = [@ EXCEPT !.pc = "claim"]]
        BY <3>1, <4>2 DEF SweepPrune
      <4> QED
        BY <1>6, <1>t, <2>0, <2>2, <4>3 DEF TypeOK
    <3>2. CASE SweepClaim(i)
      BY <3>2, <1>6 DEF SweepClaim
    <3>3. CASE SweepSelect(i) \/ SweepAnnounce(i)
      BY <3>3, <2>2, <1>6 DEF SweepSelect, Due, SweepAnnounce
    <3>4. CASE SweepFails(i)
      BY <3>4, <2>0 DEF SweepFails, Longest
    <3> QED
      BY <3>1, <3>2, <3>3, <3>4 DEF SweepStep
  <2> QED
    BY <2>1, <2>2
<1>7. lost' > Longest /\ online' # None =>
        \E k \in running' : sweep'[k].pc \in {"prune", "claim"} /\ sweep'[k].lag >= lost' - Longest
  <2>1. lost' > Longest /\ online' # None => lost > Longest /\ online # None
    BY <1>2, <1>u DEF Longest
  <2> QED
    BY <1>1, <1>6, <2>1 DEF GoneFits
<1>8. SweepFits(i)'
  <2>1. CASE SweepSelect(i)
    <3>1. sweep'[i] = [pc |-> "prune", lag |-> 0] /\ UNCHANGED entry /\ online \in Nat /\ online >= Ttl
      BY <2>1, <1>t DEF SweepSelect, Due, TypeOK
    <3> QED
      BY <3>1, <1>u DEF SweepFits, PrunesAll, GoneFits
  <2>2. CASE SweepClaim(i)
    <3>1. online' = None /\ sweep'[i].pc # "prune"
      BY <2>2, <1>t DEF SweepClaim, TypeOK, NoSweep
    <3> QED
      BY <3>1 DEF SweepFits
  <2>3. CASE SweepPrune(i)
    <3>1. sweep'[i].pc \in {"idle", "claim"}
      BY <2>3, <1>t DEF SweepPrune, TypeOK, NoSweep
    <3> QED
      BY <3>1 DEF SweepFits
  <2>4. CASE SweepAnnounce(i) \/ SweepFails(i)
    <3>1. sweep'[i].pc = "idle"
      BY <2>4, <1>t DEF SweepAnnounce, SweepFails, TypeOK, NoSweep
    <3> QED
      BY <3>1 DEF SweepFits
  <2> QED
    BY <2>1, <2>2, <2>3, <2>4 DEF SweepStep
<1> QED
  BY <1>4, <1>5, <1>7, <1>8 DEF GoneFits

LEMMA GoneInstanceSteps ==
    ASSUME IInv, GoneFits, IInv', NEW i \in Instances, Heartbeat(i) \/ Crash(i) \/ Restart(i)
    PROVE  GoneFits'
<1> USE PresenceAssumption DEF history
<1>t. TypeOK /\ TypeOK'
  BY DEF IInv
<1>u. 0 <= Soon /\ ~(0 > Longest) /\ ~(0 > 0)
  BY DEF Soon, Longest
<1>1. CASE Restart(i)
  BY <1>1 DEF Restart, GoneFits, SweepFits, PrunesAll, Absent
<1>2. CASE Crash(i)
  <2>1. lost' = 0 /\ UNCHANGED <<entry, online>>
    BY <1>2 DEF Crash
  <2>2. \A j \in Instances : SweepFits(j)'
    BY <1>t, <2>1 DEF SweepFits, TypeOK
  <2> QED
    BY <1>u, <2>1, <2>2 DEF GoneFits
<1>3. CASE Heartbeat(i)
  <2> DEFINE mine == {s \in Sockets : Home[s] = i /\ sock[s].open}
  <2>1. /\ entry' = [s \in Sockets |-> IF s \in mine THEN 0 ELSE entry[s]]
        /\ online' = IF mine # {} THEN 0 ELSE online
        /\ UNCHANGED <<running, sock, sweep, lost>>
    BY <1>3 DEF Heartbeat
  <2>2. CASE mine = {}
    <3>1. UNCHANGED <<entry, online>>
      BY <1>t, <2>1, <2>2 DEF TypeOK
    <3> QED
      BY <2>1, <3>1 DEF GoneFits, SweepFits, PrunesAll, Absent
  <2>3. CASE mine # {}
    <3>1. lost' = 0
      BY <1>t, <2>1, <2>3 DEF GoneFits, Absent, Unused, TypeOK
    <3>2. \A j \in Instances : SweepFits(j)'
      BY <1>t, <3>1 DEF SweepFits, TypeOK
    <3>3. online' = 0 /\ \A s \in Sockets : entry'[s] \in Nat => entry'[s] >= 0
      BY <2>1, <2>3
    <3> QED
      BY <1>u, <3>1, <3>2, <3>3 DEF GoneFits
  <2> QED
    BY <2>2, <2>3
<1> QED
  BY <1>1, <1>2, <1>3

LEMMA GoneTickStep ==
    ASSUME IInv, GoneFits, IInv', Tick
    PROVE  GoneFits'
<1> USE PresenceAssumption
<1>t. TypeOK /\ TypeOK'
  BY DEF IInv
<1>u. /\ lost \in Nat /\ Longest \in Nat /\ Longest >= Ttl /\ Longest >= MaxLag /\ Soon = Longest + MaxLag
      /\ Oldest = Ttl + MaxLag /\ lost <= Soon /\ Ttl \in Nat /\ MaxLag \in Nat
  BY <1>t DEF TypeOK, Longest, Soon, Oldest, GoneFits
<1>1. UNCHANGED <<sock, running>> /\ \A s \in Sockets : entry'[s] = Older(entry[s])
  BY DEF Tick
<1>2. online' = Older(online) /\ (online' = None <=> online = None)
  BY <1>t, OlderGrows DEF Tick, TypeOK, Ages, Oldest
<1>3. \A i \in Instances : /\ sweep'[i].pc = sweep[i].pc
                           /\ sweep[i].pc # "idle" => sweep[i].lag < MaxLag /\ sweep'[i].lag = sweep[i].lag + 1
                           /\ sweep[i].lag \in 0 .. MaxLag
  BY <1>t DEF Tick, TypeOK
<1>4. \/ lost' = 0
      \/ lost' = lost + 1 /\ Absent /\ online # None /\ running # {}
  BY <1>u DEF Tick
<1>5. lost' > 0 => online' >= lost' \/ online' = Oldest
  <2>1. ASSUME lost' = lost + 1, online # None PROVE online' >= lost' \/ online' = Oldest
    <3>1. online \in Ages /\ (online >= lost \/ online = Oldest)
      BY <1>t, <1>u, <2>1 DEF TypeOK, GoneFits, Ages
    <3> QED
      BY <1>2, <1>u, <2>1, <3>1 DEF Older, Ages
  <2> QED
    BY <1>4, <2>1
<1>6. online' \in Nat => \A s \in Sockets : entry'[s] \in Nat => entry'[s] >= online'
  <2>1. ASSUME online' \in Nat, NEW s \in Sockets, entry'[s] \in Nat PROVE entry'[s] >= online'
    <3>1. online \in Ages /\ entry[s] \in Ages
      BY <1>1, <1>2, <2>1, <1>t, OlderGrows DEF TypeOK
    <3>2. online <= entry[s]
      BY <3>1 DEF GoneFits, Ages
    <3> QED
      BY <1>1, <1>2, <3>1, <3>2, OlderGrows DEF Ages
  <2> QED
    BY <2>1
<1>7. ASSUME NEW i \in Instances PROVE SweepFits(i)'
  <2>1. SweepFits(i)
    BY DEF GoneFits
  <2>2. CASE sweep[i].pc = "prune" /\ PrunesAll(i)
    <3>1. ASSUME NEW s \in Sockets, entry'[s] \in Nat PROVE entry'[s] >= Ttl + sweep'[i].lag
      <4>1. entry[s] \in Ages
        BY <1>1, <3>1, <1>t, OlderGrows DEF TypeOK
      <4>2. entry[s] >= Ttl + sweep[i].lag
        BY <2>2, <4>1 DEF PrunesAll, Ages
      <4> QED
        BY <1>1, <1>3, <1>u, <2>2, <4>1, <4>2, OlderGrows DEF Ages
    <3> QED
      BY <1>3, <2>2, <3>1 DEF SweepFits, PrunesAll
  <2>3. CASE sweep[i].pc \in {"prune", "announce"} /\ sweep[i].lag >= lost
    BY <1>3, <1>4, <1>u, <2>3 DEF SweepFits
  <2>4. CASE sweep[i].pc = "announce" /\ online = None
    BY <1>2, <1>3, <2>4 DEF SweepFits
  <2> QED
    BY <1>3, <2>1, <2>2, <2>3, <2>4 DEF SweepFits
<1>8. ASSUME lost' = lost + 1, lost >= Longest, online # None, running # {}
      PROVE  \E i \in running : sweep[i].pc \in {"prune", "claim"} /\ sweep[i].lag >= lost - Longest
  <2>1. CASE lost > Longest
    BY <1>8, <2>1 DEF GoneFits
  <2>2. CASE lost = Longest
    <3>1. PICK i \in running : TRUE
      BY <1>8
    <3>2. i \in Instances
      BY <1>t DEF TypeOK
    <3>3. online \in Nat /\ online >= Ttl
      BY <1>8, <1>t, <1>u, <2>2 DEF TypeOK, GoneFits, Ages
    <3>4. sweep[i].pc # "idle" /\ sweep[i].lag < MaxLag
      BY <3>2, <3>3 DEF Tick, Due
    <3>5. sweep[i].pc # "announce"
      BY <1>8, <1>3, <1>u, <2>2, <3>2, <3>4 DEF GoneFits, SweepFits
    <3> QED
      BY <1>3, <1>t, <1>u, <2>2, <3>2, <3>4, <3>5 DEF TypeOK
  <2> QED
    BY <1>8, <1>u, <2>1, <2>2
<1>9. lost' > Longest /\ online' # None =>
        \E i \in running' : sweep'[i].pc \in {"prune", "claim"} /\ sweep'[i].lag >= lost' - Longest
  <2>1. ASSUME lost' > Longest PROVE \E i \in running : sweep'[i].pc \in {"prune", "claim"} /\ sweep'[i].lag >= lost' - Longest
    <3>1. PICK i \in running : sweep[i].pc \in {"prune", "claim"} /\ sweep[i].lag >= lost - Longest
      BY <1>4, <1>8, <1>u, <2>1
    <3>2. i \in Instances
      BY <1>t DEF TypeOK
    <3> QED
      BY <1>3, <1>4, <1>u, <2>1, <3>1, <3>2
  <2> QED
    BY <1>1, <2>1
<1>10. lost' <= Soon
  <2>1. CASE lost' = 0
    BY <1>u, <2>1
  <2>2. CASE lost' = lost + 1 /\ lost < Longest
    BY <1>u, <2>2
  <2>3. CASE lost' = lost + 1 /\ lost >= Longest
    <3>1. PICK i \in running : sweep[i].pc \in {"prune", "claim"} /\ sweep[i].lag >= lost - Longest
      BY <1>4, <1>8, <1>u, <2>3
    <3>2. i \in Instances
      BY <1>t DEF TypeOK
    <3> QED
      BY <1>3, <1>u, <2>3, <3>1, <3>2
  <2> QED
    BY <1>4, <1>u, <2>1, <2>2, <2>3
<1>11. lost' > 0 => Absent' /\ running' # {} /\ (online' # None => online' >= lost' \/ online' = Oldest)
  BY <1>1, <1>4, <1>5 DEF Absent
<1> QED
  BY <1>6, <1>7, <1>9, <1>10, <1>11 DEF GoneFits

LEMMA GoneNextStep == ASSUME IInv, GoneFits, IInv', [Next]_vars PROVE GoneFits'
<1>1. CASE UNCHANGED vars
  BY <1>1 DEF vars, history, GoneFits, SweepFits, PrunesAll, Absent
<1> QED
  BY <1>1, GoneHandlerSteps, GoneSweepSteps, GoneInstanceSteps, GoneTickStep DEF Next

LEMMA PresenceInit == Init => PresenceIInv
<1> SUFFICES ASSUME Init PROVE PresenceIInv
  OBVIOUS
<1>1. NoSweep.pc = "idle" /\ \A i \in Instances : sweep[i] = NoSweep
  BY DEF Init, NoSweep
<1>2. OfflineIsDue
  BY DEF Init, OfflineIsDue
<1>3. GoneFits
  BY <1>1, PresenceAssumption DEF Init, GoneFits, SweepFits, Longest, Soon
<1> QED
  BY <1>2, <1>3, InitIInv DEF PresenceIInv

LEMMA PresenceStep == PresenceIInv /\ [Next]_vars => PresenceIInv'
BY NextStep, OfflineSteps, GoneNextStep DEF PresenceIInv

--------------------------------------------------------------------------------
(* The theorems about presence.                                             *)

\* Whatever connects, disconnects, sweeps and crashes beside it, a registered socket
\* of a running instance keeps a score younger than the time to live.
THEOREM LiveSocketsStay == Spec => []LiveSocketKept
<1>1. PresenceIInv => LiveSocketKept
  BY PresenceAssumption DEF PresenceIInv, IInv, Kept, LiveSocketKept, Live
<1> QED
  BY <1>1, PresenceInit, PresenceStep, PTL DEF Spec

\* A user without sockets is taken out of the online set within the time to live and
\* the time a sweep takes, or twice the time a sweep takes when sweeps are that slow.
THEOREM GoneUsersAreUnlisted == Spec => []GoneIsUnlisted
<1>1. PresenceIInv => GoneIsUnlisted
  BY DEF PresenceIInv, GoneFits, GoneIsUnlisted
<1> QED
  BY <1>1, PresenceInit, PresenceStep, PTL DEF Spec

\* Outside the windows in exposed, a user who left and whom no sweep looks at is OFFLINE.
THEOREM GoneUsersAreOffline == Spec => []GoneIsOffline
<1>1. PresenceIInv => GoneIsOffline
  BY DEF PresenceIInv, IInv, TypeOK, OfflineIsDue, GoneIsOffline, Absent, Unused
<1> QED
  BY <1>1, PresenceInit, PresenceStep, PTL DEF Spec

--------------------------------------------------------------------------------
(* The call registry: what holds of one socket, and of two.                 *)

\* The client and the handlers of one socket.
ClientFits(s) ==
    /\ client[s] # "out" => s \in open
    /\ client[s] = "asking" => join[s] # "idle"
    /\ client[s] = "in" => join[s] = "idle"
    /\ leave[s] \in {"get", "remove"} => s \in open
    /\ leave[s] \in {"members", "removeAll"} => s \notin open

\* A socket that never connected.
UnbornFits(s) ==
    s \notin open \cup ended => join[s] = "idle" /\ leave[s] = "idle" /\ s \notin calls

\* An earlier leave that is still under way may delete the participant.
RemnantFits(s) ==
    client[s] # "out" /\ leave[s] # "idle" /\ join[s] \in {"idle", "room"} => s \in remnant

\* A client that hung up during its join has a leave under way, or one that came too early.
JoinIsAwaited(s) ==
    join[s] \in {"authorize", "list", "record"} /\ s \in open =>
        client[s] # "out" \/ leave[s] \in {"get", "remove"} \/ s \in late

RemovalFits ==
    /\ removal.pc = "idle" => removal = Idle
    /\ removal.pc # "idle" => removal.user \in Users \ members

FoundFits(s) == removal.pc = "drop" /\ s \in removal.found => UserOf[s] = removal.user

\* A call recorded for an open socket has a participant that was refreshed in this interval
\* or the last, and a client in the call or a leave that will find the participant.
RecordedIsKept(s) ==
    s \in calls /\ s \in open =>
        /\ stored[s] \in {0, 1, Nobody}
        /\ beat[s] = "done" => stored[s] \in {0, Nobody}
        /\ stored[s] = Nobody \/ s \in listing => s \in remnant
        /\ client[s] # "out" \/ leave[s] \in {"get", "remove"} \/ s \in late \cup remnant

\* The user is a member, or its removal has not reached the call yet.
Held(u) == u \in members \/ removal.user = u

HeldIsRecorded(s) ==
    client[s] # "out" /\ Held(UserOf[s]) /\ join[s] \in {"idle", "room"} /\ s \notin remnant =>
        /\ s \in calls
        /\ client[s] = "in" => s \in room

CaughtFits(s) ==
    UserOf[s] \in caught =>
        /\ UserOf[s] \notin members
        /\ join[s] \in {"idle", "authorize"}
        /\ client[s] = "in" /\ s \notin remnant =>
             \/ s \in told
             \/ /\ removal.user = UserOf[s]
                /\ removal.pc = "drop" => s \in removal.found

AwayFits(s) ==
    away[s] > 0 =>
        /\ client[s] = "out"
        /\ join[s] = "idle"
        /\ s \notin update
        /\ beat[s] \notin {"listed", "found"}
        /\ s \notin open \/ s \notin calls
        /\ stored[s] = Nobody \/ stored[s] >= away[s]

\* Two clients that are in the call, or on their way into it.
Peers(s, t) ==
    /\ s # t /\ {s, t} \notin crossed
    /\ s \notin remnant /\ t \notin remnant
    /\ client[s] # "out" /\ client[t] # "out"
    /\ UserOf[s] \in members /\ UserOf[t] \in members

PeersFit(s, t) ==
    Peers(s, t) =>
        /\ join[s] = "idle" \/ join[t] = "idle"
        /\ join[s] \in {"record", "room"} => t \in offered[s]
        /\ join[s] = "idle" /\ join[t] = "idle" => s \in offered[t] \/ t \in offered[s]

SocketFits(s) ==
    /\ ClientFits(s) /\ UnbornFits(s) /\ RemnantFits(s) /\ JoinIsAwaited(s) /\ FoundFits(s)
    /\ RecordedIsKept(s) /\ HeldIsRecorded(s) /\ CaughtFits(s) /\ AwayFits(s)

CallIInv ==
    /\ CallTypeOK /\ RemovalFits
    /\ \A s \in CallSockets : SocketFits(s)
    /\ \A s, t \in CallSockets : PeersFit(s, t)

--------------------------------------------------------------------------------
(* Types.                                                                   *)

LEMMA CallOlderType ==
    /\ CallOlder(Nobody) = Nobody
    /\ \A age \in 0 .. CallOldest :
         /\ CallOlder(age) \in 1 .. CallOldest
         /\ age <= CallOlder(age) /\ CallOlder(age) <= age + 1
         /\ age < CallOldest => CallOlder(age) = age + 1
BY CallRegistryAssumption DEF CallOlder, CallOldest

LEMMA CallInitTypeOK == CallInit => CallTypeOK
BY CallRegistryAssumption DEF CallInit, CallTypeOK, CallOldest, Idle

LEMMA OutType ==
    ASSUME CallTypeOK, NEW s \in CallSockets, Out(s)
    PROVE  /\ client' \in [CallSockets -> {"out", "asking", "in"}]
           /\ offered' \in [CallSockets -> SUBSET CallSockets]
           /\ crossed' \subseteq SUBSET CallSockets
BY DEF Out, Unpeered, CallTypeOK

LEMMA JoinTypes ==
    ASSUME CallTypeOK, NEW s \in CallSockets, JoinStep(s)
    PROVE  CallTypeOK'
<1> USE CallRegistryAssumption DEF CallTypeOK, CallOldest, redis, clients, handlers, callHistory
<1>1. CASE AuthorizeCallJoin(s)
  BY <1>1, OutType DEF AuthorizeCallJoin, EndCall
<1>2. CASE JoinList(s)
  BY <1>2 DEF JoinList
<1>3. CASE JoinRecord(s)
  BY <1>3 DEF JoinRecord
<1>4. CASE JoinAnswer(s)
  BY <1>4 DEF JoinAnswer
<1> QED
  BY <1>1, <1>2, <1>3, <1>4 DEF JoinStep

LEMMA LeaveTypes ==
    ASSUME CallTypeOK, NEW s \in CallSockets, LeaveStep(s)
    PROVE  CallTypeOK'
<1> USE CallRegistryAssumption DEF CallTypeOK, CallOldest, redis, clients, handlers, callHistory
<1>1. CASE LeaveGet(s)
  BY <1>1 DEF LeaveGet, Left
<1>2. CASE LeaveAllGet(s)
  BY <1>2 DEF LeaveAllGet
<1>3. CASE LeaveRemove(s)
  BY <1>3 DEF LeaveRemove, Left, UserLeft
<1> QED
  BY <1>1, <1>2, <1>3 DEF LeaveStep

LEMMA BeatTypes ==
    ASSUME CallTypeOK, NEW s \in CallSockets, BeatStep(s) \/ UpdateRead(s) \/ UpdateWrite(s)
    PROVE  CallTypeOK'
<1> USE CallRegistryAssumption DEF CallTypeOK, CallOldest, redis, clients, handlers, callHistory
<1>1. CASE BeatList(s)
  BY <1>1 DEF BeatList
<1>2. CASE BeatGet(s)
  BY <1>2 DEF BeatGet
<1>3. CASE BeatWrite(s)
  BY <1>3 DEF BeatWrite
<1>4. CASE UpdateRead(s)
  BY <1>4 DEF UpdateRead
<1>5. CASE UpdateWrite(s)
  BY <1>5 DEF UpdateWrite
<1> QED
  BY <1>1, <1>2, <1>3, <1>4, <1>5 DEF BeatStep

LEMMA ClientTypes ==
    ASSUME CallTypeOK, NEW s \in CallSockets,
           OpenSocket(s) \/ StartCall(s) \/ HangUp(s) \/ HearUserLeft(s) \/ CloseSocket(s) \/ KillSocket(s)
    PROVE  CallTypeOK'
<1> USE CallRegistryAssumption DEF CallTypeOK, CallOldest, redis, clients, handlers, callHistory
<1>1. CASE OpenSocket(s)
  BY <1>1 DEF OpenSocket
<1>2. CASE StartCall(s)
  <2>1. crossed' \subseteq SUBSET CallSockets
    BY <1>2 DEF StartCall
  <2> QED
    BY <1>2, <2>1 DEF StartCall, Unpeered
<1>3. CASE HangUp(s)
  BY <1>3, OutType DEF HangUp, EndCall
<1>4. CASE HearUserLeft(s)
  BY <1>4, OutType DEF HearUserLeft, EndCall
<1>5. CASE CloseSocket(s)
  BY <1>5, OutType DEF CloseSocket, Gone
<1>6. CASE KillSocket(s)
  BY <1>6, OutType DEF KillSocket, Gone
<1> QED
  BY <1>1, <1>2, <1>3, <1>4, <1>5, <1>6

LEMMA SharedTypes ==
    ASSUME CallTypeOK, CallTick \/ List \/ DeleteStale \/ RemoveStep \/ \E u \in Users : RemoveMember(u)
    PROVE  CallTypeOK'
<1> USE CallRegistryAssumption DEF CallTypeOK, redis, clients, handlers, callHistory
<1>1. CASE CallTick
  <2>1. stored' \in [CallSockets -> 0 .. CallOldest \cup {Nobody}]
    BY <1>1, CallOlderType DEF CallTick
  <2>2. ASSUME NEW s \in CallSockets PROVE away'[s] \in 0 .. CallOldest
    <3>1. away[s] \in 0 .. CallOldest /\ 0 \in 0 .. CallOldest /\ 1 .. CallOldest \subseteq 0 .. CallOldest
      BY DEF CallOldest
    <3>2. CallOlder(away[s]) \in 0 .. CallOldest
      BY <3>1, CallOlderType
    <3> QED
      BY <1>1, <3>1, <3>2 DEF CallTick
  <2>3. away' \in [CallSockets -> 0 .. CallOldest]
    BY <1>1, <2>2 DEF CallTick
  <2> QED
    BY <1>1, <2>1, <2>3 DEF CallTick
<1>2. CASE List
  BY <1>2 DEF List
<1>3. CASE DeleteStale
  BY <1>3 DEF DeleteStale, CallOldest
<1>4. CASE RemoveCollect
  BY <1>4 DEF RemoveCollect, Idle
<1>5. CASE RemoveDrop
  BY <1>5 DEF RemoveDrop, UserLeft, Idle, CallOldest
<1>6. ASSUME NEW u \in Users, RemoveMember(u) PROVE CallTypeOK'
  BY <1>6 DEF RemoveMember
<1> QED
  BY <1>1, <1>2, <1>3, <1>4, <1>5, <1>6 DEF RemoveStep

LEMMA CallNextTypes == CallTypeOK /\ [CallNext]_callVars => CallTypeOK'
<1> SUFFICES ASSUME CallTypeOK, [CallNext]_callVars PROVE CallTypeOK'
  OBVIOUS
<1>1. CASE UNCHANGED callVars
  BY <1>1 DEF callVars, redis, clients, handlers, callHistory, CallTypeOK
<1>2. CASE CallNext
  BY <1>2, JoinTypes, LeaveTypes, BeatTypes, ClientTypes, SharedTypes DEF CallNext
<1> QED
  BY <1>1, <1>2

--------------------------------------------------------------------------------
(* What a step of one socket leaves alone.                                  *)

Same(t) ==
    /\ stored'[t] = stored[t] /\ client'[t] = client[t] /\ join'[t] = join[t]
    /\ leave'[t] = leave[t] /\ beat'[t] = beat[t] /\ away'[t] = away[t]
    /\ (t \in calls') = (t \in calls) /\ (t \in open') = (t \in open)
    /\ (t \in told') = (t \in told) /\ (t \in update') = (t \in update)
    /\ (t \in listing') = (t \in listing) /\ (t \in ended') = (t \in ended)
    /\ (t \in room') = (t \in room) /\ (t \in late') = (t \in late) /\ (t \in remnant') = (t \in remnant)

LEMMA SameFits ==
    ASSUME NEW t \in CallSockets, SocketFits(t), Same(t), UNCHANGED <<removal, members, caught>>
    PROVE  SocketFits(t)'
BY DEF SocketFits, Same, ClientFits, UnbornFits, RemnantFits, JoinIsAwaited, FoundFits, RecordedIsKept,
       HeldIsRecorded, Held, CaughtFits, AwayFits

\* What a step of s must show of two peers.
LEMMA CallSocketStep ==
    ASSUME CallIInv, CallTypeOK', NEW s \in CallSockets, UNCHANGED <<removal, members, caught>>,
           \A t \in CallSockets \ {s} : Same(t), SocketFits(s)',
           \A t, r \in CallSockets : PeersFit(t, r)'
    PROVE  CallIInv'
BY SameFits DEF CallIInv, RemovalFits

LEMMA PeersKept ==
    ASSUME CallIInv, UNCHANGED <<client, join, crossed, offered, remnant>>, members' \subseteq members
    PROVE  \A t, r \in CallSockets : PeersFit(t, r)'
BY DEF CallIInv, PeersFit, Peers

LEMMA CallQuietStep ==
    ASSUME CallIInv, CallTypeOK', NEW s \in CallSockets, UNCHANGED <<removal, members, caught>>,
           UNCHANGED <<client, join, crossed, offered, remnant>>,
           \A t \in CallSockets \ {s} : Same(t), SocketFits(s)'
    PROVE  CallIInv'
BY CallSocketStep, PeersKept

LEMMA OutStep ==
    ASSUME CallIInv, CallTypeOK', NEW s \in CallSockets, UNCHANGED <<removal, members, caught>>,
           Out(s), \A t \in CallSockets \ {s} : Same(t), SocketFits(s)'
    PROVE  CallIInv'
<1>1. ASSUME NEW t \in CallSockets, NEW r \in CallSockets PROVE PeersFit(t, r)'
  <2>1. client'[s] = "out"
    BY DEF CallIInv, CallTypeOK, Out
  <2>2. CASE s \in {t, r}
    BY <2>1, <2>2 DEF PeersFit, Peers
  <2>3. CASE s \notin {t, r}
    <3>1. /\ client'[t] = client[t] /\ client'[r] = client[r] /\ join'[t] = join[t] /\ join'[r] = join[r]
          /\ (r \in offered'[t]) = (r \in offered[t]) /\ (t \in offered'[r]) = (t \in offered[r])
          /\ ({t, r} \in crossed') = ({t, r} \in crossed)
          /\ (t \in remnant') = (t \in remnant) /\ (r \in remnant') = (r \in remnant)
      BY <2>3 DEF Same, Out, Unpeered
    <3>2. PeersFit(t, r)
      BY DEF CallIInv
    <3> QED
      BY <3>1, <3>2 DEF PeersFit, Peers
  <2> QED
    BY <2>2, <2>3
<1> QED
  BY <1>1, CallSocketStep

--------------------------------------------------------------------------------
(* The steps of a socket that no peer notices.                              *)

LEMMA UpdateSteps ==
    ASSUME CallIInv, CallTypeOK', NEW s \in CallSockets,
           UpdateRead(s) \/ UpdateWrite(s) \/ BeatStep(s) \/ LeaveStep(s) \/ OpenSocket(s)
    PROVE  CallIInv'
<1> USE CallRegistryAssumption DEF redis, clients, handlers, callHistory
<1>t. CallTypeOK /\ SocketFits(s)
  BY DEF CallIInv
<1> USE DEF CallTypeOK, SocketFits, ClientFits, UnbornFits, RemnantFits, JoinIsAwaited, FoundFits, RecordedIsKept,
            HeldIsRecorded, Held, CaughtFits, AwayFits, Same
<1>1. CASE UpdateRead(s)
  BY <1>1, <1>t, CallQuietStep DEF UpdateRead
<1>2. CASE UpdateWrite(s)
  BY <1>2, <1>t, CallQuietStep DEF UpdateWrite
<1>3. CASE BeatList(s)
  BY <1>3, <1>t, CallQuietStep DEF BeatList
<1>4. CASE BeatGet(s)
  BY <1>4, <1>t, CallQuietStep DEF BeatGet
<1>5. CASE BeatWrite(s)
  BY <1>5, <1>t, CallQuietStep DEF BeatWrite
<1>6. CASE LeaveGet(s)
  BY <1>6, <1>t, CallQuietStep DEF LeaveGet, Left
<1>7. CASE LeaveAllGet(s)
  BY <1>7, <1>t, CallQuietStep DEF LeaveAllGet
<1>8. CASE LeaveRemove(s)
  <2>1. SocketFits(s)' /\ \A t \in CallSockets \ {s} : Same(t)
    BY <1>8, <1>t DEF LeaveRemove, Left
  <2>2. ASSUME NEW t \in CallSockets, NEW r \in CallSockets PROVE PeersFit(t, r)'
    <3>1. PeersFit(t, r) /\ (Peers(t, r)' => Peers(t, r))
      BY <1>8 DEF LeaveRemove, CallIInv, Peers
    <3>2. UNCHANGED join /\ leave[s] # "idle"
      BY <1>8 DEF LeaveRemove
    <3>3. \A x \in CallSockets : offered'[x] = IF x = s /\ join[s] = "idle" THEN {} ELSE offered[x] \ {s}
      BY <1>8 DEF LeaveRemove, UserLeft
    <3>4. Peers(t, r) /\ s \in {t, r} => join[s] \notin {"idle", "room"}
      BY <1>t, <3>2 DEF Peers
    <3>5. Peers(t, r) => t # r
      BY DEF Peers
    <3> HIDE DEF CallTypeOK, SocketFits, ClientFits, UnbornFits, RemnantFits, JoinIsAwaited, FoundFits, RecordedIsKept,
                 HeldIsRecorded, Held, CaughtFits, AwayFits, Same
    <3>6. CASE Peers(t, r)
      BY <3>1, <3>2, <3>3, <3>4, <3>5, <3>6 DEF PeersFit
    <3> QED
      BY <3>1, <3>6 DEF PeersFit
  <2> QED
    BY <1>8, <2>1, <2>2, CallSocketStep DEF LeaveRemove
<1>9. CASE OpenSocket(s)
  BY <1>9, <1>t, CallQuietStep DEF OpenSocket
<1> QED
  BY <1>1, <1>2, <1>3, <1>4, <1>5, <1>6, <1>7, <1>8, <1>9 DEF BeatStep, LeaveStep

\* The client leaves the call, or its socket does.
LEMMA LeavingSteps ==
    ASSUME CallIInv, CallTypeOK', NEW s \in CallSockets,
           HangUp(s) \/ HearUserLeft(s) \/ CloseSocket(s) \/ KillSocket(s)
    PROVE  CallIInv'
<1> USE CallRegistryAssumption DEF redis, clients, handlers, callHistory
<1>t. CallTypeOK /\ SocketFits(s)
  BY DEF CallIInv
<1> USE DEF CallTypeOK, SocketFits, ClientFits, UnbornFits, RemnantFits, JoinIsAwaited, FoundFits, RecordedIsKept,
            HeldIsRecorded, Held, CaughtFits, AwayFits, Same
<1>1. CASE HangUp(s)
  <2>1. Out(s) /\ \A t \in CallSockets \ {s} : Same(t)
    BY <1>1, <1>t DEF HangUp, EndCall, Out, Unpeered
  <2>2. SocketFits(s)'
    BY <1>1, <1>t DEF HangUp, EndCall, Out, Unpeered
  <2> QED
    BY <1>1, <2>1, <2>2, OutStep DEF HangUp
<1>2. CASE HearUserLeft(s) /\ client[s] # "out"
  <2>1. Out(s) /\ \A t \in CallSockets \ {s} : Same(t)
    BY <1>2, <1>t DEF HearUserLeft, EndCall, Out, Unpeered
  <2>2. SocketFits(s)'
    BY <1>2, <1>t DEF HearUserLeft, EndCall, Out, Unpeered
  <2> QED
    BY <1>2, <2>1, <2>2, OutStep DEF HearUserLeft
<1>3. CASE HearUserLeft(s) /\ client[s] = "out"
  BY <1>3, <1>t, CallQuietStep DEF HearUserLeft
<1>4. CASE CloseSocket(s)
  <2>1. Out(s) /\ \A t \in CallSockets \ {s} : Same(t)
    BY <1>4, <1>t DEF CloseSocket, Gone, Out, Unpeered
  <2>2. SocketFits(s)'
    BY <1>4, <1>t DEF CloseSocket, Gone, Out, Unpeered
  <2> QED
    BY <1>4, <2>1, <2>2, OutStep DEF CloseSocket, Gone
<1>5. CASE KillSocket(s)
  <2>1. Out(s) /\ \A t \in CallSockets \ {s} : Same(t)
    BY <1>5, <1>t DEF KillSocket, Gone, Out, Unpeered
  <2>2. SocketFits(s)'
    BY <1>5, <1>t DEF KillSocket, Gone, Out, Unpeered
  <2> QED
    BY <1>5, <2>1, <2>2, OutStep DEF KillSocket, Gone
<1> QED
  BY <1>1, <1>2, <1>3, <1>4, <1>5

--------------------------------------------------------------------------------
(* The steps of a join.                                                     *)

LEMMA StartStep ==
    ASSUME CallIInv, CallTypeOK', NEW s \in CallSockets, StartCall(s)
    PROVE  CallIInv'
<1> USE CallRegistryAssumption DEF redis, clients, handlers, callHistory
<1>t. CallTypeOK /\ \A t \in CallSockets : SocketFits(t)
  BY DEF CallIInv
<1>1. SocketFits(s)' /\ \A t \in CallSockets \ {s} : Same(t)
  BY <1>t DEF StartCall, Unpeered, CallTypeOK, SocketFits, ClientFits, UnbornFits, RemnantFits, JoinIsAwaited, FoundFits,
       RecordedIsKept, HeldIsRecorded, Held, CaughtFits, AwayFits, Same
<1>2. ASSUME NEW t \in CallSockets, NEW r \in CallSockets, Peers(t, r)' PROVE PeersFit(t, r)'
  <2>1. /\ UNCHANGED members /\ client'[s] = "asking" /\ join'[s] = "authorize" /\ client[s] = "out"
        /\ \A x \in CallSockets \ {s} : offered'[x] = offered[x] \ {s}
    BY <1>t DEF StartCall, Unpeered, CallTypeOK
  <2>2. CASE s \notin {t, r}
    <3>1. Peers(t, r) /\ join'[t] = join[t] /\ join'[r] = join[r]
      BY <1>1, <1>2, <2>1, <2>2 DEF StartCall, Peers, Same
    <3>2. PeersFit(t, r)
      BY DEF CallIInv
    <3> QED
      BY <2>1, <3>1, <3>2 DEF PeersFit
  <2>3. CASE s = t
    <3>1. join'[r] = "idle"
      BY <1>2, <2>3, <1>1 DEF StartCall, Peers, Same
    <3> QED
      BY <2>1, <2>3, <3>1 DEF PeersFit
  <2>4. CASE s = r
    <3>1. {t, r} = {s, t} /\ t # s
      BY <1>2, <2>4 DEF Peers
    <3>2. join'[t] = "idle"
      BY <1>2, <2>4, <1>1, <3>1 DEF StartCall, Peers, Same
    <3> QED
      BY <2>1, <2>4, <3>2 DEF PeersFit
  <2> QED
    BY <2>2, <2>3, <2>4
<1>3. \A t, r \in CallSockets : PeersFit(t, r)'
  BY <1>2 DEF PeersFit
<1> QED
  BY <1>1, <1>3, CallSocketStep DEF StartCall

LEMMA JoinSteps ==
    ASSUME CallIInv, CallTypeOK', NEW s \in CallSockets, JoinStep(s)
    PROVE  CallIInv'
<1> USE CallRegistryAssumption DEF redis, clients, handlers, callHistory
<1>t. CallTypeOK /\ \A t \in CallSockets : SocketFits(t)
  BY DEF CallIInv
<1>p. \A t, r \in CallSockets : PeersFit(t, r)
  BY DEF CallIInv
<1>1. CASE AuthorizeCallJoin(s) /\ UserOf[s] \in members
  <2>0. join[s] = "authorize" /\ join' = [join EXCEPT ![s] = "list"]
    BY <1>1 DEF AuthorizeCallJoin
  <2>1. SocketFits(s)' /\ \A t \in CallSockets \ {s} : Same(t)
    <3>1. UNCHANGED <<stored, calls, clients, leave, update, beat, listing, removal, members, caught, late, remnant, away>>
      BY <1>1 DEF AuthorizeCallJoin
    <3>2. UserOf[s] \in members
      BY <1>1
    <3>3. join'[s] = "list" /\ \A t \in CallSockets \ {s} : join'[t] = join[t]
      BY <2>0, <1>t DEF CallTypeOK
    <3>4. SocketFits(s)
      BY <1>t
    <3>5. FoundFits(s)'
      BY <2>0, <3>1, <3>2, <3>4, <1>t DEF SocketFits, FoundFits, CallIInv, RemovalFits, CallTypeOK
    <3> QED
      BY <2>0, <3>1, <3>2, <3>3, <3>4, <3>5 DEF SocketFits, ClientFits, UnbornFits, RemnantFits, JoinIsAwaited,
           RecordedIsKept, HeldIsRecorded, Held, CaughtFits, AwayFits, Same
  <2>2. \A t, r \in CallSockets : PeersFit(t, r)'
    BY <1>1, <1>t, <1>p DEF AuthorizeCallJoin, CallTypeOK, PeersFit, Peers
  <2> QED
    BY <1>1, <2>1, <2>2, CallSocketStep DEF AuthorizeCallJoin
<1>2. CASE AuthorizeCallJoin(s) /\ UserOf[s] \notin members /\ client[s] = "asking"
  <2>1. SocketFits(s)' /\ \A t \in CallSockets \ {s} : t # s => UNCHANGED <<stored, open>>
    BY <1>2, <1>t DEF AuthorizeCallJoin, EndCall, Out, Unpeered, CallTypeOK, SocketFits, ClientFits, UnbornFits, JoinIsAwaited,
         RemnantFits, FoundFits, RecordedIsKept, HeldIsRecorded, Held, CaughtFits, AwayFits
  <2>2. Out(s) /\ \A t \in CallSockets \ {s} : Same(t)
    BY <1>2, <1>t DEF AuthorizeCallJoin, EndCall, Out, Unpeered, CallTypeOK, Same
  <2> QED
    BY <1>2, <2>1, <2>2, OutStep DEF AuthorizeCallJoin
<1>3. CASE AuthorizeCallJoin(s) /\ UserOf[s] \notin members /\ client[s] # "asking"
  <2>1. SocketFits(s)' /\ \A t \in CallSockets \ {s} : Same(t)
    BY <1>3, <1>t DEF AuthorizeCallJoin, CallTypeOK, SocketFits, ClientFits, UnbornFits, RemnantFits, JoinIsAwaited,
         FoundFits, RecordedIsKept, HeldIsRecorded, Held, CaughtFits, AwayFits, Same
  <2>2. \A t, r \in CallSockets : PeersFit(t, r)'
    BY <1>3, <1>t, <1>p DEF AuthorizeCallJoin, CallTypeOK, PeersFit, Peers
  <2> QED
    BY <1>3, <2>1, <2>2, CallSocketStep DEF AuthorizeCallJoin
<1>4. CASE JoinList(s)
  <2>1. SocketFits(s)' /\ \A t \in CallSockets \ {s} : Same(t)
    BY <1>4, <1>t DEF JoinList, CallTypeOK, SocketFits, ClientFits, UnbornFits, RemnantFits, JoinIsAwaited,
         FoundFits, RecordedIsKept, HeldIsRecorded, Held, CaughtFits, AwayFits, Same
  <2>2. ASSUME NEW t \in CallSockets, client[t] # "out", UserOf[t] \in members, join[t] = "idle",
                      t \notin remnant
               PROVE  Shown(t)
    <3>1. t \in calls /\ t \in open
      BY <2>2, <1>t DEF SocketFits, ClientFits, HeldIsRecorded, Held
    <3>2. stored[t] \in {0, 1}
      BY <2>2, <3>1, <1>t DEF SocketFits, RecordedIsKept
    <3> QED
      BY <3>2 DEF Shown
  <2>3. ASSUME NEW t \in CallSockets, NEW r \in CallSockets PROVE PeersFit(t, r)'
    BY <1>4, <1>t, <1>p, <2>2 DEF JoinList, CallTypeOK, PeersFit, Peers
  <2> QED
    BY <1>4, <2>1, <2>3, CallSocketStep DEF JoinList
<1>5. CASE JoinRecord(s)
  <2>1. SocketFits(s)' /\ \A t \in CallSockets \ {s} : Same(t)
    BY <1>5, <1>t DEF JoinRecord, CallTypeOK, SocketFits, ClientFits, UnbornFits, RemnantFits, JoinIsAwaited,
         FoundFits, RecordedIsKept, HeldIsRecorded, Held, CaughtFits, AwayFits, Same
  <2>2. \A t, r \in CallSockets : PeersFit(t, r)'
    BY <1>5, <1>t, <1>p DEF JoinRecord, CallTypeOK, PeersFit, Peers
  <2> QED
    BY <1>5, <2>1, <2>2, CallSocketStep DEF JoinRecord
<1>6. CASE JoinAnswer(s)
  <2>1. SocketFits(s)' /\ \A t \in CallSockets \ {s} : Same(t)
    BY <1>6, <1>t DEF JoinAnswer, CallTypeOK, SocketFits, ClientFits, UnbornFits, RemnantFits, JoinIsAwaited,
         FoundFits, RecordedIsKept, HeldIsRecorded, Held, CaughtFits, AwayFits, Same
  <2>2. ASSUME NEW t \in CallSockets, NEW r \in CallSockets PROVE PeersFit(t, r)'
    <3>1. PeersFit(t, r) /\ PeersFit(r, t)
      BY <1>p
    <3>2. Peers(t, r)' => Peers(t, r) /\ Peers(r, t)
      <4>1. {t, r} = {r, t} /\ UNCHANGED <<crossed, members, remnant>> /\ join[s] = "room"
        BY <1>6 DEF JoinAnswer
      <4>2. \A x \in CallSockets : client'[x] # "out" => client[x] # "out"
        BY <1>6, <1>t DEF JoinAnswer, CallTypeOK
      <4> QED
        BY <4>1, <4>2 DEF Peers
    <3>3. \A x \in CallSockets : join'[x] = IF x = s THEN "idle" ELSE join[x]
      BY <1>6, <1>t DEF JoinAnswer, CallTypeOK
    <3>4. join[s] = "room" /\ UNCHANGED offered
      BY <1>6 DEF JoinAnswer
    <3>5. CASE s = t
      BY <3>1, <3>2, <3>3, <3>4, <3>5 DEF PeersFit
    <3>6. CASE s = r
      BY <3>1, <3>2, <3>3, <3>4, <3>6 DEF PeersFit
    <3>7. CASE s \notin {t, r}
      BY <3>1, <3>2, <3>3, <3>4, <3>7 DEF PeersFit
    <3> QED
      BY <3>5, <3>6, <3>7
  <2> QED
    BY <1>6, <2>1, <2>2, CallSocketStep DEF JoinAnswer
<1> QED
  BY <1>1, <1>2, <1>3, <1>4, <1>5, <1>6 DEF JoinStep, AuthorizeCallJoin

--------------------------------------------------------------------------------
(* Time, reads and the removal of a member.                                 *)

LEMMA CallTickStep ==
    ASSUME CallIInv, CallTypeOK', CallTick
    PROVE  CallIInv'
<1> USE CallRegistryAssumption DEF clients
<1>1. /\ UNCHANGED <<calls, clients, join, leave, update, listing, removal, members, offered, crossed, caught, late, remnant>>
      /\ \A t, r \in CallSockets : PeersFit(t, r)'
  BY PeersKept DEF CallTick
<1>2. ASSUME NEW s \in CallSockets PROVE SocketFits(s)'
  <2>1. CallTypeOK /\ SocketFits(s)
    BY DEF CallIInv
  <2>2. beat'[s] = "due" /\ stored'[s] = CallOlder(stored[s]) /\ beat[s] \notin {"listed", "found"}
        /\ (s \in open => beat[s] = "done")
    BY <2>1 DEF CallTick, CallTypeOK
  <2>3. /\ stored[s] = Nobody => stored'[s] = Nobody
        /\ stored[s] # Nobody => /\ stored[s] \in 0 .. CallOldest /\ stored'[s] \in 1 .. CallOldest
                                 /\ stored[s] < CallOldest => stored'[s] = stored[s] + 1
                                 /\ stored[s] <= stored'[s]
    BY <2>1, <2>2, CallOlderType DEF CallTypeOK
  <2>4. RecordedIsKept(s)'
    BY <2>1, <2>2, <2>3, <1>1 DEF SocketFits, RecordedIsKept, CallOldest
  <2>5. AwayFits(s)'
    <3>1. CASE Quiet(s) /\ ~Missed(s) /\ stored[s] # Nobody
      <4>1. away[s] \in 0 .. CallOldest /\ away'[s] = CallOlder(away[s])
        BY <2>1, <3>1 DEF CallTick, CallTypeOK
      <4>2. stored[s] >= away[s]
        BY <2>1, <2>3, <3>1, <4>1 DEF SocketFits, AwayFits
      <4>3. stored'[s] >= away'[s]
        BY <2>3, <3>1, <4>1, <4>2, CallOlderType DEF CallOldest
      <4>4. s \notin open \/ s \notin calls
        BY <2>1, <3>1 DEF SocketFits, RecordedIsKept, Quiet, Missed
      <4> QED
        BY <1>1, <2>2, <3>1, <4>3, <4>4 DEF AwayFits, Quiet
    <3>2. CASE ~(Quiet(s) /\ ~Missed(s) /\ stored[s] # Nobody)
      BY <3>2 DEF CallTick, AwayFits
    <3> QED
      BY <3>1, <3>2
  <2> QED
    BY <1>1, <2>1, <2>2, <2>3, <2>4, <2>5 DEF SocketFits, ClientFits, UnbornFits, RemnantFits, JoinIsAwaited, FoundFits,
         HeldIsRecorded, Held, CaughtFits
<1> QED
  BY <1>1, <1>2 DEF CallIInv, RemovalFits

LEMMA ReadSteps ==
    ASSUME CallIInv, CallTypeOK', List \/ DeleteStale
    PROVE  CallIInv'
<1> USE CallRegistryAssumption DEF redis, clients, handlers, callHistory
<1>1. /\ UNCHANGED <<calls, clients, join, leave, update, beat, removal, members, callHistory>>
      /\ \A t, r \in CallSockets : PeersFit(t, r)'
  BY PeersKept DEF List, DeleteStale
<1>2. ASSUME NEW s \in CallSockets PROVE SocketFits(s)'
  <2>1. CallTypeOK /\ SocketFits(s)
    BY DEF CallIInv
  <2>2. CASE List
    BY <2>1, <2>2, <1>1 DEF List, Stale, CallTypeOK, CallOldest, SocketFits, ClientFits, UnbornFits, JoinIsAwaited,
         RemnantFits, FoundFits, RecordedIsKept, HeldIsRecorded, Held, CaughtFits, AwayFits
  <2>3. CASE DeleteStale
    BY <2>1, <2>3, <1>1 DEF DeleteStale, SocketFits, ClientFits, UnbornFits, JoinIsAwaited,
         RemnantFits, FoundFits, RecordedIsKept, HeldIsRecorded, Held, CaughtFits, AwayFits
  <2> QED
    BY <2>2, <2>3
<1> QED
  BY <1>1, <1>2 DEF CallIInv, RemovalFits

LEMMA RemovalSteps ==
    ASSUME CallIInv, CallTypeOK', RemoveStep \/ \E u \in Users : RemoveMember(u)
    PROVE  CallIInv'
<1> USE CallRegistryAssumption DEF redis, clients, handlers, callHistory
<1>t. CallTypeOK /\ RemovalFits /\ \A s \in CallSockets : SocketFits(s) /\ UserOf[s] \in Users
  BY DEF CallIInv
<1>u. Nobody \notin Users /\ Idle.pc = "idle" /\ Idle.user = Nobody
  BY DEF Idle
<1>1. \A t, r \in CallSockets : PeersFit(t, r)'
  <2>1. CASE RemoveDrop
    <3>1. ASSUME NEW t \in CallSockets, NEW r \in CallSockets, Peers(t, r)' PROVE PeersFit(t, r)'
      <4>1. Peers(t, r) /\ PeersFit(t, r) /\ UNCHANGED join
        BY <2>1, <3>1 DEF RemoveDrop, Peers, CallIInv
      <4>2. t \notin removal.found /\ r \notin removal.found
        BY <1>t, <1>u, <2>1, <4>1 DEF RemoveDrop, Peers, SocketFits, FoundFits, RemovalFits
      <4>3. offered'[t] = offered[t] \ removal.found /\ offered'[r] = offered[r] \ removal.found
        BY <2>1, <4>2 DEF RemoveDrop, UserLeft
      <4> QED
        BY <4>1, <4>2, <4>3 DEF PeersFit
    <3> QED
      BY <3>1 DEF PeersFit
  <2>2. CASE ~RemoveDrop
    BY <2>2, PeersKept DEF RemoveStep, RemoveCollect, RemoveMember
  <2> QED
    BY <2>1, <2>2
<1>2. ASSUME NEW u \in Users, RemoveMember(u) PROVE CallIInv'
  <2>1. removal = Idle /\ removal'.pc = "collect" /\ removal'.user = u /\ members' = members \ {u} /\ u \in members
    BY <1>2 DEF RemoveMember
  <2>2. RemovalFits'
    BY <2>1 DEF RemovalFits
  <2>3. ASSUME NEW s \in CallSockets PROVE SocketFits(s)'
    <3>1. UNCHANGED <<stored, calls, clients, join, leave, update, beat, listing, late, remnant, away>>
      BY <1>2 DEF RemoveMember
    <3>2. HeldIsRecorded(s)'
      BY <1>t, <1>u, <2>1, <3>1 DEF SocketFits, HeldIsRecorded, Held
    <3>3. CaughtFits(s)'
      <4>1. CASE UserOf[s] = u
        <5>1. UserOf[s] \notin caught
          BY <1>t, <2>1, <4>1 DEF SocketFits, CaughtFits
        <5>2. UserOf[s] \in caught' => join[s] = "idle"
          BY <1>2, <4>1, <5>1 DEF RemoveMember
        <5> QED
          BY <2>1, <3>1, <4>1, <5>2 DEF CaughtFits
      <4>2. CASE UserOf[s] # u
        <5>1. UserOf[s] \in caught' => UserOf[s] \in caught
          BY <1>2, <4>2 DEF RemoveMember
        <5>2. removal.user # UserOf[s]
          BY <1>t, <1>u, <2>1
        <5> QED
          BY <1>t, <2>1, <3>1, <5>1, <5>2 DEF SocketFits, CaughtFits
      <4> QED
        BY <4>1, <4>2
    <3> QED
      BY <1>t, <2>1, <3>1, <3>2, <3>3 DEF SocketFits, ClientFits, UnbornFits, RemnantFits, JoinIsAwaited, FoundFits,
           RecordedIsKept, AwayFits
  <2> QED
    BY <1>1, <2>2, <2>3 DEF CallIInv
<1>3. CASE RemoveCollect
  <2> DEFINE found == {s \in CallSockets : UserOf[s] = removal.user /\ stored[s] # Nobody}
  <2>1. UNCHANGED <<stored, calls, clients, join, leave, update, beat, listing, members, callHistory>>
        /\ removal.pc = "collect"
    BY <1>3 DEF RemoveCollect
  <2>2. \/ found = {} /\ removal' = Idle
        \/ removal'.pc = "drop" /\ removal'.found = found /\ removal'.user = removal.user
    BY <1>3, <1>t DEF RemoveCollect, CallTypeOK
  <2>3. RemovalFits'
    BY <2>1, <2>2, <1>t, <1>u DEF RemovalFits
  <2>4. ASSUME NEW s \in CallSockets PROVE SocketFits(s)'
    <3>1. FoundFits(s)'
      BY <1>t, <1>u, <2>1, <2>2 DEF SocketFits, FoundFits, UnbornFits, CallTypeOK
    <3>2. Held(UserOf[s])' => Held(UserOf[s])
      BY <1>t, <1>u, <2>1, <2>2 DEF Held
    <3>3. CaughtFits(s)'
      <4>1. ASSUME client[s] = "in", s \notin remnant, removal.user = UserOf[s] PROVE s \in found
        BY <1>t, <4>1 DEF SocketFits, HeldIsRecorded, Held, ClientFits, RecordedIsKept
      <4> QED
        BY <1>t, <2>1, <2>2, <4>1 DEF SocketFits, CaughtFits
    <3> QED
      BY <1>t, <2>1, <3>1, <3>2, <3>3 DEF SocketFits, ClientFits, UnbornFits, RemnantFits, JoinIsAwaited, HeldIsRecorded,
           RecordedIsKept, AwayFits
  <2> QED
    BY <1>1, <2>3, <2>4 DEF CallIInv
<1>4. CASE RemoveDrop
  <2>1. UNCHANGED <<open, ended, client, join, leave, update, beat, listing, late, remnant, away, members, caught>>
        /\ removal.pc = "drop" /\ removal' = Idle
    BY <1>4 DEF RemoveDrop
  <2>2. RemovalFits'
    BY <2>1, <1>u DEF RemovalFits
  <2>3. ASSUME NEW s \in CallSockets PROVE SocketFits(s)'
    <3>1. CASE s \in removal.found
      <4>1. stored'[s] = Nobody /\ s \notin calls' /\ UserOf[s] = removal.user /\ removal.user \notin members
            /\ (s \in told' <=> s \in told \/ (s \in room /\ client[s] # "out"))
        BY <1>4, <1>t, <3>1 DEF RemoveDrop, SocketFits, FoundFits, RemovalFits
      <4> QED
        BY <1>t, <1>u, <2>1, <3>1, <4>1 DEF SocketFits, ClientFits, UnbornFits, RemnantFits, JoinIsAwaited, FoundFits,
             RecordedIsKept, HeldIsRecorded, Held, CaughtFits, AwayFits
    <3>2. CASE s \notin removal.found
      <4>1. /\ stored'[s] = stored[s] /\ (s \in calls' <=> s \in calls)
            /\ (s \in told' <=> s \in told) /\ (s \in room' <=> s \in room)
        BY <1>4, <1>t, <3>2 DEF RemoveDrop, CallTypeOK
      <4> QED
        BY <1>t, <1>u, <2>1, <3>2, <4>1 DEF SocketFits, ClientFits, UnbornFits, RemnantFits, JoinIsAwaited, FoundFits,
             RecordedIsKept, HeldIsRecorded, Held, CaughtFits, AwayFits
    <3> QED
      BY <3>1, <3>2
  <2> QED
    BY <1>1, <2>2, <2>3 DEF CallIInv
<1> QED
  BY <1>2, <1>3, <1>4 DEF RemoveStep

--------------------------------------------------------------------------------
(* The invariant.                                                           *)

LEMMA CallInitIInv == CallInit => CallIInv
BY CallInitTypeOK, CallRegistryAssumption DEF CallInit, CallIInv, Idle, RemovalFits, SocketFits, ClientFits, UnbornFits,
   JoinIsAwaited, RemnantFits, FoundFits, RecordedIsKept, HeldIsRecorded, Held, CaughtFits, AwayFits, PeersFit, Peers

LEMMA CallNextIInv == CallIInv /\ [CallNext]_callVars => CallIInv'
<1> SUFFICES ASSUME CallIInv, [CallNext]_callVars PROVE CallIInv'
  OBVIOUS
<1>0. CallTypeOK'
  BY CallNextTypes DEF CallIInv
<1>1. CASE UNCHANGED callVars
  BY <1>1 DEF callVars, redis, clients, handlers, callHistory, CallIInv, CallTypeOK, RemovalFits, SocketFits, ClientFits, UnbornFits,
     JoinIsAwaited, RemnantFits, FoundFits, RecordedIsKept, HeldIsRecorded, Held, CaughtFits, AwayFits, PeersFit, Peers
<1>2. CASE CallNext
  BY <1>0, <1>2, UpdateSteps, LeavingSteps, StartStep, JoinSteps, CallTickStep, ReadSteps, RemovalSteps DEF CallNext
<1> QED
  BY <1>1, <1>2

LEMMA CallIInvSafe ==
    ASSUME CallIInv
    PROVE  ParticipantKept /\ PeersConnected /\ LeftIsHidden /\ RemovedIsTold
<1>t. CallTypeOK /\ \A s \in CallSockets : SocketFits(s)
  BY DEF CallIInv
<1>1. ParticipantKept
  BY <1>t, CallRegistryAssumption DEF ParticipantKept, CallTypeOK, SocketFits, ClientFits, HeldIsRecorded, Held, RecordedIsKept, Shown
<1>2. PeersConnected
  BY <1>t DEF PeersConnected, CallTypeOK, SocketFits, ClientFits, CallIInv, PeersFit, Peers
<1>3. LeftIsHidden
  BY <1>t, CallRegistryAssumption DEF LeftIsHidden, CallTypeOK, CallOldest, SocketFits, AwayFits, Shown
<1>4. RemovedIsTold
  BY <1>t DEF RemovedIsTold, CallTypeOK, SocketFits, CaughtFits
<1> QED
  BY <1>1, <1>2, <1>3, <1>4

--------------------------------------------------------------------------------
(* The theorems about calls.                                                *)

\* A client in the call of a server it belongs to stays a participant that every read
\* shows: reads, heartbeats, removals and crashes of others never take it out, and neither
\* does a leave of its own, unless that was under way when the participant was recorded.
THEOREM ParticipantsStay == CallSpec => []ParticipantKept
<1>1. CallIInv => ParticipantKept
  BY CallIInvSafe
<1> QED
  BY <1>1, CallInitIInv, CallNextIInv, PTL DEF CallSpec

\* Of two members in the call whose joins did not overlap, one offered a connection.
THEOREM PeersHearEachOther == CallSpec => []PeersConnected
<1>1. CallIInv => PeersConnected
  BY CallIInvSafe
<1> QED
  BY <1>1, CallInitIInv, CallNextIInv, PTL DEF CallSpec

\* Whoever left the call is not shown in it for longer than the time to live, whatever
\* writes of theirs were under way, and after a crash of their instance too: counted from
\* the end of the socket when the leave ended before the join had recorded the participant.
THEOREM WhoLeftIsHidden == CallSpec => []LeftIsHidden
<1>1. CallIInv => LeftIsHidden
  BY CallIInvSafe
<1> QED
  BY <1>1, CallInitIInv, CallNextIInv, PTL DEF CallSpec

\* A removed member whose join was not under way is told to hang up.
THEOREM WhoIsRemovedIsTold == CallSpec => []RemovedIsTold
<1>1. CallIInv => RemovedIsTold
  BY CallIInvSafe
<1> QED
  BY <1>1, CallInitIInv, CallNextIInv, PTL DEF CallSpec

--------------------------------------------------------------------------------
(* Both together.                                                           *)

RealtimeIInv == PresenceIInv /\ CallIInv

LEMMA RealtimeInvariant == RealtimeSpec => []RealtimeIInv
<1>1. RealtimeInit => RealtimeIInv
  BY PresenceInit, CallInitIInv DEF RealtimeInit, RealtimeIInv
<1>2. RealtimeIInv /\ [RealtimeNext]_<<about, vars, callVars>> => RealtimeIInv'
  <2> SUFFICES ASSUME RealtimeIInv, [RealtimeNext]_<<about, vars, callVars>> PROVE RealtimeIInv'
    OBVIOUS
  <2>1. [Next]_vars /\ [CallNext]_callVars
    BY DEF RealtimeNext
  <2> QED
    BY <2>1, PresenceStep, CallNextIInv DEF RealtimeIInv
<1> QED
  BY <1>1, <1>2, PTL DEF RealtimeSpec

\* Every variable of presence and of calls keeps its type.
THEOREM RealtimeTypesHold == RealtimeSpec => []RealtimeTypeOK
<1> DEFINE Types == IInv /\ CallTypeOK
<1>1. RealtimeInit => Types
  BY InitIInv, CallInitTypeOK DEF RealtimeInit
<1>2. Types /\ [RealtimeNext]_<<about, vars, callVars>> => Types'
  <2> SUFFICES ASSUME Types, [RealtimeNext]_<<about, vars, callVars>> PROVE Types'
    OBVIOUS
  <2>1. [Next]_vars /\ [CallNext]_callVars
    BY DEF RealtimeNext
  <2> QED
    BY <2>1, NextStep, CallNextTypes
<1>3. Types => RealtimeTypeOK
  BY DEF IInv, RealtimeTypeOK
<1> QED
  BY <1>1, <1>2, <1>3, PTL DEF RealtimeSpec

\* All of it holds of the two services side by side.
THEOREM RealtimeIsSafe ==
    RealtimeSpec => [](/\ LiveSocketKept /\ GoneIsUnlisted /\ GoneIsOffline
                              /\ ParticipantKept /\ PeersConnected /\ LeftIsHidden /\ RemovedIsTold)
<1>1. PresenceIInv => LiveSocketKept /\ GoneIsUnlisted /\ GoneIsOffline
  BY PresenceAssumption DEF PresenceIInv, IInv, TypeOK, Kept, LiveSocketKept, Live, GoneFits, GoneIsUnlisted,
     OfflineIsDue, GoneIsOffline, Absent, Unused
<1>2. CallIInv => ParticipantKept /\ PeersConnected /\ LeftIsHidden /\ RemovedIsTold
  BY CallIInvSafe
<1> QED
  BY <1>1, <1>2, RealtimeInvariant, PTL DEF RealtimeIInv
================================================================================
