------------------------ MODULE ServerMembership_proofs ------------------------
(***************************************************************************)
(* Proofs about ServerMembership, for every set of users and moderators,   *)
(* every number of requests in flight and every limit of the invite.       *)
(***************************************************************************)
EXTENDS ServerMembership, FiniteSetTheorems, TLAPS

\* What the checks of a handler established about the users it names.
Named ==
    \A h \in Handlers :
        /\ handlers[h].pc # "idle" => handlers[h].user \in Users
        /\ handlers[h].pc \in {"kick", "leave", "ban", "remove", "transfer"} => handlers[h].target \in Users
        /\ handlers[h].pc \in {"kick", "leave", "transfer"} => handlers[h].row # 0
        /\ handlers[h].pc = "transfer" => handlers[h].user # handlers[h].target

HandlersOK == handlers \in [Handlers -> Handler] /\ Named

\* A join in flight already has its row and its use reserved.
JoinsFit ==
    /\ rowsMade + Cardinality(Joins) <= MaxRows
    /\ uses + Cardinality(Joins) < MaxUses + Cardinality(Handlers)

IInv == TypeOK /\ Named /\ JoinsFit /\ OneOwner

LEMMA IdleHandlerType == IdleHandler \in Handler
BY MembershipAssumption DEF IdleHandler, Handler, Phases

\* The set of joins in flight is finite, so it can be counted.
LEMMA JoinsCounted ==
    /\ IsFiniteSet(Joins) /\ Cardinality(Joins) \in Nat
    /\ Cardinality(Handlers) \in Nat
    /\ Cardinality(Joins) <= Cardinality(Handlers)
<1>1. Joins \subseteq Handlers
  BY DEF Joins
<1> QED
  BY <1>1, MembershipAssumption, FS_Subset, FS_CardinalityType

LEMMA InitIInv == Init => IInv
<1> SUFFICES ASSUME Init PROVE IInv
  OBVIOUS
<1>1. handlers \in [Handlers -> Handler] /\ Named
  BY IdleHandlerType DEF Init, Named, IdleHandler
<1>2. row \in [Users -> 0 .. MaxRows] /\ ownerRows \subseteq Members /\ rowsMade \in 0 .. MaxRows
  BY MembershipAssumption DEF Init, Members
<1>3. account \in [Users -> AccountStates] /\ sweeps \in [Instances -> Users \cup {NoUser}]
  BY DEF Init, AccountStates
<1>4. TypeOK
  BY <1>1, <1>2, <1>3 DEF Init, TypeOK
<1>5. Joins = {}
  BY DEF Init, Joins, At, IdleHandler
<1>6. JoinsFit
  <2>1. Cardinality(Joins) = 0
    BY <1>5, FS_EmptySet
  <2> QED
    BY <2>1, JoinsCounted, MembershipAssumption DEF Init, JoinsFit
<1> QED
  BY <1>1, <1>4, <1>6 DEF IInv, Init, OneOwner

--------------------------------------------------------------------------------
(* A request that begins, and one that ends.                                *)

LEMMA BeginKeeps ==
    ASSUME IInv, NEW h \in Handlers, NEW pc \in Phases \ {"idle"}, NEW u \in Users,
           NEW v \in Users \cup {NoUser}, NEW id \in 0 .. MaxRows, Begin(h, pc, u, v, id),
           pc \in {"kick", "leave", "ban", "remove", "transfer"} => v \in Users,
           pc \in {"kick", "leave", "transfer"} => id # 0,
           pc = "transfer" => u # v
    PROVE  /\ HandlersOK'
           /\ h \notin Joins
           /\ Joins' = IF pc = "join" THEN Joins \cup {h} ELSE Joins
<1>1. handlers' \in [Handlers -> Handler]
  BY DEF IInv, TypeOK, Begin, Handler
<1>2. \A g \in Handlers : handlers'[g] = IF g = h THEN [pc |-> pc, user |-> u, target |-> v, row |-> id]
                                         ELSE handlers[g]
  BY DEF IInv, TypeOK, Begin
<1>3. Named'
  BY <1>2 DEF IInv, Named
<1>4. h \notin Joins
  BY DEF Begin, Joins, At
<1>5. \A g \in Handlers : g \in Joins' <=> (IF g = h THEN pc = "join" ELSE g \in Joins)
  BY <1>2 DEF Joins, At
<1>6. Joins \subseteq Handlers /\ Joins' \subseteq Handlers
  BY DEF Joins
<1> QED
  BY <1>1, <1>3, <1>4, <1>5, <1>6 DEF HandlersOK

LEMMA EndKeeps ==
    ASSUME IInv, NEW h \in Handlers, handlers' = [handlers EXCEPT ![h] = IdleHandler]
    PROVE  HandlersOK' /\ Joins' = Joins \ {h}
<1>1. handlers' \in [Handlers -> Handler]
  BY IdleHandlerType DEF IInv, TypeOK
<1>2. \A g \in Handlers : handlers'[g] = IF g = h THEN IdleHandler ELSE handlers[g]
  BY DEF IInv, TypeOK
<1>3. Named'
  BY <1>2 DEF IInv, Named, IdleHandler
<1>4. \A g \in Handlers : g \in Joins' <=> g # h /\ g \in Joins
  BY <1>2 DEF Joins, At, IdleHandler
<1>5. Joins \subseteq Handlers /\ Joins' \subseteq Handlers
  BY DEF Joins
<1> QED
  BY <1>1, <1>3, <1>4, <1>5 DEF HandlersOK

\* A request that ends leaves room, provided it counted no row and no use.
LEMMA EndFits ==
    ASSUME IInv, NEW h \in Handlers, handlers' = [handlers EXCEPT ![h] = IdleHandler],
           UNCHANGED <<rowsMade, uses>>
    PROVE  JoinsFit'
<1>1. Joins' = Joins \ {h}
  BY EndKeeps
<1>2. Cardinality(Joins') \in Nat /\ Cardinality(Joins') <= Cardinality(Joins)
  BY <1>1, JoinsCounted, FS_Subset, FS_CardinalityType
<1> QED
  BY <1>2, JoinsCounted, MembershipAssumption DEF IInv, TypeOK, JoinsFit

\* Deleting member rows keeps the rest of the types.
LEMMA RemovalKeeps ==
    ASSUME IInv, NEW S, RemoveRows(S)
    PROVE  row' \in [Users -> 0 .. MaxRows] /\ ownerRows' \subseteq Members' /\ ownerRows' \subseteq ownerRows
BY MembershipAssumption DEF IInv, TypeOK, RemoveRows, Members

--------------------------------------------------------------------------------
(* The steps.                                                               *)

LEMMA BeginStep ==
    ASSUME IInv, NEW h \in Handlers, NEW pc \in Phases \ {"idle", "join"}, NEW u \in Users,
           NEW v \in Users \cup {NoUser}, NEW id \in 0 .. MaxRows, Begin(h, pc, u, v, id),
           pc \in {"kick", "leave", "ban", "remove", "transfer"} => v \in Users,
           pc \in {"kick", "leave", "transfer"} => id # 0,
           pc = "transfer" => u # v
    PROVE  IInv'
<1>1. HandlersOK' /\ Joins' = Joins
  BY BeginKeeps
<1>2. TypeOK'
  BY <1>1 DEF IInv, TypeOK, HandlersOK, Begin, serverVars, Members
<1>3. JoinsFit'
  BY <1>1 DEF IInv, JoinsFit, Begin, serverVars
<1> QED
  BY <1>1, <1>2, <1>3 DEF IInv, HandlersOK, OneOwner, Begin, serverVars

LEMMA StartStep ==
    ASSUME IInv, NEW h \in Handlers, Start(h)
    PROVE  IInv'
<1> USE MembershipAssumption
<1>t. row \in [Users -> 0 .. MaxRows] /\ ownerRows \subseteq Members /\ Members \subseteq Users
  BY DEF IInv, TypeOK, Members
<1>1. ASSUME NEW u \in Users, StartJoin(h, u) PROVE IInv'
  <2>1. Begin(h, "join", u, NoUser, 0) /\ RowLeft /\ uses < MaxUses
    BY <1>1 DEF StartJoin
  <2>2. HandlersOK' /\ h \notin Joins /\ Joins' = Joins \cup {h}
    <3>1. "join" \in Phases \ {"idle"} /\ 0 \in 0 .. MaxRows
      BY DEF Phases
    <3> QED
      BY <2>1, <3>1, BeginKeeps
  <2>3. Cardinality(Joins') = Cardinality(Joins) + 1
    BY <2>2, JoinsCounted, FS_AddElement
  <2>4. Joins' \subseteq Handlers
    BY DEF Joins
  <2>5. Cardinality(Joins') <= Cardinality(Handlers)
    BY <2>4, FS_Subset
  <2>6. JoinsFit'
    BY <2>1, <2>3, <2>5, JoinsCounted DEF IInv, TypeOK, JoinsFit, RowLeft, Begin, serverVars
  <2>7. TypeOK'
    BY <2>1, <2>2 DEF IInv, TypeOK, HandlersOK, Begin, serverVars, Members
  <2> QED
    BY <2>1, <2>2, <2>6, <2>7 DEF IInv, HandlersOK, OneOwner, Begin, serverVars
<1>2. ASSUME NEW u \in Users, StartLeave(h, u) PROVE IInv'
  <2>1. Begin(h, "leave", u, u, row[u]) /\ row[u] \in 0 .. MaxRows /\ row[u] # 0
    BY <1>2, <1>t DEF StartLeave, Members
  <2> QED
    BY <2>1, BeginStep DEF Phases
<1>3. ASSUME NEW u \in Users, StartDelete(h, u) PROVE IInv'
  BY <1>3, BeginStep DEF StartDelete, Phases
<1>4. ASSUME NEW u \in Users, StartClose(h, u) PROVE IInv'
  BY <1>4, BeginStep DEF StartClose, Phases
<1>5. ASSUME NEW u \in Users, NEW v \in Users, StartKick(h, u, v) PROVE IInv'
  <2>1. Begin(h, "kick", u, v, row[v]) /\ row[v] \in 0 .. MaxRows /\ row[v] # 0
    BY <1>5, <1>t DEF StartKick, Members
  <2> QED
    BY <2>1, BeginStep DEF Phases
<1>6. ASSUME NEW u \in Users, NEW v \in Users, StartBan(h, u, v) PROVE IInv'
  BY <1>6, BeginStep DEF StartBan, Phases
<1>7. ASSUME NEW u \in Users, NEW v \in Users, StartTransfer(h, u, v) PROVE IInv'
  <2>1. Begin(h, "transfer", u, v, row[v]) /\ row[v] \in 0 .. MaxRows /\ row[v] # 0 /\ u # v
    BY <1>7, <1>t DEF StartTransfer, Members
  <2> QED
    BY <2>1, BeginStep DEF Phases
<1> QED
  BY <1>1, <1>2, <1>3, <1>4, <1>5, <1>6, <1>7 DEF Start

\* A transaction that is rolled back, or a process that stops.
LEMMA RollbackStep ==
    ASSUME IInv, NEW h \in Handlers, handlers' = [handlers EXCEPT ![h] = IdleHandler],
           UNCHANGED <<serverVars, account, sweeps>>
    PROVE  IInv'
<1>1. HandlersOK' /\ JoinsFit'
  BY EndKeeps, EndFits DEF serverVars
<1> QED
  BY <1>1 DEF IInv, TypeOK, HandlersOK, OneOwner, Members, serverVars

\* A transaction that deletes member rows and makes none.
LEMMA RemovalStep ==
    ASSUME IInv, NEW h \in Handlers, Done(h), NEW S, RemoveRows(S),
           live' \in BOOLEAN, bans' \subseteq Users, rotations' \in Nat,
           UNCHANGED <<owner, rowsMade, uses, account>>
    PROVE  IInv'
<1>1. HandlersOK' /\ JoinsFit'
  BY EndKeeps, EndFits DEF Done
<1>2. row' \in [Users -> 0 .. MaxRows] /\ ownerRows' \subseteq Members' /\ ownerRows' \subseteq ownerRows
  BY RemovalKeeps
<1> QED
  BY <1>1, <1>2 DEF IInv, TypeOK, HandlersOK, OneOwner, Done

LEMMA CommitStep ==
    ASSUME IInv, NEW h \in Handlers, Commit(h)
    PROVE  IInv'
<1> USE MembershipAssumption
<1>r. ASSUME RolledBack(h) PROVE IInv'
  BY <1>r, RollbackStep DEF RolledBack, Done
<1>t. TypeOK /\ Named /\ OneOwner
  BY DEF IInv
<1>1. CASE CommitJoin(h)
  <2> DEFINE u == handlers[h].user
  <2> SUFFICES ASSUME ~RolledBack(h) PROVE IInv'
    BY <1>r
  <2>1. /\ h \in Joins /\ u \in Users /\ u \notin Members
        /\ rowsMade' = rowsMade + 1 /\ uses' = uses + 1
        /\ row' = [row EXCEPT ![u] = rowsMade + 1]
        /\ Done(h)
        /\ UNCHANGED <<live, owner, ownerRows, bans, rotations, account>>
    BY <1>1, <1>t DEF CommitJoin, At, Joins, Named
  <2>2. HandlersOK' /\ Joins' = Joins \ {h}
    BY <2>1, EndKeeps DEF Done
  <2>3. Cardinality(Joins') = Cardinality(Joins) - 1
    BY <2>1, <2>2, JoinsCounted, FS_RemoveElement
  <2>4. Cardinality(Joins') \in Nat
    BY <2>2, JoinsCounted, FS_Subset, FS_CardinalityType
  <2>5. JoinsFit' /\ rowsMade' \in 0 .. MaxRows /\ uses' \in Nat
    BY <2>1, <2>3, <2>4, JoinsCounted DEF IInv, TypeOK, JoinsFit
  <2>6. row' \in [Users -> 0 .. MaxRows] /\ ownerRows' \subseteq Members'
    BY <1>t, <2>1, <2>5 DEF TypeOK, Members
  <2> QED
    BY <1>t, <2>1, <2>2, <2>5, <2>6 DEF IInv, TypeOK, HandlersOK, OneOwner, Done
<1>2. CASE CommitRemoval(h)
  BY <1>2, <1>r, <1>t, RemovalStep DEF CommitRemoval, Rotate, TypeOK
<1>b. CASE FindBanned(h)
  <2> DEFINE v == handlers[h].target
  <2>1. v \in Users /\ handlers[h].pc = "ban" /\ row[v] \in 0 .. MaxRows
    BY <1>b, <1>t DEF FindBanned, At, Named, TypeOK
  <2>2. handlers' = [handlers EXCEPT ![h] = [handlers[h] EXCEPT !.pc = "remove", !.row = row[v]]]
    BY <1>b, <1>t DEF FindBanned, TypeOK
  <2>3. /\ handlers'[h].pc = "remove" /\ handlers'[h].user = handlers[h].user /\ handlers'[h].target = v
        /\ handlers'[h] \in Handler
    BY <1>t, <2>1, <2>2 DEF TypeOK, Handler, Phases
  <2>4. \A g \in Handlers : g # h => handlers'[g] = handlers[g]
    BY <1>t, <2>2 DEF TypeOK
  <2>5. handlers' \in [Handlers -> Handler]
    BY <1>t, <2>2, <2>3 DEF TypeOK
  <2>6. Named'
    BY <1>t, <2>1, <2>3, <2>4 DEF Named
  <2>7. Joins' = Joins
    BY <2>1, <2>3, <2>4 DEF Joins, At
  <2>8. UNCHANGED <<serverVars, account, sweeps>>
    BY <1>b DEF FindBanned
  <2> QED
    BY <1>t, <2>5, <2>6, <2>7, <2>8 DEF IInv, TypeOK, JoinsFit, OneOwner, Members, serverVars
<1>3. CASE CommitBan(h)
  <2>1. handlers[h].target \in Users
    BY <1>3, <1>t DEF CommitBan, At, Named
  <2> QED
    BY <2>1, <1>3, <1>r, <1>t, RemovalStep DEF CommitBan, Rotate, TypeOK
<1>4. CASE CommitTransfer(h)
  <2> DEFINE u == handlers[h].user
             v == handlers[h].target
  <2> SUFFICES ASSUME ~RolledBack(h) PROVE IInv'
    BY <1>r
  <2>1. /\ owner = u /\ row[v] = handlers[h].row
        /\ owner' = v /\ ownerRows' = (ownerRows \cup {v}) \ {u}
        /\ Done(h)
        /\ UNCHANGED <<live, row, rowsMade, bans, uses, rotations, account>>
    BY <1>4 DEF CommitTransfer
  <2>2. v \in Users /\ row[v] # 0 /\ u # v
    BY <1>4, <1>t, <2>1 DEF CommitTransfer, At, Named
  <2>3. ownerRows' = {v} /\ v \in Members'
    BY <1>t, <2>1, <2>2 DEF OneOwner, TypeOK, Members
  <2>4. HandlersOK' /\ JoinsFit'
    BY <2>1, EndKeeps, EndFits DEF Done
  <2> QED
    BY <1>t, <2>1, <2>2, <2>3, <2>4 DEF IInv, TypeOK, HandlersOK, OneOwner, Done
<1>5. CASE CommitDelete(h)
  BY <1>5, <1>r, <1>t, RemovalStep DEF CommitDelete, TypeOK
<1>6. CASE CommitClose(h)
  <2> SUFFICES ASSUME ~RolledBack(h) PROVE IInv'
    BY <1>r
  <2>1. /\ account' = [account EXCEPT ![handlers[h].user] = "DELETING"]
        /\ Done(h) /\ UNCHANGED serverVars
    BY <1>6 DEF CommitClose
  <2>2. HandlersOK' /\ JoinsFit'
    BY <2>1, EndKeeps, EndFits DEF Done, serverVars
  <2> QED
    BY <1>t, <2>1, <2>2 DEF IInv, TypeOK, HandlersOK, OneOwner, Done, Members, serverVars, AccountStates
<1> QED
  BY <1>1, <1>2, <1>b, <1>3, <1>4, <1>5, <1>6 DEF Commit

\* The steps of the account sweeps, and those that touch no request at all.
LEMMA QuietStep ==
    ASSUME IInv, UNCHANGED handlers,
           row' \in [Users -> 0 .. MaxRows], ownerRows' \subseteq Members', ownerRows' \subseteq ownerRows,
           bans' \subseteq Users, account' \in [Users -> AccountStates],
           sweeps' \in [Instances -> Users \cup {NoUser}],
           UNCHANGED <<live, owner, rowsMade, uses, rotations>>
    PROVE  IInv'
<1>1. Joins' = Joins
  BY DEF Joins, At
<1> QED
  BY <1>1 DEF IInv, TypeOK, Named, JoinsFit, OneOwner

LEMMA NextStep == IInv /\ [Next]_vars => IInv'
<1> SUFFICES ASSUME IInv, [Next]_vars PROVE IInv'
  OBVIOUS
<1>t. TypeOK
  BY DEF IInv
<1>m. ASSUME UNCHANGED row PROVE Members' = Members
  BY <1>m DEF Members
<1>1. ASSUME NEW h \in Handlers, Start(h) PROVE IInv'
  BY <1>1, StartStep
<1>2. ASSUME NEW h \in Handlers, Commit(h) PROVE IInv'
  BY <1>2, CommitStep
<1>3. ASSUME NEW h \in Handlers, FailRequest(h) PROVE IInv'
  BY <1>3, RollbackStep DEF FailRequest
<1>4. ASSUME NEW i \in Instances, CommitAnonymize(i) PROVE IInv'
  <2>1. UNCHANGED handlers /\ sweeps' \in [Instances -> Users \cup {NoUser}]
    BY <1>4, <1>t DEF CommitAnonymize, EndSweep, TypeOK
  <2>2. CASE UNCHANGED <<serverVars, account>>
    BY <2>1, <2>2, <1>m, <1>t, QuietStep DEF serverVars, TypeOK
  <2>3. CASE /\ account' = [account EXCEPT ![sweeps[i]] = "ERASED"]
             /\ RemoveRows({sweeps[i]})
             /\ UNCHANGED <<live, owner, rowsMade, bans, uses, rotations>>
    <3>1. row' \in [Users -> 0 .. MaxRows] /\ ownerRows' \subseteq Members' /\ ownerRows' \subseteq ownerRows
      BY <2>3, RemovalKeeps
    <3>2. account' \in [Users -> AccountStates]
      BY <2>3, <1>t DEF TypeOK, AccountStates
    <3> QED
      BY <2>1, <2>3, <3>1, <3>2, <1>t, QuietStep DEF TypeOK
  <2> QED
    BY <1>4, <2>2, <2>3 DEF CommitAnonymize
<1>5. ASSUME NEW i \in Instances, NEW u \in Users, StartAnonymize(i, u) PROVE IInv'
  BY <1>5, <1>m, <1>t, QuietStep DEF StartAnonymize, serverVars, TypeOK
<1>6. ASSUME NEW i \in Instances, FailSweep(i) PROVE IInv'
  BY <1>6, <1>m, <1>t, QuietStep DEF FailSweep, serverVars, TypeOK
<1>7. ASSUME NEW u \in Users, NEW v \in Users, Unban(u, v) PROVE IInv'
  BY <1>7, <1>m, <1>t, QuietStep DEF Unban, TypeOK
<1>8. ASSUME NEW u \in Users, CancelDeletion(u) PROVE IInv'
  BY <1>8, <1>m, <1>t, QuietStep DEF CancelDeletion, serverVars, TypeOK, AccountStates
<1>9. ASSUME NEW u \in Users, GracePasses(u) PROVE IInv'
  BY <1>9, <1>m, <1>t, QuietStep DEF GracePasses, serverVars, TypeOK, AccountStates
<1>10. CASE UNCHANGED vars
  BY <1>10, <1>m, <1>t, QuietStep DEF vars, serverVars, TypeOK
<1> QED
  BY <1>1, <1>2, <1>3, <1>4, <1>5, <1>6, <1>7, <1>8, <1>9, <1>10 DEF Next, SweepAccounts

LEMMA Invariance == Spec => []IInv
BY InitIInv, NextStep, PTL DEF Spec

\* The server is deleted, and its owner changed, by one kind of step each.
LEMMA OwnershipSteps ==
    ASSUME Next
    PROVE  /\ live' # live => \E h \in Handlers : CommitDelete(h)
           /\ owner' # owner => \E h \in Handlers : CommitTransfer(h)
<1>1. ASSUME NEW h \in Handlers, Start(h) PROVE UNCHANGED <<live, owner>>
  BY <1>1 DEF Start, StartJoin, StartLeave, StartDelete, StartClose, StartKick, StartBan,
              StartTransfer, Begin, serverVars
<1>2. ASSUME NEW h \in Handlers, Commit(h), ~CommitDelete(h) PROVE UNCHANGED live
  BY <1>2 DEF Commit, CommitJoin, CommitRemoval, FindBanned, CommitBan, CommitTransfer, CommitClose,
              RolledBack, serverVars
<1>3. ASSUME NEW h \in Handlers, Commit(h), ~CommitTransfer(h) PROVE UNCHANGED owner
  BY <1>3 DEF Commit, CommitJoin, CommitRemoval, FindBanned, CommitBan, CommitDelete, CommitClose,
              RolledBack, serverVars
<1>4. ASSUME NEW h \in Handlers, FailRequest(h) PROVE UNCHANGED <<live, owner>>
  BY <1>4 DEF FailRequest, serverVars
<1>5. ASSUME NEW i \in Instances, SweepAccounts(i) \/ FailSweep(i) PROVE UNCHANGED <<live, owner>>
  BY <1>5 DEF SweepAccounts, CommitAnonymize, StartAnonymize, FailSweep, serverVars
<1>6. ASSUME NEW u \in Users, NEW v \in Users, Unban(u, v) PROVE UNCHANGED <<live, owner>>
  BY <1>6 DEF Unban
<1>7. ASSUME NEW u \in Users, CancelDeletion(u) \/ GracePasses(u) PROVE UNCHANGED <<live, owner>>
  BY <1>7 DEF CancelDeletion, GracePasses, serverVars
<1> QED
  BY <1>1, <1>2, <1>3, <1>4, <1>5, <1>6, <1>7 DEF Next

--------------------------------------------------------------------------------
(* The theorems.                                                            *)

\* The values stay in their types, and a member row of kind OWNER is a row.
THEOREM MembershipTypes == Spec => []TypeOK
<1>1. IInv => TypeOK
  BY DEF IInv
<1> QED
  BY <1>1, Invariance, PTL

\* The member rows and Server.ownerId never name two owners, however transfers,
\* removals, rejoins and deletions are interleaved.
THEOREM OwnerAgreed == Spec => []OneOwner
<1>1. IInv => OneOwner
  BY DEF IInv
<1> QED
  BY <1>1, Invariance, PTL

\* The invite is used at most once more for each request in flight beside the one
\* that reaches its limit.
THEOREM OvershootBounded == Spec => []InviteOvershoot
<1>1. IInv => InviteOvershoot
  BY JoinsCounted, MembershipAssumption DEF IInv, TypeOK, JoinsFit, InviteOvershoot
<1> QED
  BY <1>1, Invariance, PTL

\* A server is deleted only by a request of the one who owns it when it commits.
THEOREM OwnerDeletes == Spec => DeletedByOwner
<1> DEFINE A == live' # live =>
                   \E h \in Handlers : /\ handlers[h].pc = "delete" /\ handlers[h].user = owner
                                       /\ handlers'[h] # handlers[h]
<1>1. IInv /\ [Next]_vars => [A]_vars
  <2> SUFFICES ASSUME IInv, Next, live' # live PROVE A
    OBVIOUS
  <2>1. PICK h \in Handlers : CommitDelete(h)
    BY OwnershipSteps
  <2>2. handlers[h].pc = "delete" /\ handlers[h].user = owner /\ Done(h)
    BY <2>1 DEF CommitDelete, At, RolledBack, serverVars
  <2>3. handlers'[h].pc = "idle"
    BY <2>2 DEF Done, IInv, TypeOK, IdleHandler
  <2> QED
    BY <2>2, <2>3
<1> QED
  BY <1>1, Invariance, PTL DEF Spec, DeletedByOwner

\* Ownership moves between members only, together with the kind of their rows.
THEOREM TransferKeepsOwner == Spec => TransferToMember
<1> DEFINE A == owner' # owner => {owner, owner'} \subseteq Members /\ ownerRows' = {owner'}
<1>1. IInv /\ [Next]_vars => [A]_vars
  <2> SUFFICES ASSUME IInv, Next, owner' # owner PROVE A
    OBVIOUS
  <2>1. PICK h \in Handlers : CommitTransfer(h)
    BY OwnershipSteps
  <2>2. /\ owner = handlers[h].user /\ owner' = handlers[h].target
        /\ row[owner'] = handlers[h].row /\ owner \in Members
        /\ ownerRows' = (ownerRows \cup {owner'}) \ {owner}
        /\ handlers[h].pc = "transfer"
    BY <2>1 DEF CommitTransfer, At, RolledBack, serverVars
  <2>3. owner' \in Users /\ row[owner'] # 0
    BY <2>2 DEF IInv, Named
  <2> QED
    BY <2>2, <2>3 DEF IInv, OneOwner, Members
<1> QED
  BY <1>1, Invariance, PTL DEF Spec, TransferToMember

LEMMA NobodyRemoved ==
    ASSUME \A u \in Users : row[u] # 0 /\ row'[u] = 0 => account'[u] # account[u],
           UNCHANGED rotations, rotations \in Nat
    PROVE  /\ Cardinality(Removed) <= 1
           /\ rotations' \in {rotations, rotations + 1}
           /\ rotations' = rotations + Cardinality(Removed)
<1>1. Removed = {}
  BY DEF Removed
<1> QED
  BY <1>1, FS_EmptySet

\* The removal of one member is one rotation.
LEMMA OneRemoved ==
    ASSUME IInv, NEW v \in Members, RemoveRows({v}), Rotate, UNCHANGED account
    PROVE  /\ Cardinality(Removed) <= 1
           /\ rotations' \in {rotations, rotations + 1}
           /\ rotations' = rotations + Cardinality(Removed)
<1>1. Removed = {v}
  BY DEF Removed, RemoveRows, Members
<1>2. Cardinality({v}) = 1
  BY FS_Singleton
<1> QED
  BY <1>1, <1>2 DEF Rotate

\* Kicks, bans and departures rotate the keys once for each member that is gone,
\* and only then, whichever of them race for the same member, except for a ban
\* whose target joined or was removed after the ban had looked.
THEOREM KeysFollowMembers == Spec => RotatedOnce
<1> DEFINE A == live' => /\ Cardinality(Removed) <= 1
                         /\ rotations' \in {rotations, rotations + 1}
                         /\ rotations' = rotations + Cardinality(Removed) \/ CrossedBan
<1>1. IInv /\ [Next]_vars => [A]_vars
  <2> SUFFICES ASSUME IInv, Next, live' PROVE A
    OBVIOUS
  <2>t. rotations \in Nat /\ row \in [Users -> 0 .. MaxRows] /\ MaxRows \in Nat
    BY MembershipAssumption DEF IInv, TypeOK
  <2>0. ASSUME UNCHANGED <<row, rotations>> PROVE A
    BY <2>0, <2>t, NobodyRemoved
  <2>1. ASSUME NEW h \in Handlers, Start(h) PROVE A
    BY <2>1, <2>0 DEF Start, StartJoin, StartLeave, StartDelete, StartClose, StartKick, StartBan,
                      StartTransfer, Begin, serverVars
  <2>2. ASSUME NEW h \in Handlers, CommitJoin(h) PROVE A
    <3> DEFINE v == handlers[h].user
    <3>1. CASE RolledBack(h)
      BY <3>1, <2>0 DEF RolledBack, serverVars
    <3>2. CASE v \notin Members /\ row' = [row EXCEPT ![v] = rowsMade + 1] /\ UNCHANGED rotations
      <4>1. \A u \in Users : row[u] # 0 => row'[u] = row[u]
        BY <3>2, <2>t DEF Members
      <4> QED
        BY <3>2, <4>1, <2>t, NobodyRemoved
    <3> QED
      BY <2>2, <3>1, <3>2 DEF CommitJoin
  <2>3. ASSUME NEW h \in Handlers, CommitRemoval(h) PROVE A
    <3> DEFINE v == handlers[h].target
    <3>1. CASE RolledBack(h)
      BY <3>1, <2>0 DEF RolledBack, serverVars
    <3>2. CASE row[v] = handlers[h].row /\ RemoveRows({v}) /\ Rotate /\ UNCHANGED account
      <4>1. v \in Members
        BY <2>3, <3>2 DEF CommitRemoval, IInv, Named, Members
      <4> QED
        BY <3>2, <4>1, OneRemoved
    <3> QED
      BY <2>3, <3>1, <3>2 DEF CommitRemoval
  <2>4. ASSUME NEW h \in Handlers, CommitBan(h) PROVE A
    <3> DEFINE v == handlers[h].target
    <3>1. CASE RolledBack(h)
      BY <3>1, <2>0 DEF RolledBack, serverVars
    <3>2. CASE /\ RemoveRows({v}) /\ UNCHANGED account /\ Done(h)
               /\ IF handlers[h].row # 0 THEN Rotate ELSE UNCHANGED rotations
      <4>1. CASE (handlers[h].row = 0) # (row[v] = 0)
        <5>1. handlers[h].pc = "remove" /\ handlers'[h].pc = "idle"
          BY <2>4, <3>2 DEF CommitBan, At, Done, IInv, TypeOK, IdleHandler
        <5>2. CrossedBan
          BY <4>1, <5>1 DEF CrossedBan
        <5>3. rotations' \in {rotations, rotations + 1}
          BY <3>2 DEF Rotate
        <5>4. Removed \subseteq {v}
          BY <3>2 DEF Removed, RemoveRows
        <5>5. Cardinality(Removed) <= 1
          <6>1. IsFiniteSet({v}) /\ Cardinality({v}) = 1
            BY FS_Singleton
          <6> QED
            BY <5>4, <6>1, FS_Subset, FS_CardinalityType
        <5> QED
          BY <5>2, <5>3, <5>5
      <4>2. CASE handlers[h].row # 0 /\ row[v] # 0
        <5>1. v \in Members
          BY <2>4, <4>2 DEF CommitBan, At, IInv, Named, Members
        <5> QED
          BY <3>2, <4>2, <5>1, OneRemoved
      <4>3. CASE handlers[h].row = 0 /\ row[v] = 0
        <5>1. \A u \in Users : row[u] # 0 => row'[u] # 0
          BY <3>2, <4>3 DEF RemoveRows
        <5> QED
          BY <3>2, <4>3, <5>1, <2>t, NobodyRemoved
      <4> QED
        BY <4>1, <4>2, <4>3
    <3> QED
      BY <2>4, <3>1, <3>2 DEF CommitBan
  <2>b. ASSUME NEW h \in Handlers, FindBanned(h) PROVE A
    BY <2>b, <2>0 DEF FindBanned, serverVars
  <2>5. ASSUME NEW h \in Handlers, CommitTransfer(h) \/ CommitDelete(h) \/ CommitClose(h) PROVE A
    BY <2>5, <2>0 DEF CommitTransfer, CommitDelete, CommitClose, RolledBack, serverVars
  <2>6. ASSUME NEW i \in Instances, CommitAnonymize(i) PROVE A
    <3>1. CASE UNCHANGED serverVars
      BY <3>1, <2>0 DEF serverVars
    <3>2. CASE /\ account[sweeps[i]] = "DUE"
               /\ account' = [account EXCEPT ![sweeps[i]] = "ERASED"]
               /\ RemoveRows({sweeps[i]})
               /\ UNCHANGED rotations
      <4>1. \A u \in Users : row[u] # 0 /\ row'[u] = 0 => account'[u] # account[u]
        BY <3>2 DEF RemoveRows, IInv, TypeOK
      <4> QED
        BY <3>2, <4>1, <2>t, NobodyRemoved
    <3> QED
      BY <2>6, <3>1, <3>2 DEF CommitAnonymize
  <2>7. ASSUME NEW h \in Handlers, FailRequest(h) PROVE A
    BY <2>7, <2>0 DEF FailRequest, serverVars
  <2>8. ASSUME NEW i \in Instances, NEW u \in Users, StartAnonymize(i, u) PROVE A
    BY <2>8, <2>0 DEF StartAnonymize, serverVars
  <2>9. ASSUME NEW u \in Users, NEW v \in Users, Unban(u, v) PROVE A
    BY <2>9, <2>0 DEF Unban
  <2>10. ASSUME NEW u \in Users, CancelDeletion(u) \/ GracePasses(u) PROVE A
    BY <2>10, <2>0 DEF CancelDeletion, GracePasses, serverVars
  <2>11. ASSUME NEW i \in Instances, FailSweep(i) PROVE A
    BY <2>11, <2>0 DEF FailSweep, serverVars
  <2> QED
    BY <2>1, <2>2, <2>3, <2>4, <2>5, <2>6, <2>7, <2>8, <2>9, <2>10, <2>11, <2>b
       DEF Next, Commit, SweepAccounts
<1>2. [][A]_vars => RotatedOnce
  BY DEF RotatedOnce
<1> QED
  BY <1>1, <1>2, Invariance, PTL DEF Spec
================================================================================
