--------------------------- MODULE ServerMembership ---------------------------
(***************************************************************************)
(* Who belongs to a server and who owns it: the invite join, kick, leave,  *)
(* ban and unban (ServersService, ServerModerationService), the transfer   *)
(* and the deletion of the server (ServerOwnershipService), and the        *)
(* deletion of a member's account with its grace period                    *)
(* (AccountDeletionService, anonymizeAccount).                             *)
(*                                                                         *)
(* Each handler checks first and commits one transaction later, with other *)
(* handlers in between; that gap is what the module is about.  A           *)
(* transaction is one action, except the ban and the anonymization: other  *)
(* transactions may commit, under read committed, between what these read  *)
(* first (the member's row, the servers owned) and their writes.  The      *)
(* module is about one server; a step touches one server at most.          *)
(***************************************************************************)
EXTENDS Integers, FiniteSets

CONSTANTS
    Users,
    Moderators,  \* users whose roles grant KICK_MEMBERS and BAN_MEMBERS while they are members
    Handlers,    \* requests that may be in flight together
    Instances,   \* API instances, each with its account sweep
    NoUser,      \* what an idle handler or sweep works for, or a handler that acts on nobody else
    MaxUses,     \* maxUses of the invite everyone joins by
    MaxRows      \* bound of the member rows ever created

ASSUME MembershipAssumption ==
    /\ Moderators \subseteq Users
    /\ IsFiniteSet(Handlers)
    /\ NoUser \notin Users
    /\ MaxUses \in Nat \ {0}
    /\ MaxRows \in Nat \ {0}

VARIABLES
    live,       \* the server exists
    owner,      \* Server.ownerId
    row,        \* id of the ServerMember row of each user (0: none)
    ownerRows,  \* users whose member row has kind OWNER
    rowsMade,   \* ids given so far
    bans,       \* users with a ServerBan row
    uses,       \* usedCount of the invite
    rotations,  \* encryptionKeyVersion of the encrypted channels
    account,    \* deletion state of each account
    handlers,   \* the handlers in flight
    sweeps      \* the due account whose owned servers the sweep of each instance has counted

serverVars == <<live, owner, row, ownerRows, rowsMade, bans, uses, rotations>>
vars == <<serverVars, account, handlers, sweeps>>

--------------------------------------------------------------------------------
Phases == {"idle", "join", "kick", "leave", "ban", "remove", "transfer", "delete", "close"}

\* DELETING: within the grace period; DUE: past it.
AccountStates == {"ACTIVE", "DELETING", "DUE", "ERASED"}

Handler == [pc : Phases, user : Users \cup {NoUser}, target : Users \cup {NoUser}, row : 0 .. MaxRows]

IdleHandler == [pc |-> "idle", user |-> NoUser, target |-> NoUser, row |-> 0]

Members == {u \in Users : row[u] # 0}

TypeOK ==
    /\ live \in BOOLEAN
    /\ owner \in Users
    /\ row \in [Users -> 0 .. MaxRows]
    /\ ownerRows \subseteq Members
    /\ rowsMade \in 0 .. MaxRows
    /\ bans \subseteq Users
    /\ uses \in Nat
    /\ rotations \in Nat
    /\ account \in [Users -> AccountStates]
    /\ handlers \in [Handlers -> Handler]
    /\ sweeps \in [Instances -> Users \cup {NoUser}]

\* createServerFromSnapshot: the server, its owner's member row.
Init ==
    /\ live = TRUE
    /\ owner \in Users
    /\ row = [u \in Users |-> IF u = owner THEN 1 ELSE 0]
    /\ ownerRows = {owner}
    /\ rowsMade = 1
    /\ bans = {}
    /\ uses = 0
    /\ rotations = 0
    /\ account = [u \in Users |-> "ACTIVE"]
    /\ handlers = [h \in Handlers |-> IdleHandler]
    /\ sweeps = [i \in Instances |-> NoUser]

--------------------------------------------------------------------------------
\* A request of user u passes its checks; a session is valid only while no
\* deletion of the account was requested.
Begin(h, pc, u, v, id) ==
    /\ handlers[h].pc = "idle"
    /\ handlers' = [handlers EXCEPT ![h] = [pc |-> pc, user |-> u, target |-> v, row |-> id]]
    /\ UNCHANGED <<serverVars, account, sweeps>>

SignedIn(u) == account[u] = "ACTIVE"

MayModerate(u) == u \in Members /\ (u \in ownerRows \/ u \in Moderators)

At(h, pc) == handlers[h].pc = pc

\* The transaction of h ran, or was rolled back.
Done(h) == handlers' = [handlers EXCEPT ![h] = IdleHandler] /\ UNCHANGED sweeps

RolledBack(h) == Done(h) /\ UNCHANGED <<serverVars, account>>

\* The member rows of S are deleted.
RemoveRows(S) ==
    /\ row' = [u \in Users |-> IF u \in S THEN 0 ELSE row[u]]
    /\ ownerRows' = ownerRows \ S

\* bumpEncryptedChannelKeyVersions
Rotate == rotations' = rotations + 1

--------------------------------------------------------------------------------
(* Joining.                                                                 *)

Joins == {h \in Handlers : At(h, "join")}

\* Bound: the joins in flight can have their rows.
RowLeft == rowsMade + Cardinality(Joins) < MaxRows

\* Faulty form: the invite is not asked for its limit.
StartJoinUnlimited(h, u) ==
    /\ SignedIn(u)
    /\ live
    /\ u \notin bans
    /\ RowLeft
    /\ Begin(h, "join", u, NoUser, 0)

\* joinInvite up to its transaction: the invite's limit and the ban are read here.
StartJoin(h, u) ==
    /\ SignedIn(u)
    /\ live
    /\ uses < MaxUses
    /\ u \notin bans
    /\ RowLeft
    /\ Begin(h, "join", u, NoUser, 0)

\* An existing member joins again for free; a deleted server fails the insert.
CommitJoin(h) ==
    LET u == handlers[h].user IN
    /\ At(h, "join")
    /\ \/ /\ ~live \/ u \in Members
          /\ RolledBack(h)
       \/ /\ live /\ u \notin Members
          /\ rowsMade' = rowsMade + 1
          /\ row' = [row EXCEPT ![u] = rowsMade + 1]
          /\ uses' = uses + 1
          /\ Done(h)
          /\ UNCHANGED <<live, owner, ownerRows, bans, rotations, account>>

--------------------------------------------------------------------------------
(* Leaving and being removed.                                               *)

StartKick(h, u, v) ==
    /\ SignedIn(u)
    /\ MayModerate(u)
    /\ v \in Members \ ownerRows
    /\ v # u
    /\ Begin(h, "kick", u, v, row[v])

StartLeave(h, u) ==
    /\ SignedIn(u)
    /\ u \in Members \ ownerRows
    /\ Begin(h, "leave", u, u, row[u])

\* The delete names the row by its id alone, and fails when that row is gone.
CommitRemoval(h) ==
    LET v == handlers[h].target IN
    /\ handlers[h].pc \in {"kick", "leave"}
    /\ \/ /\ row[v] # handlers[h].row
          /\ RolledBack(h)
       \/ /\ row[v] = handlers[h].row
          /\ RemoveRows({v})
          /\ Rotate
          /\ Done(h)
          /\ UNCHANGED <<live, owner, rowsMade, bans, uses, account>>

StartBan(h, u, v) ==
    /\ SignedIn(u)
    /\ MayModerate(u)
    /\ v # u
    /\ live /\ owner # v
    /\ Begin(h, "ban", u, v, 0)

\* The transaction of the ban begins: it finds the row of its target, or none (0).
FindBanned(h) ==
    /\ At(h, "ban")
    /\ handlers' = [handlers EXCEPT ![h].pc = "remove", ![h].row = row[handlers[h].target]]
    /\ UNCHANGED <<serverVars, account, sweeps>>

\* Faulty form: every ban rotates the keys, the ban of a non-member too.
CommitBanRotating(h) ==
    LET v == handlers[h].target IN
    /\ At(h, "remove")
    /\ live
    /\ RemoveRows({v})
    /\ Rotate
    /\ bans' = bans \cup {v}
    /\ Done(h)
    /\ UNCHANGED <<live, owner, rowsMade, uses, account>>

\* deleteMany takes whatever row the user has by now and holds it to the commit;
\* the keys rotate if the ban had found one, this or an earlier row.
CommitBan(h) ==
    LET v == handlers[h].target IN
    /\ At(h, "remove")
    /\ \/ /\ ~live
          /\ RolledBack(h)
       \/ /\ live
          /\ RemoveRows({v})
          /\ IF handlers[h].row # 0 THEN Rotate ELSE UNCHANGED rotations
          /\ bans' = bans \cup {v}
          /\ Done(h)
          /\ UNCHANGED <<live, owner, rowsMade, uses, account>>

Unban(u, v) ==
    /\ SignedIn(u)
    /\ MayModerate(u)
    /\ v \in bans
    /\ bans' = bans \ {v}
    /\ UNCHANGED <<live, owner, row, ownerRows, rowsMade, uses, rotations, account, handlers, sweeps>>

--------------------------------------------------------------------------------
(* Ownership.                                                               *)

\* transferOwnership up to its transaction: the caller's row has kind OWNER and
\* the target is a member; the target's row is remembered by id.
StartTransfer(h, u, v) ==
    /\ SignedIn(u)
    /\ u \in ownerRows
    /\ v \in Members
    /\ v # u
    /\ Begin(h, "transfer", u, v, row[v])

\* Faulty form: the update of the server is not conditional on its owner.
CommitTransferUnconditional(h) ==
    LET u == handlers[h].user
        v == handlers[h].target
    IN
    /\ At(h, "transfer")
    /\ live
    /\ row[v] = handlers[h].row /\ u \in Members
    /\ owner' = v
    /\ ownerRows' = (ownerRows \cup {v}) \ {u}
    /\ Done(h)
    /\ UNCHANGED <<live, row, rowsMade, bans, uses, rotations, account>>

\* Faulty form: member rows that are gone are not missed.
CommitTransferLoose(h) ==
    LET u == handlers[h].user
        v == handlers[h].target
    IN
    /\ At(h, "transfer")
    /\ live /\ owner = u
    /\ owner' = v
    /\ ownerRows' = (ownerRows \cup {v}) \ {u}
    /\ Done(h)
    /\ UNCHANGED <<live, row, rowsMade, bans, uses, rotations, account>>

\* Conditional on the caller still owning the server; the updates of the two
\* member rows fail, and roll it back, when either row is gone.
CommitTransfer(h) ==
    LET u == handlers[h].user
        v == handlers[h].target
        valid == live /\ owner = u /\ row[v] = handlers[h].row /\ u \in Members
    IN
    /\ At(h, "transfer")
    /\ \/ /\ ~valid
          /\ RolledBack(h)
       \/ /\ valid
          /\ owner' = v
          /\ ownerRows' = (ownerRows \cup {v}) \ {u}
          /\ Done(h)
          /\ UNCHANGED <<live, row, rowsMade, bans, uses, rotations, account>>

StartDelete(h, u) ==
    /\ SignedIn(u)
    /\ u \in ownerRows
    /\ Begin(h, "delete", u, NoUser, 0)

\* Faulty form: the delete names the server by its id alone.
CommitDeleteUnconditional(h) ==
    /\ At(h, "delete")
    /\ live
    /\ live' = FALSE
    /\ RemoveRows(Users)
    /\ bans' = {}
    /\ Done(h)
    /\ UNCHANGED <<owner, rowsMade, uses, rotations, account>>

\* Conditional on ownership; members and bans go with the server (onDelete: Cascade).
CommitDelete(h) ==
    /\ At(h, "delete")
    /\ \/ /\ ~live \/ owner # handlers[h].user
          /\ RolledBack(h)
       \/ /\ live /\ owner = handlers[h].user
          /\ live' = FALSE
          /\ RemoveRows(Users)
          /\ bans' = {}
          /\ Done(h)
          /\ UNCHANGED <<owner, rowsMade, uses, rotations, account>>

--------------------------------------------------------------------------------
(* Closing an account.                                                      *)

OwnsServer(u) == live /\ owner = u

\* requestDeletion: assertNoOwnedServers, the re-authentication, the transaction.
StartClose(h, u) ==
    /\ SignedIn(u)
    /\ ~OwnsServer(u)
    /\ Begin(h, "close", u, NoUser, 0)

CommitClose(h) ==
    LET u == handlers[h].user IN
    /\ At(h, "close")
    /\ \/ /\ account[u] # "ACTIVE"
          /\ RolledBack(h)
       \/ /\ account[u] = "ACTIVE"
          /\ account' = [account EXCEPT ![u] = "DELETING"]
          /\ Done(h)
          /\ UNCHANGED serverVars

CancelDeletion(u) ==
    /\ account[u] = "DELETING"
    /\ account' = [account EXCEPT ![u] = "ACTIVE"]
    /\ UNCHANGED <<serverVars, handlers, sweeps>>

\* The grace period is fourteen days: no request of the account is still in flight.
GracePasses(u) ==
    /\ account[u] = "DELETING"
    /\ \A h \in Handlers : handlers[h].user # u
    /\ account' = [account EXCEPT ![u] = "DUE"]
    /\ UNCHANGED <<serverVars, handlers, sweeps>>

\* The sweep of instance i takes a due account and counts the servers it owns;
\* with one, the attempt ends and the next tick tries again.
StartAnonymize(i, u) ==
    /\ sweeps[i] = NoUser
    /\ account[u] = "DUE"
    /\ ~OwnsServer(u)
    /\ sweeps' = [sweeps EXCEPT ![i] = u]
    /\ UNCHANGED <<serverVars, account, handlers>>

EndSweep(i) == sweeps' = [sweeps EXCEPT ![i] = NoUser] /\ UNCHANGED handlers

\* The conditional update of the user row is the claim; the account leaves every
\* server without a rotation.
CommitAnonymize(i) ==
    LET u == sweeps[i] IN
    /\ u # NoUser
    /\ EndSweep(i)
    /\ \/ /\ account[u] # "DUE"
          /\ UNCHANGED <<serverVars, account>>
       \/ /\ account[u] = "DUE"
          /\ account' = [account EXCEPT ![u] = "ERASED"]
          /\ RemoveRows({u})
          /\ UNCHANGED <<live, owner, rowsMade, bans, uses, rotations>>

--------------------------------------------------------------------------------
\* A process stops, or a statement fails: the transaction is rolled back.
FailRequest(h) ==
    /\ handlers[h].pc # "idle"
    /\ handlers' = [handlers EXCEPT ![h] = IdleHandler]
    /\ UNCHANGED <<serverVars, account, sweeps>>

FailSweep(i) ==
    /\ sweeps[i] # NoUser
    /\ sweeps' = [sweeps EXCEPT ![i] = NoUser]
    /\ UNCHANGED <<serverVars, account, handlers>>

Commit(h) ==
    \/ CommitJoin(h) \/ CommitRemoval(h) \/ FindBanned(h) \/ CommitBan(h) \/ CommitTransfer(h)
    \/ CommitDelete(h) \/ CommitClose(h)

Start(h) ==
    \/ \E u \in Users : StartJoin(h, u) \/ StartLeave(h, u) \/ StartDelete(h, u) \/ StartClose(h, u)
    \/ \E u, v \in Users : StartKick(h, u, v) \/ StartBan(h, u, v) \/ StartTransfer(h, u, v)

SweepAccounts(i) == CommitAnonymize(i) \/ \E u \in Users : StartAnonymize(i, u)

Next ==
    \/ \E h \in Handlers : Start(h) \/ Commit(h) \/ FailRequest(h)
    \/ \E i \in Instances : SweepAccounts(i) \/ FailSweep(i)
    \/ \E u, v \in Users : Unban(u, v)
    \/ \E u \in Users : CancelDeletion(u) \/ GracePasses(u)

Spec == Init /\ [][Next]_vars

--------------------------------------------------------------------------------
(* Properties.                                                              *)

\* Of all member rows at most the one of Server.ownerId has kind OWNER, so the two
\* places that record the owner never name different people, also when transfers,
\* removals and rejoins race.
OneOwner == ownerRows \subseteq {owner}

\* Ownership moves only between two people who are members at that moment, and
\* takes the OWNER kind along: an owner removed meanwhile cannot hand on, and a
\* target that is gone is refused.
TransferToMember ==
    [][owner' # owner => {owner, owner'} \subseteq Members /\ ownerRows' = {owner'}]_vars

\* A server is deleted only by who owns it at that moment, not by who owned it
\* when the request was checked (the comment on deleteServer's deleteMany).
DeletedByOwner ==
    [][live' # live =>
          \E h \in Handlers : /\ handlers[h].pc = "delete" /\ handlers[h].user = owner
                              /\ handlers'[h] # handlers[h]]_vars

\* Members taken out by a step that is not the erasure of their account.
Removed == {u \in Users : row[u] # 0 /\ row'[u] = 0 /\ account'[u] = account[u]}

\* A ban commits against another membership than it found: its target joined since,
\* or was removed by somebody else.
CrossedBan ==
    \E h \in Handlers :
        LET v == handlers[h].target IN
        /\ handlers[h].pc = "remove" /\ handlers'[h].pc = "idle"
        /\ (handlers[h].row = 0) # (row[v] = 0)

\* Kicks, bans and departures rotate the keys once for each member that is gone,
\* and only then, when several of them hit the same member; except that a ban goes
\* by what it found: one crossed by a join or by another removal may rotate for
\* nobody or, the other way round, remove without a rotation.
RotatedOnce ==
    [][live' =>
          /\ Cardinality(Removed) <= 1
          /\ rotations' \in {rotations, rotations + 1}
          /\ rotations' = rotations + Cardinality(Removed) \/ CrossedBan]_vars

\* The limit of an invite is checked before the transaction that counts the use:
\* it can be passed, by no more than the joins in flight together.
InviteOvershoot == uses < MaxUses + Cardinality(Handlers)

\* The owner of a server is a member of it ("the owner must transfer or delete the
\* server first", server-moderation.service.ts).
OwnerIsMember == live => owner \in Members

\* No server is left with an anonymous owner ("ownership cannot be transferred in",
\* account-anonymization.ts).
NoAnonymousOwner == live => account[owner] # "ERASED"
================================================================================
