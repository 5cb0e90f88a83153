---------------------------- MODULE EncryptionKeys ----------------------------
(***************************************************************************)
(* The content keys of one encrypted channel or conversation: the members  *)
(* and the key version on the server, the wraps addressed to devices, and  *)
(* the web client that generates, shares, picks and uses a key             *)
(* (EncryptionKeysService, DeviceKeysService, useScopeKeys, useDeviceKeys). *)
(*                                                                         *)
(* A browser runs one job at a time, a send or the housekeeping of an open *)
(* scope.  Its program counter stops at every request; an upload stops at  *)
(* every statement the server runs for it.                                 *)
(***************************************************************************)
EXTENDS Integers, FiniteSets

CONSTANTS
    Users,        \* accounts
    Browsers,     \* browser profiles
    Owner,        \* [Browsers -> Users]
    CanDisable,   \* a channel can be switched back to plaintext, a conversation cannot
    MaxIdentity,  \* bound of the identities one browser goes through
    MaxKey,       \* content keys 1 .. MaxKey; the number is the order of the ids
    MaxVersion,   \* bound of encryptionKeyVersion
    MaxRounds,    \* MAX_SHARE_ROUNDS
    MaxWraps,     \* E2EE_MAX_WRAPS_PER_UPLOAD: the most devices one answer of pending-wraps lists
    MaxPosts,     \* bound of the messages kept: a post past it is not recorded
    MaxFaults     \* bound of lost answers, closed tabs, revoked and replaced devices

ASSUME KeysAssumption ==
    /\ IsFiniteSet(Browsers)
    /\ Owner \in [Browsers -> Users]
    /\ CanDisable \in BOOLEAN
    /\ MaxIdentity \in Nat \ {0}
    /\ MaxKey \in Nat
    /\ MaxVersion \in Nat \ {0}
    /\ MaxRounds \in Nat \ {0}
    /\ MaxWraps \in Nat \ {0}
    /\ MaxPosts \in Nat \ {0}
    /\ MaxFaults \in Nat

VARIABLES
    encrypted,  \* isEncrypted of the scope
    version,    \* encryptionKeyVersion of the scope
    members,    \* users who can read the scope
    cut,        \* cut[u]: the version u's removal began, 0 while nothing excludes u
    identity,   \* identity[b]: which of its identities browser b uses, 0 before the first
    device,     \* the DeviceKey table
    wraps,      \* the EncryptedChannelKey table
    held,       \* the content keys in each browser's IndexedDB
    jobs,       \* the job of each browser
    posted,     \* the encrypted messages of the scope
    faults      \* lost answers, closed tabs, revoked and replaced devices so far

serverVars == <<encrypted, version, members, cut>>
deviceVars == <<identity, device>>
vars == <<serverVars, deviceVars, wraps, held, jobs, posted, faults>>

--------------------------------------------------------------------------------
Devices == Browsers \X (1 .. MaxIdentity)
Keys == 1 .. MaxKey
Versions == 1 .. MaxVersion
NoKey == 0
NotHeld == -1
Unversioned == 0     \* stored under version null: fetched to open an old message

UserOf(d) == Owner[d[1]]
DeviceOf(b) == <<b, identity[b]>>

Wrap == [key : Keys, version : Versions, device : Devices]
\* seen: the version its sender had loaded; from: the one the resolution of its key started with.
Message == [key : Keys, seen : Versions, from : Versions]

Uploading == {"scope", "recipients", "count", "write"}
Job == [pc : {"idle", "view", "named", "round", "pick", "post"} \cup Uploading,
        kind : {"none", "send", "maintain"},
        scope : 0 .. MaxVersion,        \* the version the caller passed in
        joined : 0 .. MaxVersion,       \* the newest one of the sends that joined it, 0 without
        target : 0 .. MaxVersion,       \* currentVersion
        generated : BOOLEAN,            \* hasGenerated
        gaveUp : BOOLEAN,               \* the share loop found no key to wrap with
        round : 0 .. MaxRounds,
        \* the last answer of pending-wraps, or the upload in flight
        key : Keys \cup {NoKey}, version : 0 .. MaxVersion, devices : SUBSET Devices,
        recipients : SUBSET Users,
        \* history: the current key when the own wrap was in, and the devices that were
        \* its targets then and in every answer since
        named : Keys \cup {NoKey}, roster : SUBSET Devices]

TypeOK ==
    /\ encrypted \in BOOLEAN
    /\ version \in Versions
    /\ members \subseteq Users
    /\ cut \in [Users -> 0 .. MaxVersion]
    /\ identity \in [Browsers -> 0 .. MaxIdentity]
    /\ device \in [Devices -> {"absent", "live", "revoked"}]
    /\ wraps \subseteq Wrap
    /\ held \in [Browsers -> [Keys -> {NotHeld, Unversioned} \cup Versions]]
    /\ jobs \in [Browsers -> Job]
    /\ posted \subseteq Message
    /\ faults \in 0 .. MaxFaults

Idle == [pc |-> "idle", kind |-> "none", scope |-> 0, joined |-> 0, target |-> 0, generated |-> FALSE,
         gaveUp |-> FALSE, round |-> 0, key |-> NoKey, version |-> 0, devices |-> {},
         recipients |-> {}, named |-> NoKey, roster |-> {}]

Init ==
    /\ encrypted = FALSE
    /\ version = 1
    /\ members = Users
    /\ cut = [u \in Users |-> 0]
    /\ identity = [b \in Browsers |-> 0]
    /\ device = [d \in Devices |-> "absent"]
    /\ wraps = {}
    /\ held = [b \in Browsers |-> [k \in Keys |-> NotHeld]]
    /\ jobs = [b \in Browsers |-> Idle]
    /\ posted = {}
    /\ faults = 0

--------------------------------------------------------------------------------
(* Members and the flag of the scope.                                       *)

scopeOthers == <<deviceVars, wraps, held, jobs, posted, faults>>

\* PATCH of a conversation only switches it on, PATCH of a channel both ways.
SetEncrypted(value) ==
    /\ encrypted # value
    /\ value \/ CanDisable
    /\ encrypted' = value
    /\ UNCHANGED <<version, members, cut, scopeOthers>>

\* addMember, or a join of the server: no rotation.
AddMember(u) ==
    /\ u \notin members
    /\ members' = members \cup {u}
    /\ cut' = [cut EXCEPT ![u] = 0]
    /\ UNCHANGED <<encrypted, version, scopeOthers>>

\* Faulty form: the member goes and the version stays.
RemoveWithoutRotation(u) ==
    /\ u \in members
    /\ members # {u}
    /\ members' = members \ {u}
    /\ cut' = [cut EXCEPT ![u] = IF encrypted THEN version ELSE 0]
    /\ UNCHANGED <<encrypted, version, scopeOthers>>

\* removeMember, or a kick, ban or leave: one transaction deletes the member and
\* raises the version of an encrypted scope.  The last member is never removed
\* here: the conversation would be deleted with its keys.
RemoveMember(u) ==
    LET next == IF encrypted THEN version + 1 ELSE version IN
    /\ u \in members
    /\ members # {u}
    /\ next <= MaxVersion
    /\ members' = members \ {u}
    /\ version' = next
    /\ cut' = [cut EXCEPT ![u] = IF encrypted THEN next ELSE 0]
    /\ UNCHANGED <<encrypted, scopeOthers>>

--------------------------------------------------------------------------------
(* Devices.                                                                 *)

\* bootstrapIdentity: a browser without an identity, or whose device answers
\* 409 because it was revoked, registers a new one.  The content keys stay in
\* IndexedDB: they are stored by user, not by device.
Bootstrap(b) ==
    LET next == identity[b] + 1 IN
    /\ jobs[b].pc = "idle"
    /\ identity[b] # 0 => device[DeviceOf(b)] = "revoked"
    /\ next <= MaxIdentity
    /\ identity' = [identity EXCEPT ![b] = next]
    /\ device' = [device EXCEPT ![<<b, next>>] = "live"]
    /\ UNCHANGED <<serverVars, wraps, held, jobs, posted, faults>>

\* The user clears the storage of a browser with no tab open: identity and content
\* keys are gone, it registers as another device, and the row of the old one stays.
ClearStorage(b) ==
    LET next == identity[b] + 1 IN
    /\ faults < MaxFaults
    /\ jobs[b].pc = "idle"
    /\ identity[b] # 0
    /\ next <= MaxIdentity
    /\ identity' = [identity EXCEPT ![b] = next]
    /\ device' = [device EXCEPT ![<<b, next>>] = "live"]
    /\ held' = [held EXCEPT ![b] = [k \in Keys |-> NotHeld]]
    /\ faults' = faults + 1
    /\ UNCHANGED <<serverVars, wraps, jobs, posted>>

\* Faulty form: a revoked device is marked as the user's wish, not as revoked.
RevokeByStatus(d) ==
    /\ faults < MaxFaults
    /\ device[d] = "live"
    /\ device' = [device EXCEPT ![d] = "loggedOut"]
    /\ faults' = faults + 1
    /\ UNCHANGED <<serverVars, identity, wraps, held, jobs, posted>>

\* revoke: the wraps of the device stay.
Revoke(d) ==
    /\ faults < MaxFaults
    /\ device[d] = "live"
    /\ device' = [device EXCEPT ![d] = "revoked"]
    /\ faults' = faults + 1
    /\ UNCHANGED <<serverVars, identity, wraps, held, jobs, posted>>

--------------------------------------------------------------------------------
(* What the server answers.                                                 *)

Lowest(S) == CHOOSE k \in S : \A other \in S : k <= other

WrapVersions == {w.version : w \in wraps}
LatestVersion == CHOOSE v \in WrapVersions : \A other \in WrapVersions : other <= v
CurrentKey == IF wraps = {} THEN NoKey
              ELSE LET latest == LatestVersion
                   IN Lowest({w.key : w \in {x \in wraps : x.version = latest}})
CurrentVersion == IF wraps = {} THEN version ELSE LatestVersion

HasWrap(d, k) == \E w \in wraps : w.device = d /\ w.key = k

\* Every target has to be a live device of a member.
Recipient(d) == device[d] = "live" /\ UserOf(d) \in members

\* For user u: a holder is told of every member device without the current key,
\* anybody else of its own devices.
Missing(u) ==
    LET current == CurrentKey
        holds == \E d \in Devices :
                    UserOf(d) = u /\ device[d] = "live" /\ HasWrap(d, current)
        targets == IF holds THEN members ELSE {u}
    IN IF current = NoKey THEN {}
       ELSE {d \in Devices : /\ UserOf(d) \in targets
                             /\ device[d] = "live"
                             /\ ~HasWrap(d, current)}

\* pendingWraps lists one upload's worth of them, the oldest devices first; age is
\* not modelled, so any of them.
Pages(u) ==
    LET missing == Missing(u)
    IN {page \in SUBSET missing :
           \/ page = missing /\ Cardinality(page) <= MaxWraps
           \/ Cardinality(page) = MaxWraps}

--------------------------------------------------------------------------------
(* The client.                                                              *)

clientOthers == <<serverVars, deviceVars, posted, faults>>

\* getKey(keyId, v): from IndexedDB, filling in a version stored as null unless
\* the key was answered from memory; else from the server's wrap for this
\* device.  The answer is the browser's store with the key in it.
StoreWith(b, k, v) == [held EXCEPT ![b][k] = v]
GetKey(b, k, v) ==
    IF held[b][k] # NotHeld
    THEN {held} \cup (IF held[b][k] = Unversioned THEN {StoreWith(b, k, v)} ELSE {})
    ELSE IF HasWrap(DeviceOf(b), k) THEN {StoreWith(b, k, v)} ELSE {}

\* A key that a recent lookup missed is answered with null for
\* MISSING_KEY_RETRY_MS, whatever has arrived since.
MayMiss(b, k) == held[b][k] = NotHeld

\* Opening a message fetches the key it names, its version unknown; not while
\* the share loop's lookup of that key has just missed.
OpenMessage(b, m) ==
    /\ Owner[b] \in members
    /\ held[b][m.key] = NotHeld
    /\ HasWrap(DeviceOf(b), m.key)
    /\ jobs[b].gaveUp => jobs[b].key # m.key
    /\ held' = StoreWith(b, m.key, Unversioned)
    /\ UNCHANGED <<clientOthers, wraps, jobs>>

\* encryptContent of a send or an edit, or ensureKey, with the version of the
\* scope the browser loaded last, at any time before; and shareCurrentKey, on a
\* timer while the scope is open, which has no use for that version.
Start(b, kind, v) ==
    /\ jobs[b].pc = "idle"
    /\ identity[b] # 0
    /\ encrypted
    /\ jobs' = [jobs EXCEPT ![b] = [Idle EXCEPT !.pc = "view", !.kind = kind, !.scope = v]]
    /\ UNCHANGED <<clientOthers, wraps, held>>

Send(b) == \E v \in 1 .. version : Start(b, "send", v)

\* A send that finds a resolution running waits for its key, whatever version of the
\* scope the running one started with.  It may do so at any of the resolution's
\* requests; as nothing depends on it before the key is picked, it does so here just
\* before.  Of the sends that wait, one with the newest version is kept: it is the
\* one the running resolution may be too old for.
Join(b, v) ==
    /\ jobs[b].pc = "pick"
    /\ v > jobs[b].scope /\ v > jobs[b].joined
    /\ jobs' = [jobs EXCEPT ![b].joined = v]
    /\ UNCHANGED <<clientOthers, wraps, held>>

Maintain(b) == Start(b, "maintain", 0)

GoOn(b, next) == jobs' = [jobs EXCEPT ![b] = next]
Fail(b) == GoOn(b, Idle)

\* A key nobody has: 128 random bits, so also its place in the order is random.
Fresh == {k \in Keys : /\ \A w \in wraps : w.key # k
                       /\ \A b \in Browsers : held[b][k] = NotHeld /\ jobs[b].key # k}

\* The job with an answer of fetchScopePendingWraps in it.
WithView(b, page) ==
    [jobs[b] EXCEPT !.key = CurrentKey, !.version = CurrentVersion, !.devices = page]

\* Faulty form: a wrap is stored under the version the scope has by now.
ShareAsLatest(j) == [j EXCEPT !.pc = "scope", !.version = version]

Pick(j) == [j EXCEPT !.pc = "pick", !.devices = {}]
Share(j) == [j EXCEPT !.pc = "scope"]
Generate(j, k, b) == [j EXCEPT !.pc = "scope", !.generated = TRUE, !.key = k,
                               !.version = j.target, !.devices = {DeviceOf(b)}]

Higher(v, w) == IF v >= w THEN v ELSE w

\* Faulty form: the version of the answer is taken for the current one.
FirstViewTrusting(b) ==
    LET j == [WithView(b, {}) EXCEPT !.target = CurrentVersion] IN
    /\ jobs[b].pc = "view" /\ jobs[b].kind = "send"
    /\ IF CurrentKey # NoKey THEN GoOn(b, Pick(j))
       ELSE \E k \in Fresh : GoOn(b, Generate(j, k, b))
    /\ UNCHANGED <<clientOthers, wraps, held>>

\* Faulty form: the new key is stored before its upload is answered.
FirstViewStoring(b) ==
    LET target == Higher(jobs[b].scope, CurrentVersion)
        j == [WithView(b, {}) EXCEPT !.target = target]
    IN
    /\ jobs[b].pc = "view" /\ jobs[b].kind = "send"
    /\ IF CurrentKey # NoKey /\ CurrentVersion >= target THEN GoOn(b, Pick(j)) /\ UNCHANGED held
       ELSE \E k \in Fresh : GoOn(b, Generate(j, k, b)) /\ held' = StoreWith(b, k, target)
    /\ UNCHANGED <<clientOthers, wraps>>

\* resolveSendKeyOnce up to its first decision: the key of the current version
\* is there, or this sender generates one and wraps it for itself.
FirstView(b) ==
    LET target == Higher(jobs[b].scope, CurrentVersion)
        j == [WithView(b, {}) EXCEPT !.target = target]
        exists == CurrentKey # NoKey /\ CurrentVersion >= target
    IN
    /\ jobs[b].pc = "view" /\ jobs[b].kind = "send"
    /\ IF Owner[b] \notin members \/ (~exists /\ Fresh = {}) THEN Fail(b)
       ELSE IF exists THEN GoOn(b, Pick(j))
       ELSE \E k \in Fresh : GoOn(b, Generate(j, k, b))
    /\ UNCHANGED <<clientOthers, wraps, held>>

\* Faulty form: the generator leaves the sharing to the housekeeping.
ShareRoundNever(b, j) == GoOn(b, Pick(j)) /\ UNCHANGED held

\* One round of the share loop: the devices the answer lists get the key, unless
\* there are none, the rounds are used up, or the key is not to be had.
ShareRound(b, j) ==
    IF j.devices = {} \/ j.round = MaxRounds
    THEN GoOn(b, Pick(j)) /\ UNCHANGED held
    ELSE \/ /\ held' \in GetKey(b, j.key, j.version)
            /\ GoOn(b, Share([j EXCEPT !.round = @ + 1]))
         \/ /\ MayMiss(b, j.key)
            /\ GoOn(b, Pick([j EXCEPT !.gaveUp = TRUE]))
            /\ UNCHANGED held

Targets == {d \in Devices : Recipient(d)}

\* The answer after the own wrap is uploaded; it says which key has to reach whom
\* before a message may use it.
NamedView(b) ==
    /\ jobs[b].pc = "named"
    /\ IF Owner[b] \notin members \/ CurrentKey = NoKey \/ CurrentVersion < jobs[b].target
       THEN Fail(b) /\ UNCHANGED held
       ELSE \E page \in Pages(Owner[b]) :
               ShareRound(b, [WithView(b, page) EXCEPT !.named = CurrentKey, !.roster = Targets])
    /\ UNCHANGED <<clientOthers, wraps>>

\* The answer after a round of the share loop.
RoundView(b) ==
    /\ jobs[b].pc = "round"
    /\ IF Owner[b] \notin members THEN Fail(b) /\ UNCHANGED held
       ELSE \E page \in Pages(Owner[b]) :
               ShareRound(b, [WithView(b, page) EXCEPT !.roster = @ \cap Targets])
    /\ UNCHANGED <<clientOthers, wraps>>

\* shareCurrentKey.
MaintainView(b) ==
    /\ jobs[b].pc = "view" /\ jobs[b].kind = "maintain"
    /\ \/ /\ Owner[b] \notin members \/ Missing(Owner[b]) = {}
          /\ Fail(b) /\ UNCHANGED held
       \/ /\ Owner[b] \in members /\ Missing(Owner[b]) # {}
          /\ \/ /\ held' \in GetKey(b, CurrentKey, CurrentVersion)
                /\ \E page \in Pages(Owner[b]) : GoOn(b, Share(WithView(b, page)))
             \/ MayMiss(b, CurrentKey) /\ Fail(b) /\ UNCHANGED held
    /\ UNCHANGED <<clientOthers, wraps>>

--------------------------------------------------------------------------------
(* An upload, statement by statement.                                       *)

uploadOthers == <<serverVars, deviceVars, wraps, held, posted, faults>>

\* channelScope / conversationScope: the membership check and the read of the
\* flag and the version, which bound what is accepted.  One step: a client never
\* names a version it has not read, so only the recipients below tell a member
\* from a user removed in between.
LoadScope(b) ==
    /\ jobs[b].pc = "scope"
    /\ IF Owner[b] \in members /\ encrypted /\ jobs[b].version <= version
       THEN GoOn(b, [jobs[b] EXCEPT !.pc = "recipients"]) ELSE Fail(b)
    /\ UNCHANGED uploadOthers

ReadRecipients(b) ==
    /\ jobs[b].pc = "recipients"
    /\ GoOn(b, [jobs[b] EXCEPT !.pc = "count", !.recipients = members])
    /\ UNCHANGED uploadOthers

\* The count of valid targets; one that is not valid refuses the whole upload.
CountTargets(b) ==
    /\ jobs[b].pc = "count"
    /\ IF \A d \in jobs[b].devices : device[d] = "live" /\ UserOf(d) \in jobs[b].recipients
       THEN GoOn(b, [jobs[b] EXCEPT !.pc = "write", !.recipients = {}]) ELSE Fail(b)
    /\ UNCHANGED uploadOthers

\* createMany with skipDuplicates.
Inserted(j) == wraps \cup {[key |-> j.key, version |-> j.version, device |-> d] :
                              d \in {x \in j.devices : ~HasWrap(x, j.key)}}

\* The client goes on with the answer: generateKey stores the key only now.
WriteWraps(b) ==
    LET j == jobs[b]
        owns == j.generated /\ j.round = 0
    IN
    /\ j.pc = "write"
    /\ wraps' = Inserted(j)
    /\ held' = IF owns THEN StoreWith(b, j.key, j.version) ELSE held
    /\ IF j.kind = "maintain" THEN Fail(b)
       ELSE GoOn(b, [j EXCEPT !.pc = IF owns THEN "named" ELSE "round",
                              !.key = NoKey, !.version = 0, !.devices = {}])
    /\ UNCHANGED clientOthers

\* The rows are stored and the answer is lost: the client takes it for a failure.
LoseAnswer(b) ==
    /\ faults < MaxFaults
    /\ jobs[b].pc = "write"
    /\ wraps' = Inserted(jobs[b])
    /\ Fail(b)
    /\ faults' = faults + 1
    /\ UNCHANGED <<serverVars, deviceVars, held, posted>>

\* A request fails or the tab is closed.
Abort(b) ==
    /\ faults < MaxFaults
    /\ jobs[b].pc # "idle"
    /\ Fail(b)
    /\ faults' = faults + 1
    /\ UNCHANGED <<serverVars, deviceVars, wraps, held, posted>>

--------------------------------------------------------------------------------
\* The end of resolveSendKeyOnce: the lowest of the keys this browser knows for
\* the target version, if it can be had.
Candidates(b) ==
    LET j == jobs[b] IN
    {k \in Keys : held[b][k] = j.target} \cup
    (IF j.version = j.target /\ j.key # NoKey THEN {j.key} ELSE {})

PickKey(b) ==
    /\ jobs[b].pc = "pick"
    /\ \/ /\ Fail(b)
          /\ \A k \in Candidates(b) : k = Lowest(Candidates(b)) => MayMiss(b, k)
          /\ UNCHANGED held
       \/ \E k \in Candidates(b) :
             /\ k = Lowest(Candidates(b))
             /\ ~(jobs[b].gaveUp /\ MayMiss(b, k))
             /\ held' \in GetKey(b, k, jobs[b].target)
             /\ GoOn(b, [jobs[b] EXCEPT !.pc = "post", !.key = k])
    /\ UNCHANGED <<clientOthers, wraps>>

\* The message is encrypted under the key and created, and so is that of a send
\* that joined; or it is refused, or lost.
Post(b) ==
    LET j == jobs[b] IN
    /\ j.pc = "post"
    /\ \/ UNCHANGED posted
       \/ /\ Owner[b] \in members
          /\ Cardinality(posted) < MaxPosts
          /\ posted' = posted \cup {[key |-> j.key, seen |-> v, from |-> j.scope] :
                                      v \in {j.scope, j.joined} \ {0}}
    /\ Fail(b)
    /\ UNCHANGED <<serverVars, deviceVars, wraps, held, faults>>

--------------------------------------------------------------------------------
UploadStep(b) ==
    LoadScope(b) \/ ReadRecipients(b) \/ CountTargets(b) \/ WriteWraps(b)

JobStep(b) ==
    \/ FirstView(b) \/ NamedView(b) \/ RoundView(b) \/ MaintainView(b)
    \/ UploadStep(b) \/ PickKey(b) \/ Post(b)

Next ==
    \/ \E value \in BOOLEAN : SetEncrypted(value)
    \/ \E u \in Users : AddMember(u) \/ RemoveMember(u)
    \/ \E d \in Devices : Revoke(d)
    \/ \E b \in Browsers :
          \/ Bootstrap(b) \/ ClearStorage(b) \/ Send(b) \/ Maintain(b) \/ JobStep(b)
          \/ \E v \in 1 .. version : Join(b, v)
          \/ LoseAnswer(b) \/ Abort(b)
          \/ \E m \in posted : OpenMessage(b, m)

Spec == Init /\ [][Next]_vars

--------------------------------------------------------------------------------
(* Properties.                                                              *)

\* A user removed while the scope was encrypted is left out of every key of the
\* rotation that removed them and of all later ones, also when the removal falls
\* between the reads of an upload that named their device.
RemovedGetNoNewKey ==
    \A w \in wraps : cut[UserOf(w.device)] # 0 => w.version < cut[UserOf(w.device)]

\* A content key belongs to one version, whoever wraps it and however late.
OneVersionPerKey == \A w, x \in wraps : w.key = x.key => w.version = x.version

\* A message whose key comes from a resolution that started with the scope as it was
\* after a removal is closed to the removed user: neither a wrap nor a stored copy of
\* the key is theirs.  That its own sender had loaded the scope after the removal
\* (m.seen) is not enough: it may have joined a resolution started before.
NoSendToRemoved ==
    \A m \in posted, b \in Browsers :
        (cut[Owner[b]] # 0 /\ cut[Owner[b]] <= m.from) =>
            /\ held[b][m.key] = NotHeld
            /\ \A w \in wraps : w.key = m.key => w.device[1] # b

Holders(k) == {d \in Devices : HasWrap(d, k)}

\* A sender that generated a key, because it saw none of its version, posts under
\* the key the server named once its own wrap was in only after every device that
\* was a target then, and still is, has its wrap, also when other senders generate,
\* share and rotate in between, or after the rounds gave it to a page of devices each; a
\* roster that one page covers is covered whatever happens, a larger one unless a
\* key of a newer version takes the place of this one in a later round.  Left out: a
\* sender that picks a lower key another sender has uploaded since, and one whose
\* own device was revoked meanwhile.
CoveredBeforeUse ==
    \A b \in Browsers :
        LET j == jobs[b] IN
        (/\ j.pc = "post" /\ j.generated /\ j.key = j.named
         /\ device[DeviceOf(b)] = "live") =>
            \/ j.roster \subseteq Holders(j.key)
            \/ Cardinality(Holders(j.key)) > MaxRounds * MaxWraps
            \/ Cardinality(Holders(j.key)) > MaxWraps /\ LatestVersion > j.target

\* No message names a key the server has no wrap of: every failure of an upload
\* leaves a key unused or recoverable.
PostedIsRecoverable == \A m \in posted : \E w \in wraps : w.key = m.key
================================================================================
