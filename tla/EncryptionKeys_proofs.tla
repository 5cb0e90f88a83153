------------------------- MODULE EncryptionKeys_proofs -------------------------
(***************************************************************************)
(* Proofs about EncryptionKeys, for every set of users and browsers and    *)
(* every number of keys, versions, identities, share rounds and wraps in   *)
(* an upload.                                                              *)
(***************************************************************************)
EXTENDS EncryptionKeys, FiniteSetTheorems, WellFoundedInduction, TLAPS

--------------------------------------------------------------------------------
(* A non-empty set of naturals has a least member, a bounded one a greatest. *)

LEMMA LeastExists ==
    ASSUME NEW S \in SUBSET Nat, S # {}
    PROVE  \E k \in S : \A other \in S : k <= other
<1>1. PICK k \in S : \A other \in S : ~(<<other, k>> \in OpToRel(<, Nat))
  BY NatLessThanWellFounded, WFMin
<1>2. ASSUME NEW other \in S PROVE k <= other
  <2>1. <<other, k>> \in Nat \X Nat
    OBVIOUS
  <2>2. ~(other < k)
    BY <1>1, <2>1 DEF OpToRel
  <2> QED
    BY <2>2
<1> QED
  BY <1>2

LEMMA GreatestExists ==
    ASSUME NEW n \in Nat, NEW S \in SUBSET (0 .. n), S # {}
    PROVE  \E k \in S : \A other \in S : other <= k
<1> DEFINE T == {n - k : k \in S}
<1>1. T \in SUBSET Nat /\ T # {}
  <2>1. \A k \in S : k \in 0 .. n /\ n - k \in Nat
    OBVIOUS
  <2> QED
    BY <2>1
<1>2. PICK t \in T : \A other \in T : t <= other
  BY <1>1, LeastExists
<1>3. PICK k \in S : t = n - k
  OBVIOUS
<1>4. ASSUME NEW other \in S PROVE other <= k
  <2>1. t <= n - other
    BY <1>2
  <2> QED
    BY <1>3, <2>1
<1> QED
  BY <1>4

\* What the server names as the current key, when it has a wrap at all.
LEMMA CurrentIsStored ==
    ASSUME TypeOK
    PROVE  /\ CurrentKey \in Keys \cup {NoKey} /\ CurrentVersion \in Versions
           /\ wraps # {} =>
                 /\ CurrentKey # NoKey
                 /\ \E w \in wraps : w.key = CurrentKey /\ w.version = CurrentVersion
           /\ wraps = {} => CurrentKey = NoKey /\ CurrentVersion = version
           /\ \A w \in wraps : /\ w.version <= CurrentVersion
                               /\ w.version = CurrentVersion => CurrentKey <= w.key
<1> USE KeysAssumption
<1>1. CASE wraps = {}
  BY <1>1 DEF TypeOK, CurrentKey, CurrentVersion
<1>2. CASE wraps # {}
  <2>1. \A w \in wraps : w.key \in Keys /\ w.version \in Versions
    BY DEF TypeOK, Wrap
  <2>2. WrapVersions \in SUBSET (0 .. MaxVersion) /\ WrapVersions # {}
    BY <1>2, <2>1 DEF WrapVersions, Versions
  <2>3. \E v \in WrapVersions : \A other \in WrapVersions : other <= v
    BY <2>2, GreatestExists
  <2>4. LatestVersion \in WrapVersions /\ \A other \in WrapVersions : other <= LatestVersion
    BY <2>3 DEF LatestVersion
  <2> DEFINE S == {w.key : w \in {x \in wraps : x.version = LatestVersion}}
  <2>5. S \in SUBSET Nat /\ S # {}
    BY <2>1, <2>4 DEF WrapVersions, Keys
  <2>6. Lowest(S) \in S
    BY <2>5, LeastExists DEF Lowest
  <2>7. CurrentKey = Lowest(S) /\ CurrentVersion = LatestVersion
    BY <1>2 DEF CurrentKey, CurrentVersion
  <2>8. PICK x \in wraps : x.version = LatestVersion /\ x.key = CurrentKey
    BY <2>6, <2>7
  <2>9. CurrentKey \in Keys /\ CurrentKey # NoKey /\ CurrentVersion \in Versions
    BY <2>1, <2>7, <2>8 DEF Keys, NoKey
  <2>10. \A w \in wraps : w.version <= CurrentVersion
    BY <2>4, <2>7 DEF WrapVersions
  <2>11. ASSUME NEW w \in wraps, w.version = CurrentVersion PROVE CurrentKey <= w.key
    <3>1. w.key \in S /\ \A other \in S : Lowest(S) <= other
      BY <2>5, <2>7, <2>11, LeastExists DEF Lowest
    <3> QED
      BY <2>7, <3>1
  <2> QED
    BY <1>2, <2>7, <2>8, <2>9, <2>10, <2>11
<1> QED
  BY <1>1, <1>2

--------------------------------------------------------------------------------
(* The inductive invariant.                                                 *)

Stored(k) == \E w \in wraps : w.key = k

\* The version only grows, and a removal lies at or below it.
ServerFits ==
    /\ \A w \in wraps : w.version <= version
    /\ \A u \in Users : cut[u] <= version /\ (cut[u] # 0 => u \notin members)

HeldIsStored == \A b \in Browsers, k \in Keys : held[b][k] # NotHeld => Stored(k)

\* An upload that is past its read of the members names nobody who was removed
\* at its version or before: a removal since then is a later version.
Admits(j) ==
    /\ j.pc = "count" => \A u \in j.recipients : cut[u] # 0 => j.version < cut[u]
    /\ j.pc = "write" => \A d \in j.devices : cut[UserOf(d)] # 0 => j.version < cut[UserOf(d)]

JobFits(b, j) ==
    /\ j.scope <= version /\ j.target <= version /\ j.version <= version
    /\ j.pc # "idle" => identity[b] # 0 /\ j.kind \in {"send", "maintain"}
    /\ j.kind = "send" => j.scope # 0
    /\ j.pc \in {"named", "round", "pick", "post"} => j.kind = "send"
    /\ j.pc \in Uploading => /\ j.key # NoKey /\ j.version # 0
                             /\ \A w \in wraps : w.key = j.key => w.version = j.version
                             /\ j.generated /\ j.round = 0 => j.devices # {}
    /\ j.pc = "pick" /\ j.key # NoKey => Stored(j.key)
    /\ j.pc = "post" => j.key # NoKey /\ Stored(j.key)
    /\ Admits(j)

\* Two uploads of one key are of one version.
Agree(b, j) ==
    j.pc \in Uploading =>
        \A c \in Browsers \ {b} :
            jobs[c].pc \in Uploading /\ jobs[c].key = j.key => jobs[c].version = j.version

JobsFit == \A b \in Browsers : JobFits(b, jobs[b]) /\ Agree(b, jobs[b])

IInv ==
    /\ TypeOK /\ ServerFits /\ HeldIsStored /\ JobsFit
    /\ RemovedGetNoNewKey /\ OneVersionPerKey /\ PostedIsRecoverable

LEMMA IdleFits == Idle \in Job /\ \A b \in Browsers : TypeOK => JobFits(b, Idle) /\ Agree(b, Idle)
BY KeysAssumption DEF Idle, Job, JobFits, Agree, Admits, TypeOK, Uploading, Versions, Keys, NoKey

LEMMA UserOfDevice == \A d \in Devices : UserOf(d) \in Users /\ d[1] \in Browsers
BY KeysAssumption DEF Devices, UserOf

LEMMA InitIInv == Init => IInv
<1> SUFFICES ASSUME Init PROVE IInv
  OBVIOUS
<1>1. TypeOK
  <2>1. jobs \in [Browsers -> Job]
    BY IdleFits DEF Init
  <2>2. held \in [Browsers -> [Keys -> {NotHeld, Unversioned} \cup Versions]]
    BY DEF Init
  <2>5. 0 \in 0 .. MaxVersion /\ 0 \in 0 .. MaxIdentity /\ 0 \in 0 .. MaxFaults /\ 1 \in Versions
    BY KeysAssumption DEF Versions
  <2>3. /\ encrypted \in BOOLEAN /\ version \in Versions /\ members \subseteq Users
        /\ cut \in [Users -> 0 .. MaxVersion] /\ identity \in [Browsers -> 0 .. MaxIdentity]
        /\ faults \in 0 .. MaxFaults
    BY <2>5 DEF Init
  <2>4. device \in [Devices -> {"absent", "live", "revoked"}] /\ wraps \subseteq Wrap /\ posted \subseteq Message
    BY DEF Init
  <2> QED
    BY <2>1, <2>2, <2>3, <2>4 DEF TypeOK
<1>2. JobsFit
  BY <1>1, IdleFits DEF Init, JobsFit
<1>3. ServerFits /\ HeldIsStored /\ RemovedGetNoNewKey /\ OneVersionPerKey /\ PostedIsRecoverable
  BY KeysAssumption DEF Init, ServerFits, HeldIsStored, RemovedGetNoNewKey, OneVersionPerKey,
                        PostedIsRecoverable, Versions
<1> QED
  BY <1>1, <1>2, <1>3 DEF IInv

--------------------------------------------------------------------------------
(* Steps of the server.                                                     *)

\* Members come and go: the version grows with a removal, and cuts who is removed there.
LEMMA MembersStep ==
    ASSUME IInv, UNCHANGED <<deviceVars, wraps, held, jobs, posted, faults>>,
           encrypted' \in BOOLEAN, version' \in Versions, version <= version',
           members' \subseteq Users, cut' \in [Users -> 0 .. MaxVersion],
           \A u \in Users : cut'[u] \in {0, cut[u]} \/ (cut'[u] = version' /\ version < version'),
           \A u \in Users : cut'[u] # 0 => u \notin members'
    PROVE  IInv'
<1> USE KeysAssumption
<1>t. version \in Nat /\ version' \in Nat /\ \A u \in Users : cut[u] \in Nat /\ cut'[u] \in Nat
  BY DEF IInv, TypeOK, Versions
<1>w. \A w \in wraps : w.version \in Nat /\ w.device \in Devices /\ w.version <= version
  BY DEF IInv, TypeOK, Wrap, Versions, ServerFits
<1>1. TypeOK'
  BY DEF IInv, TypeOK, deviceVars
<1>2. ServerFits'
  BY <1>t, <1>w DEF IInv, ServerFits
<1>3. HeldIsStored' /\ OneVersionPerKey' /\ PostedIsRecoverable'
  BY DEF IInv, HeldIsStored, Stored, OneVersionPerKey, PostedIsRecoverable
<1>4. RemovedGetNoNewKey'
  BY <1>t, <1>w, UserOfDevice DEF IInv, RemovedGetNoNewKey
<1>5. ASSUME NEW b \in Browsers PROVE JobFits(b, jobs[b])'
  <2>1. /\ jobs[b].scope \in Nat /\ jobs[b].target \in Nat /\ jobs[b].version \in Nat
        /\ jobs[b].recipients \subseteq Users /\ jobs[b].devices \subseteq Devices
    BY DEF IInv, TypeOK, Job
  <2>2. JobFits(b, jobs[b])
    BY DEF IInv, JobsFit
  <2>3. Admits(jobs[b])'
    BY <1>t, <2>1, <2>2, UserOfDevice DEF JobFits, Admits
  <2> QED
    BY <1>t, <2>1, <2>2, <2>3 DEF JobFits, Stored, deviceVars
<1>6. \A b \in Browsers : Agree(b, jobs[b])'
  BY DEF IInv, JobsFit, Agree
<1> QED
  BY <1>1, <1>2, <1>3, <1>4, <1>5, <1>6 DEF IInv, JobsFit

\* Devices come and go, and only an idle browser changes its identity or loses its keys.
LEMMA DeviceStep ==
    ASSUME IInv, UNCHANGED <<serverVars, wraps, jobs, posted>>, faults' \in 0 .. MaxFaults,
           held' \in [Browsers -> [Keys -> {NotHeld, Unversioned} \cup Versions]],
           \A b \in Browsers, k \in Keys : held'[b][k] # NotHeld => held[b][k] # NotHeld,
           identity' \in [Browsers -> 0 .. MaxIdentity],
           device' \in [Devices -> {"absent", "live", "revoked"}],
           \A b \in Browsers : identity[b] # 0 => identity'[b] # 0
    PROVE  IInv'
<1>1. TypeOK' /\ ServerFits'
  BY DEF IInv, TypeOK, ServerFits, serverVars
<1>2. HeldIsStored' /\ OneVersionPerKey' /\ PostedIsRecoverable' /\ RemovedGetNoNewKey'
  BY DEF IInv, HeldIsStored, Stored, OneVersionPerKey, PostedIsRecoverable, RemovedGetNoNewKey, serverVars
<1>3. ASSUME NEW b \in Browsers PROVE JobFits(b, jobs[b])' /\ Agree(b, jobs[b])'
  BY DEF IInv, JobsFit, JobFits, Agree, Admits, Stored, serverVars
<1> QED
  BY <1>1, <1>2, <1>3 DEF IInv, JobsFit

--------------------------------------------------------------------------------
(* Steps of a browser.                                                      *)

\* A step that changes the job of b, and perhaps its store or the messages, but no
\* wrap: the new job has to fit, and to agree with the uploads in flight.
LEMMA ClientStep ==
    ASSUME IInv, NEW b \in Browsers, NEW j \in Job, jobs' = [jobs EXCEPT ![b] = j],
           JobFits(b, j), Agree(b, j),
           UNCHANGED <<serverVars, deviceVars, wraps>>,
           held' \in [Browsers -> [Keys -> {NotHeld, Unversioned} \cup Versions]],
           \A c \in Browsers, k \in Keys : held'[c][k] # NotHeld => held[c][k] # NotHeld \/ Stored(k),
           posted' \subseteq Message, \A m \in posted' : m \in posted \/ Stored(m.key),
           faults' \in 0 .. MaxFaults
    PROVE  IInv'
<1>1. jobs' \in [Browsers -> Job] /\ \A c \in Browsers : jobs'[c] = IF c = b THEN j ELSE jobs[c]
  BY DEF IInv, TypeOK
<1>2. TypeOK'
  BY <1>1 DEF IInv, TypeOK, serverVars, deviceVars
<1>3. ServerFits' /\ OneVersionPerKey' /\ RemovedGetNoNewKey'
  BY DEF IInv, ServerFits, OneVersionPerKey, RemovedGetNoNewKey, serverVars
<1>4. HeldIsStored' /\ PostedIsRecoverable'
  BY DEF IInv, HeldIsStored, PostedIsRecoverable, Stored
<1>5. ASSUME NEW c \in Browsers PROVE JobFits(c, jobs[c])'
  <2>1. JobFits(c, jobs'[c])
    BY <1>1 DEF IInv, JobsFit
  <2> QED
    BY <2>1 DEF JobFits, Admits, Stored, serverVars, deviceVars
<1>6. ASSUME NEW c \in Browsers PROVE Agree(c, jobs[c])'
  <2>1. Agree(c, jobs[c])
    BY DEF IInv, JobsFit
  <2> QED
    BY <2>1, <1>1 DEF Agree
<1> QED
  BY <1>2, <1>3, <1>4, <1>5, <1>6 DEF IInv, JobsFit

\* The rows of an upload: they agree with every wrap and every other upload, and
\* name nobody who is cut off.
LEMMA WrapsStep ==
    ASSUME IInv, NEW b \in Browsers, NEW j \in Job, jobs' = [jobs EXCEPT ![b] = j],
           jobs[b].pc = "write", wraps' = Inserted(jobs[b]),
           j.pc \notin Uploading \cup {"pick", "post"},
           JobFits(b, j),
           UNCHANGED <<serverVars, deviceVars, posted>>,
           held' \in [Browsers -> [Keys -> {NotHeld, Unversioned} \cup Versions]],
           \A c \in Browsers, k \in Keys : held'[c][k] # NotHeld => held[c][k] # NotHeld \/ Stored(k)',
           faults' \in 0 .. MaxFaults
    PROVE  IInv'
<1> DEFINE up == jobs[b]
<1>1. jobs' \in [Browsers -> Job] /\ \A c \in Browsers : jobs'[c] = IF c = b THEN j ELSE jobs[c]
  BY DEF IInv, TypeOK
<1>2. /\ up.key \in Keys /\ up.version \in Versions /\ up.devices \subseteq Devices
      /\ up.version <= version
      /\ \A w \in wraps : w.key = up.key => w.version = up.version
      /\ \A d \in up.devices : cut[UserOf(d)] # 0 => up.version < cut[UserOf(d)]
  <2>1. up \in Job /\ JobFits(b, up)
    BY DEF IInv, TypeOK, JobsFit
  <2>2. up.pc \in Uploading
    BY DEF Uploading
  <2> QED
    BY <2>1, <2>2, KeysAssumption DEF JobFits, Admits, Job, Versions
<1>3. \A w \in wraps' : \/ w \in wraps
                        \/ /\ w.key = up.key /\ w.version = up.version /\ w.device \in up.devices
                           /\ w \in Wrap
  BY <1>2 DEF Inserted, Wrap
<1>4. wraps \subseteq wraps'
  BY DEF Inserted
<1>5. TypeOK'
  BY <1>1, <1>3 DEF IInv, TypeOK, serverVars, deviceVars
<1>6. ServerFits' /\ OneVersionPerKey' /\ RemovedGetNoNewKey'
  BY <1>2, <1>3 DEF IInv, ServerFits, OneVersionPerKey, RemovedGetNoNewKey, serverVars
<1>7. HeldIsStored' /\ PostedIsRecoverable'
  BY <1>4 DEF IInv, HeldIsStored, PostedIsRecoverable, Stored
<1>8. ASSUME NEW c \in Browsers PROVE JobFits(c, jobs[c])'
  <2>1. CASE c = b
    BY <2>1, <1>1, <1>4 DEF JobFits, Admits, Stored, serverVars, deviceVars
  <2>2. CASE c # b
    <3>1. JobFits(c, jobs[c]) /\ Agree(b, jobs[b]) /\ jobs'[c] = jobs[c]
      BY <2>2, <1>1 DEF IInv, JobsFit
    <3>2. jobs[c].pc \in Uploading => \A w \in wraps' : w.key = jobs[c].key => w.version = jobs[c].version
      BY <2>2, <3>1, <1>3 DEF JobFits, Agree, Uploading
    <3>3. \A k : Stored(k) => Stored(k)'
      BY <1>4 DEF Stored
    <3> QED
      BY <3>1, <3>2, <3>3 DEF JobFits, Admits, serverVars, deviceVars
  <2> QED
    BY <2>1, <2>2
<1>9. ASSUME NEW c \in Browsers PROVE Agree(c, jobs[c])'
  <2>1. Agree(c, jobs[c])
    BY DEF IInv, JobsFit
  <2> QED
    BY <2>1, <1>1 DEF Agree
<1> QED
  BY <1>5, <1>6, <1>7, <1>8, <1>9 DEF IInv, JobsFit

\* A job that ends.
LEMMA EndStep ==
    ASSUME IInv, NEW b \in Browsers, Fail(b),
           UNCHANGED <<serverVars, deviceVars, wraps, held>>,
           posted' \subseteq Message, \A m \in posted' : m \in posted \/ Stored(m.key),
           faults' \in 0 .. MaxFaults
    PROVE  IInv'
<1>1. Idle \in Job /\ JobFits(b, Idle) /\ Agree(b, Idle)
  BY IdleFits DEF IInv
<1> QED
  BY <1>1, ClientStep DEF Fail, GoOn, IInv, TypeOK

\* What getKey leaves in the store: one more key at most, and one the server has.
LEMMA GetKeyFits ==
    ASSUME IInv, NEW b \in Browsers, NEW k \in Keys, NEW v \in {Unversioned} \cup Versions,
           held' \in GetKey(b, k, v)
    PROVE  /\ held' \in [Browsers -> [Keys -> {NotHeld, Unversioned} \cup Versions]]
           /\ \A c \in Browsers, other \in Keys :
                 held'[c][other] # NotHeld => held[c][other] # NotHeld \/ Stored(other)
           /\ Stored(k)
<1>1. held \in [Browsers -> [Keys -> {NotHeld, Unversioned} \cup Versions]]
  BY DEF IInv, TypeOK
<1>2. /\ StoreWith(b, k, v) \in [Browsers -> [Keys -> {NotHeld, Unversioned} \cup Versions]]
      /\ \A c \in Browsers, other \in Keys :
            StoreWith(b, k, v)[c][other] = IF c = b /\ other = k THEN v ELSE held[c][other]
  BY <1>1 DEF StoreWith
<1>3. Stored(k)
  BY DEF GetKey, IInv, HeldIsStored, Stored, HasWrap
<1> QED
  BY <1>1, <1>2, <1>3 DEF GetKey

\* What the server names and lists.
LEMMA CurrentFits ==
    ASSUME IInv
    PROVE  /\ CurrentKey \in Keys \cup {NoKey} /\ CurrentVersion \in Versions /\ CurrentVersion <= version
           /\ CurrentKey # NoKey => /\ wraps # {} /\ Stored(CurrentKey)
                                    /\ \A w \in wraps : w.key = CurrentKey => w.version = CurrentVersion
           /\ \A u : /\ Missing(u) \subseteq Devices
                     /\ Missing(u) # {} => CurrentKey # NoKey
                     /\ \A page \in Pages(u) : page \subseteq Missing(u)
<1>1. /\ CurrentKey \in Keys \cup {NoKey} /\ CurrentVersion \in Versions
      /\ wraps # {} => CurrentKey # NoKey /\ \E w \in wraps : w.key = CurrentKey /\ w.version = CurrentVersion
      /\ wraps = {} => CurrentKey = NoKey /\ CurrentVersion = version
  BY CurrentIsStored DEF IInv
<1>2. CurrentVersion <= version
  <2>1. version \in Nat
    BY DEF IInv, TypeOK, Versions
  <2> QED
    BY <1>1, <2>1 DEF IInv, ServerFits
<1>3. CurrentKey # NoKey => /\ wraps # {} /\ Stored(CurrentKey)
                            /\ \A w \in wraps : w.key = CurrentKey => w.version = CurrentVersion
  BY <1>1 DEF IInv, OneVersionPerKey, Stored
<1>4. ASSUME NEW u
      PROVE  /\ Missing(u) \subseteq Devices /\ (Missing(u) # {} => CurrentKey # NoKey)
             /\ \A page \in Pages(u) : page \subseteq Missing(u)
  <2>1. Missing(u) \subseteq Devices /\ (Missing(u) # {} => CurrentKey # NoKey)
    BY DEF Missing
  <2>2. \A page \in Pages(u) : page \subseteq Missing(u)
    BY DEF Pages
  <2> QED
    BY <2>1, <2>2
<1> QED
  BY <1>1, <1>2, <1>3, <1>4

\* The answer of pending-wraps, put into a job.
LEMMA ViewFits ==
    ASSUME IInv, NEW b \in Browsers, NEW page \in SUBSET Devices
    PROVE  /\ WithView(b, page) \in Job
           /\ WithView(b, page).key = CurrentKey /\ WithView(b, page).version = CurrentVersion
           /\ WithView(b, page).devices = page
           /\ \A f \in {"pc", "kind", "scope", "joined", "target", "generated", "gaveUp", "round",
                        "recipients", "named", "roster"} :
                 WithView(b, page)[f] = jobs[b][f]
<1>1. CurrentKey \in Keys \cup {NoKey} /\ CurrentVersion \in 0 .. MaxVersion
  BY CurrentFits, KeysAssumption DEF Versions
<1>2. jobs[b] \in Job
  BY DEF IInv, TypeOK
<1> QED
  BY <1>1, <1>2 DEF WithView, Job

\* An upload of the key the server names agrees with every other.
LEMMA CurrentAgrees ==
    ASSUME IInv, NEW b \in Browsers, NEW j, j.key = CurrentKey, j.version = CurrentVersion, CurrentKey # NoKey
    PROVE  Agree(b, j)
<1>1. PICK w \in wraps : w.key = CurrentKey /\ w.version = CurrentVersion
  <2>1. wraps # {}
    BY CurrentFits
  <2> QED
    BY <2>1, CurrentIsStored DEF IInv
<1>2. ASSUME NEW c \in Browsers, jobs[c].pc \in Uploading, jobs[c].key = CurrentKey
      PROVE  jobs[c].version = CurrentVersion
  BY <1>1, <1>2 DEF IInv, JobsFit, JobFits
<1> QED
  BY <1>2 DEF Agree

\* One round of the share loop, on the answer it was just given.
LEMMA ShareStep ==
    ASSUME IInv, NEW b \in Browsers, jobs[b].pc \in {"named", "round"}, NEW j \in Job, ShareRound(b, j),
           j.key = CurrentKey, j.version = CurrentVersion, j.devices # {} => CurrentKey # NoKey,
           j.scope = jobs[b].scope, j.target = jobs[b].target, j.kind = jobs[b].kind,
           UNCHANGED <<clientOthers, wraps>>
    PROVE  IInv'
<1>1. /\ CurrentKey \in Keys \cup {NoKey} /\ CurrentVersion \in Versions /\ CurrentVersion <= version
      /\ CurrentKey # NoKey => /\ Stored(CurrentKey)
                               /\ \A w \in wraps : w.key = CurrentKey => w.version = CurrentVersion
      /\ j.devices # {} => CurrentKey # NoKey
  BY CurrentFits
<1>2. /\ jobs[b].scope <= version /\ jobs[b].target <= version /\ identity[b] # 0
      /\ jobs[b].kind = "send" /\ jobs[b].scope # 0
  BY DEF IInv, JobsFit, JobFits
<1>3. UNCHANGED <<serverVars, deviceVars, posted, faults>> /\ TypeOK
  BY DEF clientOthers, IInv
<1>4. ASSUME NEW p \in Job, p.pc = "pick", p.key = j.key, p.version = j.version, p.scope = j.scope,
             p.target = j.target, p.kind = j.kind
      PROVE  JobFits(b, p) /\ Agree(b, p)
  BY <1>1, <1>2, <1>4 DEF JobFits, Agree, Admits, Uploading
<1>5. Pick(j) \in Job /\ Pick([j EXCEPT !.gaveUp = TRUE]) \in Job
  BY DEF Pick, Job
<1>6. CASE GoOn(b, Pick(j)) /\ UNCHANGED held
  <2>1. JobFits(b, Pick(j)) /\ Agree(b, Pick(j))
    BY <1>4, <1>5 DEF Pick, Job
  <2> QED
    BY <1>3, <1>5, <1>6, <2>1, ClientStep DEF GoOn, TypeOK
<1>7. CASE GoOn(b, Pick([j EXCEPT !.gaveUp = TRUE])) /\ UNCHANGED held
  <2> DEFINE p == Pick([j EXCEPT !.gaveUp = TRUE])
  <2>1. JobFits(b, p) /\ Agree(b, p)
    BY <1>4, <1>5 DEF Pick, Job
  <2> QED
    BY <1>3, <1>5, <1>7, <2>1, ClientStep DEF GoOn, TypeOK
<1>8. CASE /\ j.devices # {} /\ j.round # MaxRounds
           /\ held' \in GetKey(b, j.key, j.version)
           /\ GoOn(b, Share([j EXCEPT !.round = @ + 1]))
  <2> DEFINE p == Share([j EXCEPT !.round = @ + 1])
  <2>1. j.round + 1 \in 0 .. MaxRounds /\ j.round + 1 # 0
    BY <1>8, KeysAssumption DEF Job
  <2>2. p \in Job
    BY <2>1 DEF Share, Job, Uploading
  <2>3. /\ p.pc = "scope" /\ p.key = j.key /\ p.version = j.version /\ p.scope = j.scope /\ p.round # 0
        /\ p.target = j.target /\ p.kind = j.kind
    BY <2>1 DEF Share, Job
  <2>4. CurrentKey \in Keys /\ CurrentKey # NoKey /\ CurrentVersion # 0
    BY <1>1, <1>8, KeysAssumption DEF Versions
  <2> HIDE DEF p
  <2>5. JobFits(b, p)
    BY <1>1, <1>2, <2>3, <2>4 DEF JobFits, Admits
  <2>6. Agree(b, p)
    BY <2>3, <2>4, CurrentAgrees
  <2>7. /\ held' \in [Browsers -> [Keys -> {NotHeld, Unversioned} \cup Versions]]
        /\ \A c \in Browsers, k \in Keys : held'[c][k] # NotHeld => held[c][k] # NotHeld \/ Stored(k)
    BY <1>1, <1>8, <2>4, GetKeyFits
  <2>8. jobs' = [jobs EXCEPT ![b] = p]
    BY <1>8 DEF GoOn, p
  <2> QED
    BY <1>3, <2>2, <2>5, <2>6, <2>7, <2>8, ClientStep DEF TypeOK
<1> QED
  BY <1>6, <1>7, <1>8 DEF ShareRound

LEMMA NamedStep ==
    ASSUME IInv, NEW b \in Browsers, NamedView(b)
    PROVE  IInv'
<1>1. CASE Fail(b) /\ UNCHANGED held
  BY <1>1, EndStep DEF NamedView, clientOthers, IInv, TypeOK
<1>2. CASE ~(Fail(b) /\ UNCHANGED held)
  <2>1. PICK page \in Pages(Owner[b]) :
           ShareRound(b, [WithView(b, page) EXCEPT !.named = CurrentKey, !.roster = Targets])
    BY <1>2 DEF NamedView
  <2> DEFINE v == WithView(b, page)
             j == [v EXCEPT !.named = CurrentKey, !.roster = Targets]
  <2>2. page \in SUBSET Devices /\ (page # {} => CurrentKey # NoKey) /\ CurrentKey \in Keys \cup {NoKey}
    BY CurrentFits
  <2>3. /\ v \in Job /\ v.key = CurrentKey /\ v.version = CurrentVersion /\ v.devices = page
        /\ v.scope = jobs[b].scope /\ v.target = jobs[b].target /\ v.kind = jobs[b].kind
    BY <2>2, ViewFits
  <2> HIDE DEF v
  <2>4. Targets \subseteq Devices
    BY DEF Targets
  <2>5. /\ j \in Job
        /\ j.key = CurrentKey /\ j.version = CurrentVersion /\ j.devices = page
        /\ j.scope = jobs[b].scope /\ j.target = jobs[b].target /\ j.kind = jobs[b].kind
    BY <2>2, <2>3, <2>4 DEF Job
  <2>6. ShareRound(b, j)
    BY <2>1 DEF v
  <2> HIDE DEF j
  <2> QED
    BY <2>2, <2>5, <2>6, ShareStep DEF NamedView
<1> QED
  BY <1>1, <1>2

LEMMA RoundStep ==
    ASSUME IInv, NEW b \in Browsers, RoundView(b)
    PROVE  IInv'
<1>1. CASE Fail(b) /\ UNCHANGED held
  BY <1>1, EndStep DEF RoundView, clientOthers, IInv, TypeOK
<1>2. CASE ~(Fail(b) /\ UNCHANGED held)
  <2>1. PICK page \in Pages(Owner[b]) :
           ShareRound(b, [WithView(b, page) EXCEPT !.roster = @ \cap Targets])
    BY <1>2 DEF RoundView
  <2> DEFINE v == WithView(b, page)
             j == [v EXCEPT !.roster = @ \cap Targets]
  <2>2. page \in SUBSET Devices /\ (page # {} => CurrentKey # NoKey)
    BY CurrentFits
  <2>3. /\ v \in Job /\ v.key = CurrentKey /\ v.version = CurrentVersion /\ v.devices = page
        /\ v.scope = jobs[b].scope /\ v.target = jobs[b].target /\ v.kind = jobs[b].kind
    BY <2>2, ViewFits
  <2> HIDE DEF v
  <2>5. /\ j \in Job
        /\ j.key = CurrentKey /\ j.version = CurrentVersion /\ j.devices = page
        /\ j.scope = jobs[b].scope /\ j.target = jobs[b].target /\ j.kind = jobs[b].kind
    BY <2>3 DEF Job
  <2>6. ShareRound(b, j)
    BY <2>1 DEF v
  <2> HIDE DEF j
  <2> QED
    BY <2>2, <2>5, <2>6, ShareStep DEF RoundView
<1> QED
  BY <1>1, <1>2

LEMMA MaintainStep ==
    ASSUME IInv, NEW b \in Browsers, MaintainView(b)
    PROVE  IInv'
<1>1. CASE Fail(b) /\ UNCHANGED held
  BY <1>1, EndStep DEF MaintainView, clientOthers, IInv, TypeOK
<1>2. CASE ~(Fail(b) /\ UNCHANGED held)
  <2>1. /\ jobs[b].pc = "view" /\ jobs[b].kind = "maintain" /\ UNCHANGED <<clientOthers, wraps>>
        /\ Missing(Owner[b]) # {} /\ held' \in GetKey(b, CurrentKey, CurrentVersion)
    BY <1>2 DEF MaintainView
  <2>0. PICK page \in Pages(Owner[b]) : GoOn(b, Share(WithView(b, page)))
    BY <1>2 DEF MaintainView
  <2>2. /\ jobs[b].scope <= version /\ jobs[b].target <= version /\ identity[b] # 0
    BY <2>1 DEF IInv, JobsFit, JobFits
  <2> DEFINE j == WithView(b, page)
             p == Share(j)
  <2>3. /\ j \in Job /\ j.key = CurrentKey /\ j.version = CurrentVersion
        /\ j.scope = jobs[b].scope /\ j.target = jobs[b].target /\ j.kind = "maintain"
        /\ j.generated = jobs[b].generated /\ j.round = jobs[b].round
        /\ j.devices = page
    <3>1. page \in SUBSET Devices
      BY CurrentFits
    <3> QED
      BY <2>1, <3>1, ViewFits
  <2>4. /\ CurrentKey \in Keys /\ CurrentKey # NoKey /\ CurrentVersion \in Versions /\ CurrentVersion # 0
        /\ CurrentVersion <= version
        /\ \A w \in wraps : w.key = CurrentKey => w.version = CurrentVersion
    BY <2>1, CurrentFits, KeysAssumption DEF Versions
  <2>p. page # {}
    BY <2>1, FS_EmptySet, KeysAssumption DEF Pages
  <2> HIDE DEF j
  <2>5. /\ p \in Job /\ p.pc = "scope" /\ p.key = CurrentKey /\ p.version = CurrentVersion
        /\ p.devices # {} /\ p.scope = jobs[b].scope /\ p.target = jobs[b].target /\ p.kind = "maintain"
    BY <2>3, <2>p DEF Share, Job, Uploading
  <2> HIDE DEF p
  <2>6. JobFits(b, p)
    BY <2>2, <2>4, <2>5 DEF JobFits, Admits
  <2>7. Agree(b, p)
    BY <2>4, <2>5, CurrentAgrees
  <2>8. /\ held' \in [Browsers -> [Keys -> {NotHeld, Unversioned} \cup Versions]]
        /\ \A c \in Browsers, k \in Keys : held'[c][k] # NotHeld => held[c][k] # NotHeld \/ Stored(k)
    BY <2>1, <2>4, GetKeyFits
  <2>9. UNCHANGED <<serverVars, deviceVars, wraps, posted, faults>> /\ TypeOK
    BY <2>1 DEF clientOthers, IInv
  <2> QED
    BY <2>0, <2>5, <2>6, <2>7, <2>8, <2>9, ClientStep DEF GoOn, TypeOK, p, j
<1> QED
  BY <1>1, <1>2

LEMMA FirstStep ==
    ASSUME IInv, NEW b \in Browsers, FirstView(b)
    PROVE  IInv'
<1> USE KeysAssumption
<1> DEFINE target == Higher(jobs[b].scope, CurrentVersion)
           j == [WithView(b, {}) EXCEPT !.target = target]
<1>1. /\ jobs[b].pc = "view" /\ jobs[b].kind = "send"
      /\ UNCHANGED <<serverVars, deviceVars, wraps, held, posted, faults>> /\ TypeOK
  BY DEF FirstView, clientOthers, IInv
<1>2. jobs[b].scope <= version /\ jobs[b].scope # 0 /\ identity[b] # 0 /\ jobs[b].scope \in 0 .. MaxVersion
  BY <1>1 DEF IInv, JobsFit, JobFits, TypeOK, Job
<1>3. /\ CurrentKey \in Keys \cup {NoKey} /\ CurrentVersion \in Versions /\ CurrentVersion <= version
      /\ CurrentKey # NoKey => Stored(CurrentKey)
  BY CurrentFits
<1>4. target \in Versions /\ target <= version
  BY <1>2, <1>3 DEF Higher, Versions
<1>5. /\ WithView(b, {}) \in Job
      /\ WithView(b, {}).key = CurrentKey /\ WithView(b, {}).version = CurrentVersion
      /\ WithView(b, {}).scope = jobs[b].scope /\ WithView(b, {}).kind = "send"
  <2>1. {} \in SUBSET Devices
    OBVIOUS
  <2> QED
    BY <1>1, <2>1, ViewFits
<1> HIDE DEF target
<1>6. /\ j \in Job /\ j.key = CurrentKey /\ j.version = CurrentVersion /\ j.target = target
      /\ j.scope = jobs[b].scope /\ j.kind = "send"
  BY <1>4, <1>5 DEF Job, Versions
<1> HIDE DEF j
<1>7. CASE Fail(b)
  BY <1>1, <1>7, EndStep DEF TypeOK
<1>8. CASE GoOn(b, Pick(j))
  <2>1. /\ Pick(j) \in Job /\ Pick(j).pc = "pick" /\ Pick(j).key = CurrentKey /\ Pick(j).version = CurrentVersion
        /\ Pick(j).target = target /\ Pick(j).scope = jobs[b].scope /\ Pick(j).kind = "send"
    BY <1>6 DEF Pick, Job
  <2>2. JobFits(b, Pick(j)) /\ Agree(b, Pick(j))
    BY <1>2, <1>3, <1>4, <2>1 DEF JobFits, Agree, Admits, Uploading
  <2> QED
    BY <1>1, <1>8, <2>1, <2>2, ClientStep DEF GoOn, TypeOK
<1>9. CASE \E k \in Fresh : GoOn(b, Generate(j, k, b))
  <2>1. PICK k \in Fresh : GoOn(b, Generate(j, k, b))
    BY <1>9
  <2> DEFINE p == Generate(j, k, b)
  <2>2. DeviceOf(b) \in Devices
    BY <1>1, <1>2 DEF DeviceOf, Devices, TypeOK
  <2>3. /\ k \in Keys /\ k # NoKey /\ \A w \in wraps : w.key # k
        /\ \A c \in Browsers : jobs[c].key # k
    BY DEF Fresh, Keys, NoKey
  <2>4. /\ p \in Job /\ p.pc = "scope" /\ p.key = k /\ p.version = target /\ p.target = target
        /\ p.devices = {DeviceOf(b)} /\ p.scope = jobs[b].scope /\ p.kind = "send"
    BY <1>4, <1>6, <2>2, <2>3 DEF Generate, Job, Uploading, Versions
  <2> HIDE DEF p
  <2>5. target # 0 /\ p.devices # {}
    BY <1>4, <2>4 DEF Versions
  <2>6. JobFits(b, p)
    BY <1>2, <1>4, <2>3, <2>4, <2>5 DEF JobFits, Admits
  <2>7. Agree(b, p)
    BY <2>3, <2>4 DEF Agree
  <2>8. jobs' = [jobs EXCEPT ![b] = p]
    BY <2>1 DEF GoOn, p
  <2> QED
    BY <1>1, <2>4, <2>6, <2>7, <2>8, ClientStep DEF TypeOK
<1> QED
  BY <1>7, <1>8, <1>9 DEF FirstView, j, target

LEMMA PickStep ==
    ASSUME IInv, NEW b \in Browsers, PickKey(b)
    PROVE  IInv'
<1>1. /\ jobs[b].pc = "pick" /\ UNCHANGED <<serverVars, deviceVars, wraps, posted, faults>> /\ TypeOK
  BY DEF PickKey, clientOthers, IInv
<1>2. CASE Fail(b) /\ UNCHANGED held
  BY <1>1, <1>2, EndStep DEF TypeOK
<1>3. CASE \E k \in Candidates(b) : /\ held' \in GetKey(b, k, jobs[b].target)
                                    /\ GoOn(b, [jobs[b] EXCEPT !.pc = "post", !.key = k])
  <2>1. PICK k \in Candidates(b) : /\ held' \in GetKey(b, k, jobs[b].target)
                                   /\ GoOn(b, [jobs[b] EXCEPT !.pc = "post", !.key = k])
    BY <1>3
  <2> DEFINE p == [jobs[b] EXCEPT !.pc = "post", !.key = k]
  <2>2. jobs[b] \in Job /\ jobs[b].target \in {Unversioned} \cup Versions
    BY <1>1, KeysAssumption DEF TypeOK, Job, Unversioned, Versions
  <2>3. k \in Keys /\ k # NoKey
    BY <2>2 DEF Candidates, Job, Keys, NoKey
  <2>4. /\ p \in Job /\ p.pc = "post" /\ p.key = k /\ p.version = jobs[b].version /\ p.target = jobs[b].target
        /\ p.scope = jobs[b].scope /\ p.kind = jobs[b].kind
    BY <2>2, <2>3 DEF Job
  <2> HIDE DEF p
  <2>5. /\ held' \in [Browsers -> [Keys -> {NotHeld, Unversioned} \cup Versions]]
        /\ \A c \in Browsers, other \in Keys :
              held'[c][other] # NotHeld => held[c][other] # NotHeld \/ Stored(other)
        /\ Stored(k)
    BY <2>1, <2>2, <2>3, GetKeyFits
  <2>6. JobFits(b, jobs[b])
    BY DEF IInv, JobsFit
  <2>7. JobFits(b, p)
    BY <1>1, <2>3, <2>4, <2>5, <2>6 DEF JobFits, Admits, Uploading
  <2>8. Agree(b, p)
    BY <2>4 DEF Agree, Uploading
  <2>9. jobs' = [jobs EXCEPT ![b] = p]
    BY <2>1 DEF GoOn, p
  <2> QED
    BY <1>1, <2>4, <2>5, <2>7, <2>8, <2>9, ClientStep DEF TypeOK
<1> QED
  BY <1>2, <1>3 DEF PickKey

\* A send that waits for the running resolution.
LEMMA JoinStep ==
    ASSUME IInv, NEW b \in Browsers, NEW v \in 1 .. version, Join(b, v)
    PROVE  IInv'
<1> DEFINE p == [jobs[b] EXCEPT !.joined = v]
<1>1. /\ jobs[b].pc = "pick" /\ jobs[b] \in Job /\ JobFits(b, jobs[b]) /\ TypeOK
      /\ UNCHANGED <<serverVars, deviceVars, wraps, held, posted, faults>>
      /\ jobs' = [jobs EXCEPT ![b] = p]
  BY DEF Join, clientOthers, IInv, TypeOK, JobsFit
<1>2. v \in 0 .. MaxVersion
  BY <1>1, KeysAssumption DEF TypeOK, Versions
<1>3. /\ p \in Job /\ p.pc = "pick" /\ p.key = jobs[b].key /\ p.version = jobs[b].version
      /\ p.scope = jobs[b].scope /\ p.target = jobs[b].target /\ p.kind = jobs[b].kind
  BY <1>1, <1>2 DEF Job
<1> HIDE DEF p
<1>4. JobFits(b, p) /\ Agree(b, p)
  BY <1>1, <1>3 DEF JobFits, Agree, Admits, Uploading
<1> QED
  BY <1>1, <1>3, <1>4, ClientStep DEF TypeOK

LEMMA PostStep ==
    ASSUME IInv, NEW b \in Browsers, Post(b)
    PROVE  IInv'
<1> DEFINE new == {[key |-> jobs[b].key, seen |-> v, from |-> jobs[b].scope] :
                      v \in {jobs[b].scope, jobs[b].joined} \ {0}}
<1>1. jobs[b].pc = "post" /\ jobs[b] \in Job /\ JobFits(b, jobs[b])
  BY DEF Post, IInv, TypeOK, JobsFit
<1>2. /\ jobs[b].key \in Keys /\ Stored(jobs[b].key) /\ jobs[b].scope \in Versions
      /\ \A v \in {jobs[b].scope, jobs[b].joined} \ {0} : v \in Versions
  BY <1>1, KeysAssumption DEF JobFits, Job, Versions, Keys, NoKey
<1>3. \A m \in new : m \in Message /\ Stored(m.key)
  BY <1>2 DEF Message
<1>4. posted' \subseteq Message /\ \A x \in posted' : x \in posted \/ Stored(x.key)
  BY <1>3 DEF Post, IInv, TypeOK
<1> QED
  BY <1>4, EndStep DEF Post, IInv, TypeOK

\* A step of an upload that only moves on: what it checked has to be admitted.
LEMMA PassStep ==
    ASSUME IInv, NEW b \in Browsers, jobs[b].pc \in Uploading, NEW j \in Job,
           GoOn(b, j), UNCHANGED uploadOthers,
           j.pc \in Uploading, Admits(j),
           j.key = jobs[b].key, j.version = jobs[b].version, j.devices = jobs[b].devices,
           j.scope = jobs[b].scope, j.target = jobs[b].target, j.kind = jobs[b].kind,
           j.generated = jobs[b].generated, j.round = jobs[b].round
    PROVE  IInv'
<1>1. JobFits(b, jobs[b]) /\ Agree(b, jobs[b]) /\ TypeOK
  BY DEF IInv, JobsFit
<1>2. j.pc # "idle" /\ jobs[b].pc # "idle" /\ j.pc \notin {"named", "round", "pick", "post"}
  BY DEF Uploading
<1>3. JobFits(b, j)
  BY <1>1, <1>2 DEF JobFits
<1>4. Agree(b, j)
  BY <1>1 DEF Agree
<1> QED
  BY <1>1, <1>3, <1>4, ClientStep DEF GoOn, uploadOthers, TypeOK

LEMMA UploadSteps ==
    ASSUME IInv, NEW b \in Browsers, LoadScope(b) \/ ReadRecipients(b) \/ CountTargets(b)
    PROVE  IInv'
<1>1. jobs[b] \in Job /\ TypeOK /\ ServerFits /\ JobFits(b, jobs[b])
  BY DEF IInv, TypeOK, JobsFit
<1>2. UNCHANGED uploadOthers /\ jobs[b].pc \in Uploading
  BY DEF LoadScope, ReadRecipients, CountTargets, Uploading
<1>3. CASE Fail(b)
  BY <1>1, <1>2, <1>3, EndStep DEF uploadOthers, TypeOK
<1>4. CASE LoadScope(b) /\ ~Fail(b)
  <2> DEFINE j == [jobs[b] EXCEPT !.pc = "recipients"]
  <2>1. GoOn(b, j)
    BY <1>4 DEF LoadScope
  <2>2. /\ j \in Job /\ j.pc = "recipients"
        /\ j.key = jobs[b].key /\ j.version = jobs[b].version /\ j.devices = jobs[b].devices
        /\ j.scope = jobs[b].scope /\ j.target = jobs[b].target /\ j.kind = jobs[b].kind
        /\ j.generated = jobs[b].generated /\ j.round = jobs[b].round
    BY <1>1 DEF Job, Uploading
  <2> HIDE DEF j
  <2>3. Admits(j) /\ j.pc \in Uploading
    BY <2>2 DEF Admits, Uploading
  <2> QED
    BY <1>2, <2>1, <2>2, <2>3, PassStep
<1>5. CASE ReadRecipients(b)
  <2> DEFINE j == [jobs[b] EXCEPT !.pc = "count", !.recipients = members]
  <2>1. GoOn(b, j)
    BY <1>5 DEF ReadRecipients
  <2>2. /\ j \in Job /\ j.pc = "count" /\ j.recipients = members
        /\ j.key = jobs[b].key /\ j.version = jobs[b].version /\ j.devices = jobs[b].devices
        /\ j.scope = jobs[b].scope /\ j.target = jobs[b].target /\ j.kind = jobs[b].kind
        /\ j.generated = jobs[b].generated /\ j.round = jobs[b].round
    BY <1>1 DEF Job, Uploading, TypeOK
  <2> HIDE DEF j
  <2>3. Admits(j) /\ j.pc \in Uploading
    BY <1>1, <2>2 DEF Admits, Uploading, ServerFits, TypeOK
  <2> QED
    BY <1>2, <2>1, <2>2, <2>3, PassStep
<1>6. CASE CountTargets(b) /\ ~Fail(b)
  <2> DEFINE j == [jobs[b] EXCEPT !.pc = "write", !.recipients = {}]
  <2>1. GoOn(b, j) /\ jobs[b].pc = "count" /\ \A d \in jobs[b].devices : UserOf(d) \in jobs[b].recipients
    BY <1>6 DEF CountTargets
  <2>2. /\ j \in Job /\ j.pc = "write"
        /\ j.key = jobs[b].key /\ j.version = jobs[b].version /\ j.devices = jobs[b].devices
        /\ j.scope = jobs[b].scope /\ j.target = jobs[b].target /\ j.kind = jobs[b].kind
        /\ j.generated = jobs[b].generated /\ j.round = jobs[b].round
    BY <1>1 DEF Job, Uploading
  <2> HIDE DEF j
  <2>3. Admits(j) /\ j.pc \in Uploading
    BY <1>1, <2>1, <2>2 DEF JobFits, Admits, Uploading
  <2> QED
    BY <1>2, <2>1, <2>2, <2>3, PassStep
<1> QED
  BY <1>3, <1>4, <1>5, <1>6

LEMMA WriteStep ==
    ASSUME IInv, NEW b \in Browsers, WriteWraps(b) \/ LoseAnswer(b)
    PROVE  IInv'
<1> DEFINE up == jobs[b]
<1>1. up.pc = "write" /\ up \in Job /\ JobFits(b, up) /\ TypeOK /\ wraps' = Inserted(up)
  BY DEF WriteWraps, LoseAnswer, IInv, TypeOK, JobsFit
<1>2. /\ up.key \in Keys /\ up.version \in Versions /\ identity[b] # 0 /\ up.kind \in {"send", "maintain"}
  BY <1>1, KeysAssumption DEF JobFits, Job, Uploading, Versions
<1>3. wraps \subseteq wraps' /\ UNCHANGED <<serverVars, deviceVars, posted>>
  BY DEF WriteWraps, LoseAnswer, clientOthers, Inserted
<1>4. Idle \in Job /\ JobFits(b, Idle) /\ Idle.pc \notin Uploading \cup {"pick", "post"}
  BY <1>1, IdleFits DEF Idle, Uploading
<1>5. CASE Fail(b) /\ UNCHANGED held /\ faults' \in 0 .. MaxFaults
  BY <1>1, <1>3, <1>4, <1>5, WrapsStep DEF Fail, GoOn, TypeOK
<1>6. CASE LoseAnswer(b)
  <2>1. faults' \in 0 .. MaxFaults
    BY <1>1, <1>6, KeysAssumption DEF LoseAnswer, TypeOK
  <2> QED
    BY <1>5, <1>6, <2>1 DEF LoseAnswer
<1>7. CASE WriteWraps(b)
  <2> DEFINE owns == up.generated /\ up.round = 0
             pc == IF owns THEN "named" ELSE "round"
             next == [up EXCEPT !.pc = pc, !.key = NoKey, !.version = 0, !.devices = {}]
             j == IF up.kind = "maintain" THEN Idle ELSE next
  <2>1. /\ next \in Job /\ next.pc \in {"named", "round"}
        /\ next.scope = up.scope /\ next.target = up.target /\ next.version = 0 /\ next.kind = up.kind
    <3>1. pc \in {"named", "round"}
      OBVIOUS
    <3>2. 0 \in 0 .. MaxVersion
      BY KeysAssumption
    <3> HIDE DEF pc
    <3> QED
      BY <1>1, <3>1, <3>2 DEF Job, NoKey
  <2>2. up.kind # "maintain" => JobFits(b, next)
    BY <1>1, <1>2, <2>1, KeysAssumption DEF JobFits, Admits, Uploading, TypeOK, Versions
  <2>3. j \in Job /\ JobFits(b, j) /\ j.pc \notin Uploading \cup {"pick", "post"}
    BY <1>4, <2>1, <2>2 DEF Uploading
  <2>4. jobs' = [jobs EXCEPT ![b] = j] /\ faults' \in 0 .. MaxFaults
    BY <1>1, <1>7 DEF WriteWraps, Fail, GoOn, clientOthers, TypeOK
  <2>5. held' = IF owns THEN StoreWith(b, up.key, up.version) ELSE held
    BY <1>7 DEF WriteWraps
  <2>6. held' \in [Browsers -> [Keys -> {NotHeld, Unversioned} \cup Versions]]
    BY <1>1, <1>2, <2>5 DEF StoreWith, TypeOK
  <2>7. ASSUME owns PROVE \E w \in wraps' : w.key = up.key
    <3>1. PICK d \in up.devices : TRUE
      BY <1>1, <2>7 DEF JobFits, Uploading
    <3>2. CASE HasWrap(d, up.key)
      BY <1>3, <3>2 DEF HasWrap
    <3>3. CASE ~HasWrap(d, up.key)
      <4>1. [key |-> up.key, version |-> up.version, device |-> d] \in wraps'
        BY <1>1, <3>1, <3>3 DEF Inserted
      <4> QED
        BY <4>1
    <3> QED
      BY <3>2, <3>3
  <2>8. ASSUME NEW c \in Browsers, NEW k \in Keys, held'[c][k] # NotHeld
        PROVE  held[c][k] # NotHeld \/ Stored(k)'
    <3>1. held \in [Browsers -> [Keys -> {NotHeld, Unversioned} \cup Versions]]
      BY <1>1 DEF TypeOK
    <3>2. CASE owns /\ c = b /\ k = up.key
      BY <2>7, <3>2 DEF Stored
    <3>3. CASE ~(owns /\ c = b /\ k = up.key)
      <4>1. held'[c][k] = held[c][k]
        BY <1>2, <2>5, <3>1, <3>3 DEF StoreWith
      <4> QED
        BY <4>1, <2>8
    <3> QED
      BY <3>2, <3>3
  <2> HIDE DEF j
  <2> QED
    BY <1>1, <1>3, <2>3, <2>4, <2>6, <2>8, WrapsStep
<1> QED
  BY <1>6, <1>7

\* A job that starts, and a message that is opened.
LEMMA StartStep ==
    ASSUME IInv, NEW b \in Browsers, Send(b) \/ Maintain(b)
    PROVE  IInv'
<1>1. PICK kind \in {"send", "maintain"}, v \in 0 .. MaxVersion :
        /\ Start(b, kind, v) /\ v <= version
        /\ kind = "send" => v # 0
  BY KeysAssumption DEF Send, Maintain, IInv, TypeOK, Versions
<1> DEFINE j == [Idle EXCEPT !.pc = "view", !.kind = kind, !.scope = v]
<1>2. /\ j \in Job /\ j.pc = "view" /\ j.kind = kind /\ j.scope = v /\ j.target = 0 /\ j.version = 0
  BY IdleFits DEF Idle, Job
<1> HIDE DEF j
<1>3. jobs' = [jobs EXCEPT ![b] = j] /\ identity[b] # 0
      /\ UNCHANGED <<serverVars, deviceVars, wraps, held, posted, faults>>
  BY <1>1 DEF Start, clientOthers, j
<1>4. TypeOK /\ 0 <= version
  BY DEF IInv, TypeOK, Versions
<1>5. JobFits(b, j) /\ Agree(b, j)
  BY <1>1, <1>2, <1>3, <1>4 DEF JobFits, Agree, Admits, Uploading
<1> QED
  BY <1>2, <1>3, <1>4, <1>5, ClientStep DEF TypeOK

LEMMA OpenStep ==
    ASSUME IInv, NEW b \in Browsers, NEW m \in posted, OpenMessage(b, m)
    PROVE  IInv'
<1>1. m.key \in Keys /\ jobs[b] \in Job /\ JobFits(b, jobs[b]) /\ Agree(b, jobs[b]) /\ TypeOK
  BY DEF IInv, TypeOK, Message, JobsFit
<1>2. held' \in GetKey(b, m.key, Unversioned)
  BY DEF OpenMessage, GetKey
<1>3. /\ held' \in [Browsers -> [Keys -> {NotHeld, Unversioned} \cup Versions]]
      /\ \A c \in Browsers, k \in Keys : held'[c][k] # NotHeld => held[c][k] # NotHeld \/ Stored(k)
  BY <1>1, <1>2, GetKeyFits
<1>4. jobs' = [jobs EXCEPT ![b] = jobs[b]]
  BY <1>1 DEF OpenMessage, TypeOK
<1> QED
  BY <1>1, <1>3, <1>4, ClientStep DEF OpenMessage, clientOthers, TypeOK

--------------------------------------------------------------------------------
LEMMA NextStep == IInv /\ [Next]_vars => IInv'
<1> SUFFICES ASSUME IInv, [Next]_vars PROVE IInv'
  OBVIOUS
<1> USE KeysAssumption
<1>t. TypeOK /\ ServerFits
  BY DEF IInv
<1>1. ASSUME NEW value \in BOOLEAN, SetEncrypted(value) PROVE IInv'
  BY <1>1, <1>t, MembersStep DEF SetEncrypted, scopeOthers, TypeOK, ServerFits, Versions
<1>2. ASSUME NEW u \in Users, AddMember(u) PROVE IInv'
  <2>1. cut' \in [Users -> 0 .. MaxVersion] /\ \A v \in Users : cut'[v] = IF v = u THEN 0 ELSE cut[v]
    BY <1>2, <1>t DEF AddMember, TypeOK
  <2> QED
    BY <1>2, <1>t, <2>1, MembersStep DEF AddMember, scopeOthers, TypeOK, ServerFits, Versions
<1>3. ASSUME NEW u \in Users, RemoveMember(u) PROVE IInv'
  <2> DEFINE next == IF encrypted THEN version + 1 ELSE version
  <2>1. next \in Versions /\ version <= next /\ (encrypted => version < next)
    BY <1>3, <1>t DEF RemoveMember, TypeOK, Versions
  <2>2. /\ cut' \in [Users -> 0 .. MaxVersion]
        /\ \A v \in Users : cut'[v] = IF v = u THEN (IF encrypted THEN next ELSE 0) ELSE cut[v]
    BY <1>3, <1>t, <2>1 DEF RemoveMember, TypeOK, Versions
  <2>3. version' = next /\ members' = members \ {u} /\ UNCHANGED <<encrypted, scopeOthers>>
    BY <1>3 DEF RemoveMember
  <2> HIDE DEF next
  <2> QED
    BY <1>t, <2>1, <2>2, <2>3, MembersStep DEF scopeOthers, TypeOK, ServerFits
<1>4. ASSUME NEW d \in Devices, Revoke(d) PROVE IInv'
  <2>1. faults' \in 0 .. MaxFaults /\ device' \in [Devices -> {"absent", "live", "revoked"}]
    BY <1>4, <1>t DEF Revoke, TypeOK
  <2> QED
    BY <1>4, <1>t, <2>1, DeviceStep DEF Revoke, TypeOK
<1>5. ASSUME NEW b \in Browsers, Bootstrap(b) PROVE IInv'
  <2>1. identity[b] + 1 \in 1 .. MaxIdentity
    BY <1>5, <1>t DEF Bootstrap, TypeOK
  <2>2. /\ identity' \in [Browsers -> 0 .. MaxIdentity]
        /\ \A c \in Browsers : identity[c] # 0 => identity'[c] # 0
    BY <1>5, <1>t, <2>1 DEF Bootstrap, TypeOK
  <2>3. device' \in [Devices -> {"absent", "live", "revoked"}]
    BY <1>5, <1>t DEF Bootstrap, TypeOK
  <2> QED
    BY <1>5, <1>t, <2>2, <2>3, DeviceStep DEF Bootstrap, TypeOK
<1>12. ASSUME NEW b \in Browsers, ClearStorage(b) PROVE IInv'
  <2>1. identity[b] + 1 \in 1 .. MaxIdentity /\ faults' \in 0 .. MaxFaults
    BY <1>12, <1>t DEF ClearStorage, TypeOK
  <2>2. /\ identity' \in [Browsers -> 0 .. MaxIdentity]
        /\ \A c \in Browsers : identity[c] # 0 => identity'[c] # 0
    BY <1>12, <1>t, <2>1 DEF ClearStorage, TypeOK
  <2>3. device' \in [Devices -> {"absent", "live", "revoked"}]
    BY <1>12, <1>t DEF ClearStorage, TypeOK
  <2>4. /\ held' \in [Browsers -> [Keys -> {NotHeld, Unversioned} \cup Versions]]
        /\ \A c \in Browsers, k \in Keys : held'[c][k] # NotHeld => held[c][k] # NotHeld
    BY <1>12, <1>t DEF ClearStorage, TypeOK
  <2> QED
    BY <1>12, <2>1, <2>2, <2>3, <2>4, DeviceStep DEF ClearStorage
<1>13. ASSUME NEW b \in Browsers, NEW v \in 1 .. version, Join(b, v) PROVE IInv'
  BY <1>13, JoinStep
<1>6. ASSUME NEW b \in Browsers, Send(b) \/ Maintain(b) PROVE IInv'
  BY <1>6, StartStep
<1>7. ASSUME NEW b \in Browsers, JobStep(b) PROVE IInv'
  BY <1>7, FirstStep, NamedStep, RoundStep, MaintainStep, UploadSteps, WriteStep, PickStep, PostStep
     DEF JobStep, UploadStep
<1>8. ASSUME NEW b \in Browsers, LoseAnswer(b) PROVE IInv'
  BY <1>8, WriteStep
<1>9. ASSUME NEW b \in Browsers, Abort(b) PROVE IInv'
  <2>1. faults' \in 0 .. MaxFaults
    BY <1>9, <1>t DEF Abort, TypeOK
  <2> QED
    BY <1>9, <1>t, <2>1, EndStep DEF Abort, TypeOK
<1>10. ASSUME NEW b \in Browsers, NEW m \in posted, OpenMessage(b, m) PROVE IInv'
  BY <1>10, OpenStep
<1>11. CASE UNCHANGED vars
  BY <1>11, <1>t, DeviceStep DEF vars, serverVars, deviceVars, TypeOK
<1> QED
  BY <1>1, <1>2, <1>3, <1>4, <1>5, <1>6, <1>7, <1>8, <1>9, <1>10, <1>11, <1>12, <1>13 DEF Next

LEMMA Invariance == Spec => []IInv
BY InitIInv, NextStep, PTL DEF Spec

--------------------------------------------------------------------------------
(* A second invariant, of the keys the browsers have and the senders use.   *)

\* The wraps of a key are all of a version in V.
Within(k, V) == \A w \in wraps : w.key = k => w.version \in V
AtLeast(v) == {x \in Versions : v <= x}

\* A stored key was once wrapped for a device of the browser, under the version it is stored with.
HeldFits(b, k) ==
    /\ held[b][k] # NotHeld => \E w \in wraps : w.key = k /\ w.device[1] = b
    /\ held[b][k] \in Versions => Within(k, {held[b][k]})

\* A sender never goes below the version it was started with.
SendFits(j) ==
    /\ j.kind = "send" /\ j.pc \notin {"idle", "view"} => j.scope <= j.target
    /\ j.pc = "pick" /\ j.key # NoKey => Within(j.key, {j.version})
    /\ j.pc = "post" => Within(j.key, AtLeast(j.scope))

SeenFits(m) == Within(m.key, AtLeast(m.from))

SendIInv ==
    /\ \A b \in Browsers : SendFits(jobs[b]) /\ \A k \in Keys : HeldFits(b, k)
    /\ \A m \in posted : SeenFits(m)

\* The first upload of a generated key, up to the answer that names the current one.
Creating(j) == j.generated /\ (j.pc = "named" \/ (j.pc \in Uploading /\ j.round = 0))

\* Until then what the browser has stored is older than its target, or wrapped for its device.
CreationFits(b, j) ==
    Creating(j) =>
        /\ j.round = 0
        /\ j.pc \in Uploading => j.devices = {DeviceOf(b)}
        /\ \A k \in Keys : held[b][k] # NotHeld =>
              HasWrap(DeviceOf(b), k) \/ Within(k, Versions \ AtLeast(j.target))

\* Who has the key named then, or is brought it by the upload in flight.
Had(j) == {d \in Devices : \/ HasWrap(d, j.named)
                           \/ j.pc \in Uploading /\ j.key = j.named /\ d \in j.devices}

\* S has everybody of a roster, or more devices than n full pages.
Covers(S, roster, n) == roster \subseteq S \/ Cardinality(S) > n * MaxWraps

Newer(v) == \E w \in wraps : v < w.version

\* Another key is the current one, and stays so, however many wraps are added.
Beaten(k) ==
    \E x, w \in wraps : x.key = k /\ (x.version < w.version \/ (x.version = w.version /\ w.key < k))

\* The share loop: each round covers the roster or gives the key to a full page,
\* until another key takes its place.
SharingFits(b, j) ==
    /\ HasWrap(DeviceOf(b), j.named)
    /\ j.round # 0
    /\ \E x \in wraps : x.key = j.named /\ j.target <= x.version
    /\ Covers(Had(j), j.roster, 1)
    /\ Covers(Had(j), j.roster, j.round) \/ Beaten(j.named)

\* The end of the loop: the named key was not to be had, or is covered as far as the
\* rounds go, or another took its place: a lower one of the version or a newer one.
PickFits(b, j) ==
    \/ j.gaveUp /\ j.key = j.named /\ held[b][j.named] = NotHeld
    \/ j.key = j.named /\ Covers(Had(j), j.roster, MaxRounds)
    \/ /\ j.key # j.named /\ j.key # NoKey /\ Covers(Had(j), j.roster, 1)
       /\ Newer(j.target) \/ (j.version = j.target /\ j.key < j.named)

PostFits(j) ==
    \/ j.key # j.named
    \/ Covers(Had(j), j.roster, MaxRounds)
    \/ Covers(Had(j), j.roster, 1) /\ Newer(j.target)

CoverFits(b, j) ==
    /\ j.generated => j.kind = "send" /\ j.pc \notin {"idle", "view"}
    /\ j.pc = "view" => j.round = 0
    /\ j.pc = "named" => j.generated
    /\ j.pc = "round" /\ j.generated => j.round # 0
    /\ j.generated /\ ~Creating(j) /\ device[DeviceOf(b)] = "live" =>
          /\ j.named \in Keys
          /\ j.pc \in Uploading \cup {"round"} => SharingFits(b, j)
          /\ j.pc = "pick" => PickFits(b, j)
          /\ j.pc = "post" => PostFits(j)

Covering(b) == \A j : j = jobs[b] => CoverFits(b, j)

CoverIInv == \A b \in Browsers : CreationFits(b, jobs[b]) /\ Covering(b)

LEMMA DevicesFinite == IsFiniteSet(Devices) /\ \A S \in SUBSET Devices : IsFiniteSet(S) /\ Cardinality(S) \in Nat
<1>1. IsFiniteSet(1 .. MaxIdentity)
  BY FS_Interval, KeysAssumption
<1>2. IsFiniteSet(Devices)
  BY <1>1, FS_Product, KeysAssumption DEF Devices
<1> QED
  BY <1>2, FS_Subset, FS_CardinalityType

\* What covers a roster covers every part of it, and goes on to when it grows.
LEMMA CoversMore ==
    ASSUME NEW T \in SUBSET Devices, NEW S \in SUBSET T, NEW roster, NEW part \in SUBSET roster,
           NEW n \in Nat, Covers(S, roster, n)
    PROVE  Covers(T, part, n)
<1>1. S \in SUBSET Devices /\ IsFiniteSet(T) /\ Cardinality(S) \in Nat /\ Cardinality(T) \in Nat
  BY DevicesFinite
<1>2. Cardinality(S) <= Cardinality(T)
  BY <1>1, FS_Subset
<1>3. n * MaxWraps \in Nat
  BY KeysAssumption
<1> QED
  BY <1>1, <1>2, <1>3 DEF Covers

\* The cover of a job that does not move stays, whatever wraps are added.
LEMMA CoverStays ==
    ASSUME wraps \subseteq wraps', NEW c \in Browsers, NEW j \in Job, CoverFits(c, j),
           DeviceOf(c)' = DeviceOf(c), device'[DeviceOf(c)] = "live" => device[DeviceOf(c)] = "live",
           \A k \in Keys : j.gaveUp /\ j.key = k /\ held[c][k] = NotHeld => held'[c][k] = NotHeld
    PROVE  CoverFits(c, j)'
<1>1. \A d, k : HasWrap(d, k) => HasWrap(d, k)'
  BY DEF HasWrap
<1>2. Had(j) \in SUBSET Had(j)' /\ Had(j)' \in SUBSET Devices
  BY <1>1 DEF Had
<1>3. \A n \in Nat : Covers(Had(j), j.roster, n) => Covers(Had(j), j.roster, n)'
  <2> SUFFICES ASSUME NEW n \in Nat, Covers(Had(j), j.roster, n) PROVE Covers(Had(j)', j.roster, n)
    BY DEF Covers
  <2> QED
    BY <1>2, CoversMore
<1>4. /\ 1 \in Nat /\ MaxRounds \in Nat /\ j.round \in Nat
      /\ \A v : Newer(v) => Newer(v)'
      /\ Beaten(j.named) => Beaten(j.named)'
  BY KeysAssumption DEF Newer, Beaten, Job
<1>5. SharingFits(c, j) => SharingFits(c, j)'
  BY <1>1, <1>3, <1>4 DEF SharingFits
<1>6. j.named \in Keys /\ PickFits(c, j) => PickFits(c, j)'
  BY <1>3, <1>4 DEF PickFits
<1>7. PostFits(j) => PostFits(j)'
  BY <1>3, <1>4 DEF PostFits
<1> QED
  BY <1>5, <1>6, <1>7 DEF CoverFits, Creating

LEMMA InitSecond == Init => SendIInv /\ CoverIInv
<1> SUFFICES ASSUME Init PROVE SendIInv /\ CoverIInv
  OBVIOUS
<1>1. \A b \in Browsers : jobs[b] = Idle /\ \A k \in Keys : held[b][k] = NotHeld
  BY DEF Init
<1>2. NotHeld \notin Versions /\ Idle.pc = "idle" /\ Idle.generated = FALSE
  BY DEF NotHeld, Versions, Idle
<1>3. posted = {}
  BY DEF Init
<1> QED
  BY <1>1, <1>2, <1>3
     DEF SendIInv, SendFits, HeldFits, CoverIInv, Covering, CreationFits, CoverFits, Creating, Uploading

\* A key that has a wrap keeps its versions: later wraps agree with the first.
LEMMA WithinStays ==
    ASSUME OneVersionPerKey', wraps \subseteq wraps', NEW k, Stored(k), NEW V, Within(k, V)
    PROVE  \A w \in wraps' : w.key = k => w.version \in V
<1>1. PICK x \in wraps : x.key = k
  BY DEF Stored
<1>2. x \in wraps' /\ x.version \in V
  BY <1>1 DEF Within
<1> QED
  BY <1>1, <1>2 DEF OneVersionPerKey

\* A copy in a browser's store that the step left alone, or brought with its wrap.
KeptOrFits(b, k) ==
    \/ held'[b][k] = held[b][k]
    \/ HeldFits(b, k)'

\* A step that changes the job of one browser, perhaps its store, and only adds
\* wraps and messages.
LEMMA SendStep ==
    ASSUME IInv, IInv', SendIInv, wraps \subseteq wraps', NEW b \in Browsers,
           \A c \in Browsers \ {b} : jobs'[c] = jobs[c],
           SendFits(jobs[b])',
           \A c \in Browsers, k \in Keys : KeptOrFits(c, k),
           \A m \in posted' : m \in posted \/ SeenFits(m)'
    PROVE  SendIInv'
<1>1. OneVersionPerKey'
  BY DEF IInv
<1>2. ASSUME NEW c \in Browsers, NEW k \in Keys PROVE HeldFits(c, k)'
  <2>1. CASE held'[c][k] = held[c][k] /\ held[c][k] # NotHeld
    <3>1. Stored(k) /\ HeldFits(c, k)
      BY <2>1 DEF IInv, HeldIsStored, SendIInv
    <3>2. held[c][k] \in Versions => \A w \in wraps' : w.key = k => w.version \in {held[c][k]}
      BY <1>1, <3>1, WithinStays DEF HeldFits
    <3> QED
      BY <2>1, <3>1, <3>2 DEF HeldFits, Within
  <2>2. CASE held'[c][k] = held[c][k] /\ held[c][k] = NotHeld
    BY <2>2 DEF HeldFits, NotHeld, Versions
  <2> QED
    BY <2>1, <2>2 DEF KeptOrFits
<1>3. ASSUME NEW c \in Browsers, c # b PROVE SendFits(jobs[c])'
  <2> DEFINE j == jobs[c]
  <2>1. SendFits(j) /\ JobFits(c, j) /\ jobs'[c] = j
    BY <1>3 DEF SendIInv, IInv, JobsFit
  <2>2. j.pc = "pick" /\ j.key # NoKey => \A w \in wraps' : w.key = j.key => w.version \in {j.version}
    BY <1>1, <2>1, WithinStays DEF SendFits, JobFits
  <2>3. j.pc = "post" => \A w \in wraps' : w.key = j.key => w.version \in AtLeast(j.scope)
    BY <1>1, <2>1, WithinStays DEF SendFits, JobFits
  <2> QED
    BY <2>1, <2>2, <2>3 DEF SendFits, Within, AtLeast
<1>4. ASSUME NEW m \in posted PROVE SeenFits(m)'
  <2>1. Stored(m.key) /\ SeenFits(m)
    BY DEF IInv, PostedIsRecoverable, Stored, SendIInv
  <2>2. \A w \in wraps' : w.key = m.key => w.version \in AtLeast(m.from)
    BY <1>1, <2>1, WithinStays DEF SeenFits
  <2> QED
    BY <2>2 DEF SeenFits, Within, AtLeast
<1> QED
  BY <1>2, <1>3, <1>4 DEF SendIInv

\* The same for the cover of a generated key; the devices of the browsers stay, or die.
LEMMA CoverStep ==
    ASSUME IInv, IInv', CoverIInv, wraps \subseteq wraps', NEW b \in Browsers,
           \A c \in Browsers \ {b} :
              /\ jobs'[c] = jobs[c] /\ \A k \in Keys : held'[c][k] = held[c][k]
              /\ jobs[c].pc # "idle" => /\ identity'[c] = identity[c]
                                        /\ device'[DeviceOf(c)] = "live" => device[DeviceOf(c)] = "live",
           CreationFits(b, jobs[b])', Covering(b)'
    PROVE  CoverIInv'
<1> SUFFICES ASSUME NEW c \in Browsers \ {b}
             PROVE  CreationFits(c, jobs[c])' /\ Covering(c)'
  BY DEF CoverIInv
<1> SUFFICES ASSUME NEW j, j = jobs[c]
             PROVE  CreationFits(c, jobs[c])' /\ CoverFits(c, j)'
  BY DEF Covering
<1>1. CreationFits(c, j) /\ CoverFits(c, j) /\ jobs'[c] = j /\ j \in Job
  BY DEF CoverIInv, Covering, IInv, TypeOK
<1>2. \A d, k : HasWrap(d, k) => HasWrap(d, k)'
  BY DEF HasWrap
<1>3. CASE j.pc = "idle"
  <2>1. ~j.generated
    BY <1>1, <1>3 DEF CoverFits
  <2> QED
    BY <1>1, <1>3, <2>1 DEF CreationFits, CoverFits, Creating
<1>4. CASE j.pc # "idle"
  <2>1. DeviceOf(c)' = DeviceOf(c) /\ (device'[DeviceOf(c)] = "live" => device[DeviceOf(c)] = "live")
    BY <1>4 DEF DeviceOf
  <2>2. ASSUME Creating(j), NEW k \in Keys, held'[c][k] # NotHeld, ~HasWrap(DeviceOf(c), k)
        PROVE  \A w \in wraps' : w.key = k => w.version \in Versions \ AtLeast(j.target)
    <3>1. held[c][k] # NotHeld
      BY <2>2
    <3>2. Stored(k) /\ Within(k, Versions \ AtLeast(j.target))
      BY <1>1, <2>2, <3>1 DEF CreationFits, IInv, HeldIsStored
    <3> QED
      BY <3>2, WithinStays DEF IInv
  <2>3. CreationFits(c, jobs[c])'
    BY <1>1, <1>2, <2>1, <2>2 DEF CreationFits, Creating, Within, AtLeast
  <2>4. CoverFits(c, j)'
    BY <1>1, <2>1, CoverStays
  <2> QED
    BY <2>3, <2>4
<1> QED
  BY <1>3, <1>4

\* Steps of the server, and a browser that takes a new identity and may lose its keys.
LEMMA QuietStep ==
    ASSUME IInv, IInv', SendIInv, CoverIInv, UNCHANGED <<wraps, jobs, posted>>,
           \A c \in Browsers :
              /\ \A k \in Keys : held'[c][k] \in {held[c][k], NotHeld}
              /\ jobs[c].pc # "idle" => /\ identity'[c] = identity[c]
                                        /\ \A k \in Keys : held'[c][k] = held[c][k]
                                        /\ device'[DeviceOf(c)] = "live" => device[DeviceOf(c)] = "live"
    PROVE  SendIInv' /\ CoverIInv'
<1>1. SendIInv'
  <2>1. \A c \in Browsers : SendFits(jobs[c])'
    BY DEF SendIInv, SendFits, Within, AtLeast
  <2>2. ASSUME NEW c \in Browsers, NEW k \in Keys PROVE HeldFits(c, k)'
    <3>1. HeldFits(c, k) /\ held'[c][k] \in {held[c][k], NotHeld} /\ NotHeld \notin Versions
      BY DEF SendIInv, NotHeld, Versions
    <3> QED
      BY <3>1 DEF HeldFits, Within
  <2>3. \A m \in posted' : SeenFits(m)'
    BY DEF SendIInv, SeenFits, Within, AtLeast
  <2> QED
    BY <2>1, <2>2, <2>3 DEF SendIInv
<1>2. ASSUME NEW c \in Browsers PROVE CreationFits(c, jobs[c])' /\ Covering(c)'
  <2> SUFFICES ASSUME NEW j, j = jobs[c] PROVE CreationFits(c, jobs[c])' /\ CoverFits(c, j)'
    BY DEF Covering
  <2>1. CreationFits(c, j) /\ CoverFits(c, j) /\ j \in Job /\ jobs'[c] = j
    BY DEF CoverIInv, Covering, IInv, TypeOK
  <2>2. CASE j.pc = "idle"
    <3>1. ~j.generated
      BY <2>1, <2>2 DEF CoverFits
    <3> QED
      BY <2>1, <2>2, <3>1 DEF CreationFits, CoverFits, Creating
  <2>3. CASE j.pc # "idle"
    <3>1. DeviceOf(c)' = DeviceOf(c) /\ (device'[DeviceOf(c)] = "live" => device[DeviceOf(c)] = "live")
      BY <2>3 DEF DeviceOf
    <3>2. \A k \in Keys : held'[c][k] = held[c][k]
      BY <2>3
    <3>3. CoverFits(c, j)'
      BY <2>1, <3>1, <3>2, CoverStays
    <3> QED
      BY <2>1, <3>1, <3>2, <3>3 DEF CreationFits, Creating, Within, AtLeast, HasWrap
  <2> QED
    BY <2>2, <2>3
<1> QED
  BY <1>1, <1>2 DEF CoverIInv

\* What a step of browser b leaves to the others.
OnlyJobOf(b) ==
    /\ UNCHANGED <<identity, device>> /\ wraps \subseteq wraps'
    /\ \A c \in Browsers \ {b} : jobs'[c] = jobs[c] /\ \A k \in Keys : held'[c][k] = held[c][k]

LEMMA BrowserStep ==
    ASSUME IInv, IInv', SendIInv, CoverIInv, NEW b \in Browsers, OnlyJobOf(b),
           SendFits(jobs[b])', \A k \in Keys : KeptOrFits(b, k),
           \A m \in posted' : m \in posted \/ SeenFits(m)',
           CreationFits(b, jobs[b])', Covering(b)'
    PROVE  SendIInv' /\ CoverIInv'
<1>1. SendIInv'
  BY SendStep DEF OnlyJobOf, KeptOrFits
<1>2. CoverIInv'
  BY CoverStep DEF OnlyJobOf, DeviceOf
<1> QED
  BY <1>1, <1>2

LEMMA GoOnAlone ==
    ASSUME IInv, NEW b \in Browsers, NEW j, GoOn(b, j)
    PROVE  jobs'[b] = j /\ \A c \in Browsers \ {b} : jobs'[c] = jobs[c]
BY DEF GoOn, IInv, TypeOK

\* A job that ends, perhaps after its rows were written.
LEMMA EndSecond ==
    ASSUME IInv, IInv', SendIInv, CoverIInv, NEW b \in Browsers, Fail(b),
           UNCHANGED <<deviceVars, held>>, wraps \subseteq wraps',
           \A m \in posted' : m \in posted \/ SeenFits(m)'
    PROVE  SendIInv' /\ CoverIInv'
<1>1. jobs'[b] = Idle /\ OnlyJobOf(b)
  BY GoOnAlone DEF Fail, OnlyJobOf, deviceVars
<1>2. Idle.pc = "idle" /\ Idle.kind = "none" /\ Idle.generated = FALSE
  BY DEF Idle
<1>3. SendFits(jobs[b])' /\ CreationFits(b, jobs[b])' /\ Covering(b)'
  BY <1>1, <1>2 DEF SendFits, CreationFits, Covering, CoverFits, Creating, Uploading
<1> QED
  BY <1>1, <1>3, BrowserStep DEF KeptOrFits

\* What getKey leaves in the store fits, if the version it is asked with is the key's.
LEMMA GetKeyIsMine ==
    ASSUME IInv, NEW b \in Browsers, NEW k \in Keys, NEW v \in {Unversioned} \cup Versions,
           v \in Versions => Within(k, {v}), held' \in GetKey(b, k, v), UNCHANGED <<wraps, identity>>,
           SendIInv
    PROVE  /\ \A other \in Keys : KeptOrFits(b, other)
           /\ \A c \in Browsers \ {b}, other \in Keys : held'[c][other] = held[c][other]
           /\ \A other \in Keys \ {k} : held'[b][other] = held[b][other]
           /\ held'[b][k] # NotHeld
           /\ held[b][k] # NotHeld \/ HasWrap(DeviceOf(b), k)
<1>1. held \in [Browsers -> [Keys -> {NotHeld, Unversioned} \cup Versions]]
  BY DEF IInv, TypeOK
<1>2. /\ \A c \in Browsers, other \in Keys :
            StoreWith(b, k, v)[c][other] = IF c = b /\ other = k THEN v ELSE held[c][other]
  BY <1>1 DEF StoreWith
<1>3. v # NotHeld
  BY DEF NotHeld, Unversioned, Versions
<1>4. held' = held \/ held' = StoreWith(b, k, v)
  BY DEF GetKey
<1>5. held[b][k] # NotHeld \/ (HasWrap(DeviceOf(b), k) /\ held' = StoreWith(b, k, v))
  BY DEF GetKey
<1>6. \E w \in wraps : w.key = k /\ w.device[1] = b
  <2>1. CASE held[b][k] # NotHeld
    BY <2>1 DEF SendIInv, HeldFits
  <2>2. CASE HasWrap(DeviceOf(b), k)
    BY <2>2 DEF HasWrap, DeviceOf
  <2> QED
    BY <1>5, <2>1, <2>2
<1>7. held'[b][k] # held[b][k] => HeldFits(b, k)'
  <2>1. CASE held'[b][k] = v
    BY <1>6, <2>1 DEF HeldFits, Within
  <2> QED
    BY <1>2, <1>4, <2>1
<1> QED
  BY <1>2, <1>3, <1>4, <1>5, <1>7 DEF KeptOrFits

\* The steps of an upload before its rows are written.
LEMMA UploadSecond ==
    ASSUME IInv, IInv', SendIInv, CoverIInv, NEW b \in Browsers,
           LoadScope(b) \/ ReadRecipients(b) \/ CountTargets(b)
    PROVE  SendIInv' /\ CoverIInv'
<1> DEFINE j == jobs[b]
           p == jobs'[b]
<1>1. j.pc \in Uploading /\ UNCHANGED uploadOthers /\ j \in Job
  BY DEF LoadScope, ReadRecipients, CountTargets, Uploading, IInv, TypeOK
<1>2. CASE Fail(b)
  BY <1>1, <1>2, EndSecond DEF uploadOthers
<1>3. CASE ~Fail(b)
  <2>1. \/ GoOn(b, [jobs[b] EXCEPT !.pc = "recipients"])
        \/ GoOn(b, [jobs[b] EXCEPT !.pc = "count", !.recipients = members])
        \/ GoOn(b, [jobs[b] EXCEPT !.pc = "write", !.recipients = {}])
    BY <1>3 DEF LoadScope, ReadRecipients, CountTargets
  <2>2. /\ p.pc \in Uploading /\ p.pc # "named"
        /\ p.kind = j.kind /\ p.scope = j.scope /\ p.target = j.target /\ p.generated = j.generated
        /\ p.gaveUp = j.gaveUp /\ p.round = j.round /\ p.key = j.key /\ p.devices = j.devices
        /\ p.named = j.named /\ p.roster = j.roster
    <3>1. \/ p = [j EXCEPT !.pc = "recipients"]
          \/ p = [j EXCEPT !.pc = "count", !.recipients = members]
          \/ p = [j EXCEPT !.pc = "write", !.recipients = {}]
      BY <2>1, GoOnAlone
    <3> QED
      BY <1>1, <3>1 DEF Job, Uploading
  <2>3. OnlyJobOf(b)
    BY <1>1, <2>1, GoOnAlone DEF OnlyJobOf, uploadOthers, deviceVars
  <2>4. SendFits(j) /\ CreationFits(b, j) /\ CoverFits(b, j)
    BY DEF SendIInv, CoverIInv, Covering
  <2>5. p.pc \notin {"idle", "view", "named", "round", "pick", "post"}
        /\ j.pc \notin {"idle", "view", "named", "round", "pick", "post"}
    BY <1>1, <2>2 DEF Uploading
  <2>6. SendFits(jobs[b])'
    BY <2>2, <2>4, <2>5 DEF SendFits
  <2>7. UNCHANGED <<identity, device, wraps, held>> /\ DeviceOf(b)' = DeviceOf(b)
    BY <1>1 DEF uploadOthers, deviceVars, DeviceOf
  <2>8. CreationFits(b, jobs[b])'
    BY <1>1, <2>2, <2>4, <2>7 DEF CreationFits, Creating, HasWrap, Within, AtLeast
  <2>9. Covering(b)'
    <3> SUFFICES ASSUME NEW next, next = p PROVE CoverFits(b, next)'
      BY DEF Covering
    <3>1. Creating(j) <=> Creating(next)
      BY <1>1, <2>2, <2>5 DEF Creating
    <3>2. Had(next) = Had(j)
      BY <1>1, <2>2 DEF Had
    <3>3. SharingFits(b, j) => SharingFits(b, next)
      BY <2>2, <3>2 DEF SharingFits
    <3>4. CoverFits(b, next)
      BY <1>1, <2>2, <2>4, <2>5, <3>1, <3>3 DEF CoverFits
    <3>5. next \in Job /\ \A k \in Keys : held'[b][k] = held[b][k]
      BY <2>7 DEF IInv, TypeOK
    <3> QED
      BY <2>7, <3>4, <3>5, CoverStays
  <2> QED
    BY <1>1, <2>3, <2>6, <2>8, <2>9, BrowserStep DEF KeptOrFits, uploadOthers
<1> QED
  BY <1>2, <1>3

\* The rows of an upload: the browser goes on, or takes the upload for a failure.
LEMMA WriteSecond ==
    ASSUME IInv, IInv', SendIInv, CoverIInv, NEW b \in Browsers, WriteWraps(b) \/ LoseAnswer(b)
    PROVE  SendIInv' /\ CoverIInv'
<1> SUFFICES ASSUME NEW j, j = jobs[b] PROVE SendIInv' /\ CoverIInv'
  OBVIOUS
<1> DEFINE p == jobs'[b]
           owns == j.generated /\ j.round = 0
<1>1. /\ j.pc = "write" /\ j \in Job /\ JobFits(b, j) /\ wraps' = Inserted(j) /\ UNCHANGED <<deviceVars, posted>>
      /\ SendFits(j) /\ CreationFits(b, j) /\ CoverFits(b, j)
  BY DEF WriteWraps, LoseAnswer, clientOthers, IInv, TypeOK, JobsFit, SendIInv, CoverIInv, Covering
<1>2. /\ wraps \subseteq wraps' /\ \A d \in j.devices : HasWrap(d, j.key)'
      /\ \A d, k : HasWrap(d, k) => HasWrap(d, k)'
      /\ j.key \in Keys /\ j.version \in Versions
  <2>1. wraps \subseteq wraps' /\ j.key \in Keys /\ j.version \in Versions
    BY <1>1, KeysAssumption DEF JobFits, Job, Uploading, Versions, Inserted
  <2>2. ASSUME NEW d \in j.devices, ~HasWrap(d, j.key) PROVE HasWrap(d, j.key)'
    <3>1. [key |-> j.key, version |-> j.version, device |-> d] \in wraps'
      BY <1>1, <2>2 DEF Inserted
    <3> QED
      BY <3>1 DEF HasWrap
  <2> QED
    BY <2>1, <2>2 DEF HasWrap
<1>3. CASE Fail(b) /\ UNCHANGED held
  BY <1>1, <1>2, <1>3, EndSecond
<1>4. CASE WriteWraps(b)
  <2>1. held' = IF owns THEN StoreWith(b, j.key, j.version) ELSE held
    BY <1>4 DEF WriteWraps
  <2>2. /\ \A c \in Browsers, k \in Keys :
              held'[c][k] = IF owns /\ c = b /\ k = j.key THEN j.version ELSE held[c][k]
    BY <1>2, <2>1 DEF StoreWith, IInv, TypeOK
  <2>3. OnlyJobOf(b)
    BY <1>1, <1>2, <1>4, <2>2, GoOnAlone DEF WriteWraps, Fail, OnlyJobOf, deviceVars
  <2>4. DeviceOf(b)' = DeviceOf(b) /\ UNCHANGED device /\ DeviceOf(b)[1] = b
    BY <1>1 DEF deviceVars, DeviceOf
  <2>5. ASSUME owns PROVE Creating(j) /\ j.devices = {DeviceOf(b)} /\ HasWrap(DeviceOf(b), j.key)'
    <3>1. Creating(j) /\ j.pc \in Uploading
      BY <1>1, <2>5 DEF Creating, Uploading
    <3>2. j.devices = {DeviceOf(b)}
      BY <1>1, <3>1 DEF CreationFits
    <3>3. HasWrap(DeviceOf(b), j.key)'
      <4>1. PICK d \in j.devices : d = DeviceOf(b)
        BY <3>2
      <4>2. HasWrap(d, j.key)'
        BY <1>2
      <4> QED
        BY <2>4, <4>1, <4>2 DEF HasWrap
    <3> QED
      BY <3>1, <3>2, <3>3
  <2>6. ASSUME owns PROVE HeldFits(b, j.key)'
    <3>1. held'[b][j.key] = j.version
      BY <1>2, <2>2, <2>6
    <3>2. \E w \in wraps' : w.key = j.key /\ w.device[1] = b
      BY <2>4, <2>5, <2>6 DEF HasWrap
    <3>3. \A w \in wraps' : w.key = j.key => w.version = j.version
      BY <1>1, <1>2 DEF JobFits, Inserted, Uploading
    <3> QED
      BY <3>1, <3>2, <3>3 DEF HeldFits, Within
  <2>7. \A k \in Keys : KeptOrFits(b, k)
    BY <2>2, <2>6 DEF KeptOrFits
  <2>8. CASE j.kind = "maintain"
    <3>1. p = Idle /\ Idle.pc = "idle" /\ Idle.kind = "none" /\ Idle.generated = FALSE
      BY <1>4, <2>8, GoOnAlone DEF WriteWraps, Fail, Idle
    <3>2. SendFits(jobs[b])' /\ CreationFits(b, jobs[b])' /\ Covering(b)'
      BY <3>1 DEF SendFits, CreationFits, Covering, CoverFits, Creating, Uploading
    <3> QED
      BY <1>1, <2>3, <2>7, <3>2, BrowserStep
  <2>9. CASE j.kind # "maintain"
    <3> DEFINE pc == IF owns THEN "named" ELSE "round"
    <3>1. p = [j EXCEPT !.pc = pc, !.key = NoKey, !.version = 0, !.devices = {}]
      BY <1>4, <2>9, GoOnAlone DEF WriteWraps
    <3>2. /\ p.pc = pc /\ p.pc \in {"named", "round"} /\ p.pc \notin Uploading
          /\ p.kind = j.kind /\ p.scope = j.scope /\ p.target = j.target /\ p.generated = j.generated
          /\ p.round = j.round /\ p.named = j.named /\ p.roster = j.roster
      BY <1>1, <3>1 DEF Job, Uploading
    <3>3. SendFits(jobs[b])'
      BY <1>1, <3>2 DEF SendFits
    <3>4. CreationFits(b, jobs[b])'
      <4>1. SUFFICES ASSUME Creating(jobs[b])'
                     PROVE  /\ p.round = 0
                            /\ \A k \in Keys : held'[b][k] # NotHeld =>
                                  \/ HasWrap(DeviceOf(b), k)'
                                  \/ \A w \in wraps' : w.key = k => w.version \in Versions \ AtLeast(j.target)
        BY <3>2 DEF CreationFits, Within, AtLeast
      <4>2. owns
        BY <3>2, <4>1 DEF Creating
      <4>3. ASSUME NEW k \in Keys, held'[b][k] # NotHeld, k # j.key, ~HasWrap(DeviceOf(b), k)
            PROVE  \A w \in wraps' : w.key = k => w.version \in Versions \ AtLeast(j.target)
        <5>1. held[b][k] # NotHeld
          BY <2>2, <4>3
        <5>2. Stored(k) /\ Within(k, Versions \ AtLeast(j.target))
          BY <1>1, <2>5, <4>2, <4>3, <5>1 DEF CreationFits, IInv, HeldIsStored
        <5> QED
          BY <1>2, <5>2, WithinStays DEF IInv
      <4> QED
        BY <1>2, <2>4, <2>5, <3>2, <4>2, <4>3
    <3>5. Covering(b)'
      <4> SUFFICES ASSUME NEW next, next = p PROVE CoverFits(b, next)'
        BY DEF Covering
      <4>1. next.generated /\ ~Creating(next) => j.generated /\ ~owns /\ ~Creating(j)
        BY <1>1, <3>2 DEF Creating
      <4>2. ASSUME j.generated, ~owns, j.named \in Keys, SharingFits(b, j) PROVE SharingFits(b, next)'
        <5>1. Had(j) \in SUBSET Had(next)' /\ Had(next)' \in SUBSET Devices
          BY <1>1, <1>2, <3>2 DEF Had
        <5>2. ASSUME NEW n \in Nat, Covers(Had(j), j.roster, n) PROVE Covers(Had(next), next.roster, n)'
          <6>1. Covers(Had(next)', j.roster, n)
            BY <5>1, <5>2, CoversMore
          <6> QED
            BY <3>2, <6>1 DEF Covers
        <5>3. 1 \in Nat /\ j.round \in Nat
          BY <1>1 DEF Job
        <5>4. Beaten(j.named) => Beaten(j.named)'
          BY <1>2 DEF Beaten
        <5>5. HasWrap(DeviceOf(b), next.named)' /\ \E x \in wraps' : x.key = next.named /\ next.target <= x.version
          BY <1>2, <2>4, <3>2, <4>2 DEF SharingFits
        <5> QED
          BY <3>2, <4>2, <5>2, <5>3, <5>4, <5>5 DEF SharingFits
      <4>3. j.pc \in Uploading
        BY <1>1 DEF Uploading
      <4> QED
        BY <1>1, <2>4, <3>2, <4>1, <4>2, <4>3 DEF CoverFits, Creating
    <3> QED
      BY <1>1, <2>3, <2>7, <3>3, <3>4, <3>5, BrowserStep
  <2> QED
    BY <2>8, <2>9
<1> QED
  BY <1>3, <1>4 DEF LoseAnswer

\* A message that is posted was encrypted under a key of the sender's version or later.
LEMMA PostSecond ==
    ASSUME IInv, IInv', SendIInv, CoverIInv, NEW b \in Browsers, Post(b)
    PROVE  SendIInv' /\ CoverIInv'
<1>1. jobs[b].pc = "post" /\ SendFits(jobs[b]) /\ UNCHANGED wraps
  BY DEF Post, SendIInv
<1>2. \A m \in posted' : m \in posted \/ SeenFits(m)'
  BY <1>1 DEF Post, SendFits, SeenFits, Within, AtLeast
<1> QED
  BY <1>1, <1>2, EndSecond DEF Post

\* A message that is opened: its key has a wrap for this device.
LEMMA OpenSecond ==
    ASSUME IInv, IInv', SendIInv, CoverIInv, NEW b \in Browsers, NEW m \in posted, OpenMessage(b, m)
    PROVE  SendIInv' /\ CoverIInv'
<1>1. m.key \in Keys /\ Unversioned \notin Versions
  BY DEF IInv, TypeOK, Message, Unversioned, Versions
<1>2. /\ held' \in GetKey(b, m.key, Unversioned) /\ HasWrap(DeviceOf(b), m.key)
      /\ UNCHANGED <<wraps, identity, device, jobs, posted>>
      /\ jobs[b].gaveUp => jobs[b].key # m.key
  BY DEF OpenMessage, GetKey, clientOthers, deviceVars
<1>3. /\ \A other \in Keys : KeptOrFits(b, other)
      /\ \A c \in Browsers \ {b}, other \in Keys : held'[c][other] = held[c][other]
      /\ \A other \in Keys \ {m.key} : held'[b][other] = held[b][other]
  BY <1>1, <1>2, GetKeyIsMine
<1>4. OnlyJobOf(b)
  BY <1>2, <1>3 DEF OnlyJobOf
<1>5. SendFits(jobs[b]) /\ CreationFits(b, jobs[b]) /\ CoverFits(b, jobs[b])
  BY DEF SendIInv, CoverIInv, Covering
<1>6. SendFits(jobs[b])'
  BY <1>2, <1>5 DEF SendFits, Within, AtLeast
<1>7. CreationFits(b, jobs[b])'
  BY <1>2, <1>3, <1>5 DEF CreationFits, Creating, HasWrap, Within, AtLeast, DeviceOf
<1>8. Covering(b)'
  <2> SUFFICES ASSUME NEW j, j = jobs[b] PROVE CoverFits(b, j)'
    BY <1>2 DEF Covering
  <2>1. j \in Job /\ CoverFits(b, j) /\ DeviceOf(b)' = DeviceOf(b)
    BY <1>2, <1>5 DEF IInv, TypeOK, DeviceOf
  <2>2. \A k \in Keys : j.gaveUp /\ j.key = k /\ held[b][k] = NotHeld => held'[b][k] = NotHeld
    BY <1>2, <1>3
  <2> QED
    BY <1>2, <2>1, <2>2, CoverStays
<1> QED
  BY <1>2, <1>3, <1>4, <1>6, <1>7, <1>8, BrowserStep

\* Whom the answer of pending-wraps lists: the own device while it lacks the current
\* key, and every other target that lacks it once the own device has it.
LEMMA MissingCovers ==
    ASSUME IInv, NEW b \in Browsers, identity[b] # 0, CurrentKey # NoKey, device[DeviceOf(b)] = "live"
    PROVE  /\ ~HasWrap(DeviceOf(b), CurrentKey) /\ Owner[b] \in members => DeviceOf(b) \in Missing(Owner[b])
           /\ HasWrap(DeviceOf(b), CurrentKey) =>
                 \A d \in Devices : Recipient(d) => HasWrap(d, CurrentKey) \/ d \in Missing(Owner[b])
<1>1. DeviceOf(b) \in Devices /\ UserOf(DeviceOf(b)) = Owner[b]
  BY DEF DeviceOf, Devices, UserOf, IInv, TypeOK
<1> QED
  BY <1>1 DEF Missing, Recipient

\* A page covers the targets that lack the current key, or is full and brings it to
\* MaxWraps more devices.
LEMMA PageCovers ==
    ASSUME IInv, NEW b \in Browsers, identity[b] # 0, CurrentKey # NoKey, device[DeviceOf(b)] = "live",
           HasWrap(DeviceOf(b), CurrentKey), NEW page \in Pages(Owner[b]), NEW roster \in SUBSET Targets,
           NEW n \in Nat, Covers(Holders(CurrentKey), roster, n)
    PROVE  /\ Covers(Holders(CurrentKey) \cup page, roster, n + 1)
           /\ page = {} => roster \subseteq Holders(CurrentKey)
<1> USE KeysAssumption
<1> DEFINE S == Holders(CurrentKey)
<1>1. /\ page \subseteq Missing(Owner[b]) /\ Missing(Owner[b]) \subseteq Devices
      /\ page = Missing(Owner[b]) \/ Cardinality(page) = MaxWraps
  BY CurrentFits DEF Pages
<1>2. roster \subseteq S \cup Missing(Owner[b])
  BY MissingCovers DEF Targets, Holders
<1>3. S \in SUBSET Devices /\ S \cap page = {}
  BY <1>1 DEF Holders, Missing
<1>4. IsFiniteSet(S) /\ IsFiniteSet(page) /\ Cardinality(S) \in Nat /\ Cardinality(page) \in Nat
  BY <1>1, <1>3, DevicesFinite
<1>5. Cardinality(S \cup page) = Cardinality(S) + Cardinality(page)
  <2>1. Cardinality(S \cap page) = 0
    BY <1>3, FS_EmptySet
  <2>2. Cardinality(S \cup page) = Cardinality(S) + Cardinality(page) - Cardinality(S \cap page)
    BY <1>4, FS_Union
  <2> QED
    BY <1>4, <2>1, <2>2
<1>6. (n + 1) * MaxWraps = n * MaxWraps + MaxWraps /\ n * MaxWraps \in Nat
  OBVIOUS
<1>7. Covers(S \cup page, roster, n + 1)
  <2>1. CASE page = Missing(Owner[b]) \/ roster \subseteq S
    BY <1>2, <2>1 DEF Covers
  <2>2. CASE Cardinality(page) = MaxWraps /\ Cardinality(S) > n * MaxWraps
    <3>1. Cardinality(S \cup page) > (n + 1) * MaxWraps
      BY <1>4, <1>5, <1>6, <2>2
    <3> QED
      BY <3>1 DEF Covers
  <2> QED
    BY <1>1, <2>1, <2>2 DEF Covers
<1>8. ASSUME page = {} PROVE roster \subseteq S
  <2>1. Cardinality(page) # MaxWraps
    BY <1>8, FS_EmptySet
  <2> QED
    BY <1>1, <1>2, <1>8, <2>1
<1> QED
  BY <1>7, <1>8

\* The key the server names is beaten by none, and beats every other it has a wrap of.
LEMMA CurrentBeats ==
    ASSUME IInv, CurrentKey # NoKey, NEW k \in Keys, Stored(k)
    PROVE  Beaten(k) <=> k # CurrentKey
<1>1. /\ \A w \in wraps : /\ w.version \in Versions /\ w.key \in Keys
                          /\ w.version <= CurrentVersion
                          /\ w.version = CurrentVersion => CurrentKey <= w.key
      /\ CurrentKey \in Keys \cup {NoKey} /\ CurrentVersion \in Versions
  BY CurrentIsStored DEF IInv, TypeOK, Wrap
<1>2. PICK x \in wraps : x.key = CurrentKey /\ x.version = CurrentVersion
  BY CurrentIsStored, CurrentFits DEF IInv
<1>3. ASSUME k = CurrentKey, Beaten(k) PROVE FALSE
  <2>1. PICK y, w \in wraps : y.key = k /\ (y.version < w.version \/ (y.version = w.version /\ w.key < k))
    BY <1>3 DEF Beaten
  <2>2. y.version = CurrentVersion
    BY <1>2, <1>3, <2>1 DEF IInv, OneVersionPerKey
  <2> QED
    BY <1>1, <1>3, <2>1, <2>2 DEF Versions, Keys
<1>4. ASSUME k # CurrentKey PROVE Beaten(k)
  <2>1. PICK y \in wraps : y.key = k
    BY DEF Stored
  <2>2. y.version < x.version \/ (y.version = x.version /\ x.key < k)
    BY <1>1, <1>2, <1>4, <2>1 DEF Versions, Keys
  <2> QED
    BY <2>1, <2>2 DEF Beaten
<1> QED
  BY <1>3, <1>4

\* Before a round of the share loop, with the answer in the job: the named key is
\* covered as far as the rounds before it go, or another has taken its place.
Ready(b, j) ==
    j.generated /\ device[DeviceOf(b)] = "live" =>
        /\ j.named \in Keys /\ Owner[b] \in members /\ j.roster \subseteq Targets
        /\ \E x \in wraps : x.key = j.named /\ j.target <= x.version
        /\ j.round = 0 => j.key = j.named
        /\ held[b][j.named] # NotHeld /\ j.round = 0 => HasWrap(DeviceOf(b), j.named)
        /\ j.round # 0 => /\ HasWrap(DeviceOf(b), j.named)
                          /\ Covers(Holders(j.named), j.roster, 1)
                          /\ Covers(Holders(j.named), j.roster, j.round) \/ Beaten(j.named)

LEMMA ShareSecond ==
    ASSUME IInv, IInv', SendIInv, CoverIInv, NEW b \in Browsers, jobs[b].pc \in {"named", "round"},
           NEW j \in Job, ShareRound(b, j), UNCHANGED <<clientOthers, wraps>>,
           j.key = CurrentKey, j.version = CurrentVersion, j.devices \in Pages(Owner[b]),
           j.scope = jobs[b].scope, j.target = jobs[b].target, j.kind = jobs[b].kind,
           Ready(b, j)
    PROVE  SendIInv' /\ CoverIInv'
<1> USE KeysAssumption
<1> DEFINE p == jobs'[b]
<1>1. /\ CurrentKey \in Keys \cup {NoKey} /\ CurrentVersion \in Versions
      /\ CurrentKey # NoKey => Within(CurrentKey, {CurrentVersion})
      /\ j.devices # {} => CurrentKey # NoKey
  BY CurrentFits DEF Within
<1>2. identity[b] # 0 /\ j.kind = "send" /\ j.scope <= j.target
  <2>1. JobFits(b, jobs[b]) /\ SendFits(jobs[b])
    BY DEF IInv, JobsFit, SendIInv
  <2> QED
    BY <2>1 DEF JobFits, SendFits
<1>3. UNCHANGED <<identity, device, wraps, posted>> /\ DeviceOf(b)' = DeviceOf(b)
  BY DEF clientOthers, deviceVars, DeviceOf
\* What the cover of the generated key is, before and after this round.
<1>4. ASSUME j.generated, device[DeviceOf(b)] = "live"
      PROVE  /\ j.named \in Keys /\ j.named # NoKey /\ CurrentKey # NoKey
             /\ \E x \in wraps : x.key = j.named /\ j.target <= x.version
             /\ j.key = j.named /\ HasWrap(DeviceOf(b), j.named) =>
                   /\ Covers(Holders(j.named) \cup j.devices, j.roster, j.round + 1)
                   /\ Covers(Holders(j.named) \cup j.devices, j.roster, 1)
                   /\ j.devices = {} => j.roster \subseteq Holders(j.named)
                   /\ j.round # 0 => Covers(Holders(j.named), j.roster, j.round)
             /\ j.key # j.named =>
                   /\ j.round # 0 /\ Covers(Holders(j.named), j.roster, 1) /\ Beaten(j.named)
                   /\ j.key # NoKey /\ (Newer(j.target) \/ (j.version = j.target /\ j.key < j.named))
  <2>1. /\ j.named \in Keys /\ j.named # NoKey /\ j.roster \subseteq Targets /\ Ready(b, j)
    BY <1>4 DEF Ready, Keys, NoKey
  <2>2. PICK x \in wraps : x.key = j.named /\ j.target <= x.version
    BY <1>4 DEF Ready
  <2>3. Stored(j.named) /\ CurrentKey # NoKey
    BY <2>2, CurrentIsStored DEF Stored, IInv
  <2>4. Beaten(j.named) <=> j.named # CurrentKey
    BY <2>1, <2>3, CurrentBeats
  <2>5. ASSUME j.key = j.named, HasWrap(DeviceOf(b), j.named)
        PROVE  /\ Covers(Holders(j.named) \cup j.devices, j.roster, j.round + 1)
               /\ Covers(Holders(j.named) \cup j.devices, j.roster, 1)
               /\ j.devices = {} => j.roster \subseteq Holders(j.named)
               /\ j.round # 0 => Covers(Holders(j.named), j.roster, j.round)
    <3>1. Covers(Holders(j.named), j.roster, 0)
      <4>1. DeviceOf(b) \in Holders(j.named) /\ Holders(j.named) \in SUBSET Devices
        BY <1>2, <2>5 DEF Holders, DeviceOf, Devices, IInv, TypeOK
      <4>2. IsFiniteSet(Holders(j.named)) /\ Cardinality(Holders(j.named)) \in Nat
        BY <4>1, DevicesFinite
      <4>3. Cardinality(Holders(j.named)) # 0
        BY <4>1, <4>2, FS_EmptySet
      <4>4. 0 * MaxWraps = 0
        OBVIOUS
      <4> QED
        BY <4>2, <4>3, <4>4 DEF Covers
    <3>2. j.round # 0 => Covers(Holders(j.named), j.roster, j.round)
      BY <1>4, <2>4, <2>5 DEF Ready
    <3>3. j.round \in Nat /\ 0 \in Nat /\ 0 + 1 = 1 /\ Covers(Holders(j.named), j.roster, j.round)
      BY <3>1, <3>2 DEF Job
    <3>4. \A n \in Nat : Covers(Holders(j.named), j.roster, n) =>
              /\ Covers(Holders(j.named) \cup j.devices, j.roster, n + 1)
              /\ j.devices = {} => j.roster \subseteq Holders(j.named)
      BY <1>2, <1>4, <2>1, <2>3, <2>5, PageCovers
    <3>5. Covers(Holders(j.named) \cup j.devices, j.roster, 0 + 1)
      BY <3>1, <3>3, <3>4
    <3> QED
      BY <3>2, <3>3, <3>4, <3>5
  <2>6. ASSUME j.key # j.named
        PROVE  /\ j.round # 0 /\ Covers(Holders(j.named), j.roster, 1) /\ Beaten(j.named)
               /\ j.key # NoKey /\ (Newer(j.target) \/ (j.version = j.target /\ j.key < j.named))
    <3>1. j.round # 0 /\ Covers(Holders(j.named), j.roster, 1) /\ Beaten(j.named) /\ j.key # NoKey
      BY <1>4, <2>3, <2>4, <2>6 DEF Ready
    <3>2. /\ x.version \in Versions /\ x.version <= CurrentVersion
          /\ x.version = CurrentVersion => CurrentKey <= x.key
      BY CurrentIsStored DEF IInv, TypeOK, Wrap
    <3>3. PICK w \in wraps : w.version = CurrentVersion
      BY CurrentIsStored DEF IInv
    <3>4. CASE j.target < CurrentVersion
      BY <3>1, <3>3, <3>4 DEF Newer
    <3>5. CASE ~(j.target < CurrentVersion)
      <4>1. j.version = j.target /\ x.version = CurrentVersion
        BY <1>1, <2>2, <3>2, <3>5 DEF Job, Versions
      <4>2. j.key < j.named
        <5>1. j.key <= j.named
          BY <2>2, <3>2, <4>1
        <5>2. j.key \in Int /\ j.named \in Int
          BY <1>1, <2>1 DEF Keys, NoKey
        <5> QED
          BY <2>6, <5>1, <5>2
      <4> QED
        BY <3>1, <4>1, <4>2
    <3> QED
      BY <3>4, <3>5
  <2> QED
    BY <2>1, <2>2, <2>3, <2>5, <2>6
<1>5. CASE /\ \/ GoOn(b, Pick(j)) /\ (j.devices = {} \/ j.round = MaxRounds)
              \/ GoOn(b, Pick([j EXCEPT !.gaveUp = TRUE])) /\ MayMiss(b, j.key)
           /\ UNCHANGED held
  <2>1. /\ p.pc = "pick" /\ p.kind = "send" /\ p.scope = j.scope /\ p.target = j.target
        /\ p.key = j.key /\ p.version = j.version /\ p.named = j.named /\ p.roster = j.roster
        /\ p.generated = j.generated
        /\ j.devices = {} \/ j.round = MaxRounds \/ (p.gaveUp /\ MayMiss(b, j.key))
    <3>1. \/ p = Pick(j) /\ (j.devices = {} \/ j.round = MaxRounds)
          \/ p = Pick([j EXCEPT !.gaveUp = TRUE]) /\ MayMiss(b, j.key)
      BY <1>5, GoOnAlone
    <3>2. CASE p = Pick(j) /\ (j.devices = {} \/ j.round = MaxRounds)
      BY <1>2, <3>2 DEF Pick, Job
    <3>3. CASE p = Pick([j EXCEPT !.gaveUp = TRUE]) /\ MayMiss(b, j.key)
      BY <1>2, <3>3 DEF Pick, Job
    <3> QED
      BY <3>1, <3>2, <3>3
  <2>2. SendFits(jobs[b])'
    BY <1>1, <1>2, <1>3, <2>1 DEF SendFits, Within
  <2>3. CreationFits(b, jobs[b])' /\ ~Creating(jobs[b])'
    BY <2>1 DEF CreationFits, Creating, Uploading
  <2>4. Covering(b)'
    <3> SUFFICES ASSUME NEW next, next = p PROVE CoverFits(b, next)'
      BY DEF Covering
    <3>1. Had(next)' = Holders(j.named) /\ Holders(j.named) \in SUBSET Devices
      BY <1>3, <2>1 DEF Had, Holders, HasWrap, Uploading
    <3>2. ASSUME j.generated, device[DeviceOf(b)] = "live" PROVE PickFits(b, next)'
      <4>1. CASE j.key # j.named
        <5>1. Newer(j.target) => Newer(j.target)'
          BY <1>3 DEF Newer
        <5> QED
          BY <1>4, <2>1, <3>1, <3>2, <4>1, <5>1 DEF PickFits, Covers
      <4>2. CASE j.key = j.named /\ p.gaveUp /\ MayMiss(b, j.key)
        BY <1>5, <2>1, <4>2 DEF PickFits, MayMiss
      <4>3. CASE j.key = j.named /\ (j.devices = {} \/ j.round = MaxRounds)
        <5>1. HasWrap(DeviceOf(b), j.named)
          <6>1. CASE j.round # 0
            BY <3>2, <6>1 DEF Ready
          <6>2. CASE j.round = 0
            <7>1. j.devices = {} /\ j.devices # Missing(Owner[b]) => FALSE
              <8>1. Cardinality({}) # MaxWraps
                BY FS_EmptySet
              <8> QED
                BY <8>1 DEF Pages
            <7>2. Missing(Owner[b]) = {} /\ Owner[b] \in members
              BY <3>2, <4>3, <6>2, <7>1 DEF Ready
            <7> QED
              BY <1>2, <1>4, <3>2, <4>3, <7>2, MissingCovers
          <6> QED
            BY <6>1, <6>2
        <5>2. Covers(Holders(j.named), j.roster, MaxRounds)
          <6>1. CASE j.devices = {}
            BY <1>4, <3>2, <4>3, <5>1, <6>1 DEF Covers
          <6>2. CASE j.round = MaxRounds
            BY <1>4, <3>2, <4>3, <5>1, <6>2
          <6> QED
            BY <4>3, <6>1, <6>2
        <5> QED
          BY <2>1, <3>1, <4>3, <5>2 DEF PickFits, Covers
      <4> QED
        BY <2>1, <4>1, <4>2, <4>3
    <3> QED
      BY <1>3, <1>4, <2>1, <3>2 DEF CoverFits, Uploading
  <2>6. OnlyJobOf(b)
    BY <1>3, <1>5, GoOnAlone DEF OnlyJobOf
  <2> QED
    BY <1>3, <1>5, <2>2, <2>3, <2>4, <2>6, BrowserStep DEF KeptOrFits
<1>6. CASE /\ j.devices # {} /\ j.round # MaxRounds
           /\ held' \in GetKey(b, j.key, j.version)
           /\ GoOn(b, Share([j EXCEPT !.round = @ + 1]))
  <2>1. p = Share([j EXCEPT !.round = @ + 1])
    BY <1>6, GoOnAlone
  <2>2. /\ p.pc = "scope" /\ p.pc \in Uploading /\ p.kind = "send" /\ p.scope = j.scope /\ p.target = j.target
        /\ p.key = j.key /\ p.devices = j.devices /\ p.named = j.named /\ p.roster = j.roster
        /\ p.generated = j.generated /\ p.round = j.round + 1 /\ p.round # 0
    BY <1>2, <2>1 DEF Share, Job, Uploading
  <2>3. CurrentKey \in Keys /\ Within(CurrentKey, {CurrentVersion})
    BY <1>1, <1>6
  <2>4. /\ \A other \in Keys : KeptOrFits(b, other)
        /\ \A c \in Browsers \ {b}, other \in Keys : held'[c][other] = held[c][other]
        /\ held[b][j.key] # NotHeld \/ HasWrap(DeviceOf(b), j.key)
    BY <1>1, <1>3, <1>6, <2>3, GetKeyIsMine
  <2>5. SendFits(jobs[b])' /\ CreationFits(b, jobs[b])' /\ ~Creating(jobs[b])'
    BY <1>2, <2>2 DEF SendFits, CreationFits, Creating
  <2>6. Covering(b)'
    <3> SUFFICES ASSUME NEW next, next = p PROVE CoverFits(b, next)'
      BY DEF Covering
    <3>1. j.devices \in SUBSET Devices
      BY DEF Job
    <3>2. Had(next)' = IF j.key = j.named THEN Holders(j.named) \cup j.devices ELSE Holders(j.named)
      BY <1>3, <2>2, <3>1 DEF Had, Holders, HasWrap
    <3>3. ASSUME j.generated, device[DeviceOf(b)] = "live" PROVE SharingFits(b, next)'
      <4>1. HasWrap(DeviceOf(b), j.named)
        BY <1>4, <2>4, <3>3 DEF Ready
      <4>2. /\ Beaten(j.named) => Beaten(j.named)'
            /\ HasWrap(DeviceOf(b), j.named)' /\ \E x \in wraps' : x.key = j.named /\ j.target <= x.version
        BY <1>3, <1>4, <3>3, <4>1 DEF Beaten, HasWrap
      <4>3. CASE j.key = j.named
        <5>1. Covers(Had(next)', j.roster, j.round + 1) /\ Covers(Had(next)', j.roster, 1)
          BY <1>4, <3>2, <3>3, <4>1, <4>3
        <5> QED
          BY <2>2, <4>2, <5>1 DEF SharingFits, Covers
      <4>4. CASE j.key # j.named
        <5>1. Covers(Had(next)', j.roster, 1) /\ Beaten(j.named)'
          BY <1>4, <3>2, <3>3, <4>2, <4>4
        <5> QED
          BY <2>2, <4>2, <5>1 DEF SharingFits, Covers
      <4> QED
        BY <4>3, <4>4
    <3> QED
      BY <1>3, <1>4, <2>2, <3>3 DEF CoverFits
  <2>8. OnlyJobOf(b)
    BY <1>3, <1>6, <2>4, GoOnAlone DEF OnlyJobOf
  <2> QED
    BY <1>3, <2>4, <2>5, <2>6, <2>8, BrowserStep
<1> QED
  BY <1>5, <1>6 DEF ShareRound

\* The answer after the own upload: from here on there is a key to bring to everybody.
LEMMA NamedSecond ==
    ASSUME IInv, IInv', SendIInv, CoverIInv, NEW b \in Browsers, NamedView(b)
    PROVE  SendIInv' /\ CoverIInv'
<1>1. /\ jobs[b].pc = "named" /\ UNCHANGED <<clientOthers, wraps>> /\ jobs[b] \in Job
      /\ JobFits(b, jobs[b]) /\ CreationFits(b, jobs[b]) /\ CoverFits(b, jobs[b])
  BY DEF NamedView, IInv, TypeOK, JobsFit, CoverIInv, Covering
<1>2. CASE Fail(b) /\ UNCHANGED held
  BY <1>1, <1>2, EndSecond DEF clientOthers
<1>3. CASE ~(Fail(b) /\ UNCHANGED held)
  <2>0. PICK page \in Pages(Owner[b]) :
           ShareRound(b, [WithView(b, page) EXCEPT !.named = CurrentKey, !.roster = Targets])
    BY <1>3 DEF NamedView
  <2> DEFINE v == WithView(b, page)
             j == [v EXCEPT !.named = CurrentKey, !.roster = Targets]
  <2>1. /\ Owner[b] \in members /\ CurrentKey # NoKey /\ ~(CurrentVersion < jobs[b].target)
        /\ page \in SUBSET Devices /\ Targets \in SUBSET Devices
    BY <1>3, CurrentFits DEF NamedView, Targets
  <2>2. /\ v \in Job /\ v.key = CurrentKey /\ v.version = CurrentVersion /\ v.devices = page
        /\ v.scope = jobs[b].scope /\ v.target = jobs[b].target /\ v.kind = jobs[b].kind
        /\ v.generated = jobs[b].generated /\ v.round = jobs[b].round
        /\ CurrentKey \in Keys \cup {NoKey} /\ CurrentVersion \in Versions
        /\ CurrentKey # NoKey => Stored(CurrentKey) /\ Within(CurrentKey, {CurrentVersion})
    BY <2>1, ViewFits, CurrentFits DEF Within
  <2> HIDE DEF v
  <2>3. /\ j \in Job
        /\ j.key = CurrentKey /\ j.version = CurrentVersion /\ j.devices = page
        /\ j.scope = jobs[b].scope /\ j.target = jobs[b].target /\ j.kind = jobs[b].kind
        /\ j.generated = jobs[b].generated /\ j.round = jobs[b].round
        /\ j.named = CurrentKey /\ j.roster = Targets
    BY <2>1, <2>2 DEF Job
  <2>r. ShareRound(b, j)
    BY <2>0 DEF v
  <2> HIDE DEF j
  <2>4. Creating(jobs[b]) /\ j.round = 0
    BY <1>1, <2>3 DEF CoverFits, CreationFits, Creating
  <2>5. CurrentKey \in Keys /\ identity[b] # 0
    BY <1>1, <2>1, <2>2 DEF JobFits
  <2>7. PICK w \in wraps : w.key = CurrentKey /\ w.version = CurrentVersion
    BY <2>1, <2>2 DEF Stored, Within
  <2>8. CurrentVersion \in AtLeast(jobs[b].target) /\ jobs[b].target <= w.version
    BY <1>1, <2>1, <2>2, <2>7, KeysAssumption DEF AtLeast, Job, Versions
  <2>6. ASSUME held[b][CurrentKey] # NotHeld PROVE HasWrap(DeviceOf(b), CurrentKey)
    <3>3. ~Within(CurrentKey, Versions \ AtLeast(jobs[b].target))
      BY <2>7, <2>8 DEF Within
    <3> QED
      BY <1>1, <2>4, <2>5, <2>6, <3>3 DEF CreationFits
  <2>9. Ready(b, j)
    BY <2>1, <2>3, <2>4, <2>5, <2>6, <2>7, <2>8 DEF Ready
  <2> QED
    BY <1>1, <2>3, <2>9, <2>r, ShareSecond
<1> QED
  BY <1>2, <1>3

\* The answer after a later round: the roster may have shrunk.
LEMMA RoundSecond ==
    ASSUME IInv, IInv', SendIInv, CoverIInv, NEW b \in Browsers, RoundView(b)
    PROVE  SendIInv' /\ CoverIInv'
<1>1. /\ jobs[b].pc = "round" /\ UNCHANGED <<clientOthers, wraps>> /\ CoverFits(b, jobs[b])
      /\ jobs[b] \in Job
  BY DEF RoundView, CoverIInv, Covering, IInv, TypeOK
<1>2. CASE Fail(b) /\ UNCHANGED held
  BY <1>1, <1>2, EndSecond DEF clientOthers
<1>3. CASE ~(Fail(b) /\ UNCHANGED held)
  <2>0. PICK page \in Pages(Owner[b]) :
           ShareRound(b, [WithView(b, page) EXCEPT !.roster = @ \cap Targets])
    BY <1>3 DEF RoundView
  <2> DEFINE v == WithView(b, page)
             j == [v EXCEPT !.roster = @ \cap Targets]
  <2>1. Owner[b] \in members /\ page \in SUBSET Devices
    BY <1>3, CurrentFits DEF RoundView
  <2>2. /\ v \in Job /\ v.key = CurrentKey /\ v.version = CurrentVersion /\ v.devices = page
        /\ v.scope = jobs[b].scope /\ v.target = jobs[b].target /\ v.kind = jobs[b].kind
        /\ v.generated = jobs[b].generated /\ v.round = jobs[b].round
        /\ v.named = jobs[b].named /\ v.roster = jobs[b].roster
    BY <2>1, ViewFits
  <2> HIDE DEF v
  <2>3. /\ j \in Job /\ j.key = CurrentKey /\ j.version = CurrentVersion /\ j.devices = page
        /\ j.scope = jobs[b].scope /\ j.target = jobs[b].target /\ j.kind = jobs[b].kind
        /\ j.generated = jobs[b].generated /\ j.round = jobs[b].round
        /\ j.named = jobs[b].named /\ j.roster = jobs[b].roster \cap Targets
    BY <2>2 DEF Job
  <2>r. ShareRound(b, j)
    BY <2>0 DEF v
  <2> HIDE DEF j
  <2>4. Ready(b, j)
    <3> SUFFICES ASSUME j.generated, device[DeviceOf(b)] = "live"
                 PROVE  /\ j.named \in Keys /\ SharingFits(b, jobs[b]) /\ j.round # 0
                        /\ Covers(Holders(j.named), j.roster, 1)
                        /\ Covers(Holders(j.named), j.roster, j.round) \/ Beaten(j.named)
      BY <2>1, <2>3 DEF Ready, SharingFits
    <3>1. j.named \in Keys /\ SharingFits(b, jobs[b]) /\ j.round # 0
      BY <1>1, <2>3 DEF CoverFits, Creating, Uploading
    <3>2. Had(jobs[b]) = Holders(j.named) /\ Holders(j.named) \in SUBSET Devices
      BY <1>1, <2>3 DEF Had, Holders, Uploading
    <3>3. ASSUME NEW n \in Nat, Covers(Had(jobs[b]), jobs[b].roster, n)
          PROVE  Covers(Holders(j.named), j.roster, n)
      BY <2>3, <3>2, <3>3, CoversMore
    <3>4. 1 \in Nat /\ j.round \in Nat
      BY <2>3 DEF Job
    <3> QED
      BY <2>3, <3>1, <3>3, <3>4 DEF SharingFits
  <2> QED
    BY <1>1, <2>3, <2>4, <2>r, ShareSecond
<1> QED
  BY <1>2, <1>3

\* The housekeeping of an open scope.
LEMMA MaintainSecond ==
    ASSUME IInv, IInv', SendIInv, CoverIInv, NEW b \in Browsers, MaintainView(b)
    PROVE  SendIInv' /\ CoverIInv'
<1> DEFINE p == jobs'[b]
<1>1. /\ jobs[b].pc = "view" /\ jobs[b].kind = "maintain" /\ UNCHANGED <<clientOthers, wraps>>
      /\ CoverFits(b, jobs[b])
  BY DEF MaintainView, CoverIInv, Covering
<1>2. CASE Fail(b) /\ UNCHANGED held
  BY <1>1, <1>2, EndSecond DEF clientOthers
<1>3. CASE ~(Fail(b) /\ UNCHANGED held)
  <2>0. PICK page \in Pages(Owner[b]) : GoOn(b, Share(WithView(b, page)))
    BY <1>3 DEF MaintainView
  <2> DEFINE j == WithView(b, page)
  <2>1. /\ j \in Job /\ j.kind = "maintain" /\ j.generated = jobs[b].generated
    <3>1. page \in SUBSET Devices
      BY CurrentFits
    <3> QED
      BY <1>1, <3>1, ViewFits
  <2>2. ~j.generated
    BY <1>1, <2>1 DEF CoverFits
  <2>3. p = Share(j)
    BY <2>0, GoOnAlone
  <2> HIDE DEF j
  <2>4. p.pc = "scope" /\ p.kind = "maintain" /\ ~p.generated
    BY <2>1, <2>2, <2>3 DEF Share, Job
  <2>6. SendFits(jobs[b])' /\ CreationFits(b, jobs[b])' /\ Covering(b)'
    BY <2>4 DEF SendFits, CreationFits, Covering, CoverFits, Creating
  <2>m. /\ Missing(Owner[b]) # {} /\ held' \in GetKey(b, CurrentKey, CurrentVersion)
    BY <1>3 DEF MaintainView
  <2>8. CurrentVersion \in Versions /\ CurrentKey \in Keys /\ Within(CurrentKey, {CurrentVersion})
    BY <2>m, CurrentFits DEF Within
  <2>5. /\ \A other \in Keys : KeptOrFits(b, other)
        /\ \A c \in Browsers \ {b}, other \in Keys : held'[c][other] = held[c][other]
    BY <1>1, <2>m, <2>8, GetKeyIsMine DEF clientOthers, deviceVars
  <2>7. OnlyJobOf(b)
    BY <1>1, <2>0, <2>5, GoOnAlone DEF OnlyJobOf, clientOthers, deviceVars
  <2> QED
    BY <1>1, <2>5, <2>6, <2>7, BrowserStep DEF clientOthers
<1> QED
  BY <1>2, <1>3

\* The first answer of a send: a key is there, or the browser has none of the version.
LEMMA FirstSecond ==
    ASSUME IInv, IInv', SendIInv, CoverIInv, NEW b \in Browsers, FirstView(b)
    PROVE  SendIInv' /\ CoverIInv'
<1> USE KeysAssumption
<1> DEFINE target == Higher(jobs[b].scope, CurrentVersion)
           v == WithView(b, {})
           j == [v EXCEPT !.target = target]
           p == jobs'[b]
<1>1. /\ jobs[b].pc = "view" /\ jobs[b].kind = "send" /\ jobs[b] \in Job
      /\ UNCHANGED <<clientOthers, wraps, held>> /\ CoverFits(b, jobs[b])
  BY DEF FirstView, IInv, TypeOK, CoverIInv, Covering
<1>2. /\ v \in Job /\ v.key = CurrentKey /\ v.version = CurrentVersion
      /\ v.scope = jobs[b].scope /\ v.kind = "send" /\ v.round = jobs[b].round /\ v.generated = jobs[b].generated
      /\ CurrentVersion \in Versions
      /\ CurrentKey # NoKey => Within(CurrentKey, {CurrentVersion})
  <2>1. {} \in SUBSET Devices
    OBVIOUS
  <2> QED
    BY <1>1, <2>1, ViewFits, CurrentFits DEF Within
<1>3. target \in Versions /\ jobs[b].scope <= target
  BY <1>1, <1>2 DEF Higher, Versions, Job
<1> HIDE DEF target, v
<1>4. /\ j \in Job /\ j.key = CurrentKey /\ j.version = CurrentVersion /\ j.target = target
      /\ j.scope = jobs[b].scope /\ j.kind = "send" /\ j.round = 0 /\ ~j.generated
  BY <1>1, <1>2, <1>3 DEF Job, Versions, CoverFits
<1> HIDE DEF j
<1>5. DeviceOf(b)' = DeviceOf(b) /\ UNCHANGED <<wraps, held, identity, device, posted>>
  BY <1>1 DEF clientOthers, deviceVars, DeviceOf
<1>6. CASE Fail(b)
  BY <1>1, <1>6, EndSecond DEF clientOthers
<1>7. CASE GoOn(b, Pick(j))
  <2>1. p = Pick(j)
    BY <1>7, GoOnAlone
  <2>2. /\ p.pc = "pick" /\ p.kind = "send" /\ ~p.generated /\ p.key = CurrentKey /\ p.version = CurrentVersion
        /\ p.scope = jobs[b].scope /\ p.target = target
    BY <1>4, <2>1 DEF Pick, Job
  <2>3. SendFits(jobs[b])' /\ CreationFits(b, jobs[b])' /\ Covering(b)'
    BY <1>2, <1>3, <1>5, <2>2 DEF SendFits, CreationFits, Covering, CoverFits, Creating, Within
  <2>4. OnlyJobOf(b)
    BY <1>5, <1>7, GoOnAlone DEF OnlyJobOf
  <2> QED
    BY <1>5, <2>3, <2>4, BrowserStep DEF KeptOrFits
<1>8. CASE ~(CurrentKey # NoKey /\ CurrentVersion >= target) /\ \E k \in Fresh : GoOn(b, Generate(j, k, b))
  <2>1. PICK k \in Fresh : GoOn(b, Generate(j, k, b))
    BY <1>8
  <2>2. p = Generate(j, k, b)
    BY <2>1, GoOnAlone
  <2>3. /\ p.pc = "scope" /\ p.pc \in Uploading /\ p.kind = "send" /\ p.generated /\ p.round = 0
        /\ p.scope = jobs[b].scope /\ p.target = target /\ p.devices = {DeviceOf(b)}
    BY <1>4, <2>2 DEF Generate, Job, Uploading
  <2>4. \A w \in wraps : w.version \in Versions \ AtLeast(target)
    <3>1. /\ \A w \in wraps : w.version \in Versions /\ w.version <= CurrentVersion
          /\ wraps # {} => CurrentKey # NoKey
      BY CurrentIsStored DEF IInv, TypeOK, Wrap
    <3>2. CASE wraps # {}
      <4>1. CurrentVersion < target
        BY <1>2, <1>3, <1>8, <3>1, <3>2 DEF Versions
      <4> QED
        BY <1>2, <1>3, <3>1, <4>1 DEF Versions, AtLeast
    <3> QED
      BY <3>2
  <2>5. SendFits(jobs[b])' /\ Covering(b)'
    BY <1>3, <2>3 DEF SendFits, Covering, CoverFits, Creating
  <2>6. CreationFits(b, jobs[b])'
    BY <1>5, <2>3, <2>4 DEF CreationFits, Within, AtLeast
  <2>7. OnlyJobOf(b)
    BY <1>5, <2>1, GoOnAlone DEF OnlyJobOf
  <2> QED
    BY <1>5, <2>5, <2>6, <2>7, BrowserStep DEF KeptOrFits
<1> QED
  BY <1>6, <1>7, <1>8 DEF FirstView, j, v, target

\* The key a message is encrypted under: of the version the sender is after.
LEMMA PickSecond ==
    ASSUME IInv, IInv', SendIInv, CoverIInv, NEW b \in Browsers, PickKey(b)
    PROVE  SendIInv' /\ CoverIInv'
<1> USE KeysAssumption
<1> SUFFICES ASSUME NEW j, j = jobs[b] PROVE SendIInv' /\ CoverIInv'
  OBVIOUS
<1> DEFINE p == jobs'[b]
<1>1. /\ j.pc = "pick" /\ j \in Job /\ UNCHANGED <<clientOthers, wraps>> /\ JobFits(b, j)
      /\ SendFits(j) /\ CreationFits(b, j) /\ CoverFits(b, j)
  BY DEF PickKey, IInv, TypeOK, JobsFit, SendIInv, CoverIInv, Covering
<1>2. DeviceOf(b)' = DeviceOf(b) /\ UNCHANGED <<wraps, identity, device, posted>>
  BY <1>1 DEF clientOthers, deviceVars, DeviceOf
<1>3. CASE Fail(b) /\ UNCHANGED held
  BY <1>1, <1>3, EndSecond DEF clientOthers
<1>4. CASE \E k \in Candidates(b) : /\ k = Lowest(Candidates(b)) /\ ~(j.gaveUp /\ MayMiss(b, k))
                                    /\ held' \in GetKey(b, k, j.target)
                                    /\ GoOn(b, [j EXCEPT !.pc = "post", !.key = k])
  <2>1. PICK k \in Candidates(b) : /\ k = Lowest(Candidates(b)) /\ ~(j.gaveUp /\ MayMiss(b, k))
                                   /\ held' \in GetKey(b, k, j.target)
                                   /\ GoOn(b, [j EXCEPT !.pc = "post", !.key = k])
    BY <1>4
  <2>2. k \in Keys /\ (held[b][k] = j.target \/ (j.version = j.target /\ j.key # NoKey /\ k = j.key))
    BY <1>1 DEF Candidates, Job
  <2>3. j.target \in {Unversioned} \cup Versions /\ (j.target \in Versions => Within(k, {j.target}))
    <3>1. j.target \in {Unversioned} \cup Versions
      BY <1>1 DEF Job, Unversioned, Versions
    <3>2. HeldFits(b, k)
      BY <2>2 DEF SendIInv
    <3>3. j.key # NoKey => Within(j.key, {j.version})
      BY <1>1 DEF SendFits
    <3> QED
      BY <2>2, <3>1, <3>2, <3>3 DEF HeldFits
  <2>4. p = [j EXCEPT !.pc = "post", !.key = k]
    BY <2>1, GoOnAlone
  <2>5. /\ p.pc = "post" /\ p.key = k /\ p.kind = "send" /\ p.scope = j.scope /\ p.target = j.target
        /\ p.generated = j.generated /\ p.named = j.named /\ p.roster = j.roster
    BY <1>1, <2>2, <2>4 DEF Job, JobFits
  <2>6. /\ \A other \in Keys : KeptOrFits(b, other)
        /\ \A c \in Browsers \ {b}, other \in Keys : held'[c][other] = held[c][other]
    BY <1>2, <2>1, <2>2, <2>3, GetKeyIsMine
  <2>7. j.scope <= j.target /\ j.target \in Versions
    <3>1. j.scope <= j.target /\ j.scope # 0
      BY <1>1 DEF SendFits, JobFits
    <3> QED
      BY <1>1, <2>3, <3>1 DEF Job, Unversioned, Versions
  <2>8. SendFits(jobs[b])'
    BY <1>2, <2>3, <2>5, <2>7 DEF SendFits, Within, AtLeast
  <2>9. CreationFits(b, jobs[b])' /\ ~Creating(j) /\ ~Creating(jobs[b])'
    BY <1>1, <2>5 DEF CreationFits, Creating, Uploading
  <2>10. \A other \in Candidates(b) : k <= other
    <3>1. Candidates(b) \in SUBSET Nat /\ Candidates(b) # {}
      <4>1. \A other \in Candidates(b) : other \in Keys
        BY <1>1 DEF Candidates, Job
      <4> QED
        BY <2>1, <4>1 DEF Keys
    <3> QED
      BY <2>1, <3>1, LeastExists DEF Lowest
  <2>11. Covering(b)'
    <3> SUFFICES ASSUME NEW next, next = p PROVE CoverFits(b, next)'
      BY DEF Covering
    <3>1. Had(next)' = Had(j)
      BY <1>1, <1>2, <2>5 DEF Had, HasWrap, Uploading
    <3>2. ASSUME j.generated, device[DeviceOf(b)] = "live" PROVE j.named \in Keys /\ PostFits(next)'
      <4>1. j.named \in Keys /\ PickFits(b, j)
        BY <1>1, <2>9, <3>2 DEF CoverFits
      <4>2. CASE k = j.named
        <5>1. ~(j.gaveUp /\ held[b][j.named] = NotHeld)
          BY <2>1, <4>2 DEF MayMiss
        <5>2. ASSUME j.key # NoKey, j.version = j.target, j.key < j.named PROVE FALSE
          <6>1. j.key \in Candidates(b)
            BY <5>2 DEF Candidates
          <6> QED
            BY <1>1, <2>2, <2>10, <4>2, <5>2, <6>1 DEF Job, Keys
        <5>3. \/ Covers(Had(j), j.roster, MaxRounds)
              \/ Covers(Had(j), j.roster, 1) /\ Newer(j.target)
          BY <4>1, <5>1, <5>2 DEF PickFits
        <5>4. Newer(j.target) => Newer(j.target)'
          BY <1>2 DEF Newer
        <5> QED
          BY <2>5, <3>1, <4>1, <5>3, <5>4 DEF PostFits, Covers
      <4>3. CASE k # j.named
        BY <2>5, <4>1, <4>3 DEF PostFits
      <4> QED
        BY <4>2, <4>3
    <3> QED
      BY <1>2, <2>5, <3>2 DEF CoverFits, Uploading
  <2>12. OnlyJobOf(b)
    BY <1>2, <2>1, <2>6, GoOnAlone DEF OnlyJobOf
  <2> QED
    BY <1>2, <2>6, <2>8, <2>9, <2>11, <2>12, BrowserStep
<1> QED
  BY <1>3, <1>4 DEF PickKey

\* A send that waits for the resolution changes nothing of it.
LEMMA JoinSecond ==
    ASSUME IInv, IInv', SendIInv, CoverIInv, NEW b \in Browsers, NEW v, Join(b, v)
    PROVE  SendIInv' /\ CoverIInv'
<1> SUFFICES ASSUME NEW j, j = jobs[b] PROVE SendIInv' /\ CoverIInv'
  OBVIOUS
<1> DEFINE p == jobs'[b]
<1>1. /\ j.pc = "pick" /\ j \in Job /\ UNCHANGED <<clientOthers, wraps, held>>
      /\ SendFits(j) /\ CreationFits(b, j) /\ CoverFits(b, j)
      /\ p = [j EXCEPT !.joined = v]
  BY DEF Join, IInv, TypeOK, SendIInv, CoverIInv, Covering
<1>2. /\ p.pc = "pick" /\ p.kind = j.kind /\ p.scope = j.scope /\ p.target = j.target
      /\ p.key = j.key /\ p.version = j.version /\ p.generated = j.generated /\ p.round = j.round
      /\ p.gaveUp = j.gaveUp /\ p.named = j.named /\ p.roster = j.roster /\ p.devices = j.devices
  BY <1>1 DEF Job
<1>3. UNCHANGED <<wraps, held, identity, device, posted>> /\ DeviceOf(b)' = DeviceOf(b)
  BY <1>1 DEF clientOthers, deviceVars, DeviceOf
<1>4. SendFits(jobs[b])' /\ CreationFits(b, jobs[b])'
  BY <1>1, <1>2, <1>3 DEF SendFits, CreationFits, Creating, Within, AtLeast, Uploading
<1>5. Covering(b)'
  <2> SUFFICES ASSUME NEW next, next = p PROVE CoverFits(b, next)'
    BY DEF Covering
  <2>1. Had(next) = Had(j)
    BY <1>1, <1>2 DEF Had, Uploading
  <2>2. PickFits(b, j) => PickFits(b, next)
    BY <1>2, <2>1 DEF PickFits
  <2>3. CoverFits(b, next)
    BY <1>1, <1>2, <2>2 DEF CoverFits, Creating, Uploading
  <2>4. next \in Job /\ \A k \in Keys : held'[b][k] = held[b][k]
    BY <1>3 DEF IInv, TypeOK
  <2> QED
    BY <1>3, <2>3, <2>4, CoverStays
<1>6. OnlyJobOf(b)
  BY <1>3 DEF OnlyJobOf, Join, IInv, TypeOK
<1> QED
  BY <1>3, <1>4, <1>5, <1>6, BrowserStep DEF KeptOrFits

\* A job that starts.
LEMMA StartSecond ==
    ASSUME IInv, IInv', SendIInv, CoverIInv, NEW b \in Browsers, Send(b) \/ Maintain(b)
    PROVE  SendIInv' /\ CoverIInv'
<1>1. PICK kind, v : Start(b, kind, v)
  BY DEF Send, Maintain
<1>2. jobs'[b] = [Idle EXCEPT !.pc = "view", !.kind = kind, !.scope = v]
      /\ UNCHANGED <<wraps, held, identity, device, posted>>
      /\ \A c \in Browsers \ {b} : jobs'[c] = jobs[c]
  BY <1>1 DEF Start, IInv, TypeOK, clientOthers, deviceVars
<1>3. jobs'[b].pc = "view" /\ ~jobs'[b].generated /\ jobs'[b].round = 0
  BY <1>2 DEF Idle
<1>4. SendFits(jobs[b])' /\ CreationFits(b, jobs[b])' /\ Covering(b)'
  BY <1>3 DEF SendFits, CreationFits, Covering, CoverFits, Creating
<1> QED
  BY <1>2, <1>4, BrowserStep DEF KeptOrFits, OnlyJobOf

LEMMA NextSecond == IInv /\ SendIInv /\ CoverIInv /\ [Next]_vars => SendIInv' /\ CoverIInv'
<1> SUFFICES ASSUME IInv, SendIInv, CoverIInv, [Next]_vars PROVE SendIInv' /\ CoverIInv'
  OBVIOUS
<1>t. IInv' /\ TypeOK
  BY NextStep DEF IInv
<1>1. CASE UNCHANGED <<deviceVars, wraps, held, jobs, posted>>
  BY <1>1, <1>t, QuietStep DEF deviceVars, DeviceOf
<1>2. ASSUME NEW u \in Users, AddMember(u) \/ RemoveMember(u) PROVE SendIInv' /\ CoverIInv'
  BY <1>1, <1>2 DEF AddMember, RemoveMember, scopeOthers
<1>3. ASSUME NEW d \in Devices, Revoke(d) PROVE SendIInv' /\ CoverIInv'
  <2>1. UNCHANGED <<wraps, held, jobs, posted, identity>>
    BY <1>3 DEF Revoke
  <2>2. \A x : device'[x] = "live" /\ x \in Devices => device[x] = "live"
    BY <1>3, <1>t DEF Revoke, TypeOK
  <2>3. ASSUME NEW c \in Browsers, jobs[c].pc # "idle" PROVE DeviceOf(c) \in Devices
    <3>1. identity[c] \in 1 .. MaxIdentity
      BY <1>t, <2>3 DEF IInv, JobsFit, JobFits, TypeOK
    <3> QED
      BY <3>1 DEF DeviceOf, Devices
  <2> QED
    BY <1>t, <2>1, <2>2, <2>3, QuietStep
<1>4. ASSUME NEW b \in Browsers, Bootstrap(b) PROVE SendIInv' /\ CoverIInv'
  <2>1. UNCHANGED <<wraps, held, jobs, posted>> /\ jobs[b].pc = "idle"
    BY <1>4 DEF Bootstrap
  <2>2. ASSUME NEW c \in Browsers, jobs[c].pc # "idle"
        PROVE  identity'[c] = identity[c] /\ device'[DeviceOf(c)] = device[DeviceOf(c)]
    <3>1. c # b /\ identity'[c] = identity[c]
      BY <1>4, <1>t, <2>1, <2>2 DEF Bootstrap, TypeOK
    <3>2. DeviceOf(c) # <<b, identity[b] + 1>>
      BY <3>1 DEF DeviceOf
    <3>3. DeviceOf(c) \in Devices
      <4>1. identity[c] \in 1 .. MaxIdentity
        BY <1>t, <2>2 DEF IInv, JobsFit, JobFits, TypeOK
      <4> QED
        BY <4>1 DEF DeviceOf, Devices
    <3> QED
      BY <1>4, <1>t, <3>1, <3>2, <3>3 DEF Bootstrap, TypeOK
  <2> QED
    BY <1>t, <2>1, <2>2, QuietStep
<1>10. ASSUME NEW b \in Browsers, ClearStorage(b) PROVE SendIInv' /\ CoverIInv'
  <2>1. UNCHANGED <<wraps, jobs, posted>> /\ jobs[b].pc = "idle"
    BY <1>10 DEF ClearStorage
  <2>2. ASSUME NEW c \in Browsers, NEW k \in Keys
        PROVE  held'[c][k] \in {held[c][k], NotHeld} /\ (c # b => held'[c][k] = held[c][k])
    BY <1>10, <1>t DEF ClearStorage, TypeOK
  <2>3. ASSUME NEW c \in Browsers, jobs[c].pc # "idle"
        PROVE  /\ identity'[c] = identity[c] /\ device'[DeviceOf(c)] = device[DeviceOf(c)]
               /\ \A k \in Keys : held'[c][k] = held[c][k]
    <3>1. c # b /\ identity'[c] = identity[c] /\ \A k \in Keys : held'[c][k] = held[c][k]
      BY <1>10, <1>t, <2>1, <2>2, <2>3 DEF ClearStorage, TypeOK
    <3>2. DeviceOf(c) # <<b, identity[b] + 1>>
      BY <3>1 DEF DeviceOf
    <3>3. DeviceOf(c) \in Devices
      <4>1. identity[c] \in 1 .. MaxIdentity
        BY <1>t, <2>3 DEF IInv, JobsFit, JobFits, TypeOK
      <4> QED
        BY <4>1 DEF DeviceOf, Devices
    <3> QED
      BY <1>10, <1>t, <3>1, <3>2, <3>3 DEF ClearStorage, TypeOK
  <2> QED
    BY <1>t, <2>1, <2>2, <2>3, QuietStep
<1>11. ASSUME NEW b \in Browsers, NEW v \in 1 .. version, Join(b, v) PROVE SendIInv' /\ CoverIInv'
  BY <1>11, <1>t, JoinSecond
<1>5. ASSUME NEW b \in Browsers, Send(b) \/ Maintain(b) \/ JobStep(b) PROVE SendIInv' /\ CoverIInv'
  BY <1>5, <1>t, StartSecond, FirstSecond, NamedSecond, RoundSecond, MaintainSecond, UploadSecond,
     WriteSecond, PickSecond, PostSecond
     DEF JobStep, UploadStep
<1>6. ASSUME NEW b \in Browsers, LoseAnswer(b) \/ Abort(b) PROVE SendIInv' /\ CoverIInv'
  <2>1. CASE Abort(b)
    BY <1>t, <2>1, EndSecond DEF Abort, deviceVars
  <2> QED
    BY <1>6, <1>t, <2>1, WriteSecond
<1>7. ASSUME NEW b \in Browsers, NEW m \in posted, OpenMessage(b, m) PROVE SendIInv' /\ CoverIInv'
  BY <1>7, <1>t, OpenSecond
<1>8. ASSUME NEW value \in BOOLEAN, SetEncrypted(value) PROVE SendIInv' /\ CoverIInv'
  BY <1>1, <1>8 DEF SetEncrypted, scopeOthers
<1>9. CASE UNCHANGED vars
  BY <1>1, <1>9 DEF vars
<1> QED
  BY <1>2, <1>3, <1>4, <1>5, <1>6, <1>7, <1>8, <1>9, <1>10, <1>11 DEF Next

LEMMA SecondInvariance == Spec => [](IInv /\ SendIInv /\ CoverIInv)
<1>1. Init => IInv /\ SendIInv /\ CoverIInv
  BY InitIInv, InitSecond
<1>2. IInv /\ SendIInv /\ CoverIInv /\ [Next]_vars => (IInv /\ SendIInv /\ CoverIInv)'
  BY NextStep, NextSecond
<1> QED
  BY <1>1, <1>2, PTL DEF Spec

--------------------------------------------------------------------------------
(* The theorems.                                                            *)

\* The values stay in their types: what the server names as current is a key it has.
THEOREM EncryptionTypes == Spec => []TypeOK
<1>1. IInv => TypeOK
  BY DEF IInv
<1> QED
  BY <1>1, Invariance, PTL

\* A user removed from an encrypted scope gets no wrap of the rotation that removed
\* them or of a later one, however uploads and removals are interleaved.
THEOREM RemovedAreCut == Spec => []RemovedGetNoNewKey
<1>1. IInv => RemovedGetNoNewKey
  BY DEF IInv
<1> QED
  BY <1>1, Invariance, PTL

\* All wraps of a content key carry the version it was generated for, however late
\* and by whomever it is shared.
THEOREM KeysHaveOneVersion == Spec => []OneVersionPerKey
<1>1. IInv => OneVersionPerKey
  BY DEF IInv
<1> QED
  BY <1>1, Invariance, PTL

\* Whatever upload, answer or tab is lost, the server has a wrap of every key a
\* message was posted under.
THEOREM MessagesKeepAKey == Spec => []PostedIsRecoverable
<1>1. IInv => PostedIsRecoverable
  BY DEF IInv
<1> QED
  BY <1>1, Invariance, PTL

\* A message whose key comes from a resolution that started with the scope as it was
\* after a removal is closed to the removed user, whatever is generated, shared and
\* picked in between: the key is of that version or later, and every copy of it came
\* with a wrap.  Nothing is said of a send that joined a resolution started before.
THEOREM RemovedCannotRead == Spec => []NoSendToRemoved
<1>1. ASSUME IInv, SendIInv PROVE NoSendToRemoved
  <2>0. ASSUME NEW m \in posted, NEW b \in Browsers, held[b][m.key] # NotHeld
        PROVE  \E w \in wraps : w.key = m.key /\ w.device[1] = b
    <3>1. m.key \in Keys
      BY <1>1 DEF IInv, TypeOK, Message
    <3> QED
      BY <1>1, <2>0, <3>1 DEF SendIInv, HeldFits
  <2> SUFFICES ASSUME NEW m \in posted, NEW b \in Browsers, cut[Owner[b]] # 0, cut[Owner[b]] <= m.from,
                      NEW w \in wraps, w.key = m.key, w.device[1] = b
               PROVE  FALSE
    BY <2>0 DEF NoSendToRemoved
  <2>1. w.version \in Versions /\ m.from \in Versions /\ m.from <= w.version
    BY <1>1 DEF SendIInv, SeenFits, Within, AtLeast, IInv, TypeOK, Message
  <2>2. w.version < cut[Owner[b]]
    BY <1>1 DEF IInv, RemovedGetNoNewKey, UserOf
  <2>3. cut[Owner[b]] \in Nat
    BY <1>1, KeysAssumption DEF IInv, TypeOK
  <2> QED
    BY <2>1, <2>2, <2>3 DEF Versions
<1> QED
  BY <1>1, SecondInvariance, PTL

\* A message under a key its sender brought into use is readable at once by every
\* device that was a target then and is one since, or the rounds gave the key to a
\* full page of devices each, or a first page did and a newer version took the key's
\* place; however many senders generate, share and rotate.
THEOREM EveryTargetIsCovered == Spec => []CoveredBeforeUse
<1>1. ASSUME IInv, CoverIInv PROVE CoveredBeforeUse
  <2> SUFFICES ASSUME NEW b \in Browsers, NEW j, j = jobs[b], j.pc = "post", j.generated,
                      j.key = j.named, device[DeviceOf(b)] = "live"
               PROVE  \/ j.roster \subseteq Holders(j.key)
                      \/ Cardinality(Holders(j.key)) > MaxRounds * MaxWraps
                      \/ Cardinality(Holders(j.key)) > MaxWraps /\ LatestVersion > j.target
    BY DEF CoveredBeforeUse
  <2>1. PostFits(j) /\ j \in Job
    BY <1>1 DEF CoverIInv, Covering, CoverFits, Creating, Uploading, IInv, TypeOK
  <2>2. Had(j) = Holders(j.key)
    BY DEF Had, Holders, Uploading
  <2>3. 1 * MaxWraps = MaxWraps
    BY KeysAssumption
  <2>4. ASSUME Newer(j.target) PROVE LatestVersion > j.target
    <3>1. PICK w \in wraps : j.target < w.version
      BY <2>4 DEF Newer
    <3>2. w.version <= CurrentVersion /\ CurrentVersion = LatestVersion /\ CurrentVersion \in Versions
      BY <1>1, CurrentIsStored DEF IInv, CurrentVersion
    <3>3. w.version \in Versions
      BY <1>1 DEF IInv, TypeOK, Wrap
    <3> QED
      BY <2>1, <3>1, <3>2, <3>3 DEF Job, Versions
  <2> QED
    BY <2>1, <2>2, <2>3, <2>4 DEF PostFits, Covers
<1> QED
  BY <1>1, SecondInvariance, PTL
================================================================================
