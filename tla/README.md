# Formal model of the Discord clone's API

TLA+ modules, TLC configurations and TLAPS proofs for the server side of this
repository (`apps/api`), and for the two protocols of the web client the server
rests on (content keys, calls). Paths below are relative to
`apps/api/src/modules/` unless they start with `apps/` or `docs/`.

## 1. The system

The repository is a TypeScript monorepo: `apps/api` (NestJS, Prisma on
PostgreSQL, Redis, Socket.IO), `apps/web` (React), `packages/shared` (types and
event names). The API is the part with state of its own, and it runs as several
instances at once. Three things are shared between them:

* PostgreSQL. A handler reads, awaits, and writes later. What protects it is a
  conditional `updateMany` whose `count` is looked at, a transaction, or a
  unique index. Transactions run under read committed.
* Redis. A command or a `MULTI` is atomic; a sequence of them is not.
* The wall clock and the timers. Each instance runs all background sweeps; a
  row is taken by whoever's conditional write matches it ("claim").

Components talk through these tables and keys, through direct calls (the
scheduled sweep calls the live send path; a kick calls the call registry and
the stage service after its commit) and through Socket.IO rooms ("persist first,
emit second", `docs/architecture.md`).

### Inventory

| Component | State | Operations | What is hard | What makes it correct |
| --- | --- | --- | --- | --- |
| Scheduled messages (`scheduled-messages/`) | `ScheduledMessage` rows: status, `sendAt`, `claimedAt`, `sentMessageId` | create, update, remove; sweep: stale pass, due pass, claim, deliver | claims of slow or dead instances, edits during a sweep, crash between post and status | one post per scheduling, never early, SENT is final and true, due rows are taken |
| DM call rings (`realtime/dm-call-rings.ts`, `dm-calls.service.ts`) | ring key with a TTL, deadline in a sorted set | ring, decline, cancel, answer, expiry sweep | command sequences of several handlers and instances | one miss per ring, a ring ends, decliners are off it |
| Membership and moderation (`servers/server-moderation.service.ts`, `servers/servers.service.ts`) | member rows, bans, invite uses, key versions | join, leave, kick, ban, unban, timeout | check first, commit later | the owner stays, keys rotate once per departure |
| Ownership (`servers/server-ownership.service.ts`) | `Server.ownerId`, row kinds | transfer, delete | races with removals and with each other | one owner, only the owner deletes |
| Accounts (`users/`) | deletion columns of `User` | request, cancel, sweep, anonymize, export | fourteen-day gap, sweep against requests | erased exactly when due; no anonymous owner |
| Presence (`realtime/presence.service.ts`) | sockets per user, online set, `User.status` | connect, disconnect, heartbeat, sweep | late status writes, stalled instances | ONLINE while a socket is connected |
| Call registry (`realtime/call-registry.service.ts`, `voice.gateway.ts`) | participants per call, calls per socket | join, update, leave, remove, end, heartbeat | read then write back; join against kick | nobody removed stays in a call |
| Workflows (`workflows/`) | runs, schedules, trigger cache | trigger, claim, execute, stale pass | slow runs, crash after `nextRunAt`, caps counted early | a trigger makes one run, a run is carried out once, chains end |
| Bot interactions (`bots/interactions.service.ts`, `realtime/interaction-timeout.service.ts`) | `Interaction.status` | invoke, respond, revert, time out | revert after a message exists | one answer or one time-out |
| Encryption keys (`encryption/`, `apps/web/src/hooks/useScopeKeys.ts`) | wrapped keys, device keys, versions; keys stored in each browser | upload, pending wraps, register, revoke; resolve, share, send | recipients read before the write, lost answers, two generators | no key for who is gone, one version per key, no message without a key |
| Sessions (`auth/`) | sessions, one-time codes | sign in, refresh, revoke, reset | check then create against deletion | no live session of a deleted account |
| Decisions, polls (`decisions/`, `polls/`) | votes, status | vote, resolve, supersede, close, sweep | count then close | the moderator's ruling or what the votes say |
| Reminders (`saved-messages/`) | `remindedAt` | save, reschedule, sweep | the claim pattern, one step | delivered at most once |
| Discovery, templates, onboarding (`servers/`) | discovery invite, rules acceptance | enable, join, accept | conditional update of the invite | one invite per server |
| The rest | messages, channels, roles, forum, events, uploads, webhooks, push, friends, AutoMod, reports, catalogues, `apps/web` | single transactions or reads | little concurrency of their own | checks on entry |

`PROJECT.json` lists every component with its status, and every hazard with its
line.

## 2. Modules

| Module | What it is |
| --- | --- |
| `ScheduledMessages` | scheduled messages, the author's API and the sweep of every instance |
| `ScheduledMessages_proofs` | its inductive invariant and theorems |
| `ClaimedJobs`, `ClaimedJobs_proofs` | abstract specification: a job is taken by one worker and carried out once |
| `ScheduledJobs`, `ScheduledJobs_proofs` | the refinement of `ClaimedJobs` by `ScheduledMessages`, checked and proved |
| `MCScheduledMessages` | instances for TLC |
| `DmCalls` | the ring of one conversation over its two Redis keys |
| `DmCalls_proofs`, `MCDmCalls` | its theorems; its instances |
| `ServerMembership` | one server: members, bans, owner, invite, and the accounts around it |
| `ServerMembership_proofs`, `MCServerMembership` | its theorems; its instances |
| `EncryptionKeys` | the content keys of one scope: server, devices and the client's key resolution |
| `EncryptionKeys_proofs`, `MCEncryptionKeys` | its theorems; its instance |
| `Presence` | one user's sockets, the online set and the stored status |
| `CallRegistry` | the participants of one call, the handlers, and the clients' view |
| `Realtime` | `Presence` and `CallRegistry` side by side |
| `Realtime_proofs`, `MCRealtime` | the theorems of both; their instance |
| `Deployment` | the API processes the sweeps below run in |
| `WorkflowRuns` | triggers, runs and steps of workflows |
| `Reminders` | saved messages and the reminder sweep |
| `Interactions` | the bot's callbacks against the time-out sweep |
| `Decisions` | votes, rulings and the deadline sweep |
| `Sweeps` | the last four side by side, with runs and reminders mapped to `ClaimedJobs` |
| `Sweeps_proofs`, `MCSweeps` | the theorems of the four and the refinement; their instance |

`Realtime` and `Sweeps` put services side by side that share no table or key
and do not read each other's state: a behaviour is one of either (the variable
`about`), so their state spaces are added and not multiplied. The modules that do
meet are joined by what crosses their boundary: the rotations of a removal
(`ServerMembership` counts them, `EncryptionKeys` acts on them), the removal of a
member (`ServerMembership`; `CallRegistry` has the calls ended after it), and the
heartbeat (`DmCalls`, `Presence`, `CallRegistry`).

In all of them an action is what commits atomically, and the code between two
awaits belongs to the action before it. A process is a program counter and the
local variables that survive an await. An operator marked "Faulty form" next to
an action is not part of the specification: it is the same action with a mistake,
and putting it in the place of the right one breaks a property.

### ScheduledMessages

`rows` is the table. `rev` counts the accepted writes of the author, so it names
the content and time saved together, and stands for both. `posts[m][r]` counts
the chat messages made from revision `r`, `notices[m]` the failure notifications.
`sweeps[i]` is the tick of instance `i`: `now` is captured once
(`scheduled-message-sweep.service.ts:103`), `due` is the list of the second
`findMany`, `row` and `rev` are what `deliver` loaded. `StartSweep`, `FindStale`,
`FailStale`, `TellStale`, `FindDue`, `Claim`, `Load`, `Send`, `Finish` and `Tell`
are the awaits of `sweep`, `failStaleClaims` and `deliver` in order. `Send` may
refuse, post, or post and then fail, because the send path keeps awaiting after
its insert: a row may read FAILED although its message was posted, and only SENT is
a statement the properties hold the code to. `AbortSweep` is a crash or an error caught by `sweep`;
`DeliverError` one caught by `deliver`. The author's requests split at the limit
check (`CountPending`) and the conditional write.

### DmCalls

One conversation: no step touches two. `ring`, `hasTtl` and `deadline` are the
two keys. Each ring carries a number the code does not have, so that successive
calls can be told apart in the properties. `StartClear`/`StartSet` are the two
round trips of `start`; `RemoveGet`/`RemoveWrite` those of `removeMember`;
`SweepScan`, `SweepClaim`, `SweepGet`, `SweepDel` those of `sweepExpired`.
`KeyExpires` is the TTL, four times the deadline and therefore never first.
`CutHandler` and `CutSweep` stop a process between two commands.

Any number of declines may be under way. `removeMember` writes back what it read,
so of two declines at once the later write puts the earlier decliner back on the
ring; `overtaken` remembers who finished declining while another decline was
between its read and its write with them on it (`Restoring`), and
`DeclinerOffRing` says a decliner comes back in no other way.

### ServerMembership

One server. A request is a `Start...` action (every check the handler makes,
with the row id it remembers) and a `Commit...` action (its transaction). A ban
has one more: its transaction first finds the row of its target (`FindBanned`),
by which it decides on the rotation, and then deletes whatever row there is
(`CommitBan`), as read committed lets others commit in between
(`server-moderation.service.ts:182-189`). A kick or leave that does makes the
keys rotate twice for one member, a join makes them stay; `CrossedBan` names these
two, and `RotatedOnce` excludes any other. The
anonymization is split the same way because it counts owned servers before it
updates the user under read committed. `ownerRows` and `owner` are the two
places the owner is recorded. `row[u]` is the id of the member row, so a member
who left and came back is a different row, as for `delete({ where: { id } })`.
A user with a deletion request has no session (`SignedIn`); requests already in
flight go on. `GracePasses` waits for the requests of the account, which
fourteen days justify. `FailRequest` and `FailSweep` roll a transaction back.

### ClaimedJobs and ScheduledJobs

A job is `absent`, `open`, `taken`, then `finished` or `closed`; `work[j]` pieces
make it up, `done[j]` were carried out, `holders[j]` work on it. `JobStep` lists
what one step may do to one job, and `Next` lets any of the jobs step: a
`deleteMany`, or the sweep, moves several. In `ScheduledJobs` a job is a row and
a revision of it; in `Sweeps` a run of a workflow or a row of a saved message.
A give-up does not stop the worker, as a stale pass does not stop a live process,
and a job that was given up may still end `finished`: the last update of a
workflow run (`workflow-run-sweep.service.ts:172`) asks for no status.

### EncryptionKeys

`version`, `encrypted` and `members` are the scope, `device` and `wraps` the two
tables, `held[b]` the keys in a browser's IndexedDB, `jobs[b]` what the browser
is doing. `cut[u]` remembers the version the removal of `u` began. A send is
`FirstView` (pending-wraps), if nobody has a key `Generate` with an upload, then
`NamedView` and rounds of `Share`, `PickKey`, `Post`; the housekeeping of an open
scope is `MaintainView` and `Share`. An upload is the server's statements:
`LoadScope`, `ReadRecipients`, `CountTargets`, `WriteWraps`. `LoseAnswer` and
`Abort` are a request that fails after or before it took effect. `ClearStorage` is
a user who clears a browser's storage and comes back with another device. The answer of
pending-wraps is one snapshot, and lists at most `MaxWraps` devices
(`E2EE_MAX_WRAPS_PER_UPLOAD`, `Pages`); the membership check is part of `LoadScope`; a
browser runs one job; versions start at 1; the last member is never removed.

A send that finds a resolution running waits for it (`useScopeKeys.ts:282-284`):
`Join` records the newest scope version among those that wait, and `Post` creates
their messages too. A message remembers both versions, `seen` of its sender and
`from` of the resolution that gave the key.

The model also has what the code leaves open, outside the properties:
a retry after a failed share posts under a key only the sender holds
(`useScopeKeys.ts:266-273`); a send that joins a resolution started before a
removal, or starts from a scope loaded before it, posts under the old key, so
`NoSendToRemoved` goes by `from` and not by `seen`; a removal while encryption is off does not
rotate; the lowest key is picked even when its only wrap belongs to a closed
device, and then every send fails; and the share loop ends after
`MAX_SHARE_ROUNDS` pages with devices still missing. `CoveredBeforeUse` is therefore about the send
that generated a key and posts under the one the server named once its own wrap
was in (`named`): the devices that were targets at that answer and at every one
since (`roster`) have it by then, or the key went to more devices than the rounds
have room for, or a rotation took the later rounds for a newer key after the
first page was full. A lower key that somebody else uploaded later, and a sender whose own
device was closed meanwhile, are outside it.

### Presence

One user. `sock[s]` holds the connect and the disconnect handler of a socket,
which may run at once; `entry` and `online` are ages of sorted-set scores, in
heartbeat intervals; `sweep[i]` is the sweep of an instance. `Tick` waits until
every running instance has sent its heartbeat and begun its sweep, as the timer
does three times in the time to live. The key's own expiry, after twice that
time, removes only stale members. `exposed` remembers that a status write was
lost or overtaken (`presence.service.ts:44`, `:59`, `:107`): after that the code
may leave a user ONLINE who is gone, until the next connection. The other
way round, a user who is connected may read OFFLINE until a heartbeat lists them
again; the model has it and no property is about it. An instance that misses
whole intervals is outside the model (`Tick`).

### CallRegistry

One call. `JoinList`/`JoinRecord`, `UpdateRead`/`UpdateWrite`,
`LeaveGet`/`LeaveRemove`, `BeatList`/`BeatGet`/`BeatWrite`, `List`/`DeleteStale`
and `RemoveCollect`/`RemoveDrop` are the round trips of the service;
`AuthorizeCallJoin` and `JoinAnswer` the ends of the gateway's handler. `client`
is the call state of the browser, `told` a `voice:user-left` under way to it. A
crash kills a socket. `room` is the Socket.IO room of the call, `ended` the socket
identifiers that are over, which are not used again.

A client hangs up whenever it likes: a join under way does not hold it back
(`useChannelCall.ts:245-259`), and it may call again while its leave is under way.
Three things follow in the code, and in the model. A leave that runs before the
join is recorded finds no participant and returns
(`call-registry.service.ts:96`); the join is recorded after it, and the heartbeat
keeps that ghost for as long as the socket is open (`late`). A call that is
recorded while the leave, or the deletion of a stale entry, of the call before
is under way is deleted by it, or survives it as such a ghost (`remnant`). And a
leave has `voice:user-left` close the connections the others hold. `LeftIsHidden`
counts the time of a ghost only when its socket has ended; `ParticipantKept`,
`PeersConnected` and `RemovedIsTold` leave out sockets in `remnant`; everything
else they cover. One join handler and one leave handler of a socket run at a time
(a bound of the model).

### WorkflowRuns

Callers are evaluations of a message and webhook calls: `LoadTriggers` or
`ReceiveWebhook`, `CountCaller`, `InsertCaller`. The sweep is `FindStale`,
`FailStale`, `FindFires`, `ClaimFire`, `InsertFire`, `FindRuns`, `ClaimRun`,
`LoadRun`, then one action per step of the run and `Succeed` or `Fail`. `due` is
the batch, worked off from the oldest run on (runs are numbered as they are
created); `did[r]` is the sequence of the steps of `r` that had their effect. A posted
message matches every workflow that listens, so workflows trigger each other. A
run carries `depth` and `parent`. `cache` is the set of outdated copies of the
triggers that some instance may hold; `ExpireTriggers` is their 15 seconds. `Age`
makes a running run stale at any time, since a batch of fifty runs with steps of
ten seconds lasts longer than the sixty a claim is trusted.

Nothing under `src/` writes the first `nextRunAt`, so a SCHEDULE workflow made
through the API does not fire until somebody sets the column; the model starts
with it null or set. The comment at `workflow-run-sweep.service.ts:96` says the
claim of a fire fails when the workflow was disabled or edited in between; the
claim asks only for `nextRunAt`, which neither changes, and the model does the
same. Changes of the trigger type, regeneration of the webhook token and the HTTP
allow list are left out.

### Reminders, Interactions, Decisions

`Reminders`: `StartSave`, `Create`, `FindRaced` and `Reschedule` are the branches
of `save`, with the unique index as the guard of `Create`; a removed and saved
again message is a new row with a new id. A delivery that fails after its claim
is lost, as in the code.

`Interactions`: `StartCallback` (validation), `ClaimCallback` (the conditional
update), `Answer`, `Refuse` or `AnswerThrows` (the post fails before or after the
message exists), `Revert`. `spoilt` counts answers whose callback failed after
they were posted: the code reverts these and the bot may answer again. A crash
after the claim leaves a RESPONDED interaction without an answer.

`Decisions`: `StartVote` checks the poll's deadline and `Vote` commits; `crossed`
holds the decisions a vote was committed on after their deadline. `Count` and `Settle` are
`resolveOne`. The deadline of the votes is that of the decision; clock skew and
early closing of the poll are left out. Two decisions can supersede each other,
in the model as in the code.

## 3. Runs

| Run | Instance | Result |
| --- | --- | --- |
| `ScheduledOnce` | 2 API instances, 1 row, 2 requests, at most 2 saved revisions, clock to 2, 1 fault, `TickBound = StaleClaim = 1`; about a million states | type, `OncePerScheduling`, `SentWasPosted`, `OneNoticePerFailure`, `NeverEarly`, `SentIsFinal` hold, and `SavedIsAJob` (implements `ClaimedJobs`) |
| `ScheduledLive` | 1 instance, 2 rows, 1 request, batch 2, 1 fault | `DueIsTaken`, `ClaimIsResolved` hold under fairness |
| `ScheduledSlow` | `TickBound = 2 > StaleClaim = 1` | `OncePerScheduling` violated |
| `DmCallsSafe` | 3 users, 2 handlers, 2 instances, 2 calls; 1.3 million states | type, `MissesAreClaimed`, `DeclinerOffRing`, `NoReturn` hold |
| `DmCallsLive` | 2 users, 2 handlers, 1 instance, 2 calls, 1 crash; 190 thousand states | `NoLeakedRing` holds, and `RingEnds` under fairness |
| `DmCallsMissed` | 2 users, 1 handler, 1 instance, 1 call, missed calls counted to 2 | `RingMissedOnce` violated |
| `ServerSafe` | 3 users, 1 of them a moderator, 2 requests, 1 sweep, invite limit 1, 4 member rows; 1.4 million states, leaving out the number of rotations so far (`MCView`: no guard reads it, and `RotatedOnce` is about single steps) | type, `OneOwner`, `InviteOvershoot`, `TransferToMember`, `DeletedByOwner`, `RotatedOnce` hold |
| `ServerOwnerLost` | 2 users, 2 requests | `OwnerIsMember` violated |
| `ServerAnonymousOwner` | 2 users, 1 request, 1 sweep | `NoAnonymousOwner` violated |
| `EncryptionSafe` | 2 users with a browser each, 2 identities per browser, 2 keys, 2 versions, 1 round of sharing, 1 device a page, 1 message kept, 1 fault; 2.5 million states | type, `RemovedGetNoNewKey`, `OneVersionPerKey`, `NoSendToRemoved`, `CoveredBeforeUse`, `PostedIsRecoverable` hold |
| `RealtimeSafe` | presence: 2 sockets on 2 instances, time to live 2 intervals, sweeps up to 1 interval late, 3 handlers and sweeps at once, 1 fault; call: 2 users with a socket each, time to live 1, 2 handlers at once; 2.1 million states | type, `LiveSocketKept`, `GoneIsUnlisted`, `GoneIsOffline`; `ParticipantKept`, `PeersConnected`, `LeftIsHidden`, `RemovedIsTold` hold |
| `SweepsSafe` | 2 instances; 3 workflows, one per trigger, in 2 possible servers, 2 steps, 2 runs, 2 messages, chains cut at depth 0; 1 saved message, 2 requests, clock to 3; 2 interactions, 2 callbacks; 1 decision, 2 voters, quorum 2; 1 fault each; 440 thousand states | type, `Lineage`, `AnsweredOrTimedOut`, `OutcomeFits`, `ClaimsHonoured` (runs and reminders implement `ClaimedJobs`) hold |

Why these bounds are enough. The interesting schedules need two claims of one
row by two instances, and one reschedule between them: two instances, one row,
two revisions. A second row matters only for the loop and the batch, which
`ScheduledLive` has. A clock unit is the stale-claim time, so two units separate
fresh, stale and later. In the rings a hazard needs an old ring, a new ring and
somebody who read the old one: two calls, two handlers; two handlers are also what
it takes for two declines to overlap. In the server a removal
that was checked before a transfer needs both in flight and a third user for the
moderator, and an overshoot of the invite needs a limit and more joins than it
allows. The proofs remove the bounds for the properties they cover. `ServerSafe`
has one sweeping instance: the branch of an anonymization that finds the account
already erased needs two, which the proofs cover. Three users and an invite with
one use also mean that a removed owner does not come back in that run; the
proofs cover that as well.

In the keys every hazard is a race of two browsers, and one removal makes the
second version; a second identity is what a revoked device comes back with. A
removed member can come back in that run. A page of one device makes a share of two
devices fill it, and one kept message shows any post, for each is kept in some
behaviour. In the presence of one user the cases
are a socket that comes while another goes, on another instance: two of each, and
a sweep that spans an interval. A third participant of a call adds nobody a pair
does not have. Two instances are what it takes to race for a claim; two runs give
a run and one it caused, or two of one trigger, and a depth of 0 makes the
caused one the refused one; caps of 1 and 2 tell the two caps apart. `MCInit` starts the
workflows in one state only while another of the four services runs.

Named bounds: `MaxTime`, `MaxRev`, `MaxFaults`; `MaxRings`, `MaxCrashes`,
`CountTo` (missed calls are counted up to it; 0 where no property looks at them);
`MaxRows`; `MaxIdentity`, `MaxKey`, `MaxVersion`, `MaxPosts`; `MaxLag`, `AtOnce`,
`CallsAtOnce`; `MaxRuns`,
`MaxMessages`, `MaxFires`, `MaxUpsets` (edits, crashes and errors together);
`MaxSaves`, `ReminderFaults`, `InteractionFaults`, `DecisionFaults`. A tick of
these sweeps that finds nothing leaves no trace and is not a step. Deadlock is not checked where the system may stop: all calls placed
and over, all revisions used, the server deleted, all runs ended.

### Fairness

`FairSpec` of `ScheduledMessages` asks for weak fairness of the clock and of each
sweep: `setInterval` fires again and an await returns or throws, and the process
manager restarts an instance that died (the model's crash leaves the instance
idle). It asks nothing of users. `FairSpec` of `DmCalls` asks the same of each
instance's ring sweep, of handlers that are running, and of time (`DeadlinePasses`,
`KeyExpires`). No strong fairness is
used anywhere.

### What the violations say

* `ScheduledSlow`. The claim stores the time the tick began, and a tick sends up
  to fifty messages one after the other with no time limit. If it takes longer
  than two minutes, another instance takes a live claim for an abandoned one,
  the author is told it failed and reschedules, and one scheduling is posted
  twice. The other runs and all theorems about posting state the assumption that
  excludes this: `TickBound <= StaleClaim`.
* `DmCallsMissed`. `cancel` clears a ring it read earlier and notifies the missed
  call without asking whether the clear found the ring.
* `ServerOwnerLost`. Kick, leave and ban check the kind of the row or the owner
  before the transaction, which then deletes unconditionally.
* `ServerAnonymousOwner`. `transferOwnership` does not ask whether the target's
  account is being deleted. Most often the anonymization then refuses on every
  tick, for good: nobody can sign in as the owner, and a due deletion cannot be
  cancelled. When the transfer commits between count and update, the server is
  left with an anonymous owner, which is the case the comment excludes.

## 4. Proofs

`tlapm M_proofs.tla` checks a module of theorems; `Sweeps_proofs` takes about eight
minutes, the others at most three.

All theorems are for every value of the constants allowed by the named `ASSUME`
of the module, and TLC evaluates those assumptions on each run.

`ScheduledMessages_proofs`: `TypeCorrect` ([]TypeOK) and, from
`PromptTicks == TickBound <= StaleClaim`, `AtMostOnce` ([]OncePerScheduling),
`SentIsTruthful` ([]SentWasPosted) and `NotBeforeItsTime` (NeverEarly).
`OncePerScheduling` is not inductive: nothing in it says who may post. The
inductive invariant `IInv` adds

* `SweepTime`: the clock is within `TickBound` of the `now` of every running
  tick, so a claim made by a running tick is never stale for another;
* `ClaimHeld`: an instance that is delivering a row finds it in SENDING with the
  `claimedAt` of its own tick and a `sendAt` not after it, or removed together
  with its destination;
* `ClaimExclusive`: no two instances are there for the same row;
* `RevisionsPosted`: nothing is posted for a revision the row has not reached, nor
  for the current revision of a pending row;
* `DeliveryPosted`: the revision an instance loaded is the row's, nothing is posted
  for it before the send, and one message is when the outcome is SENT;
* `CreateFresh`: a create in flight still has its row to itself.

A delivery therefore posts a revision nobody posted, and the row it finishes is
the row it claimed. `SentIsTruthful` and `NotBeforeItsTime` follow from the same
invariant.

`DmCalls_proofs`: `RingTypes`, `MissesClaimed` (by counting: misses, sweeps that
hold a claim and a deadline in the set never exceed the rings placed; needs
cardinalities), `RingNotLeaked`, `RingNeverReturns`, and `DeclinerStaysOff`, for any
number of declines at once: its invariant says of every handler about to write a
member list back that who declined that ring and is on the list was overtaken
(`SnapFresh`), and that rings and snapshots have numbers already placed (`Numbered`).

`ServerMembership_proofs`: `MembershipTypes`, `OwnerAgreed`, `OvershootBounded`,
`OwnerDeletes`, `TransferKeepsOwner`. The invariant adds what the checks of a
handler established about the users it names (`Named`) and that the joins in
flight have their uses and rows reserved (`JoinsFit`), which is what bounds the
overshoot.

`KeysFollowMembers` proves `RotatedOnce` by cases on the commits: a kick or leave
that takes a row takes one and rotates (`OneGone`); a ban rotates by the row it
found, so that when its delete finds otherwise it is a `CrossedBan`; no other step takes the row
of an account it leaves alone (`NobodyGone`). The erasure of an account does not
rotate, in the model as in the code, and is outside the property. `SentIsFinal` (`SentStays`) and `OneNoticePerFailure`
(`ToldOnce`) are proved under `PromptTicks` as the others: the writes that take a
row out of SENT are conditional, but for `Finish`, whose row `ClaimHeld` says is
SENDING; and the notices stored and those on their way (`Tellers`) stay within the
attempts made (`Room`).

`ClaimedJobs_proofs`: `JobsOnce`, what a claimed job promises, holds in every
behaviour of the abstract specification. `ScheduledJobs_proofs`: `Implements`,
`PromptTicks` implies that every step of `ScheduledMessages` is a step or a
stutter of `ClaimedJobs` under the mapping of `ScheduledJobs`, from `IInv`. The two
together give the promise to every revision of a scheduled message.

`EncryptionKeys_proofs`: `EncryptionTypes`, `RemovedAreCut`, `KeysHaveOneVersion`,
`MessagesKeepAKey`, `RemovedCannotRead`, `EveryTargetIsCovered`. There are two
invariants. The first is of the server: `ServerFits` (who is a member is not cut,
no version is past the scope's), `HeldIsStored` (a key in a browser has a wrap),
`JobFits` (with `Admits`: an upload past its read of the members names nobody cut
at its version) and `Agree` (uploads and wraps of one key have one version). The
second is of the senders. `SendIInv`: a stored key was once wrapped for a device of
that browser under the version it is stored with, and a send never goes below the
version it was started with. So a key from a resolution that started with the
scope after a removal has wraps of that version or later only, and the removed browser can have
neither wrap nor copy. `CoverIInv`: until the server names the key, whatever the
browser has stored is older than its target or is wrapped for its device
(`CreationFits`, so that "named" is a key the others can be given); from then on
the wraps of that key, with those the upload in flight brings, cover the roster or
as many full pages as there were rounds, unless another key has taken its place
(`SharingFits`, `Beaten`), and the end of the loop tells which (`PickFits`, `PostFits`). None of the
three is inductive alone; the least key and the greatest version are taken from
lemmas about finite sets of numbers.

`Realtime_proofs`, presence: `LiveSocketsStay`, `GoneUsersAreUnlisted`,
`GoneUsersAreOffline`. `Kept` says of an open, registered socket that its instance
is running and its score at most one interval old. `GoneFits` relates the ages: no
score of a socket is younger than the user's, none of either younger than the
time the user is gone, and once every sweep that begins finds nobody left one of
them is on its way that began late enough. `OfflineIsDue` says who will write
OFFLINE while ONLINE is no longer true.

`Realtime_proofs`, calls: `ParticipantsStay`, `PeersHearEachOther`,
`WhoLeftIsHidden`, `WhoIsRemovedIsTold`, with nothing assumed of the clients. The
invariant is a conjunction about one socket (`SocketFits`) and one about two
(`PeersFit`). The parts that carry the proof: a client that hung up during its join
has a leave under way or one that came too early (`JoinIsAwaited`); a recorded call
of an open socket has a participant refreshed in this interval or the last, no
reader has seen it as stale, and its client is in the call or a leave will find it,
but for a remnant (`RecordedIsKept`); the client of a member, or of somebody whose
removal has not reached the call yet, is recorded and in the room (`HeldIsRecorded`);
a removal that looks at the call finds everyone it has to tell (`CaughtFits`); what is
away ages with its entry (`AwayFits`). `RealtimeTypesHold` and `RealtimeIsSafe` put the two services
together.

`Sweeps_proofs`, by service. `OneRunPerCause` (`Lineage`), from `RunIInv`: runs are
numbered without gaps; every copy of a trigger list, in a cache or a caller, names
a workflow once (`OneEach`); what a caller or a sweep may still insert was not
inserted for that cause (`CallerKept`, `SweepKept`), the fire of a sweep having
been claimed by advancing `nextRunAt`; a draft is one deeper than its parent
(`Linked`). `OutcomesFit` (`OutcomeFits`), from `DecisionIInv`: what a sweep counted
is still what the votes give, but for decisions a late vote was committed on.
`AnsweredOnce` (`AnsweredOrTimedOut`), from `AnswersCounted`, `AnswersClaimed` (a
callback past its claim alone holds a RESPONDED interaction with no answer kept)
and `NoticesOwed` (a sweep past its claim alone owes the notice).
`SweepsTypesHold` and `SweepsAreSafe` put the four together.

`RunsAndRemindersAreJobs` is the refinement of `ClaimedJobs` by workflow runs and
reminders, under no assumption on how long a tick lasts. A job is looked at as one
record; `JobMoves` lists the moves one job may make, `MovesAreSteps` turns a move
of every job into a step of the abstract specification, and one lemma for each
group of actions shows which move a run or a row makes. It needs, beside the
invariants above, `HeldOK`: an instance that executes a run is alone with it, the
run is RUNNING or was given up or deleted under it, and the steps carried out are
those before the one it is at. That is why the unconditional final update of a run
is harmless: a run is claimed out of PENDING once and nothing leads back.

`EachStepOnce` draws the consequence for the tables: whatever crashes, errors and
stale claims, the steps of a run have their effect in the order of the workflow,
each at most once, all of them when the run reads SUCCEEDED; and a reminder is
delivered at most once.

Only model-checked: the liveness properties `DueIsTaken`, `ClaimIsResolved` and
`RingEnds`, since fairness is out of the prover's reach; and the four violations,
which are counterexamples. Every safety invariant, every action property and both
refinements that a run checks are proved.

## 5. Not modelled, and why

Most of the repository's lines hold no state machine of their own, and a model of
them would restate them: components, styles and hooks of the web client that show
what the API answers; types, contracts and validation; catalogues and settings
written in one statement; requests that are one transaction (channels, roles,
forum, events, templates, webhooks, reports, friends). The modules cover what runs
in several steps against something else.

Emits to Socket.IO rooms, audit logs, texts, files and locale are left out, except
notifications, which are counters, and the two events a property is about
(`voice:user-left`, `interaction:timeout`). External services (LiveKit, push
endpoints, mail, OAuth providers, storage, HTTP steps of a workflow) appear only
as errors. Cryptography is left out: a key is a number, and who can read a message
is who has a wrap or a stored copy.

In `ServerMembership` bots, timeouts, stage rows and the discovery join are
missing; in the account deletion the exports and the anonymized columns. In
`CallRegistry` signalling, server muting, moving a member and ending a whole call;
in `Presence` the emits. Sessions appear as the guard `SignedIn` only.

The ring of a group is modelled, but three properties of the rings are stated for
conversations of two. In a group the write back of `removeMember` can revive a
ring that ended, without a time to live (`KEEPTTL` on a key that is gone), so
those properties do not hold there.

## 6. Plan

Done, in this order: `ScheduledMessages`, `DmCalls`, `ServerMembership`; then
`EncryptionKeys`, `Presence`, `CallRegistry`, `ClaimedJobs` with its refinements,
`WorkflowRuns`, `Reminders`, `Interactions`, `Decisions`.

Left, the most important first:

1. `Sessions`, on the accounts of `ServerMembership`: refresh rotation, one-time
   codes, sign-in against a deletion request; no live session of a deleted account.
2. Theorems beyond the checked properties: what the four violations leave true
   (which transfer and removal orders keep the owner a member, how often a ring can
   be reported missed), and the group of the rings.
3. The discovery invite, edits of messages against their deletion
   (`messages/messages.service.ts`), early closing of polls.
4. The permissions of a channel as operators checked against a reference
   definition; requests between friends.
