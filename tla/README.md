# Backspace: a verification project

Backspace is a self-hosted chat platform. Each instance is one Node process
over one SQLite database; instances talk to each other through a signed
server-to-server protocol ("federation"). What is hard to get right in this
code, and hard to test, lies in that protocol: two databases, no shared
transaction, requests that time out and are taken anyway, processes that stop
between two steps. This project models it in TLA+, checks it with TLC and
proves the central facts with TLAPS.

Paths below are relative to `packages/server/src/` unless they say otherwise.

## 1. Inventory

| part | state it keeps | operations | what makes it hard | what makes it correct |
|---|---|---|---|---|
| Peering (`utils/federationPeerState.ts`, `federationHandshake.ts`, `federationPeering.ts`, `routes/federation/handlers/peerHandshake.ts`, `approvals.ts`, `peerAdmin.ts`) | `federation_peers`, `peer_approval_requests`, the in-memory in-flight registry | start and answer handshakes, approve, deny, expire, revoke, reset, resolve parked rows | both sides act at once; a request may be taken after its sender gave up; a row may change during every await | one shared secret, no row without the admin where the admin must decide, no re-keying from outside, no stuck rows |
| Health and recovery (`federationRecovery.ts`, `federationEpoch.ts`, parts of `federationWorker.ts`) | status, failure counters, trusted instance id | probe, mark unreachable, recover, detect a reset | an answer is used after its await | a reinstallation shows, and is never trusted |
| Outbox queue and worker (`federationOutboxQueue.ts`, `federationOutbox.ts`, `federationWorker.ts`) | `federation_outbox`, `federation_mutation_log` | fold a new event into a queue, send heads, settle answers, retry, expire | the queue changes while its head is on the wire; the receiver may hold what nobody confirmed | the receiver ends with what the author made |
| Receiver (`routes/federation/events/*.ts`, `federationRejections.ts`, `federationAppliedEvents.ts`) | `dm_messages`, the applied-events ledger | create, update, delete and the other events | repeated, late and reordered events; checks before an await | idempotence, deletions are final, the last edit wins |
| Pull (`federationSync.ts`, `handlers/syncPage.ts`) | cursors, `federation_sync_retry` | read pages, apply, keep, retry, drop | overlaps what the relay delivers; a stop in mid-page | it repairs whatever the relay lost |
| Secret rotation (`handlers/peerAdmin.ts`, `peerHandshake.ts`, `federationAuth.ts`) | pending secret and its time | rotate, grace period, finish | each side finishes at a tick of its own, with traffic in between; one may rotate alone | what one signs with the other verifies, by its next tick at the latest, and both end on one secret |
| Reset and heal (`federationReset.ts`) | reset journal, flagged users | snapshot, heal, quarantine | repeated observations, users made in between, a stop in the middle | only the dead incarnation's users go, and all of them |
| Friends (`routes/social.ts`, `events/friends.ts`, `federationSubjectClock.ts`) | `friends`, `friend_requests`, a clock per pair | ask, answer, cancel, remove | relay and pull deliver in any order, downloads inside a handler | no friendship without its own user, both sides end alike |
| Group membership (`routes/dm.ts`, `events/membership.ts`, the same clocks) | `dm_members`, the owner, a clock per member | add, leave, kick, transfer | a copy judges by the owner it knows | one owner, one list of members |
| File queue (`federationWorker.ts`, `janitor.ts`) | `federation_file_queue`, attachments, the upload directory | download, retry, refuse, sweep | the message, the entry and the file may go meanwhile | every entry ends, a named file is there |
| Calls (`ws/events.ts`, `ws/handler.ts`, `events/calls.ts`, `utils/callFanout.ts`) | in-memory rooms, and entries at the other instance | ring, accept, decline, leave, end | two instances, no storage, relays posted once | nothing is left behind, both seat the same people |
| Conversation identity (`utils/dmConversation.ts`, `routes/federation/dmChannels.ts`) | `dm_channels` | find or create, reconcile, bootstrap | both sides create at once | one conversation per pair |
| Everything else: websocket gateway, spaces and permissions, accounts, uploads, voice, search, directory, telemetry, web and desktop clients | | | request-at-a-time work in one process, I/O, or user interface | |

`PROJECT.json` lists the same parts with what is modelled of each, and under
`hazards` the places where this code can go wrong in a way a test would hardly
reach.

## 2. Modules

    PeerState        the peer row and the pure decisions on it
      Peering        two instances peering with each other     (extends PeerState)
        MCPeering    the runs with a fault or a reinstallation, a constraint
        PeeringProofs
    Replica          what federation promises about one message (abstract)
    DmDelivery       queue, worker, relay, handlers, pull; implements Replica
      DmDeliveryProofs
    FriendPair       a friendship across two instances       FriendPairProofs
    GroupMember      a group's member and owner, n instances GroupMemberProofs
    SecretRotation   two peers replace their secret          SecretRotationProofs
    DmCall           voice calls of one conversation         DmCallProofs
    ResetHeal        the users of a peer that was wiped      ResetHealProofs
    FileQueue        the download of one attachment          FileQueueProofs
    MCParts          the six above side by side, for TLC

### PeerState and Peering

`PeerState` holds the row of `federation_peers` and what is computed from it:
`Move` is `applyPeerTransition` (a new status with its reason; entering a
refused status purges the outbox), `Activated` the activation with its fields,
`DecideInbound` is `decideInboundHandshake` and `EpochAnswer` the `/epoch`
handler.

`Peering` composes two sides, `lower` and `higher` by the order of their
origins. Peerings of different origins share no state, so two are enough. Its
state, per side: the row (`peer`), the auto-accept setting, the inbound and the
outbound approval request, the handshake in flight (`hs`), a denial waiting to
be settled (`deny`), the backstop's probe (`parked`), the activation hook still
to run (`fanout`), the instance id (`epoch`); and the `/peer/accept` requests in
transit (`net`). `held`, `fresh` and `spent` exist for properties and bounds.

A step is what the process does between two awaits: Node runs one piece of code
at a time, and SQLite calls are synchronous. So `Send` begins an exchange,
`AcceptHandshake`, `QueueHandshake` and `RefuseHandshake` are the whole accept
route for the decision they name, and the `Settle...` actions what
`runOutboundHandshake` and its caller do with an answer. Where the code waits
for a signed probe before it writes, the probe (`Verify`, `ProbeParked`) and
the write (`SettleExists`, `SettleAccepted`, `SettleParked`) are two steps, and
anything may happen in between.

A request is lost, taken late (`live` is false once its sender gave up), or its
answer is lost. `GiveUp` is the 10-second timeout and a lost request alike.
`Crash` loses the exchange, the probe, the denial and the hook; `Wipe` is a
reinstallation on the same domain.

Abstractions: secrets, tokens and row ids are numbers (0 is NULL). A row's id is
the secret it was made with, which is exact because a row of our own exchange
keeps that secret while it is pending. Delivering a denial and the remote's
handling of it are one step, because a denial the remote does not take changes
nothing. Mail is one bit: something is queued for the peer. Left out: the
fallback for releases that answer without the new codes, rate limits, what is
shown to users, and secret rotation, which has a module of its own
(`SecretRotation`); `NeverRekeyed` and the secret properties here are about
handshakes.

### Replica and DmDelivery

`Replica` is the promise: the copy only ever shows a text its author gave the
message, it goes only when the author deleted the message, and gone stays gone.

`DmDelivery` is one message on its way to one peer. The queues are keyed by
message, kept events by subject and the handlers touch one message, so one
suffices. The sender: `CreateMessage`, `EditMessage`, `DeleteMessage` write the
mutation log and then fold the event into the queue by `planMessageWrite`;
`SendHead` posts the head, marked as offered; `SettleAnswer` is
`settleAnsweredBatch`. The receiver: `ProcessCreate`, `ProcessUpdate`,
`ProcessDelete` as one answer and the state they leave. With `Hydrates` a create
may wait for image downloads after its checks (`StartHydration`,
`FinishHydration`, and the same for pulled and kept events). The pull:
`PullPage` reads rows of the log as `serializeMessageRow` serves them (with the
message's text of *now*, and nothing for a deleted one), `ApplyPulled`,
`HoldBehindKept` and `EndPage` are `handlePulledEvent` and the cursor,
`RetryKept` and its siblings `retryPeerEvents`.

`ready` says whether the receiver has the conversation (`channel_not_found`
until then), `welcome` whether it lets this sender speak for the author, fixed
for a behaviour. A page may start anywhere at or before the cursor (the code
re-reads two minutes) and end anywhere, because other messages' rows fill the
rest. An event that reaches the log but not the queue (the peer takes no mail,
the write fails, the process stops) and an expired row set `unqueued`: from then
on only the pull can help. Edits are numbered; the number is also the time of
the edit, so two edits never share one. Left out: the conversation's deletion,
attachments, mentions, replies, reactions, and several pages per answer.

### FriendPair

One user on each side. State per side: the rows `friends` and `pending` (with
`answered`, the requests a second device may still show), `pairClock`, and the
in-memory work of a handler that awaits profile downloads (`handling`).
`Request`, `Accept`, `Decline`, `CancelRequest` and `RemoveFriend` are the routes
of `routes/social.ts`; each takes the next time, records it on the clock and
writes its events. `Receive` hands any logged event to its processor, by the relay
or the pull, in any order and again if it was refused; the ledger (`taken`) stops
a second one. `ProcessRequestCreate`, `ProcessRequestUpdate`,
`ProcessRequestCancel`, `ProcessFriendRemove`, `BeginFriendAdd` and
`FinishFriendAdd` are `events/friends.ts`, the last two split at the `await`.
`StopHandling` is a stop of the process.

Abstractions: one clock for both sides' changes (no skew, no ties between
changes); row ids, profiles and notices are left out. Left out too: the rollback of
a request whose recipient the peer does not have, users who are deleted, local pairs,
and the sweep of old clocks.

### GroupMember

One member of a group, who is the only one of its instance, and the group's owner,
at every instance of `Site`. `AddMember`, `LeaveGroup`, `KickMember` and
`TransferOwner` are the routes of `routes/dm.ts`; `ProcessMemberAdd` (an
incremental add, or a bootstrap of the group in two steps, `StartCopy` and
`FinishCopy`, around the download of the icon), `ProcessMemberRemove` and
`ProcessOwnershipTransfer` are `events/membership.ts`. Duplicates are recognised by the system
message they wrote (`marked`), and an event a copy refuses may be tried again until
it is given up (`GiveUp`). The model lets the member's clock and the owner
interact: kicks and transfers count only from the instance of the owner this
copy knows. Left out: the group's name and icon, its creation and deletion, and
members who share the member's instance.

### SecretRotation

State per peer: `hmac_secret`, `pending_hmac_secret`, the time since
`secret_rotation_at`, `consecutive_auth_failures`, and the call in flight. `AskRotation`
is an admin's rotation or the worker's on the peer's schedule, `TakeRotation` the
`/peer/rotate` handler, `SettleRotation` its answer, `LoseCall` a lost request or answer,
`HealthTick` the tick that promotes. `RelayBatch` is a delivery of the outbox, signed as
`Signing` says and judged by `Accepts` (`authenticateS2SPeer` with `Verifies`, which is
`verifyPeerSignature`: the pending secret counts during the grace period). A refused
delivery counts, an answered one starts the count anew, and at the threshold the row
is no longer `Active`: it is in `needs_attention`, its relay stops, and it refuses the
other side. Time is in units, with both peers' ticks at any offset: the model says
nothing of a call that takes longer than a unit, sends no delivery while the answer to
the other side's rotation is on its way, and leaves out the admin's reset.

### DmCall

The caller's instance (`room`, `seats`, `declined`) and the other one (`entry`,
`joined`, `window`), for a 1-on-1 and for a group. Relays are posted once, may be lost,
may overtake each other (`toHost`, `toHolder`), and name the conversation, not the
call; the ones whose failure the sender acts on are followed to their answer
(`starts`, `accepts`). `StartCall`, `AnswerCall`, `DeclineCall`, `LeaveCall`,
`CallerLeaves` and `JoinAgain` are the handlers of `ws/events.ts`, `HearStart`,
`HearAccept`, `HearDecline` and `HearEnd` the processors of `events/calls.ts`,
`LoseSession`, `SeatEmptied` and `LeftEntry` the clean-ups of `ws/handler.ts`,
`RingTimeout` and `WindowCloses` the timers, `DropGuests` and `EvictEntry` what
happens to calls when the peer is not active any more. Left out: a second member
at the host, an event that reaches the other instance before its conversation,
releases before 1.8, and the media tokens.

### ResetHeal

Incarnations of the peer are numbered. `Wipe` makes a new one, `Restore` brings an
older one back from a backup, `Meet` is a user of the running one who becomes known
here. `Observe` is `markPeerReset` (flag everybody known, write the journal),
`Handshake` the activation of a new peering with `healResetIncarnation` and
`quarantineOrphanedAccounts`, done, cut by a stop anywhere between two of its
deletions, or with no journal to resolve. A false alarm (the dead incarnation is
the confirmed one) takes the flags back.

### FileQueue

The attachment row, its queue entry, the worker (fetch, thumbnail) and the files of
the upload directory. `Begin`, `FetchFails`, `FetchDone` and `ThumbnailDone` are
the worker between its awaits, `Stop` a stop of the process; `DeleteMessage`,
`CleanupOldMedia`, `CleanupStorage` and `ExpireEntry` are what else may happen in
between. Names of files are numbers, as many as there can be files.

### MCParts

The six modules share no state, so one run checks them side by side: `part` says
which of them moves, and the others rest. The reachable states are the sum of
the parts', not their product.

## 3. What the runs check

| run | bounds | result |
|---|---|---|
| `peering_open` | open sides, fair, 3 secrets, 1 outage, 1 admin action, and 1 fault or 1 reinstallation | `TypeOK`, `ActiveOnSharedSecret`, `RefusedHoldNoMail`, `OneSecretSurvives`, `BaselineKnown`, `NeverRekeyed`, `ResetEndsParking` hold |
| `peering_gated` | both sides gated, 3 secrets, 1 fault, 3 admin actions | `GatedByAdmin`, `OnlyBackstopLifts` hold |
| `peering_live` | open, fair, 3 secrets, 2 faults | `MailLeadsToPeering`, `LostAnswerCompletes`, `ParkedCompletes` hold |
| `delivery` | 2 edits, 1 fault, no downloads | `TypeOK`, `CancelledNeverHeld`, `TombstoneFinal`, `DrainedAgrees`, `PulledAgrees`, `ReplicaSpec` hold |
| `delivery_live` | 1 edit, 2 faults, downloads, fair | `Converges` holds |
| `parts`: friends | 4 changes | `PairTypeOK`, `FriendsConsent`, `OrderlyPairAgrees` hold |
| `parts`: group | 3 instances, 2 users at each, 4 changes | `GroupTypeOK`, `MembersAgree`, `SoleOwner` hold |
| `parts`: rotation | grace period and tick interval of 2 units, 3 rotations, 1 loss, threshold of 2 refusals | `RotationTypeOK`, `RefusedForATick`, `RotationEnds` hold |
| `parts`: call | 1 call, 1 fault, 2 relays each way | `CallTypeOK`, `CallHasSomebody`, `SeatsAgree`, `IdleEntryGoes`, `DesertedCallEnds` hold |
| `parts`: reset | 2 wipes, 1 backup, 1 crash | `ResetTypeOK`, `SnapshotHasJournal`, `HealComplete`, `HealSparesLater` hold |
| `parts`: file | 2 attempts, 1 stop | `FileTypeOK`, `NamedFileThere`, `DownloadEnds` hold |
| `peering_refusal` | open, 3 secrets, 1 fault, 2 admin actions, a reinstallation | violates `LocalRefusalsHold` |
| `delivery_hydrate` | no edits, downloads | violates `TombstoneFinal` |
| `reset_heal` | 2 wipes, no backup | violates `HealSparesConfirmed` |
| `rotation_auth` | 1 rotation, no loss, threshold of 5 refusals as in the code | violates `RotationSparesPeer` |
| `group_owner` | 3 instances, 1 user at each, 5 changes | violates `LastMoveWins` |
| `calls_start` | 2 calls, 1 fault | violates `StartEndsOwnRing` |

The bounds. A secret is made per new row: three allow each side one row and one
of them a second, which every replacement and removal needs. In `peering_open` a
behaviour begins with its faults or its reinstallation used up (`EitherSpec`): both in
one behaviour are too many states. One fault is a
loss, timeout, crash or expiry anywhere; two are allowed in the liveness run. Six
tokens are never all in use in these runs, so `MaxToken` cuts nothing off. Three
admin actions let an approval, a denial and a revocation meet. Two edits are the
fewest at which an edit can be folded into another, and one fault already puts a
request, a kept event and a lost queue row side by side; the delivery properties
also hold with two faults (5 million states), left out for time. Four changes of a
friendship are a request, its answer, a removal and a request again; four of a
group let a kick, an add and a leave cross. Three rotations follow each other and
cross, and two refusals end in `needs_attention` as five do. One call is enough for
everything but a late failure of the one before,
which `calls_start` shows. Two wipes put a reset on top of an unhealed one. Two
attempts let a download fail, succeed, and fail for good.

Every property of a passing run is shown to fail under one plausible bug in a
definition it depends on; these variants stand beside the definitions
(`..._NoTieBreak`, `..._InPlace`, ...).

Deadlock is not checked: an instance with nothing to do, whose users and admins
do nothing, stops by design, and bounded counters end every behaviour.

### Properties with a condition

Some promises hold only for part of the behaviours, and the condition says which.
`OneSecretSurvives` allows one fault or outage and one admin action: the code's
tie-break settles two handshakes at once and one mishap, and no more (below).
`OnlyBackstopLifts` makes one exception, the answer to a probe the backstop sent
before our admin's denial, for which `peering_refusal` shows the violation.
`OrderlyPairAgrees` leaves out changes that crossed and a request that overtook a
removal (`stray`): there the two sides do end apart (below). `MembersAgree` leaves
out groups that were passed on, for which `group_owner` shows a violation, and
events that came before the copy they are for. `RefusedForATick` and `RotationEnds`
leave out a lost answer and requests that crossed (`apart`), after which the peers may
not share a secret any more; only an admin mends that. `RefusedForATick` names
the two times at which a peer refuses the other's signature without any fault; what
the first of them costs, `rotation_auth` shows. `SeatsAgree` and `DesertedCallEnds` leave out relays that were lost or
reordered (`marred`): nothing repeats them. `HealSparesLater` speaks of
users met after the detection; for those before, `reset_heal` shows the violation.

### Fairness

`Peering!Fairness`: a request in transit is eventually answered if nothing loses
it; the worker attempts a pending row with mail (its tick never stops); code
after an await runs; the 15-minute backstop probes a parked row and acts on the
answer. No admin and no user ever has to act. A request may still be lost and an
exchange may time out, as often as `MaxFaults` says.

`DmDelivery!Fairness`: weak fairness for the worker's sends and settlements, for
handlers and for the steps of a page. Strong fairness for a pass that reads to
the end of the log and for a retry run: both are started by timers, and
`runForPeer` gives the passes and runs of one peer their turn first come, first
served, so each of them gets its turn although the others keep disabling it. A
pass stopped at its budget goes on from its cursor after a minute.

`SecretRotation!RotationFairness`: time passes, ticks fire when they are due
(the `setTimeout` chain), and a rotation request is answered or fails; nobody has to
rotate, and nothing has to be relayed.
`DmCall!CallFairness`: the two ring timers fire, and a posted relay arrives or is lost.
Nobody has to answer or hang up. `FileQueue!FileFairness`: the queue's timer picks a
pending entry up, and a fetch or a thumbnail ends (both have timeouts).

`MailLeadsToPeering` allows for a fault, because a failed attempt may remove or
park the row. `Converges` does not cover a kept event given up after its seven
days, nor the message `TombstoneFinal` is broken for.

### What the violations show

1. `peering_refusal`: **a denial lifted.** The backstop for parked rows moves a
   rejected row by its secret, not its reason. A denial by our admin during the
   probe is undone. No setting prevents it: with approval demanded on both sides
   it takes five admin actions and a lost answer, beyond the bounds of
   `peering_gated`. `OnlyBackstopLifts`, which is proved, says that it is the
   only way a refusal is lifted, and that a revocation never is.
2. `delivery_hydrate`: **a message brought back.** A create waits for image
   downloads between its checks and its insert; a delete handled meanwhile does
   not stop it. It takes no fault: the relay and the pull run side by side.
3. `reset_heal`: **a living user deleted.** A user of the new incarnation who
   becomes known between the wipe and its detection is flagged with the dead ones,
   and the heal deletes the stub or detaches the account.
4. `rotation_auth`: **a peering lost to its own rotation.** One side signs with the new
   secret while the other's grace period is over and its tick still to come, up to a
   quarter of an hour later. Until then the other side answers 401. Backoff is per
   message, so five messages in that time are five refused deliveries, and the fifth
   moves the peer to `needs_attention`, which only an admin leaves; the row refuses the
   other side from then on, whose count grows in turn. No fault is needed, only traffic.
   `federationWorker.ts:40` says that the ticks' interval rules this out, and
   `federationAuthFailure.ts:5` that five failures take longer than the grace period,
   which is so for one message alone. What does hold is `RefusedForATick`,
   which is proved: a refusal lasts until the other side's next tick, or until it reads
   the answer it waits for.
5. `group_owner`: **a kick that never counts.** A copy judges a kick by the owner it
   knows. Although every instance gets every event in the order of the
   changes, one copy keeps the member and another does not.
6. `calls_start`: **another call ended.** The failure of a call's start, settled
   after the caller cancelled and called again, ends the second call's room.

`PROJECT.json` quotes the statement each of them contradicts.

### Other divergences met while modelling

These are not runs, because the code's own texts promise nothing different, or
because a run of the list above already rests on the same behaviour.

* The rule that the lower origin's handshake wins asks whether an own handshake is
  in flight *now*. When both requests outlive their senders' timeouts, both
  are taken late, and each side is active on the other's secret (two faults). One
  admin gets there as well: a revocation and a new handshake while the other
  side's accepted exchange is between its check and its settlement, which then
  adopts the older secret (`settleAccepted`). So does a loss with an outage, when
  recovery makes a row active beside an exchange that is still to be settled.
  `OneSecretSurvives` says up to where the sides stay together.
* A remote's handshake refreshes our queued *outbound* approval request, and denying
  that request tells the remote nothing.
* A pulled create stores an edited text as never edited; a late request with an older
  edit overwrites it, until the newer one comes.
* Two users who change a friendship without knowing of each other's change may end
  with different views, in particular when a request of one overtakes its removal.
* An asker stores the new secret only once the remote has taken it, where
  `docs/systems/federation.md:84` has it stored first. When the answer is lost, or both
  sides ask at once, the two may end on different secrets (`apart`).
* A denial the remote processed, but whose answer is lost, leaves our request behind, and
  each later denial of it meets a 409, until the request expires.
* A lost `dm_call_accept` clears the whole entry of the conversation, with whoever
  else joined through it (`events.ts:1667`); the comment there speaks only of the
  client that accepted. A lost end leaves a seat at the host until the peer is
  dropped.
* The storage sweep deletes files no row names, whatever their age, also one the
  worker has just written and is making a thumbnail of; the row then names a
  file that is gone (`swept`).
* When the message is deleted during a download, the update fails on the foreign
  key after the file is written; it is retried, and each attempt leaves a file
  for the sweep. A stop between the rejection of an entry and its notice loses the
  notice.
* A stop in the middle of a heal leaves the journal open until the next peering of
  that peer.

## 4. What is proved

All for every value of the constants, that is for any number of edits, faults,
admin actions, outages, reinstallations, secrets, changes, instances, rotations and
attempts. Assumed are only the types of the constants and what makes them
meaningful (`GatedAssumption`, `BoundsAssumption`, `HydratesAssumption`,
`MaxChangesAssumption`, `GroupAssumption`, `RotationAssumption`,
`ResetAssumption`, `FileAssumption`, `CallAssumption`).

* `PeeringProofs!TypeCorrect`: `Spec => []TypeOK`. Inductive as it stands. The
  lemmas on `Move`, `Activated`, `NewRow` and `WritePeer` carry the reasons a
  status allows through every action.
* `PeeringProofs!GatedCorrect`: `Spec => []GatedByAdmin`. The invariant alone
  is not inductive: a failed admin handshake may hand its row back to
  traffic (`release_to_traffic`), which would break it. `GatedInv` adds that on
  a gated side auto-accept stays off and no exchange has that policy: it is
  chosen only where the admin takes over a row of traffic, and a gated side has
  none.
* `PeeringProofs!RefusedMailCorrect`: `Spec => []RefusedHoldNoMail`. Inductive
  together with `TypeOK`: one lemma per way a row is built or moved shows that a
  move to a status without mail purges it in the same step.
* `PeeringProofs!NeverRekeyedCorrect`: the action property, from one lemma
  per way a row is written (`StepRows`): only settling our own verified exchange
  changes an established row's secret.
* `PeeringProofs!SharedSecretCorrect`: `Spec => []ActiveOnSharedSecret`.
  `SecretInv` adds what makes it inductive: the secret of every request in
  transit was held by its sender, and a `verified` probe says that the remote
  held the secret it was asked about. `held` only grows.
* `PeeringProofs!OnlyBackstopLiftsCorrect`: the action property, again from one
  lemma per way a row is written (`RefusalStep`): every handler looks at the row
  it is about to move, after its last await, and spares a row our admin refused.
  `resolveStaleParkedPeers` compares the secret only, and is the one exception.
* `PeeringProofs!BaselineCorrect`: `Spec => []BaselineKnown`. The property is far
  from inductive: a reinstallation leaves a row with the old instance's id, and
  what saves the property is that the new instance never gets at that row's secret.
  `Reaches` lists where a secret may come from (row, exchange, request in
  transit, queued request, denial); `StaleInv` says that the secret of an outdated
  row is none of those at the other side, `FreshInv` that a new secret is new,
  `EpochsInv` and `LiveInv` that whatever is in flight carries the id of now and
  answers an exchange that still waits.
* `PeeringProofs!OneSecretCorrect`: `Spec => []OneSecretSurvives`, for any number of
  reinstallations. `SurvivalInv` says, for each point at which the one mishap may
  strike, where both exchanges stand. No secret is both sides' own (`OwnersInv`). A
  side whose exchange runs still waits on that row, except that the higher one may
  have taken the other's handshake meanwhile (`InFlightInv`); a verified secret stays
  the other side's (`VerifiedInv`, `ParkedInv`); whoever took a handshake is still
  awaited, or the fault is spent (`TakenInv`); two sides are active on different
  secrets only while the higher one has yet to settle the check that ends it
  (`SplitInv`), and a request on another secret is under way only where something
  was lost (`LateLowerInv`, `LateHigherInv`). Rather than to each of the thirty
  actions, the steps are put down to a few kinds (`Kinds`: a row opens, a request is
  accepted, an exchange fails, ...) by one set of lemmas, and each part of the
  invariant is shown for the kinds.
* `DmDeliveryProofs!DeliveryImplementsReplica`: without downloads `Spec` implements
  `Replica`'s. The invariant `DeliveryInv` is a conjunction of named parts: every
  row of the queue (`QueueInv`), of the log (`LogInv`), every request
  (`NetInv`), page (`PullInv`), kept event (`KeptInv`) and the copy (`CopyInv`) carries a
  version the message has had, a delete only once the message is deleted, and a
  recorded tombstone excludes a copy.
* `DmDeliveryProofs!TombstoneCorrect`: without downloads `Spec => []TombstoneFinal`,
  from the same invariant. `delivery_hydrate` shows the hypothesis is needed.
* `DmDeliveryProofs!DeliveryTypeCorrect`: `Spec => []TypeOK`, with downloads too.
* `DmDeliveryProofs!CancelCorrect`: `Spec => []CancelledNeverHeld`, with
  downloads too. `CancelInv` says that a create not yet offered is alone in its
  queue, that the copy is not held, and that nothing is under way that could make
  the peer hold the message: no request, page or kept event carries it (`Silent`,
  `Unsaid`).
* `DmDeliveryProofs!DrainedCorrect`: without downloads `Spec =>
  []DrainedAgrees`. `AnswerInv` says that what an answer reports stays true until its
  row is settled; `ContentInv`, that a row of the queue carries whatever the copy
  lacks. The create may carry the newest text, and the copy then show it as never
  edited: `Unedited` says that in this case no older text is anywhere, so that
  nothing can overwrite it. Image downloads falsify it and `PulledAgrees`, as they do
  `TombstoneFinal`.
* `DmDeliveryProofs!PulledCorrect`: without downloads `Spec =>
  []PulledAgrees`. `CatchInv` adds that what the cursor and the page have passed
  shows in the copy or is kept (`CaughtInv`), and that kept events stand in the
  order of the log (`OrderInv`).
* `FriendPairProofs!ConsentCorrect` (and `PairTypeCorrect`): `PairSpec =>
  []FriendsConsent`. `ConsentInv` adds that an own pending request has its user's
  consent, and that an add waiting for its downloads has it or is stale by now: it
  is the second look at the clock in `FinishFriendAdd` that makes the invariant
  inductive. `TimeInv` keeps events and clocks behind the time. The
  proof also settled what consent must mean: a withdrawn request or an ended
  friendship takes it back only if no other request is open, which the first
  wording missed and which takes six changes to show, more than TLC can search.
* `FriendPairProofs!OrderlyPairCorrect`: `PairSpec => []OrderlyPairAgrees`.
  `OrderlyInv` follows a friendship whose users take turns. The side that spoke last
  has what it said in its rows (`LeadInv`); the other one has that or is yet to be
  told (`ToldInv`); whatever formed a friendship that was ended since is older
  than a removal, and nothing gets ahead of a removal still to be taken
  (`RemovalInv`); all of it is in the log, in order (`LogInv`). Events that come
  late meet a newer clock and do nothing.
* `DmCallProofs!SeatsCorrect`, `SomebodyCorrect` (and `CallTypeCorrect`): `CallSpec =>
  []SeatsAgree` for any number of calls. Relays name the conversation and not the
  call, so the invariant has to say which call each is about: relays to the other
  instance stand in the order of their calls (`OrderInv`), a call that is over has
  its end on the way to whoever knows of it (`EndInv`), and a member is in the
  call at the other instance if and only if the host will seat it once the relays
  under way have arrived (`WillSit` in `SeatInv`).
* `GroupMemberProofs!SoleOwnerCorrect`: `GroupSpec => []SoleOwner`. Ownership is a
  token (`TokenInv`): one instance has its own user for the owner, or exactly one
  transfer not yet marked at its target is on its way, and names the real owner. That a
  transfer writes a system message, which stops it from being applied twice, is
  what keeps an old one from making a second token.
* `GroupMemberProofs!MembersCorrect` (and `GroupTypeCorrect`): `GroupSpec =>
  []MembersAgree`, for any number of instances. `MemberInv` says that a copy shows what the
  event at its clock says (`Shows`) and that, while the first owner stays, the clock
  has caught up with everything the copy is done with (`CaughtUp`). `BaseInv` is
  what both theorems of the group share.
* `SecretRotationProofs!RotationCorrect` (and `RotationTypeCorrect`): `RotationSpec =>
  []RefusedForATick` for any ratio of grace period and tick interval and any threshold.
  `TogetherInv` lists the points a rotation passes (`Level`, `Ahead`, `Answering`), and the
  theorem looks at each from either side; `ClockInv`, that a pending secret meets a tick
  within an interval after its grace period, bounds the elapsed time.
* `ResetHealProofs!SnapshotCorrect`, `HealCompleteCorrect`, `HealSparesCorrect` (and
  `ResetTypeCorrect`), for any number of wipes, restores and crashes. `ResetInv` adds
  that nobody free of the flag is of an incarnation seen replaced (`NoticedInv`), that a
  journal for the running incarnation was left by a backup (`JournalInv`), and who could
  have been flagged too early (`EarlyInv`).
* `FileQueueProofs!NamedFileCorrect` (and `FileTypeCorrect`): `FileSpec => []NamedFileThere`.
  `WorkInv` says that the worker's file is its own and there, unless swept. The
  invariant counts the files, so that a fresh name always exists.

Every safety property of a passing run is proved. Liveness (`Converges`,
`MailLeadsToPeering`, `LostAnswerCompletes`, `ParkedCompletes`, `ResetEndsParking`,
`RotationEnds`, `IdleEntryGoes`, `DesertedCallEnds`, `DownloadEnds`) stays with TLC:
TLAPS has no support for the fairness and `ENABLED` reasoning it needs.

## 5. Not modelled

* Reactions, read states, closed flags, a group's name and icon: registers, each
  ordered by a time of its own, without effect on one another. A model of one
  would restate one comparison.
* Conversation identity (`dmConversation.ts`): both sides compute the same id from the
  two users; when rows have drifted (a re-attached account, a row made while relay was
  off) they are re-keyed or merged in one transaction. It enters `DmDelivery` as `ready`.
* Presence: the latest value, sent to whoever listens and again on activation, never
  logged; it promises nothing stronger.
* `federationRollback.ts`: it takes a friend request back whose recipient the peer does not
  have. The two users of `FriendPair` exist throughout.
* Of the reset: stubs of a dead incarnation that a third instance brings late,
  re-attaching a detached account. Recovery that finds the old instance id again
  never heals, which the model shares.
* Spaces, channels, permissions, accounts, sessions, invites, search, uploads: one
  request at a time in one process and one synchronous transaction per request;
  a model would restate the queries.
* Voice and screen share: tokens for an external media server.
* The web and desktop clients: user interface, with the server as authority.
* Two edits within one millisecond, clock skew between instances, and several pages
  per answer to a pull: the models number changes, and serve one page per answer.

What would come next: `DmDelivery` with several pages per answer, to state the
offering rule for a create written while a pull is being served.
