# Daemonseed: TLA+ models and proofs

Daemonseed is a peer-to-peer program (chat rooms, circles, file shares and direct
messages) over the Veilid network. This directory holds TLA+ specifications of
its core logic, the TLC configurations that check them on small instances, and
theorems checked by TLAPS. The code is the reference: every definition is
translated from the Rust source, and `PROJECT.json` names the lines of each.

It covers **direct messages** (two parties who are rarely online together exchange
messages through records anyone may store and lose, with keys that ratchet, over
crashes), the **write scheduler** every record write passes through, the
**share routes** a consumer imports and releases with the **budget** that limits the
calls over them, and the **self-heal** of dead record sessions.

## 1. Inventory

| Part | State it keeps | Operations | What is hard | What makes it correct |
|---|---|---|---|---|
| **Key schedule** (`dm/chain.rs`) | per conversation a sending `Direction` (root, chain, turn, peer key seen, force flag) and a reading `Receiving` (root, chain, next sequence, two own secrets, peer's latest turn) | `initiate`, `accept`, `seal`, `open`, `reset_all`, snapshot/restore | turns cross; a secret is dropped while a turn encapsulated to it is in flight; only the next sequence is ever opened, so one failure stalls a direction | every message opens, keys are used once, both sides derive the same root |
| **Channel ring** (`dm/channel.rs`) | `Ring`: `send_seq`, `peer_collected`; 63 slots and a control subkey per direction | `reserve`, `advance_peer_collected`, `slot_for`, `collected`, sealing | wrap-around; cursors out of order | a slot is reused only after its message was recorded |
| **Store** (`dm/store.rs`) | conversation record, outbox table, hello, advert keys, contacts, blocks | critical sections `try_update_conv`, `persist_outbox`, `delete_outbox_through`, `delete_conv`, `load` | several sections make one flow; a crash between any two | what is owed is kept, what is not committed is never used |
| **Flows** (`dm/flows.rs`) | what a flow loaded | `commit_message`, `collect_step`, `publish_cursor`, `hello`, `accept`, `reset` | the record changes between load and commit | exactly-once, in-order recording |
| **Push** (`dm/push.rs`, `runner/push_hooks.rs`) | routes and reach serials | `take_message`, `republish_controls` | late and repeated pushes race the ring read | as above |
| **Live lane** (`runner/live_lane.rs`) | the send being made, notes to the runner | commit sends, take pushes and watched changes, mark deletes | runs beside the runner on one store | as above |
| **Runner** (`dm/runner.rs`) | schedules: repairs, owed publications, unwritten sends, delivered cursors | write, repair, collect, publish, report, delete, startup | makes network calls from state loaded before them | everything committed arrives; a delete finishes; an erased channel stays erased |
| **First contact** (`dm/advert.rs`, `dm/drop.rs`, flows) | adverts, drop slots, requests | hello, scan, accept, recognise, rotate | crossing first contacts; accept resumed half-way | one conversation per pair, resumable |
| **Durable store** (`storage/dm_store.rs`, `atomic_file.rs`) | files, write-ahead delete marks | replace, delete, complete a delete | power loss between two files | a record is old or new, never torn |
| **Write scheduler** (`veilid-net/schedule.rs`, `dht_gate.rs`) | per-record queues, lanes, permits | enqueue (coalesce, dominate), dispatch, done, shutdown | reordering across records, starvation, withdrawals overtaken | per-record order; no resurrection; no starvation |
| **Concurrency windows** (`route_budget.rs`, `aimd.rs`) | per-route window, pool, learned ceilings, sleeping fragments | lease, acquire, release, observe, drop | a notify falls between a check and its sleep; a fetch is dropped under its calls; accounts go while permits are out | every slot comes back; no lost wakeup; a lethal width is remembered |
| **Share routes and catalog** (`route_guard.rs`, `browse_retry.rs`, `share_catalog.rs`, the actors' `apply_discovery`) | catalog entry, discovered route with a generation, parked retry, guard entry | advert, withdrawal, expiry, preview, download, fold of an outcome, release | outcomes overtaken by newer adverts; a release races a preview | no route is released under a preview or forgotten; a preview's late outcome leaves the newer advert's mark |
| **Session self-heal** (`session_health.rs`, `resweep.rs`, the actors' loops) | failure streaks, repair queue, refresh arms, busy flag, runs of failed passes | fold a pass, tick, refresh, repair, connect, reset | two channels deliver in any order; queue, latch and flag change in different arms | one repair at a time, earned, never forgotten; only current results are shown |
| **Presence** (`presence.rs`, `heartbeat.rs`) | tracked members, reap gate | apply, reap, observe weather | stale beacons, clock skew | a live member is not reaped in bad weather |
| **Downloads and shares** (`download.rs`, `fetched.rs`, `share_*.rs`) | staging bitmaps, chunks | place, fetch, verify, promote, resume | crash mid-file, disposition on failure | a promoted file is complete and verified |
| **Actor, rendezvous** (`actor.rs`, `rendezvous.rs`) | record handles, ring subkeys | command loop over Veilid | I/O | slot assignment is never concurrent for one record |
| **Rooms, circles, trust log, identity, releases, federation** | keys, logs, version floors | derive, sign, verify, append | mostly pure | codecs and signatures: outside TLC's reach |
| **Front ends** (GUI, TUI, CLI) | views | render, fold events | presentation | only what their actors decide: share routes, self-heal |

Interactions. A front end sends commands to the live lane. The lane calls the
flows and the push layer, and hands notes to the runner through a channel. Lane
and runner share the store, whose critical sections (one lock per
correspondence) are the only atomic steps; the runner alone calls the record
store, one call at a time. Records reach the network through the write
scheduler and the DHT permits. The correspondent's runner reads the same
records; pushes go straight to its lane.

Secrecy claims of the design documents (what an adversary learns) are not a
subject of this project.

## 2. Plan

Done, most important behaviour first:

1. `DmKeySchedule`: whether what is sealed can be opened.
2. `DmDelivery` with `DmLink`: whether what is committed arrives, and the
   abstract link it implements; its proofs.
3. `DmFirstContact`: how a conversation comes to be. Its outcome is the state
   `DmDelivery` starts from; its proofs.
4. `WriteScheduler`: lanes, per-record queues, withdrawals, starvation, shutdown;
   its proofs.
5. `ShareRoutes`: one share at a consumer.
6. `SessionRepair` and `RoomReach`: when a dead session is repaired, and what is
   shown of it; their proofs.
7. `RouteBudget`: admission, wakeups and widths of the calls over one sharer's
   routes; its proofs.

Left:

8. `DmConversation`: key schedule and delivery composed, so that a refused commit
   discards a seal and an open is made again on the stored record.
9. `DmStore`: the durable store below the critical sections (a delete that stops
   between the two records it removes, `store.rs:992`).
10. `Presence` (`presence.rs`), `Download` (`download.rs`, `fetched.rs`), and the
    window of the unbudgeted fetch (`aimd.rs`).

## 3. Modules

| Module | Models | Source |
|---|---|---|
| `DmKeySchedule` | two `Conversation`s of one correspondence | `dm/chain.rs` |
| `DmLink` | abstract: an in-order, windowed, acknowledged link both ways | – |
| `DmDelivery` | lane, runner, store and records of both parties | `dm/{channel,store,flows,push}.rs`, `veilid-net/dm/**` |
| `DmFirstContact` | opening, accepting, recognising, resuming | `dm/{advert,drop,flows}.rs`, `veilid-net/dm/runner*` |
| `WriteScheduler` | the funnel of record writes | `veilid-net/{schedule,dht_gate}.rs` |
| `ShareRoutes` | one share at a consumer | `route_guard.rs`, `browse_retry.rs`, `share_catalog.rs`, TUI actor |
| `SessionRepair` | when a dead record session is repaired | `session_health.rs`, `resweep.rs`, GUI actor |
| `RoomReach` | what is shown of a room's reach | GUI actor |
| `RouteBudget` | the calls of downloads over routes | `veilid-net/{route_budget,share,download,actor}.rs` |
| `MC*` | instances for TLC: symmetry and the sets a `.cfg` cannot write | – |
| `DmDeliveryProofs` | proofs of `DmDelivery` (types, order, content, ends) and of its refinement to `DmLink` | – |
| `DmKeyScheduleProofs`, `DmFirstContactProofs`, `WriteSchedulerProofs`, `ShareRoutesProofs`, `SessionRepairProofs`, `RoomReachProofs`, `RouteBudgetProofs` | proofs of those modules | – |

`DmFirstContact` ends where `DmDelivery` starts; the two are checked apart, the first
with message 0 of each side, the second with the messages that follow. A
conversation's record writes go through `WriteScheduler`; `DmDelivery` takes a write
as one step that may fail, which is what the funnel answers its caller.
`SessionRepair` decides when a repair is dispatched, `RoomReach` what its result
changes: there a repair may be dispatched at any time, so the two compose. `ShareRoutes` says when
a route may be released, `RouteBudget` what is called over it while it is there.

Some modules hold operators marked *Mutant*: a plausible mistake in the definition
beside them, no part of the specification. Replacing that definition by it breaks
the property `PROJECT.json` names.

### DmKeySchedule

`snd[p]` is `p`'s `Direction` and `rcv[p]` its `Receiving`; `chain = None` is the
absent `Option`, `mSeen` the number of the stored peer key, `own` the retained
own turns, newest first. Keys are symbolic: a root is the sequence of turns mixed
into it, a message key a root and a number of chain steps, so two keys are equal
exactly when their derivations are. `Seal` is `Conversation::seal` with the
`Direction::seal` it calls and the `retain` that follows a minted turn; `Open` is
`Receiving::open`; `Reset` is `reset_all`'s flag in this conversation. `Opens` states
the three ways an open fails: `SecretGone`, `NoTurn`, and the authenticated
decryption under another key. Snapshot and restore copy every field and are the
identity here. `sent` holds the messages committed, in order; a message is
opened only at the next sequence, as in the code. Only a *committed* seal is a
step: a seal whose commit is refused is discarded with the state it advanced.

### DmDelivery

The correspondence between variables and code:

| Variable | Code |
|---|---|
| `sendSeq`, `peerCol`, `myCol`, `curPub`, `life` | `ConvState::{send_seq, peer_collected, my_collected, cursor_published, delete_pending}` and the record's existence |
| `outbox` | the outbox table, one entry per ring position |
| `ring`, `ctl` | the channel record on the network: message slots, and the cursor in the control subkey |
| `copy`, `ctlCopy` | what this node's own copy of the record holds; `behind` compares the numbers of the two |
| `lane` | a send between `commit_message`'s store sections, or a taken push between record and deletion |
| `run` | the runner's flow call in progress, with what it loaded |
| `notes`, `unwritten`, `delivered` | `LaneNote::Committed` queue, `Runner::unwritten`, `Runner::delivered` |
| `log`, `recv`, `out`, `pub`, `written`, `told`, `faults` | history for the properties |

Every store critical section is one action, and so is every record-store call, so
a send is `SendLoad`, `SendPersist`, `SendCommit`; a collection `CollectRead`,
`CollectCommit`, `CollectTrim`; a publication `PublishLoad`, `PublishWrite`,
`PublishRecord`; a repair `RepairLoad`, `RepairControl`, one `RepairEntry` for each
entry it loaded, `RepairEnd`; a delete `MarkDelete`, `CloseControl`, `EraseChannel`,
`DropRecords`. The erase is local, as `records.rs` says: it ends this node's copy, and
`ring` and `ctl` stay readable until `Fade` lets the storage nodes drop them, at any
time or never. Between two actions the other task, the other party, the network
or a crash may act. What a flow loaded is kept in `lane` or `run` and goes stale.
Between two flow calls the runner holds nothing of the conversation, so the order
in which its loop makes them is left open, which covers every order of `run_due`.

A sealed message is its sequence, the cursor its header carries and a mark
`att` that tells apart two seals at one sequence (a seal after a refused commit
has other bytes under the same number). Pushes are reads of `out`, the set of
everything that ever left a party: they may be lost, late or repeated.

Faults: `crash` (all volatile state lost, the launch runs `rewrite_evicted` first),
`evict` and `evictControl` (storage nodes drop a subkey or fall back to an older
value of it), `writeFails` (a record-store write or erase is refused),
`trimRefused` (the store refuses the deletion that follows a commit).

Simplifications: the conversation is established at the start; every message at the
expected sequence opens (`DmKeySchedule`); `commit_send`'s bounded retries of a
conflict are separate attempts; a store write other than the deletion is not
refused; a network read that fails is a read not made; routes, reach serials and
blocks are absent.

### DmLink

Two variables per direction, what was accepted and what arrived, and the
acknowledged count. `DmDelivery` implements it with `sent <- log`, `got <- recv`,
`acked <- peerCol`. `Receive` may carry an acknowledgement because a header
carries a cursor.

### DmFirstContact

`conv[p]` is the conversation record as far as first contact writes it: `gen` names
the channel it owns, `incoming` the correspondent's, `half` which half of the key
schedule `chain.rs` gave it (`initiate` or `accept`), `awaiting` the outstanding first
contact, `pending` an acceptance begun and not finished, `opening` the secret and the
advert serial its own opening was encapsulated with, `hello` the hello it keeps in the
correspondent's drop. A *secret* stands for one encapsulation's shared secret, drawn
once; a hello is named by the secret it carries. `advert[p]` is the current advert key
with the retained one before it. A request keeps the generation the correspondent's
control subkey named (`own`), which is the one an acceptance writes its own channel under:
0 where that subkey was already closed. `begun[p][g]` counts the conversations `p` has
begun in its channel `g`; no guard reads it.

Each flow of `flows.rs` is split at its store sections and its record-store batches:
`FirstContact`, `WriteChannel`, `PlaceLoad`, `PlacePersist`, `WriteHello` for the opening;
`Collect`, `AcceptOpening`, `Recognise`, `EraseRecognised` for the drop; `Accept` …
`FinishAccept` for the acceptance; `ContinueFirstContact`, `RefreshFirstContact`,
`ResumeFirstContact`, `ContinueAcceptance`, `SettleHello` for what the repair poll
resumes; `TakePush`, `CommitPush` in the lane. `MarkDelete`, `CloseControl` (the closed
marker, which keeps the opening and names generation 0; a retried delete writes none),
`EraseChannel` and `DropRecord` are `teardown`. Its erase takes this node's copy only
(`records.rs:578-584`): the control subkey, the ring and the hello stay readable on the
network, until `Fade` drops a subkey that no record of its writer keeps up, or `LoseHello`
a hello. `Stop` is a crash with its relaunch. The proof of work, the choice of a drop slot
and the block list are left out.

### WriteScheduler

`pending` is all records' queues in one sequence, in the order of the writes'
sequence numbers. `flying[r]` is the entry of `in_flight`, with the stage of its task;
`windowCount`, `floorCount` are the lane counters; `driver` says where the driver task
is (`dispatch` is `try_dispatch`'s loop, `arm` the arming of the timer, `select` the
`select!`, `drain`/`flush`/`closed` the shutdown). Time is kept as far as the code
compares it: `since` orders the starvation clocks, `level` counts the age bounds
passed, `clock` the hard deadlines passed. `SubmitRing`, `SubmitTombstone` and
`SubmitCurrent` are the three arms of `enqueue`; `DispatchFloor`, `DispatchChat`,
`DispatchWindow` and `DispatchEnd` one turn of the loop; `Acquire`, `Finish` and `OnDone`
a write task's permit, its end in any way (a panic included) and its completion;
`Shutdown`, `Drain`, `DrainEnd`, `BudgetSpent` the flush. A submission or a dispatch that takes
writes out of the queues leaves the `Kept` ones in their order; `Others` are the positions
that do not name an id. `gone`, `informed` and
`vouches` are history.

### ShareRoutes

Shares are keyed apart in every map, so one stands for all. The guard's methods are
operators that say what becomes of its entry, which routes are freed and which are
learnt (`NoteFetchStarted`, `NoteFetchFinished`, `NoteAdvertReplaced`,
`NoteShareWithdrawn`); `ReadAdvert` and `ReadWithdraw` are `apply_discovery` with the
catalog's answer (`Refreshes`: a newer announcement, or one of the same time whose metadata,
kept by number, differ), `Prune` the expiry timer, `SpawnFetchShare`, `SpawnConfirmFetch`,
`ImportRoute`, `EndTask`, `FoldFetchOutcome`, `FoldConfirmOutcome` a preview or a
download from its start to the fold of its outcome, `ProcessParked` the retry tick,
`ReleaseRoute` the release task. Outcomes travel in one channel per kind (`done`).

### SessionRepair and RoomReach

`SessionRepair`: `tracker[r]` is the record's entry in `session_health`, `queue` is
`pending_repairs`, `armed` `refresh_armed`, `busy` the flag `resweep_busy` that the loop
sets and the spawned `tasks` clear, `passes` the finished passes on their way. `Fold` is
the loop's arm for a finished pass with everything it calls, `Tick` the re-sweep timer
(`DrainRepair` or `ResweepNext`), `RefreshShares` the manual refresh, `TaskReads` and
`TaskEnds` the spawned work, `BacklogSweep` the sweeps outside `resweep_busy`;
`Connect`, `HandOff`, `Shutdown` the node's life. The streak saturates at `K * Cap`, past
which no threshold tells more.

`RoomReach`: `FailedPasses` with its generations, and the results of repairs, which
come through a channel of their own. `overtaken` is history: whether a later pass of
the record or a reset was folded since the repair was dispatched.

### RouteBudget

`account[r]` is `BudgetState::routes`, `None` where no download has the route leased;
`learned` is `ceilings`, `pool` `global_in_flight`. `frag[d][i].at` says where the future of
fragment `i` of download `d` is: `wait`, `call` and `backoff` are its awaits, `refused`,
`freed`, `answered`, `observed` and `dropped` lie inside one poll, between an unlock and what
follows it. Each critical section of the budget's lock is one action (`Admit`, `Refuse`,
`CallEnds`, `Observe`, `ObserveFailed`, `Lease`, `DropLease`, the permit's drop in `DropFragment`),
and each `notify_waiters`, which comes after the unlock, one more (`PermitNotifies`,
`ObserveNotifies`, `DropNotifies`, `FetchFails`), so another download may act in between.
`AtRest` is the single thread of a download: no other future of it is polled meanwhile.
`enable()` is called before the check, so `Woken` reaches a future from `refused` on, before
it sleeps.

`Completed` and `Collapse` are `RouteWindow::observe` with the three-of-five valve and the
flag that lets only the first failure of a death teach a ceiling. A fragment is `due` until
`buffered(W_CEIL)` has room for its future: `Refill` starts it in the poll in which the
fragment `Ceil` before it, and all those before that, are done, for results are yielded
in order and one not yet yielded keeps its place. `TakeFailure` is the same order of
a failure: it is taken when all fragments before it were.
`Cancel` is whatever else ends a running fetch (an integrity failure, the size cap, a
panic, another chunk's failure). Latency is the free choice `slow`. `kills` is history,
`known` what of it an account was opened under; `abandoned` counts calls the actor still
has out whose permit is gone.

## 4. Runs

All with TLC, each within four minutes. Deadlock checking is off: the models
bound the number of messages, writes, adverts or passes, and a system in which
everything asked for was done rightly stops (a closed scheduler stops for good).

| Run | Bounds | Checks |
|---|---|---|
| `KeySchedule_reset` | 5 messages each way, at most one reset | `EveryMessageOpens`, `NoKeyReuse`, `CaughtUpAgrees`, `TurnsAlternate` |
| `KeySchedule_crossing` | 4 each way, a reset by each | `EveryMessageOpens` **violated** |
| `Delivery_faults` | ring 2, two sends by a side that deletes, one fault of any kind | `TypeOK`, `CursorOrder`, `OutstandingKept`, `OnlyCommittedLeaves`, `RecordedIsCommitted`, `ErasedStaysErased`, `ImplementsLink`, `DeleteFinishes` |
| `Delivery_fair` | ring 2, two sends; crash, lost slot or failed write | `SentIsWritten`, `ImplementsFairLink`, `EventuallyDelivered`, `StaleEntriesGo`, `EverySendAnswered` |
| `FirstContact` | two first contacts of one party, with any two of: a delete by either side, a rotation, a relaunch, a lost hello, a faded channel | `HalvesAgree`, `HelloLeadsToChannel`, `PublishedIsRecorded`, `WithdrawnIsRecognised`, `AcceptanceArrives` |
| `WriteScheduler_lanes` | two records, one id, four shapes of write, two queued, one slot per lane | `LanesAccounted`, `RestsWithReason`, `NoResurrection`, `PromiseKept` |
| `WriteScheduler_fair` | three records refreshed for ever over one slot | `HeadLeaves` |
| `ShareRoutes_mixed` | two tasks, five adverts, three generations | `GoneIsForgotten`, `NotReleasedUnderPreview`, `NothingForgotten`, `ResolvedStays` |
| `SessionRepair_fair` | two records, thresholds 2, changing weather, drops, manual refreshes, one pass waiting | `LatchedIsQueued`, `RepairIsEarned`, `DeadIsRepaired` |
| `RoomReach_late` | two records, threshold 2, four generations, two late results | `OvertakenIsSilent`, `CurrentIsShown`, `UnreachableIsEarned` |
| `RouteBudget_shared` | two downloads of four and of two fragments, two routes of one sharer, widths 1 to 2, pool 3, one retry | `SlotsAccounted`, `NoSleeperMissed`, `DeathRemembered` |
| `RouteBudget_calls` | one download, one route, the width of 2 that ships, two fetches | `CallsWithinWindow` **violated** |

Why the bounds are enough.

- *Delivery.* A ring of two wraps on the second send (sequence 0 is the first contact),
  so both slots are reused with neighbouring sequences outstanding together. One fault
  at any point is combined with every interleaving of the two tasks of both parties.
  The runs send in one direction; the two directions are coupled only through the
  cursor a message carries, and the proofs, which bound nothing, cover both.
- *Key schedule.* Five messages a side hold at least two full rounds of turns, so
  every retained secret is replaced and dropped.
- *First contact.* Two openings let a stale hello of the first meet the second; one
  rotation and its pruning make a key current, retained and gone in turn; a relaunch
  falls between every two steps. Both sides delete, so an acceptor may accept one hello
  twice, from what the network still holds of a deleted channel; two troubles combine a
  delete with each of the others, and with a second delete.
- *Write scheduler.* `MaxPending` bounds queued writes: two suffice for a refresh and its
  withdrawal, or a chat write and the one that supersedes it, over a record in flight;
  two records contend for the single window, floor and chat slot. The four shapes take
  every class the code treats differently. Three records in the fair run make one wait
  while two alternate.
- *Share routes.* Two tasks overlap; five adverts hold a rotation, a metadata change at the
  same time, a withdrawal and a return; three generations let an outcome be two adverts late.
- *Session repair.* Two records share the cursor, the flag and the queue; `K = 2` tells one
  failure from a threshold, `Cap = 2` one back-off from its cap. A finished pass may wait
  while the loop does everything else. Passes that end in errors and late joins are
  left to the proofs, which cover them.
- *Route budget.* The pool of 3 is smaller than the two windows of 2, so a fragment may
  sleep for want of the route, of the pool, or of both, and be woken by the other
  download's release. Width 2 is one death above the floor and one widening below the
  ceiling; the valve is 1 of 1, so every slow answer is a breach that halves. The stream
  holds two futures, so the last of four fragments starts, and asks, in the middle of
  the others' calls and wakeups. Two downloads
  are on one route (one account, two leases) or on two (two accounts, one ceiling). The
  proofs bound nothing.
- *Room reach.* Four generations are two passes and two resets, or any mix; two results
  wait at once.

### What the violated runs show

1. **Crossing resets** (`KeySchedule_crossing`). One reset on each side is enough
   for a message in flight to name a secret its reader no longer holds.
   `direct-messaging.md:86` says crossing turns both open; its caveat (line 97)
   names only two forced turns on one side.
2. **A slot returned under its call** (`RouteBudget_calls`). The actor spawns each call and
   nothing stops it when the caller goes away (`actor.rs:1577`), while the permit is dropped
   with the fetch, which ends at its first failure (`share.rs:643`). The next fetch is
   admitted beside calls that are still out, and the route carries more than its
   window, which `route_budget.rs` says it caps as "the exact physical quantity".

### Divergences noted, without a run of their own

Read in the code while modelling; the models follow the code in each case.

- *Launch.* The document says a launch rewrites any outstanding slot that differs from the
  outbox; `rewrite_evicted` (`runner.rs:3966`) compares bytes only at the correspondent's
  cursor and record numbers elsewhere. Nothing is lost by it: `EventuallyDelivered`
  holds with crashes.
- *Stale outbox.* After a crash between the commit that moves the cursor and the deletion
  it calls for, the relaunched runner takes the cursor as reported and never deletes
  (`runner.rs:5316`); `StaleEntriesGo` excepts crashes.
- *Sent.* After a failed first write of a wrapped slot, the numbers agree on the *old*
  message, so the repair counts the new one as held and reports Sent
  (`runner.rs:3973`); `SentIsWritten` excepts failed writes.
- *First contact.* Crossing first contacts leave both sides with the initiator's half
  (`flows.rs:1167`; `direct-messaging.md:119`); the proof of `HalvesAgree` takes both
  sides' first contacts, the run one side's. An acceptor
  that deletes and accepts the same still-written hello again reuses the generation with
  a new secret, which the initiator erases as already collected (`:137`): the initiator
  then holds the secret of the opening the acceptor had before. The run finds this when
  `HalvesAgree` is stated without its exception, `begun[Peer(p)][b.gen] = 1`. A stale hello back of a deleted conversation is taken as acceptance of
  the next first contact (`:144`). A refresh racing a pushed acceptance puts
  `outstanding_hello` back on an established conversation (`flows.rs:681`), until
  `settle_hello` clears it.
- *An acceptance whose key is gone.* An initiator's hello is encapsulated afresh to a
  rotated advert key, an acceptor's hello back never is. Once the initiator has rotated
  and pruned the key it names, nothing opens it, and the initiator's own hello,
  rewritten for ever, is erased as already collected. `direct-messaging.md:135` says the
  protocol never gives up. `AcceptanceArrives` says so in its wording.
- *Write scheduler.* A shutdown sheds a queued join, a class the module's comment lists
  as delivered (`schedule.rs:904` against `:52`).
- *Share routes.* A download is not counted by the route guard, so a rotation may release
  the route it streams over (TUI `veilid_net.rs:3198`, `:2867` against `route_guard.rs:33`); a
  late download failure marks a share unresolved that a newer advert refreshed
  (`:3911`); expiry leaves the route, the retry and the guard entry (`:805`); re-adding a
  withdrawn share may overwrite its held route (`route_guard.rs:128`); an older
  announcement rotates the route back (`:4580`). `NotReleasedUnderPreview` claims nothing of
  downloads, though `route_guard.rs:11` does; `ResolvedStays` asks of a preview's failure
  that no newer advert has come, and of a download's only that it is a failure;
  `GoneIsForgotten` begins where an advert takes the route away, not where the share ages
  out; `NothingForgotten` excepts the overwritten route, and a second supersede during one
  preview, by name.
- *Self-heal.* A manual refresh may repair a healthy record after one lost pass (GUI
  `veilid_net.rs:1294`), and a queued repair is dispatched in elevated weather (`:1295`);
  `RepairIsEarned` excepts records the user has refreshed.
- *Route budget.* A clean answer of a call already out when its route died widens the
  window and clears `collapsed`, so a later failure of the same death halves the ceiling
  again (`route_budget.rs:216`; the comment at `:172` wants once per death). A death lowers
  the ceiling of the account it hit and of accounts opened later; other live routes of
  the same sharer keep theirs (`:409`; "one ceiling" at `:234`). `DeathRemembered` says so
  in its wording.

### Fairness

`DmDelivery`: weak fairness of `Lane(p)`, the continuation of what the lane has
begun, and of `Runner(p)`. Both are loops that do not stop while the process
runs: a flow call runs to its end, and `run_due` serves notes, publishes owed
cursors, collects, repairs and reports on schedules that come round. The fairness
is on the disjunction of the runner's steps, not on each, so it claims only that
the runner does *something* it has to do. Sending, pushes, heard cursors, deletes,
route republications and faults are owed by nobody. `CatchUp` is offered only when
the control subkey holds news, so that polling does not hide starvation. A lost
control (`evictControl`) is not among the faults of `Delivery_fair`: nothing in the
code owes its repair on a side with nothing outstanding. Nor is `trimRefused`: a
deletion the store refused is not tried again for the same cursor.

`DmFirstContact`: weak fairness of `Flow(p)`, a flow in progress; strong fairness of
`Owed(p)`, what the repair poll resumes, and of `Collect(p)`, the scan of the drop: between
flows the runner's two schedules take turns, so neither is put off for ever by the
other. Pushes, users and rotations are not fair.

`WriteScheduler`: weak fairness of `Driver`, a loop; strong fairness of each record's
`Task`, because a semaphore is first come first served and `tokio::select!` takes its
ready branches at random, so a completion is not put off for ever by submissions;
strong fairness of `Age`: time passes. Submissions are not fair.

`SessionRepair`: weak fairness of the loop's arms (`Fold`, `Tick`), of the spawned tasks
and of the hand-off. `DeadIsRepaired` assumes that the user stops pressing Refresh, which
puts repairs off for as long as it goes on; errors and late joins, which do so too, are off
in the run.

`DmKeySchedule`, `ShareRoutes`, `RoomReach` and `RouteBudget` state no fairness: what they
promise is safety. That a sleeper is woken is `NoSleeperMissed`, a wakeup always owed; whether
the call that owes it ever ends is the network's affair.

## 5. Proofs

TLAPS checks the theorems below for every value of the constants: any ring size,
any bounds, any choice of faults, sends in both directions, any number of records
or tasks. They assume the ASSUMEs their modules name and nothing else, except where
said. Each rests on an inductive invariant, one lemma per action, combined by PTL.

**`DmDelivery`** in five steps.

- *Types* (`TypeCorrect`). `TypeOK` is not inductive: `RecordMessage` records
  `run[p].msg`, which `TypeOK` lets be absent. `TaskType` adds that a task in the middle
  of writing, sealing or collecting holds a message (`TasksTyped`).
- *Order* (`CursorsOrdered`): `peerCol[p] <= myCol[q] <= sendSeq[p] <= peerCol[p] + RingSlots`,
  so a slot is never reused before its message was recorded. The property speaks of
  the records, while cursors and messages in flight bring old values into them.
  `OrderInv` adds `InFlight` (whatever exists anywhere of a party's carries no more than
  its record does), `LaneSound` (a sealed message is at or below the sequence its record
  stood at, so a commit, which requires that record unchanged, appends exactly the
  next) and `RunSound` (what the runner loaded is within the same bounds).
- *Content* (`ContentInvariant`). `OrderInv` bounds numbers; `ContentInv` says which
  message stands at each. An *entry* of a party is a committed message, or the next
  one to be: a send stores its bytes before it commits them, so after a refused commit
  the outbox holds a draft under a number that another message will take. `BoxSound`
  allows an entry in the outbox, while `NetSound` allows only committed messages in the
  ring and among all that ever left; `Keeps` says that what is outstanding
  is in the outbox as committed, `LaneContent` and `RunContent` that what the two tasks
  hold is an entry, or committed, as their place in the flow requires, `RecvSound` that
  what was recorded is a prefix of the log. `OrderInv` is what makes it inductive: an
  entry overwritten in its slot was collected, because at most a ring is outstanding.
  From it follow `CommittedKept` (`OutstandingKept`), `NothingElseLeaves`
  (`OnlyCommittedLeaves`) and `RecordedInOrder` (`RecordedIsCommitted`).
- *Refinement* (`ConversationIsLink`): `Spec => ImplementsLink`. Initial states map to the
  link's; `SendCommit` maps to `Link!Send`, the recording steps (`CollectCommit`,
  `TakePush`) to `Link!Receive`, the cursor steps to `Link!Learn`, and every other action,
  crashes and faults included, stutters.
- *Ends.* `ErasedForGood` (`ErasedStaysErased`) rests on `EraseInv`: from the erase of a
  marked conversation on, this node keeps no copy of its channel, its runner is past no
  load and its lane at rest, so nothing that was under way can write. What the storage
  nodes still hold stays readable, and the theorem says that no step of either task, a
  relaunch included, takes the conversation up again from it: it only grows older or
  goes. `SentMeansWritten`
  (`SentIsWritten`) rests on `SentInv`: while no write has failed nothing waits for a
  repair to be answered, and what was reported Sent was written or is already
  collected. `ContentInv` gives the second case, a slot trimmed before its note is served.

**`DmFirstContact`** (`ContactHolds`, then `HelloFindsChannel`, `CursorIsRecorded`,
`WithdrawnAfterRecognised`, `TwoHalvesOfOne`) from one invariant, whoever opens first
contacts and whoever deletes.

- `ContactInv` says of each party: its record is coherent (`RecordOk`: an acceptance not
  finished has read nothing, one settled was heard); a channel it has on the
  network that carries its present record's opening says no more than that record has
  read, and one left by a deleted record carries another opening (`ChannelOk`); what its runner and lane are in the middle of still fits the record
  they will meet (`RunOk`, over every pair of a flow step and a lane step between its
  sections); hellos it left of its present record carry an opening that is there (`DropOk`); numbers not
  drawn stand nowhere (`DrawnOk`); and an acceptor that was heard was heard by a record no
  longer awaiting (`HeardOk`). Each step acts at one party, so one lemma (`Composes`)
  carries the other party's half over, and three (`RecordStep`, `VolatileStep`,
  `NetworkStep`) the kinds of step. The first three properties follow at once.
- `HalvesAgree` rests on `MeetOk`, a part of it: of a channel a side has begun once, all
  that has reached the other (`Brought`: hellos, pushes, the request, the secret it
  recognised) carries the opening of the record that side holds, and of a channel not begun
  nothing has. An initiator begins each of its channels once. The delicate steps are
  the acceptance, whose channel may have been begun before, and its minting: the opening
  is persisted once, and before it nothing can have come from a record whose channel is
  begun for the first time. `TwoHalvesOfOne` therefore needs no assumption on who deletes;
  what it says nothing of is stated in the property, the secret of an acceptor that
  began the same channel again (see *First contact* under the divergences).

**`WriteScheduler`** (`SchedulerTyped`, `LanesStayAccounted`, `AlwaysRestsWithReason`,
`NothingResurrected`, `PromisesKept`), for any records, ids, shapes of write and bounds.

- *Queues.* The lemmas about `Kept`, `Others` and `Place` say that an operation on a record's
  queue yields a sequence of the writes it keeps, in their order, each once.
- *Lanes.* `LaneInv`: each counter is the number of records in flight in its lane, and
  while the driver serves its queues neither passes its bound. A dispatch adds one record
  to one lane and a completion takes one out, whichever way the task ended.
- *Rest.* A driver that left its loop left no chat head, and another head only
  with the window full. It rests on `LeastNat` (a nonempty set of naturals has a least
  element), since the loop stops where no oldest head can be picked.
- *Order.* `QueueInv`: a withdrawal leaves no refresh of its id beside it in the queue
  (`WithdrawalsDominate`), a refresh still to land after a withdrawal has landed was
  submitted knowing of it (`RefreshesInformed`), and a write that vouches for a
  superseded chat write has taken its class (`VouchersAreChat`), so that the flush
  of a shutdown, which keeps chat, keeps it.

**`SessionRepair`** (`OneInFlight`, `LatchesQueued`, `RepairsEarned`). `RepairInv` is `TypeOK`
with `BusyGuards` (one task at most, and none while the flag is clear),
`LatchedIsQueued`, `QueuedOnce` (`Unqueue` removes one entry, so the property needs that
there is no other) and `RepairTasks`. `RepairsEarned` adds `StreakEarned` (an entry counts no
more failures than happened since the last repair, or the user has refreshed the record).

**`RoomReach`** (`OvertakenSilent`, `CurrentShown`, `UnreachableEarned`). `ReachInv` is `TypeOK`
with `RepairsFaithful`, which says the code's comparison of generations agrees with the
history bit `overtaken` for everything in flight; `RunsCounted`; `ResultsKnown`.

**`ShareRoutes`** (`CountExact`, `GoneForgotten`, `ReleaseWaits`, `StaysResolved`, `NothingLost`).
`RoutesInv` is `TypeOK` with `CountIsExact`; `OutcomesOnce` (an outcome waits in the channel
only while its own task has not been folded, and there once, so folding it takes one
preview off the count); `DeferredWhileUsed` (routes wait in the guard only while a preview
is counted, so the last one's end hands all of them back); and `GoneIsLeaving` (once the share
is gone the guard keeps an entry only while withdrawn and a preview is counted). The count is then
that of the previews still to be folded whatever rotated, expired or was withdrawn in
between. `OutcomesOnce` also says that a preview ends in success or a failure, which is what
`StaysResolved` needs. The three action properties follow by splitting `Next` into the steps that touch
the guard, the releases or the marks.

**`DmKeySchedule`** (`CaughtUpAgrees`, `NoKeyReuse`, `TurnsAlternate`, and `EveryMessageOpens`
under one reset) from two inductive invariants over whole histories.

- `KeyInv` says how the two halves of a direction relate: `Chained` (each message
  continues from where the direction stood after the one before), `SenderInStep` and
  `ReaderInStep` (each half stands after the last message it sealed or opened) and
  `SeenWasRead` (a half has seen no turn its own side has not read). So both halves are
  one function of one history, read at two places, which is `SidesAgree`. `KeysAscend`
  and `KeysOwned` (keys ascend within a direction, and a root names the direction that
  advanced it) give `KeysUsedOnce`, although both directions grow from one seed.
- `TurnInv` counts tokens. A turn that is due, or sealed and unread, is a token; a
  conversation starts with one and a reset adds at most one (`TokensCounted`).
  `CrossingsCounted` bounds by the resets how many unread turns cross each other,
  `AnswersAscend` and `OwnRetained` say which own secrets a turn may name and which are
  still held. `TurnsTaken` is the case of no reset. `OneResetOpens` is the case of one, and
  its bound is sharp: the run `KeySchedule_crossing` refutes it for two.

**`RouteBudget`** (`SlotsAlways`, `NoSleeperAlways`, `DeathAlways`) from one invariant, `BudgetInv`.
Over `TypeOK` it has `Leased` (a fragment's future exists only in a fetch, a fetch only under
a lease, and the first fragment goes before the others), `RefsCounted` (an account exists
exactly while its route is leased, and counts its leases) and `SlotsAccounted`: an account
can then be dropped only when no permit of its route is out, so that it is never made
anew over permits still to come back. `NobodyMissed` widens `NoSleeperMissed` to a future
that was refused and does not sleep yet: the state in which a lost wakeup would begin.
`LearnedHalf` keeps a death where it outlives its account, in the sharer's learned
ceiling, and bounds every live ceiling by it. A fetch has any number of fragments, those
beyond the stream's room included: a future that starts asks afresh, so it never sleeps
over a notify that came before it.

Every safety property of a passing run is stated by a theorem. Only model-checked are the
liveness properties (`EventuallyDelivered`, `EverySendAnswered`, `DeleteFinishes`,
`StaleEntriesGo`, the fair refinement `ImplementsFairLink`, `AcceptanceArrives`, `HeadLeaves`,
`DeadIsRepaired`): liveness under fairness and `ENABLED` are outside what this prover does.
The two refuted properties have no theorem, of course. Induction theorems that take
a predicate as a parameter cannot be instantiated here; where a proof needs
induction over numbers for one predicate, as `LeastNat` does, it takes it from the
well-foundedness of strict inclusion among finite sets.

## 6. Not modelled, and why

`PROJECT.json` gives the reason for each component.

- Cryptographic primitives, key derivation, codecs, signatures and the pure parts of
  rooms, circles, the trust log, identity, releases and federation have one caller and
  no interleaving; their hazards are in bytes, which these models abstract.
- Front ends render what the actors report. The GUI and TUI actors' loops are modelled
  where they decide something (`SessionRepair`, `RoomReach`, `ShareRoutes`); the rest is I/O
  over Veilid.
- The durable store below the critical sections, the unbudgeted fetch's window, presence,
  downloads and rendezvous slots have state that interleaves and are in the plan of
  section 2, not yet in modules.
- In the modelled components: proof of work and drop-slot choice, block lists and the
  contact cache, routes and reach serials of pushes, and the wording of every event.
- Network adversaries. The models cover loss, delay, repetition and old values, which
  storage nodes produce by themselves, not forged records.
