# A verification of vea-validator in TLA+

vea-validator watches a Vea bridge from Arbitrum to Ethereum or Gnosis. For each
bridge (a *route*) one process reads the events of two contracts, keeps what it
learns in two JSON files, and sends transactions when they fall due: it
challenges claims whose state root is wrong, carries right ones through
verification, relays the message that settles a dispute, and withdraws the
deposit. This directory models a route and checks, for the parts modelled, that
it does so whatever other validators, the network and the machine do in between.

## 1. Inventory

| part | code | state | operations |
|---|---|---|---|
| task store | `tasks/mod.rs` | schedule file: `tasks`, the two cursors, `indexing_since`, `on_sync`, `last_saved_count` | add, remove, reschedule, invalidate, the setters |
| claim store | `tasks/mod.rs` | claims file: one `ClaimData` per epoch | store, update, get, remove, exists |
| event indexer | `indexer.rs` | memory: the catch-up targets | initialize, run, scan_once, scan_chain, six handlers |
| task dispatcher | `tasks/dispatcher.rs` | memory: the ready tasks of a pass | process_pending, execute_task |
| tasks | `tasks/*.rs` | none of their own | validate, challenge, start, verify, send, relay, withdraw (and save_snapshot, claim) |
| route process | `main.rs` | up, or asleep after a panic | run_route, run_route_with_retry |
| epoch watcher | `epoch_watcher.rs` | memory: last epochs served | save a snapshot before, claim after an epoch's end |
| block search | `lib.rs` | one search's bounds | find_block_by_timestamp |
| L2 finality | `finality.rs` | one search's page | is_epoch_finalized |
| startup | `startup.rs` | none | health and balance checks, load_route_settings |
| configuration | `config.rs` | none | environment variables, RPC providers |
| contracts | ABI only, `contracts.rs` | claim hashes, events, messages | external |

**How they interact.** `run_route` polls epoch watcher, indexer and dispatcher in
*one* task with `tokio::select!`. They share the two stores behind mutexes that are
taken for one read-modify-write of one file and never held across an `.await`. So
their steps interleave at the awaits and nowhere else; what is read before an
await can be stale after it, and two changes to the two files are two writes. The
indexer writes schedules and claims from events; the dispatcher runs what is due,
adds the verdict's follow-up task, and removes tasks and claims; the `on_sync` flag
in the file holds the dispatcher back until the indexer has caught up. A panic in
any of the three unwinds all of them; five minutes later the route starts again
over the files as they are.

**What is hard.** Events are delivered at least once (the cursor's own block is
read again by the next scan; a chunk is replayed after a crash), twenty minutes
late, while the outbox moves on: other validators challenge, start, verify, send,
relay and withdraw. A pass of the dispatcher works on copies of tasks. A request
may fail at every await, a transaction may land and its receipt be lost. The claims
file is all the validator has of a claim, as the contract keeps only a hash: one
field missed and no later call for the epoch is accepted. `PROJECT.json` lists the
hazards with their lines.

**What makes each part correct.** The stores: the claims file is the outbox's
claim after some prefix of its events. The indexer: no final event is skipped, no
claim is forgotten before its deposit is gone. The epoch watcher: what was sent in an
epoch is in a snapshot when it ends, a snapshot is claimed once, with its own root.
The finality check: what it calls final stays. The dispatcher and its tasks: only
wrong claims are challenged, what is sent can be accepted, every task ends done or
is tried again. The process: nothing acts on files that are behind. Together: a
wrong claim is challenged, a right one is paid.

## 2. Modules

| module | models | from |
|---|---|---|
| `Claims` | tasks, claims and the stores' operators, as pure functions | `tasks/mod.rs` |
| `Chains` | outbox, inbox and Arbitrum's Outbox with everybody else acting on them | external |
| `Process` | the state of one route: the files, the two components' memory, panics, torn writes | `tasks/mod.rs`, `main.rs` |
| `Indexer` | `scan_chain` and the handlers, an action for each stretch between awaits | `indexer.rs` |
| `Dispatcher` | `process_pending`, `execute_task`, the seven tasks, `send_tx` | `tasks/*.rs` |
| `Route` | `initialize`, start, panic, kill, restart; composes all of the above | `main.rs`, `indexer.rs` |
| `RouteProperties` | the properties, and `PromptSpec` for liveness | |
| `ClaimReplica` | abstract specification: what the claims file promises | |
| `MCRoute` | the instance TLC checks | |
| `RouteProofs`, `JudgementProofs` | theorems on the route: types and the order of start, scan and pass; what is judged, won and forgotten | |
| `HistoryProofs`, `ReplicaProofs` | theorems on the claims file: it is history and keeps up; it implements `ClaimReplica`; what is sent from it can settle a dispute, and waits to be relayed | |
| `BlockLookup` | abstract specification: which block is asked for | |
| `BlockSearch` | the bisection, a step for each request | `lib.rs` |
| `BlockSearchProofs` | that `BlockSearch` implements `BlockLookup` | |
| `Finality` | `is_epoch_finalized`: six kinds of request to L2 and to an L1 whose end may be replaced | `finality.rs` |
| `FinalityProofs` | its theorems | |
| `EpochWatcher` | the loop of the epoch watcher with `save_snapshot` and `claim`, over what of the indexer, the files and the bridge they depend on | `epoch_watcher.rs`, `tasks/save_snapshot.rs`, `tasks/claim.rs` |
| `EpochWatcherProofs`, `SavingProofs` | its theorems: types and safety; each epoch is saved and claimed, no deposit wasted | |

`EXTENDS` chain: `Claims` < `Chains` < `Process` < `Indexer`, `Dispatcher` <
`Route` < `RouteProperties` < `MCRoute`, and `RouteProperties` < `RouteProofs` <
`JudgementProofs` < `HistoryProofs` < `ReplicaProofs`. `RouteProperties` instantiates `ClaimReplica` under a
refinement mapping. `BlockSearch`, `Finality` and `EpochWatcher` stand alone. What each
is to the others: `Finality` uses `BlockSearch`'s answer (the first block late enough, or the
latest), `EpochWatcher` and `Dispatcher` use `Finality`'s as "yes", "late" or an error at any
moment, `Route` sees of the epoch watcher only the claims it makes, which `Chains!Others` makes too. `Indexer` takes its result as one
subtraction, as blocks and timestamps are one number there.

Definitions called *Seeded fault* are plausible bugs. No action uses them; each
shows that a property would notice (section 4).

### State and code

* `tasks` is `RouteState::tasks`. The Vec is a set of records that carry their
  place, so a task pushed twice is there twice, in order. `remove_task` takes every
  task of the epoch and kind, `reschedule_task` changes the first: both as coded.
* `claims` is the claims file, a function from epochs (`store` refuses a second
  entry for one). Roots are "correct" or "wrong" with respect to
  `inbox.snapshots`, which is all the code asks of one; addresses are zero, mine,
  another's. The claimer is dropped: it is never read back on its own.
* `cursor`, `indexingSince`, `onSync` are the fields of the same names. These five
  are files and survive; `idx` (the scan in progress, with the catch-up targets)
  and `disp` (the pass in progress: copies, the task at hand, the claim it read,
  what it waits for) are memory and are reset by any panic or kill.
* `route` is "up", or why it is not: "down", or the message of the panic. That is
  how the panics the code calls impossible become properties.
* `clock` is the latest block and its timestamp at once, for both chains.
* In `Finality`, `l1` is the chain as it is now, a batch number or 0 for each block; `top` is
  the highest block it ever had, as reorganisations shorten it. `asked`, `seen` are history.
* In `EpochWatcher`, `messages[i]` is the first epoch that must hold message `i` (one sent in an epoch's
  last `BEFORE_EPOCH_BUFFER` seconds may come too late for its window and belongs to the next);
  a root is the number of messages it stands for; `claims[e]` keeps who claimed an epoch, what and when,
  beyond its withdrawal, when only `open` is lost. `lastBefore`, `lastAfter`,
  `skipUntil` are the locals of `watch_epochs`, `phase` the request it awaits; all go with a
  panic or kill. `hindered` is history: the epochs in which something went wrong (a failed
  request, a kill, late finality, or time passing before the watcher had done what was due).
* `claimHash[e]` is the claim that was hashed. `log` is the outbox's events,
  `sent` the inbox's messages, both in block order.

### Actions and code

An action is the code from one await to the next. `Indexer`: `ScanNothing`,
`ScanChunk`, `ScanFailed` are `scan_chain` up to `get_logs`; `HandleSnapshotSent`,
`HandleClaimed`, `HandleUnknown`, `Begin`, `BeginChallenged` are handlers up to an await that
matters, `Finish...` their rest; `FinishChunk` saves the cursor. Awaits between
which a handler touches nothing shared are not steps of their own; nor is the
await inside `handle_snapshot_sent`, as only the indexer adds the task it looked for.
`TargetSearchFailed` is the one request of `scan_chain` that panics: the search for the final block.
`Dispatcher`: `Poll`, `ReadNow`, `BeginTask`, then a step for each answer a task waits for
(`CheckFinality`, `Judge`, `CheckHash`, `CheckSpent`), `Land` or `Revert` for the
transaction, and `Confirmed` or a `...Failed` for what the task and `execute_task` do
with the result. `Succeed` is the dispatcher's own `if success { remove_task }`, part of
every step that returns true: the reschedule branches return true as well, so
`Reschedule` removes what it has rescheduled. `RequestFailed` is a request before the transaction that fails
with an error, `BlockSearchFailed` the one that panics, in the searches of `is_epoch_finalized`.
Two writes can be torn by a kill in both components: `Commit` is a change of both files, the claims
file first, then the schedule; `Succeed` comes after what the task itself has written (the claim removed in
`Forget`, the verdict added in `Judge`, the task put off in `Reschedule`), so that a kill leaves the task
that was done in the schedule.

`Finality`: `Ask` calls `is_epoch_finalized`, then each request is an action in the code's order,
`GetLogs` one page of the search; `RequestFails` ends it as the `?` operators (an error) or
`get_block_with_retry` (a panic) do. `EpochWatcher`: `ReadTimestamp` is the head of the loop with the
test for the save window; `ReadCount`, `Compare`, `SaveSnapshot` are `save_snapshot`; `TurnToClaim` the
second half of the loop; `CheckFinality`, `ReadSnapshot`, `ReadHash`, `ReadStateRoot`, `LookForRoot`,
`ClaimLands` or `ClaimFails`, `Recheck` are `claim`; `Fail` is the three arms of the `match`.

### Abstractions, and what is left out

* In `Route`, blocks and timestamps are one number; the block search is a subtraction.
  Reorgs beyond the finality buffer are out, as in the code.
* A transaction lands at once or not at all. `rpc` in `Faults` lets any request fail
  where the code asks; `lost` loses a receipt.
* An epoch is claimed once (the contract takes claims of the latest finished epoch
  only).
* A relayed message settles its dispute in the same step, as on ARB_TO_ETH. The
  AMB hop of ARB_TO_GNOSIS is not modelled; nor are WETH allowances.
* `initialize` is one step. Its requests have no effect before its single write but
  `on_sync = false`, which is the first thing it writes.
* A kill in the middle of `fs::write` (a truncated JSON file, which then stops every
  start at `expect("... data corrupted")`) is not modelled.
* `SnapshotSaved`, `last_saved_count` and the epoch watcher are not in `Route`; the
  claims the watcher makes are among those of `Others`.
* In `EpochWatcher` both chains have one clock and one block a second; the indexer is reduced to the inbox
  cursor, `SnapshotSaved` and the claims it stores when its scan passes them; `epochPeriod()` and
  `deposit()` are constants, so their requests only fail, as the others do.
* In `Finality` a block of L1 holds one batch at most and L2's blocks are counted in batches; the
  block searches are single steps (`BlockSearch` shows that they may be).
* Not modelled: `config.rs` (reads the environment, no state), `contracts.rs` (an ABI), the checks
  of `startup.rs` (they read and panic before a route exists, and nothing later depends on what they
  read; the four sums of `load_route_settings` are constants of `Route`, where no theorem assumes how they
  compare), `sequencer_inbox = None` (refused by `check_finality_config`), tests, scripts.

## 3. Properties

| property | what it says |
|---|---|
| `JudgedRight` | this validator challenges only claims whose root is wrong, and the verdict in the schedule is the right one for the epoch's `Claimed` event |
| `StoredIsHistory` | each stored claim is the outbox's claim after a prefix of its events (after some of them, if indexing began later than the claim) |
| `FileIsReplica` | the claims file as a whole refines `ClaimReplica`: it learns events in order, skips none, never goes back, forgets only what is settled |
| `NothingMissed` | an event of a block behind the outbox cursor is in the file, or its deposit has been withdrawn |
| `WinnerIsKnown` | `withdraw_deposit` never meets an undecided claim |
| `SentIsResolvable` | while a claim is open, a message this validator has sent about it is the claim as the outbox hashes it, challenge included: relayed, it settles the dispute |
| `MessagesFollowed` | a message of this validator behind the inbox cursor that can still settle its dispute waits in the schedule to be relayed |
| `ActsInSync` | tasks run only when both cursors have reached what was final at the last start |
| `ForgetsOnlySettled` | a claim leaves the file only after its deposit has left the outbox |
| `WrongClaimChallenged`, `CorrectClaimPaid`, `WrongClaimSettled` | liveness: a wrong claim gets challenged; a correct one is started, verified and withdrawn; a wrong one challenged, sent, relayed and withdrawn |
| `YesIsFinal` | an epoch called final is: all L2 had of it when asked is in a final block of L1, for good |
| `NoIsRight` | a batch that was final when asked is not overlooked within the search's reach |
| `EachEpochSaved` | what was sent before an epoch's window is in a snapshot when the epoch ends, unless something went wrong in it |
| `SkipsOnlySaved` | the count for which the watcher skips a save was saved by somebody |
| `ClaimsTrue` | a claim of this validator has its epoch's snapshot, and no later save changes that |
| `EachEpochClaimed` | a saved epoch is claimed in the next, or its root was before, unless something went wrong |
| `NoWastedDeposit` | no deposit goes into a root that an open claim has, if nothing went wrong: the twenty minutes after an epoch's end are enough for the indexer |
| `RivalsHarmless` | a refused claim stops the route only if it came after its epoch |
| `Bracketed` | what the block search has excluded stays excluded as the chain grows |
| `SearchIsLookup` | the block search refines `BlockLookup`: it answers the first block at or after the target, or the latest, of the chain as it is at the end of the search |
| `EachSearchEnds` | no block search goes on for ever |

After a process has been down for longer than the lookback events are lost by design. `StoredIsHistory`,
`NothingMissed`, `SentIsResolvable` and `MessagesFollowed` therefore promise completeness only for claims
(or messages) made since `indexing_since`; `FileIsReplica`, which is about all claims at once,
presupposes that there was no such gap. The runs that check it have a lookback longer than
their clock; `RouteHiatus` has a short one and checks what must hold even so.

## 4. Runs

All but the last three of the table are instances of `MCRoute`. Each is a few blocks long; `MaxClock`, `MaxSent`,
`MaxRestarts` are bounds of the model (guards of `Tick`, `CanSend`, `Restart`), the
periods are one or two blocks. The finality buffer is 1 and a chunk is 2 blocks, so
that within four or five blocks an event is seen late, its block is read twice, and
a scan takes more than one chunk. A claim's whole life (claimed, started, verified,
withdrawn; or claimed, challenged, sent, relayed, withdrawn) fits into the clock
when the periods are 0 or 1, and every action is reached by some run.

| run | asks | bound by |
|---|---|---|
| `RouteRivals` | `TypeOK`, `StoredIsHistory`, `JudgedRight`, `WinnerIsKnown`, `NothingMissed`, `SentIsResolvable`, `MessagesFollowed`, `ForgetsOnlySettled`, `FileIsReplica`: a right or wrong claim, rivals challenge, start, verify, relay, withdraw | 4 blocks, 1 message |
| `RouteCrashes` | `NothingMissed`, `ActsInSync`, `SentIsResolvable`, `MessagesFollowed`, `ForgetsOnlySettled`, `FileIsReplica`: killed anywhere, the indexer's and the dispatcher's pairs of writes torn, messages sent twice, lost receipts, late finality | 4 blocks, 1 restart |
| `RouteHiatus` | `JudgedRight`, `WinnerIsKnown`, `NothingMissed`, `ActsInSync`, `ForgetsOnlySettled`: down for longer than the lookback, any request fails, the wallet is empty, roots and finality are late | 4 blocks, 1 restart |
| `RouteTwoEpochs` | `JudgedRight`, `NothingMissed`, `SentIsResolvable`: two epochs in one pass, rivals send, relay, withdraw; symmetric, as no action or property tells epochs apart | 3 blocks, 2 messages (own ones are sent, but not yet relayed) |
| `RouteProgress` | `WrongClaimChallenged`, `CorrectClaimPaid`, `WrongClaimSettled`: liveness, others may verify and withdraw first | 8 blocks, 2 messages |
| `BlockSearch` | `Bracketed`, `SearchIsLookup`, `EachSearchEnds`: any chain of up to five blocks with equal or growing timestamps, any target, three attempts a request | 5 blocks, timestamps 0..3 |
| `Finality` | `TypeOK`, `YesIsFinal`, `NoIsRight`: a search of two pages of two blocks, on an L1 that loses its last block now and then | 6 blocks, 2 batches |
| `EpochWatcher` | `TypeOK`, `EachEpochSaved`, `SkipsOnlySaved`, `ClaimsTrue`, `EachEpochClaimed`, `NoWastedDeposit`, `RivalsHarmless` | two whole epochs and the start of a third, 2 messages, 2 saves before a rival's, 1 rival claim, 1 thing goes wrong |

In `EpochWatcher` an epoch has three seconds: its first, when the indexer has not yet told of the
last one's end, one in which claims are made, and the window of the save. Two epochs can be
saved and claimed, and time enough is left for the claims to be told of and resolved. A message,
a rival's save and a rival's claim may come at every moment, the save also over this validator's own; one thing that
goes wrong suffices to be killed, or lose a receipt, and to start again over what was left. With more than that most
properties are theorems (section 5): that a claim comes too late takes two (time running ahead
of the watcher, and the panic), so that branch of `RivalsHarmless` is reached by `RivalsDoNotStop` alone. The lookback is longer than the clock: `RouteHiatus`
has the cursors set anew. `Finality` has room for a search that begins below, at and above the batch, ends in
either page or beyond both, and sees the block it found replaced. `NoIsRight` speaks of the pages allowed;
`LatePosting` takes the design's word for all batches.

`CHECK_DEADLOCK FALSE` everywhere: with the clock and the restarts bounded, a
behaviour of the model ends where the system would go on.

**Fairness.** A claim is only paid if the validator is faster than the bridge, so
liveness needs some synchrony. `PromptSpec` says that a block comes only when the
route has nothing left to do at the current one, the first blocks excepted (a modelled block stands for at
least twenty minutes; the dispatcher polls every 15 seconds, the indexer every
second or every five minutes). The exception makes the block of a claim the last of a scan or not: if it is, it is read
again, and the panic of `DuplicateClaim` ends the route in the middle of a dispute, at this start and the
next ones. `WrongClaimSettled` says that nothing else does. Weak fairness of the indexer's and the dispatcher's steps is
tokio's: `select!` polls all its branches, sleeps end. Weak fairness of restarts is
`run_route_with_retry`. Rivals act or not: no fairness. `BlockSearch` assumes weak
fairness of its requests (a provider answers or times out) and none of the chain. `EpochWatcher` has no
fairness: what must happen in an epoch is said of its end, by which it has happened (`EachEpochSaved`,
`EachEpochClaimed`); an epoch in which time ran ahead of the watcher counts as hindered.

**Disagreements found.** Four runs check what a document or a message of the
code says of it and TLC finds the counterexample:

| run | said | done |
|---|---|---|
| `DuplicateClaim` | "this should never happen" (`tasks/mod.rs:241`) | it does when the block of a `Claimed` is read again after its task is done |
| `TaskPanics` | "task stays in queue, retried next poll" (design document, 90) | a `SendSnapshot` that outlives its claim takes the route down |
| `ValidationDropped` | "gets rescheduled +30 minutes" (200) | rescheduled, then removed; so does every other branch that reschedules |
| `LatePosting` | pages "until we find the event or reach L1's latest block", "arbitrary batch posting delays" (185, 188) | the search stops after ten pages (`finality.rs:66`), 66 hours, and starts at the same block each time: a batch posted later is never found |

Four more came up in modelling and have no run of their own:

* "claim not found - this is a bug" (`indexer.rs:457`): the redelivery that `DuplicateClaim` shows also
  brings the block of a `Verified` again after the withdrawal has removed the claim.
* The design document (185, 201) treats an epoch that L1 does not have yet as not final, to be asked for again.
  For a block that is in no batch, `findBatchContainingBlock` is an error instead (`finality.rs:49`), which
  the epoch watcher takes for fatal: `BatchNotPosted` in `EpochWatcher` panics the route.
* "logs warning and continues loop on RPC failure" (design document, 84): any failure to save a snapshot panics the
  route instead (`epoch_watcher.rs:55-56`, `SaveFails`), and its window is over before the next start.
  `EachEpochSaved` speaks of epochs in which nothing failed.
* The design document (33) lets the last saved count default to 0 after a hiatus. `initialize_sync` keeps it
  (`tasks/mod.rs:379`): messages that were saved but never claimed wait for another message.

For every property of a passing run `PROJECT.json` names a seeded fault that
violates it: a missing write, a flag not cleared, a cursor saved too early.

## 5. Proofs

TLAPS proves, for every value of the constants allowed by `ChainsAssumption` and
`ProcessAssumption`, or by `SearchAssumption`, `FinalityAssumption`, `WatcherAssumption` (they give the constants
their types; no bound is assumed of the number of epochs, the faults, the rivals or the clock;
`FinalityAssumption` also says that what may still be replaced cannot become final while one request is
awaited):

* `TypeCorrect == Spec => []TypeOK` (`RouteProofs`). `TypeOK` is not inductive:
  the cursor may be "never saved", an event's argument is a root for one kind and an
  address for another, and a place in the schedule is a number only if the schedule
  is finite. `Typed` adds `EventsTyped`, `ScanOK` (while the route is up, the cursors are set; what is left of
  a chunk are entries of the log it came from), `PassOK` (a pass has a task, and a claim where
  one is sent) and finiteness.
* `ClaimsJudgedRight == Spec => []JudgedRight` (`JudgementProofs`). A challenge was
  decided from a claim read earlier, from a file a kill may have torn, by a task
  copied before it was invalidated. `Judged` therefore says it of every place a
  root or a verdict is kept: on chain, in the file, in the schedule, in the pass's
  copies, in the task at hand, each agrees with a `Claimed` event in the log, of which an epoch
  has one. As the log only grows, such agreement is never lost.
* `TasksInSync == Spec => []ActsInSync` (`RouteProofs`). `on_sync` is a file, `catchup_target` and the inbox's result
  memory. `InStep` says of each what it is worth while the route is up: a target is not from before the start,
  a chunk does not take its cursor back, an inbox called done has reached what is due; and that a route that
  is down has memory never used, so that a start begins without any.
* `WinnersAreKnown == Spec => []WinnerIsKnown`, `ForgetsOnlyPaid == Spec => ForgetsOnlySettled` (`JudgementProofs`).
  `Informed` says that every task, copy of a task, event being handled and message of this validator is about a claim
  that is in the file, or `Paid`: claimed once and its hash gone, which is for good. A `WithdrawDeposit` is
  about one whose winner is in the file, as it is scheduled by the write that brings the winner. With that, what
  the code treats as impossible in `withdraw_deposit` is, and a record goes only when `Paid`. A kill between the
  removal of the record and that of its task changes nothing: the task left behind is about a claim that is `Paid`.
* `RecordsAreHistory == Spec => []StoredIsHistory`, `FileKeepsUp == Spec => []NothingMissed` (`HistoryProofs`).
  Neither is inductive, as the cursor says nothing of a chunk half handled. `InOrder` adds the log's order (by blocks,
  and by `Rank` within an epoch), what a hash tells of its events, and `Read(i)`: the cursor is past entry `i`, or
  a scan has its block and has handled it. What is `Read` is in the file or its claim is `Paid`; what is still ahead of the
  scan comes after all that is `Read`, so that a file that learns an entry has learnt those before it. An entry
  may be handled twice (the cursor's own block, a chunk replayed): the second time changes nothing, or
  stops the route. `NextInOrder` also proves `FileMoves`: a step of the route writes one more event to one
  record, or removes one that is `Paid`, or does not touch the file, and in the first two cases the chain stands still.
* `FileImplementsReplica == Spec /\ []AllFollowed => FileIsReplica`, `ShortLivedIsReplica` (`ReplicaProofs`).
  `FileMoves` is what makes a step a `Learn` or a `Forget`, and a call of a contract appends one
  event of one epoch (`Publish`), empties one hash (`Settle`), or neither. The mapping counts events, so
  the rest is about cardinalities: the events the file knows are the first ones (`Numbering`, `KnownIsFirst`).
  `AllFollowed` (indexing began before every claim) is not implied by `Spec`: after a long stop the file is
  no replica, as `RouteHiatus` would show. The second theorem says when it is implied: the lookback is longer than the
  bridge has lived, as in the runs that check `FileIsReplica`.
* `SentClaimsResolve == Spec => []SentIsResolvable` (`ReplicaProofs`). The message is made from a record that lags, and
  is relayed days later. `Disputes` follows it back: a hash says what its events say (`HashesAre`); a `SendSnapshot`
  task, copied or not, is about a claim whose challenge the record tells (`TasksDisputed`), because `FinishChallenged` writes the
  record first; a challenged claim's hash does not change until the dispute ends (`StaysOpen`); so the copy a
  pass reads, and the message made from it, are what is hashed (`CopyResolves`, `MessagesResolve`).
* `MessagesAreFollowed == Spec /\ []AllFollowed => []MessagesFollowed` (`ReplicaProofs`), where no request fails and
  no root is still unconfirmed (`Faults` without "rpc" and "unconfirmed"): after one such answer
  `Reschedule` has put the relay off and `Succeed` removes it, which is what `ValidationDropped` finds of another task.
  Everything else may happen: kills, lost receipts, messages sent twice, relays by others. `Relaying` says: a message is `Heard`
  when the cursor is past it or its chunk has handled it, and no message can still be sent in a block the scan has
  read (`InboxInOrder`); a task that relays carries a message of its own epoch (`RelaysCarry`); what is `Heard` has its relay
  in the schedule or its claim is `Closed` (`HeardIsRelayed`). The relay leaves the schedule only after an answer, and
  an answer means the claim is closed (`AnsweredIsClosed`): either the relay landed, or it was
  refused, and by `SentClaimsResolve` only a claim no longer open refuses it.
* `SearchImplementsLookup == Spec => SearchIsLookup` (`BlockSearchProofs`). `Bracketed` alone is not
  inductive, as one probe says something of all earlier blocks; with `Ordered` (timestamps do
  not decrease) it is. A search that closes its bracket is then a `Reply` of `BlockLookup`,
  every other request a stutter or a `GiveUp`.

* `BracketHolds == Spec => []Bracketed`, from the same invariant.
* `FinalityTypes == Spec => []TypeOK`, `EpochIsFinal == Spec => []YesIsFinal`, `FinalIsFound == Spec => []NoIsRight`
  (`FinalityProofs`). The second rests on
  the invariant that the blocks above `found` can only be replaced while they are too young to be final,
  and that batches lie in order; the third on the search having left behind every block below `from`, for
  blocks that were final when the question was asked and therefore never change.
* `WatcherTypes`, `SkipsAreSafe == Spec => []SkipsOnlySaved`, `OwnClaimsAreTrue == Spec => []ClaimsTrue`,
  `RivalsDoNotStop == Spec => RivalsHarmless` (`EpochWatcherProofs`). A claim is of an epoch that is over,
  as the clock never goes back (`Current` is at most the clock's epoch, arithmetic of
  `\div` that the lemmas `EpochBounds`, `Multiples`, `EpochsGrow` supply), so `answer` is still the snapshot when it lands.
* `EpochsAreSaved == Spec => []EachEpochSaved` (`SavingProofs`). The clock leaves an epoch only when the watcher has
  served it, or the epoch is hindered. `Served` says what that is worth: once `lastBefore` is the clock's epoch, its window has opened, so
  later messages belong to the next, and all messages of it are in a snapshot; on the way
  there, the count that is compared has them all. A skipped save rests on `SkipsOnlySaved`.
* `EpochsAreClaimed == Spec => []EachEpochClaimed` (`SavingProofs`). Each Ok of `claim` leaves the epoch
  `Provided`: no snapshot, a claim, or a claim somewhere with its root (a verified root was claimed once).
  Claims keep their roots and snapshots of past epochs stay, so it stays `Provided`. Here alone `AfterBuffer < Period`
  is needed, the last conjunct of `WatcherAssumption`: with a longer buffer claims would never be due.
* `DepositsAreNotWasted == Spec => NoWastedDeposit` (`SavingProofs`), for `Finality \in 1 .. AfterBuffer` (both are twenty
  minutes in the code: equality is enough, and not one second less) and `Recent < Lookback` (seven days, and what
  `load_route_settings` adds up from the contracts: 8 days in the tests, checked nowhere; with a shorter lookback a route
  that was down can start behind a claim it never reads). Both are needed: with `Finality = 2` in the run, or with a
  lookback shorter than `Recent` and a longer clock, TLC finds a wasted deposit. `UnknownAhead`: an open claim not in the file is ahead of the
  cursor or older than the lookback; `Fresh`: a smooth second ends with the cursor at the end of what is final; so when `claim`
  looks, a buffer after the epoch's end, every claim of an earlier epoch has been read (`FileTells`), and until the
  transaction lands only the epoch's own claim can be new (`Looked`).

The proofs on the route go component by component: lemmas on the stores' operators (`RetainType`,
`RemoveTaskJudged`, ...), on an action's frame (`CommitTyped`, `EndJudged`, `RecordRemembers`, ...), then one step per action.
The environment, the indexer, the dispatcher and the process each have their lemma, and `NextTyped`,
`NextJudged`, `NextInformed`, `NextInOrder`, `NextDisputes`, `NextRelaying` combine them. Each invariant is proved over the ones
before it: `Typed`, `Judged`, `Informed`, `InOrder`, `Disputes`, `Relaying`. Where one invariant takes a task through a step
(`Informed`, `Disputes`), what a step does to the schedule and the pass's copies is said once: each
task afterwards is one that was there, or has just been scheduled for a stated reason (`Inherited`, `HandsOn`).

Only model-checked: liveness (fairness and ENABLED are outside what this prover handles). Every safety
property of a passing run is a theorem; `MessagesFollowed` and `NoWastedDeposit` under the hypotheses given.

## 6. Plan

1. `Delivery`: an abstract specification of the indexer (at-least-once, in order, only
   final blocks) that `Indexer` implements.
2. A fault of `Route` that erases the files, for the cold start in front of messages in flight.
