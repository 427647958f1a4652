# A TLA+ development of the Taproot Assets daemon

`tapd` keeps assets whose existence is decided by Bitcoin transactions. What it
has recorded can be undone by a re-organization, by a rival transaction, by a
crash between two writes, or by a call that fails half way through. The modules
here model the parts of the daemon that must get this right:

| part of the system | source | modules |
|---|---|---|
| phase derivation of the re-org watcher | `tapreorg/phase.go`, `tapreorg/derive.go` | `Phases` |
| chain and notifier, as the code uses them | `tapreorg/chainsim` (the contract), lnd (external) | `Chain` |
| the watcher's registry | `tapdb/reorg_registry.go`, `reorg.sql` | `ReorgRegistry` |
| the watcher's sensing loop | `tapreorg/service.go` | `ReorgWatcher` (composes the three above) |
| the watcher's delivery and outbox loops | `tapreorg/service.go` | `Delivery`, refining `SiteConvergence` |
| waiting for an outcome | `tapreorg/waiters.go`, `tapgarden/anchoring_site.go` | `Waiters` |
| which confirmations are watched at all | `tapreorg/anchoring.go`, `tapfreighter/chain_porter.go` | `Protection` |
| minting | `tapgarden`, `tapdb/asset_minting.go`, `tapdb/garden_anchoring.go` | `Minting` |
| sending | `tapfreighter`, `tapdb/freighter_anchoring.go`, `tapdb/assets_store.go` | `Transfers` |
| receiving | `tapcustody`, `tapdb/custody_anchoring.go`, `tapdb/addrs.go` | `Custodian` |
| supply commitments and their verification | `universe/supplycommit`, `universe/supplyverifier`, `tapdb/supply_*.go` | `SupplyCommit` |

`MC*.tla` and `*.cfg` instantiate them for TLC, `*_proofs.tla` hold the theorems
TLAPS checks, and `PROJECT.json` maps every definition to its lines of code and
lists runs, mutants, findings, hazards and theorems.

## How the parts interact

A *site* (minting, sending, receiving, supply commitments) stakes an *anchoring*
with the watcher in the database transaction in which it records the effect it
wants protected. The sensing loop subscribes to the spends of the anchoring's
triggers, records candidate transactions, and derives a *phase*: unwitnessed,
witnessed, conflicted, buried or abandoned. The delivery loop brings the site to
the sensed phase by running the site's handler in a transaction together with
the record of the delivery. Effects outside the database go through an outbox.

The models are split along that interface. `ReorgWatcher` and `Delivery`
establish what a site may rely on: a phase that is sensed is true of the chain,
a terminal phase rests on a transaction that once had the required depth and is
never taken back, and the sensed phase is delivered in the end. `Minting`,
`Transfers`, `Custodian` and `SupplyCommit` take that promise as their
environment and model the site with its goroutines, its rows and its restarts.
Inside the watcher the same split is checked formally: `Delivery` implements
`SiteConvergence` under the mapping that reads a site's own state as what was
delivered (`Promise` in `Delivery`).

## The modules

**Phases, Chain, ReorgRegistry, ReorgWatcher.** A transaction is a number that
keeps the byte order the code compares hashes by; a block is a set of
transactions and the number of the re-org before it, which serves as its hash.
Each write of the registry is a function of the stored rows, applied by one
action, as one database transaction is. The sensing loop handles one event at a
time, but its work spans several transactions with chain moves, registrations,
deliveries and crashes in between; so `loop` is a stack of tasks, each one
transaction long. Subscriptions feed `inflight`, from which the loop takes any
event: the forwarding goroutines race, and the set over-approximates the order
one stream keeps. A failing call, a lost hand-off, a severed stream and a
restart each consume one unit of `MaxFaults`. Merged or left out: verification
of recorded locations and the upsert that follows are one step;
`createdHeight` is the length of the chain; a spend's own re-org signal is
ignored, as in the code; errors and panics of a site's predicate are not
modelled; the dependents are loaded in the step that sets the phase.

**Delivery, SiteConvergence.** A pass holds the rows it has read, so that a row
may be stale when its turn comes. Backoff is counted in ticks and capped. A kick
of the loop changes only latency and is left out; the "already delivered" branch
cannot be reached with one loop; a rescan of the outbox is part of
`FetchEffects`.

**Waiters.** One cultivator per anchoring, the listener goroutines and the
one-place channel. The porter waits in the same way with a ticker besides, so
the cultivator is the harder case.

**Protection.** The predicates are computed on machine words of any size
`MaxUint`, with wrap-around. `FloorExact` states the bound that is needed: at
best height 2^32 - 1 and threshold 1 the two functions differ.

**Minting.** The planter with its gardener goroutine and one cultivator per
batch. `FinalizeBatch` is one action up to the point where the cultivator takes
over. A conflicted mint is treated as an unwitnessed one, as the handlers do; a
delivery whose header check fails is a delivery that has not happened; the
planter starts after the watcher. Leases do not expire.

**Transfers.** `Goto` moves a send through the states of `stateStep`; `Deliver`
runs the site's handler for the sensed phase: confirmation with the superseding
of rivals, withdrawal, and abandonment with the restoration of inputs, passive
assets and leases and the revival of rivals. One asset row per anchor point, and
one passive asset per coin of `Hosts`. A foreign transaction spends only points
that a staked transfer of open outcome claims. Response and error channels,
zero-value sweeps, burns and mirror files are left out; the adoption of old
transfers is in `Protection`.

**Custodian.** The event loop with its start (`Start`, `ResumeEvent`,
`ListTransactions`, `InspectListed`), the wallet's notifications, mailbox
messages and proof notifications, one goroutine per retrieval (`tasks`), and the
receive site. `setReceiveCompleted` is three steps, `StakeAgain`, `CheckProofs`
and `CompleteEvent`, because the watcher's deliveries fall between its
transactions. A receive has one anchor transaction, and only the tip of its
proof file counts: the file verifies exactly when that transaction is in the
chain. Addresses are imported beforehand, a mailbox bundle holds one message and
can be decrypted, the sender keeps the courier's file current. Heights number
the blocks in mining order. A proof found in the database at start can be told
from the address only for versions 0 and 1, since a version 2 script key is
derived per asset. The rows that link an event to its proofs are part of its
completed status. `told` are the receives whose error was published since the
last start.

**SupplyCommit.** The state machine of `universe/supplycommit` with its durable
state, the manager's cache of machines, the pushes to a universe server and that
server's `VerifyCommit`. The protofsm driver is lnd's and is modelled from its
use. The supply trees are sets of updates; a root is the set it commits to. A
mint is issued and confirmed in one step; the inclusion of unconfirmed mints and
the adoption of legacy records are left out.
## The model-checking runs

Each run asks one question. The number is that of the distinct states of the
instance; every passing run explores all of them.

| run | states | what it shows |
|---|---|---|
| `sensing` | 674,114 | One anchoring, a satisfying and a conflicting transaction, a re-org as deep as the threshold, one fault anywhere. A terminal phase rests on depth that was reached (`ActEvidence`), an anchoring is never certified both ways (`NoContradiction`), a running sensor with nothing in flight has sensed what the chain says (`QuietMeansCurrent`). |
| `growth` | 59,954 | An anchoring is registered, with or without a seed, and a second registration enlarges its trigger set while sensing works. A candidate recorded as satisfying spends the whole set (`WholeSet`), no spend of the larger set is missed, and sensing and delivery reach the outcome of the whole set (`Convergence`). |
| `foreclosure` | 202,194 | A parent with two possible transactions and a child staked on the first. The foreclosing evidence on the child follows the parent (`StagingCurrent`), nothing final is taken back (`Finality`), and the child's abandonment arrives although a nudge, a call or a stream was lost. |
| `delivery` | 23,941 | Phases move during a delivery pass, handlers and records fail, the process ends. Site, registry and outbox agree, an effect is marked only after it was carried out, the module implements `SiteConvergence`, every site converges, every effect is dispatched. |
| `waiters` | 80,550 | A delivery at any moment around a cultivator's read: no wake-up is lost and the wait ends. |
| `protection` | 20,013 | Floor and predicate agree below the largest height, and the adoption pass misses no young transfer while blocks arrive. |
| `supply` | 205,806 | While one machine of the group runs at a time: no recorded update is lost, a signed root is the root the rows later produce, commitments form one line that is never taken back, a server follows it, and late updates are committed without a caller. |
| `minting` | 238,700 | One batch before broadcast at a time and somebody to move it on, leases held while needed, nothing cancelled is broadcast, nothing is published before its burial, callers are answered, mints settle. |
| `transfers` | 194,022 | Two rivals and a foreign transaction: whatever the order of deliveries, the rows end up as the chain decided, losers come back to life, no coin stays locked, a buried transfer is confirmed. |
| `receives` | 212,484 | Custody is never held unwatched, no event is complete without its proofs, no message is removed too early, a receive whose proofs can be had is completed or reported. |
| `passive`, `listing` | | Two properties the repository's comments state and the code does not have; see Findings. |

`PROJECT.json` lists for every property a mutant of the code, a dropped guard, a
missing reset or a swapped order, under which the same instance violates it.

### Bounds

`MaxFaults` is one in every passing run but `delivery`, which allows two
failures. One fault meets every step once, in every interleaving; the recovery
code is written for one failure followed by a retry, a sweep or a restart. With
two faults `Convergence` is false in the foreclosure instance: see the hazard at
`tapreorg/service.go:2107`.

- Watcher runs: a threshold of 2 with chains of 2 or 3 blocks and one re-org
  lets a transaction be certified, be replaced before it is certified, and be
  re-organized out after it was certified. Triggers carry height hints, as those
  of the sites do.
- `delivery`: three effects against a batch of two, so that an effect that is
  not ready can stand in the way of others; a backoff cap of three ticks.
- `protection`: 3-bit words reach both ends of the arithmetic. The theorems hold
  for every word size.
- `supply`: two commitments, so that one is built on the other, and three blocks.
  One caller and two machines let a machine be replaced after a restart or a
  failure, and keep two from running at once; see the remark on `OneRuns` below.
- `minting`: two coins and two blocks let a second batch start while the first
  is being mined or re-organized out. Its one seedling is grouped. The branches
  that need a second fault (a failing cancellation after a failed step) are not
  reached.
- `transfers`: rivals share one coin, and the foreign transaction takes the
  other coin of the first, which gives every order of winners and losers.
- `receives`: one receive, of two assets by mailbox or of one by wallet. With
  both at once but without re-orgs and faults the invariants hold in 1,208,129
  states.

No symmetry is used: most instances check liveness, which TLC does not combine
with symmetry soundly.

### Fairness

Weak fairness is assumed only of goroutines that run on their own account.
Callers, faults and restarts are never forced, and miners only in the supply
run, where commitments are decided by blocks.

- Watcher: the loop runs its tasks, takes an event when some are waiting and
  sweeps on its ticker; each lagging delivery is retried until it commits.
- `Delivery`: time passes, both loops tick, inputs of effects appear.
- `Waiters`: a started goroutine delivers its nudge, a cultivator that can go on
  does.
- `Minting`: some cultivator, delivery or effect goes on, and the gardener takes
  the answers it waits for. The two are apart because callers may keep the
  gardener busy.
- `Transfers`: only the watcher.
- `Custodian`: retrieval goroutines, the completion a loop has begun, the start,
  and the notification of each held proof.
- `SupplyCommit`: a machine works off its events, blocks come and the watcher
  delivers what they decide, the outbox pushes and nudges. Nobody has to call the manager.

`CHECK_DEADLOCK FALSE` stands where the daemon may rest with nothing to do. The
watcher and protection runs are checked for deadlock.

## What is proved

TLAPS checks the theorems below for every value of the constants that satisfies
the named assumptions: any finite or infinite set of anchorings, any set of
transactions with a largest number, any thresholds, and any bound on chains,
re-orgs and faults.

- `Delivery_proofs`: `TypeCorrect`, `SitesNeverDiverge`, `EffectsAtLeastOnce`,
  `EffectsFollowDeliveries`, and `DeliveryImplementsPromise`, the refinement of
  `SiteConvergence`.
  The module also holds the theorems on `Waiters`, `WaitersTypeCorrect` and
  `NudgesAreNotLost` (`ChannelExists` is the strengthening: a cultivator inside
  its wait has a channel), and those on `Protection`, `FloorExact` for every word
  size, `AdoptionTypeCorrect`, `AdoptionComplete` and `FloorAlwaysAgrees`
  (`PassCovers` says that what is young at a pass's best height is anchored or
  among the rows still to visit).
- The watcher, in four modules that extend each other: `WellFormed_proofs`
  (lemmas on derivation, on the chain and on what a subscription reports, then
  the sensing tasks), `ReorgWatcher_proofs` (the handlers, the environment,
  `TypeCorrect`), `Finality_proofs` (`FinalityHolds`, `WholeSetHolds`) and
  `Safety_proofs` (`ActEvidenceHolds`, `NoContradictionHolds`).
- `Minting_proofs`: `Invariance`, `SlotSafe`, `LeasesSafe`, `CancelSafe` and
  `PublishSafe`, all the safety invariants of the minting run.
- `SupplyCommit_proofs`: `Invariance`, `UpdatesSafe`, `ServerSafe` and the action
  property `CommittedSafe` for any number of callers and machines; and, as long
  as one machine of the group runs at a time, `AloneInvariance`, `RootsMatch` and
  `LineageHolds`. Together these are all the safety properties of the supply run.
- `Custodian_proofs`: `Invariance`, `HeldSafe`, `CompletedSafe` and `RemovedSafe`,
  all the safety invariants of the run `receives`, for any receives of any number
  of assets.

`TypeOK` of the watcher is not inductive. `WellFormed` is: a stored candidate is
keyed by its own transaction, staged evidence names the parent of an edge that
exists, an anchoring that is not registered has no spends and no phase, a
delivered terminal phase is the sensed one, sensors, subscriptions and events in
flight refer to rows that exist, and so does each task on the loop's stack.

`Finality` needs `WellFormed` only. Each action either leaves certifications
alone (`Steady`) or records through the registry's guarded writes
(`RecordEffect`, `ConfirmationEffect`); a derivation from a certified row gives
the terminal phase again (`CertifiedIsTerminal`).

`ActEvidence` and `NoContradiction` need `Evidence` besides. Its conjuncts are:

- `EventsEvidence`: a confirmation in flight, act-level or not, reports a depth
  that some dominant chain had. Chains that were replaced are kept in `orphaned`, so the
  fact survives re-orgs (`HeldKept`).
- `CertsEvidence`: every certified candidate and foreclosure held its depth, and
  an anchoring has at most one certified candidate.
- `LastDerivation`: an anchoring that has a certification and is still sensed has
  its re-derivation on the stack. This is why a second certification cannot be
  recorded: the loop takes no event before the derivation has made the phase
  terminal, and a terminal anchoring has no sensor.
- `ActEvidence` itself.

The invariants of `Minting` follow from `MintInv`, which says of each batch how
its cultivator's place and in-memory state relate to its row (`InStep`), what the
cultivator has reported (`Reports`), what those who wait for its broadcast may
conclude (`SlotKnown`), that staking follows the slot and only the chain cancels
what is staked (`Staked`), and which assets and effects exist (`Sprouted`,
`Published`); and of the planter that its pending batch is in the slot with nobody
working on it (`Pending`), that a batch keeps its coin as long as a cultivator
works on it (`CoinsKept`), and that the batch in the slot is the only one and has
an owner (`OneInSlot`, `Owned`). A cancellation may find a cultivator between two
of its steps, which is why `InStep` allows the row to have been compensated.

The first group of theorems about `SupplyCommit` follows from `Rows`, which
speaks of stored rows only and so does not care how many machines read them:
`Record` relates the state row, the transition and the updates bound to it (a
transition is open exactly when updates are pending, only a frozen one has
updates waiting behind it, a signed one carries a commitment later than the
latest, nothing after the latest is finalised), `Trees` says that the trees hold
what the finalised commitments brought and that only those are pushed, and
`ServerFollows` is its own induction step.

`RootMatches` and `OneLineage` compare what a machine signed from memory with
what the rows later produce. Their invariant `AloneInv` says state by state what
a running machine's memory has to do with the rows (`Agrees`): in particular its
batch is the frozen one of the durable transition from the tick on until the
signature, which is why updates that come meanwhile do not get into the signed
root. It needs the hypothesis `[]OneRuns`, and the code does not establish that.
`fetchStateMachine` (`universe/supplycommit/manager.go:289`) looks the machine up
and stores a new one without a lock across the two, so two callers may each start
one; and `Set` (line 735) keeps an entry that exists, so a machine that stopped
on an error is never replaced, although the comment at line 297 says it is, and
each later call starts another. With a second caller, or a third machine after a
failed one, TLC finds behaviours that violate `RootMatches` and `OneLineage`. The
instance of the supply run, one caller and two machines, has no overlap, so what
it shows of these two properties is what the two theorems state.

The invariants of `Custodian` follow from `CustodyInv`. An abandonment is sensed
only of a transaction that is lost for good and is not taken back once delivered
(`Decided`, `Abandonment`), so a proof that was refused or withdrawn cannot come
back; each retrieval goroutine works for a recorded event and holds the proofs it
is done with, unless the receive was abandoned meanwhile (`Retrievals`), so the
message it removes is not needed again; and the start resumes recorded events
only (`Resumed`).

The assumptions are `ChainBounds`, `TransactionConstants`, `WatcherConstants`,
`DeliveryConstants`, `WaiterConstants`, `ProtectionConstants`, `MintConstants`,
`BoundsAssumption` (of `SupplyCommit`) and `CustodianConstants`: the types of the
constants, positive thresholds and backoffs, disjoint sets of live and final
phases, of mints and other updates and of the two kinds of receives, finitely
many updates, and receives that have outputs. TLC evaluates each of them in the
runs.

Only model-checked are: the liveness properties (fairness and `ENABLED` are out
of the prover's reach), `QuietMeansCurrent` and `StagingCurrent`, which relate
the watcher's rows to everything still in flight towards them, and everything
about `Transfers`. There `Descendants` follows one generation of spending
transfers, which is all the instance has; a theorem for every `Spends` would
claim chains of transfers that the model does not follow. No theorem states what
a recursive definition computes for every input, which needs induction over
data; no module uses a recursive operator.

## Findings

- `passive`: two transfers carry the same passive asset, the loser is abandoned
  before the winner's confirmation is delivered. `restorePassiveAssets`
  (`tapdb/freighter_anchoring.go:929`) marks the asset spent, and the winner's
  confirmation moves it without clearing the mark, so an asset the node owns
  leaves its balance.
- `listing`: the custodian lists the wallet from the highest block of the
  pending events on (`tapcustody/custodian.go:603`). A wallet transaction of a
  lower block that was queued when the process ended never gets an event,
  although the comment at line 598 says that all transactions are mapped.

Several hazards in `PROJECT.json` have a note in place of a property. They
record what the models showed to be reachable, or what they leave out: a second
failure to load dependents, triggers without hints, a seedling queued between
sealing and finalizing, a confirmation picked up before an abandonment, two
supply machines of one group, a broken wallet stream.

## Not modelled

The mapped code is a small part of the repository, most of which is not about
state that changes concurrently: proofs and their verification, MS-SMT and
commitment trees, the virtual machine, virtual packets, encodings, addresses,
generated queries and RPC code. The models use whether a proof verifies and
which set a root commits to. Of the stateful parts these are left out:

- universe federation and synchronisation, and the supply verifier's own state
  machine, beyond what `VerifyCommit` accepts and stores;
- RFQ negotiation, which rests on wall-clock expiry and lnd's interceptor, and
  asset channels, whose state machine is lnd's;
- the authenticated mailbox's stream, of which the custodian's use is modelled;
- inside the modelled parts: expiry of wallet leases before a batch is sent,
  burns and zero-value sweeps, adoption of legacy supply records, several
  universe servers with separate progress, bundles of several mailbox messages,
  the porter's own proofs sent to itself, pruning of the registry.

## Running it

    tlasany ReorgWatcher.tla
    tlc -workers 2 -config MCWatch.cfg MCWatch
    tlapm WellFormed_proofs.tla

`PROJECT.json` gives module and configuration of every run. The longest run takes
about three minutes with two workers, the longest proof module about fifteen.
