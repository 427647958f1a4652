------------------------------ MODULE Minting ------------------------------
(***************************************************************************)
(* Minting (tapgarden): the planter and its gardener goroutine, one        *)
(* cultivator goroutine per batch, the batch rows in tapdb, the wallet's   *)
(* leases, and the mint site whose handlers the re-org watcher calls while *)
(* the cultivators work.                                                   *)
(*                                                                         *)
(* A batch is funded with one coin and holds a set of seedlings; the       *)
(* grouped ones need a group witness, written when the batch is sealed.    *)
(* A block is the number of the confirmation it brings: a genesis          *)
(* transaction that is re-organised confirms again in a later one.  The    *)
(* registry's promise (Delivery) is taken for granted: a phase that is     *)
(* final on the chain is delivered and stays.                              *)
(***************************************************************************)
EXTENDS Naturals

CONSTANTS
    MaxBatches,  \* bound on batches
    Coins,       \* wallet outputs a batch can be funded with
    Seedlings,   \* names of assets to mint
    Grouped,     \* the ones with an asset group
    MaxBlocks,   \* bound on confirmations over all batches
    MaxFaults    \* bound on restarts and failing calls

ASSUME MintConstants ==
    /\ {MaxBatches, MaxBlocks, MaxFaults} \subseteq Nat
    /\ Grouped \subseteq Seedlings

Batches == 1..MaxBatches
None == 0
NoCoin == "none"

PreBroadcast == {"Pending", "Frozen"}
Cancelled == {"SeedlingCancelled", "SproutCancelled"}

VARIABLES
    row,        \* per batch: its row, with funding, seedlings and groups
    minted,     \* per batch: the asset rows, recorded block and stored proofs
    leased,     \* coins the wallet holds back
    tx,         \* per batch: the genesis transaction on the chain
    delivered,  \* per batch: the phase last delivered to the mint site
    effect,     \* per batch: the publication in the outbox
    pendingBatch, cultivators,
    cult,       \* per batch: its cultivator goroutine
    gardener,   \* what the gardener is blocked on
    watched,    \* resumed batches whose broadcast is watched
    dropped,    \* batches the planter reported it could not cancel
    block,      \* the last confirmation
    faults

durable == <<row, minted, leased, effect, delivered>>
planter == <<pendingBatch, cultivators, gardener, watched, dropped>>
vars == <<durable, planter, tx, cult, block, faults>>

-----------------------------------------------------------------------------
(* The store and the wallet. *)

(* UpdateBatchState writes whatever state it is given. *)
SetState(b, s) == row' = [row EXCEPT ![b].state = s]

(* releaseBatchFundingInputs *)
Release(b) == leased' = leased \ {row[b].coin}

Live(b) == row[b].state \notin Cancelled \cup {"Absent"}

(* The wallet funds with a coin that is neither leased nor spent. *)
Fundable == Coins \ (leased \cup {row[b].coin : b \in {x \in Batches : tx[x].sent}})

(* sealBatch looks at one of the grouped seedlings, whichever the map yields
   first, to see whether the batch is sealed already. *)
SealResults(r) ==
    LET grouped == r.seedlings \cap Grouped IN
    IF grouped = {} THEN {r.sealed}
    ELSE {IF s \in r.sealed THEN r.sealed ELSE grouped : s \in grouped}

Idle == [job |-> "none", batch |-> None]

NoCultivator == [at |-> "off", mem |-> "Absent", block |-> None, sent |-> "none"]

Launched(state) ==
    [at |-> IF state = "Confirmed" THEN "Finalized" ELSE state, mem |-> state,
     block |-> None, sent |-> "none"]

-----------------------------------------------------------------------------
(* The gardener works on one request at a time. *)

(* ensureBatchCreationAllowed *)
CreationAllowed ==
    /\ \A b \in cultivators : cult[b].mem \notin PreBroadcast
    /\ \A b \in Batches : row[b].state \notin PreBroadcast

NextBatch == CHOOSE b \in Batches : row[b].state = "Absent"

(* A new row in the pending state becomes the pending batch. *)
CreateBatch(seeds, coin) ==
    /\ pendingBatch = None /\ CreationAllowed
    /\ \E b \in Batches : row[b].state = "Absent"
    /\ row' = [row EXCEPT ![NextBatch] = [state |-> "Pending", coin |-> coin,
                                          seedlings |-> seeds, sealed |-> {}]]
    /\ pendingBatch' = NextBatch

(* prepAssetSeedling: a seedling of a new name goes to the pending batch, and
   starts one when there is none. *)
QueueSeedling(s) ==
    /\ gardener = Idle
    /\ \/ CreateBatch({s}, NoCoin)
       \/ /\ pendingBatch # None
          /\ s \notin row[pendingBatch].seedlings
          /\ row' = [row EXCEPT ![pendingBatch].seedlings = @ \cup {s}]
          /\ UNCHANGED pendingBatch
    /\ UNCHANGED <<minted, leased, effect, delivered, cultivators, gardener,
                   watched, dropped, tx, cult, block, faults>>

(* FundBatch: createFundedBatch or applyFundingToBatch; a failure releases the
   lease again and leaves nothing behind. *)
FundBatch ==
    /\ gardener = Idle
    /\ \E c \in Fundable :
        /\ \/ CreateBatch({}, c)
           \/ /\ pendingBatch # None
              /\ row[pendingBatch].coin = NoCoin
              /\ row' = [row EXCEPT ![pendingBatch].coin = c]
              /\ UNCHANGED pendingBatch
        /\ leased' = leased \cup {c}
    /\ UNCHANGED <<minted, effect, delivered, cultivators, gardener, watched,
                   dropped, tx, cult, block, faults>>

SealBatch ==
    /\ gardener = Idle
    /\ pendingBatch # None
    /\ row[pendingBatch].seedlings # {} /\ row[pendingBatch].coin # NoCoin
    /\ \E sealed \in SealResults(row[pendingBatch]) :
          row' = [row EXCEPT ![pendingBatch].sealed = sealed]
    /\ UNCHANGED <<minted, leased, effect, delivered, planter, tx, cult, block,
                   faults>>

(* FinalizeBatch: fund if need be, seal, freeze and start the cultivator.  A
   failure on the way leaves what was written by then, as FundBatch and
   SealBatch do; from here on the gardener waits for the broadcast. *)
FinalizeBatch ==
    /\ gardener = Idle
    /\ pendingBatch # None
    /\ LET b == pendingBatch IN
        /\ row[b].seedlings # {}
        /\ cult[b].at = "off"
        /\ \E c \in IF row[b].coin = NoCoin THEN Fundable ELSE {row[b].coin} :
           \E sealed \in SealResults(row[b]) :
            /\ row' = [row EXCEPT ![b].state = "Frozen", ![b].coin = c,
                                  ![b].sealed = sealed]
            /\ leased' = leased \cup {c}
        /\ cultivators' = cultivators \cup {b}
        /\ cult' = [cult EXCEPT ![b] = Launched("Frozen")]
        /\ gardener' = [job |-> "finalize", batch |-> b]
    /\ UNCHANGED <<minted, effect, delivered, pendingBatch, watched, dropped,
                   tx, block, faults>>

(* Releases the coin of any failed batch. *)
CancelFailedBatch_release(b) ==
    /\ Release(b)
    /\ IF cult[b].mem \in PreBroadcast THEN SetState(b, "SeedlingCancelled")
       ELSE UNCHANGED row

(* Cancels a failed batch whatever its state. *)
CancelFailedBatch_all(b) == SetState(b, "SeedlingCancelled") /\ Release(b)

(* Leaves every failed batch for the next start. *)
CancelFailedBatch_never(b) == UNCHANGED <<row, leased>>

(* cancelFailedBatch: only a batch in the slot is cancelled, the others are
   left for the next start. *)
CancelFailedBatch(b) ==
    IF cult[b].mem \in PreBroadcast
    THEN SetState(b, "SeedlingCancelled") /\ Release(b)
    ELSE UNCHANGED <<row, leased>>

Fault == faults < MaxFaults /\ faults' = faults + 1

(* The gardener takes the cultivator's answer to FinalizeBatch. *)
FinalizeDone(b) ==
    /\ gardener = [job |-> "finalize", batch |-> b]
    /\ cult[b].sent = "broadcast"
    /\ pendingBatch' = None
    /\ gardener' = Idle
    /\ cult' = [cult EXCEPT ![b].sent = "none"]
    /\ UNCHANGED <<durable, cultivators, watched, dropped, tx, block, faults>>

(* On an error the pending batch is forgotten unless it could not be
   cancelled. *)
FinalizeError(b) ==
    /\ gardener = [job |-> "finalize", batch |-> b]
    /\ cult[b].sent = "error"
    /\ \/ /\ CancelFailedBatch(b)
          /\ pendingBatch' = None
          /\ UNCHANGED faults
       \/ /\ cult[b].mem \in PreBroadcast /\ Fault
          /\ UNCHANGED <<row, leased, pendingBatch>>
    /\ cultivators' = cultivators \ {b}
    /\ cult' = [cult EXCEPT ![b] = NoCultivator]
    /\ gardener' = Idle
    /\ UNCHANGED <<minted, effect, delivered, watched, dropped, tx, block>>

(* CancelBatch without a cultivator: the pending batch itself. *)
CancelPending ==
    /\ gardener = Idle
    /\ cultivators = {} /\ pendingBatch # None
    /\ SetState(pendingBatch, "SeedlingCancelled")
    /\ Release(pendingBatch)
    /\ pendingBatch' = None
    /\ UNCHANGED <<minted, effect, delivered, cultivators, gardener, watched,
                   dropped, tx, cult, block, faults>>

(* CancelBatch with exactly one cultivator: ask it, and wait. *)
CancelBatch(b) ==
    /\ gardener = Idle
    /\ cultivators = {b} /\ pendingBatch = None
    /\ gardener' = [job |-> "cancel", batch |-> b]
    /\ UNCHANGED <<durable, pendingBatch, cultivators, watched, dropped, tx,
                   cult, block, faults>>

(* The cultivator had ended before it could read the request. *)
CancelTooLate(b) ==
    /\ gardener = [job |-> "cancel", batch |-> b]
    /\ cult[b].at = "off"
    /\ gardener' = Idle
    /\ cultivators' = cultivators \ {b}
    /\ UNCHANGED <<durable, pendingBatch, watched, dropped, tx, cult, block,
                   faults>>

(* completionSignals: the gardener drops a cultivator that has ended. *)
Completed(b) ==
    /\ gardener = Idle
    /\ b \in cultivators /\ cult[b].at = "off" /\ b \notin watched
    /\ cultivators' = cultivators \ {b}
    /\ cult' = [cult EXCEPT ![b] = NoCultivator]
    /\ UNCHANGED <<durable, pendingBatch, gardener, watched, dropped, tx, block,
                   faults>>

-----------------------------------------------------------------------------
(* The cultivator.  Its step writes the store first and its own copy of the  *)
(* state after.                                                              *)

Ends(b, c) == cult' = [cult EXCEPT ![b] = [c EXCEPT !.at = "off"]]

Steps(b, at, mem) == cult' = [cult EXCEPT ![b].at = at, ![b].mem = mem]

(* Seedlings become sprouts; every grouped one needs its group. *)
StepFrozen(b) ==
    /\ cult[b].at = "Frozen"
    /\ row[b].seedlings \cap Grouped \subseteq row[b].sealed
    /\ SetState(b, "Committed")
    /\ minted' = [minted EXCEPT ![b].assets = TRUE]
    /\ Steps(b, "Committed", "Committed")
    /\ UNCHANGED <<leased, effect, delivered, planter, tx, block, faults>>

(* CommitSignedGenesisTx *)
StepCommitted(b) ==
    /\ cult[b].at = "Committed"
    /\ SetState(b, "Broadcast")
    /\ Steps(b, "Broadcast", "Broadcast")
    /\ UNCHANGED <<minted, leased, effect, delivered, planter, tx, block, faults>>

(* Stake the anchoring, publish, report, wait. *)
StepBroadcast(b) ==
    /\ cult[b].at = "Broadcast"
    /\ tx[b].fate # "lost"
    /\ tx' = [tx EXCEPT ![b].staked = TRUE, ![b].sent = TRUE]
    /\ cult' = [cult EXCEPT ![b].at = "await", ![b].sent = "broadcast"]
    /\ UNCHANGED <<durable, planter, block, faults>>

(* A step before the broadcast fails: a group is missing, a call fails, or the
   transaction is refused after the anchoring was staked. *)
StepFails(b) ==
    /\ \/ /\ cult[b].at = "Frozen"
          /\ ~(row[b].seedlings \cap Grouped \subseteq row[b].sealed)
          /\ UNCHANGED <<tx, faults>>
       \/ /\ cult[b].at = "Broadcast" /\ tx[b].fate = "lost"
          /\ tx' = [tx EXCEPT ![b].staked = TRUE]
          /\ UNCHANGED faults
       \/ /\ cult[b].at \in {"Frozen", "Committed", "Broadcast"}
          /\ Fault
          /\ IF cult[b].at # "Broadcast" THEN UNCHANGED tx
             ELSE \E sent \in {tx[b].sent, TRUE} :
                    tx' = [tx EXCEPT ![b].staked = TRUE, ![b].sent = sent]
    /\ Ends(b, [cult[b] EXCEPT !.sent = "error"])
    /\ UNCHANGED <<durable, planter, block>>

(* waitForMintAnchoring resolves to a confirmation, or to the end of the
   cultivator of an abandoned batch. *)
AwaitOutcome(b) ==
    /\ cult[b].at = "await"
    /\ \/ /\ delivered[b].phase \in {"witnessed", "buried"}
          /\ cult' = [cult EXCEPT ![b].at = "Confirmed",
                                  ![b].block = delivered[b].block]
       \/ /\ delivered[b].phase = "abandoned"
          /\ Ends(b, [cult[b] EXCEPT !.mem = "SproutCancelled"])
    /\ UNCHANGED <<durable, planter, tx, block, faults>>

(* The proofs are built and verified against the chain; when they are refused
   the branch is retried with the same confirmation. *)
StepConfirmed(b) ==
    /\ cult[b].at = "Confirmed"
    /\ tx[b].at = cult[b].block
    /\ cult' = [cult EXCEPT ![b].at = "mark"]
    /\ UNCHANGED <<durable, planter, tx, block, faults>>

(* MarkBatchConfirmed, which expects the asset rows. *)
MarkBatchConfirmed(b) ==
    /\ cult[b].at = "mark"
    /\ minted[b].assets
    /\ SetState(b, "Confirmed")
    /\ minted' = [minted EXCEPT ![b].conf = cult[b].block,
                                ![b].proof = cult[b].block]
    /\ Steps(b, "Finalized", "Confirmed")
    /\ UNCHANGED <<leased, effect, delivered, planter, tx, block, faults>>

StepFinalized(b) ==
    /\ cult[b].at = "Finalized"
    /\ SetState(b, "Finalized")
    /\ Ends(b, [cult[b] EXCEPT !.mem = "Finalized"])
    /\ UNCHANGED <<minted, leased, effect, delivered, planter, tx, block, faults>>

(* No request is read between two attempts to confirm. *)
Cancellable_waiting == {"Frozen", "Committed", "Broadcast", "await", "Finalized"}

(* A cancel request is read between two steps, while waiting for the outcome
   and between two attempts to confirm. *)
Cancellable == {"Frozen", "Committed", "Broadcast", "await", "Confirmed",
                "Finalized"}

(* Cancel: what is cancelled depends on the step that comes next; the answer
   reaches the gardener in any case.  The write may fail. *)
Cancel(b) ==
    /\ gardener = [job |-> "cancel", batch |-> b]
    /\ cult[b].at \in Cancellable
    /\ gardener' = Idle
    /\ \/ /\ cult[b].mem \in PreBroadcast \cup {"Committed"}
          /\ LET to == IF cult[b].mem = "Committed" THEN "SproutCancelled"
                       ELSE "SeedlingCancelled" IN
             \/ /\ SetState(b, to) /\ Release(b)
                /\ Ends(b, [cult[b] EXCEPT !.mem = to, !.sent = "error"])
                /\ UNCHANGED faults
             \/ /\ Fault
                /\ Ends(b, [cult[b] EXCEPT !.sent = "error"])
                /\ UNCHANGED <<row, leased>>
          /\ cultivators' = cultivators \ {b}
       \/ /\ cult[b].mem \notin PreBroadcast \cup {"Committed"}
          /\ UNCHANGED <<row, leased, cultivators, cult, faults>>
    /\ UNCHANGED <<minted, effect, delivered, pendingBatch, watched, dropped,
                   tx, block>>

-----------------------------------------------------------------------------
(* Restart.  Start resumes what is neither final nor cancelled; a batch in    *)
(* the slot is funded, sealed and frozen first, and cancelled when that       *)
(* fails.                                                                     *)

Resumable == {b \in Batches : Live(b) /\ row[b].state # "Finalized"}

InSlot == {b \in Batches : row[b].state \in PreBroadcast}

(* What becomes of the rows and leases of the slot, and which of its batches
   are resumed or could not be cancelled. *)
ResumeSlot(resumed, failed) ==
    \/ /\ InSlot = {} /\ resumed = {} /\ failed = {}
       /\ UNCHANGED <<row, leased>>
    \/ \E b \in InSlot :
        \/ /\ row[b].seedlings # {} /\ resumed = {b} /\ failed = {}
           /\ \E c \in IF row[b].coin = NoCoin THEN Fundable
                       ELSE {row[b].coin} :
              \E sealed \in SealResults(row[b]) :
                /\ row' = [row EXCEPT ![b].state = "Frozen", ![b].coin = c,
                                      ![b].sealed = sealed]
                /\ leased' = leased \cup {c}
        \/ /\ SetState(b, "SeedlingCancelled") /\ Release(b)
           /\ resumed = {} /\ failed = {}
        \/ /\ resumed = {} /\ failed = {b}
           /\ \E c \in {row[b].coin} \cup
                        (IF row[b].coin = NoCoin THEN Fundable ELSE {}) :
              \E sealed \in {row[b].sealed} \cup SealResults(row[b]) :
                /\ row' = [row EXCEPT ![b].coin = c, ![b].sealed = sealed]
                /\ leased' = leased \cup ({c} \ {NoCoin})

Restart ==
    /\ \E resumed, failed \in SUBSET Batches :
        LET again == (Resumable \ InSlot) \cup resumed IN
        /\ ResumeSlot(resumed, failed)
        /\ cultivators' = again
        /\ cult' = [b \in Batches |-> IF b \in again THEN Launched(row'[b].state)
                                      ELSE NoCultivator]
        /\ watched' = {b \in again : row'[b].state # "Confirmed"}
        /\ dropped' = failed
    /\ pendingBatch' = None
    /\ gardener' = Idle
    /\ UNCHANGED <<minted, effect, delivered, tx, block>>

Crash == Fault /\ Restart

(* MarkBatchConfirmed finds no asset rows and indexes an empty list. *)
MarkPanics(b) ==
    /\ cult[b].at = "mark" /\ ~minted[b].assets
    /\ Restart
    /\ UNCHANGED faults

(* watchResumedCultivator *)
WatchResumed(b) ==
    /\ b \in watched /\ cult[b].sent # "none"
    /\ watched' = watched \ {b}
    /\ \/ /\ cult[b].sent = "broadcast"
          /\ UNCHANGED <<row, leased, dropped, faults>>
       \/ /\ cult[b].sent = "error"
          /\ \/ CancelFailedBatch(b) /\ UNCHANGED <<dropped, faults>>
             \/ /\ cult[b].mem \in PreBroadcast /\ Fault
                /\ dropped' = dropped \cup {b}
                /\ UNCHANGED <<row, leased>>
    /\ cult' = [cult EXCEPT ![b].sent = "none"]
    /\ UNCHANGED <<minted, effect, delivered, pendingBatch, cultivators,
                   gardener, tx, block>>

-----------------------------------------------------------------------------
(* The chain, the mint site and the outbox. *)

Mine(b) ==
    /\ tx[b].sent /\ tx[b].fate = "open" /\ tx[b].at = None
    /\ block < MaxBlocks
    /\ block' = block + 1
    /\ tx' = [tx EXCEPT ![b].at = block + 1]
    /\ UNCHANGED <<durable, planter, cult, faults>>

ReorgedOut(b) ==
    /\ tx[b].fate = "open" /\ tx[b].at # None
    /\ block < MaxBlocks
    /\ tx' = [tx EXCEPT ![b].at = None]
    /\ UNCHANGED <<durable, planter, cult, block, faults>>

Bury(b) ==
    /\ tx[b].fate = "open" /\ tx[b].at # None
    /\ tx' = [tx EXCEPT ![b].fate = "buried"]
    /\ UNCHANGED <<durable, planter, cult, block, faults>>

(* Another transaction claims the coin for good. *)
Conflict(b) ==
    /\ row[b].state \notin PreBroadcast \cup {"Absent", "Committed"}
    /\ row[b].coin # NoCoin
    /\ tx[b].fate = "open" /\ tx[b].at = None
    /\ tx' = [tx EXCEPT ![b].fate = "lost"]
    /\ UNCHANGED <<durable, planter, cult, block, faults>>

Phase(b) ==
    CASE tx[b].fate = "buried" -> "buried"
      [] tx[b].fate = "lost" -> "abandoned"
      [] tx[b].fate = "open" /\ tx[b].at # None -> "witnessed"
      [] OTHER -> "unwitnessed"

(* The site's handlers: reconfirm, withdraw the confirmation, and compensate
   an abandoned batch (ApplyMintAbandonment). *)
OnWitnessed(b) ==
    /\ minted' = [minted EXCEPT ![b].conf = tx[b].at,
                    ![b].proof = IF @ = None THEN None ELSE tx[b].at]
    /\ UNCHANGED row

OnUnwitnessed(b) ==
    /\ minted' = [minted EXCEPT ![b].conf = None]
    /\ UNCHANGED row

OnAbandoned(b) ==
    /\ minted' = [minted EXCEPT ![b] = [assets |-> FALSE, conf |-> None,
                                        proof |-> None]]
    /\ SetState(b, "SproutCancelled")

Deliver(b) ==
    /\ tx[b].staked
    /\ delivered[b] # [phase |-> Phase(b), block |-> tx[b].at]
    /\ delivered' = [delivered EXCEPT ![b] = [phase |-> Phase(b),
                                              block |-> tx[b].at]]
    /\ CASE Phase(b) \in {"witnessed", "buried"} -> OnWitnessed(b)
         [] Phase(b) = "unwitnessed" -> OnUnwitnessed(b)
         [] OTHER -> OnAbandoned(b)
    /\ effect' = IF Phase(b) = "buried" THEN [effect EXCEPT ![b] = "queued"]
                 ELSE effect
    /\ UNCHANGED <<leased, planter, tx, cult, block, faults>>

(* Publishes without looking at the batch. *)
DispatchMintPublish_early(b) ==
    /\ effect[b] = "queued"
    /\ effect' = [effect EXCEPT ![b] = "published"]
    /\ UNCHANGED <<row, minted, leased, delivered, planter, tx, cult, block,
                   faults>>

(* Misses a batch that is finalised already. *)
DispatchMintPublish_confirmed(b) ==
    /\ effect[b] = "queued"
    /\ row[b].state = "Confirmed"
    /\ effect' = [effect EXCEPT ![b] = "published"]
    /\ UNCHANGED <<row, minted, leased, delivered, planter, tx, cult, block,
                   faults>>

(* DispatchMintPublish waits for the batch to be confirmed. *)
DispatchMintPublish(b) ==
    /\ effect[b] = "queued"
    /\ row[b].state \in {"Confirmed", "Finalized"}
    /\ effect' = [effect EXCEPT ![b] = "published"]
    /\ UNCHANGED <<row, minted, leased, delivered, planter, tx, cult, block,
                   faults>>

-----------------------------------------------------------------------------
Init ==
    /\ row = [b \in Batches |-> [state |-> "Absent", coin |-> NoCoin,
                                 seedlings |-> {}, sealed |-> {}]]
    /\ minted = [b \in Batches |-> [assets |-> FALSE, conf |-> None,
                                    proof |-> None]]
    /\ leased = {}
    /\ tx = [b \in Batches |-> [staked |-> FALSE, sent |-> FALSE, at |-> None,
                                fate |-> "open"]]
    /\ delivered = [b \in Batches |-> [phase |-> "unwitnessed",
                                       block |-> None]]
    /\ effect = [b \in Batches |-> "none"]
    /\ pendingBatch = None /\ cultivators = {} /\ gardener = Idle
    /\ cult = [b \in Batches |-> NoCultivator]
    /\ watched = {} /\ dropped = {}
    /\ block = None /\ faults = 0

Cultivate(b) ==
    \/ StepFrozen(b) \/ StepCommitted(b) \/ StepBroadcast(b)
    \/ AwaitOutcome(b) \/ StepConfirmed(b) \/ MarkBatchConfirmed(b)
    \/ StepFinalized(b) \/ MarkPanics(b)

Answer(b) ==
    \/ FinalizeDone(b) \/ FinalizeError(b) \/ CancelTooLate(b) \/ Cancel(b)
    \/ Completed(b) \/ WatchResumed(b)

Next ==
    \/ \E s \in Seedlings : QueueSeedling(s)
    \/ FundBatch \/ SealBatch \/ FinalizeBatch \/ CancelPending
    \/ \E b \in Batches :
          \/ CancelBatch(b) \/ Answer(b) \/ Cultivate(b) \/ StepFails(b)
          \/ Mine(b) \/ ReorgedOut(b) \/ Bury(b) \/ Conflict(b)
          \/ Deliver(b) \/ DispatchMintPublish(b)
    \/ Crash

Spec == Init /\ [][Next]_vars

Working ==
    \E b \in Batches : Cultivate(b) \/ StepFails(b) \/ Deliver(b)
                       \/ DispatchMintPublish(b)
Answering == \E b \in Batches : Answer(b)

(* The cultivators, the watcher and its outbox go on, and so does the gardener;
   nobody has to call the planter. *)
FairSpec == Spec /\ WF_vars(Working) /\ WF_vars(Answering)

-----------------------------------------------------------------------------

(* At most one batch is in the slot the singleton index guards, and somebody
   can still move it out: the planter holds it as its pending batch, or a
   cultivator works on it or is being cleaned up after - unless the planter
   reported that it failed to cancel a batch it was resuming.  Otherwise
   minting would be wedged until the next start. *)
SlotOwned ==
    /\ \A b, x \in InSlot : b = x
    /\ \A b \in InSlot :
        \/ pendingBatch = b
        \/ cult[b].at # "off"
        \/ b \in watched /\ cult[b].sent = "error"
        \/ b \in dropped

(* The coin of a funded batch that is not cancelled and not yet sent stays
   leased, and no other such batch has it: every release follows a cancellation
   that was written (releaseBatchFundingInputs and its four callers). *)
LeasesHeld ==
    \A b \in Batches :
        Live(b) /\ row[b].coin # NoCoin /\ ~tx[b].sent =>
            /\ row[b].coin \in leased
            /\ \A x \in Batches \ {b} : Live(x) => row[x].coin # row[b].coin

(* A batch that a caller or a failure cancelled never reaches the network: a
   cancelled batch whose transaction was sent is one the chain decided
   against. *)
CancelledNeverSent ==
    \A b \in Batches :
        row[b].state \in Cancelled => ~tx[b].sent \/ tx[b].fate = "lost"

(* What is published to the universe is an issuance that is buried, whose
   assets exist and whose batch is confirmed. *)
PublishedOnlyBuried ==
    \A b \in Batches :
        effect[b] = "published" =>
            /\ tx[b].fate = "buried" /\ minted[b].assets
            /\ row[b].state \in {"Confirmed", "Finalized"}

(* The gardener never waits for ever, for the broadcast of a batch it
   finalises or for the answer to a cancel request - whatever the cultivator
   is doing, and also if it ends meanwhile. *)
CallerAnswered == gardener # Idle ~> gardener = Idle

(* Once the burial is delivered, a cultivator that has not picked up an older
   confirmation finalises its batch and the issuance is published, unless a
   resumed cultivator fails to broadcast again. *)
MintSettles ==
    \A b \in Batches :
        /\ delivered[b].phase = "buried"
        /\ cult[b].at \in {"await", "Confirmed", "mark", "Finalized"}
        /\ cult[b].block \in {None, tx[b].at}
        ~> \/ row[b].state = "Finalized" /\ effect[b] = "published"
           \/ cult[b].at = "off" /\ row[b].state = "Broadcast"

=============================================================================
