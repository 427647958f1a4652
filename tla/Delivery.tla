------------------------------ MODULE Delivery ------------------------------
(***************************************************************************)
(* The delivery loop and the outbox loop of the re-org watcher             *)
(* (tapreorg/service.go) over the registry rows they keep                  *)
(* (tapdb/reorg_registry.go, tapdb/sqlc/queries/reorg.sql).                *)
(*                                                                         *)
(* Sensing sets phases while a delivery pass works through the rows it     *)
(* scanned earlier.  A site's handler runs inside the transaction that     *)
(* records the delivery; a failed attempt is recorded by a transaction of  *)
(* its own.  Effects that handlers enqueue are carried out later, at least *)
(* once.  Kicks only make a pass begin earlier than its ticker, which may  *)
(* begin one at any time here.                                             *)
(***************************************************************************)
EXTENDS Naturals, FiniteSets

CONSTANTS
    Anchorings,          \* row ids
    LivePhases,          \* the phases sensing may still leave
    FinalPhases,         \* buried and abandoned
    EffectPhases,        \* the phases whose handler enqueues an effect
    StuckAfterAttempts, InitialBackoff, MaxBackoff,  \* the failure policy
    outboxBatchSize,     \* effects fetched per pass
    Effects,             \* bound: the ids of the effects ever enqueued
    MaxPhaseChanges,     \* bound: phases set
    MaxFailures          \* bound: failed calls and crashes

AllPhases == LivePhases \cup FinalPhases

ASSUME DeliveryConstants ==
    /\ Anchorings \subseteq Nat
    /\ Effects \subseteq Nat
    /\ LivePhases \cap FinalPhases = {}
    /\ EffectPhases \subseteq AllPhases
    /\ {StuckAfterAttempts, InitialBackoff, MaxBackoff, outboxBatchSize} \subseteq Nat \ {0}
    /\ {MaxPhaseChanges, MaxFailures} \subseteq Nat

VARIABLES
    phase, delivered,       \* the sensed and the delivered phase of each row
    attempts, stuck, wait,  \* failure bookkeeping; wait is the time to the next attempt
    site,                   \* the phase each site's own state reflects
    pass,                   \* the scanned rows the delivery pass has still to visit
    failed,                 \* the row whose failure is to be recorded, at most one
    outbox,                 \* outbox[e]: the row of effect e
    ready,                  \* the effects whose inputs exist
    batch,                  \* the effects fetched by the outbox pass
    performed,              \* the effects carried out since the last bookkeeping, at most one
    done,                   \* the effects carried out at least once
    changes, failures       \* bounded counters

rowVars == <<phase, delivered, attempts, stuck, wait, site>>
loopVars == <<pass, failed>>
outboxVars == <<outbox, ready, batch, performed, done>>
vars == <<rowVars, loopVars, outboxVars, changes, failures>>

NoEffect == [st |-> "none", id |-> 0, phase |-> "none", attempts |-> 0, wait |-> 0]
NewEffect(a, p) == [st |-> "pending", id |-> a, phase |-> p, attempts |-> 0, wait |-> 0]

Init ==
    /\ phase \in [Anchorings -> LivePhases]
    /\ delivered = phase
    /\ site = phase
    /\ attempts = [a \in Anchorings |-> 0]
    /\ stuck = [a \in Anchorings |-> FALSE]
    /\ wait = [a \in Anchorings |-> 0]
    /\ pass = {} /\ failed = {}
    /\ outbox = [e \in Effects |-> NoEffect]
    /\ ready = {} /\ batch = {} /\ performed = {} /\ done = {}
    /\ changes = 0 /\ failures = 0

Fails == failures < MaxFailures /\ failures' = failures + 1

-----------------------------------------------------------------------------
(* Backoff. *)

\* The base doubled once per prior attempt until it reaches the cap.
Doubled[n \in Nat] ==
    IF n <= 1 THEN InitialBackoff
    ELSE IF Doubled[n - 1] < MaxBackoff THEN 2 * Doubled[n - 1] ELSE Doubled[n - 1]

backoffFor(n) == IF Doubled[n] \in 0..MaxBackoff THEN Doubled[n] ELSE MaxBackoff

\* Time passes.
Tick ==
    /\ \/ \E a \in Anchorings : wait[a] > 0
       \/ \E e \in Effects : outbox[e].wait > 0
    /\ wait' = [a \in Anchorings |-> IF wait[a] > 0 THEN wait[a] - 1 ELSE 0]
    /\ outbox' = [e \in Effects |->
                    IF outbox[e].wait > 0 THEN [outbox[e] EXCEPT !.wait = @ - 1] ELSE outbox[e]]
    /\ UNCHANGED <<phase, delivered, attempts, stuck, site, loopVars, ready, batch, performed,
                   done, changes, failures>>

-----------------------------------------------------------------------------
(* Sensing, as far as the delivery loop meets it. *)

\* A terminal phase is absorbing at the row; a new phase is a new objective,
\* and the failure bookkeeping of the old one is reset.
SetPhase(a) ==
    /\ changes < MaxPhaseChanges
    /\ phase[a] \notin FinalPhases
    /\ \E p \in AllPhases \ {phase[a]} : phase' = [phase EXCEPT ![a] = p]
    /\ attempts' = [attempts EXCEPT ![a] = 0]
    /\ stuck' = [stuck EXCEPT ![a] = FALSE]
    /\ wait' = [wait EXCEPT ![a] = 0]
    /\ changes' = changes + 1
    /\ UNCHANGED <<delivered, site, loopVars, outboxVars, failures>>

-----------------------------------------------------------------------------
(* The delivery loop. *)

\* PendingDeliveries: the rows that lag and whose time has come.
Pending == {a \in Anchorings : phase[a] # delivered[a] /\ wait[a] = 0}

Scan ==
    /\ pass = {} /\ failed = {}
    /\ Pending # {}
    /\ pass' = {[id |-> a, target |-> phase[a], attempts |-> attempts[a]] : a \in Pending}
    /\ UNCHANGED <<rowVars, failed, outboxVars, changes, failures>>

\* Rows are visited in the order of their ids, one at a time.
Turn(r) == r \in pass /\ failed = {} /\ \A s \in pass : r.id <= s.id

\* What a handler writes: the site's state and, for some phases, an effect.
Handler(a, p) ==
    /\ site' = [site EXCEPT ![a] = p]
    /\ IF p \notin EffectPhases THEN UNCHANGED <<outbox, ready>>
       ELSE \E e \in Effects :
            /\ outbox[e] = NoEffect
            /\ \A d \in Effects : d < e => outbox[d] # NoEffect
            /\ outbox' = [outbox EXCEPT ![e] = NewEffect(a, p)]
            /\ ready' \in {ready, ready \cup {e}}

\* A delivery of the scanned phase without a look at the sensed one.
Deliver_stale(r) ==
    /\ Turn(r)
    /\ pass' = pass \ {r}
    /\ Handler(r.id, r.target)
    /\ delivered' = [delivered EXCEPT ![r.id] = r.target]
    /\ attempts' = [attempts EXCEPT ![r.id] = 0]
    /\ stuck' = [stuck EXCEPT ![r.id] = FALSE]
    /\ wait' = [wait EXCEPT ![r.id] = 0]
    /\ UNCHANGED <<phase, failed, batch, performed, done, changes, failures>>

\* The registry's Deliver: nothing happens unless the scanned phase is still
\* the sensed one.  The handler's writes and the delivery commit together.
Deliver(r) ==
    /\ Turn(r)
    /\ phase[r.id] = r.target
    /\ delivered[r.id] # r.target
    /\ pass' = pass \ {r}
    /\ Handler(r.id, r.target)
    /\ delivered' = [delivered EXCEPT ![r.id] = r.target]
    /\ attempts' = [attempts EXCEPT ![r.id] = 0]
    /\ stuck' = [stuck EXCEPT ![r.id] = FALSE]
    /\ wait' = [wait EXCEPT ![r.id] = 0]
    /\ UNCHANGED <<phase, failed, batch, performed, done, changes, failures>>

\* A pass that tries the same row over and over.
DeliverStale_again(r) ==
    /\ Turn(r)
    /\ phase[r.id] # r.target
    /\ UNCHANGED vars

\* ErrStaleDelivery: the rescan will pick up the new phase.
DeliverStale(r) ==
    /\ Turn(r)
    /\ phase[r.id] # r.target
    /\ pass' = pass \ {r}
    /\ UNCHANGED <<rowVars, failed, outboxVars, changes, failures>>

\* The delivery fails while the effect it enqueued stays behind.
DeliverFails_leaking(r) ==
    /\ Turn(r)
    /\ Fails
    /\ pass' = pass \ {r}
    /\ failed' = {r}
    /\ Handler(r.id, r.target)
    /\ UNCHANGED <<phase, delivered, attempts, stuck, wait, batch, performed, done, changes>>

\* The handler or the database fails, or the site is unknown: the
\* transaction is rolled back.
DeliverFails(r) ==
    /\ Turn(r)
    /\ Fails
    /\ pass' = pass \ {r}
    /\ failed' = {r}
    /\ UNCHANGED <<rowVars, outboxVars, changes>>

\* failDelivery: the attempts counted are those of the scanned row, and the
\* row is written whatever its phase is by now.
RecordDeliveryFailure(r) ==
    /\ failed = {r}
    /\ failed' = {}
    /\ attempts' = [attempts EXCEPT ![r.id] = @ + 1]
    /\ stuck' = [stuck EXCEPT ![r.id] = r.attempts + 1 >= StuckAfterAttempts]
    /\ wait' = [wait EXCEPT ![r.id] = backoffFor(r.attempts + 1)]
    /\ UNCHANGED <<phase, delivered, site, pass, outboxVars, changes, failures>>

\* The record itself fails: the row stays due.
RecordFails ==
    /\ failed # {}
    /\ Fails
    /\ failed' = {}
    /\ UNCHANGED <<rowVars, pass, outboxVars, changes>>

\* A registration that attaches to an anchoring runs the handler of its
\* delivered phase once more, in its own transaction (RegisterBatch).
Reconcile(a) ==
    /\ changes < MaxPhaseChanges /\ changes' = changes + 1
    /\ Handler(a, delivered[a])
    /\ UNCHANGED <<phase, delivered, attempts, stuck, wait, loopVars, batch, performed, done, failures>>

-----------------------------------------------------------------------------
(* The outbox loop. *)

Due == {e \in Effects : outbox[e].st = "pending" /\ outbox[e].wait = 0}

\* A pass that waits for a full batch.
FetchEffects_full ==
    /\ batch = {} /\ performed = {}
    /\ Cardinality(Due) >= outboxBatchSize
    /\ batch' = {e \in Due : Cardinality({d \in Due : d < e}) < outboxBatchSize}
    /\ UNCHANGED <<rowVars, loopVars, outbox, ready, performed, done, changes, failures>>

\* PendingEffects: the oldest due effects, up to the batch size.
FetchEffects ==
    /\ batch = {} /\ performed = {}
    /\ Due # {}
    /\ batch' = {e \in Due : Cardinality({d \in Due : d < e}) < outboxBatchSize}
    /\ UNCHANGED <<rowVars, loopVars, outbox, ready, performed, done, changes, failures>>

EffectTurn(e) == e \in batch /\ performed = {} /\ \A d \in batch : e <= d

\* The handler of an effect succeeds in the outside world.
DispatchEffect(e) ==
    /\ EffectTurn(e)
    /\ e \in ready
    /\ batch' = batch \ {e}
    /\ performed' = {e}
    /\ done' = done \cup {e}
    /\ UNCHANGED <<rowVars, loopVars, outbox, ready, changes, failures>>

MarkEffectDispatched(e) ==
    /\ performed = {e}
    /\ performed' = {}
    /\ outbox' = [outbox EXCEPT ![e].st = "dispatched"]
    /\ UNCHANGED <<rowVars, loopVars, ready, batch, done, changes, failures>>

\* The effect happened but could not be marked: it will be repeated.
MarkFails ==
    /\ performed # {}
    /\ Fails
    /\ performed' = {}
    /\ UNCHANGED <<rowVars, loopVars, outbox, ready, batch, done, changes>>

\* ErrEffectNotReady: nothing is recorded and no backoff applies.
EffectNotReady(e) ==
    /\ EffectTurn(e)
    /\ e \notin ready
    /\ batch' = batch \ {e}
    /\ UNCHANGED <<rowVars, loopVars, outbox, ready, performed, done, changes, failures>>

\* A failure that is taken for a success.
EffectFails_marked(e) ==
    /\ EffectTurn(e)
    /\ Fails
    /\ batch' = batch \ {e}
    /\ outbox' = [outbox EXCEPT ![e].st = "dispatched"]
    /\ UNCHANGED <<rowVars, loopVars, ready, performed, done, changes>>

\* RecordEffectFailure.
Failed(x, w) ==
    [st |-> x.st, id |-> x.id, phase |-> x.phase, attempts |-> x.attempts + 1, wait |-> w]

EffectFails(e) ==
    /\ EffectTurn(e)
    /\ Fails
    /\ batch' = batch \ {e}
    /\ outbox' = [outbox EXCEPT ![e] = Failed(@, backoffFor(@.attempts + 1))]
    /\ UNCHANGED <<rowVars, loopVars, ready, performed, done, changes>>

\* The owning subsystem completes the inputs and kicks the outbox.
BecomeReady(e) ==
    /\ outbox[e].st = "pending" /\ e \notin ready
    /\ ready' = ready \cup {e}
    /\ UNCHANGED <<rowVars, loopVars, outbox, batch, performed, done, changes, failures>>

\* The daemon stops anywhere and starts again: the rows survive.
Restart ==
    /\ Fails
    /\ pass' = {} /\ failed' = {} /\ batch' = {} /\ performed' = {}
    /\ UNCHANGED <<rowVars, outbox, ready, done, changes>>

-----------------------------------------------------------------------------

DeliveryStep ==
    \/ Scan
    \/ \E r \in pass : Deliver(r) \/ DeliverStale(r)
    \/ \E r \in failed : RecordDeliveryFailure(r)

OutboxStep ==
    \/ FetchEffects
    \/ \E e \in Effects : DispatchEffect(e) \/ MarkEffectDispatched(e) \/ EffectNotReady(e)

Next ==
    \/ Tick
    \/ \E a \in Anchorings : SetPhase(a) \/ Reconcile(a)
    \/ DeliveryStep \/ RecordFails \/ \E r \in pass : DeliverFails(r)
    \/ OutboxStep \/ MarkFails \/ \E e \in Effects : EffectFails(e) \/ BecomeReady(e)
    \/ Restart

Spec == Init /\ [][Next]_vars

\* Both loops run on tickers, time passes, and inputs become available.
FairSpec ==
    /\ Spec
    /\ WF_vars(Tick) /\ WF_vars(DeliveryStep) /\ WF_vars(OutboxStep)
    /\ \A e \in Effects : WF_vars(BecomeReady(e))

-----------------------------------------------------------------------------
(* Properties. *)

ScannedRows == [id : Anchorings, target : AllPhases, attempts : Nat]
EffectRows == [st : {"pending", "dispatched"}, id : Anchorings, phase : EffectPhases,
               attempts : Nat, wait : 0..MaxBackoff]

\* The type invariant; no backoff exceeds its cap.
TypeOK ==
    /\ {phase, delivered, site} \subseteq [Anchorings -> AllPhases]
    /\ attempts \in [Anchorings -> Nat]
    /\ stuck \in [Anchorings -> BOOLEAN]
    /\ wait \in [Anchorings -> 0..MaxBackoff]
    /\ {pass, failed} \subseteq SUBSET ScannedRows
    /\ outbox \in [Effects -> EffectRows \cup {NoEffect}]
    /\ {ready, batch, performed, done} \subseteq SUBSET Effects
    /\ changes \in Nat /\ failures \in Nat

\* What the outbox loop holds in memory are effects that were enqueued.
FetchedExist == \A e \in batch \cup performed : outbox[e] # NoEffect

\* A site's state and the registry never disagree about what was delivered,
\* whatever fails between a scan and the bookkeeping.
SiteMatchesRegistry == site = delivered

\* The effects of a terminal phase exist exactly when it was delivered: none
\* is lost with a delivery, none outlives a delivery that was rolled back.
EffectsMatchDeliveries ==
    \A a \in Anchorings, p \in FinalPhases \cap EffectPhases :
        delivered[a] = p <=> \E e \in Effects : outbox[e].id = a /\ outbox[e].phase = p
                                                /\ outbox[e] # NoEffect

\* An effect is never marked dispatched without having been carried out.
AtLeastOnce == \A e \in Effects : outbox[e].st = "dispatched" => e \in done

\* The delivery loop implements what the registry promises to sites: what a
\* site's own state reflects is what the promise calls delivered.
Promise ==
    INSTANCE SiteConvergence WITH
        Anchorings <- Anchorings, LivePhases <- LivePhases, FinalPhases <- FinalPhases,
        phase <- phase, delivered <- site
ImplementsPromise == Promise!Spec

\* Every anchoring's site converges to the phase it is finally sensed in.
Delivers == <>[](delivered = phase)

\* Every effect is dispatched in the end.
Dispatches == \A e \in Effects : outbox[e].st = "pending" ~> outbox[e].st = "dispatched"

=============================================================================
