--------------------------- MODULE SupplyCommit ---------------------------
(***************************************************************************)
(* The supply commitments of one asset group: the state machines of        *)
(* universe/supplycommit, their durable record in tapdb, the watcher's     *)
(* finaliser and compensator, and the canonical universe server that the   *)
(* finalised commitments are pushed to (universe/supplyverifier).          *)
(*                                                                         *)
(* An update event is a member of Mints or Others; the supply trees are    *)
(* the set of updates they hold, and the root of a commitment is the set   *)
(* it commits to.  A mint brings a pre-commitment output of the same name. *)
(* The chain is reduced to what the watcher promises its sites: a          *)
(* transaction is mined once and stays, and an anchoring is delivered      *)
(* buried or abandoned.                                                    *)
(***************************************************************************)
EXTENDS Naturals, Sequences, FiniteSets

CONSTANTS
    Mints,        \* issuances of the group, each with one pre-commitment
    Others,       \* burns and ignored outpoints
    Callers,      \* goroutines that use the manager at the same time
    MaxMachines,  \* bound on state machines started between two restarts
    MaxCommits,   \* bound on signed commitment transactions
    MaxHeight,    \* bound on the chain
    MaxQueue,     \* bound on the events waiting at a machine
    MaxFaults,    \* bound on restarts of the daemon and failing calls
    MaxForeign    \* bound on inputs claimed by foreign transactions

ASSUME BoundsAssumption ==
    /\ {MaxMachines, MaxCommits, MaxHeight, MaxQueue} \subseteq Nat \ {0}
    /\ {MaxFaults, MaxForeign} \subseteq Nat
    /\ Mints \cap Others = {}
    /\ IsFiniteSet(Mints \cup Others)

Updates == Mints \cup Others

None == 0

VARIABLES
    disk,      \* the state machine row and its pending transition
    bound,     \* per update: the transition its row is linked to
    coms,      \* the signed commitment transactions, in order of signing
    height,    \* the best block
    issuedAt,  \* per mint: the block of its transaction, 0 before
    foreign,   \* inputs spent by transactions that are no commitments
    nudges,    \* outbox: nudges to dispatch
    pushes,    \* outbox: commitments to push
    server,    \* the canonical universe: its commitments, pre-commitments
    machines,  \* the state machines started since the daemon's start
    cache,     \* the machine smCache holds, or None
    caller,    \* per caller: what it is about to start a machine for
    acked,     \* updates whose sender was told that they are recorded
    faults     \* restarts and failing calls so far

durable == <<disk, bound, coms, issuedAt, nudges, pushes>>
chain == <<height, foreign>>
memory == <<machines, cache, caller>>
vars == <<durable, chain, memory, server, acked, faults>>

-----------------------------------------------------------------------------
(* The durable record. *)

NoTransition == [open |-> FALSE, old |-> None, new |-> None, frozen |-> FALSE]

Transition(old) == [NoTransition EXCEPT !.open = TRUE, !.old = old]

Bound(where) == {u \in Updates : bound[u] = where}

SupplyTrees == Bound("final")

Buried == {n \in DOMAIN coms : coms[n].outcome = "buried"}

UnspentPrecommits ==
    {m \in Mints : issuedAt[m] > 0 /\ \A n \in Buried : m \notin coms[n].pre}

(* Inputs: the pre-commitments, by name, and the output of the old commitment,
   by its number. *)
Inputs(n) == coms[n].pre \cup ({coms[n].old} \ {None})

SpentOnChain(n) ==
    \/ Inputs(n) \cap foreign # {}
    \/ \E k \in DOMAIN coms \ {n} :
          coms[k].minedAt > 0 /\ Inputs(k) \cap Inputs(n) # {}

(* InsertPendingUpdate: "error" when no transition is pending and the row is
   not at rest, "duplicate" when the dedup index absorbs the event. *)
InsertResult(u) ==
    IF ~disk.pending.open /\ disk.state # "Default" THEN "error"
    ELSE IF bound[u] # "absent" THEN "duplicate" ELSE "inserted"

InsertPendingUpdate(u) ==
    IF InsertResult(u) # "inserted"
    THEN UNCHANGED <<disk, bound>>
    ELSE /\ disk' = IF disk.pending.open THEN disk
                    ELSE [disk EXCEPT !.state = "UpdatesPending",
                                      !.pending = Transition(disk.latest)]
         /\ bound' = [bound EXCEPT ![u] = IF disk.pending.frozen
                                          THEN "dangling" ELSE "pending"]

(* Mutant: the dangling rows are left for a later tick. *)
Rebind_closed(latest, ups) ==
    disk' = [state |-> "Default", latest |-> latest, pending |-> NoTransition]

(* bindDanglingUpdatesBody: a fresh transition on commitment latest takes the
   given updates; without any, nothing is pending. *)
Rebind(latest, ups) ==
    disk' = [state |-> IF ups = {} THEN "Default" ELSE "UpdatesPending",
             latest |-> latest,
             pending |-> IF ups = {} THEN NoTransition ELSE Transition(latest)]

-----------------------------------------------------------------------------
(* One state machine.  protofsm works through a machine's events one at a    *)
(* time, and through the internal events a step emits before the next event  *)
(* of the queue; an error of a step, or of the daemon event it emits, stops  *)
(* the machine.                                                              *)

NewMachine(state, com, events) ==
    [run |-> TRUE, state |-> state, ups |-> {}, root |-> {}, old |-> None,
     pre |-> {}, com |-> com, internal |-> "none", queue |-> events]

Update(u) == <<"update", u>>
Tick == <<"tick", None>>
BroadcastEvent == <<"broadcast", None>>

(* FetchState and the start-up events of startAssetSM. *)
StartedMachine ==
    CASE disk.state = "CommitBroadcast" ->
           NewMachine("CommitBroadcast", disk.pending.new,
                      <<BroadcastEvent, Tick>>)
      [] disk.state = "UpdatesPending" ->
           NewMachine("UpdatesPending", None, <<Tick>>)
      [] OTHER -> NewMachine("Default", None, <<>>)

Moves(i, sm) == machines' = [machines EXCEPT ![i] = sm]

Stopped == [NewMachine("Default", None, <<>>) EXCEPT !.run = FALSE]

Popped(sm) == [sm EXCEPT !.queue = Tail(@)]

Ready(i, event) ==
    /\ machines[i].run
    /\ machines[i].internal = "none"
    /\ machines[i].queue # <<>>
    /\ Head(machines[i].queue)[1] = event

ReadyInternal(i, event) == machines[i].run /\ machines[i].internal = event

(* A supply update in any state: the row first, then the answer to the sender;
   the two resting states also cache the event they recorded. *)
ProcessUpdate(i) ==
    /\ Ready(i, "update")
    /\ LET sm == Popped(machines[i])
           u == Head(machines[i].queue)[2]
           res == InsertResult(u) IN
        /\ InsertPendingUpdate(u)
        /\ acked' = IF res = "error" THEN acked ELSE acked \cup {u}
        /\ Moves(i, CASE res = "error" -> Stopped
                      [] /\ res = "inserted"
                         /\ sm.state \in {"Default", "UpdatesPending"} ->
                           [sm EXCEPT !.state = "UpdatesPending",
                                      !.ups = @ \cup {u}]
                      [] OTHER -> sm)
    /\ UNCHANGED <<coms, issuedAt, nudges, pushes, chain, cache,
                   caller, server, faults>>

(* Mutant: the batch is not frozen. *)
TickUpdatesPending_open(i, sm) ==
    LET ups == IF sm.ups = {} THEN Bound("pending") ELSE sm.ups IN
    /\ UNCHANGED disk
    /\ Moves(i, [sm EXCEPT !.state = "CommitTreeCreate", !.ups = ups,
                           !.internal = "createTree"])

(* A tick while updates are pending: take the cached batch, or the durable one
   when nothing is cached, freeze it and go on to the trees; with nothing to
   commit, return to rest. *)
TickUpdatesPending(i, sm) ==
    LET ups == IF sm.ups = {} THEN Bound("pending") ELSE sm.ups IN
    IF ups = {}
    THEN /\ disk' = [disk EXCEPT !.state = "Default"]
         /\ Moves(i, [sm EXCEPT !.state = "Default"])
    ELSE /\ disk' = [disk EXCEPT !.pending.frozen = disk.pending.open]
         /\ Moves(i, [sm EXCEPT !.state = "CommitTreeCreate", !.ups = ups,
                                !.internal = "createTree"])

(* A tick while a commitment is out: adopt the durable record if the watcher
   has moved it on. *)
TickBroadcast(i, sm) ==
    /\ UNCHANGED disk
    /\ Moves(i, CASE disk.state = "Default" ->
                       [sm EXCEPT !.state = "Default", !.ups = {}]
                  [] disk.state = "UpdatesPending" ->
                       [sm EXCEPT !.state = "UpdatesPending",
                                  !.ups = Bound("pending"),
                                  !.internal = "tick"]
                  [] OTHER -> sm)

ProcessTick(i) ==
    /\ \/ Ready(i, "tick")
       \/ ReadyInternal(i, "tick")
    /\ LET old == machines[i]
           sm == IF old.internal = "tick"
                 THEN [old EXCEPT !.internal = "none"] ELSE Popped(old) IN
        CASE sm.state = "UpdatesPending" -> TickUpdatesPending(i, sm)
          [] sm.state = "CommitBroadcast" -> TickBroadcast(i, sm)
          [] OTHER -> Moves(i, sm) /\ UNCHANGED disk
    /\ UNCHANGED <<bound, coms, issuedAt, nudges, pushes, chain,
                   cache, caller, server, acked, faults>>

(* CreateTreeEvent: apply the batch to the stored trees. *)
ProcessCreateTree(i) ==
    /\ ReadyInternal(i, "createTree")
    /\ Moves(i, [machines[i] EXCEPT !.state = "CommitTxCreate",
                                    !.root = SupplyTrees \cup machines[i].ups,
                                    !.internal = "createTx"])
    /\ UNCHANGED <<durable, chain, cache, caller, server, acked, faults>>

(* Mutant: the old commitment is not an input. *)
ProcessCreateTx_rootless(i) ==
    /\ ReadyInternal(i, "createTx")
    /\ Moves(i, [machines[i] EXCEPT !.state = "CommitTxSign",
                                    !.pre = UnspentPrecommits,
                                    !.internal = "signTx"])
    /\ UNCHANGED <<durable, chain, cache, caller, server, acked, faults>>

(* CreateTxEvent: spend every unspent pre-commitment and the latest
   commitment. *)
ProcessCreateTx(i) ==
    /\ ReadyInternal(i, "createTx")
    /\ Moves(i, [machines[i] EXCEPT !.state = "CommitTxSign",
                                    !.pre = UnspentPrecommits,
                                    !.old = disk.latest,
                                    !.internal = "signTx"])
    /\ UNCHANGED <<durable, chain, cache, caller, server, acked, faults>>

(* SignTxEvent: the anchoring, the commitment row, its link to the pending
   transition and the durable broadcast state are one write
   (ApplyCommitTxStake). *)
ApplyCommitTxStake(sm) ==
    /\ coms' = Append(coms, [pre |-> sm.pre, old |-> sm.old, root |-> sm.root,
                             leaves |-> {}, published |-> FALSE,
                             minedAt |-> 0, outcome |-> "staked"])
    /\ disk' = [disk EXCEPT !.state = "CommitBroadcast",
                            !.pending.new = Len(coms) + 1]

ProcessSignTx(i) ==
    /\ ReadyInternal(i, "signTx")
    /\ Len(coms) < MaxCommits
    /\ IF disk.pending.open
       THEN /\ ApplyCommitTxStake(machines[i])
            /\ Moves(i, [NewMachine("CommitBroadcast", Len(coms) + 1,
                                    machines[i].queue)
                            EXCEPT !.internal = "broadcast"])
       ELSE Moves(i, Stopped) /\ UNCHANGED <<disk, coms>>
    /\ UNCHANGED <<bound, issuedAt, nudges, pushes, chain, cache,
                   caller, server, acked, faults>>

(* A publication is rejected when the chain or the mempool holds a conflicting
   transaction, and the rejection stops the machine. *)
Rejected(n) ==
    \/ SpentOnChain(n)
    \/ \E k \in DOMAIN coms \ {n} :
          coms[k].published /\ Inputs(k) \cap Inputs(n) # {}

(* BroadcastEvent, from the step that signed or from the start of a machine.
   The anchoring was staked with the signature, so none has to be added. *)
ProcessBroadcast(i) ==
    /\ \/ Ready(i, "broadcast")
       \/ ReadyInternal(i, "broadcast")
    /\ LET old == machines[i]
           sm == IF old.internal = "broadcast"
                 THEN [old EXCEPT !.internal = "none"] ELSE Popped(old) IN
        IF Rejected(sm.com)
        THEN Moves(i, Stopped) /\ UNCHANGED coms
        ELSE Moves(i, sm) /\ coms' = [coms EXCEPT ![sm.com].published = TRUE]
    /\ UNCHANGED <<disk, bound, issuedAt, nudges, pushes, chain,
                   cache, caller, server, acked, faults>>

(* A call a step makes fails (a read or write of the database, funding,
   signing, registering, publishing): the step has no effect on disk and the
   machine stops. *)
StepFails(i) ==
    /\ faults < MaxFaults
    /\ machines[i].run
    /\ machines[i].internal # "none" \/ machines[i].queue # <<>>
    /\ Moves(i, Stopped)
    /\ faults' = faults + 1
    /\ UNCHANGED <<durable, chain, cache, caller, server, acked>>

-----------------------------------------------------------------------------
(* The manager.  fetchStateMachine looks into smCache, starts a machine when  *)
(* it finds none that runs, and offers it to the cache, which keeps the entry *)
(* it has (stateMachineCache.Set).  The lookup and the rest are two steps.    *)

Idle == [event |-> Tick, nudge |-> FALSE, busy |-> FALSE]

Running == cache # None /\ machines[cache].run

(* The event is handed over; the outbox row of a nudge goes with it. *)
Send(i, job) ==
    /\ machines' = [machines EXCEPT ![i].queue = Append(@, job.event)]
    /\ nudges' = IF job.nudge THEN nudges - 1 ELSE nudges

(* CheckSupplyCommitSupport: the group exists once its first mint does. *)
Call(c, job) ==
    /\ ~caller[c].busy
    /\ \E m \in Mints : issuedAt[m] > 0
    /\ IF Running
       THEN Send(cache, job) /\ UNCHANGED caller
       ELSE /\ caller' = [caller EXCEPT ![c] = job]
            /\ UNCHANGED <<machines, nudges>>
    /\ UNCHANGED <<disk, bound, coms, issuedAt, pushes, chain, cache, server,
                   acked, faults>>

(* The bound on the calls of the API that wait at a machine. *)
QueueHasRoom == Running => Len(machines[cache].queue) < MaxQueue

InFlight(u) ==
    \/ \E c \in Callers : caller[c].busy /\ caller[c].event = Update(u)
    \/ \E i \in DOMAIN machines : \E k \in DOMAIN machines[i].queue :
          machines[i].queue[k] = Update(u)

(* A mint, burn or ignore event is sent; a mint once its block is known. *)
SendUpdate(c, u) ==
    /\ u \in Mints => issuedAt[u] > 0
    /\ bound[u] = "absent" /\ ~InFlight(u)
    /\ QueueHasRoom
    /\ Call(c, [event |-> Update(u), nudge |-> FALSE, busy |-> TRUE])

(* An update that is already recorded is sent again, as after a restart. *)
ResendUpdate(c, u) ==
    /\ bound[u] # "absent" /\ ~InFlight(u)
    /\ QueueHasRoom
    /\ Call(c, [event |-> Update(u), nudge |-> FALSE, busy |-> TRUE])

StartSupplyPublishFlow(c) ==
    /\ QueueHasRoom
    /\ Call(c, [event |-> Tick, nudge |-> FALSE, busy |-> TRUE])

(* The outbox loop works on one effect at a time. *)
DispatchCommitNudge(c) ==
    /\ nudges > 0
    /\ \A d \in Callers : ~(caller[d].busy /\ caller[d].nudge)
    /\ Call(c, [event |-> Tick, nudge |-> TRUE, busy |-> TRUE])

CacheSet(i) == cache' = IF cache = None THEN i ELSE cache

StartAssetSM(c) ==
    /\ caller[c].busy
    /\ Len(machines) < MaxMachines
    /\ LET sm == StartedMachine
           job == caller[c] IN
        /\ machines' = Append(machines,
                              [sm EXCEPT !.queue = Append(@, job.event)])
        /\ nudges' = IF job.nudge THEN nudges - 1 ELSE nudges
    /\ CacheSet(Len(machines) + 1)
    /\ caller' = [caller EXCEPT ![c] = Idle]
    /\ UNCHANGED <<disk, bound, coms, issuedAt, pushes, chain,
                   server, acked, faults>>

Crash ==
    /\ faults < MaxFaults
    /\ faults' = faults + 1
    /\ machines' = <<>>
    /\ cache' = None
    /\ caller' = [c \in Callers |-> Idle]
    /\ UNCHANGED <<durable, chain, server, acked>>

-----------------------------------------------------------------------------
(* The chain, and what the re-org watcher delivers. *)

(* A mint is confirmed; with it its pre-commitment can be spent. *)
Issue(m) ==
    /\ issuedAt[m] = 0 /\ height < MaxHeight
    /\ height' = height + 1
    /\ issuedAt' = [issuedAt EXCEPT ![m] = height + 1]
    /\ UNCHANGED <<disk, bound, coms, nudges, pushes, foreign,
                   memory, server, acked, faults>>

EmptyBlock ==
    /\ height < MaxHeight
    /\ height' = height + 1
    /\ UNCHANGED <<durable, foreign, memory, server, acked, faults>>

Mine(n) ==
    /\ coms[n].published /\ coms[n].minedAt = 0
    /\ ~SpentOnChain(n)
    /\ height < MaxHeight
    /\ height' = height + 1
    /\ coms' = [coms EXCEPT ![n].minedAt = height + 1]
    /\ UNCHANGED <<disk, bound, issuedAt, nudges, pushes, foreign,
                   memory, server, acked, faults>>

(* A transaction of another origin claims an input first. *)
ForeignSpend(n) ==
    /\ Cardinality(foreign) < MaxForeign
    /\ coms[n].outcome = "staked" /\ coms[n].minedAt = 0
    /\ ~SpentOnChain(n)
    /\ \E inp \in Inputs(n) : foreign' = foreign \cup {inp}
    /\ UNCHANGED <<durable, height, memory, server, acked, faults>>

(* applyStateTransitionBody: the pending updates enter the trees, the
   commitment becomes the latest, and the dangling ones are bound. *)
ApplyStateTransition(n) ==
    /\ coms' = [coms EXCEPT ![n].outcome = "buried",
                            ![n].leaves = Bound("pending")]
    /\ Rebind(n, Bound("dangling"))
    /\ bound' = [u \in Updates |-> CASE bound[u] = "pending" -> "final"
                                     [] bound[u] = "dangling" -> "pending"
                                     [] OTHER -> bound[u]]

(* It returns an error, and the delivery is retried, unless the pending
   transition carries this commitment. *)
ApplyCommitFinalize(n) ==
    /\ disk.pending.open /\ disk.pending.new = n
    /\ ApplyStateTransition(n)

(* Mutant: the finaliser emits no nudge. *)
OnBuried_silent(n) ==
    /\ coms[n].outcome = "staked" /\ coms[n].minedAt > 0
    /\ ApplyCommitFinalize(n)
    /\ pushes' = pushes \cup {n}
    /\ UNCHANGED <<issuedAt, nudges, chain, memory, server, acked,
                   faults>>

(* Finalise, and enqueue the nudge and the push. *)
OnBuried(n) ==
    /\ coms[n].outcome = "staked" /\ coms[n].minedAt > 0
    /\ ApplyCommitFinalize(n)
    /\ nudges' = nudges + 1
    /\ pushes' = pushes \cup {n}
    /\ UNCHANGED <<issuedAt, chain, memory, server, acked, faults>>

(* Mutant: every row of the group is returned to a fresh transition. *)
ApplyCommitAbandonment_all(n) ==
    /\ Rebind(disk.latest, Updates \ Bound("absent"))
    /\ bound' = [u \in Updates |-> IF bound[u] = "absent"
                                   THEN "absent" ELSE "pending"]

(* The updates of the transition that rides on the lost transaction return to
   a fresh one; another transition is left alone. *)
ApplyCommitAbandonment(n) ==
    IF disk.pending.open /\ disk.pending.new = n
    THEN /\ Rebind(disk.latest, Bound("pending") \cup Bound("dangling"))
         /\ bound' = [u \in Updates |-> IF bound[u] = "dangling"
                                        THEN "pending" ELSE bound[u]]
    ELSE UNCHANGED <<disk, bound>>

OnAbandoned(n) ==
    /\ coms[n].outcome = "staked" /\ SpentOnChain(n)
    /\ coms' = [coms EXCEPT ![n].outcome = "abandoned"]
    /\ ApplyCommitAbandonment(n)
    /\ nudges' = nudges + 1
    /\ UNCHANGED <<issuedAt, pushes, chain, memory, server, acked,
                   faults>>

-----------------------------------------------------------------------------
(* The canonical universe server. *)

(* The issuance proof of a mint reaches the server, which notes the
   pre-commitment output of its transaction. *)
ServerLearns(m) ==
    /\ issuedAt[m] > 0 /\ m \notin server.pre
    /\ server' = [server EXCEPT !.pre = @ \cup {m}]
    /\ UNCHANGED <<durable, chain, memory, acked, faults>>

ServerTrees == UNION {coms[n].leaves : n \in server.has}

(* FetchPreCommits: the stored ones that are unspent and not above the
   commitment's block, and the ones its own mint leaves bring. *)
FetchPreCommits(n) ==
    {m \in server.pre : /\ \A k \in server.has : m \notin coms[k].pre
                        /\ issuedAt[m] <= coms[n].minedAt}
    \cup (coms[n].leaves \cap Mints)

(* verifyPrecommitsSpent: each of them that is not above the commitment's
   block is an input; a first commitment spends at least one. *)
PrecommitsSpent(n) ==
    LET known == FetchPreCommits(n) IN
    /\ coms[n].old = None => known # {}
    /\ {m \in known : issuedAt[m] <= coms[n].minedAt} \subseteq coms[n].pre

(* Mutant: the commitment is taken without its parent. *)
VerifyCommit_orphan(n) == PrecommitsSpent(n)

(* A first commitment is taken by a server that holds none, and its leaves are
   all it commits to. *)
verifyInitialCommit(n) ==
    /\ coms[n].old = None /\ server.has = {}
    /\ PrecommitsSpent(n)
    /\ coms[n].leaves = coms[n].root

(* A later one needs its parent, whose root is the stored trees', and leaves
   that lead from there to its own root. *)
verifyIncrementalCommit(n) ==
    /\ coms[n].old \in server.has
    /\ coms[coms[n].old].root = ServerTrees
    /\ PrecommitsSpent(n)
    /\ ServerTrees \cup coms[n].leaves = coms[n].root

VerifyCommit(n) == verifyInitialCommit(n) \/ verifyIncrementalCommit(n)

(* DispatchCommitPush: the effect is done once the server accepted, or
   absorbed, the commitment; a refusal leaves it for the next attempt. *)
DispatchCommitPush(n) ==
    /\ n \in server.has \/ VerifyCommit(n)
    /\ server' = [has |-> server.has \cup {n},
                  pre |-> server.pre \cup (coms[n].leaves \cap Mints)]
    /\ \/ pushes' = pushes \ {n}
       \/ faults < MaxFaults /\ UNCHANGED pushes   \* the answer is lost
    /\ UNCHANGED <<disk, bound, coms, issuedAt, nudges, chain, memory,
                   acked, faults>>

-----------------------------------------------------------------------------
Init ==
    /\ disk = [state |-> "Default", latest |-> None, pending |-> NoTransition]
    /\ bound = [u \in Updates |-> "absent"]
    /\ coms = <<>>
    /\ height = 0
    /\ issuedAt = [m \in Mints |-> 0]
    /\ foreign = {}
    /\ nudges = 0
    /\ pushes = {}
    /\ server = [has |-> {}, pre |-> {}]
    /\ machines = <<>>
    /\ cache = None
    /\ caller = [c \in Callers |-> Idle]
    /\ acked = {}
    /\ faults = 0

MachineStep ==
    \E i \in DOMAIN machines :
        \/ ProcessUpdate(i)
        \/ ProcessTick(i)
        \/ ProcessCreateTree(i)
        \/ ProcessCreateTx(i)
        \/ ProcessSignTx(i)
        \/ ProcessBroadcast(i)

Nudging == \E c \in Callers : DispatchCommitNudge(c) \/ StartAssetSM(c)

Watching ==
    \E n \in DOMAIN coms : Mine(n) \/ OnBuried(n) \/ OnAbandoned(n)

Pushing == \E n \in pushes : DispatchCommitPush(n)

Next ==
    \/ MachineStep
    \/ \E i \in DOMAIN machines : StepFails(i)
    \/ \E c \in Callers :
          \/ \E u \in Updates : SendUpdate(c, u) \/ ResendUpdate(c, u)
          \/ StartSupplyPublishFlow(c)
    \/ Nudging
    \/ Crash
    \/ \E m \in Mints : Issue(m) \/ ServerLearns(m)
    \/ EmptyBlock
    \/ Watching
    \/ \E n \in DOMAIN coms : ForeignSpend(n)
    \/ Pushing

Spec == Init /\ [][Next]_vars

(* A machine works off its events, the watcher and the miners do their part,
   and the outbox retries what it has not dispatched.  Nobody has to call the
   manager. *)
FairSpec ==
    /\ Spec
    /\ WF_vars(MachineStep)
    /\ WF_vars(Nudging)
    /\ WF_vars(Watching)
    /\ WF_vars(Pushing)

-----------------------------------------------------------------------------

(* An update whose sender was told that it is recorded is never lost: it is in
   the trees, in the pending transition, or dangling behind one that is frozen
   (InsertPendingUpdate, ApplyCommitFinalize, ApplyCommitAbandonment), and the
   durable state is at rest exactly when nothing is pending. *)
NoUpdateLost ==
    /\ \A u \in acked : bound[u] # "absent"
    /\ Bound("pending") # {} => disk.pending.open
    /\ Bound("dangling") # {} => disk.pending.open /\ disk.pending.frozen
    /\ disk.pending.open <=> disk.state # "Default"

(* A finalised commitment's root on the chain is the root of the durable trees
   it was finalised into: what a machine signed from its in-memory batch is
   what applyStateTransitionBody later applies from the rows. *)
RootMatches ==
    \A n \in Buried :
        coms[n].root =
            UNION {coms[k].leaves : k \in {k \in Buried : k <= n}}

(* Commitments form one line: the commitment a pending transition was signed
   with spends the latest one, and so did every finalised one. *)
OneLineage ==
    /\ disk.pending.new # None =>
          /\ coms[disk.pending.new].old = disk.latest
          /\ disk.pending.old = disk.latest
    /\ \A n \in Buried : \A k \in Buried : k < n => coms[n].old >= k

(* What is finalised stays so: a committed update is not taken out of the
   trees, and the latest commitment only moves on (ApplyCommitAbandonment does
   not touch what a finalised transition holds). *)
CommittedForever ==
    [][/\ Buried \subseteq Buried'
       /\ SupplyTrees \subseteq SupplyTrees'
       /\ disk'.latest >= disk.latest]_vars

(* The server's trees always are the root of the last commitment it took, in
   the issuer's order, whatever is pushed twice or before its parent
   (InsertSupplyCommit and VerifyCommit of the verifier). *)
ServerFollows ==
    /\ \A n \in server.has : coms[n].old \in server.has \cup {None}
    /\ \A n \in server.has : coms[n].root \subseteq ServerTrees
    /\ server.has # {} => \E n \in server.has : coms[n].root = ServerTrees

(* The bounds of the model, or a fault, have ended the unattended work. *)
Exhausted ==
    \/ faults > 0 \/ foreign # {}
    \/ height = MaxHeight \/ Len(coms) = MaxCommits
    \/ Len(machines) = MaxMachines /\ ~Running

(* An update recorded while a commitment is out does not wait for a caller:
   the commitment is published and decided, the finaliser binds the update and
   the nudge alone has it signed into the next one (DispatchCommitNudge, the
   resting handler of CommitBroadcastState), as long as no restart, failing
   call or rejected publication takes the machine. *)
Unattended ==
    \A u \in Updates :
        bound[u] = "dangling" ~>
            (\E n \in DOMAIN coms : u \in coms[n].root) \/ Exhausted

=============================================================================
