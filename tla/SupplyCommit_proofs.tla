------------------------ MODULE SupplyCommit_proofs ------------------------
(***************************************************************************)
(* Proofs about SupplyCommit, for any number of updates, callers, state    *)
(* machines, commitments, failing calls and restarts.                      *)
(***************************************************************************)
EXTENDS SupplyCommit, TLAPS

Events == ({"update"} \X Updates) \cup {Tick, BroadcastEvent}
Machines == [run : BOOLEAN,
             state : {"Default", "UpdatesPending", "CommitTreeCreate",
                      "CommitTxCreate", "CommitTxSign", "CommitBroadcast"},
             ups : SUBSET Updates, root : SUBSET Updates, old : Nat,
             pre : SUBSET Mints, com : Nat,
             internal : {"none", "tick", "createTree", "createTx", "signTx",
                         "broadcast"},
             queue : Seq(Events)]
Commitments == [pre : SUBSET Mints, old : Nat, root : SUBSET Updates,
                leaves : SUBSET Updates, published : BOOLEAN, minedAt : Nat,
                outcome : {"staked", "buried", "abandoned"}]
Transitions == [open : BOOLEAN, old : Nat, new : Nat, frozen : BOOLEAN]
Records == [state : {"Default", "UpdatesPending", "CommitBroadcast"},
            latest : Nat, pending : Transitions]
Jobs == [event : Events, nudge : BOOLEAN, busy : BOOLEAN]

\* The type invariant.
TypeOK ==
    /\ disk \in Records
    /\ bound \in [Updates -> {"absent", "pending", "dangling", "final"}]
    /\ coms \in Seq(Commitments)
    /\ height \in Nat
    /\ issuedAt \in [Mints -> Nat]
    /\ machines \in Seq(Machines)
    /\ cache \in 0..Len(machines)
    /\ caller \in [Callers -> Jobs]
    /\ server \in [has : SUBSET Nat, pre : SUBSET Mints]
    /\ acked \subseteq Updates

\* The durable record: an open transition has updates, one that is closed is
\* not frozen, a signed one carries a commitment later than the latest, and no
\* commitment after the latest is finalised.
Record ==
    /\ disk.pending.open <=> Bound("pending") # {}
    /\ disk.pending.frozen => disk.pending.open
    /\ Bound("dangling") # {} => disk.pending.frozen
    /\ disk.pending.open <=> disk.state # "Default"
    /\ disk.state = "CommitBroadcast" <=> disk.pending.new # None
    /\ disk.pending.open => disk.pending.old = disk.latest
    /\ disk.pending.new # None => /\ disk.pending.new \in DOMAIN coms
                                  /\ disk.pending.new > disk.latest
    /\ disk.latest <= Len(coms)
    /\ \A n \in Buried : n <= disk.latest
    /\ \A u \in acked : bound[u] # "absent"

\* The trees hold what the finalised commitments brought, and what is pushed
\* or taken by the server is finalised.
Trees ==
    /\ SupplyTrees = UNION {coms[n].leaves : n \in Buried}
    /\ pushes \subseteq Buried
    /\ server.has \subseteq Buried

\* At most one machine of the group runs.
OneRuns ==
    \A i, j \in DOMAIN machines : machines[i].run /\ machines[j].run => i = j

\* A machine's batch is the frozen one of the durable transition.
HasBatch(sm, d, pend) ==
    d.state = "UpdatesPending" /\ d.pending.frozen /\ sm.ups = pend

\* What a machine has in memory agrees with record d, the updates pend that
\* are linked to its pending transition, and the trees.
Agrees(sm, d, pend, trees) ==
    /\ sm.state = "Default" =>
          d.state = "Default" /\ sm.ups = {} /\ sm.internal = "none"
    /\ sm.state = "UpdatesPending" =>
          /\ d.state = "UpdatesPending"
          /\ \/ sm.ups = pend /\ sm.internal = "tick"
             \/ sm.ups = pend /\ sm.internal = "none" /\ ~d.pending.frozen
             \/ /\ sm.ups = {} /\ sm.internal = "none"
                /\ sm.queue # <<>> /\ Head(sm.queue) = Tick
    /\ sm.state = "CommitTreeCreate" =>
          HasBatch(sm, d, pend) /\ sm.internal = "createTree"
    /\ sm.state = "CommitTxCreate" =>
          /\ HasBatch(sm, d, pend) /\ sm.internal = "createTx"
          /\ sm.root = trees \cup pend
    /\ sm.state = "CommitTxSign" =>
          /\ HasBatch(sm, d, pend) /\ sm.internal = "signTx"
          /\ sm.root = trees \cup pend /\ sm.old = d.latest
    /\ sm.state = "CommitBroadcast" =>
          sm.internal \in {"none", "broadcast"} /\ sm.ups = {}

AllAgree ==
    \A i \in DOMAIN machines :
        machines[i].run =>
            Agrees(machines[i], disk, Bound("pending"), SupplyTrees)

\* A signed transition is frozen, and its commitment spends the latest one and
\* commits to the trees with its updates.
Signed ==
    disk.pending.new # None =>
        /\ disk.pending.frozen
        /\ coms[disk.pending.new].root = SupplyTrees \cup Bound("pending")
        /\ coms[disk.pending.new].old = disk.latest

\* A finalised commitment was signed on one at least as late as each earlier one.
Lined == \A n \in Buried : \A k \in Buried : k < n => coms[n].old >= k

AloneInv == AllAgree /\ Signed /\ RootMatches /\ Lined

-----------------------------------------------------------------------------
(* Types of machines, events and commitments. *)

LEMMA EventTypes ==
    /\ Tick \in Events /\ BroadcastEvent \in Events
    /\ \A u \in Updates : Update(u) \in Events
    /\ \A e \in Events : e[1] = "update" => e[2] \in Updates
BY DEF Events, Tick, BroadcastEvent, Update

LEMMA NewMachineType ==
    ASSUME NEW st \in {"Default", "UpdatesPending", "CommitBroadcast"},
           NEW com \in Nat, NEW q \in Seq(Events)
    PROVE  NewMachine(st, com, q) \in Machines
BY Zenon DEF NewMachine, Machines, None

LEMMA StoppedType ==
    Stopped \in Machines /\ ~Stopped.run
<1>1. <<>> \in Seq(Events) /\ None \in Nat
  BY DEF None
<1>2. NewMachine("Default", None, <<>>) \in Machines
  BY Zenon, <1>1, NewMachineType
<1> QED
  BY Zenon, <1>2 DEF Stopped, Machines

LEMMA PoppedType ==
    ASSUME NEW sm \in Machines, sm.queue # <<>>
    PROVE  /\ Popped(sm) \in Machines
           /\ Head(sm.queue) \in Events
           /\ Popped(sm) = [sm EXCEPT !.queue = Tail(sm.queue)]
<1>1. sm.queue \in Seq(Events)
  BY Zenon DEF Machines
<1>2. Tail(sm.queue) \in Seq(Events) /\ Head(sm.queue) \in Events
  BY <1>1
<1> QED
  BY Zenon, <1>2 DEF Machines, Popped

LEMMA AppendType ==
    ASSUME NEW S, NEW s \in Seq(S), NEW x \in S, NEW t, t = Append(s, x)
    PROVE  /\ t \in Seq(S)
           /\ Len(t) = Len(s) + 1
           /\ DOMAIN s = 1..Len(s)
           /\ DOMAIN t = 1..(Len(s) + 1)
           /\ t[Len(s) + 1] = x
           /\ \A k \in DOMAIN s : t[k] = s[k]
           /\ t # <<>>
           /\ s # <<>> => Head(t) = Head(s)
<1>1. /\ t \in Seq(S) /\ Len(t) = Len(s) + 1 /\ Len(s) \in Nat
      /\ DOMAIN s = 1..Len(s) /\ t[Len(s) + 1] = x
  OBVIOUS
<1>2. DOMAIN t = 1..(Len(s) + 1)
  BY <1>1
<1>3. \A k \in 1..Len(s) : t[k] = s[k]
  OBVIOUS
<1>4. t # <<>>
  BY <1>1
<1>5. s # <<>> => Head(t) = Head(s)
  <2>1. s # <<>> => 1 \in 1..Len(s)
    BY <1>1
  <2>2. Head(t) = t[1] /\ Head(s) = s[1]
    BY <1>1
  <2> QED
    BY Zenon, <1>3, <2>1, <2>2
<1> QED
  BY Zenon, <1>1, <1>2, <1>3, <1>4, <1>5

LEMMA ExceptType ==
    ASSUME NEW S, NEW s \in Seq(S), NEW i \in DOMAIN s, NEW x \in S,
           NEW t, t = [s EXCEPT ![i] = x]
    PROVE  /\ t \in Seq(S)
           /\ Len(t) = Len(s)
           /\ DOMAIN t = DOMAIN s
           /\ t[i] = x
           /\ \A k \in DOMAIN s \ {i} : t[k] = s[k]
BY SMT

\* A step that moves machine i leaves the other machines alone.
MovesOne(i, sm) ==
    /\ machines' \in Seq(Machines)
    /\ Len(machines') = Len(machines)
    /\ DOMAIN machines' = DOMAIN machines
    /\ machines'[i] = sm
    /\ \A j \in DOMAIN machines \ {i} : machines'[j] = machines[j]

LEMMA MachineMoves ==
    ASSUME TypeOK, NEW i \in DOMAIN machines, NEW sm \in Machines, Moves(i, sm)
    PROVE  MovesOne(i, sm)
<1>1. machines \in Seq(Machines)
  BY Zenon DEF TypeOK
<1> QED
  BY <1>1, ExceptType DEF Moves, MovesOne

LEMMA MachineTypes ==
    ASSUME TypeOK, NEW i \in DOMAIN machines
    PROVE  machines[i] \in Machines
BY DEF TypeOK

LEMMA CommitmentTypes ==
    ASSUME TypeOK
    PROVE  /\ coms \in Seq(Commitments)
           /\ DOMAIN coms = 1..Len(coms) /\ Len(coms) \in Nat
           /\ \A n \in DOMAIN coms : coms[n] \in Commitments
BY DEF TypeOK

-----------------------------------------------------------------------------
(* What each action does to the types, and to the commitments. *)

SameBody(n) ==
    /\ coms'[n].old = coms[n].old /\ coms'[n].root = coms[n].root
    /\ coms'[n].leaves = coms[n].leaves /\ coms'[n].outcome = coms[n].outcome

\* No commitment is decided; one may be published, mined or added.
ComsKept ==
    /\ coms' \in Seq(Commitments)
    /\ DOMAIN coms \subseteq DOMAIN coms'
    /\ Len(coms) <= Len(coms')
    /\ \A n \in DOMAIN coms : SameBody(n)
    /\ \A n \in DOMAIN coms' \ DOMAIN coms : coms'[n].outcome = "staked"

LEMMA SameComs ==
    ASSUME TypeOK, coms' = coms
    PROVE  ComsKept
BY CommitmentTypes DEF ComsKept, SameBody

LEMMA AddedCom ==
    ASSUME TypeOK, NEW c \in Commitments, c.outcome = "staked",
           coms' = Append(coms, c)
    PROVE  /\ ComsKept /\ Len(coms') = Len(coms) + 1
           /\ Len(coms) + 1 \in DOMAIN coms' /\ coms'[Len(coms) + 1] = c
<1>1. coms \in Seq(Commitments)
  BY Zenon DEF TypeOK
<1>2. /\ coms' \in Seq(Commitments)
      /\ Len(coms') = Len(coms) + 1
      /\ DOMAIN coms = 1..Len(coms)
      /\ DOMAIN coms' = 1..(Len(coms) + 1)
      /\ coms'[Len(coms) + 1] = c
      /\ \A k \in DOMAIN coms : coms'[k] = coms[k]
  BY <1>1, AppendType
<1>3. Len(coms) \in Nat
  BY <1>1
<1>4. \A n \in DOMAIN coms' \ DOMAIN coms : n = Len(coms) + 1
  BY <1>2, <1>3
<1> QED
  BY <1>2, <1>3, <1>4 DEF ComsKept, SameBody

LEMMA MarkedCom ==
    ASSUME TypeOK, NEW n \in DOMAIN coms, NEW c \in Commitments,
           coms' = [coms EXCEPT ![n] = c]
    PROVE  /\ coms' \in Seq(Commitments)
           /\ Len(coms') = Len(coms)
           /\ DOMAIN coms' = DOMAIN coms
           /\ coms'[n] = c
           /\ \A k \in DOMAIN coms \ {n} : coms'[k] = coms[k]
           /\ /\ c.old = coms[n].old /\ c.root = coms[n].root
              /\ c.leaves = coms[n].leaves /\ c.outcome = coms[n].outcome
              => ComsKept
<1>1. coms \in Seq(Commitments) /\ Len(coms) \in Nat
  BY DEF TypeOK
<1>2. /\ coms' \in Seq(Commitments)
      /\ Len(coms') = Len(coms)
      /\ DOMAIN coms' = DOMAIN coms
      /\ coms'[n] = c
      /\ \A k \in DOMAIN coms \ {n} : coms'[k] = coms[k]
  BY <1>1, ExceptType
<1> QED
  BY <1>1, <1>2 DEF ComsKept, SameBody

\* The finalised commitments are the same before and after.
LEMMA BuriedKept ==
    ASSUME TypeOK, ComsKept
    PROVE  /\ Buried' = Buried
           /\ Buried \subseteq DOMAIN coms
           /\ \A n \in Buried : SameBody(n)
<1>1. \A n : n \in Buried' <=> n \in Buried
  BY Zenon DEF Buried, ComsKept, SameBody
<1> QED
  BY <1>1, Zenon DEF Buried, ComsKept

\* Publishing, or the block of, a commitment.
LEMMA MarkKeeps ==
    ASSUME TypeOK, NEW n,
           \/ coms' = [coms EXCEPT ![n].published = TRUE]
           \/ /\ height' \in Nat
              /\ coms' = [coms EXCEPT ![n].minedAt = height']
    PROVE  ComsKept
<1>1. CASE n \in DOMAIN coms
  <2> DEFINE c == [coms[n] EXCEPT !.published = TRUE]
             d == [coms[n] EXCEPT !.minedAt = height']
  <2>1. coms[n] \in Commitments
    BY Zenon, <1>1, CommitmentTypes
  <2>2. /\ c \in Commitments
        /\ c.old = coms[n].old /\ c.root = coms[n].root
        /\ c.leaves = coms[n].leaves /\ c.outcome = coms[n].outcome
    BY Zenon, <2>1 DEF Commitments
  <2>3. height' \in Nat =>
            /\ d \in Commitments
            /\ d.old = coms[n].old /\ d.root = coms[n].root
            /\ d.leaves = coms[n].leaves /\ d.outcome = coms[n].outcome
    BY Zenon, <2>1 DEF Commitments
  <2>4. \/ coms' = [coms EXCEPT ![n] = c]
        \/ height' \in Nat /\ coms' = [coms EXCEPT ![n] = d]
    BY Zenon
  <2> QED
    BY ONLY TypeOK, <1>1, <2>2, <2>3, <2>4, MarkedCom, Zenon
<1>2. CASE n \notin DOMAIN coms
  <2>1. coms' = coms
    BY <1>2, CommitmentTypes
  <2> QED
    BY Zenon, <2>1, SameComs
<1> QED
  BY Zenon, <1>1, <1>2

LEMMA InsertType ==
    ASSUME TypeOK, NEW u \in Updates, InsertPendingUpdate(u)
    PROVE  /\ disk' \in Records
           /\ bound' \in [Updates -> {"absent", "pending", "dangling", "final"}]
<1>1. /\ disk \in Records
      /\ bound \in [Updates -> {"absent", "pending", "dangling", "final"}]
  BY Zenon DEF TypeOK
<1>2. Transition(disk.latest) \in Transitions
  BY Zenon, <1>1 DEF Records, Transitions, Transition, NoTransition, None
<1>3. [disk EXCEPT !.state = "UpdatesPending", !.pending = Transition(disk.latest)]
          \in Records
  BY Zenon, <1>1, <1>2 DEF Records
<1>4. /\ [bound EXCEPT ![u] = "dangling"]
            \in [Updates -> {"absent", "pending", "dangling", "final"}]
      /\ [bound EXCEPT ![u] = "pending"]
            \in [Updates -> {"absent", "pending", "dangling", "final"}]
  BY Zenon, <1>1
<1>5. disk' \in Records
  BY <1>1, <1>3, Zenon DEF InsertPendingUpdate
<1>6. \/ bound' = bound
      \/ bound' = [bound EXCEPT ![u] = "dangling"]
      \/ bound' = [bound EXCEPT ![u] = "pending"]
  BY Zenon DEF InsertPendingUpdate
<1> QED
  BY <1>1, <1>4, <1>5, <1>6, Zenon

\* The machine after a supply update.
AfterUpdate(i) ==
    LET sm == Popped(machines[i])
        u == Head(machines[i].queue)[2]
        res == InsertResult(u) IN
    CASE res = "error" -> Stopped
      [] /\ res = "inserted"
         /\ sm.state \in {"Default", "UpdatesPending"} ->
           [sm EXCEPT !.state = "UpdatesPending", !.ups = @ \cup {u}]
      [] OTHER -> sm

LEMMA UpdateEffect ==
    ASSUME TypeOK, NEW i \in DOMAIN machines, ProcessUpdate(i)
    PROVE  LET u == Head(machines[i].queue)[2] IN
           /\ machines[i] \in Machines
           /\ u \in Updates
           /\ MovesOne(i, AfterUpdate(i))
           /\ InsertPendingUpdate(u)
           /\ acked' = IF InsertResult(u) = "error" THEN acked ELSE acked \cup {u}
           /\ AfterUpdate(i) \in Machines
           /\ ComsKept /\ pushes' = pushes /\ server' = server
           /\ TypeOK'
<1> DEFINE u == Head(machines[i].queue)[2]
           sm == Popped(machines[i])
<1>1. /\ machines[i] \in Machines /\ machines[i].queue # <<>>
      /\ Head(machines[i].queue)[1] = "update"
  BY Zenon, MachineTypes DEF ProcessUpdate, Ready
<1>2. sm \in Machines /\ u \in Updates
  BY Zenon, <1>1, PoppedType, EventTypes
<1>3. /\ InsertPendingUpdate(u)
      /\ acked' = IF InsertResult(u) = "error" THEN acked ELSE acked \cup {u}
      /\ Moves(i, AfterUpdate(i))
      /\ UNCHANGED <<coms, issuedAt, nudges, pushes, height, foreign, cache,
                     caller, server, faults>>
  BY Zenon DEF ProcessUpdate, AfterUpdate, chain
<1>4. AfterUpdate(i) \in Machines
  <2>1. [sm EXCEPT !.state = "UpdatesPending", !.ups = @ \cup {u}] \in Machines
    BY Zenon, <1>2 DEF Machines
  <2> QED
    BY <1>2, <2>1, StoppedType, Zenon DEF AfterUpdate
<1>5. MovesOne(i, AfterUpdate(i))
  BY Zenon, <1>3, <1>4, MachineMoves
<1>6. ComsKept
  BY Zenon, <1>3, SameComs
<1>7. /\ disk' \in Records
      /\ bound' \in [Updates -> {"absent", "pending", "dangling", "final"}]
  BY Zenon, <1>2, <1>3, InsertType
<1>8. acked' \subseteq Updates
  BY Zenon, <1>2, <1>3 DEF TypeOK
<1>9. TypeOK'
  BY <1>3, <1>5, <1>7, <1>8, Zenon DEF TypeOK, MovesOne
<1> QED
  BY Zenon, <1>1, <1>2, <1>3, <1>4, <1>5, <1>6, <1>9

\* The machine that takes a tick, from its queue or from itself.
Ticked(i) ==
    IF machines[i].internal = "tick"
    THEN [machines[i] EXCEPT !.internal = "none"] ELSE Popped(machines[i])

LEMMA TickEffect ==
    ASSUME TypeOK, NEW i \in DOMAIN machines, ProcessTick(i)
    PROVE  LET sm == Ticked(i) IN
           /\ machines[i] \in Machines /\ sm \in Machines
           /\ \/ sm.state = "UpdatesPending" /\ TickUpdatesPending(i, sm)
              \/ sm.state = "CommitBroadcast" /\ TickBroadcast(i, sm)
              \/ /\ sm.state \notin {"UpdatesPending", "CommitBroadcast"}
                 /\ Moves(i, sm) /\ disk' = disk
           /\ UNCHANGED <<bound, coms, pushes, server, acked>>
           /\ ComsKept
           /\ TypeOK'
<1> DEFINE sm == Ticked(i)
           ups == IF sm.ups = {} THEN Bound("pending") ELSE sm.ups
<1>1. machines[i] \in Machines
  BY Zenon, MachineTypes
<1>2. sm \in Machines
  <2>1. CASE machines[i].internal = "tick"
    BY Zenon, <1>1, <2>1 DEF Ticked, Machines
  <2>2. CASE machines[i].internal # "tick"
    <3>1. machines[i].queue # <<>>
      BY Zenon, <2>2 DEF ProcessTick, Ready, ReadyInternal
    <3> QED
      BY <1>1, <2>2, <3>1, PoppedType, Zenon DEF Ticked
  <2> QED
    BY Zenon, <2>1, <2>2
<1>3. /\ \/ sm.state = "UpdatesPending" /\ TickUpdatesPending(i, sm)
         \/ sm.state = "CommitBroadcast" /\ TickBroadcast(i, sm)
         \/ /\ sm.state \notin {"UpdatesPending", "CommitBroadcast"}
            /\ Moves(i, sm) /\ disk' = disk
      /\ UNCHANGED <<bound, coms, issuedAt, nudges, pushes, height, foreign,
                     cache, caller, server, acked, faults>>
  BY Zenon DEF ProcessTick, Ticked, chain
<1>4. ups \subseteq Updates
  BY Zenon, <1>2 DEF Machines, Bound
<1>5. disk' \in Records /\ \E x \in Machines : Moves(i, x)
  <2>1. CASE TickUpdatesPending(i, sm)
    <3>1. /\ [sm EXCEPT !.state = "Default"] \in Machines
          /\ [sm EXCEPT !.state = "CommitTreeCreate", !.ups = ups,
                        !.internal = "createTree"] \in Machines
      BY Zenon, <1>2, <1>4 DEF Machines
    <3>2. /\ [disk EXCEPT !.state = "Default"] \in Records
          /\ [disk EXCEPT !.pending.frozen = disk.pending.open] \in Records
      BY Zenon DEF TypeOK, Records, Transitions
    <3> QED
      BY <2>1, <3>1, <3>2, Zenon DEF TickUpdatesPending
  <2>2. CASE TickBroadcast(i, sm)
    <3>1. /\ [sm EXCEPT !.state = "Default", !.ups = {}] \in Machines
          /\ [sm EXCEPT !.state = "UpdatesPending", !.ups = Bound("pending"),
                        !.internal = "tick"] \in Machines
      BY Zenon, <1>2 DEF Machines, Bound
    <3>2. /\ disk' = disk
          /\ \/ Moves(i, [sm EXCEPT !.state = "Default", !.ups = {}])
             \/ Moves(i, [sm EXCEPT !.state = "UpdatesPending",
                                    !.ups = Bound("pending"),
                                    !.internal = "tick"])
             \/ Moves(i, sm)
      BY Zenon, <2>2 DEF TickBroadcast, Moves
    <3> QED
      BY <1>2, <3>1, <3>2, Zenon DEF TypeOK
  <2>3. CASE Moves(i, sm) /\ disk' = disk
    BY <1>2, <2>3, Zenon DEF TypeOK
  <2> QED
    BY <1>3, <2>1, <2>2, <2>3, Zenon
<1>6. PICK x \in Machines : Moves(i, x)
  BY Zenon, <1>5
<1>7. MovesOne(i, x)
  BY Zenon, <1>6, MachineMoves
<1>8. TypeOK'
  BY <1>3, <1>5, <1>7, Zenon DEF TypeOK, MovesOne
<1>9. ComsKept
  BY Zenon, <1>3, SameComs
<1> QED
  BY <1>1, <1>2, <1>3, <1>8, <1>9, Zenon

\* A step that touches neither the record nor what is finalised.
Quiet ==
    /\ UNCHANGED <<disk, bound, acked, pushes>>
    /\ ComsKept
    /\ server'.has = server.has

AfterCreateTree(i) ==
    [machines[i] EXCEPT !.state = "CommitTxCreate",
                        !.root = SupplyTrees \cup machines[i].ups,
                        !.internal = "createTx"]
AfterCreateTx(i) ==
    [machines[i] EXCEPT !.state = "CommitTxSign", !.pre = UnspentPrecommits,
                        !.old = disk.latest, !.internal = "signTx"]

LEMMA CreateEffect ==
    ASSUME TypeOK, NEW i \in DOMAIN machines
    PROVE  /\ ProcessCreateTree(i) =>
                  /\ Quiet /\ TypeOK' /\ MovesOne(i, AfterCreateTree(i))
                  /\ AfterCreateTree(i) \in Machines
           /\ ProcessCreateTx(i) =>
                  /\ Quiet /\ TypeOK' /\ MovesOne(i, AfterCreateTx(i))
                  /\ AfterCreateTx(i) \in Machines
           /\ StepFails(i) => Quiet /\ TypeOK' /\ MovesOne(i, Stopped)
<1>1. machines[i] \in Machines
  BY Zenon, MachineTypes
<1>2. AfterCreateTree(i) \in Machines
  <2>1. SupplyTrees \cup machines[i].ups \subseteq Updates
    BY Zenon, <1>1 DEF Machines, SupplyTrees, Bound
  <2> QED
    BY Zenon, <1>1, <2>1 DEF Machines, AfterCreateTree
<1>3. AfterCreateTx(i) \in Machines
  <2>1. UnspentPrecommits \subseteq Mints /\ disk.latest \in Nat
    BY Zenon DEF TypeOK, Records, UnspentPrecommits
  <2> QED
    BY Zenon, <1>1, <2>1 DEF Machines, AfterCreateTx
<1>4. ASSUME NEW x \in Machines, Moves(i, x),
             UNCHANGED <<durable, chain, cache, caller, server, acked>>
      PROVE  Quiet /\ TypeOK' /\ MovesOne(i, x)
  <2>1. MovesOne(i, x)
    BY Zenon, <1>4, MachineMoves
  <2>2. UNCHANGED <<disk, bound, coms, issuedAt, nudges, pushes, height,
                    foreign, cache, caller, server, acked>>
    BY Zenon, <1>4 DEF durable, chain
  <2>3. TypeOK'
    BY <2>1, <2>2, Zenon DEF TypeOK, MovesOne
  <2>4. ComsKept
    BY Zenon, <2>2, SameComs
  <2> QED
    BY <2>1, <2>2, <2>3, <2>4, Zenon DEF Quiet
<1>5. ASSUME ProcessCreateTree(i)
      PROVE  /\ Moves(i, AfterCreateTree(i))
             /\ UNCHANGED <<durable, chain, cache, caller, server, acked>>
  BY <1>5, Zenon DEF ProcessCreateTree, AfterCreateTree
<1>6. ASSUME ProcessCreateTx(i)
      PROVE  /\ Moves(i, AfterCreateTx(i))
             /\ UNCHANGED <<durable, chain, cache, caller, server, acked>>
  BY <1>6, Zenon DEF ProcessCreateTx, AfterCreateTx
<1>7. ASSUME StepFails(i)
      PROVE  /\ Moves(i, Stopped)
             /\ UNCHANGED <<durable, chain, cache, caller, server, acked>>
  BY <1>7, Zenon DEF StepFails
<1> QED
  BY <1>2, <1>3, <1>4, <1>5, <1>6, <1>7, StoppedType, Zenon

\* A signing step that is applied: the commitment it adds and its record.
NewCom(sm) ==
    [pre |-> sm.pre, old |-> sm.old, root |-> sm.root, leaves |-> {},
     published |-> FALSE, minedAt |-> 0, outcome |-> "staked"]
Signs(i) ==
    /\ disk.pending.open
    /\ coms' = Append(coms, NewCom(machines[i]))
    /\ disk' = [disk EXCEPT !.state = "CommitBroadcast",
                            !.pending.new = Len(coms) + 1]
    /\ coms'[Len(coms) + 1] = NewCom(machines[i])
    /\ Len(coms) + 1 \in DOMAIN coms'
    /\ Len(coms') = Len(coms) + 1
    /\ \E x \in Machines :
          /\ MovesOne(i, x)
          /\ x.state = "CommitBroadcast" /\ x.internal = "broadcast" /\ x.ups = {}

LEMMA SignEffect ==
    ASSUME TypeOK, NEW i \in DOMAIN machines, ProcessSignTx(i)
    PROVE  /\ machines[i] \in Machines
           /\ machines[i].run /\ machines[i].internal = "signTx"
           /\ UNCHANGED <<bound, acked, pushes, server>>
           /\ ComsKept /\ TypeOK'
           /\ \/ Signs(i)
              \/ MovesOne(i, Stopped) /\ UNCHANGED <<disk, coms>>
<1>1. machines[i] \in Machines /\ machines[i].run /\ machines[i].internal = "signTx"
  BY Zenon, MachineTypes DEF ProcessSignTx, ReadyInternal
<1>2. UNCHANGED <<bound, issuedAt, nudges, pushes, height, foreign, cache,
                  caller, server, acked, faults>>
  BY Zenon DEF ProcessSignTx, chain
<1>3. Len(coms) \in Nat /\ coms \in Seq(Commitments) /\ disk \in Records
  BY DEF TypeOK
<1>4. CASE disk.pending.open
  <2> DEFINE x == [NewMachine("CommitBroadcast", Len(coms) + 1, machines[i].queue)
                      EXCEPT !.internal = "broadcast"]
  <2>1. /\ ApplyCommitTxStake(machines[i]) /\ Moves(i, x)
    BY <1>4, Zenon DEF ProcessSignTx
  <2>2. /\ coms' = Append(coms, NewCom(machines[i]))
        /\ disk' = [disk EXCEPT !.state = "CommitBroadcast",
                                !.pending.new = Len(coms) + 1]
    BY <2>1, Zenon DEF ApplyCommitTxStake, NewCom
  <2>3. NewCom(machines[i]) \in Commitments /\ NewCom(machines[i]).outcome = "staked"
    BY Zenon, <1>1 DEF NewCom, Commitments, Machines
  <2>4. /\ ComsKept /\ Len(coms') = Len(coms) + 1
        /\ Len(coms) + 1 \in DOMAIN coms'
        /\ coms'[Len(coms) + 1] = NewCom(machines[i])
    BY <2>2, <2>3, AddedCom, Zenon
  <2>5. NewMachine("CommitBroadcast", Len(coms) + 1, machines[i].queue) \in Machines
    <3>1. machines[i].queue \in Seq(Events) /\ Len(coms) + 1 \in Nat
      BY <1>1, <1>3 DEF Machines
    <3> QED
      BY Zenon, <3>1, NewMachineType
  <2>6. /\ x \in Machines
        /\ x.state = "CommitBroadcast" /\ x.internal = "broadcast" /\ x.ups = {}
    BY Zenon, <2>5 DEF Machines, NewMachine
  <2>7. MovesOne(i, x)
    BY Zenon, <2>1, <2>6, MachineMoves
  <2>8. disk' \in Records
    <3> DEFINE p == [disk.pending EXCEPT !.new = Len(coms) + 1]
    <3>1. disk.pending \in Transitions /\ Len(coms) + 1 \in Nat
      BY <1>3 DEF Records
    <3>2. p \in Transitions
      BY Zenon, <3>1 DEF Transitions
    <3>3. disk' = [disk EXCEPT !.state = "CommitBroadcast", !.pending = p]
      BY Zenon, <1>3, <2>2 DEF Records
    <3> HIDE DEF p
    <3> QED
      BY Zenon, <1>3, <3>2, <3>3 DEF Records
  <2>9. TypeOK'
    BY <1>2, <2>4, <2>7, <2>8, Zenon DEF TypeOK, MovesOne, ComsKept
  <2>10. Signs(i)
    BY ONLY <1>4, <2>2, <2>4, <2>6, <2>7, Zenon DEF Signs
  <2> QED
    BY <1>1, <1>2, <2>4, <2>9, <2>10, Zenon
<1>5. CASE ~disk.pending.open
  <2>1. Moves(i, Stopped) /\ UNCHANGED <<disk, coms>>
    BY <1>5, Zenon DEF ProcessSignTx
  <2>2. MovesOne(i, Stopped)
    BY Zenon, <2>1, StoppedType, MachineMoves
  <2>3. TypeOK'
    BY <1>2, <2>1, <2>2, Zenon DEF TypeOK, MovesOne
  <2>4. ComsKept
    BY Zenon, <2>1, SameComs
  <2> QED
    BY <1>1, <1>2, <2>1, <2>2, <2>3, <2>4, Zenon
<1> QED
  BY Zenon, <1>4, <1>5

\* The machine that takes a broadcast event, from its queue or from itself.
Sending(i) ==
    IF machines[i].internal = "broadcast"
    THEN [machines[i] EXCEPT !.internal = "none"] ELSE Popped(machines[i])

LEMMA BroadcastEffect ==
    ASSUME TypeOK, NEW i \in DOMAIN machines, ProcessBroadcast(i)
    PROVE  /\ machines[i] \in Machines
           /\ Quiet /\ TypeOK'
           /\ \/ MovesOne(i, Stopped)
              \/ MovesOne(i, Sending(i)) /\ Sending(i) \in Machines
<1>1. machines[i] \in Machines
  BY Zenon, MachineTypes
<1>2. Sending(i) \in Machines
  <2>1. CASE machines[i].internal = "broadcast"
    BY Zenon, <1>1, <2>1 DEF Sending, Machines
  <2>2. CASE machines[i].internal # "broadcast"
    <3>1. machines[i].queue # <<>>
      BY Zenon, <2>2 DEF ProcessBroadcast, Ready, ReadyInternal
    <3> QED
      BY <1>1, <2>2, <3>1, PoppedType, Zenon DEF Sending
  <2> QED
    BY Zenon, <2>1, <2>2
<1>3. /\ \/ Moves(i, Stopped) /\ coms' = coms
         \/ /\ Moves(i, Sending(i))
            /\ coms' = [coms EXCEPT ![Sending(i).com].published = TRUE]
      /\ UNCHANGED <<disk, bound, issuedAt, nudges, pushes, height, foreign,
                     cache, caller, server, acked, faults>>
  BY Zenon DEF ProcessBroadcast, Sending, chain
<1>4. ComsKept
  BY <1>3, SameComs, MarkKeeps, Zenon
<1>5. \/ MovesOne(i, Stopped)
      \/ MovesOne(i, Sending(i)) /\ Sending(i) \in Machines
  BY <1>2, <1>3, StoppedType, MachineMoves, Zenon
<1>6. TypeOK'
  BY <1>3, <1>4, <1>5, Zenon DEF TypeOK, MovesOne, ComsKept
<1> QED
  BY <1>1, <1>3, <1>4, <1>5, <1>6, Zenon DEF Quiet

\* A running machine is handed an event.
Fed(i, e) == [machines[i] EXCEPT !.queue = Append(@, e)]

LEMMA CallEffect ==
    ASSUME TypeOK, NEW c \in Callers, NEW job \in Jobs, Call(c, job)
    PROVE  /\ Quiet /\ TypeOK'
           /\ \/ machines' = machines
              \/ \E i \in DOMAIN machines : \E e \in Events :
                    /\ machines[i].run /\ machines[i] \in Machines
                    /\ MovesOne(i, Fed(i, e)) /\ Fed(i, e) \in Machines
<1>1. /\ UNCHANGED <<disk, bound, coms, issuedAt, pushes, height, foreign, cache,
                     server, acked, faults>>
      /\ \/ Running /\ machines' = [machines EXCEPT ![cache] = Fed(cache, job.event)]
            /\ caller' = caller
         \/ machines' = machines /\ caller' = [caller EXCEPT ![c] = job]
  BY Zenon DEF Call, Send, chain, Fed
<1>2. ComsKept
  BY Zenon, <1>1, SameComs
<1>3. Quiet
  BY Zenon, <1>1, <1>2 DEF Quiet
<1>4. caller' \in [Callers -> Jobs]
  BY Zenon, <1>1 DEF TypeOK
<1>5. CASE Running /\ machines' = [machines EXCEPT ![cache] = Fed(cache, job.event)]
  <2>1. cache \in DOMAIN machines
    BY <1>5 DEF Running, TypeOK, None
  <2>2. machines[cache] \in Machines /\ job.event \in Events /\ machines[cache].run
    BY Zenon, <1>5, <2>1, MachineTypes DEF Jobs, Running
  <2>3. Append(machines[cache].queue, job.event) \in Seq(Events)
    BY <2>2 DEF Machines
  <2>4. Fed(cache, job.event) \in Machines
    BY Zenon, <2>2, <2>3 DEF Machines, Fed
  <2>5. MovesOne(cache, Fed(cache, job.event))
    BY <1>5, <2>1, <2>4, MachineMoves, Zenon DEF Moves
  <2>6. TypeOK'
    BY <1>1, <1>4, <2>5, Zenon DEF TypeOK, MovesOne
  <2> QED
    BY <1>3, <2>1, <2>2, <2>4, <2>5, <2>6, Zenon
<1>6. CASE machines' = machines
  <2>1. TypeOK'
    BY <1>1, <1>4, <1>6, Zenon DEF TypeOK
  <2> QED
    BY <1>3, <1>6, <2>1, Zenon
<1> QED
  BY <1>1, <1>5, <1>6, Zenon

LEMMA IdleType == Idle \in Jobs
BY Zenon, EventTypes DEF Idle, Jobs

LEMMA CallerEffect ==
    ASSUME TypeOK, NEW c \in Callers,
           \/ \E u \in Updates : SendUpdate(c, u) \/ ResendUpdate(c, u)
           \/ StartSupplyPublishFlow(c)
           \/ DispatchCommitNudge(c)
    PROVE  \E job \in Jobs : Call(c, job)
<1>1. \A u \in Updates : [event |-> Update(u), nudge |-> FALSE, busy |-> TRUE] \in Jobs
  BY Zenon, EventTypes DEF Jobs
<1>2. /\ [event |-> Tick, nudge |-> FALSE, busy |-> TRUE] \in Jobs
      /\ [event |-> Tick, nudge |-> TRUE, busy |-> TRUE] \in Jobs
  BY Zenon, EventTypes DEF Jobs
<1> QED
  BY <1>1, <1>2, Zenon DEF SendUpdate, ResendUpdate, StartSupplyPublishFlow,
     DispatchCommitNudge

\* A machine as the manager starts it, with the event it was started for.
Fresh(c) == [StartedMachine EXCEPT !.queue = Append(@, caller[c].event)]

LEMMA StartedType ==
    ASSUME TypeOK
    PROVE  /\ StartedMachine \in Machines
           /\ StartedMachine.ups = {} /\ StartedMachine.internal = "none"
           /\ StartedMachine.state = disk.state
           /\ disk.state = "UpdatesPending" => StartedMachine.queue = <<Tick>>
<1>1. /\ disk.state \in {"Default", "UpdatesPending", "CommitBroadcast"}
      /\ disk.pending.new \in Nat /\ None \in Nat
  BY Zenon DEF TypeOK, Records, Transitions, None
<1>2. /\ <<BroadcastEvent, Tick>> \in Seq(Events)
      /\ <<Tick>> \in Seq(Events) /\ <<>> \in Seq(Events)
  BY EventTypes
<1>3. /\ NewMachine("CommitBroadcast", disk.pending.new, <<BroadcastEvent, Tick>>)
            \in Machines
      /\ NewMachine("UpdatesPending", None, <<Tick>>) \in Machines
      /\ NewMachine("Default", None, <<>>) \in Machines
  BY Zenon, <1>1, <1>2, NewMachineType
<1>4. \/ /\ disk.state = "CommitBroadcast"
         /\ StartedMachine = NewMachine("CommitBroadcast", disk.pending.new,
                                        <<BroadcastEvent, Tick>>)
      \/ /\ disk.state = "UpdatesPending"
         /\ StartedMachine = NewMachine("UpdatesPending", None, <<Tick>>)
      \/ /\ disk.state = "Default"
         /\ StartedMachine = NewMachine("Default", None, <<>>)
  BY Zenon, <1>1 DEF StartedMachine
<1>5. ASSUME NEW st, NEW com, NEW q
      PROVE  /\ NewMachine(st, com, q).ups = {}
             /\ NewMachine(st, com, q).internal = "none"
             /\ NewMachine(st, com, q).state = st
             /\ NewMachine(st, com, q).queue = q
  BY Zenon DEF NewMachine
<1>6. "UpdatesPending" # "Default" /\ "UpdatesPending" # "CommitBroadcast"
  BY Zenon
<1> QED
  BY <1>3, <1>4, <1>5, <1>6

LEMMA StartEffect ==
    ASSUME TypeOK, NEW c \in Callers, StartAssetSM(c)
    PROVE  /\ Quiet /\ TypeOK'
           /\ Fresh(c) \in Machines
           /\ Fresh(c).ups = {} /\ Fresh(c).internal = "none"
           /\ Fresh(c).state = disk.state
           /\ disk.state = "UpdatesPending" =>
                 Fresh(c).queue # <<>> /\ Head(Fresh(c).queue) = Tick
           /\ DOMAIN machines' = DOMAIN machines \cup {Len(machines) + 1}
           /\ machines'[Len(machines) + 1] = Fresh(c)
           /\ \A j \in DOMAIN machines : machines'[j] = machines[j]
<1>1. /\ UNCHANGED <<disk, bound, coms, issuedAt, pushes, height, foreign,
                     server, acked, faults>>
      /\ machines' = Append(machines, Fresh(c))
      /\ cache' = IF cache = None THEN Len(machines) + 1 ELSE cache
      /\ caller' = [caller EXCEPT ![c] = Idle]
  BY Zenon DEF StartAssetSM, Fresh, CacheSet, chain
<1>2. ComsKept
  BY Zenon, <1>1, SameComs
<1>3. Quiet
  BY Zenon, <1>1, <1>2 DEF Quiet
<1>4. caller[c].event \in Events /\ caller' \in [Callers -> Jobs]
  BY Zenon, <1>1, IdleType DEF TypeOK, Jobs
<1>5. /\ StartedMachine \in Machines
      /\ StartedMachine.ups = {} /\ StartedMachine.internal = "none"
      /\ StartedMachine.state = disk.state
      /\ disk.state = "UpdatesPending" => StartedMachine.queue = <<Tick>>
  BY Zenon, StartedType
<1>6. StartedMachine.queue \in Seq(Events)
  BY Zenon, <1>5 DEF Machines
<1> DEFINE q == Append(StartedMachine.queue, caller[c].event)
<1>7. /\ q \in Seq(Events) /\ q # <<>>
      /\ StartedMachine.queue # <<>> => Head(q) = Head(StartedMachine.queue)
  <2>1. ASSUME NEW a \in Seq(Events), NEW e \in Events
        PROVE  /\ Append(a, e) \in Seq(Events) /\ Append(a, e) # <<>>
               /\ a # <<>> => Head(Append(a, e)) = Head(a)
    BY ONLY <2>1, AppendType
  <2> QED
    BY ONLY <1>4, <1>6, <2>1, Zenon
<1>8. /\ Fresh(c) = [StartedMachine EXCEPT !.queue = q]
  BY Zenon DEF Fresh
<1> HIDE DEF q
<1>9. /\ Fresh(c) \in Machines
      /\ Fresh(c).ups = {} /\ Fresh(c).internal = "none"
      /\ Fresh(c).state = disk.state
      /\ Fresh(c).queue = q
  BY Zenon, <1>5, <1>7, <1>8 DEF Machines
<1>10. <<Tick>> # <<>> /\ Head(<<Tick>>) = Tick
  OBVIOUS
<1>11. machines \in Seq(Machines) /\ Len(machines) \in Nat /\ cache \in 0..Len(machines)
  BY DEF TypeOK
<1>12. /\ machines' \in Seq(Machines)
       /\ Len(machines') = Len(machines) + 1
       /\ DOMAIN machines = 1..Len(machines)
       /\ DOMAIN machines' = 1..(Len(machines) + 1)
       /\ machines'[Len(machines) + 1] = Fresh(c)
       /\ \A k \in DOMAIN machines : machines'[k] = machines[k]
  BY <1>1, <1>9, <1>11, AppendType
<1>13. /\ DOMAIN machines' = DOMAIN machines \cup {Len(machines) + 1}
       /\ cache' \in 0..Len(machines')
  BY <1>1, <1>11, <1>12 DEF None
<1>14. TypeOK'
  BY <1>1, <1>4, <1>12, <1>13, Zenon DEF TypeOK
<1> QED
  BY <1>3, <1>5, <1>7, <1>9, <1>10, <1>12, <1>13, <1>14, Zenon

\* The chain and the server's own knowledge touch no machine.
LEMMA EnvironmentEffect ==
    ASSUME TypeOK,
           \/ \E m \in Mints : Issue(m) \/ ServerLearns(m)
           \/ EmptyBlock
           \/ \E n \in DOMAIN coms : Mine(n) \/ ForeignSpend(n)
    PROVE  Quiet /\ TypeOK' /\ machines' = machines
<1> DEFINE Rest == /\ UNCHANGED <<disk, bound, pushes, machines, cache, caller, acked>>
                   /\ height' \in Nat
<1>1. ASSUME NEW m \in Mints, Issue(m)
      PROVE  /\ Rest /\ issuedAt' \in [Mints -> Nat]
             /\ coms' = coms /\ server' = server
  BY <1>1 DEF Issue, memory, TypeOK
<1>2. ASSUME NEW m \in Mints, ServerLearns(m)
      PROVE  /\ Rest /\ issuedAt' = issuedAt /\ coms' = coms
             /\ server' = [server EXCEPT !.pre = @ \cup {m}]
  BY Zenon, <1>2 DEF ServerLearns, memory, durable, chain, TypeOK
<1>3. ASSUME EmptyBlock
      PROVE  Rest /\ issuedAt' = issuedAt /\ coms' = coms /\ server' = server
  BY <1>3 DEF EmptyBlock, memory, durable, TypeOK
<1>4. ASSUME NEW n \in DOMAIN coms, Mine(n)
      PROVE  /\ Rest /\ issuedAt' = issuedAt /\ server' = server
             /\ coms' = [coms EXCEPT ![n].minedAt = height']
  BY <1>4 DEF Mine, memory, TypeOK
<1>5. ASSUME NEW n \in DOMAIN coms, ForeignSpend(n)
      PROVE  Rest /\ issuedAt' = issuedAt /\ coms' = coms /\ server' = server
  BY Zenon, <1>5 DEF ForeignSpend, memory, durable, TypeOK
<1>6. /\ UNCHANGED <<disk, bound, pushes, machines, cache, caller, acked>>
      /\ height' \in Nat
  BY <1>1, <1>2, <1>3, <1>4, <1>5, Zenon
<1>7. issuedAt' \in [Mints -> Nat]
  BY <1>1, <1>2, <1>3, <1>4, <1>5, Zenon DEF TypeOK
<1>8. \/ coms' = coms
      \/ \E n \in DOMAIN coms : coms' = [coms EXCEPT ![n].minedAt = height']
  BY <1>1, <1>2, <1>3, <1>4, <1>5, Zenon
<1>9. \/ server' = server
      \/ \E m \in Mints : server' = [server EXCEPT !.pre = @ \cup {m}]
  BY <1>1, <1>2, <1>3, <1>4, <1>5, Zenon
<1>10. ComsKept
  BY <1>6, <1>8, SameComs, MarkKeeps, Zenon
<1>11. /\ server' \in [has : SUBSET Nat, pre : SUBSET Mints]
       /\ server'.has = server.has
  BY <1>9 DEF TypeOK
<1>12. TypeOK'
  BY <1>6, <1>7, <1>10, <1>11, Zenon DEF TypeOK, ComsKept
<1> QED
  BY <1>6, <1>10, <1>11, <1>12, Zenon DEF Quiet

LEMMA CrashEffect ==
    ASSUME TypeOK, Crash
    PROVE  Quiet /\ TypeOK' /\ machines' = <<>>
<1>1. /\ UNCHANGED <<disk, bound, coms, issuedAt, nudges, pushes, height, foreign,
                     server, acked>>
      /\ machines' = <<>> /\ cache' = None
      /\ caller' = [c \in Callers |-> Idle]
  BY Zenon DEF Crash, durable, chain
<1>2. ComsKept
  BY Zenon, <1>1, SameComs
<1>3. caller' \in [Callers -> Jobs]
  BY Zenon, <1>1, IdleType
<1>4. machines' \in Seq(Machines) /\ cache' \in 0..Len(machines')
  BY <1>1 DEF None
<1>5. TypeOK'
  BY <1>1, <1>3, <1>4, Zenon DEF TypeOK
<1> QED
  BY <1>1, <1>2, <1>5, Zenon DEF Quiet

\* Commitment n is decided, and the others are left alone.
Decides(n, outcome) ==
    /\ coms[n].outcome = "staked"
    /\ coms' \in Seq(Commitments)
    /\ Len(coms') = Len(coms) /\ DOMAIN coms' = DOMAIN coms
    /\ coms'[n].outcome = outcome
    /\ coms'[n].old = coms[n].old /\ coms'[n].root = coms[n].root
    /\ \A k \in DOMAIN coms \ {n} : coms'[k] = coms[k]

LEMMA RebindType ==
    ASSUME NEW latest \in Nat, NEW ups, Rebind(latest, ups)
    PROVE  /\ disk' \in Records
           /\ disk'.latest = latest
           /\ disk'.pending.new = None /\ ~disk'.pending.frozen
           /\ ups = {} => disk'.state = "Default" /\ ~disk'.pending.open
           /\ ups # {} => /\ disk'.state = "UpdatesPending" /\ disk'.pending.open
                          /\ disk'.pending.old = latest
BY Zenon DEF Rebind, Records, Transitions, Transition, NoTransition, None

LEMMA BuryEffect ==
    ASSUME TypeOK, NEW n \in DOMAIN coms, OnBuried(n)
    PROVE  /\ TypeOK'
           /\ disk.pending.open /\ disk.pending.new = n
           /\ Decides(n, "buried")
           /\ coms'[n].leaves = Bound("pending")
           /\ Rebind(n, Bound("dangling"))
           /\ bound' = [u \in Updates |-> CASE bound[u] = "pending" -> "final"
                                            [] bound[u] = "dangling" -> "pending"
                                            [] OTHER -> bound[u]]
           /\ pushes' = pushes \cup {n}
           /\ UNCHANGED <<machines, server, acked>>
<1>1. /\ coms[n].outcome = "staked"
      /\ disk.pending.open /\ disk.pending.new = n
      /\ Rebind(n, Bound("dangling"))
      /\ bound' = [u \in Updates |-> CASE bound[u] = "pending" -> "final"
                                       [] bound[u] = "dangling" -> "pending"
                                       [] OTHER -> bound[u]]
      /\ pushes' = pushes \cup {n}
      /\ coms' = [coms EXCEPT ![n].outcome = "buried", ![n].leaves = Bound("pending")]
  BY Zenon DEF OnBuried, ApplyCommitFinalize, ApplyStateTransition
<1>2. UNCHANGED <<issuedAt, height, foreign, machines, cache, caller, server,
                  acked, faults>>
  BY Zenon DEF OnBuried, chain, memory
<1> DEFINE c == [coms[n] EXCEPT !.outcome = "buried", !.leaves = Bound("pending")]
<1>3. coms[n] \in Commitments /\ n \in Nat /\ coms \in Seq(Commitments)
  BY CommitmentTypes
<1>4. /\ c \in Commitments /\ c.outcome = "buried"
      /\ c.leaves = Bound("pending")
      /\ c.old = coms[n].old /\ c.root = coms[n].root
  BY Zenon, <1>3 DEF Commitments, Bound
<1>5. coms' = [coms EXCEPT ![n] = c]
  BY Zenon, <1>1, <1>3
<1>6. /\ coms' \in Seq(Commitments)
      /\ Len(coms') = Len(coms)
      /\ DOMAIN coms' = DOMAIN coms
      /\ coms'[n] = c
      /\ \A k \in DOMAIN coms \ {n} : coms'[k] = coms[k]
  BY <1>4, <1>5, MarkedCom, Zenon
<1>7. Decides(n, "buried") /\ coms'[n].leaves = Bound("pending")
  BY <1>1, <1>4, <1>6, Zenon DEF Decides
<1>8. disk' \in Records
  BY Zenon, <1>1, <1>3, RebindType
<1>9. bound' \in [Updates -> {"absent", "pending", "dangling", "final"}]
  BY Zenon, <1>1 DEF TypeOK
<1>10. TypeOK'
  BY <1>2, <1>6, <1>8, <1>9, Zenon DEF TypeOK
<1> QED
  BY <1>1, <1>2, <1>7, <1>10, Zenon

LEMMA AbandonEffect ==
    ASSUME TypeOK, NEW n \in DOMAIN coms, OnAbandoned(n)
    PROVE  /\ TypeOK'
           /\ Decides(n, "abandoned")
           /\ coms'[n].leaves = coms[n].leaves
           /\ ApplyCommitAbandonment(n)
           /\ UNCHANGED <<machines, server, acked, pushes>>
<1>1. /\ coms[n].outcome = "staked"
      /\ ApplyCommitAbandonment(n)
      /\ coms' = [coms EXCEPT ![n].outcome = "abandoned"]
  BY Zenon DEF OnAbandoned
<1>2. UNCHANGED <<issuedAt, pushes, height, foreign, machines, cache, caller,
                  server, acked, faults>>
  BY Zenon DEF OnAbandoned, chain, memory
<1> DEFINE c == [coms[n] EXCEPT !.outcome = "abandoned"]
<1>3. coms[n] \in Commitments /\ disk.latest \in Nat /\ coms \in Seq(Commitments)
  BY Zenon, CommitmentTypes DEF TypeOK, Records
<1>4. /\ c \in Commitments /\ c.outcome = "abandoned"
      /\ c.leaves = coms[n].leaves
      /\ c.old = coms[n].old /\ c.root = coms[n].root
  BY Zenon, <1>3 DEF Commitments
<1>5. coms' = [coms EXCEPT ![n] = c]
  BY Zenon, <1>1, <1>3
<1>6. /\ coms' \in Seq(Commitments)
      /\ Len(coms') = Len(coms)
      /\ DOMAIN coms' = DOMAIN coms
      /\ coms'[n] = c
      /\ \A k \in DOMAIN coms \ {n} : coms'[k] = coms[k]
  BY <1>4, <1>5, MarkedCom, Zenon
<1>7. Decides(n, "abandoned") /\ coms'[n].leaves = coms[n].leaves
  BY <1>1, <1>4, <1>6, Zenon DEF Decides
<1>8. disk' \in Records
  BY <1>1, <1>3, RebindType, Zenon DEF ApplyCommitAbandonment, TypeOK
<1>9. bound' \in [Updates -> {"absent", "pending", "dangling", "final"}]
  BY Zenon, <1>1 DEF TypeOK, ApplyCommitAbandonment
<1>10. TypeOK'
  BY <1>2, <1>6, <1>8, <1>9, Zenon DEF TypeOK
<1> QED
  BY <1>1, <1>2, <1>7, <1>10, Zenon

LEMMA PushEffect ==
    ASSUME TypeOK, NEW n \in pushes, pushes \subseteq Buried, DispatchCommitPush(n)
    PROVE  /\ TypeOK'
           /\ n \in server.has \/ VerifyCommit(n)
           /\ server'.has = server.has \cup {n}
           /\ pushes' \subseteq pushes
           /\ UNCHANGED <<disk, bound, coms, machines, acked>>
<1>1. /\ n \in server.has \/ VerifyCommit(n)
      /\ server' = [has |-> server.has \cup {n},
                    pre |-> server.pre \cup (coms[n].leaves \cap Mints)]
      /\ pushes' = pushes \ {n} \/ pushes' = pushes
      /\ UNCHANGED <<disk, bound, coms, issuedAt, height, foreign, machines, cache,
                     caller, acked>>
  BY Zenon DEF DispatchCommitPush, chain, memory
<1>2. n \in Nat
  BY CommitmentTypes DEF Buried
<1>3. /\ server' \in [has : SUBSET Nat, pre : SUBSET Mints]
      /\ server'.has = server.has \cup {n}
  BY Zenon, <1>1, <1>2 DEF TypeOK
<1>4. TypeOK'
  BY <1>1, <1>3, Zenon DEF TypeOK
<1> QED
  BY Zenon, <1>1, <1>3, <1>4

-----------------------------------------------------------------------------
(* The durable record, the trees and the server. *)

LEMMA ServerKept ==
    ASSUME Trees, ServerFollows, server'.has = server.has,
           \A n \in Buried : SameBody(n)
    PROVE  ServerFollows'
<1>1. \A n \in server.has : SameBody(n)
  BY Zenon DEF Trees
<1>2. ServerTrees' = ServerTrees
  <2>1. \A u : u \in ServerTrees' <=> u \in ServerTrees
    BY <1>1, Zenon DEF ServerTrees, SameBody
  <2> QED
    BY <2>1, Zenon
<1> HIDE DEF ServerTrees
<1>3. \A n \in server.has : coms'[n].old = coms[n].old /\ coms'[n].root = coms[n].root
  BY <1>1, Zenon DEF SameBody
<1> QED
  BY <1>2, <1>3, Zenon DEF ServerFollows

LEMMA TreesKept ==
    ASSUME Trees, Buried' = Buried, \A n \in Buried : SameBody(n),
           SupplyTrees' = SupplyTrees, pushes' \subseteq pushes,
           server'.has = server.has
    PROVE  Trees'
<1>1. SupplyTrees = UNION {coms[n].leaves : n \in Buried}
  BY Zenon DEF Trees
<1>2. \A n \in Buried : coms'[n].leaves = coms[n].leaves
  BY Zenon DEF SameBody
<1>3. SupplyTrees' = UNION {coms'[n].leaves : n \in Buried'}
  <2>1. \A u : u \in SupplyTrees' <=> \E n \in Buried' : u \in coms'[n].leaves
    BY <1>1, <1>2, Zenon
  <2> QED
    BY <2>1, Zenon
<1>4. pushes' \subseteq Buried' /\ server'.has \subseteq Buried'
  BY Zenon DEF Trees
<1> QED
  BY <1>3, <1>4, Zenon DEF Trees

Rows == Record /\ Trees /\ ServerFollows

\* Nothing is finalised.
NoneFinal ==
    Buried' = Buried /\ SupplyTrees' = SupplyTrees /\ disk'.latest = disk.latest

LEMMA QuietRows ==
    ASSUME TypeOK, Rows, Quiet
    PROVE  Rows' /\ NoneFinal
<1>1. /\ Buried' = Buried /\ \A n \in Buried : SameBody(n)
  BY Zenon, BuriedKept DEF Quiet
<1>2. /\ disk' = disk /\ bound' = bound /\ acked' = acked /\ pushes' = pushes
      /\ server'.has = server.has
      /\ DOMAIN coms \subseteq DOMAIN coms' /\ Len(coms) <= Len(coms')
      /\ coms' \in Seq(Commitments)
  BY Zenon DEF Quiet, ComsKept
<1>3. SupplyTrees' = SupplyTrees /\ \A x : Bound(x)' = Bound(x)
  BY <1>2, Zenon DEF SupplyTrees, Bound
<1>4. Trees'
  BY Zenon, <1>1, <1>2, <1>3, TreesKept DEF Rows
<1>5. ServerFollows'
  BY Zenon, <1>1, <1>2, ServerKept DEF Rows
<1>6. /\ Bound("pending")' = Bound("pending") /\ Bound("dangling")' = Bound("dangling")
  BY Zenon, <1>3
<1>7. disk.latest <= Len(coms')
  <2>1. Len(coms) \in Nat /\ Len(coms') \in Nat /\ disk.latest \in Nat
    BY <1>2 DEF TypeOK, Records
  <2>2. disk.latest <= Len(coms)
    BY Zenon DEF Rows, Record
  <2> QED
    BY <1>2, <2>1, <2>2
<1>8. Record'
  BY <1>1, <1>2, <1>6, <1>7, Zenon DEF Rows, Record
<1> QED
  BY <1>1, <1>2, <1>3, <1>4, <1>5, <1>8, Zenon DEF Rows, NoneFinal

\* A step that decides nothing keeps the trees and the server.
LEMMA UndecidedRows ==
    ASSUME TypeOK, Rows, ComsKept, pushes' = pushes, server' = server,
           SupplyTrees' = SupplyTrees
    PROVE  /\ Trees' /\ ServerFollows'
           /\ Buried' = Buried
           /\ DOMAIN coms \subseteq DOMAIN coms'
           /\ disk.latest <= Len(coms')
<1>1. /\ Buried' = Buried /\ \A n \in Buried : SameBody(n)
  BY Zenon, BuriedKept
<1>2. Trees'
  BY Zenon, <1>1, TreesKept DEF Rows
<1>3. ServerFollows'
  BY Zenon, <1>1, ServerKept DEF Rows
<1>4. Len(coms) \in Nat /\ Len(coms') \in Nat /\ disk.latest \in Nat
  BY DEF TypeOK, Records, ComsKept
<1> QED
  BY <1>1, <1>2, <1>3, <1>4 DEF Rows, Record, ComsKept

\* An update enters the pending transition, or dangles behind a frozen one.
LEMMA InsertRows ==
    ASSUME TypeOK, Rows, NEW u \in Updates, InsertPendingUpdate(u)
    PROVE  /\ SupplyTrees' = SupplyTrees
           /\ InsertResult(u) # "error" => bound'[u] # "absent"
           /\ \A v \in Updates : bound[v] # "absent" => bound'[v] # "absent"
           /\ Bound("pending") \subseteq Bound("pending")'
           /\ disk'.latest = disk.latest
           /\ InsertResult(u) = "inserted" =>
                 /\ disk'.pending.open /\ disk'.pending.old = disk.latest
                 /\ disk'.pending.frozen = disk.pending.frozen
                 /\ disk'.pending.new = disk.pending.new
                 /\ disk'.state = IF disk.state = "Default" THEN "UpdatesPending"
                                  ELSE disk.state
                 /\ disk.pending.frozen =>
                       /\ Bound("pending")' = Bound("pending")
                       /\ Bound("dangling")' = Bound("dangling") \cup {u}
                 /\ ~disk.pending.frozen =>
                       /\ Bound("pending")' = Bound("pending") \cup {u}
                       /\ Bound("dangling")' = Bound("dangling")
           /\ InsertResult(u) # "inserted" => disk' = disk /\ bound' = bound
<1>1. /\ disk \in Records
      /\ bound \in [Updates -> {"absent", "pending", "dangling", "final"}]
  BY Zenon DEF TypeOK
<1>2. CASE InsertResult(u) # "inserted"
  <2>1. disk' = disk /\ bound' = bound
    BY <1>2, Zenon DEF InsertPendingUpdate
  <2>2. InsertResult(u) # "error" => bound[u] # "absent"
    BY Zenon, <1>2 DEF InsertResult
  <2> QED
    BY <1>2, <2>1, <2>2, Zenon DEF SupplyTrees, Bound
<1>3. CASE InsertResult(u) = "inserted"
  <2>1. /\ disk' = IF disk.pending.open THEN disk
                   ELSE [disk EXCEPT !.state = "UpdatesPending",
                                     !.pending = Transition(disk.latest)]
        /\ bound' = [bound EXCEPT ![u] = IF disk.pending.frozen
                                         THEN "dangling" ELSE "pending"]
    BY <1>3, Zenon DEF InsertPendingUpdate
  <2>2. bound[u] = "absent" /\ (disk.pending.open \/ disk.state = "Default")
    BY Zenon, <1>3 DEF InsertResult
  <2>3. /\ SupplyTrees' = SupplyTrees
        /\ bound'[u] # "absent"
        /\ \A v \in Updates : bound[v] # "absent" => bound'[v] # "absent"
        /\ Bound("pending") \subseteq Bound("pending")'
    BY Zenon, <1>1, <2>1, <2>2 DEF SupplyTrees, Bound
  <2>4. /\ disk.pending.frozen =>
              /\ Bound("pending")' = Bound("pending")
              /\ Bound("dangling")' = Bound("dangling") \cup {u}
        /\ ~disk.pending.frozen =>
              /\ Bound("pending")' = Bound("pending") \cup {u}
              /\ Bound("dangling")' = Bound("dangling")
    BY Zenon, <1>1, <2>1, <2>2 DEF Bound
  <2>5. /\ disk.pending.frozen \in BOOLEAN /\ disk.pending.open \in BOOLEAN
        /\ disk.pending.frozen => disk.pending.open
        /\ disk.pending.open <=> disk.state # "Default"
        /\ disk.state = "CommitBroadcast" <=> disk.pending.new # None
        /\ disk.pending.open => disk.pending.old = disk.latest
    BY Zenon, <1>1 DEF Rows, Record, Records, Transitions
  <2>6. CASE disk.pending.open
    BY <1>3, <2>1, <2>3, <2>4, <2>5, <2>6, Zenon
  <2>7. CASE ~disk.pending.open
    <3>1. /\ disk'.state = "UpdatesPending" /\ disk'.latest = disk.latest
          /\ disk'.pending.open /\ disk'.pending.old = disk.latest
          /\ disk'.pending.new = None /\ disk'.pending.frozen = FALSE
      BY Zenon, <1>1, <2>1, <2>7 DEF Records, Transition, NoTransition, None
    <3>2. disk.state = "Default" /\ disk.pending.frozen = FALSE
      BY Zenon, <2>2, <2>5, <2>7
    <3>3. disk.pending.new = None
      BY Zenon, <2>5, <3>2
    <3> QED
      BY <1>3, <2>3, <2>4, <3>1, <3>2, <3>3, Zenon
  <2> QED
    BY Zenon, <2>6, <2>7
<1> QED
  BY Zenon, <1>2, <1>3

LEMMA UpdateRows ==
    ASSUME TypeOK, Rows, NEW i \in DOMAIN machines, ProcessUpdate(i)
    PROVE  Rows' /\ NoneFinal
<1> DEFINE u == Head(machines[i].queue)[2]
<1>1. /\ u \in Updates /\ InsertPendingUpdate(u) /\ ComsKept
      /\ acked' = IF InsertResult(u) = "error" THEN acked ELSE acked \cup {u}
      /\ pushes' = pushes /\ server' = server
  BY UpdateEffect, Zenon
<1> HIDE DEF u
<1>2. /\ SupplyTrees' = SupplyTrees
      /\ InsertResult(u) # "error" => bound'[u] # "absent"
      /\ \A v \in Updates : bound[v] # "absent" => bound'[v] # "absent"
      /\ disk'.latest = disk.latest
      /\ InsertResult(u) = "inserted" =>
            /\ disk'.pending.open /\ disk'.pending.old = disk.latest
            /\ disk'.pending.frozen = disk.pending.frozen
            /\ disk'.pending.new = disk.pending.new
            /\ disk'.state = IF disk.state = "Default" THEN "UpdatesPending"
                             ELSE disk.state
            /\ disk.pending.frozen =>
                  /\ Bound("pending")' = Bound("pending")
                  /\ Bound("dangling")' = Bound("dangling") \cup {u}
            /\ ~disk.pending.frozen =>
                  /\ Bound("pending")' = Bound("pending") \cup {u}
                  /\ Bound("dangling")' = Bound("dangling")
      /\ InsertResult(u) # "inserted" => disk' = disk /\ bound' = bound
  BY ONLY TypeOK, Rows, <1>1, InsertRows, Zenon
<1>3. /\ Trees' /\ ServerFollows'
      /\ Buried' = Buried
      /\ DOMAIN coms \subseteq DOMAIN coms'
      /\ disk.latest <= Len(coms')
  BY <1>1, <1>2, UndecidedRows, Zenon
<1>4. /\ disk.pending.open <=> Bound("pending") # {}
      /\ disk.pending.frozen => disk.pending.open
      /\ Bound("dangling") # {} => disk.pending.frozen
      /\ disk.pending.open <=> disk.state # "Default"
      /\ disk.state = "CommitBroadcast" <=> disk.pending.new # None
      /\ disk.pending.open => disk.pending.old = disk.latest
      /\ disk.pending.new # None => /\ disk.pending.new \in DOMAIN coms
                                    /\ disk.pending.new > disk.latest
      /\ \A n \in Buried : n <= disk.latest
      /\ \A v \in acked : bound[v] # "absent"
  BY Zenon DEF Rows, Record
<1>5. \A v \in acked' : bound'[v] # "absent"
  BY <1>1, <1>2, <1>4, Zenon DEF TypeOK
<1>6. CASE InsertResult(u) # "inserted"
  <2>1. Bound("pending")' = Bound("pending") /\ Bound("dangling")' = Bound("dangling")
    BY <1>2, <1>6, Zenon DEF Bound
  <2>2. disk' = disk
    BY Zenon, <1>2, <1>6
  <2>3. Record'
    BY ONLY <1>3, <1>4, <1>5, <2>1, <2>2, Zenon DEF Record
  <2> QED
    BY <1>2, <1>3, <2>3, Zenon DEF Rows, NoneFinal
<1>7. CASE InsertResult(u) = "inserted"
  <2>1. /\ disk'.pending.open /\ disk'.pending.old = disk'.latest
        /\ disk'.pending.frozen <=> disk.pending.frozen
        /\ disk'.pending.new = disk.pending.new
        /\ disk'.latest = disk.latest
        /\ disk'.state = IF disk.state = "Default" THEN "UpdatesPending"
                         ELSE disk.state
    BY <1>2, <1>7, Zenon
  <2>2. Bound("pending")' # {}
    BY <1>2, <1>4, <1>7, Zenon
  <2>3. Bound("dangling")' # {} => disk.pending.frozen
    BY <1>2, <1>4, <1>7, Zenon
  <2>4. disk'.state # "Default"
    BY Zenon, <2>1
  <2>5. disk'.state = "CommitBroadcast" <=> disk.state = "CommitBroadcast"
    BY Zenon, <2>1
  <2>6. Record'
    BY ONLY <1>3, <1>4, <1>5, <2>1, <2>2, <2>3, <2>4, <2>5, Zenon DEF Record
  <2> QED
    BY <1>2, <1>3, <2>6, Zenon DEF Rows, NoneFinal
<1> QED
  BY <1>6, <1>7, Zenon

\* What a tick may do to the record.
Ticks ==
    \/ disk' = disk
    \/ Bound("pending") = {} /\ disk' = [disk EXCEPT !.state = "Default"]
    \/ disk' = [disk EXCEPT !.pending.frozen = disk.pending.open]

LEMMA TickRows ==
    ASSUME TypeOK, Rows, NEW i \in DOMAIN machines, ProcessTick(i)
    PROVE  Rows' /\ NoneFinal
<1>1. /\ UNCHANGED <<bound, coms, pushes, server, acked>>
      /\ ComsKept
      /\ \/ \E sm : TickUpdatesPending(i, sm)
         \/ \E sm : TickBroadcast(i, sm)
         \/ disk' = disk
  BY TickEffect, Zenon
<1>2. Ticks
  BY <1>1, Zenon DEF TickUpdatesPending, TickBroadcast, Ticks
<1>3. \A x : Bound(x)' = Bound(x)
  BY <1>1, Zenon DEF Bound
<1>4. SupplyTrees' = SupplyTrees
  BY Zenon, <1>3 DEF SupplyTrees
<1>5. Trees' /\ ServerFollows' /\ Buried' = Buried
  BY <1>1, <1>4, UndecidedRows, Zenon
<1>6. /\ disk.pending.open <=> Bound("pending") # {}
      /\ disk.pending.frozen => disk.pending.open
      /\ disk.pending.open <=> disk.state # "Default"
      /\ disk \in Records
  BY Zenon DEF Rows, Record, TypeOK
<1>7. /\ disk'.state = disk.state
      /\ disk'.latest = disk.latest
      /\ disk'.pending.open = disk.pending.open
      /\ disk'.pending.new = disk.pending.new
      /\ disk'.pending.old = disk.pending.old
      /\ disk'.pending.frozen => disk.pending.open
      /\ disk.pending.frozen => disk'.pending.frozen
  BY <1>2, <1>6 DEF Ticks, Records, Transitions
<1>8. Bound("pending")' = Bound("pending") /\ Bound("dangling")' = Bound("dangling")
  BY Zenon, <1>3
<1>9. Record'
  BY <1>1, <1>5, <1>7, <1>8, Zenon DEF Rows, Record
<1> QED
  BY <1>4, <1>5, <1>7, <1>9, Zenon DEF Rows, NoneFinal

LEMMA SignRows ==
    ASSUME TypeOK, Rows, NEW i \in DOMAIN machines, ProcessSignTx(i)
    PROVE  Rows' /\ NoneFinal
<1>1. /\ UNCHANGED <<bound, acked, pushes, server>> /\ ComsKept
      /\ Signs(i) \/ disk' = disk
  BY SignEffect, Zenon
<1>2. \A x : Bound(x)' = Bound(x)
  BY <1>1, Zenon DEF Bound
<1>3. SupplyTrees' = SupplyTrees
  BY Zenon, <1>2 DEF SupplyTrees
<1>4. /\ Trees' /\ ServerFollows'
      /\ Buried' = Buried
      /\ DOMAIN coms \subseteq DOMAIN coms'
      /\ disk.latest <= Len(coms')
  BY <1>1, <1>3, UndecidedRows, Zenon
<1>5. Bound("pending")' = Bound("pending") /\ Bound("dangling")' = Bound("dangling")
  BY Zenon, <1>2
<1>6. CASE disk' = disk
  <2>1. Record'
    BY <1>1, <1>4, <1>5, <1>6, Zenon DEF Rows, Record
  <2> QED
    BY <1>3, <1>4, <1>6, <2>1, Zenon DEF Rows, NoneFinal
<1>7. CASE Signs(i)
  <2>1. /\ disk.pending.open /\ Len(coms) + 1 \in DOMAIN coms'
        /\ disk' = [disk EXCEPT !.state = "CommitBroadcast",
                                !.pending.new = Len(coms) + 1]
        /\ disk \in Records /\ Len(coms) \in Nat /\ disk.latest <= Len(coms)
    BY <1>7 DEF Signs, TypeOK, Rows, Record
  <2>2. /\ disk'.state = "CommitBroadcast"
        /\ disk'.latest = disk.latest
        /\ disk'.pending.open = disk.pending.open
        /\ disk'.pending.new = Len(coms) + 1
        /\ disk'.pending.old = disk.pending.old
        /\ disk'.pending.frozen = disk.pending.frozen
    BY Zenon, <2>1 DEF Records, Transitions
  <2>3. Len(coms) + 1 # None /\ Len(coms) + 1 > disk.latest
    BY <2>1 DEF None, Records
  <2>4. "CommitBroadcast" # "Default"
    BY Zenon
  <2>5. Record'
    BY <1>1, <1>4, <1>5, <2>1, <2>2, <2>3, <2>4, Zenon DEF Rows, Record
  <2> QED
    BY <1>3, <1>4, <2>2, <2>5, Zenon DEF Rows, NoneFinal
<1> QED
  BY <1>1, <1>6, <1>7, Zenon

LEMMA BuryRows ==
    ASSUME TypeOK, Rows, NEW n \in DOMAIN coms, OnBuried(n)
    PROVE  /\ Rows' /\ Buried' = Buried \cup {n} /\ n \notin Buried
           /\ n > disk.latest /\ disk'.latest = n
           /\ SupplyTrees' = SupplyTrees \cup Bound("pending")
           /\ Bound("pending")' = Bound("dangling")
           /\ \A k \in Buried : SameBody(k)
<1>1. /\ disk.pending.open /\ disk.pending.new = n
      /\ Decides(n, "buried")
      /\ coms'[n].leaves = Bound("pending")
      /\ Rebind(n, Bound("dangling"))
      /\ bound' = [u \in Updates |-> CASE bound[u] = "pending" -> "final"
                                       [] bound[u] = "dangling" -> "pending"
                                       [] OTHER -> bound[u]]
      /\ pushes' = pushes \cup {n}
      /\ UNCHANGED <<machines, server, acked>>
  BY BuryEffect, Zenon
<1>2. n \in Nat /\ n <= Len(coms) /\ disk.latest \in Nat /\ n # None /\ Len(coms) \in Nat
  BY CommitmentTypes DEF TypeOK, Records, None
<1>3. /\ n > disk.latest
      /\ \A k \in Buried : k <= disk.latest
      /\ \A v \in acked : bound[v] # "absent"
  BY <1>1, <1>2, Zenon DEF Rows, Record
<1>4. n \notin Buried
  BY Zenon, <1>1 DEF Decides, Buried
<1>5. Buried' = Buried \cup {n}
  <2>1. \A k : k \in Buried' <=> k \in Buried \cup {n}
    BY Zenon, <1>1 DEF Decides, Buried
  <2> QED
    BY <2>1, Zenon
<1>6. \A k \in Buried : SameBody(k)
  BY Zenon, <1>1, <1>4 DEF Decides, Buried, SameBody
<1>7. /\ SupplyTrees' = SupplyTrees \cup Bound("pending")
      /\ Bound("pending")' = Bound("dangling")
      /\ Bound("dangling")' = {}
      /\ \A u \in Updates : bound[u] # "absent" => bound'[u] # "absent"
  BY Zenon, <1>1 DEF SupplyTrees, Bound, TypeOK
<1>8. ServerFollows'
  BY <1>1, <1>6, ServerKept, Zenon DEF Rows
<1>9. Trees'
  <2>1. SupplyTrees = UNION {coms[k].leaves : k \in Buried}
    BY Zenon DEF Rows, Trees
  <2>2. \A k \in Buried : coms'[k].leaves = coms[k].leaves
    BY <1>6, Zenon DEF SameBody
  <2>3. \A u : u \in SupplyTrees' <=> \E k \in Buried' : u \in coms'[k].leaves
    BY <1>1, <1>5, <1>7, <2>1, <2>2, Zenon
  <2>4. SupplyTrees' = UNION {coms'[k].leaves : k \in Buried'}
    BY <2>3, Zenon
  <2>5. pushes' \subseteq Buried' /\ server'.has \subseteq Buried'
    BY <1>1, <1>5, Zenon DEF Rows, Trees
  <2> QED
    BY <2>4, <2>5, Zenon DEF Trees
<1>10. /\ disk'.latest = n
       /\ disk'.pending.new = None /\ ~disk'.pending.frozen
       /\ Bound("dangling") = {} => disk'.state = "Default" /\ ~disk'.pending.open
       /\ Bound("dangling") # {} =>
             /\ disk'.state = "UpdatesPending" /\ disk'.pending.open
             /\ disk'.pending.old = n
  BY <1>1, <1>2, RebindType, Zenon
<1>11. \A k \in Buried' : k <= n
  BY <1>2, <1>3, <1>5, CommitmentTypes DEF Buried
<1>12. \A v \in acked' : bound'[v] # "absent"
  BY <1>1, <1>3, <1>7, Zenon DEF TypeOK
<1>13. n <= Len(coms')
  BY Zenon, <1>1, <1>2 DEF Decides
<1>14. /\ disk'.state # "CommitBroadcast"
       /\ disk'.pending.open <=> disk'.state # "Default"
       /\ disk'.pending.open <=> Bound("dangling") # {}
  BY Zenon, <1>10
<1>15. Record'
  BY <1>7, <1>10, <1>11, <1>12, <1>13, <1>14, Zenon DEF Record
<1> QED
  BY <1>3, <1>4, <1>5, <1>6, <1>7, <1>8, <1>9, <1>10, <1>15, Zenon DEF Rows

LEMMA AbandonRows ==
    ASSUME TypeOK, Rows, NEW n \in DOMAIN coms, OnAbandoned(n)
    PROVE  /\ Rows' /\ NoneFinal
           /\ \A k \in DOMAIN coms : coms'[k].old = coms[k].old
                                     /\ coms'[k].root = coms[k].root
           /\ \A k \in Buried : SameBody(k)
           /\ \/ disk' = disk /\ bound' = bound /\ disk.pending.new # n
              \/ disk' = disk /\ bound' = bound /\ ~disk.pending.open
              \/ /\ disk.pending.new = n /\ disk.pending.open
                 /\ disk'.pending.new = None
<1>1. /\ Decides(n, "abandoned")
      /\ coms'[n].leaves = coms[n].leaves
      /\ ApplyCommitAbandonment(n)
      /\ UNCHANGED <<machines, server, acked, pushes>>
  BY AbandonEffect, Zenon
<1>2. disk.latest \in Nat /\ disk.latest <= Len(coms) /\ n # None
  BY CommitmentTypes DEF TypeOK, Records, Rows, Record, None
<1>3. Buried' = Buried
  <2>1. \A k : k \in Buried' <=> k \in Buried
    BY Zenon, <1>1 DEF Decides, Buried
  <2> QED
    BY <2>1, Zenon
<1>4. \A k \in DOMAIN coms : coms'[k].old = coms[k].old /\ coms'[k].root = coms[k].root
  BY <1>1, Zenon DEF Decides
<1>5. \A k \in Buried : SameBody(k)
  BY Zenon, <1>1 DEF Decides, Buried, SameBody
<1>6. CASE disk.pending.open /\ disk.pending.new = n
  <2>1. /\ Rebind(disk.latest, Bound("pending") \cup Bound("dangling"))
        /\ bound' = [u \in Updates |-> IF bound[u] = "dangling"
                                       THEN "pending" ELSE bound[u]]
    BY <1>1, <1>6, Zenon DEF ApplyCommitAbandonment
  <2>2. /\ SupplyTrees' = SupplyTrees
        /\ Bound("pending")' = Bound("pending") \cup Bound("dangling")
        /\ Bound("dangling")' = {}
        /\ \A u \in Updates : bound[u] # "absent" => bound'[u] # "absent"
    BY Zenon, <2>1 DEF SupplyTrees, Bound, TypeOK
  <2>3. Bound("pending") \cup Bound("dangling") # {}
    BY <1>6, Zenon DEF Rows, Record
  <2>4. /\ disk'.latest = disk.latest
        /\ disk'.pending.new = None /\ ~disk'.pending.frozen
        /\ disk'.state = "UpdatesPending" /\ disk'.pending.open
        /\ disk'.pending.old = disk.latest
    BY <1>2, <2>1, <2>3, RebindType, Zenon
  <2>5. Trees' /\ ServerFollows'
    BY <1>1, <1>3, <1>5, <2>2, TreesKept, ServerKept, Zenon DEF Rows
  <2>6. disk'.state # "CommitBroadcast" /\ disk'.state # "Default"
    BY Zenon, <2>4
  <2>7. \A v \in acked' : bound'[v] # "absent"
    BY <1>1, <2>2, Zenon DEF TypeOK, Rows, Record
  <2>8. Record'
    BY <1>1, <1>2, <1>3, <2>2, <2>3, <2>4, <2>6, <2>7, Zenon DEF Rows, Record, Decides
  <2> QED
    BY <1>3, <1>4, <1>5, <1>6, <2>2, <2>4, <2>5, <2>8, Zenon DEF Rows, NoneFinal
<1>7. CASE ~(disk.pending.open /\ disk.pending.new = n)
  <2>1. disk' = disk /\ bound' = bound
    BY <1>1, <1>7, Zenon DEF ApplyCommitAbandonment
  <2>2. \A x : Bound(x)' = Bound(x)
    BY <2>1, Zenon DEF Bound
  <2>3. /\ SupplyTrees' = SupplyTrees
        /\ Bound("pending")' = Bound("pending") /\ Bound("dangling")' = Bound("dangling")
    BY Zenon, <2>2 DEF SupplyTrees
  <2>4. Trees' /\ ServerFollows'
    BY <1>1, <1>3, <1>5, <2>3, TreesKept, ServerKept, Zenon DEF Rows
  <2>5. Record'
    BY <1>1, <1>3, <2>1, <2>3, Zenon DEF Rows, Record, Decides
  <2> QED
    BY <1>3, <1>4, <1>5, <1>7, <2>1, <2>3, <2>4, <2>5, Zenon DEF Rows, NoneFinal
<1> QED
  BY Zenon, <1>6, <1>7

LEMMA PushRows ==
    ASSUME TypeOK, Rows, NEW n \in pushes, DispatchCommitPush(n)
    PROVE  Rows' /\ NoneFinal
<1>0. pushes \subseteq Buried
  BY Zenon DEF Rows, Trees
<1>1. /\ n \in server.has \/ VerifyCommit(n)
      /\ server'.has = server.has \cup {n}
      /\ pushes' \subseteq pushes
      /\ UNCHANGED <<disk, bound, coms, machines, acked>>
  BY <1>0, PushEffect, Zenon
<1>2. Buried' = Buried /\ \A x : Bound(x)' = Bound(x)
  BY <1>1, Zenon DEF Buried, Bound
<1>3. SupplyTrees' = SupplyTrees
  BY Zenon, <1>2 DEF SupplyTrees
<1>4. Bound("pending")' = Bound("pending") /\ Bound("dangling")' = Bound("dangling")
  BY Zenon, <1>2
<1>5. Record'
  BY <1>1, <1>2, <1>4, Zenon DEF Rows, Record
<1>6. Trees'
  BY <1>0, <1>1, <1>2, <1>3, Zenon DEF Rows, Trees
<1>7. ServerTrees' = ServerTrees \cup coms[n].leaves
  <2>1. \A u : u \in ServerTrees' <=> u \in ServerTrees \/ u \in coms[n].leaves
    BY <1>1, Zenon DEF ServerTrees
  <2> QED
    BY <2>1, Zenon
<1>8. CASE n \in server.has
  <2>1. server'.has = server.has /\ coms' = coms
    BY Zenon, <1>1, <1>8
  <2>2. coms[n].leaves \subseteq ServerTrees
    BY <1>8, Zenon DEF ServerTrees
  <2>3. ServerTrees' = ServerTrees
    BY <1>7, <2>2, Zenon
  <2>4. ServerFollows'
    BY <2>1, <2>3, Zenon DEF Rows, ServerFollows
  <2> QED
    BY <1>1, <1>2, <1>3, <1>5, <1>6, <2>4, Zenon DEF Rows, NoneFinal
<1>9. CASE VerifyCommit(n)
  <2>1. /\ coms[n].old \in server.has \cup {None}
        /\ ServerTrees \cup coms[n].leaves = coms[n].root
    <3>1. CASE verifyInitialCommit(n)
      <4>1. ServerTrees = {}
        BY <3>1, Zenon DEF verifyInitialCommit, ServerTrees
      <4> QED
        BY <3>1, <4>1, Zenon DEF verifyInitialCommit
    <3>2. CASE verifyIncrementalCommit(n)
      BY <3>2, Zenon DEF verifyIncrementalCommit
    <3> QED
      BY <1>9, <3>1, <3>2, Zenon DEF VerifyCommit
  <2>2. ServerTrees' = coms[n].root
    BY <1>7, <2>1, Zenon
  <2>3. ServerTrees \subseteq ServerTrees'
    BY <1>7, Zenon
  <2>4. /\ \A k \in server.has : coms[k].old \in server.has \cup {None}
        /\ \A k \in server.has : coms[k].root \subseteq ServerTrees
    BY Zenon DEF Rows, ServerFollows
  <2>5. ServerFollows'
    BY <1>1, <2>1, <2>2, <2>3, <2>4, Zenon DEF ServerFollows
  <2> QED
    BY <1>1, <1>2, <1>3, <1>5, <1>6, <2>5, Zenon DEF Rows, NoneFinal
<1> QED
  BY <1>1, <1>8, <1>9, Zenon

\* Every step is one of these.
LEMMA Steps ==
    ASSUME TypeOK, Rows, Next
    PROVE  \/ \E i \in DOMAIN machines :
                \/ ProcessUpdate(i) \/ ProcessTick(i) \/ ProcessSignTx(i)
                \/ ProcessCreateTree(i) \/ ProcessCreateTx(i)
                \/ ProcessBroadcast(i) \/ StepFails(i)
           \/ \E c \in Callers : \E job \in Jobs : Call(c, job)
           \/ \E c \in Callers : StartAssetSM(c)
           \/ Crash
           \/ \/ \E m \in Mints : Issue(m) \/ ServerLearns(m)
              \/ EmptyBlock
              \/ \E n \in DOMAIN coms : Mine(n) \/ ForeignSpend(n)
           \/ \E n \in DOMAIN coms : OnBuried(n) \/ OnAbandoned(n)
           \/ \E n \in pushes : DispatchCommitPush(n)
<1>1. ASSUME NEW c \in Callers,
             \/ \E u \in Updates : SendUpdate(c, u) \/ ResendUpdate(c, u)
             \/ StartSupplyPublishFlow(c)
             \/ DispatchCommitNudge(c)
      PROVE  \E job \in Jobs : Call(c, job)
  BY <1>1, CallerEffect, Zenon
<1> QED
  BY <1>1, Zenon DEF Next, MachineStep, Nudging, Watching, Pushing

\* The steps other than these seven are quiet.
LEMMA QuietSteps ==
    ASSUME TypeOK, Rows, Next
    PROVE  /\ TypeOK'
           /\ \/ Quiet
              \/ \E i \in DOMAIN machines :
                    ProcessUpdate(i) \/ ProcessTick(i) \/ ProcessSignTx(i)
              \/ \E n \in DOMAIN coms : OnBuried(n) \/ OnAbandoned(n)
              \/ \E n \in pushes : DispatchCommitPush(n)
<1>0. pushes \subseteq Buried
  BY Zenon DEF Rows, Trees
<1>1. ASSUME NEW i \in DOMAIN machines,
             ProcessUpdate(i) \/ ProcessTick(i) \/ ProcessSignTx(i)
      PROVE  TypeOK'
  BY <1>1, UpdateEffect, TickEffect, SignEffect, Zenon
<1>2. ASSUME NEW i \in DOMAIN machines,
             \/ ProcessCreateTree(i) \/ ProcessCreateTx(i)
             \/ ProcessBroadcast(i) \/ StepFails(i)
      PROVE  TypeOK' /\ Quiet
  BY <1>2, CreateEffect, BroadcastEffect, Zenon
<1>3. ASSUME NEW c \in Callers, StartAssetSM(c) \/ \E job \in Jobs : Call(c, job)
      PROVE  TypeOK' /\ Quiet
  BY <1>3, StartEffect, CallEffect, Zenon
<1>4. ASSUME NEW n \in DOMAIN coms, OnBuried(n) \/ OnAbandoned(n)
      PROVE  TypeOK'
  BY <1>4, BuryEffect, AbandonEffect, Zenon
<1>5. ASSUME NEW n \in pushes, DispatchCommitPush(n)
      PROVE  TypeOK'
  BY <1>0, <1>5, PushEffect, Zenon
<1> QED
  BY <1>1, <1>2, <1>3, <1>4, <1>5, CrashEffect, EnvironmentEffect, Steps, Zenon

LEMMA InitRows == Init => TypeOK /\ Rows
<1> SUFFICES ASSUME Init PROVE TypeOK /\ Rows
  BY Zenon
<1>1. TypeOK
  <2>1. caller \in [Callers -> Jobs]
    BY Zenon, IdleType DEF Init
  <2>2. disk \in Records
    BY Zenon DEF Init, Records, Transitions, NoTransition, None
  <2>3. /\ coms \in Seq(Commitments) /\ machines \in Seq(Machines)
        /\ cache \in 0..Len(machines)
        /\ bound \in [Updates -> {"absent", "pending", "dangling", "final"}]
        /\ issuedAt \in [Mints -> Nat] /\ height \in Nat
        /\ server \in [has : SUBSET Nat, pre : SUBSET Mints]
        /\ acked \subseteq Updates
    BY DEF Init, None
  <2> QED
    BY <2>1, <2>2, <2>3, Zenon DEF TypeOK
<1>2. Buried = {} /\ Bound("pending") = {} /\ Bound("dangling") = {} /\ SupplyTrees = {}
  BY DEF Init, Buried, Bound, SupplyTrees
<1>3. /\ disk.state = "Default" /\ disk.latest = 0 /\ ~disk.pending.open
      /\ ~disk.pending.frozen /\ disk.pending.new = None /\ disk.pending.old = None
  BY Zenon DEF Init, NoTransition, None
<1>4. /\ acked = {} /\ pushes = {} /\ server.has = {} /\ 0 <= Len(coms)
  BY DEF Init
<1>5. Record
  BY Zenon, <1>2, <1>3, <1>4 DEF Record
<1>6. Trees
  BY <1>2, <1>4, Zenon DEF Trees
<1>7. ServerFollows
  BY <1>4, Zenon DEF ServerFollows
<1> QED
  BY <1>1, <1>5, <1>6, <1>7, Zenon DEF Rows

LEMMA StutterRows ==
    ASSUME TypeOK, Rows, UNCHANGED vars
    PROVE  TypeOK' /\ Rows' /\ NoneFinal /\ Quiet /\ machines' = machines
<1>1. UNCHANGED <<disk, bound, coms, issuedAt, nudges, pushes, height, foreign,
                  machines, cache, caller, server, acked, faults>>
  BY Zenon DEF vars, durable, chain, memory
<1>2. TypeOK'
  BY <1>1, Zenon DEF TypeOK
<1>3. ComsKept
  BY Zenon, <1>1, SameComs
<1>4. Quiet
  BY <1>1, <1>3, Zenon DEF Quiet
<1> QED
  BY <1>1, <1>2, <1>4, QuietRows, Zenon

\* What is finalised stays so.
Forward ==
    /\ Buried \subseteq Buried'
    /\ SupplyTrees \subseteq SupplyTrees'
    /\ disk'.latest >= disk.latest

LEMMA NextRows ==
    ASSUME TypeOK, Rows, [Next]_vars
    PROVE  TypeOK' /\ Rows' /\ Forward
<1>1. disk.latest \in Nat
  BY Zenon DEF TypeOK, Records
<1>2. disk.latest >= disk.latest
  BY <1>1
<1>3. NoneFinal => Forward
  BY <1>2, Zenon DEF NoneFinal, Forward
<1>4. ASSUME NEW n \in DOMAIN coms, OnBuried(n)
      PROVE  Rows' /\ Forward
  <2>1. /\ Rows' /\ Buried' = Buried \cup {n} /\ n > disk.latest /\ disk'.latest = n
        /\ SupplyTrees' = SupplyTrees \cup Bound("pending")
    BY <1>4, BuryRows, Zenon
  <2>2. n \in Nat
    BY CommitmentTypes
  <2>3. disk'.latest >= disk.latest
    BY <1>1, <2>1, <2>2
  <2> QED
    BY <2>1, <2>3, Zenon DEF Forward
<1>5. ASSUME NEW i \in DOMAIN machines,
             ProcessUpdate(i) \/ ProcessTick(i) \/ ProcessSignTx(i)
      PROVE  Rows' /\ NoneFinal
  BY <1>5, UpdateRows, TickRows, SignRows, Zenon
<1>6. ASSUME Next PROVE TypeOK' /\ Rows' /\ Forward
  BY <1>3, <1>4, <1>5, <1>6, QuietSteps, QuietRows, AbandonRows, PushRows, Zenon
<1> QED
  BY <1>3, <1>6, StutterRows, Zenon

\* The record, the trees and the server's view of them hold throughout.
THEOREM Invariance == Spec => [](TypeOK /\ Rows)
BY InitRows, NextRows, PTL DEF Spec

\* An update whose sender was told so is recorded: in the trees, pending, or
\* dangling behind a frozen transition (InsertPendingUpdate and the two site
\* handlers), however machines overlap, fail and restart.
THEOREM UpdatesSafe == Spec => []NoUpdateLost
<1>1. Rows => NoUpdateLost
  BY Zenon DEF Rows, Record, NoUpdateLost
<1> QED
  BY <1>1, Invariance, PTL

\* The server's trees are the root of the last commitment it took, whatever is
\* pushed twice or out of order (VerifyCommit, DispatchCommitPush).
THEOREM ServerSafe == Spec => []ServerFollows
<1>1. Rows => ServerFollows
  BY Zenon DEF Rows
<1> QED
  BY <1>1, Invariance, PTL

\* What is finalised stays so: a commitment, an update of the trees, and the
\* order in which the latest commitment moves (ApplyCommitAbandonment,
\* applyStateTransitionBody).
THEOREM CommittedSafe == Spec => CommittedForever
<1>1. TypeOK /\ Rows /\ [Next]_vars => [Forward]_vars
  BY NextRows, Zenon
<1> QED
  BY <1>1, Invariance, PTL DEF Spec, CommittedForever, Forward

-----------------------------------------------------------------------------
(* One machine at a time.  fetchStateMachine may start a second machine while *)
(* another runs; where it does not, what the machine has in memory is what    *)
(* the rows say.                                                              *)

\* Only the machine that runs moves.
LEMMA MovedAgrees ==
    ASSUME OneRuns, NEW i \in DOMAIN machines, NEW sm, machines[i].run,
           MovesOne(i, sm),
           sm.run => Agrees(sm, disk', Bound("pending")', SupplyTrees')
    PROVE  AllAgree'
<1>1. \A j \in DOMAIN machines \ {i} : ~machines[j].run
  BY Zenon DEF OneRuns
<1>2. \A j \in DOMAIN machines' : j = i \/ ~machines'[j].run
  BY <1>1, Zenon DEF MovesOne
<1>3. machines'[i] = sm
  BY Zenon DEF MovesOne
<1> QED
  BY <1>2, <1>3, Zenon DEF AllAgree

LEMMA UpdateAgrees ==
    ASSUME TypeOK, Rows, AllAgree, OneRuns, NEW i \in DOMAIN machines, ProcessUpdate(i)
    PROVE  AllAgree'
<1> DEFINE u == Head(machines[i].queue)[2]
           sm == machines[i]
           x == AfterUpdate(i)
<1>1. /\ sm \in Machines /\ u \in Updates /\ MovesOne(i, x) /\ InsertPendingUpdate(u)
  BY UpdateEffect, Zenon
<1>2. /\ sm.run /\ sm.internal = "none" /\ sm.queue # <<>> /\ Head(sm.queue) # Tick
  BY DEF ProcessUpdate, Ready, Tick
<1>3. Agrees(sm, disk, Bound("pending"), SupplyTrees)
  BY <1>2, Zenon DEF AllAgree
<1>4. \/ sm.state = "CommitBroadcast" /\ sm.ups = {}
      \/ sm.state = "Default" /\ disk.state = "Default" /\ sm.ups = {}
      \/ /\ sm.state = "UpdatesPending" /\ disk.state = "UpdatesPending"
         /\ sm.ups = Bound("pending") /\ ~disk.pending.frozen
  BY Zenon, <1>1, <1>2, <1>3 DEF Agrees, Machines
<1>5. /\ SupplyTrees' = SupplyTrees
      /\ InsertResult(u) = "inserted" =>
            /\ disk'.pending.frozen = disk.pending.frozen
            /\ disk'.state = IF disk.state = "Default" THEN "UpdatesPending"
                             ELSE disk.state
            /\ ~disk.pending.frozen => Bound("pending")' = Bound("pending") \cup {u}
      /\ InsertResult(u) # "inserted" => disk' = disk /\ bound' = bound
  BY ONLY TypeOK, Rows, <1>1, InsertRows, Zenon
<1>6. disk.state = "Default" => Bound("pending") = {} /\ ~disk.pending.frozen
  BY Zenon DEF Rows, Record
<1>7. /\ Popped(sm) \in Machines
      /\ Popped(sm).state = sm.state /\ Popped(sm).ups = sm.ups
      /\ Popped(sm).internal = "none"
  BY Zenon, <1>1, <1>2, PoppedType DEF Machines
<1> HIDE DEF u, sm
<1>8. CASE InsertResult(u) = "inserted" /\ sm.state \in {"Default", "UpdatesPending"}
  <2>1. x = [Popped(sm) EXCEPT !.state = "UpdatesPending", !.ups = @ \cup {u}]
    BY Zenon, <1>7, <1>8 DEF AfterUpdate, u, sm
  <2>2. x.state = "UpdatesPending" /\ x.ups = sm.ups \cup {u} /\ x.internal = "none"
    BY Zenon, <1>7, <2>1 DEF Machines
  <2>3. /\ disk'.state = "UpdatesPending" /\ ~disk'.pending.frozen
        /\ Bound("pending")' = sm.ups \cup {u}
    BY Zenon, <1>4, <1>5, <1>6, <1>8
  <2> HIDE DEF x
  <2>4. Agrees(x, disk', Bound("pending")', SupplyTrees')
    BY ONLY Zenon, <2>2, <2>3 DEF Agrees
  <2> QED
    BY Zenon, <1>1, <1>2, <2>4, MovedAgrees DEF sm
<1>9. CASE InsertResult(u) # "inserted"
  <2>1. x = Stopped \/ x = Popped(sm)
    BY Zenon, <1>9 DEF AfterUpdate, u, sm
  <2>2. disk' = disk /\ Bound("pending")' = Bound("pending")
    BY <1>5, <1>9, Zenon DEF Bound
  <2>3. Agrees(Popped(sm), disk', Bound("pending")', SupplyTrees')
    BY Zenon, <1>4, <1>7, <2>2 DEF Agrees
  <2> HIDE DEF x
  <2> QED
    BY <1>1, <1>2, <2>1, <2>3, StoppedType, MovedAgrees, Zenon DEF sm
<1>10. CASE InsertResult(u) = "inserted" /\ sm.state = "CommitBroadcast"
  <2>1. x = Popped(sm)
    BY Zenon, <1>7, <1>10 DEF AfterUpdate, u, sm
  <2>2. Agrees(Popped(sm), disk', Bound("pending")', SupplyTrees')
    BY Zenon, <1>4, <1>7, <1>10 DEF Agrees
  <2> HIDE DEF x
  <2> QED
    BY Zenon, <1>1, <1>2, <2>1, <2>2, MovedAgrees DEF sm
<1> QED
  BY <1>4, <1>8, <1>9, <1>10, Zenon

LEMMA TickAgrees ==
    ASSUME TypeOK, Rows, AllAgree, OneRuns, NEW i \in DOMAIN machines, ProcessTick(i)
    PROVE  AllAgree'
<1> DEFINE old == machines[i]
           sm == Ticked(i)
           pend == Bound("pending")
<1>1. /\ old \in Machines /\ sm \in Machines
      /\ \/ sm.state = "UpdatesPending" /\ TickUpdatesPending(i, sm)
         \/ sm.state = "CommitBroadcast" /\ TickBroadcast(i, sm)
         \/ /\ sm.state \notin {"UpdatesPending", "CommitBroadcast"}
            /\ Moves(i, sm) /\ disk' = disk
      /\ bound' = bound
  BY TickEffect, Zenon
<1>2. /\ old.run
      /\ old.internal = "tick" \/ (old.internal = "none" /\ old.queue # <<>>)
  BY Zenon DEF ProcessTick, Ready, ReadyInternal
<1>3. /\ sm.state = old.state /\ sm.ups = old.ups /\ sm.internal = "none"
  <2>1. CASE old.internal = "tick"
    <3>1. sm = [old EXCEPT !.internal = "none"]
      BY Zenon, <2>1 DEF Ticked
    <3> QED
      BY Zenon, <1>1, <3>1 DEF Machines
  <2>2. CASE old.internal # "tick"
    <3>1. old.queue # <<>> /\ old.internal = "none"
      BY Zenon, <1>2, <2>2
    <3>2. sm = [old EXCEPT !.queue = Tail(old.queue)]
      BY Zenon, <1>1, <2>2, <3>1, PoppedType DEF Ticked
    <3> QED
      BY Zenon, <1>1, <3>1, <3>2 DEF Machines
  <2> QED
    BY Zenon, <2>1, <2>2
<1>4. Agrees(old, disk, pend, SupplyTrees)
  BY <1>2, Zenon DEF AllAgree
<1>5. pend' = pend /\ SupplyTrees' = SupplyTrees /\ pend \subseteq Updates
  BY <1>1, Zenon DEF Bound, SupplyTrees
<1>6. /\ disk \in Records
      /\ disk.state # "Default" => disk.pending.open /\ pend # {}
  BY Zenon DEF Rows, Record, TypeOK
<1> HIDE DEF old, sm, pend
<1>7. CASE sm.state = "UpdatesPending"
  <2>1. /\ disk.state = "UpdatesPending"
        /\ sm.ups = pend \/ sm.ups = {}
    BY Zenon, <1>3, <1>4, <1>7 DEF Agrees
  <2> DEFINE x == [sm EXCEPT !.state = "CommitTreeCreate", !.ups = pend,
                             !.internal = "createTree"]
  <2>2. TickUpdatesPending(i, sm)
    BY Zenon, <1>1, <1>7
  <2>3. /\ disk' = [disk EXCEPT !.pending.frozen = disk.pending.open]
        /\ Moves(i, x)
    BY <1>6, <2>1, <2>2, Zenon DEF TickUpdatesPending, pend
  <2>4. /\ disk'.state = "UpdatesPending" /\ disk'.pending.frozen
    BY Zenon, <1>6, <2>1, <2>3 DEF Records, Transitions
  <2>5. /\ x \in Machines /\ x.state = "CommitTreeCreate" /\ x.ups = pend
        /\ x.internal = "createTree"
    BY Zenon, <1>1, <1>5 DEF Machines
  <2> HIDE DEF x
  <2>6. MovesOne(i, x)
    BY Zenon, <2>3, <2>5, MachineMoves
  <2>7. Agrees(x, disk', pend', SupplyTrees')
    BY ONLY Zenon, <1>5, <2>4, <2>5 DEF Agrees, HasBatch
  <2> QED
    BY Zenon, <1>2, <2>6, <2>7, MovedAgrees DEF old, pend
<1>8. CASE sm.state = "CommitBroadcast"
  <2> DEFINE x == [sm EXCEPT !.state = "Default", !.ups = {}]
             y == [sm EXCEPT !.state = "UpdatesPending", !.ups = pend,
                             !.internal = "tick"]
  <2>1. TickBroadcast(i, sm)
    BY Zenon, <1>1, <1>8
  <2>2. /\ disk' = disk
        /\ \/ disk.state = "Default" /\ Moves(i, x)
           \/ disk.state = "UpdatesPending" /\ Moves(i, y)
           \/ Moves(i, sm)
    BY Zenon, <2>1 DEF TickBroadcast, Moves, pend
  <2>3. /\ x \in Machines /\ x.state = "Default" /\ x.ups = {} /\ x.internal = "none"
        /\ y \in Machines /\ y.state = "UpdatesPending" /\ y.ups = pend
        /\ y.internal = "tick"
    BY Zenon, <1>1, <1>3, <1>5 DEF Machines
  <2>4. /\ disk.state = "Default" => Agrees(x, disk', pend', SupplyTrees')
        /\ disk.state = "UpdatesPending" => Agrees(y, disk', pend', SupplyTrees')
    BY Zenon, <1>5, <2>2, <2>3 DEF Agrees
  <2>5. Agrees(sm, disk', pend', SupplyTrees')
    BY Zenon, <1>3, <1>4, <1>8 DEF Agrees
  <2> HIDE DEF x, y
  <2>6. PICK z \in Machines : Moves(i, z) /\ Agrees(z, disk', pend', SupplyTrees')
    BY <1>1, <2>2, <2>3, <2>4, <2>5, Zenon
  <2>7. MovesOne(i, z)
    BY Zenon, <2>6, MachineMoves
  <2> QED
    BY Zenon, <1>2, <2>6, <2>7, MovedAgrees DEF old, pend
<1>9. CASE sm.state \notin {"UpdatesPending", "CommitBroadcast"}
  <2>1. Moves(i, sm) /\ disk' = disk
    BY Zenon, <1>1, <1>9
  <2>2. sm.state = "Default"
    BY Zenon, <1>1, <1>2, <1>3, <1>4, <1>9 DEF Agrees, Machines
  <2>3. Agrees(sm, disk', pend', SupplyTrees')
    BY Zenon, <1>3, <1>4, <2>1, <2>2 DEF Agrees
  <2>4. MovesOne(i, sm)
    BY Zenon, <1>1, <2>1, MachineMoves
  <2> QED
    BY Zenon, <1>2, <2>3, <2>4, MovedAgrees DEF old, pend
<1> QED
  BY Zenon, <1>7, <1>8, <1>9

\* The record, its updates and the trees as a machine sees them.
SameView == disk' = disk /\ Bound("pending")' = Bound("pending")
            /\ SupplyTrees' = SupplyTrees

LEMMA QuietView ==
    ASSUME Quiet
    PROVE  SameView
<1>1. disk' = disk /\ bound' = bound
  BY Zenon DEF Quiet
<1> QED
  BY <1>1, Zenon DEF SameView, Bound, SupplyTrees

LEMMA StillAgree ==
    ASSUME AllAgree, SameView, machines' = machines
    PROVE  AllAgree'
BY Zenon DEF AllAgree, SameView

LEMMA StoppedAgrees ==
    ASSUME OneRuns, NEW i \in DOMAIN machines, machines[i].run, MovesOne(i, Stopped)
    PROVE  AllAgree'
BY MovedAgrees, StoppedType, Zenon

LEMMA CreateAgrees ==
    ASSUME TypeOK, AllAgree, OneRuns, NEW i \in DOMAIN machines,
           ProcessCreateTree(i) \/ ProcessCreateTx(i) \/ StepFails(i)
    PROVE  AllAgree'
<1> DEFINE sm == machines[i]
           pend == Bound("pending")
<1>1. sm \in Machines /\ sm.run
  BY Zenon, MachineTypes DEF ProcessCreateTree, ProcessCreateTx, StepFails, ReadyInternal
<1>2. Agrees(sm, disk, pend, SupplyTrees)
  BY <1>1, Zenon DEF AllAgree
<1>3. SameView
  BY CreateEffect, QuietView, Zenon
<1> HIDE DEF pend
<1>4. CASE ProcessCreateTree(i)
  <2> DEFINE x == AfterCreateTree(i)
  <2>1. MovesOne(i, x) /\ sm.internal = "createTree"
    BY <1>4, CreateEffect, Zenon DEF ProcessCreateTree, ReadyInternal
  <2>2. HasBatch(sm, disk, pend)
    BY Zenon, <1>1, <1>2, <2>1 DEF Agrees, Machines
  <2>3. /\ x.state = "CommitTxCreate" /\ x.internal = "createTx" /\ x.ups = sm.ups
        /\ x.root = SupplyTrees \cup sm.ups
    BY Zenon, <1>1 DEF Machines, AfterCreateTree
  <2> HIDE DEF x
  <2>4. Agrees(x, disk, pend, SupplyTrees)
    BY ONLY Zenon, <2>2, <2>3 DEF Agrees, HasBatch
  <2> QED
    BY <1>1, <1>3, <2>1, <2>4, MovedAgrees, Zenon DEF SameView, pend
<1>5. CASE ProcessCreateTx(i)
  <2> DEFINE x == AfterCreateTx(i)
  <2>1. MovesOne(i, x) /\ sm.internal = "createTx"
    BY <1>5, CreateEffect, Zenon DEF ProcessCreateTx, ReadyInternal
  <2>2. HasBatch(sm, disk, pend) /\ sm.root = SupplyTrees \cup pend
    BY Zenon, <1>1, <1>2, <2>1 DEF Agrees, Machines
  <2>3. /\ x.state = "CommitTxSign" /\ x.internal = "signTx" /\ x.ups = sm.ups
        /\ x.root = sm.root /\ x.old = disk.latest
    BY Zenon, <1>1 DEF Machines, AfterCreateTx
  <2> HIDE DEF x
  <2>4. Agrees(x, disk, pend, SupplyTrees)
    BY ONLY Zenon, <2>2, <2>3 DEF Agrees, HasBatch
  <2> QED
    BY <1>1, <1>3, <2>1, <2>4, MovedAgrees, Zenon DEF SameView, pend
<1>6. CASE StepFails(i)
  BY <1>1, <1>6, CreateEffect, StoppedAgrees, Zenon
<1> QED
  BY Zenon, <1>4, <1>5, <1>6

LEMMA BroadcastAgrees ==
    ASSUME TypeOK, AllAgree, OneRuns, NEW i \in DOMAIN machines, ProcessBroadcast(i)
    PROVE  AllAgree'
<1> DEFINE sm == machines[i]
           x == Sending(i)
           pend == Bound("pending")
<1>1. /\ sm \in Machines /\ SameView
      /\ \/ MovesOne(i, Stopped)
         \/ MovesOne(i, x) /\ x \in Machines
  BY BroadcastEffect, QuietView, Zenon
<1>2. /\ sm.run
      /\ \/ sm.internal = "broadcast"
         \/ sm.internal = "none" /\ sm.queue # <<>> /\ Head(sm.queue) # Tick
  BY DEF ProcessBroadcast, Ready, ReadyInternal, Tick
<1>3. Agrees(sm, disk, pend, SupplyTrees)
  BY <1>2, Zenon DEF AllAgree
<1>4. /\ x.state = sm.state /\ x.ups = sm.ups /\ x.internal = "none"
  BY Zenon, <1>1, <1>2, PoppedType DEF Machines, Sending
<1> HIDE DEF x, pend
<1>5. Agrees(x, disk, pend, SupplyTrees)
  BY Zenon, <1>1, <1>2, <1>3, <1>4 DEF Agrees, Machines
<1> QED
  BY <1>1, <1>2, <1>5, MovedAgrees, StoppedAgrees, Zenon DEF SameView, pend

LEMMA CallAgrees ==
    ASSUME TypeOK, AllAgree, OneRuns, NEW c \in Callers, NEW job \in Jobs, Call(c, job)
    PROVE  AllAgree'
<1>1. /\ SameView
      /\ \/ machines' = machines
         \/ \E i \in DOMAIN machines : \E e \in Events :
               /\ machines[i].run /\ machines[i] \in Machines
               /\ MovesOne(i, Fed(i, e)) /\ Fed(i, e) \in Machines
  BY CallEffect, QuietView, Zenon
<1>2. ASSUME NEW i \in DOMAIN machines, NEW e \in Events,
             machines[i].run, machines[i] \in Machines,
             MovesOne(i, Fed(i, e))
      PROVE  AllAgree'
  <2> DEFINE sm == machines[i]
             x == Fed(i, e)
             q == Append(sm.queue, e)
             pend == Bound("pending")
  <2>1. sm.queue \in Seq(Events)
    BY Zenon, <1>2 DEF Machines
  <2>2. q # <<>> /\ (sm.queue # <<>> => Head(q) = Head(sm.queue))
    BY <1>2, <2>1, AppendType
  <2>3. x = [sm EXCEPT !.queue = q]
    BY Zenon DEF Fed
  <2> HIDE DEF q
  <2>4. /\ x.state = sm.state /\ x.ups = sm.ups /\ x.internal = sm.internal
        /\ x.root = sm.root /\ x.old = sm.old /\ x.queue = q
    BY Zenon, <1>2, <2>3 DEF Machines
  <2>5. Agrees(sm, disk, pend, SupplyTrees)
    BY <1>2, Zenon DEF AllAgree
  <2> HIDE DEF sm, x, pend
  <2>6. Agrees(x, disk, pend, SupplyTrees)
    BY ONLY <2>2, <2>4, <2>5, Zenon DEF Agrees, HasBatch
  <2> QED
    BY <1>1, <1>2, <2>6, MovedAgrees, Zenon DEF SameView, pend, x
<1> QED
  BY <1>1, <1>2, StillAgree, Zenon

LEMMA StartAgrees ==
    ASSUME TypeOK, AllAgree, NEW c \in Callers, StartAssetSM(c)
    PROVE  AllAgree'
<1> DEFINE x == Fresh(c)
           pend == Bound("pending")
<1>1. /\ SameView
      /\ x.ups = {} /\ x.internal = "none" /\ x.state = disk.state
      /\ disk.state = "UpdatesPending" => x.queue # <<>> /\ Head(x.queue) = Tick
      /\ DOMAIN machines' = DOMAIN machines \cup {Len(machines) + 1}
      /\ machines'[Len(machines) + 1] = x
      /\ \A j \in DOMAIN machines : machines'[j] = machines[j]
  BY StartEffect, QuietView, Zenon
<1>2. disk.state \in {"Default", "UpdatesPending", "CommitBroadcast"}
  BY Zenon DEF TypeOK, Records
<1> HIDE DEF x, pend
<1>3. Agrees(x, disk, pend, SupplyTrees)
  BY Zenon, <1>1, <1>2 DEF Agrees
<1> QED
  BY <1>1, <1>3, Zenon DEF AllAgree, SameView, pend

\* When the watcher decides the signed commitment, the machine that runs waits
\* for it.
LEMMA DecidedAgrees ==
    ASSUME TypeOK, Rows, AllAgree, disk.pending.new # None, machines' = machines
    PROVE  AllAgree'
<1>1. disk.state = "CommitBroadcast"
  BY Zenon DEF Rows, Record
<1>2. ASSUME NEW i \in DOMAIN machines, machines[i].run
      PROVE  Agrees(machines[i], disk', Bound("pending")', SupplyTrees')
  <2>1. Agrees(machines[i], disk, Bound("pending"), SupplyTrees)
    BY <1>2, Zenon DEF AllAgree
  <2>2. machines[i] \in Machines
    BY Zenon, <1>2, MachineTypes
  <2>3. /\ machines[i].state = "CommitBroadcast"
        /\ machines[i].internal \in {"none", "broadcast"} /\ machines[i].ups = {}
    BY Zenon, <1>1, <2>1, <2>2 DEF Agrees, HasBatch, Machines
  <2> QED
    BY ONLY Zenon, <2>3 DEF Agrees
<1> QED
  BY <1>2, Zenon DEF AllAgree

\* The signing step: the commitment that is stored is the one the rows ask for.
LEMMA SignAlone ==
    ASSUME TypeOK, Rows, AllAgree, Signed, OneRuns,
           NEW i \in DOMAIN machines, ProcessSignTx(i)
    PROVE  AllAgree' /\ Signed'
<1> DEFINE sm == machines[i]
           pend == Bound("pending")
<1>1. /\ sm \in Machines /\ sm.run /\ sm.internal = "signTx"
      /\ bound' = bound
      /\ \/ Signs(i)
         \/ MovesOne(i, Stopped) /\ UNCHANGED <<disk, coms>>
  BY SignEffect, Zenon
<1>2. pend' = pend /\ SupplyTrees' = SupplyTrees
  BY <1>1, Zenon DEF Bound, SupplyTrees
<1>3. CASE MovesOne(i, Stopped) /\ UNCHANGED <<disk, coms>>
  <2>1. AllAgree'
    BY <1>1, <1>3, StoppedAgrees, Zenon
  <2>2. Signed'
    BY <1>2, <1>3, Zenon DEF Signed
  <2> QED
    BY Zenon, <2>1, <2>2
<1>4. CASE Signs(i)
  <2>1. Agrees(sm, disk, pend, SupplyTrees)
    BY <1>1, Zenon DEF AllAgree
  <2>2. /\ HasBatch(sm, disk, pend)
        /\ sm.root = SupplyTrees \cup pend /\ sm.old = disk.latest
    BY Zenon, <1>1, <2>1 DEF Agrees, Machines
  <2>3. /\ disk' = [disk EXCEPT !.state = "CommitBroadcast",
                                !.pending.new = Len(coms) + 1]
        /\ coms'[Len(coms) + 1] = NewCom(sm)
        /\ \E x \in Machines :
              /\ MovesOne(i, x)
              /\ x.state = "CommitBroadcast" /\ x.internal = "broadcast"
              /\ x.ups = {}
        /\ disk \in Records
    BY <1>4, Zenon DEF Signs, TypeOK
  <2>4. /\ disk'.pending.new = Len(coms) + 1 /\ disk'.latest = disk.latest
        /\ disk'.pending.frozen = disk.pending.frozen
    BY Zenon, <2>3 DEF Records, Transitions
  <2>5. NewCom(sm).root = sm.root /\ NewCom(sm).old = sm.old
    BY Zenon DEF NewCom
  <2>6. Signed'
    BY <1>2, <2>2, <2>3, <2>4, <2>5, Zenon DEF Signed, HasBatch
  <2>7. PICK x \in Machines :
              /\ MovesOne(i, x)
              /\ x.state = "CommitBroadcast" /\ x.internal = "broadcast"
              /\ x.ups = {}
    BY Zenon, <2>3
  <2>8. Agrees(x, disk', pend', SupplyTrees')
    BY ONLY Zenon, <2>7 DEF Agrees
  <2>9. AllAgree'
    BY <1>1, <2>7, <2>8, MovedAgrees, Zenon
  <2> QED
    BY Zenon, <2>6, <2>9
<1> QED
  BY <1>1, <1>3, <1>4, Zenon

\* The signed commitment is the same, and so is what it was signed for.
LEMMA QuietSigned ==
    ASSUME Rows, Signed, Quiet
    PROVE  Signed'
<1>1. SameView
  BY Zenon, QuietView
<1>2. disk.pending.new # None => SameBody(disk.pending.new)
  BY Zenon DEF Rows, Record, Quiet, ComsKept
<1> QED
  BY <1>1, <1>2, Zenon DEF Signed, SameView, SameBody

LEMMA UpdateSigned ==
    ASSUME TypeOK, Rows, Signed, NEW i \in DOMAIN machines, ProcessUpdate(i)
    PROVE  Signed'
<1> DEFINE u == Head(machines[i].queue)[2]
<1>1. u \in Updates /\ InsertPendingUpdate(u) /\ ComsKept
  BY UpdateEffect, Zenon
<1> HIDE DEF u
<1>2. /\ SupplyTrees' = SupplyTrees
      /\ disk'.latest = disk.latest
      /\ InsertResult(u) = "inserted" =>
            /\ disk'.pending.frozen = disk.pending.frozen
            /\ disk'.pending.new = disk.pending.new
            /\ disk.pending.frozen => Bound("pending")' = Bound("pending")
      /\ InsertResult(u) # "inserted" => disk' = disk /\ bound' = bound
  BY ONLY TypeOK, Rows, <1>1, InsertRows, Zenon
<1>3. bound' = bound => Bound("pending")' = Bound("pending")
  BY Zenon DEF Bound
<1>4. disk.pending.new # None => SameBody(disk.pending.new) /\ disk.pending.frozen
  BY <1>1, Zenon DEF Rows, Record, ComsKept, Signed
<1>5. /\ disk'.pending.new = disk.pending.new
      /\ disk'.pending.frozen = disk.pending.frozen
      /\ disk.pending.frozen => Bound("pending")' = Bound("pending")
  BY <1>2, <1>3, Zenon
<1> QED
  BY <1>2, <1>4, <1>5, Zenon DEF Signed, SameBody

LEMMA TickSigned ==
    ASSUME TypeOK, Rows, Signed, NEW i \in DOMAIN machines, ProcessTick(i)
    PROVE  Signed'
<1>1. /\ bound' = bound /\ coms' = coms
      /\ \/ \E sm : TickUpdatesPending(i, sm)
         \/ \E sm : TickBroadcast(i, sm)
         \/ disk' = disk
  BY TickEffect, Zenon
<1>2. Ticks
  BY <1>1, Zenon DEF TickUpdatesPending, TickBroadcast, Ticks
<1>3. Bound("pending")' = Bound("pending") /\ SupplyTrees' = SupplyTrees
  BY <1>1, Zenon DEF Bound, SupplyTrees
<1>4. /\ disk \in Records
      /\ disk.pending.frozen => disk.pending.open
  BY Zenon DEF Rows, Record, TypeOK
<1>5. /\ disk'.latest = disk.latest
      /\ disk'.pending.new = disk.pending.new
      /\ disk.pending.frozen => disk'.pending.frozen
  BY <1>2, <1>4 DEF Ticks, Records, Transitions
<1> QED
  BY <1>1, <1>3, <1>5, Zenon DEF Signed

\* The finalised commitments and their order.
LEMMA LineKept ==
    ASSUME RootMatches, Lined, Buried' = Buried, \A k \in Buried : SameBody(k)
    PROVE  RootMatches' /\ Lined'
<1>1. \A k \in Buried : /\ coms'[k].old = coms[k].old /\ coms'[k].root = coms[k].root
                        /\ coms'[k].leaves = coms[k].leaves
  BY Zenon DEF SameBody
<1>2. Lined'
  BY <1>1, Zenon DEF Lined
<1>3. ASSUME NEW n \in Buried
      PROVE  coms'[n].root =
                UNION {coms'[k].leaves : k \in {k \in Buried' : k <= n}}
  <2>1. coms[n].root = UNION {coms[k].leaves : k \in {k \in Buried : k <= n}}
    BY <1>3, Zenon DEF RootMatches
  <2>2. \A u : u \in coms'[n].root <=>
                  \E k \in {k \in Buried' : k <= n} : u \in coms'[k].leaves
    BY <1>1, <1>3, <2>1
  <2> QED
    BY <2>2, Zenon
<1>4. RootMatches'
  BY <1>3, Zenon DEF RootMatches
<1> QED
  BY Zenon, <1>2, <1>4

\* Burying the signed commitment extends the line and closes the trees.
LEMMA BuryLine ==
    ASSUME TypeOK, Rows, Signed, RootMatches, Lined, NEW n \in DOMAIN coms, OnBuried(n)
    PROVE  RootMatches' /\ Lined'
<1>1. /\ disk.pending.new = n /\ Decides(n, "buried")
      /\ coms'[n].leaves = Bound("pending")
  BY BuryEffect, Zenon
<1>2. /\ Buried' = Buried \cup {n} /\ n \notin Buried
      /\ n > disk.latest /\ \A k \in Buried : SameBody(k)
  BY BuryRows, Zenon
<1>3. /\ n # None /\ n \in Nat /\ disk.latest \in Nat
      /\ \A k \in Buried : k \in Nat
  BY CommitmentTypes DEF TypeOK, Records, None, Buried
<1>4. \A k \in Buried : k <= disk.latest
  BY Zenon DEF Rows, Record
<1>5. \A k \in Buried : k < n /\ k <= n /\ ~(n <= k) /\ ~(n < k) /\ disk.latest >= k
  BY <1>2, <1>3, <1>4
<1>6. n <= n /\ ~(n < n)
  BY <1>3
<1>7. /\ coms'[n].root = SupplyTrees \cup Bound("pending")
      /\ coms'[n].old = disk.latest
  BY <1>1, <1>3, Zenon DEF Signed, Decides
<1>8. \A k \in Buried : /\ coms'[k].old = coms[k].old /\ coms'[k].root = coms[k].root
                        /\ coms'[k].leaves = coms[k].leaves
  BY <1>2, Zenon DEF SameBody
<1>9. Lined'
  BY <1>2, <1>5, <1>6, <1>7, <1>8, Zenon DEF Lined
<1>10. coms'[n].root = UNION {coms'[k].leaves : k \in {k \in Buried' : k <= n}}
  <2>1. SupplyTrees = UNION {coms[k].leaves : k \in Buried}
    BY Zenon DEF Rows, Trees
  <2>2. \A u : u \in coms'[n].root <=>
                  \E k \in {k \in Buried' : k <= n} : u \in coms'[k].leaves
    BY <1>1, <1>2, <1>5, <1>6, <1>7, <1>8, <2>1
  <2> QED
    BY <2>2, Zenon
<1>11. ASSUME NEW m \in Buried
       PROVE  coms'[m].root =
                 UNION {coms'[k].leaves : k \in {k \in Buried' : k <= m}}
  <2>1. coms[m].root = UNION {coms[k].leaves : k \in {k \in Buried : k <= m}}
    BY <1>11, Zenon DEF RootMatches
  <2>2. \A u : u \in coms'[m].root <=>
                  \E k \in {k \in Buried' : k <= m} : u \in coms'[k].leaves
    BY <1>2, <1>5, <1>8, <1>11, <2>1
  <2> QED
    BY <2>2, Zenon
<1>12. RootMatches'
  BY <1>2, <1>10, <1>11 DEF RootMatches
<1> QED
  BY Zenon, <1>9, <1>12

LEMMA QuietAlone ==
    ASSUME TypeOK, Rows, AloneInv, Quiet, AllAgree'
    PROVE  AloneInv'
<1>1. Buried' = Buried /\ \A k \in Buried : SameBody(k)
  BY Zenon, BuriedKept DEF Quiet
<1>2. Signed'
  BY Zenon, QuietSigned DEF AloneInv
<1>3. RootMatches' /\ Lined'
  BY Zenon, <1>1, LineKept DEF AloneInv
<1> QED
  BY Zenon, <1>2, <1>3 DEF AloneInv

\* The machine's own steps.
LEMMA MachineAlone ==
    ASSUME TypeOK, Rows, AloneInv, OneRuns, NEW i \in DOMAIN machines,
           \/ ProcessUpdate(i) \/ ProcessTick(i) \/ ProcessSignTx(i)
           \/ ProcessCreateTree(i) \/ ProcessCreateTx(i)
           \/ ProcessBroadcast(i) \/ StepFails(i)
    PROVE  AloneInv'
<1>1. AllAgree /\ Signed /\ RootMatches /\ Lined
  BY Zenon DEF AloneInv
<1>2. CASE ProcessUpdate(i) \/ ProcessTick(i) \/ ProcessSignTx(i)
  <2>1. ComsKept
    BY <1>2, UpdateEffect, TickEffect, SignEffect, Zenon
  <2>2. Buried' = Buried /\ \A k \in Buried : SameBody(k)
    BY Zenon, <2>1, BuriedKept
  <2>3. RootMatches' /\ Lined'
    BY <1>1, <2>2, LineKept, Zenon
  <2>4. AllAgree' /\ Signed'
    BY <1>1, <1>2, UpdateAgrees, UpdateSigned, TickAgrees, TickSigned, SignAlone, Zenon
  <2> QED
    BY Zenon, <2>3, <2>4 DEF AloneInv
<1>3. CASE \/ ProcessCreateTree(i) \/ ProcessCreateTx(i)
           \/ ProcessBroadcast(i) \/ StepFails(i)
  <2>1. Quiet
    BY <1>3, CreateEffect, BroadcastEffect, Zenon
  <2>2. AllAgree'
    BY <1>1, <1>3, CreateAgrees, BroadcastAgrees, Zenon
  <2> QED
    BY Zenon, <2>1, <2>2, QuietAlone
<1> QED
  BY <1>2, <1>3, Zenon

\* The watcher's deliveries and the push.
LEMMA WatcherAlone ==
    ASSUME TypeOK, Rows, AloneInv,
           \/ \E n \in DOMAIN coms : OnBuried(n) \/ OnAbandoned(n)
           \/ \E n \in pushes : DispatchCommitPush(n)
    PROVE  AloneInv'
<1>1. AllAgree /\ Signed /\ RootMatches /\ Lined
  BY Zenon DEF AloneInv
<1>2. ASSUME NEW n \in DOMAIN coms, OnBuried(n)
      PROVE  AloneInv'
  <2>1. /\ disk.pending.new = n /\ machines' = machines
        /\ Rebind(n, Bound("dangling"))
    BY <1>2, BuryEffect, Zenon
  <2>2. n # None /\ n \in Nat
    BY CommitmentTypes DEF None
  <2>3. AllAgree'
    BY <1>1, <2>1, <2>2, DecidedAgrees, Zenon
  <2>4. disk'.pending.new = None
    BY <2>1, <2>2, RebindType, Zenon
  <2>5. Signed'
    BY Zenon, <2>4 DEF Signed
  <2>6. RootMatches' /\ Lined'
    BY Zenon, <1>1, <1>2, BuryLine
  <2> QED
    BY Zenon, <2>3, <2>5, <2>6 DEF AloneInv
<1>3. ASSUME NEW n \in DOMAIN coms, OnAbandoned(n)
      PROVE  AloneInv'
  <2>1. machines' = machines
    BY <1>3, AbandonEffect, Zenon
  <2>2. /\ NoneFinal
        /\ \A k \in DOMAIN coms : coms'[k].old = coms[k].old
                                  /\ coms'[k].root = coms[k].root
        /\ \A k \in Buried : SameBody(k)
        /\ \/ disk' = disk /\ bound' = bound
           \/ disk.pending.new = n /\ disk'.pending.new = None
    BY <1>3, AbandonRows, Zenon
  <2>3. RootMatches' /\ Lined'
    BY <1>1, <2>2, LineKept, Zenon DEF NoneFinal
  <2>4. CASE disk' = disk /\ bound' = bound
    <3>1. SameView
      BY <2>4, Zenon DEF SameView, Bound, SupplyTrees
    <3>2. AllAgree'
      BY <1>1, <2>1, <3>1, StillAgree, Zenon
    <3>3. disk.pending.new # None => disk.pending.new \in DOMAIN coms
      BY Zenon DEF Rows, Record
    <3>4. Signed'
      BY <1>1, <2>2, <3>1, <3>3, Zenon DEF Signed, SameView
    <3> QED
      BY Zenon, <2>3, <3>2, <3>4 DEF AloneInv
  <2>5. CASE disk.pending.new = n /\ disk'.pending.new = None
    <3>1. n # None
      BY CommitmentTypes DEF None
    <3>2. AllAgree'
      BY <1>1, <2>1, <2>5, <3>1, DecidedAgrees, Zenon
    <3>3. Signed'
      BY Zenon, <2>5 DEF Signed
    <3> QED
      BY Zenon, <2>3, <3>2, <3>3 DEF AloneInv
  <2> QED
    BY <2>2, <2>4, <2>5, Zenon
<1>4. ASSUME NEW n \in pushes, DispatchCommitPush(n)
      PROVE  AloneInv'
  <2>1. pushes \subseteq Buried
    BY Zenon DEF Rows, Trees
  <2>2. UNCHANGED <<disk, bound, coms, machines>>
    BY <1>4, <2>1, PushEffect, Zenon
  <2>3. SameView /\ Buried' = Buried /\ \A k \in Buried : SameBody(k)
    BY <2>2, Zenon DEF SameView, Bound, SupplyTrees, Buried, SameBody
  <2>4. AllAgree'
    BY <1>1, <2>2, <2>3, StillAgree, Zenon
  <2>5. Signed'
    BY <1>1, <2>2, <2>3, Zenon DEF Signed, SameView
  <2>6. RootMatches' /\ Lined'
    BY <1>1, <2>3, LineKept, Zenon
  <2> QED
    BY Zenon, <2>4, <2>5, <2>6 DEF AloneInv
<1> QED
  BY <1>2, <1>3, <1>4, Zenon

LEMMA NextAlone ==
    ASSUME TypeOK, Rows, AloneInv, OneRuns, [Next]_vars
    PROVE  AloneInv'
<1>1. AllAgree
  BY Zenon DEF AloneInv
<1>2. ASSUME NEW c \in Callers, StartAssetSM(c)
      PROVE  AloneInv'
  BY <1>1, <1>2, StartEffect, StartAgrees, QuietAlone, Zenon
<1>3. ASSUME NEW c \in Callers, NEW job \in Jobs, Call(c, job)
      PROVE  AloneInv'
  BY <1>1, <1>3, CallEffect, CallAgrees, QuietAlone, Zenon
<1>4. ASSUME Crash
      PROVE  AloneInv'
  <2>1. Quiet /\ machines' = <<>>
    BY <1>4, CrashEffect, Zenon
  <2>2. AllAgree'
    BY <2>1 DEF AllAgree
  <2> QED
    BY Zenon, <2>1, <2>2, QuietAlone
<1>5. ASSUME Quiet, machines' = machines
      PROVE  AloneInv'
  BY <1>1, <1>5, QuietView, StillAgree, QuietAlone, Zenon
<1>6. ASSUME \/ \E m \in Mints : Issue(m) \/ ServerLearns(m)
             \/ EmptyBlock
             \/ \E n \in DOMAIN coms : Mine(n) \/ ForeignSpend(n)
      PROVE  AloneInv'
  BY <1>5, <1>6, EnvironmentEffect, Zenon
<1>7. ASSUME NEW i \in DOMAIN machines,
             \/ ProcessUpdate(i) \/ ProcessTick(i) \/ ProcessSignTx(i)
             \/ ProcessCreateTree(i) \/ ProcessCreateTx(i)
             \/ ProcessBroadcast(i) \/ StepFails(i)
      PROVE  AloneInv'
  BY Zenon, <1>7, MachineAlone
<1>8. ASSUME Next PROVE AloneInv'
  BY <1>2, <1>3, <1>4, <1>6, <1>7, <1>8, Steps, WatcherAlone, Zenon
<1> QED
  BY <1>5, <1>8, StutterRows, Zenon

LEMMA InitAlone == Init => AloneInv
<1> SUFFICES ASSUME Init PROVE AloneInv
  BY Zenon
<1>1. Buried = {} /\ machines = <<>> /\ disk.pending.new = None
  BY DEF Init, Buried, NoTransition
<1> QED
  BY <1>1 DEF AloneInv, AllAgree, Signed, RootMatches, Lined

\* What the machine has in memory, the signed commitment and the line of
\* finalised ones agree with the rows as long as machines do not overlap.
THEOREM AloneInvariance == Spec /\ []OneRuns => []AloneInv
BY InitAlone, NextAlone, Invariance, PTL DEF Spec

\* While no two machines of the group run at once, the root of a finalised
\* commitment is the root of the trees it was finalised into, for every order
\* of updates, ticks, deliveries, failing steps and restarts
\* (applyStateTransitionBody against the batch CommitTreeCreateState used).
THEOREM RootsMatch == Spec /\ []OneRuns => []RootMatches
<1>1. AloneInv => RootMatches
  BY Zenon DEF AloneInv
<1> QED
  BY <1>1, AloneInvariance, PTL

\* While no two machines of the group run at once, commitments form one line:
\* the signed one spends the latest, and so did every finalised one.
THEOREM LineageHolds == Spec /\ []OneRuns => []OneLineage
<1>1. TypeOK /\ Rows /\ AloneInv => OneLineage
  <2> SUFFICES ASSUME TypeOK, Rows, AloneInv PROVE OneLineage
    BY Zenon
  <2>1. disk.pending.new # None => disk.pending.old = disk.latest
    <3>1. "CommitBroadcast" # "Default"
      BY Zenon
    <3> QED
      BY <3>1, Zenon DEF Rows, Record
  <2> QED
    BY <2>1, Zenon DEF AloneInv, Signed, Lined, OneLineage
<1> QED
  BY <1>1, AloneInvariance, Invariance, PTL

=============================================================================
