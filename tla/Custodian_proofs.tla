-------------------------- MODULE Custodian_proofs --------------------------
(***************************************************************************)
(* Proofs about Custodian, for any receives of any number of assets, any   *)
(* chain, and any number of retrievals, failing calls and crashes.         *)
(***************************************************************************)
EXTENDS Custodian, TLAPS, WellFoundedInduction

Statuses == {"none", "detected", "confirmed", "completed"}
Kinds == {"none", "unwitnessed", "witnessed", "buried", "abandoned"}
Phases == [kind : Kinds, height : Nat]
Notices == [r : Receives, height : Nat]
Assets == UNION {Outputs[r] : r \in Receives}
Tasks == [r : Receives, todo : SUBSET Assets, pc : {"fetch", "finish"}]
         \cup [r : Receives, todo : SUBSET Assets, pc : {"stake"}, o : Assets, height : Nat]
Loops == {Idle} \cup [pc : {"stake"}, p : Proofs, height : Nat]
         \cup [pc : {"check", "complete"}, r : Receives]

\* The type invariant, but for the heights the wallet and the mailboxes are
\* read from, on which nothing here depends.
TypeOK ==
    /\ status \in [Receives -> Statuses] /\ stamp \in [Receives -> Nat]
    /\ held \subseteq Proofs
    /\ phase \in [Receives -> Phases] /\ done \in [Receives -> Phases]
    /\ boot \in {"down", "resuming", "serving"}
    /\ resume \subseteq Receives /\ listing \subseteq Notices
    /\ cache \in [Receives -> {"none", "pending", "confirmed"}]
    /\ live \in BOOLEAN /\ txs \in Seq(Notices)
    /\ subscribed \subseteq Mailed /\ inbox \subseteq Mailed
    /\ tasks \subseteq Tasks /\ arrived \subseteq Proofs
    /\ loop \in Loops /\ told \subseteq Receives
    /\ seen \subseteq Receives /\ at \in [Receives -> Nat]
    /\ buried \subseteq Receives /\ gone \subseteq Receives
    /\ courier \subseteq Proofs
    /\ box \in [Mailed -> Nat] /\ posted \subseteq Mailed
    /\ reorgs \in Nat /\ crashes \in Nat /\ faults \in Nat

\* The chain has a highest block.
Bounded == \E n \in Nat : \A r \in Receives : at[r] <= n

\* A buried transaction stays in its block; one lost to a rival has none.
Decided ==
    \A r \in Receives : /\ r \in buried => at[r] # 0
                        /\ r \in gone => at[r] = 0

\* An abandonment is sensed only of what is lost, and is never taken back
\* once it is delivered.
Abandonment ==
    \A r \in Receives : /\ phase[r].kind = "abandoned" => r \in gone
                        /\ done[r].kind = "abandoned" => done[r] = phase[r]

\* The proofs of r's outputs other than those of todo are held, unless the
\* receive is abandoned.
Staked(r, todo) ==
    done[r].kind = "abandoned" \/ \A o \in Outputs[r] \ todo : <<r, o>> \in held

\* A retrieval works for a recorded event, and what it has done with is held.
Retrieval(k) ==
    /\ status[k.r] # "none"
    /\ k.todo \subseteq Outputs[k.r]
    /\ k.pc = "stake" => k.o \in k.todo
    /\ k.pc = "finish" => k.todo = {}
    /\ Staked(k.r, k.todo)
Retrievals == \A k \in tasks : Retrieval(k)

\* Pending events are recorded ones.
Resumed == \A r \in resume : status[r] # "none"

\* The inductive invariant.
CustodyInv ==
    /\ Bounded /\ Decided /\ Abandonment /\ Retrievals /\ Resumed
    /\ HeldIsWatched /\ CompletedIsHeld /\ RemovedIsStaked

-----------------------------------------------------------------------------
(* Data.                                                                   *)

LEMMA Zero == 0 \in Nat
OBVIOUS

\* A set of naturals has a least element.
LEMMA NatLeast ==
    ASSUME NEW S \in SUBSET Nat, S # {}
    PROVE  \E x \in S : \A y \in S : x <= y
<1>1. PICK x \in S : \A y \in S : ~ (<<y, x>> \in OpToRel(<, Nat))
  BY Zenon, NatLessThanWellFounded, WFMin
<1>2. \A y \in S : ~ (<<y, x>> \in {ss \in Nat \X Nat : ss[1] < ss[2]})
  BY Zenon, <1>1 DEF OpToRel
<1>3. \A y \in S : y \in Nat /\ x \in Nat /\ ~ (y < x)
  BY Zenon, <1>2
<1> QED
  BY <1>3

\* A bounded set of naturals has a largest element, which Max returns.
LEMMA MaxOf ==
    ASSUME NEW S \in SUBSET Nat, S # {}, NEW n \in Nat, \A x \in S : x <= n
    PROVE  Max(S) \in S /\ \A x \in S : x <= Max(S)
<1> DEFINE T == {n - x : x \in S}
<1>1. T \in SUBSET Nat /\ T # {}
  <2>1. \A x \in S : n - x \in Nat
    OBVIOUS
  <2> QED
    BY Zenon, <2>1
<1>2. PICK m \in T : \A k \in T : m <= k
  <2> HIDE DEF T
  <2> QED
    BY Zenon, <1>1, NatLeast
<1>3. PICK z \in S : m = n - z
  BY <1>2
<1>4. \A x \in S : z >= x
  BY <1>2, <1>3
<1>5. Max(S) \in S /\ \A x \in S : Max(S) >= x
  BY Zenon, <1>4 DEF Max
<1> QED
  BY <1>5

\* A proof is an output of a receive.
LEMMA ProofShape ==
    /\ \A p \in Proofs : p[1] \in Receives /\ p \in ProofsOf(p[1])
    /\ \A r \in Receives : \A o \in Outputs[r] : <<r, o>> \in Proofs /\ o \in Assets
    /\ \A r \in Receives : \A p \in ProofsOf(r) : p \in Proofs /\ p[1] = r
    /\ \A r \in Receives : \A p \in ProofsOf(r) : \E o \in Outputs[r] : p = <<r, o>>
BY DEF Proofs, ProofsOf, Assets

\* All proofs of a receive are held if that of every output is.
LEMMA AllHeld ==
    ASSUME NEW r \in Receives
    PROVE  HasAllProofs(r) <=> \A o \in Outputs[r] : <<r, o>> \in held
BY DEF HasAllProofs, ProofsOf

\* The records.
LEMMA Records ==
    /\ \A k \in Kinds, h \in Nat : Is(k, h) \in Phases /\ Is(k, h).kind = k
                                   /\ Is(k, h).height = h
    /\ \A r \in Receives, h \in Nat : Notice(r, h) \in Notices /\ Notice(r, h).r = r
    /\ \A r \in Receives : /\ Task(r) \in Tasks /\ Task(r).r = r /\ Task(r).pc = "fetch"
                           /\ Task(r).todo = Outputs[r]
    /\ Idle \in Loops
<1>1. \A k \in Kinds, h \in Nat : Is(k, h) \in Phases /\ Is(k, h).kind = k /\ Is(k, h).height = h
  BY DEF Is, Phases
<1>2. \A r \in Receives, h \in Nat : Notice(r, h) \in Notices /\ Notice(r, h).r = r
  BY DEF Notice, Notices
<1>3. ASSUME NEW r \in Receives
      PROVE  /\ Task(r) \in Tasks /\ Task(r).r = r /\ Task(r).pc = "fetch"
             /\ Task(r).todo = Outputs[r]
  <2>1. Outputs[r] \in SUBSET Assets
    BY DEF Assets
  <2> QED
    BY <2>1 DEF Task, Tasks
<1>4. Idle \in Loops
  BY Zenon DEF Loops
<1> QED
  BY Zenon, <1>1, <1>2, <1>3, <1>4

\* The fields of a retrieval and of the loop's work.
LEMMA Fields ==
    /\ \A k \in Tasks : k.r \in Receives /\ k.todo \in SUBSET Assets
                        /\ k.pc \in {"fetch", "stake", "finish"}
    /\ \A k \in Tasks : k.pc = "stake" => k.o \in Assets /\ k.height \in Nat
    /\ \A l \in Loops : l.pc = "stake" => l.p \in Proofs /\ l.height \in Nat
    /\ \A l \in Loops : l.pc \in {"check", "complete"} => l.r \in Receives
<1>1. \A k \in Tasks : k.r \in Receives /\ k.todo \in SUBSET Assets
                       /\ k.pc \in {"fetch", "stake", "finish"}
  BY DEF Tasks
<1>2. \A k \in Tasks : k.pc = "stake" => k.o \in Assets /\ k.height \in Nat
  BY DEF Tasks
<1>3. \A l \in Loops : l.pc = "stake" => l.p \in Proofs /\ l.height \in Nat
  BY DEF Loops, Idle
<1>4. \A l \in Loops : l.pc \in {"check", "complete"} => l.r \in Receives
  BY DEF Loops, Idle
<1> QED
  BY Zenon, <1>1, <1>2, <1>3, <1>4

\* What the chain says of a receive is a phase other than that of having no
\* anchoring.
LEMMA CurrentPhaseType ==
    ASSUME TypeOK, NEW r \in Receives
    PROVE  /\ CurrentPhase(r) \in Phases /\ CurrentPhase(r).kind # "none"
           /\ CurrentPhase(r).kind = "abandoned" => r \in gone
<1>1. at[r] \in Nat
  BY Zenon DEF TypeOK
<1>2. CurrentPhase(r) \in {Is("abandoned", 0), Is("buried", at[r]), Is("witnessed", at[r]),
                           Is("unwitnessed", 0)}
  BY DEF CurrentPhase
<1>3. CurrentPhase(r) = Is("abandoned", 0) => r \in gone
  BY <1>1 DEF CurrentPhase, Is
<1>4. {Is("abandoned", 0), Is("buried", at[r]), Is("witnessed", at[r]), Is("unwitnessed", 0)}
        \subseteq Phases
  BY <1>1 DEF Is, Phases, Kinds
<1>5. \A x \in {Is("buried", at[r]), Is("witnessed", at[r]), Is("unwitnessed", 0)} :
         x.kind \notin {"none", "abandoned"}
  BY DEF Is
<1>6. Is("abandoned", 0).kind # "none"
  BY DEF Is
<1> QED
  BY Zenon, <1>2, <1>3, <1>4, <1>5, <1>6

-----------------------------------------------------------------------------
(* Types.                                                                  *)

\* A wallet's report is appended to what its stream holds.
LEMMA ReportedType ==
    ASSUME TypeOK, NEW r \in Receives, NEW h \in Nat, Reported(r, h)
    PROVE  txs' \in Seq(Notices)
<1>1. txs \in Seq(Notices) /\ Notice(r, h) \in Notices
  BY Zenon, Records DEF TypeOK
<1>2. Append(txs, Notice(r, h)) \in Seq(Notices)
  BY <1>1
<1> QED
  BY Zenon, <1>1, <1>2 DEF Reported

\* The chain, the wallet and the sender.
LEMMA ChainTypes ==
    ASSUME TypeOK, Bounded, NEW r \in Receives,
           Broadcast(r) \/ Mine(r) \/ ReorgedOut(r) \/ Bury(r) \/ Foreclose(r)
    PROVE  TypeOK' /\ Bounded'
<1> USE DEF custodyVars, eventVars, anchoringVars, startVars, walletVars, mailVars,
            chainVars, serverVars
<1>1. CASE Broadcast(r)
  <2>1. txs' \in Seq(Notices)
    BY Zenon, <1>1, Zero, ReportedType DEF Broadcast
  <2>2. seen' \subseteq Receives
    BY Zenon, <1>1 DEF Broadcast, TypeOK
  <2> QED
    BY Zenon, <1>1, <2>1, <2>2 DEF Broadcast, TypeOK, Bounded
<1>2. CASE Mine(r)
  <2> DEFINE blocks == {at[q] : q \in Receives}
             h == 1 + Max(blocks)
  <2>1. PICK n \in Nat : \A q \in Receives : at[q] <= n
    BY Zenon DEF Bounded
  <2>2. blocks \in SUBSET Nat /\ blocks # {}
    <3>1. \A q \in Receives : at[q] \in Nat
      BY Zenon DEF TypeOK
    <3>2. at[r] \in blocks
      BY Zenon
    <3> QED
      BY Zenon, <3>1, <3>2
  <2>3. \A b \in blocks : b <= n
    BY Zenon, <2>1
  <2>4. Max(blocks) \in Nat /\ \A b \in blocks : b <= Max(blocks)
    <3>1. Max(blocks) \in blocks /\ \A b \in blocks : b <= Max(blocks)
      <4> HIDE DEF blocks
      <4> QED
        BY Zenon, <2>2, <2>3, MaxOf
    <3> QED
      BY Zenon, <2>2, <3>1
  <2>5. h \in Nat /\ \A q \in Receives : at[q] \in Nat /\ at[q] <= h
    <3>1. \A q \in Receives : at[q] \in Nat /\ at[q] <= Max(blocks)
      BY Zenon, <2>4 DEF TypeOK
    <3> HIDE DEF blocks
    <3> QED
      BY <2>4, <3>1
  <2>6. at' = [at EXCEPT ![r] = h] /\ Reported(r, h)
    BY Zenon, <1>2 DEF Mine
  <2> HIDE DEF h
  <2>7. at' \in [Receives -> Nat] /\ \A q \in Receives : at'[q] <= h
    BY <2>5, <2>6 DEF TypeOK
  <2>8. txs' \in Seq(Notices)
    BY Zenon, <2>5, <2>6, ReportedType
  <2>9. TypeOK'
    BY Zenon, <1>2, <2>7, <2>8 DEF Mine, TypeOK
  <2> QED
    BY Zenon, <2>5, <2>7, <2>9 DEF Bounded
<1>3. CASE ReorgedOut(r)
  <2>1. at' \in [Receives -> Nat] /\ reorgs' \in Nat
    BY <1>3 DEF ReorgedOut, TypeOK
  <2>2. Bounded'
    <3>1. PICK n \in Nat : \A q \in Receives : at[q] <= n
      BY Zenon DEF Bounded
    <3>2. \A q \in Receives : at'[q] <= n
      BY <1>3, <3>1 DEF ReorgedOut, TypeOK
    <3> QED
      BY Zenon, <3>2 DEF Bounded
  <2> QED
    BY Zenon, <1>3, <2>1, <2>2 DEF ReorgedOut, TypeOK
<1>4. CASE Bury(r)
  <2>1. buried' \subseteq Receives
    BY Zenon, <1>4 DEF Bury, TypeOK
  <2> QED
    BY Zenon, <1>4, <2>1 DEF Bury, TypeOK, Bounded
<1>5. CASE Foreclose(r)
  <2>1. gone' \subseteq Receives
    BY Zenon, <1>5 DEF Foreclose, TypeOK
  <2> QED
    BY Zenon, <1>5, <2>1 DEF Foreclose, TypeOK, Bounded
<1> QED
  BY Zenon, <1>1, <1>2, <1>3, <1>4, <1>5

\* The servers and the sync.
LEMMA ServerTypes ==
    ASSUME TypeOK,
           \/ \E p \in Proofs : Upload(p) \/ SyncProof(p)
           \/ \E r \in Mailed : Post(r) \/ Subscribe(r)
    PROVE  TypeOK' /\ UNCHANGED at
<1> USE DEF custodyVars, eventVars, anchoringVars, startVars, walletVars, mailVars,
            chainVars, serverVars
<1>1. ASSUME NEW p \in Proofs, Upload(p) PROVE TypeOK' /\ UNCHANGED at
  <2>1. courier' \subseteq Proofs
    BY Zenon, <1>1 DEF Upload, TypeOK
  <2> QED
    BY Zenon, <1>1, <2>1 DEF Upload, TypeOK
<1>2. ASSUME NEW p \in Proofs, SyncProof(p) PROVE TypeOK' /\ UNCHANGED at
  <2>1. arrived' \subseteq Proofs
    BY Zenon, <1>2 DEF SyncProof, TypeOK
  <2>2. faults' \in Nat
    BY <1>2 DEF SyncProof, Fault, TypeOK
  <2> QED
    BY Zenon, <1>2, <2>1, <2>2 DEF SyncProof, TypeOK
<1>3. ASSUME NEW r \in Mailed, Post(r) PROVE TypeOK' /\ UNCHANGED at
  <2>1. r \in Receives
    BY Zenon DEF Receives
  <2>2. posted' \subseteq Mailed /\ inbox' \subseteq Mailed /\ box' \in [Mailed -> Nat]
    BY <1>3, <2>1 DEF Post, TypeOK
  <2> QED
    BY Zenon, <1>3, <2>2 DEF Post, TypeOK
<1>4. ASSUME NEW r \in Mailed, Subscribe(r) PROVE TypeOK' /\ UNCHANGED at
  <2>1. subscribed' \subseteq Mailed /\ inbox' \subseteq Mailed
    BY Zenon, <1>4 DEF Subscribe, TypeOK
  <2> QED
    BY Zenon, <1>4, <2>1 DEF Subscribe, TypeOK
<1> QED
  BY Zenon, <1>1, <1>2, <1>3, <1>4

\* The receive site.
LEMMA SiteTypes ==
    ASSUME TypeOK, NEW r \in Receives, Sense(r) \/ Deliver(r)
    PROVE  TypeOK' /\ UNCHANGED at
<1> USE DEF eventVars, anchoringVars, startVars, walletVars, mailVars, chainVars, serverVars
<1>1. CASE Sense(r)
  <2>1. phase' \in [Receives -> Phases]
    BY Zenon, <1>1, CurrentPhaseType DEF Sense, TypeOK
  <2> QED
    BY Zenon, <1>1, <2>1 DEF Sense, TypeOK
<1>2. CASE Deliver(r)
  <2>1. done' \in [Receives -> Phases]
    BY Zenon, <1>2 DEF Deliver, TypeOK
  <2>2. stamp' \in [Receives -> Nat]
    BY <1>2 DEF Deliver, Stamped, TypeOK, Phases
  <2>3. held' \subseteq Proofs
    BY Zenon, <1>2 DEF Deliver, KeptProofs, TypeOK
  <2>4. status' \in [Receives -> Statuses]
    BY Zenon, <1>2 DEF Deliver, ResetStatus, TypeOK, Statuses
  <2> QED
    BY Zenon, <1>2, <2>1, <2>2, <2>3, <2>4 DEF Deliver, TypeOK
<1> QED
  BY Zenon, <1>1, <1>2

\* What staking a proof writes.
LEMMA StakeTypes ==
    ASSUME TypeOK, NEW p \in Proofs, NEW h \in Nat, StakeReceive(p, h)
    PROVE  /\ held' = held \cup {p} /\ held' \subseteq Proofs
           /\ phase' \in [Receives -> Phases] /\ done' \in [Receives -> Phases]
           /\ stamp' \in [Receives -> Nat]
<1>0. p[1] \in Receives
  BY Zenon, ProofShape
<1>1. held' = held \cup {p}
  BY Zenon DEF StakeReceive, Registered, Stored
<1>2. Is("witnessed", h) \in Phases /\ Is("witnessed", h).height \in Nat
  BY DEF Is, Phases, Kinds
<1>3. done[p[1]].height \in Nat
  BY <1>0 DEF TypeOK, Phases
<1>4. phase' \in [Receives -> Phases] /\ done' \in [Receives -> Phases]
  BY Zenon, <1>0, <1>2 DEF StakeReceive, Registered, Stored, TypeOK, anchoringVars
<1>5. stamp' \in [Receives -> Nat]
  BY Zenon, <1>0, <1>2, <1>3 DEF StakeReceive, Registered, Stored, Stamped, TypeOK
<1> QED
  BY Zenon, <1>1, <1>4, <1>5 DEF TypeOK

\* The task that follows a staked proof.
LEMMA AdvancedType ==
    ASSUME NEW k \in Tasks
    PROVE  /\ Advanced(k) \in Tasks /\ Advanced(k).r = k.r
           /\ Advanced(k).todo = k.todo \ {k.o}
           /\ Advanced(k).pc = "finish" => Advanced(k).todo = {}
           /\ Advanced(k).pc # "stake"
BY Fields DEF Advanced, Tasks

Fetched(k, o) ==
    [r |-> k.r, todo |-> k.todo, pc |-> "stake", o |-> o, height |-> at[k.r]]

\* The task that has a proof to stake.
LEMMA FetchedType ==
    ASSUME TypeOK, NEW k \in Tasks, NEW o \in k.todo
    PROVE  /\ Fetched(k, o) \in Tasks /\ Fetched(k, o).r = k.r
           /\ Fetched(k, o).todo = k.todo /\ Fetched(k, o).o = o
           /\ Fetched(k, o).pc = "stake"
<1>1. k.r \in Receives /\ k.todo \in SUBSET Assets /\ o \in Assets
  BY Zenon, Fields
<1>2. at[k.r] \in Nat
  BY Zenon, <1>1 DEF TypeOK
<1> QED
  BY <1>1, <1>2 DEF Fetched, Tasks

\* The retrievals.
LEMMA TaskTypes ==
    ASSUME TypeOK, Retrievals, NEW k \in tasks, Fetch(k) \/ Stake(k) \/ Finish(k) \/ GiveUp(k)
    PROVE  TypeOK' /\ UNCHANGED at
<1> USE DEF eventVars, anchoringVars, startVars, walletVars, mailVars, chainVars, serverVars
<1>0. k \in Tasks /\ k.r \in Receives
  BY Zenon, Fields DEF TypeOK
<1>1. CASE Fetch(k)
  <2>1. PICK o \in k.todo : tasks' = (tasks \ {k}) \cup {Fetched(k, o)}
    BY Zenon, <1>1 DEF Fetch, Fetched
  <2>2. tasks' \subseteq Tasks
    BY Zenon, <1>0, <2>1, FetchedType DEF TypeOK
  <2> QED
    BY Zenon, <1>1, <2>2 DEF Fetch, TypeOK
<1>2. CASE Stake(k)
  <2>1. k.pc = "stake" /\ k.o \in Outputs[k.r] /\ k.height \in Nat
    BY Zenon, <1>0, <1>2, Fields DEF Stake, Retrievals, Retrieval
  <2>2. <<k.r, k.o>> \in Proofs
    BY Zenon, <1>0, <2>1, ProofShape
  <2>3. StakeReceive(<<k.r, k.o>>, k.height)
    BY Zenon, <1>2 DEF Stake
  <2>4. /\ held' \subseteq Proofs
        /\ phase' \in [Receives -> Phases] /\ done' \in [Receives -> Phases]
        /\ stamp' \in [Receives -> Nat]
    BY Zenon, <2>1, <2>2, <2>3, StakeTypes
  <2>5. tasks' \subseteq Tasks /\ arrived' \subseteq Proofs
    BY Zenon, <1>0, <1>2, <2>2, AdvancedType DEF Stake, TypeOK
  <2> QED
    BY Zenon, <1>2, <2>4, <2>5 DEF Stake, TypeOK
<1>3. CASE Finish(k)
  <2>1. tasks' \subseteq Tasks
    BY Zenon, <1>3 DEF Finish, TypeOK
  <2>2. box' \in [Mailed -> Nat]
    <3>1. box \in [Mailed -> Nat] /\ 0 \in Nat
      BY Zenon, Zero DEF TypeOK
    <3> QED
      BY Zenon, <1>3, <3>1 DEF Finish
  <2>3. faults' \in Nat
    BY <1>3 DEF Finish, Fault, TypeOK
  <2> QED
    BY Zenon, <1>3, <2>1, <2>2, <2>3 DEF Finish, TypeOK
<1>4. CASE GiveUp(k)
  <2>1. tasks' \subseteq Tasks /\ told' \subseteq Receives
    BY Zenon, <1>0, <1>4 DEF GiveUp, TypeOK
  <2>2. faults' \in Nat
    BY <1>4 DEF GiveUp, Fault, TypeOK
  <2> QED
    BY Zenon, <1>4, <2>1, <2>2 DEF GiveUp, TypeOK
<1> QED
  BY Zenon, <1>1, <1>2, <1>3, <1>4

\* What the inspection of a wallet transaction writes.
LEMMA InspectedTypes ==
    ASSUME TypeOK, NEW n \in Notices, Inspected(n)
    PROVE  /\ status' \in [Receives -> Statuses] /\ stamp' \in [Receives -> Nat]
           /\ cache' \in [Receives -> {"none", "pending", "confirmed"}]
           /\ tasks' \subseteq Tasks
<1>0. n.r \in Receives /\ n.height \in Nat
  BY DEF Notices
<1>1. Task(n.r) \in Tasks
  BY Zenon, <1>0, Records
<1>2. \A h : Knows(h) \in {"none", "pending", "confirmed"}
  BY Zenon DEF Knows
<1>3. tasks' \subseteq Tasks
  BY Zenon, <1>1 DEF Inspected, TypeOK
<1>4. cache' \in [Receives -> {"none", "pending", "confirmed"}]
  BY Zenon, <1>0, <1>2 DEF Inspected, TypeOK
<1>5. status' \in [Receives -> Statuses] /\ stamp' \in [Receives -> Nat]
  BY Zenon, <1>0 DEF Inspected, Upsert, TypeOK, Statuses, eventVars
<1> QED
  BY Zenon, <1>3, <1>4, <1>5

\* The loop's turn to a receive.
LEMMA CompletingTypes ==
    ASSUME TypeOK, NEW p \in Proofs, Completing(p)
    PROVE  loop' \in Loops /\ told' \subseteq Receives
<1>1. p[1] \in Receives
  BY Zenon, ProofShape
<1>2. at[p[1]] \in Nat
  BY Zenon, <1>1 DEF TypeOK
<1>3. [pc |-> "stake", p |-> p, height |-> at[p[1]]] \in Loops
  BY <1>2 DEF Loops
<1> QED
  BY Zenon, <1>1, <1>3 DEF Completing, TypeOK

\* The event loop.
LEMMA LoopTypes ==
    ASSUME TypeOK,
           \/ InspectWalletTx \/ StreamEnds \/ Resubscribe
           \/ \E r \in Mailed : HandleMailboxMessage(r)
           \/ \E p \in Proofs : MapProofToEvent(p)
           \/ Complete
    PROVE  TypeOK' /\ UNCHANGED at
<1> USE DEF eventVars, anchoringVars, startVars, walletVars, mailVars, chainVars, serverVars
<1>1. CASE InspectWalletTx
  <2>1. Head(txs) \in Notices /\ Tail(txs) \in Seq(Notices)
    BY <1>1 DEF InspectWalletTx, TypeOK
  <2>2. /\ status' \in [Receives -> Statuses] /\ stamp' \in [Receives -> Nat]
        /\ cache' \in [Receives -> {"none", "pending", "confirmed"}]
        /\ tasks' \subseteq Tasks
    BY Zenon, <1>1, <2>1, InspectedTypes DEF InspectWalletTx
  <2> QED
    BY Zenon, <1>1, <2>1, <2>2 DEF InspectWalletTx, TypeOK
<1>2. CASE StreamEnds
  <2>1. txs' \in Seq(Notices)
    BY <1>2 DEF StreamEnds
  <2>2. faults' \in Nat
    BY <1>2 DEF StreamEnds, Fault, TypeOK
  <2> QED
    BY Zenon, <1>2, <2>1, <2>2 DEF StreamEnds, TypeOK
<1>3. CASE Resubscribe
  BY Zenon, <1>3 DEF Resubscribe, TypeOK
<1>4. ASSUME NEW r \in Mailed, HandleMailboxMessage(r) PROVE TypeOK' /\ UNCHANGED at
  <2>1. r \in Receives /\ Task(r) \in Tasks
    BY Zenon, Records DEF Receives
  <2>2. /\ status' \in [Receives -> Statuses] /\ stamp' \in [Receives -> Nat]
    BY Zenon, <1>4, <2>1 DEF HandleMailboxMessage, Upsert, TypeOK, Statuses
  <2>3. cache' \in [Receives -> {"none", "pending", "confirmed"}]
    BY Zenon, <1>4, <2>1 DEF HandleMailboxMessage, TypeOK
  <2>4. tasks' \subseteq Tasks /\ told' \subseteq Receives /\ inbox' \subseteq Mailed
    BY Zenon, <1>4, <2>1 DEF HandleMailboxMessage, TypeOK
  <2>5. faults' \in Nat
    BY <1>4 DEF HandleMailboxMessage, Fault, TypeOK
  <2> QED
    BY Zenon, <1>4, <2>2, <2>3, <2>4, <2>5 DEF HandleMailboxMessage, TypeOK
<1>5. ASSUME NEW p \in Proofs, MapProofToEvent(p) PROVE TypeOK' /\ UNCHANGED at
  <2>1. loop' \in Loops /\ told' \subseteq Receives
    BY Zenon, <1>5, CompletingTypes DEF MapProofToEvent, TypeOK
  <2>2. arrived' \subseteq Proofs
    BY Zenon, <1>5 DEF MapProofToEvent, TypeOK
  <2> QED
    BY Zenon, <1>5, <2>1, <2>2 DEF MapProofToEvent, TypeOK
<1>6. CASE StakeAgain
  <2>1. loop.pc = "stake" /\ loop \in Loops
    BY Zenon, <1>6 DEF StakeAgain, TypeOK
  <2>2. loop.p \in Proofs /\ loop.height \in Nat
    BY Zenon, <2>1, Fields
  <2>3. loop.p[1] \in Receives
    BY Zenon, <2>2, ProofShape
  <2>4. [pc |-> "check", r |-> loop.p[1]] \in Loops
    BY <2>3 DEF Loops
  <2>5. CASE StakeReceive(loop.p, loop.height) /\ loop' = [pc |-> "check", r |-> loop.p[1]]
             /\ UNCHANGED told
    <3>1. /\ held' \subseteq Proofs
          /\ phase' \in [Receives -> Phases] /\ done' \in [Receives -> Phases]
          /\ stamp' \in [Receives -> Nat]
      BY Zenon, <2>2, <2>5, StakeTypes
    <3> QED
      BY Zenon, <1>6, <2>4, <2>5, <3>1 DEF StakeAgain, TypeOK
  <2>6. CASE loop' = Idle /\ told' = told \cup {loop.p[1]}
             /\ UNCHANGED <<held, anchoringVars, stamp>>
    <3>1. loop' \in Loops /\ told' \subseteq Receives
      BY Zenon, <2>3, <2>6, Records DEF TypeOK
    <3> QED
      BY Zenon, <1>6, <2>6, <3>1 DEF StakeAgain, TypeOK
  <2> QED
    BY Zenon, <1>6, <2>5, <2>6 DEF StakeAgain
<1>7. CASE CheckProofs
  <2>1. loop.r \in Receives
    BY Zenon, <1>7, Fields DEF CheckProofs, TypeOK
  <2>2. [pc |-> "complete", r |-> loop.r] \in Loops
    BY <2>1 DEF Loops
  <2> QED
    BY Zenon, <1>7, <2>2, Records DEF CheckProofs, TypeOK
<1>8. CASE CompleteEvent
  <2>1. loop.r \in Receives
    BY Zenon, <1>8, Fields DEF CompleteEvent, TypeOK
  <2>2. status' \in [Receives -> Statuses]
    BY Zenon, <1>8, <2>1 DEF CompleteEvent, TypeOK, Statuses
  <2>3. cache' \in [Receives -> {"none", "pending", "confirmed"}]
    BY Zenon, <1>8, <2>1 DEF CompleteEvent, TypeOK
  <2>4. told' \subseteq Receives
    BY Zenon, <1>8, <2>1 DEF CompleteEvent, TypeOK
  <2>5. loop' \in Loops
    BY Zenon, <1>8, Records DEF CompleteEvent
  <2> QED
    BY Zenon, <1>8, <2>2, <2>3, <2>4, <2>5 DEF CompleteEvent, TypeOK
<1> QED
  BY Zenon, <1>1, <1>2, <1>3, <1>4, <1>5, <1>6, <1>7, <1>8 DEF Complete

\* Starting and crashing.
LEMMA StartTypes ==
    ASSUME TypeOK, Start \/ Resuming \/ Crash
    PROVE  TypeOK' /\ UNCHANGED at
<1> USE DEF eventVars, anchoringVars, startVars, walletVars, mailVars, chainVars, serverVars
<1>1. CASE Start
  <2>1. resume' \subseteq Receives
    BY Zenon, <1>1 DEF Start, Pending
  <2>2. cache' \in [Receives -> {"none", "pending", "confirmed"}]
    BY Zenon, <1>1 DEF Start, Knows
  <2> QED
    BY Zenon, <1>1, <2>1, <2>2 DEF Start, TypeOK
<1>2. ASSUME NEW r \in Receives, ResumeEvent(r) PROVE TypeOK' /\ UNCHANGED at
  <2>1. resume' \subseteq Receives
    BY Zenon, <1>2 DEF ResumeEvent, TypeOK
  <2>2. tasks' \subseteq Tasks
    <3>1. Task(r) \in Tasks
      BY Zenon, Records
    <3> QED
      BY Zenon, <1>2, <3>1 DEF ResumeEvent, TypeOK
  <2>3. loop' \in Loops /\ told' \subseteq Receives
    BY Zenon, <1>2, ProofShape, CompletingTypes DEF ResumeEvent, TypeOK
  <2> QED
    BY Zenon, <1>2, <2>1, <2>2, <2>3 DEF ResumeEvent, TypeOK
<1>3. CASE ListTransactions
  <2>1. \A r \in Receives : Notice(r, at[r]) \in Notices
    BY Zenon, Records DEF TypeOK
  <2>2. \A q \in (Walleted \cap seen) \ gone : q \in Receives
    BY Zenon DEF Receives
  <2>3. listing' \subseteq Notices
    BY Zenon, <1>3, <2>1, <2>2 DEF ListTransactions
  <2> QED
    BY Zenon, <1>3, <2>3 DEF ListTransactions, TypeOK
<1>4. CASE InspectListed
  <2>1. PICK n \in listing : Inspected(n) /\ listing' = listing \ {n}
    BY Zenon, <1>4 DEF InspectListed
  <2>2. n \in Notices /\ listing' \subseteq Notices
    BY Zenon, <2>1 DEF TypeOK
  <2>3. /\ status' \in [Receives -> Statuses] /\ stamp' \in [Receives -> Nat]
        /\ cache' \in [Receives -> {"none", "pending", "confirmed"}]
        /\ tasks' \subseteq Tasks
    BY Zenon, <2>1, <2>2, InspectedTypes
  <2> QED
    BY Zenon, <1>4, <2>2, <2>3 DEF InspectListed, TypeOK
<1>5. CASE Crash
  <2>1. crashes' \in Nat /\ txs' \in Seq(Notices)
    BY <1>5 DEF Crash, TypeOK
  <2>2. cache' \in [Receives -> {"none", "pending", "confirmed"}]
    BY Zenon, <1>5 DEF Crash
  <2>3. /\ resume' = {} /\ listing' = {} /\ subscribed' = {} /\ inbox' = {} /\ tasks' = {}
        /\ arrived' = {} /\ told' = {} /\ loop' \in Loops /\ live' = FALSE /\ boot' = "down"
    BY Zenon, <1>5, Records DEF Crash
  <2>4. UNCHANGED <<eventVars, held, anchoringVars, chainVars, serverVars, faults>>
    BY Zenon, <1>5 DEF Crash
  <2> QED
    BY Zenon, <2>1, <2>2, <2>3, <2>4 DEF TypeOK
<1> QED
  BY Zenon, <1>1, <1>2, <1>3, <1>4, <1>5 DEF Resuming

\* A step keeps the types.
LEMMA StepTypes ==
    ASSUME TypeOK, Bounded, Retrievals, [Next]_vars
    PROVE  TypeOK' /\ Bounded'
<1>0. UNCHANGED at => Bounded'
  BY Zenon DEF Bounded
<1>1. ASSUME NEW r \in Receives,
             \/ Broadcast(r) \/ Mine(r) \/ ReorgedOut(r) \/ Bury(r) \/ Foreclose(r)
             \/ Sense(r) \/ Deliver(r)
      PROVE  TypeOK' /\ Bounded'
  BY Zenon, <1>0, <1>1, ChainTypes, SiteTypes
<1>2. ASSUME NEW r \in Mailed, Post(r) \/ Subscribe(r) \/ HandleMailboxMessage(r)
      PROVE  TypeOK' /\ Bounded'
  BY Zenon, <1>0, <1>2, ServerTypes, LoopTypes
<1>3. ASSUME NEW p \in Proofs, Upload(p) \/ SyncProof(p) \/ MapProofToEvent(p)
      PROVE  TypeOK' /\ Bounded'
  BY Zenon, <1>0, <1>3, ServerTypes, LoopTypes
<1>4. CASE TaskStep
  BY Zenon, <1>0, <1>4, TaskTypes DEF TaskStep
<1>5. CASE InspectWalletTx \/ StreamEnds \/ Resubscribe \/ Complete
  BY Zenon, <1>0, <1>5, LoopTypes
<1>6. CASE Start \/ Resuming \/ Crash
  BY Zenon, <1>0, <1>6, StartTypes
<1>7. CASE UNCHANGED vars
  <2> USE DEF vars, eventVars, anchoringVars, startVars, walletVars, mailVars, chainVars,
              serverVars
  <2>1. TypeOK'
    BY Zenon, <1>7 DEF TypeOK
  <2>2. UNCHANGED at
    BY Zenon, <1>7
  <2> QED
    BY Zenon, <1>0, <2>1, <2>2
<1> QED
  BY Zenon, <1>1, <1>2, <1>3, <1>4, <1>5, <1>6, <1>7 DEF Next

-----------------------------------------------------------------------------
(* What a step does to the events, the proofs and the anchorings.          *)

\* No event is forgotten, a delivered abandonment stays, and a proof is given
\* up only with the receive.
Kept ==
    /\ \A r \in Receives : status[r] # "none" => status'[r] # "none"
    /\ \A r \in Receives : done[r].kind = "abandoned" => done'[r].kind = "abandoned"
    /\ \A p \in held : p \in held' \/ done'[p[1]].kind = "abandoned"

\* The part of the invariant that is about them alone.
CoreInv == Abandonment /\ HeldIsWatched /\ CompletedIsHeld

\* A step that leaves them alone.
LEMMA QuietStep ==
    ASSUME TypeOK, CoreInv, UNCHANGED <<status, held, phase, done>>,
           buried \subseteq buried', gone \subseteq gone'
    PROVE  Kept /\ CoreInv'
<1>1. Kept
  BY Zenon DEF Kept
<1>2. Abandonment'
  BY Zenon DEF CoreInv, Abandonment
<1>3. HeldIsWatched'
  BY Zenon DEF CoreInv, HeldIsWatched
<1>4. CompletedIsHeld'
  BY Zenon DEF CoreInv, CompletedIsHeld, HasAllProofs
<1> QED
  BY Zenon, <1>1, <1>2, <1>3, <1>4 DEF CoreInv

\* An event is written: it is completed only if every proof of it is held.
LEMMA StatusStep ==
    ASSUME TypeOK, CoreInv, UNCHANGED <<held, phase, done, buried, gone>>,
           NEW r \in Receives, NEW s \in Statuses \ {"none"},
           s = "completed" => HasAllProofs(r),
           status' = [status EXCEPT ![r] = s]
    PROVE  Kept /\ CoreInv' /\ status'[r] # "none"
<1>0. \A q \in Receives : status'[q] = IF q = r THEN s ELSE status[q]
  BY Zenon DEF TypeOK
<1>1. Kept /\ status'[r] # "none"
  <2>1. s # "none"
    BY Zenon
  <2>2. UNCHANGED <<held, done>>
    BY Zenon
  <2>3. \A q \in Receives : status[q] # "none" => status'[q] # "none"
    BY Zenon, <1>0, <2>1
  <2>4. status'[r] # "none"
    BY Zenon, <1>0, <2>1
  <2> QED
    BY Zenon, <2>2, <2>3, <2>4 DEF Kept
<1>2. Abandonment'
  BY Zenon DEF CoreInv, Abandonment
<1>3. HeldIsWatched'
  BY Zenon DEF CoreInv, HeldIsWatched
<1>4. CompletedIsHeld'
  BY Zenon, <1>0 DEF CoreInv, CompletedIsHeld, HasAllProofs
<1> QED
  BY Zenon, <1>1, <1>2, <1>3, <1>4 DEF CoreInv

\* A phase is sensed: an abandonment is not taken back.
LEMMA SenseStep ==
    ASSUME TypeOK, CoreInv, NEW r \in Receives, Sense(r)
    PROVE  Kept /\ CoreInv'
<1> USE DEF eventVars, chainVars
<1>0. UNCHANGED <<status, held, done, buried, gone>>
  BY Zenon DEF Sense
<1>1. \A q \in Receives : phase'[q] = IF q = r THEN CurrentPhase(r) ELSE phase[q]
  BY Zenon DEF Sense, TypeOK
<1>2. CurrentPhase(r).kind # "none" /\ (CurrentPhase(r).kind = "abandoned" => r \in gone)
  BY Zenon, CurrentPhaseType
<1>3. CurrentPhase(r) # NoAnchoring
  <2>1. NoAnchoring.kind = "none"
    BY DEF NoAnchoring, Is
  <2> QED
    BY Zenon, <1>2, <2>1
<1>4. Kept
  BY Zenon, <1>0 DEF Kept
<1>5. Abandonment'
  <2>1. done[r].kind # "abandoned"
    <3>1. phase[r].kind \in {"witnessed", "unwitnessed"}
      BY Zenon DEF Sense
    <3> QED
      BY <3>1 DEF CoreInv, Abandonment
  <2> QED
    BY Zenon, <1>0, <1>1, <1>2, <2>1 DEF CoreInv, Abandonment
<1>6. HeldIsWatched'
  BY Zenon, <1>0, <1>1, <1>3, ProofShape DEF CoreInv, HeldIsWatched, TypeOK
<1>7. CompletedIsHeld'
  BY Zenon, <1>0 DEF CoreInv, CompletedIsHeld, HasAllProofs
<1> QED
  BY Zenon, <1>4, <1>5, <1>6, <1>7 DEF CoreInv

\* A phase is delivered: with an abandonment the proofs and the completion go.
LEMMA DeliverStep ==
    ASSUME TypeOK, CoreInv, NEW r \in Receives, Deliver(r)
    PROVE  Kept /\ CoreInv'
<1> USE DEF chainVars
<1>0. UNCHANGED <<phase, buried, gone>> /\ done[r] # phase[r]
  BY Zenon DEF Deliver
<1>1. \A q \in Receives : done'[q] = IF q = r THEN phase[r] ELSE done[q]
  BY Zenon DEF Deliver, TypeOK
<1>2. done[r].kind # "abandoned"
  BY Zenon, <1>0 DEF CoreInv, Abandonment
<1>3. Abandonment'
  BY Zenon, <1>0, <1>1 DEF CoreInv, Abandonment
<1>4. CASE phase[r].kind = "abandoned"
  <2>1. held' = held \ ProofsOf(r)
    BY Zenon, <1>4 DEF Deliver, KeptProofs
  <2>2. \A q \in Receives : status'[q] = IF q = r /\ status[r] # "none" THEN "detected"
                                         ELSE status[q]
    BY Zenon, <1>4 DEF Deliver, ResetStatus, TypeOK
  <2>3. \A p \in held : p[1] \in Receives /\ (p \in held' \/ p[1] = r)
    BY Zenon, <2>1, ProofShape DEF TypeOK
  <2>4. \A p \in held' : p \in held /\ p[1] # r
    BY Zenon, <2>1, ProofShape DEF TypeOK
  <2>5. Kept
    BY Zenon, <1>1, <1>2, <1>4, <2>2, <2>3 DEF Kept
  <2>6. HeldIsWatched'
    BY Zenon, <1>0, <1>1, <2>3, <2>4 DEF CoreInv, HeldIsWatched
  <2>7. \A q \in Receives \ {r} : ProofsOf(q) \subseteq held => ProofsOf(q) \subseteq held'
    BY Zenon, <2>1, ProofShape
  <2>8. CompletedIsHeld'
    BY Zenon, <2>2, <2>7 DEF CoreInv, CompletedIsHeld, HasAllProofs
  <2> QED
    BY Zenon, <1>3, <2>5, <2>6, <2>8 DEF CoreInv
<1>5. CASE phase[r].kind # "abandoned"
  <2>1. UNCHANGED <<held, status>>
    BY Zenon, <1>5 DEF Deliver
  <2>2. Kept
    BY Zenon, <1>1, <1>2, <2>1 DEF Kept
  <2>3. HeldIsWatched'
    BY Zenon, <1>0, <1>1, <1>5, <2>1, ProofShape DEF CoreInv, HeldIsWatched, TypeOK
  <2>4. CompletedIsHeld'
    BY Zenon, <2>1 DEF CoreInv, CompletedIsHeld, HasAllProofs
  <2> QED
    BY Zenon, <1>3, <2>2, <2>3, <2>4 DEF CoreInv
<1> QED
  BY Zenon, <1>4, <1>5

\* A proof is staked: it is watched, or too deep to be undone, and the receive
\* is not given up.
LEMMA StakeStep ==
    ASSUME TypeOK, CoreInv, Decided, NEW p \in Proofs, NEW h \in Nat, StakeReceive(p, h),
           UNCHANGED <<status, buried, gone>>
    PROVE  Kept /\ CoreInv' /\ p \in held'
<1>0. p[1] \in Receives /\ held' = held \cup {p}
  BY Zenon, ProofShape DEF StakeReceive, Registered, Stored
<1>1. done[p[1]].kind # "abandoned"
  <2>1. CASE ~Refused(p[1])
    BY Zenon, <2>1 DEF Refused
  <2>2. CASE p[1] \in buried
    <3>1. p[1] \notin gone
      BY Zenon, <1>0, <2>2 DEF Decided
    <3> QED
      BY Zenon, <1>0, <3>1 DEF CoreInv, Abandonment
  <2> QED
    BY Zenon, <2>1, <2>2 DEF StakeReceive, Registered, Stored
<1>2. /\ Is("witnessed", h).kind # "abandoned" /\ Is("witnessed", h) # NoAnchoring
      /\ Is("witnessed", h).kind # "none"
  BY DEF Is, NoAnchoring
<1>3. \/ /\ phase[p[1]] = NoAnchoring
         /\ \A q \in Receives : phase'[q] = IF q = p[1] THEN Is("witnessed", h) ELSE phase[q]
         /\ \A q \in Receives : done'[q] = IF q = p[1] THEN Is("witnessed", h) ELSE done[q]
      \/ UNCHANGED <<phase, done>> /\ (phase[p[1]] # NoAnchoring \/ p[1] \in buried)
  BY Zenon, <1>0 DEF StakeReceive, Registered, Stored, TypeOK, anchoringVars
<1>4. Kept
  BY Zenon, <1>0, <1>1, <1>2, <1>3 DEF Kept
<1>5. Abandonment'
  BY Zenon, <1>0, <1>2, <1>3 DEF CoreInv, Abandonment
<1>6. HeldIsWatched'
  <2> SUFFICES ASSUME NEW x \in held'
               PROVE  /\ phase'[x[1]] # NoAnchoring \/ x[1] \in buried'
                      /\ done'[x[1]].kind # "abandoned"
    BY Zenon DEF HeldIsWatched
  <2>1. x[1] \in Receives /\ (x \in held \/ x = p)
    BY Zenon, <1>0, ProofShape DEF TypeOK
  <2>2. done[x[1]].kind # "abandoned"
    BY Zenon, <1>1, <2>1 DEF CoreInv, HeldIsWatched
  <2>3. x \in held => phase[x[1]] # NoAnchoring \/ x[1] \in buried
    BY Zenon DEF CoreInv, HeldIsWatched
  <2> QED
    BY Zenon, <1>2, <1>3, <2>1, <2>2, <2>3
<1>7. CompletedIsHeld'
  BY Zenon, <1>0 DEF CoreInv, CompletedIsHeld, HasAllProofs
<1> QED
  BY Zenon, <1>0, <1>4, <1>5, <1>6, <1>7 DEF CoreInv

\* The chain keeps what it decided.
LEMMA DecidedStep ==
    ASSUME TypeOK, Decided, NEW r \in Receives, Mine(r) \/ ReorgedOut(r) \/ Bury(r) \/ Foreclose(r)
    PROVE  Decided' /\ buried \subseteq buried' /\ gone \subseteq gone'
<1>1. CASE Mine(r)
  <2>1. \A q \in Receives \ {r} : at'[q] = at[q]
    BY Zenon, <1>1 DEF Mine, TypeOK
  <2>2. r \notin gone /\ r \notin buried /\ UNCHANGED <<buried, gone>>
    BY Zenon, <1>1 DEF Mine, Decided
  <2> QED
    BY Zenon, <2>1, <2>2 DEF Decided
<1>2. CASE ReorgedOut(r)
  <2>1. \A q \in Receives : at'[q] = IF q = r THEN 0 ELSE at[q]
    BY Zenon, <1>2 DEF ReorgedOut, TypeOK
  <2>2. r \notin buried /\ UNCHANGED <<buried, gone>>
    BY Zenon, <1>2 DEF ReorgedOut
  <2> QED
    BY Zenon, <2>1, <2>2 DEF Decided
<1>3. CASE Bury(r)
  <2>1. at[r] # 0
    BY <1>3 DEF Bury
  <2>2. buried' = buried \cup {r} /\ UNCHANGED <<at, gone>>
    BY Zenon, <1>3 DEF Bury
  <2> QED
    BY Zenon, <2>1, <2>2 DEF Decided
<1>4. CASE Foreclose(r)
  <2>1. at[r] = 0 /\ gone' = gone \cup {r} /\ UNCHANGED <<at, buried>>
    BY Zenon, <1>4 DEF Foreclose
  <2> QED
    BY Zenon, <2>1 DEF Decided
<1> QED
  BY Zenon, <1>1, <1>2, <1>3, <1>4

\* What the inspection of a wallet transaction does to the events: the status
\* of one is written, or none.
LEMMA InspectedStep ==
    ASSUME TypeOK, CoreInv, NEW n \in Notices, Inspected(n),
           UNCHANGED <<held, phase, done, buried, gone>>
    PROVE  /\ Kept /\ CoreInv'
           /\ \/ tasks' = tasks
              \/ tasks' = tasks \cup {Task(n.r)} /\ status'[n.r] # "none"
<1>0. n.r \in Receives
  BY DEF Notices
<1>1. CASE UNCHANGED <<status, tasks>>
  BY Zenon, <1>1, QuietStep
<1>2. ASSUME NEW s \in {"detected", "confirmed"}, status' = [status EXCEPT ![n.r] = s],
             tasks' \in {tasks, tasks \cup {Task(n.r)}}
      PROVE  /\ Kept /\ CoreInv'
             /\ \/ tasks' = tasks
                \/ tasks' = tasks \cup {Task(n.r)} /\ status'[n.r] # "none"
  <2>1. s \in Statuses \ {"none"} /\ s # "completed"
    BY <1>2 DEF Statuses
  <2> QED
    BY Zenon, <1>0, <1>2, <2>1, StatusStep
<1>3. \/ UNCHANGED <<status, tasks>>
      \/ \E s \in {"detected", "confirmed"} :
            status' = [status EXCEPT ![n.r] = s] /\ tasks' \in {tasks, tasks \cup {Task(n.r)}}
  BY Zenon DEF Inspected, Upsert, eventVars
<1> QED
  BY Zenon, <1>1, <1>2, <1>3

\* Every retrieval under way goes on being one for a recorded event.
LEMMA RetrievalsKept ==
    ASSUME TypeOK, Retrievals, Kept
    PROVE  \A k \in tasks : Retrieval(k)'
<1> SUFFICES ASSUME NEW k \in tasks PROVE Retrieval(k)'
  BY Zenon
<1>1. k.r \in Receives /\ Retrieval(k)
  BY Zenon, Fields DEF TypeOK, Retrievals
<1>2. \A o \in Outputs[k.r] : <<k.r, o>>[1] = k.r
  OBVIOUS
<1>3. Staked(k.r, k.todo)'
  BY Zenon, <1>1, <1>2 DEF Staked, Retrieval, Kept
<1> QED
  BY Zenon, <1>1, <1>3 DEF Retrieval, Kept

\* A new retrieval has everything to do.
LEMMA RetrievalBegins ==
    ASSUME NEW r \in Receives, status'[r] # "none"
    PROVE  Retrieval(Task(r))'
<1>1. Task(r).r = r /\ Task(r).pc = "fetch" /\ Task(r).todo = Outputs[r]
  BY Zenon, Records
<1>2. Task(r).pc # "stake" /\ Task(r).pc # "finish"
  BY <1>1
<1> HIDE DEF Task
<1> QED
  BY Zenon, <1>1, <1>2 DEF Retrieval, Staked

\* The rest of the invariant follows when new retrievals are well begun, no
\* unrecorded event is resumed and the mailboxes are left alone.
LEMMA Rest ==
    ASSUME TypeOK, Retrievals, Resumed, RemovedIsStaked, Kept, UNCHANGED <<posted, box>>,
           \A k \in tasks' : k \in tasks \/ Retrieval(k)',
           \A r \in resume' : r \in resume \/ status'[r] # "none"
    PROVE  Retrievals' /\ Resumed' /\ RemovedIsStaked'
<1>1. Retrievals'
  <2>1. \A k \in tasks : Retrieval(k)'
    BY Zenon, RetrievalsKept
  <2> QED
    BY Zenon, <2>1 DEF Retrievals
<1>2. Resumed'
  BY Zenon DEF Resumed, Kept, TypeOK
<1>3. RemovedIsStaked'
  <2> SUFFICES ASSUME NEW r \in posted, box[r] = 0
               PROVE  status'[r] # "none" /\ (HasAllProofs(r)' \/ done'[r].kind = "abandoned")
    BY Zenon DEF RemovedIsStaked
  <2>1. r \in Receives
    BY Zenon DEF TypeOK, Receives
  <2>2. status[r] # "none" /\ (HasAllProofs(r) \/ done[r].kind = "abandoned")
    BY Zenon DEF RemovedIsStaked
  <2>3. \A p \in ProofsOf(r) : p[1] = r
    BY Zenon, <2>1, ProofShape
  <2> QED
    BY Zenon, <2>1, <2>2, <2>3 DEF Kept, HasAllProofs
<1> QED
  BY Zenon, <1>1, <1>2, <1>3

\* A step that leaves the events, the proofs, the anchorings and the
\* retrievals alone.
LEMMA IdleStep ==
    ASSUME TypeOK, CustodyInv, UNCHANGED <<status, held, phase, done, tasks, posted, box>>,
           resume' \subseteq resume, Decided', Bounded',
           buried \subseteq buried', gone \subseteq gone'
    PROVE  CustodyInv'
<1>1. Kept /\ CoreInv'
  BY Zenon, QuietStep DEF CustodyInv, CoreInv
<1>2. Retrievals' /\ Resumed' /\ RemovedIsStaked'
  BY Zenon, <1>1, Rest DEF CustodyInv
<1> QED
  BY Zenon, <1>1, <1>2 DEF CustodyInv, CoreInv

\* A step that leaves the chain and the mailboxes alone.
LEMMA CustodyStep ==
    ASSUME TypeOK, CustodyInv, Kept, CoreInv',
           UNCHANGED <<at, buried, gone, posted, box>>,
           \A k \in tasks' : k \in tasks \/ Retrieval(k)',
           \A r \in resume' : r \in resume \/ status'[r] # "none"
    PROVE  CustodyInv'
<1>1. Retrievals' /\ Resumed' /\ RemovedIsStaked'
  BY Zenon, Rest DEF CustodyInv
<1>2. Decided' /\ Bounded'
  BY Zenon DEF CustodyInv, Decided, Bounded
<1> QED
  BY Zenon, <1>1, <1>2 DEF CustodyInv, CoreInv

-----------------------------------------------------------------------------
(* The actions.                                                            *)

\* The chain, the servers and the sync.
LEMMA OutsideKeeps ==
    ASSUME TypeOK, CustodyInv,
           \/ \E r \in Receives : Broadcast(r) \/ Mine(r) \/ ReorgedOut(r) \/ Bury(r)
                                  \/ Foreclose(r)
           \/ \E p \in Proofs : Upload(p) \/ SyncProof(p)
           \/ \E r \in Mailed : Post(r) \/ Subscribe(r)
    PROVE  CustodyInv'
<1> USE DEF custodyVars, eventVars, anchoringVars, startVars, walletVars, mailVars,
            chainVars, serverVars
<1>1. ASSUME NEW r \in Receives,
             Broadcast(r) \/ Mine(r) \/ ReorgedOut(r) \/ Bury(r) \/ Foreclose(r)
      PROVE  CustodyInv'
  <2>1. Bounded'
    BY Zenon, <1>1, ChainTypes DEF CustodyInv
  <2>2. Decided' /\ buried \subseteq buried' /\ gone \subseteq gone'
    <3>1. CASE Broadcast(r)
      BY Zenon, <3>1 DEF Broadcast, CustodyInv, Decided
    <3> QED
      BY Zenon, <1>1, <3>1, DecidedStep DEF CustodyInv
  <2>3. UNCHANGED <<status, held, phase, done, tasks, posted, box, resume>>
    BY Zenon, <1>1 DEF Broadcast, Mine, ReorgedOut, Bury, Foreclose
  <2> QED
    BY Zenon, <2>1, <2>2, <2>3, IdleStep
<1>2. ASSUME NEW p \in Proofs, Upload(p) \/ SyncProof(p) PROVE CustodyInv'
  <2>1. UNCHANGED <<status, held, phase, done, tasks, posted, box, resume, at, buried, gone>>
    BY Zenon, <1>2 DEF Upload, SyncProof
  <2>2. Decided' /\ Bounded'
    BY Zenon, <2>1 DEF CustodyInv, Decided, Bounded
  <2> QED
    BY Zenon, <2>1, <2>2, IdleStep
<1>3. ASSUME NEW r \in Mailed, Subscribe(r) PROVE CustodyInv'
  <2>1. UNCHANGED <<status, held, phase, done, tasks, posted, box, resume, at, buried, gone>>
    BY Zenon, <1>3 DEF Subscribe
  <2>2. Decided' /\ Bounded'
    BY Zenon, <2>1 DEF CustodyInv, Decided, Bounded
  <2> QED
    BY Zenon, <2>1, <2>2, IdleStep
<1>4. ASSUME NEW r \in Mailed, Post(r) PROVE CustodyInv'
  <2>1. UNCHANGED <<status, held, phase, done, tasks, resume, at, buried, gone>>
    BY Zenon, <1>4 DEF Post
  <2>2. Decided' /\ Bounded'
    BY Zenon, <2>1 DEF CustodyInv, Decided, Bounded
  <2>3. Kept /\ CoreInv'
    BY Zenon, <2>1, QuietStep DEF CustodyInv, CoreInv
  <2>4. \A k \in tasks : Retrieval(k)'
    BY Zenon, <2>3, RetrievalsKept DEF CustodyInv
  <2>5. Retrievals' /\ Resumed'
    BY Zenon, <2>1, <2>4 DEF CustodyInv, Retrievals, Resumed
  <2>6. \A q \in posted' : (q \in posted /\ q # r) \/ (q = r /\ box'[q] # 0)
    <3>1. at[r] # 0
      BY <1>4 DEF Post
    <3> QED
      BY Zenon, <1>4, <3>1 DEF Post, TypeOK
  <2>7. \A q \in Mailed \ {r} : box'[q] = box[q]
    BY Zenon, <1>4 DEF Post, TypeOK
  <2>8. RemovedIsStaked'
    BY Zenon, <2>1, <2>6, <2>7 DEF CustodyInv, RemovedIsStaked, HasAllProofs, TypeOK
  <2> QED
    BY Zenon, <2>2, <2>3, <2>5, <2>8 DEF CustodyInv, CoreInv
<1> QED
  BY Zenon, <1>1, <1>2, <1>3, <1>4

\* The receive site.
LEMMA SiteKeeps ==
    ASSUME TypeOK, CustodyInv, NEW r \in Receives, Sense(r) \/ Deliver(r)
    PROVE  CustodyInv'
<1>1. Kept /\ CoreInv'
  BY Zenon, SenseStep, DeliverStep DEF CustodyInv, CoreInv
<1>2. UNCHANGED <<at, buried, gone, posted, box, tasks, resume>>
  BY Zenon DEF Sense, Deliver, startVars, chainVars, serverVars
<1> QED
  BY Zenon, <1>1, <1>2, CustodyStep

\* A retrieval's steps: what is staked leaves the list of what there is to
\* do, and the message goes when the list is empty.
LEMMA TaskKeeps ==
    ASSUME TypeOK, CustodyInv, NEW k \in tasks, Fetch(k) \/ Stake(k) \/ Finish(k) \/ GiveUp(k)
    PROVE  CustodyInv'
<1> USE DEF eventVars, anchoringVars, startVars, walletVars, mailVars, chainVars, serverVars
<1>0. k \in Tasks /\ k.r \in Receives /\ Retrieval(k)
  BY Zenon, Fields DEF TypeOK, CustodyInv, Retrievals
<1>1. CASE Fetch(k)
  <2>1. UNCHANGED <<status, held, phase, done, posted, box, resume, at, buried, gone>>
    BY Zenon, <1>1 DEF Fetch
  <2>2. Kept /\ CoreInv'
    BY Zenon, <2>1, QuietStep DEF CustodyInv, CoreInv
  <2>3. Retrieval(k)'
    BY Zenon, <2>2, RetrievalsKept DEF CustodyInv
  <2>4. PICK o \in k.todo : tasks' = (tasks \ {k}) \cup {Fetched(k, o)}
    BY Zenon, <1>1 DEF Fetch, Fetched
  <2>5. ASSUME NEW x \in tasks', x \notin tasks PROVE Retrieval(x)'
    <3>1. x = Fetched(k, o)
      BY Zenon, <2>4, <2>5
    <3>2. x.r = k.r /\ x.todo = k.todo /\ x.o = o /\ x.pc = "stake"
      BY Zenon, <1>0, <3>1, FetchedType
    <3> QED
      BY Zenon, <2>3, <3>2 DEF Retrieval
  <2> QED
    BY Zenon, <2>1, <2>2, <2>5, CustodyStep
<1>2. CASE Stake(k)
  <2>1. k.pc = "stake" /\ k.o \in Outputs[k.r] /\ k.height \in Nat
    BY Zenon, <1>0, <1>2, Fields DEF Stake, Retrieval
  <2>2. <<k.r, k.o>> \in Proofs
    BY Zenon, <1>0, <2>1, ProofShape
  <2>3. UNCHANGED <<status, posted, box, resume, at, buried, gone>>
    BY Zenon, <1>2 DEF Stake
  <2>4. Kept /\ CoreInv' /\ <<k.r, k.o>> \in held'
    <3>1. StakeReceive(<<k.r, k.o>>, k.height)
      BY Zenon, <1>2 DEF Stake
    <3> QED
      BY Zenon, <2>1, <2>2, <2>3, <3>1, StakeStep DEF CustodyInv, CoreInv
  <2>5. Retrieval(k)'
    BY Zenon, <2>4, RetrievalsKept DEF CustodyInv
  <2>6. Retrieval(Advanced(k))'
    <3>1. /\ Advanced(k).r = k.r /\ Advanced(k).todo = k.todo \ {k.o}
          /\ Advanced(k).pc = "finish" => Advanced(k).todo = {}
          /\ Advanced(k).pc # "stake"
      BY Zenon, <1>0, AdvancedType
    <3>2. \A o \in Outputs[k.r] \ (k.todo \ {k.o}) : o = k.o \/ o \in Outputs[k.r] \ k.todo
      BY Zenon
    <3>3. Staked(k.r, k.todo \ {k.o})'
      BY Zenon, <2>4, <2>5, <3>2 DEF Retrieval, Staked
    <3> QED
      BY Zenon, <2>5, <3>1, <3>3 DEF Retrieval
  <2>7. \A x \in tasks' : x \in tasks \/ x = Advanced(k)
    BY Zenon, <1>2 DEF Stake
  <2> QED
    BY Zenon, <2>3, <2>4, <2>6, <2>7, CustodyStep
<1>3. CASE Finish(k)
  <2>1. UNCHANGED <<status, held, phase, done, posted, resume, at, buried, gone>>
    BY Zenon, <1>3 DEF Finish
  <2>2. Kept /\ CoreInv'
    BY Zenon, <2>1, QuietStep DEF CustodyInv, CoreInv
  <2>3. \A x \in tasks : Retrieval(x)'
    BY Zenon, <2>2, RetrievalsKept DEF CustodyInv
  <2>4. Retrievals' /\ Resumed' /\ Decided' /\ Bounded'
    <3>1. Retrievals'
      BY Zenon, <1>3, <2>3 DEF Finish, Retrievals
    <3>2. Resumed' /\ Decided'
      BY Zenon, <2>1 DEF CustodyInv, Resumed, Decided
    <3>3. Bounded'
      BY Zenon, <2>1 DEF CustodyInv, Bounded
    <3> QED
      BY Zenon, <3>1, <3>2, <3>3
  <2>5. status[k.r] # "none" /\ (HasAllProofs(k.r) \/ done[k.r].kind = "abandoned")
    <3>1. k.todo = {} /\ status[k.r] # "none" /\ Staked(k.r, k.todo)
      BY Zenon, <1>0, <1>3 DEF Finish, Retrieval
    <3> QED
      BY Zenon, <1>0, <3>1, AllHeld DEF Staked
  <2>6. \A q \in Mailed : q # k.r => box'[q] = box[q]
    BY Zenon, <1>3 DEF Finish, TypeOK
  <2>7. RemovedIsStaked'
    BY Zenon, <2>1, <2>5, <2>6 DEF CustodyInv, RemovedIsStaked, HasAllProofs, TypeOK
  <2> QED
    BY Zenon, <2>2, <2>4, <2>7 DEF CustodyInv, CoreInv
<1>4. CASE GiveUp(k)
  <2>1. UNCHANGED <<status, held, phase, done, posted, box, resume, at, buried, gone>>
    BY Zenon, <1>4 DEF GiveUp
  <2>2. Kept /\ CoreInv'
    BY Zenon, <2>1, QuietStep DEF CustodyInv, CoreInv
  <2>3. \A x \in tasks' : x \in tasks
    BY Zenon, <1>4 DEF GiveUp
  <2> QED
    BY Zenon, <2>1, <2>2, <2>3, CustodyStep
<1> QED
  BY Zenon, <1>1, <1>2, <1>3, <1>4

\* The event loop: an event is completed by a transaction that looks at the
\* proofs itself.
LEMMA LoopKeeps ==
    ASSUME TypeOK, CustodyInv,
           \/ InspectWalletTx \/ StreamEnds \/ Resubscribe
           \/ \E r \in Mailed : HandleMailboxMessage(r)
           \/ \E p \in Proofs : MapProofToEvent(p)
           \/ Complete
    PROVE  CustodyInv'
<1> USE DEF eventVars, anchoringVars, startVars, walletVars, mailVars, chainVars, serverVars
<1>1. CASE InspectWalletTx
  <2>1. Head(txs) \in Notices
    BY <1>1 DEF InspectWalletTx, TypeOK
  <2>2. UNCHANGED <<held, phase, done, posted, box, resume, at, buried, gone>>
    BY Zenon, <1>1 DEF InspectWalletTx
  <2>3. PICK n \in Notices : Inspected(n)
    BY Zenon, <1>1, <2>1 DEF InspectWalletTx
  <2>4. /\ Kept /\ CoreInv'
        /\ \/ tasks' = tasks
           \/ tasks' = tasks \cup {Task(n.r)} /\ status'[n.r] # "none"
    BY Zenon, <2>2, <2>3, InspectedStep DEF CustodyInv, CoreInv
  <2>5. n.r \in Receives
    BY <2>3 DEF Notices
  <2>6. \A k \in tasks' : k \in tasks \/ Retrieval(k)'
    <3>1. status'[n.r] # "none" => Retrieval(Task(n.r))'
      BY Zenon, <2>5, RetrievalBegins
    <3> QED
      BY Zenon, <2>4, <3>1
  <2> QED
    BY Zenon, <2>2, <2>4, <2>6, CustodyStep
<1>2. CASE \/ StreamEnds \/ Resubscribe \/ CheckProofs
           \/ \E p \in Proofs : MapProofToEvent(p)
  <2>1. UNCHANGED <<status, held, phase, done, tasks, posted, box, resume, at, buried, gone>>
    BY Zenon, <1>2 DEF StreamEnds, Resubscribe, CheckProofs, MapProofToEvent
  <2>2. Decided' /\ Bounded'
    BY Zenon, <2>1 DEF CustodyInv, Decided, Bounded
  <2> QED
    BY Zenon, <2>1, <2>2, IdleStep
<1>3. ASSUME NEW r \in Mailed, HandleMailboxMessage(r) PROVE CustodyInv'
  <2>0. r \in Receives
    BY Zenon DEF Receives
  <2>1. UNCHANGED <<held, phase, done, posted, box, resume, at, buried, gone>>
    BY Zenon, <1>3 DEF HandleMailboxMessage
  <2>2. CASE UNCHANGED <<status, tasks>>
    <3>1. Kept /\ CoreInv'
      BY Zenon, <2>1, <2>2, QuietStep DEF CustodyInv, CoreInv
    <3> QED
      BY Zenon, <2>1, <2>2, <3>1, CustodyStep
  <2>3. CASE status' = [status EXCEPT ![r] = "confirmed"] /\ tasks' = tasks \cup {Task(r)}
    <3>1. "confirmed" \in Statuses \ {"none"} /\ "confirmed" # "completed"
      BY DEF Statuses
    <3>2. Kept /\ CoreInv' /\ status'[r] # "none"
      BY Zenon, <2>0, <2>1, <2>3, <3>1, StatusStep DEF CustodyInv, CoreInv
    <3>3. \A k \in tasks' : k \in tasks \/ Retrieval(k)'
      BY Zenon, <2>0, <2>3, <3>2, RetrievalBegins
    <3> QED
      BY Zenon, <2>1, <3>2, <3>3, CustodyStep
  <2> QED
    BY Zenon, <1>3, <2>2, <2>3 DEF HandleMailboxMessage, Upsert
<1>4. CASE StakeAgain
  <2>1. UNCHANGED <<status, tasks, posted, box, resume, at, buried, gone>>
    BY Zenon, <1>4 DEF StakeAgain
  <2>2. loop.p \in Proofs /\ loop.height \in Nat
    BY Zenon, <1>4, Fields DEF StakeAgain, TypeOK
  <2>3. CASE StakeReceive(loop.p, loop.height)
    <3>1. Kept /\ CoreInv'
      BY Zenon, <2>1, <2>2, <2>3, StakeStep DEF CustodyInv, CoreInv
    <3> QED
      BY Zenon, <2>1, <3>1, CustodyStep
  <2>4. CASE UNCHANGED <<held, anchoringVars, stamp>>
    <3>1. Decided' /\ Bounded'
      BY Zenon, <2>1 DEF CustodyInv, Decided, Bounded
    <3> QED
      BY Zenon, <2>1, <2>4, <3>1, IdleStep
  <2> QED
    BY Zenon, <1>4, <2>3, <2>4 DEF StakeAgain
<1>5. CASE CompleteEvent
  <2>1. UNCHANGED <<held, phase, done, tasks, posted, box, resume, at, buried, gone>>
    BY Zenon, <1>5 DEF CompleteEvent
  <2>2. loop.r \in Receives
    BY Zenon, <1>5, Fields DEF CompleteEvent, TypeOK
  <2>3. CASE MayComplete(loop.r) /\ status' = [status EXCEPT ![loop.r] = "completed"]
    <3>1. "completed" \in Statuses \ {"none"} /\ HasAllProofs(loop.r)
      BY Zenon, <2>3 DEF Statuses, MayComplete
    <3>2. Kept /\ CoreInv'
      BY Zenon, <2>1, <2>2, <2>3, <3>1, StatusStep DEF CustodyInv, CoreInv
    <3> QED
      BY Zenon, <2>1, <3>2, CustodyStep
  <2>4. CASE UNCHANGED status
    <3>1. Decided' /\ Bounded'
      BY Zenon, <2>1 DEF CustodyInv, Decided, Bounded
    <3> QED
      BY Zenon, <2>1, <2>4, <3>1, IdleStep
  <2> QED
    BY Zenon, <1>5, <2>3, <2>4 DEF CompleteEvent
<1> QED
  BY Zenon, <1>1, <1>2, <1>3, <1>4, <1>5 DEF Complete

\* Starting and crashing: only recorded events are resumed.
LEMMA StartKeeps ==
    ASSUME TypeOK, CustodyInv, Start \/ Resuming \/ Crash
    PROVE  CustodyInv'
<1> USE DEF eventVars, anchoringVars, startVars, walletVars, mailVars, chainVars, serverVars
<1>1. CASE Start \/ ListTransactions \/ Crash
  <2>1. UNCHANGED <<status, held, phase, done, posted, box, at, buried, gone>>
    BY Zenon, <1>1 DEF Start, ListTransactions, Crash
  <2>2. Kept /\ CoreInv'
    BY Zenon, <2>1, QuietStep DEF CustodyInv, CoreInv
  <2>3. \A k \in tasks' : k \in tasks
    BY Zenon, <1>1 DEF Start, ListTransactions, Crash
  <2>4. \A r \in resume' : r \in resume \/ status'[r] # "none"
    <3>1. \A r \in Pending : status[r] # "none"
      BY DEF Pending
    <3> QED
      BY Zenon, <1>1, <2>1, <3>1 DEF Start, ListTransactions, Crash
  <2> QED
    BY Zenon, <2>1, <2>2, <2>3, <2>4, CustodyStep
<1>2. ASSUME NEW r \in Receives, ResumeEvent(r) PROVE CustodyInv'
  <2>1. UNCHANGED <<status, held, phase, done, posted, box, at, buried, gone>>
    BY Zenon, <1>2 DEF ResumeEvent
  <2>2. Kept /\ CoreInv'
    BY Zenon, <2>1, QuietStep DEF CustodyInv, CoreInv
  <2>3. status'[r] # "none"
    BY Zenon, <1>2, <2>1 DEF ResumeEvent, CustodyInv, Resumed
  <2>4. Retrieval(Task(r))'
    BY Zenon, <2>3, RetrievalBegins
  <2>5. tasks' \in {tasks, tasks \cup {Task(r)}} /\ resume' = resume \ {r}
    BY Zenon, <1>2 DEF ResumeEvent
  <2>6. \A k \in tasks' : k \in tasks \/ Retrieval(k)'
    BY Zenon, <2>4, <2>5
  <2>7. \A q \in resume' : q \in resume
    BY Zenon, <2>5
  <2> QED
    BY Zenon, <2>1, <2>2, <2>6, <2>7, CustodyStep
<1>3. CASE InspectListed
  <2>1. UNCHANGED <<held, phase, done, posted, box, resume, at, buried, gone>>
    BY Zenon, <1>3 DEF InspectListed
  <2>2. PICK n \in Notices : Inspected(n)
    BY Zenon, <1>3 DEF InspectListed, TypeOK
  <2>3. /\ Kept /\ CoreInv'
        /\ \/ tasks' = tasks
           \/ tasks' = tasks \cup {Task(n.r)} /\ status'[n.r] # "none"
    BY Zenon, <2>1, <2>2, InspectedStep DEF CustodyInv, CoreInv
  <2>4. n.r \in Receives
    BY <2>2 DEF Notices
  <2>5. \A k \in tasks' : k \in tasks \/ Retrieval(k)'
    <3>1. status'[n.r] # "none" => Retrieval(Task(n.r))'
      BY Zenon, <2>4, RetrievalBegins
    <3> QED
      BY Zenon, <2>3, <3>1
  <2> QED
    BY Zenon, <2>1, <2>3, <2>5, CustodyStep
<1> QED
  BY Zenon, <1>1, <1>2, <1>3 DEF Resuming

-----------------------------------------------------------------------------
(* The theorems.                                                           *)

\* The custodian starts with nothing.
LEMMA InitKeeps == Init => TypeOK /\ CustodyInv
<1> SUFFICES ASSUME Init PROVE TypeOK /\ CustodyInv
  OBVIOUS
<1>1. TypeOK
  <2>1. NoAnchoring \in Phases
    BY DEF NoAnchoring, Is, Phases, Kinds
  <2>2. phase \in [Receives -> Phases] /\ done \in [Receives -> Phases]
    BY Zenon, <2>1 DEF Init
  <2>3. txs \in Seq(Notices) /\ reorgs \in Nat /\ crashes \in Nat /\ faults \in Nat
    BY DEF Init
  <2>4. stamp \in [Receives -> Nat] /\ at \in [Receives -> Nat] /\ box \in [Mailed -> Nat]
    BY Zenon, Zero DEF Init
  <2>5. /\ status \in [Receives -> Statuses]
        /\ cache \in [Receives -> {"none", "pending", "confirmed"}]
    BY Zenon DEF Init, Statuses
  <2>6. loop \in Loops /\ boot \in {"down", "resuming", "serving"} /\ live \in BOOLEAN
    BY Zenon, Records DEF Init
  <2>7. /\ held = {} /\ resume = {} /\ listing = {} /\ subscribed = {} /\ inbox = {}
        /\ tasks = {} /\ arrived = {} /\ told = {} /\ seen = {} /\ buried = {} /\ gone = {}
        /\ courier = {} /\ posted = {}
    BY Zenon DEF Init
  <2> QED
    BY Zenon, <2>2, <2>3, <2>4, <2>5, <2>6, <2>7 DEF TypeOK
<1>2. Bounded
  BY DEF Init, Bounded
<1>3. Abandonment
  <2>1. NoAnchoring.kind # "abandoned"
    BY DEF NoAnchoring, Is
  <2> QED
    BY Zenon, <2>1 DEF Init, Abandonment
<1>4. Decided /\ Retrievals /\ Resumed
  BY Zenon DEF Init, Decided, Retrievals, Resumed
<1>5. HeldIsWatched /\ RemovedIsStaked
  BY Zenon DEF Init, HeldIsWatched, RemovedIsStaked
<1>6. CompletedIsHeld
  <2>1. \A r \in Receives : status[r] # "completed"
    BY DEF Init
  <2> QED
    BY Zenon, <2>1 DEF CompletedIsHeld
<1> QED
  BY Zenon, <1>1, <1>2, <1>3, <1>4, <1>5, <1>6 DEF CustodyInv

\* A step keeps the types and the invariant.
LEMMA StepKeeps ==
    ASSUME TypeOK, CustodyInv, [Next]_vars
    PROVE  TypeOK' /\ CustodyInv'
<1>1. TypeOK'
  BY Zenon, StepTypes DEF CustodyInv
<1>2. ASSUME NEW r \in Receives,
             \/ Broadcast(r) \/ Mine(r) \/ ReorgedOut(r) \/ Bury(r) \/ Foreclose(r)
             \/ Sense(r) \/ Deliver(r)
      PROVE  CustodyInv'
  BY Zenon, <1>2, OutsideKeeps, SiteKeeps
<1>3. ASSUME NEW r \in Mailed, Post(r) \/ Subscribe(r) \/ HandleMailboxMessage(r)
      PROVE  CustodyInv'
  BY Zenon, <1>3, OutsideKeeps, LoopKeeps
<1>4. ASSUME NEW p \in Proofs, Upload(p) \/ SyncProof(p) \/ MapProofToEvent(p)
      PROVE  CustodyInv'
  BY Zenon, <1>4, OutsideKeeps, LoopKeeps
<1>5. CASE TaskStep
  BY Zenon, <1>1, <1>5, TaskKeeps DEF TaskStep
<1>6. CASE InspectWalletTx \/ StreamEnds \/ Resubscribe \/ Complete
  BY Zenon, <1>1, <1>6, LoopKeeps
<1>7. CASE Start \/ Resuming \/ Crash
  BY Zenon, <1>1, <1>7, StartKeeps
<1>8. CASE UNCHANGED vars
  <2>1. UNCHANGED <<status, held, phase, done, tasks, posted, box, resume, at, buried, gone>>
    BY Zenon, <1>8 DEF vars, eventVars, anchoringVars, startVars, chainVars, serverVars
  <2>2. Decided' /\ Bounded'
    BY Zenon, <2>1 DEF CustodyInv, Decided, Bounded
  <2> QED
    BY Zenon, <1>1, <2>1, <2>2, IdleStep
<1> QED
  BY Zenon, <1>1, <1>2, <1>3, <1>4, <1>5, <1>6, <1>7, <1>8 DEF Next

\* The custodian's state is well typed, and the inductive invariant holds:
\* retrievals work for recorded events and what they have done with is held,
\* and a delivered abandonment (receiveSite.OnAbandoned) is never taken back.
THEOREM Invariance == Spec => [](TypeOK /\ CustodyInv)
<1>1. TypeOK /\ CustodyInv /\ [Next]_vars => (TypeOK /\ CustodyInv)'
  BY Zenon, StepKeeps
<1> QED
  BY <1>1, InitKeeps, PTL DEF Spec

\* StakeReceive: whatever is held is watched or too deep to be undone, and
\* nothing of a receive whose abandonment was delivered is held, however late
\* a copy of the proof arrives.
THEOREM HeldSafe == Spec => []HeldIsWatched
<1>1. TypeOK /\ CustodyInv => HeldIsWatched
  BY Zenon DEF CustodyInv
<1> QED
  BY <1>1, Invariance, PTL

\* CompleteEvent: a completed event holds the proof of each of its outputs,
\* although the watcher may withdraw them after the loop has checked.
THEOREM CompletedSafe == Spec => []CompletedIsHeld
<1>1. TypeOK /\ CustodyInv => CompletedIsHeld
  BY Zenon DEF CustodyInv
<1> QED
  BY <1>1, Invariance, PTL

\* removeMailboxMessages: a message goes only when its receive is recorded and
\* every proof was staked, however many retrievals of it run at once.
THEOREM RemovedSafe == Spec => []RemovedIsStaked
<1>1. TypeOK /\ CustodyInv => RemovedIsStaked
  BY Zenon DEF CustodyInv
<1> QED
  BY <1>1, Invariance, PTL

=============================================================================
