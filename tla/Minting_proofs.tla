--------------------------- MODULE Minting_proofs ---------------------------
(***************************************************************************)
(* Proofs about Minting, for any number of batches, coins, seedlings,      *)
(* confirmations, failing calls and restarts.                              *)
(***************************************************************************)
EXTENDS Minting, TLAPS

States == PreBroadcast \cup Cancelled
          \cup {"Absent", "Committed", "Broadcast", "Confirmed", "Finalized"}
Rows == [state : States, coin : Coins \cup {NoCoin}, seedlings : SUBSET Seedlings,
         sealed : SUBSET Seedlings]
Fates == {"open", "buried", "lost"}
Txns == [staked : BOOLEAN, sent : BOOLEAN, at : Nat,
         fate : Fates]
Sprouts == [assets : BOOLEAN, conf : Nat, proof : Nat]
Waiting == {"await", "Confirmed", "mark"}
Places == {"off", "Frozen", "Committed", "Broadcast", "Finalized"} \cup Waiting
Answers == {"none", "broadcast", "error"}
Cultivators == [at : Places, mem : States, block : Nat,
                sent : Answers]
Jobs == [job : {"none", "finalize", "cancel"}, batch : Batches \cup {None}]
Phases == {"unwitnessed", "witnessed", "buried", "abandoned"}

\* The type invariant.
TypeOK ==
    /\ row \in [Batches -> Rows]
    /\ minted \in [Batches -> Sprouts]
    /\ leased \subseteq Coins
    /\ tx \in [Batches -> Txns]
    /\ delivered \in [Batches -> [phase : Phases, block : Nat]]
    /\ effect \in [Batches -> {"none", "queued", "published"}]
    /\ pendingBatch \in Batches \cup {None}
    /\ cultivators \subseteq Batches
    /\ cult \in [Batches -> Cultivators]
    /\ gardener \in Jobs
    /\ watched \subseteq Batches /\ dropped \subseteq Batches
    /\ block \in Nat /\ faults \in Nat

-----------------------------------------------------------------------------

\* Somebody is going to hear how the broadcast of b went: the gardener, which
\* finalises it, or the watcher of a resumed batch.
Owed(b) == b \in watched \/ gardener = [job |-> "finalize", batch |-> b]

\* What the chain decided against is compensated whatever its cultivator does.
Compensated(b) == row[b].state = "SproutCancelled" /\ tx[b].fate = "lost"

\* A cultivator's place and its copy of the state follow the row, which the
\* site may have cancelled meanwhile.
InStep(b) ==
    /\ cult[b].at # "off" => b \in cultivators
    /\ cult[b].at = "Frozen" => row[b].state = "Frozen" /\ cult[b].mem = "Frozen"
    /\ cult[b].at = "Committed" =>
          row[b].state = "Committed" /\ cult[b].mem = "Committed"
    /\ cult[b].at \in {"Broadcast"} \cup Waiting =>
          cult[b].mem = "Broadcast" /\ (row[b].state = "Broadcast" \/ Compensated(b))
    /\ cult[b].at = "Finalized" =>
          cult[b].mem = "Confirmed" /\ (row[b].state = "Confirmed" \/ Compensated(b))

\* What a cultivator has reported: an error when it has ended, a broadcast
\* when its anchoring is staked.
Reports(b) ==
    /\ cult[b].at \in {"Frozen", "Committed", "Broadcast"} => cult[b].sent = "none"
    /\ cult[b].sent = "error" => cult[b].at = "off"
    /\ cult[b].sent = "broadcast" => tx[b].staked

\* While somebody waits for b's broadcast, the cultivator's copy says that b is
\* in the slot exactly when its row does.
SlotKnown(b) ==
    /\ Owed(b) => (cult[b].mem \in PreBroadcast <=> row[b].state \in PreBroadcast)
    /\ cult[b].at = "Frozen" => Owed(b)
    /\ cult[b].at = "Frozen" => row[b].state = "Frozen"
    /\ row[b].state = "Absent" => ~Owed(b) /\ pendingBatch # b /\ b \notin cultivators

\* The anchoring is staked after the slot is left, and what is staked is
\* cancelled by the chain alone.
Staked(b) ==
    /\ tx[b].sent => tx[b].staked
    /\ tx[b].staked =>
          row[b].state \in {"Broadcast", "Confirmed", "Finalized"} \/ Compensated(b)

\* The assets exist from the commitment on, unless the chain decided against.
Sprouted(b) ==
    /\ row[b].state \in {"Committed", "Broadcast", "Confirmed", "Finalized"} =>
          minted[b].assets \/ tx[b].fate = "lost"
    /\ effect[b] # "none" => tx[b].fate = "buried"

\* The pending batch is in the slot and nobody works on it, until the gardener
\* finalises it.
Pending ==
    /\ pendingBatch # None => pendingBatch \notin watched
    /\ pendingBatch # None /\ gardener = Idle =>
          /\ row[pendingBatch].state \in PreBroadcast
          /\ cult[pendingBatch].at = "off"
          /\ pendingBatch \notin cultivators
    /\ gardener.job = "cancel" => pendingBatch = None
    /\ gardener.job = "finalize" => pendingBatch = gardener.batch
    /\ gardener.job = "none" => gardener = Idle

\* A batch keeps its coin: it is live, or a cultivator still works on it, or it
\* was sent.
Keeps(b) == Live(b) \/ cult[b].at # "off" \/ tx[b].sent

CoinsKept ==
    \A b \in Batches :
        Keeps(b) /\ row[b].coin # NoCoin /\ ~tx[b].sent =>
            /\ row[b].coin \in leased
            /\ \A x \in Batches \ {b} : Keeps(x) => row[x].coin # row[b].coin

OneInSlot == \A b, x \in InSlot : b = x

\* The slot's batch has an owner.
Owner(b) ==
    \/ pendingBatch = b
    \/ cult[b].at # "off"
    \/ b \in watched /\ cult[b].sent = "error"
    \/ b \in dropped

Owned == \A b \in InSlot : Owner(b)

Published(b) ==
    effect[b] = "published" => row[b].state \in {"Confirmed", "Finalized"}

\* One batch's part of the invariant.
Local(b) ==
    InStep(b) /\ Reports(b) /\ SlotKnown(b) /\ Staked(b) /\ Sprouted(b) /\ Published(b)

\* The inductive invariant.
MintInv ==
    /\ \A b \in Batches : Local(b)
    /\ Pending /\ CoinsKept /\ OneInSlot /\ Owned

-----------------------------------------------------------------------------

RowOf(s, c, q, z) == [state |-> s, coin |-> c, seedlings |-> q, sealed |-> z]
TxOf(st, se, at, f) == [staked |-> st, sent |-> se, at |-> at, fate |-> f]
SproutOf(as, cf, pr) == [assets |-> as, conf |-> cf, proof |-> pr]
CultOf(at, m, k, e) == [at |-> at, mem |-> m, block |-> k, sent |-> e]

\* What the records are made of, and what the tables hold.
LEMMA Typed ==
    ASSUME TypeOK, NEW b \in Batches
    PROVE  /\ row[b] \in Rows /\ minted[b] \in Sprouts /\ tx[b] \in Txns
           /\ cult[b] \in Cultivators /\ b # None
BY MintConstants DEF TypeOK, Batches, None

\* The states, places and answers that the code names.
LEMMA Named ==
    /\ "Absent" \in States /\ "Pending" \in States /\ "Frozen" \in States
    /\ "Committed" \in States /\ "Broadcast" \in States /\ "Confirmed" \in States
    /\ "Finalized" \in States /\ "SeedlingCancelled" \in States
    /\ "SproutCancelled" \in States
    /\ "off" \in Places /\ "Frozen" \in Places /\ "Committed" \in Places
    /\ "Broadcast" \in Places /\ "await" \in Places /\ "Confirmed" \in Places
    /\ "mark" \in Places /\ "Finalized" \in Places
    /\ "none" \in Answers /\ "broadcast" \in Answers /\ "error" \in Answers
    /\ "open" \in Fates /\ "buried" \in Fates /\ "lost" \in Fates
    /\ None \in Nat /\ NoCultivator = CultOf("off", "Absent", None, "none")
    /\ Launched("Frozen") = CultOf("Frozen", "Frozen", None, "none")
BY Zenon DEF States, PreBroadcast, Cancelled, Places, Waiting, None, NoCultivator, CultOf, Launched,
   Answers, Fates

\* What sealing returns is a set of seedlings.
LEMMA SealedType ==
    ASSUME NEW r \in Rows, NEW sealed \in SealResults(r)
    PROVE  sealed \in SUBSET Seedlings
BY Zenon, MintConstants DEF SealResults, Rows

\* The batch a creation takes is an unused one.
LEMMA NextBatchUnused ==
    ASSUME \E b \in Batches : row[b].state = "Absent"
    PROVE  NextBatch \in Batches /\ row[NextBatch].state = "Absent"
BY Zenon DEF NextBatch

-----------------------------------------------------------------------------
(* What a step makes of the tables. *)

RowIs(b, v) ==
    /\ row' \in [Batches -> Rows] /\ row'[b] = v
    /\ \A x \in Batches \ {b} : row'[x] = row[x]
TxIs(b, v) ==
    /\ tx' \in [Batches -> Txns] /\ tx'[b] = v
    /\ \A x \in Batches \ {b} : tx'[x] = tx[x]
MintedIs(b, v) ==
    /\ minted' \in [Batches -> Sprouts] /\ minted'[b] = v
    /\ \A x \in Batches \ {b} : minted'[x] = minted[x]
CultIs(b, v) ==
    /\ cult' \in [Batches -> Cultivators] /\ cult'[b] = v
    /\ \A x \in Batches \ {b} : cult'[x] = cult[x]

\* A step puts a record in its place, or leaves the table alone.
LEMMA RowPut ==
    ASSUME TypeOK, NEW b \in Batches, NEW v \in Rows, row' = [row EXCEPT ![b] = v]
    PROVE  RowIs(b, v)
BY Zenon DEF TypeOK, RowIs

LEMMA RowKept ==
    ASSUME TypeOK, NEW b \in Batches, row' = row
    PROVE  RowIs(b, row[b])
BY Zenon DEF TypeOK, RowIs

LEMMA TxPut ==
    ASSUME TypeOK, NEW b \in Batches, NEW v \in Txns, tx' = [tx EXCEPT ![b] = v]
    PROVE  TxIs(b, v)
BY Zenon DEF TypeOK, TxIs

LEMMA TxKept ==
    ASSUME TypeOK, NEW b \in Batches, tx' = tx
    PROVE  TxIs(b, tx[b])
BY Zenon DEF TypeOK, TxIs

LEMMA MintedPut ==
    ASSUME TypeOK, NEW b \in Batches, NEW v \in Sprouts, minted' = [minted EXCEPT ![b] = v]
    PROVE  MintedIs(b, v)
BY Zenon DEF TypeOK, MintedIs

LEMMA MintedKept ==
    ASSUME TypeOK, NEW b \in Batches, minted' = minted
    PROVE  MintedIs(b, minted[b])
BY Zenon DEF TypeOK, MintedIs

LEMMA CultPut ==
    ASSUME TypeOK, NEW b \in Batches, NEW v \in Cultivators, cult' = [cult EXCEPT ![b] = v]
    PROVE  CultIs(b, v)
BY Zenon DEF TypeOK, CultIs

LEMMA CultKept ==
    ASSUME TypeOK, NEW b \in Batches, cult' = cult
    PROVE  CultIs(b, cult[b])
BY Zenon DEF TypeOK, CultIs

\* The fields of what is put.
LEMMA RowFields ==
    ASSUME NEW b, NEW s, NEW c, NEW q, NEW z, RowIs(b, RowOf(s, c, q, z))
    PROVE  row'[b].state = s /\ row'[b].coin = c
<1>1. row'[b] = RowOf(s, c, q, z)
  BY Zenon DEF RowIs
<1> QED
  BY <1>1 DEF RowOf

LEMMA CultFields ==
    ASSUME NEW b, NEW a, NEW m, NEW k, NEW e, CultIs(b, CultOf(a, m, k, e))
    PROVE  cult'[b].at = a /\ cult'[b].mem = m /\ cult'[b].sent = e
<1>1. cult'[b] = CultOf(a, m, k, e)
  BY Zenon DEF CultIs
<1> QED
  BY <1>1 DEF CultOf

LEMMA MintedFields ==
    ASSUME NEW b, NEW a, NEW k, NEW p, MintedIs(b, SproutOf(a, k, p))
    PROVE  minted'[b].assets = a
<1>1. minted'[b] = SproutOf(a, k, p)
  BY Zenon DEF MintedIs
<1> QED
  BY <1>1 DEF SproutOf

\* Records written field by field are whole records: the batch rows,
LEMMA RowState ==
    ASSUME TypeOK, NEW b \in Batches, NEW s \in States,
           row' = [row EXCEPT ![b].state = s]
    PROVE  RowIs(b, RowOf(s, row[b].coin, row[b].seedlings, row[b].sealed))
<1>1. row[b] \in Rows
  BY Zenon DEF TypeOK
<1>2. [row[b] EXCEPT !.state = s]
        = RowOf(s, row[b].coin, row[b].seedlings, row[b].sealed)
  BY <1>1 DEF Rows, RowOf
<1>3. row' = [row EXCEPT ![b] = RowOf(s, row[b].coin, row[b].seedlings, row[b].sealed)]
  BY <1>2, Zenon
<1>4. RowOf(s, row[b].coin, row[b].seedlings, row[b].sealed) \in Rows
  BY Zenon, <1>1 DEF Rows, RowOf
<1> QED
  BY <1>3, <1>4, RowPut, Zenon

LEMMA RowCoin ==
    ASSUME TypeOK, NEW b \in Batches, NEW c \in Coins \cup {NoCoin},
           row' = [row EXCEPT ![b].coin = c]
    PROVE  RowIs(b, RowOf(row[b].state, c, row[b].seedlings, row[b].sealed))
<1>1. row[b] \in Rows
  BY Zenon DEF TypeOK
<1>2. [row[b] EXCEPT !.coin = c]
        = RowOf(row[b].state, c, row[b].seedlings, row[b].sealed)
  BY <1>1 DEF Rows, RowOf
<1>3. row' = [row EXCEPT ![b] = RowOf(row[b].state, c, row[b].seedlings, row[b].sealed)]
  BY <1>2, Zenon
<1>4. RowOf(row[b].state, c, row[b].seedlings, row[b].sealed) \in Rows
  BY Zenon, <1>1 DEF Rows, RowOf
<1> QED
  BY <1>3, <1>4, RowPut, Zenon

LEMMA RowSeedlings ==
    ASSUME TypeOK, NEW b \in Batches, NEW q \in SUBSET Seedlings,
           row' = [row EXCEPT ![b].seedlings = q]
    PROVE  RowIs(b, RowOf(row[b].state, row[b].coin, q, row[b].sealed))
<1>1. row[b] \in Rows
  BY Zenon DEF TypeOK
<1>2. [row[b] EXCEPT !.seedlings = q]
        = RowOf(row[b].state, row[b].coin, q, row[b].sealed)
  BY <1>1 DEF Rows, RowOf
<1>3. row' = [row EXCEPT ![b] = RowOf(row[b].state, row[b].coin, q, row[b].sealed)]
  BY <1>2, Zenon
<1>4. RowOf(row[b].state, row[b].coin, q, row[b].sealed) \in Rows
  BY Zenon, <1>1 DEF Rows, RowOf
<1> QED
  BY <1>3, <1>4, RowPut, Zenon

LEMMA RowSealed ==
    ASSUME TypeOK, NEW b \in Batches, NEW z \in SUBSET Seedlings,
           row' = [row EXCEPT ![b].sealed = z]
    PROVE  RowIs(b, RowOf(row[b].state, row[b].coin, row[b].seedlings, z))
<1>1. row[b] \in Rows
  BY Zenon DEF TypeOK
<1>2. [row[b] EXCEPT !.sealed = z]
        = RowOf(row[b].state, row[b].coin, row[b].seedlings, z)
  BY <1>1 DEF Rows, RowOf
<1>3. row' = [row EXCEPT ![b] = RowOf(row[b].state, row[b].coin, row[b].seedlings, z)]
  BY <1>2, Zenon
<1>4. RowOf(row[b].state, row[b].coin, row[b].seedlings, z) \in Rows
  BY Zenon, <1>1 DEF Rows, RowOf
<1> QED
  BY <1>3, <1>4, RowPut, Zenon

LEMMA RowCoinSealed ==
    ASSUME TypeOK, NEW b \in Batches, NEW c \in Coins \cup {NoCoin}, NEW z \in SUBSET Seedlings,
           row' = [row EXCEPT ![b].coin = c, ![b].sealed = z]
    PROVE  RowIs(b, RowOf(row[b].state, c, row[b].seedlings, z))
<1>1. row[b] \in Rows
  BY Zenon DEF TypeOK
<1>2. [row[b] EXCEPT !.coin = c]
        = RowOf(row[b].state, c, row[b].seedlings, row[b].sealed)
  BY <1>1 DEF Rows, RowOf
<1>3. [RowOf(row[b].state, c, row[b].seedlings, row[b].sealed) EXCEPT !.sealed = z]
        = RowOf(row[b].state, c, row[b].seedlings, z)
  BY <1>1 DEF Rows, RowOf
<1>4. [row[b] EXCEPT !.coin = c, !.sealed = z]
        = RowOf(row[b].state, c, row[b].seedlings, z)
  BY <1>2, <1>3, Zenon
<1>5. row' = [row EXCEPT ![b] = RowOf(row[b].state, c, row[b].seedlings, z)]
  BY <1>4, Zenon
<1>6. RowOf(row[b].state, c, row[b].seedlings, z) \in Rows
  BY Zenon, <1>1 DEF Rows, RowOf
<1> QED
  BY <1>5, <1>6, RowPut, Zenon

LEMMA RowStateCoinSealed ==
    ASSUME TypeOK, NEW b \in Batches, NEW s \in States, NEW c \in Coins \cup {NoCoin}, NEW z \in SUBSET Seedlings,
           row' = [row EXCEPT ![b].state = s, ![b].coin = c, ![b].sealed = z]
    PROVE  RowIs(b, RowOf(s, c, row[b].seedlings, z))
<1>1. row[b] \in Rows
  BY Zenon DEF TypeOK
<1>2. [row[b] EXCEPT !.state = s]
        = RowOf(s, row[b].coin, row[b].seedlings, row[b].sealed)
  BY <1>1 DEF Rows, RowOf
<1>3. [RowOf(s, row[b].coin, row[b].seedlings, row[b].sealed) EXCEPT !.coin = c]
        = RowOf(s, c, row[b].seedlings, row[b].sealed)
  BY <1>1 DEF Rows, RowOf
<1>4. [RowOf(s, c, row[b].seedlings, row[b].sealed) EXCEPT !.sealed = z]
        = RowOf(s, c, row[b].seedlings, z)
  BY <1>1 DEF Rows, RowOf
<1>5. [row[b] EXCEPT !.state = s, !.coin = c, !.sealed = z]
        = RowOf(s, c, row[b].seedlings, z)
  BY <1>2, <1>3, <1>4, Zenon
<1>6. row' = [row EXCEPT ![b] = RowOf(s, c, row[b].seedlings, z)]
  BY <1>5, Zenon
<1>7. RowOf(s, c, row[b].seedlings, z) \in Rows
  BY Zenon, <1>1 DEF Rows, RowOf
<1> QED
  BY <1>6, <1>7, RowPut, Zenon

\* the genesis transactions,
LEMMA TxStaked ==
    ASSUME TypeOK, NEW b \in Batches, NEW s \in BOOLEAN,
           tx' = [tx EXCEPT ![b].staked = s]
    PROVE  TxIs(b, TxOf(s, tx[b].sent, tx[b].at, tx[b].fate))
<1>1. tx[b] \in Txns
  BY Zenon DEF TypeOK
<1>2. [tx[b] EXCEPT !.staked = s]
        = TxOf(s, tx[b].sent, tx[b].at, tx[b].fate)
  BY <1>1 DEF Txns, TxOf
<1>3. tx' = [tx EXCEPT ![b] = TxOf(s, tx[b].sent, tx[b].at, tx[b].fate)]
  BY <1>2, Zenon
<1>4. TxOf(s, tx[b].sent, tx[b].at, tx[b].fate) \in Txns
  BY Zenon, <1>1 DEF Txns, TxOf
<1> QED
  BY <1>3, <1>4, TxPut, Zenon

LEMMA TxAt ==
    ASSUME TypeOK, NEW b \in Batches, NEW k \in Nat,
           tx' = [tx EXCEPT ![b].at = k]
    PROVE  TxIs(b, TxOf(tx[b].staked, tx[b].sent, k, tx[b].fate))
<1>1. tx[b] \in Txns
  BY Zenon DEF TypeOK
<1>2. [tx[b] EXCEPT !.at = k]
        = TxOf(tx[b].staked, tx[b].sent, k, tx[b].fate)
  BY <1>1 DEF Txns, TxOf
<1>3. tx' = [tx EXCEPT ![b] = TxOf(tx[b].staked, tx[b].sent, k, tx[b].fate)]
  BY <1>2, Zenon
<1>4. TxOf(tx[b].staked, tx[b].sent, k, tx[b].fate) \in Txns
  BY Zenon, <1>1 DEF Txns, TxOf
<1> QED
  BY <1>3, <1>4, TxPut, Zenon

LEMMA TxFate ==
    ASSUME TypeOK, NEW b \in Batches, NEW f \in Fates,
           tx' = [tx EXCEPT ![b].fate = f]
    PROVE  TxIs(b, TxOf(tx[b].staked, tx[b].sent, tx[b].at, f))
<1>1. tx[b] \in Txns
  BY Zenon DEF TypeOK
<1>2. [tx[b] EXCEPT !.fate = f]
        = TxOf(tx[b].staked, tx[b].sent, tx[b].at, f)
  BY <1>1 DEF Txns, TxOf
<1>3. tx' = [tx EXCEPT ![b] = TxOf(tx[b].staked, tx[b].sent, tx[b].at, f)]
  BY <1>2, Zenon
<1>4. TxOf(tx[b].staked, tx[b].sent, tx[b].at, f) \in Txns
  BY Zenon, <1>1 DEF Txns, TxOf
<1> QED
  BY <1>3, <1>4, TxPut, Zenon

LEMMA TxStakedSent ==
    ASSUME TypeOK, NEW b \in Batches, NEW s \in BOOLEAN, NEW e \in BOOLEAN,
           tx' = [tx EXCEPT ![b].staked = s, ![b].sent = e]
    PROVE  TxIs(b, TxOf(s, e, tx[b].at, tx[b].fate))
<1>1. tx[b] \in Txns
  BY Zenon DEF TypeOK
<1>2. [tx[b] EXCEPT !.staked = s]
        = TxOf(s, tx[b].sent, tx[b].at, tx[b].fate)
  BY <1>1 DEF Txns, TxOf
<1>3. [TxOf(s, tx[b].sent, tx[b].at, tx[b].fate) EXCEPT !.sent = e]
        = TxOf(s, e, tx[b].at, tx[b].fate)
  BY <1>1 DEF Txns, TxOf
<1>4. [tx[b] EXCEPT !.staked = s, !.sent = e]
        = TxOf(s, e, tx[b].at, tx[b].fate)
  BY <1>2, <1>3, Zenon
<1>5. tx' = [tx EXCEPT ![b] = TxOf(s, e, tx[b].at, tx[b].fate)]
  BY <1>4, Zenon
<1>6. TxOf(s, e, tx[b].at, tx[b].fate) \in Txns
  BY Zenon, <1>1 DEF Txns, TxOf
<1> QED
  BY <1>5, <1>6, TxPut, Zenon

\* the assets,
LEMMA MintedAssets ==
    ASSUME TypeOK, NEW b \in Batches, NEW a \in BOOLEAN,
           minted' = [minted EXCEPT ![b].assets = a]
    PROVE  MintedIs(b, SproutOf(a, minted[b].conf, minted[b].proof))
<1>1. minted[b] \in Sprouts
  BY Zenon DEF TypeOK
<1>2. [minted[b] EXCEPT !.assets = a]
        = SproutOf(a, minted[b].conf, minted[b].proof)
  BY <1>1 DEF Sprouts, SproutOf
<1>3. minted' = [minted EXCEPT ![b] = SproutOf(a, minted[b].conf, minted[b].proof)]
  BY <1>2, Zenon
<1>4. SproutOf(a, minted[b].conf, minted[b].proof) \in Sprouts
  BY Zenon, <1>1 DEF Sprouts, SproutOf
<1> QED
  BY <1>3, <1>4, MintedPut, Zenon

LEMMA MintedConf ==
    ASSUME TypeOK, NEW b \in Batches, NEW k \in Nat,
           minted' = [minted EXCEPT ![b].conf = k]
    PROVE  MintedIs(b, SproutOf(minted[b].assets, k, minted[b].proof))
<1>1. minted[b] \in Sprouts
  BY Zenon DEF TypeOK
<1>2. [minted[b] EXCEPT !.conf = k]
        = SproutOf(minted[b].assets, k, minted[b].proof)
  BY <1>1 DEF Sprouts, SproutOf
<1>3. minted' = [minted EXCEPT ![b] = SproutOf(minted[b].assets, k, minted[b].proof)]
  BY <1>2, Zenon
<1>4. SproutOf(minted[b].assets, k, minted[b].proof) \in Sprouts
  BY Zenon, <1>1 DEF Sprouts, SproutOf
<1> QED
  BY <1>3, <1>4, MintedPut, Zenon

LEMMA MintedConfProof ==
    ASSUME TypeOK, NEW b \in Batches, NEW k \in Nat, NEW p \in Nat,
           minted' = [minted EXCEPT ![b].conf = k, ![b].proof = p]
    PROVE  MintedIs(b, SproutOf(minted[b].assets, k, p))
<1>1. minted[b] \in Sprouts
  BY Zenon DEF TypeOK
<1>2. [minted[b] EXCEPT !.conf = k]
        = SproutOf(minted[b].assets, k, minted[b].proof)
  BY <1>1 DEF Sprouts, SproutOf
<1>3. [SproutOf(minted[b].assets, k, minted[b].proof) EXCEPT !.proof = p]
        = SproutOf(minted[b].assets, k, p)
  BY <1>1 DEF Sprouts, SproutOf
<1>4. [minted[b] EXCEPT !.conf = k, !.proof = p]
        = SproutOf(minted[b].assets, k, p)
  BY <1>2, <1>3, Zenon
<1>5. minted' = [minted EXCEPT ![b] = SproutOf(minted[b].assets, k, p)]
  BY <1>4, Zenon
<1>6. SproutOf(minted[b].assets, k, p) \in Sprouts
  BY Zenon, <1>1 DEF Sprouts, SproutOf
<1> QED
  BY <1>5, <1>6, MintedPut, Zenon

\* and the cultivators, which go on or end.
LEMMA CultAt ==
    ASSUME TypeOK, NEW b \in Batches, NEW p \in Places,
           cult' = [cult EXCEPT ![b].at = p]
    PROVE  CultIs(b, CultOf(p, cult[b].mem, cult[b].block, cult[b].sent))
<1>1. cult[b] \in Cultivators
  BY Zenon DEF TypeOK
<1>2. [cult[b] EXCEPT !.at = p]
        = CultOf(p, cult[b].mem, cult[b].block, cult[b].sent)
  BY <1>1 DEF Cultivators, CultOf
<1>3. cult' = [cult EXCEPT ![b] = CultOf(p, cult[b].mem, cult[b].block, cult[b].sent)]
  BY <1>2, Zenon
<1>4. CultOf(p, cult[b].mem, cult[b].block, cult[b].sent) \in Cultivators
  BY Zenon, <1>1 DEF Cultivators, CultOf
<1> QED
  BY <1>3, <1>4, CultPut, Zenon

LEMMA CultSent ==
    ASSUME TypeOK, NEW b \in Batches, NEW e \in Answers,
           cult' = [cult EXCEPT ![b].sent = e]
    PROVE  CultIs(b, CultOf(cult[b].at, cult[b].mem, cult[b].block, e))
<1>1. cult[b] \in Cultivators
  BY Zenon DEF TypeOK
<1>2. [cult[b] EXCEPT !.sent = e]
        = CultOf(cult[b].at, cult[b].mem, cult[b].block, e)
  BY <1>1 DEF Cultivators, CultOf
<1>3. cult' = [cult EXCEPT ![b] = CultOf(cult[b].at, cult[b].mem, cult[b].block, e)]
  BY <1>2, Zenon
<1>4. CultOf(cult[b].at, cult[b].mem, cult[b].block, e) \in Cultivators
  BY Zenon, <1>1 DEF Cultivators, CultOf
<1> QED
  BY <1>3, <1>4, CultPut, Zenon

LEMMA CultAtMem ==
    ASSUME TypeOK, NEW b \in Batches, NEW p \in Places, NEW m \in States,
           cult' = [cult EXCEPT ![b].at = p, ![b].mem = m]
    PROVE  CultIs(b, CultOf(p, m, cult[b].block, cult[b].sent))
<1>1. cult[b] \in Cultivators
  BY Zenon DEF TypeOK
<1>2. [cult[b] EXCEPT !.at = p]
        = CultOf(p, cult[b].mem, cult[b].block, cult[b].sent)
  BY <1>1 DEF Cultivators, CultOf
<1>3. [CultOf(p, cult[b].mem, cult[b].block, cult[b].sent) EXCEPT !.mem = m]
        = CultOf(p, m, cult[b].block, cult[b].sent)
  BY <1>1 DEF Cultivators, CultOf
<1>4. [cult[b] EXCEPT !.at = p, !.mem = m]
        = CultOf(p, m, cult[b].block, cult[b].sent)
  BY <1>2, <1>3, Zenon
<1>5. cult' = [cult EXCEPT ![b] = CultOf(p, m, cult[b].block, cult[b].sent)]
  BY <1>4, Zenon
<1>6. CultOf(p, m, cult[b].block, cult[b].sent) \in Cultivators
  BY Zenon, <1>1 DEF Cultivators, CultOf
<1> QED
  BY <1>5, <1>6, CultPut, Zenon

LEMMA CultAtBlock ==
    ASSUME TypeOK, NEW b \in Batches, NEW p \in Places, NEW k \in Nat,
           cult' = [cult EXCEPT ![b].at = p, ![b].block = k]
    PROVE  CultIs(b, CultOf(p, cult[b].mem, k, cult[b].sent))
<1>1. cult[b] \in Cultivators
  BY Zenon DEF TypeOK
<1>2. [cult[b] EXCEPT !.at = p]
        = CultOf(p, cult[b].mem, cult[b].block, cult[b].sent)
  BY <1>1 DEF Cultivators, CultOf
<1>3. [CultOf(p, cult[b].mem, cult[b].block, cult[b].sent) EXCEPT !.block = k]
        = CultOf(p, cult[b].mem, k, cult[b].sent)
  BY <1>1 DEF Cultivators, CultOf
<1>4. [cult[b] EXCEPT !.at = p, !.block = k]
        = CultOf(p, cult[b].mem, k, cult[b].sent)
  BY <1>2, <1>3, Zenon
<1>5. cult' = [cult EXCEPT ![b] = CultOf(p, cult[b].mem, k, cult[b].sent)]
  BY <1>4, Zenon
<1>6. CultOf(p, cult[b].mem, k, cult[b].sent) \in Cultivators
  BY Zenon, <1>1 DEF Cultivators, CultOf
<1> QED
  BY <1>5, <1>6, CultPut, Zenon

LEMMA CultAtSent ==
    ASSUME TypeOK, NEW b \in Batches, NEW p \in Places, NEW e \in Answers,
           cult' = [cult EXCEPT ![b].at = p, ![b].sent = e]
    PROVE  CultIs(b, CultOf(p, cult[b].mem, cult[b].block, e))
<1>1. cult[b] \in Cultivators
  BY Zenon DEF TypeOK
<1>2. [cult[b] EXCEPT !.at = p]
        = CultOf(p, cult[b].mem, cult[b].block, cult[b].sent)
  BY <1>1 DEF Cultivators, CultOf
<1>3. [CultOf(p, cult[b].mem, cult[b].block, cult[b].sent) EXCEPT !.sent = e]
        = CultOf(p, cult[b].mem, cult[b].block, e)
  BY <1>1 DEF Cultivators, CultOf
<1>4. [cult[b] EXCEPT !.at = p, !.sent = e]
        = CultOf(p, cult[b].mem, cult[b].block, e)
  BY <1>2, <1>3, Zenon
<1>5. cult' = [cult EXCEPT ![b] = CultOf(p, cult[b].mem, cult[b].block, e)]
  BY <1>4, Zenon
<1>6. CultOf(p, cult[b].mem, cult[b].block, e) \in Cultivators
  BY Zenon, <1>1 DEF Cultivators, CultOf
<1> QED
  BY <1>5, <1>6, CultPut, Zenon

LEMMA EndsMem ==
    ASSUME TypeOK, NEW b \in Batches, NEW m \in States,
           Ends(b, [cult[b] EXCEPT !.mem = m])
    PROVE  CultIs(b, CultOf("off", m, cult[b].block, cult[b].sent))
<1>1. cult[b] \in Cultivators
  BY Zenon DEF TypeOK
<1>2. [cult[b] EXCEPT !.mem = m]
        = CultOf(cult[b].at, m, cult[b].block, cult[b].sent)
  BY <1>1 DEF Cultivators, CultOf
<1>3. [CultOf(cult[b].at, m, cult[b].block, cult[b].sent) EXCEPT !.at = "off"]
        = CultOf("off", m, cult[b].block, cult[b].sent)
  BY <1>1 DEF Cultivators, CultOf
<1>4. [[cult[b] EXCEPT !.mem = m] EXCEPT !.at = "off"]
        = CultOf("off", m, cult[b].block, cult[b].sent)
  BY <1>2, <1>3, Zenon
<1>5. cult' = [cult EXCEPT ![b] = CultOf("off", m, cult[b].block, cult[b].sent)]
  BY <1>4, Zenon DEF Ends
<1>6. CultOf("off", m, cult[b].block, cult[b].sent) \in Cultivators
  BY Zenon, <1>1, Named DEF Cultivators, CultOf
<1> QED
  BY <1>5, <1>6, CultPut, Zenon

LEMMA EndsSent ==
    ASSUME TypeOK, NEW b \in Batches, NEW e \in Answers,
           Ends(b, [cult[b] EXCEPT !.sent = e])
    PROVE  CultIs(b, CultOf("off", cult[b].mem, cult[b].block, e))
<1>1. cult[b] \in Cultivators
  BY Zenon DEF TypeOK
<1>2. [cult[b] EXCEPT !.sent = e]
        = CultOf(cult[b].at, cult[b].mem, cult[b].block, e)
  BY <1>1 DEF Cultivators, CultOf
<1>3. [CultOf(cult[b].at, cult[b].mem, cult[b].block, e) EXCEPT !.at = "off"]
        = CultOf("off", cult[b].mem, cult[b].block, e)
  BY <1>1 DEF Cultivators, CultOf
<1>4. [[cult[b] EXCEPT !.sent = e] EXCEPT !.at = "off"]
        = CultOf("off", cult[b].mem, cult[b].block, e)
  BY <1>2, <1>3, Zenon
<1>5. cult' = [cult EXCEPT ![b] = CultOf("off", cult[b].mem, cult[b].block, e)]
  BY <1>4, Zenon DEF Ends
<1>6. CultOf("off", cult[b].mem, cult[b].block, e) \in Cultivators
  BY Zenon, <1>1, Named DEF Cultivators, CultOf
<1> QED
  BY <1>5, <1>6, CultPut, Zenon

LEMMA EndsMemSent ==
    ASSUME TypeOK, NEW b \in Batches, NEW m \in States, NEW e \in Answers,
           Ends(b, [cult[b] EXCEPT !.mem = m, !.sent = e])
    PROVE  CultIs(b, CultOf("off", m, cult[b].block, e))
<1>1. cult[b] \in Cultivators
  BY Zenon DEF TypeOK
<1>2. [cult[b] EXCEPT !.mem = m]
        = CultOf(cult[b].at, m, cult[b].block, cult[b].sent)
  BY <1>1 DEF Cultivators, CultOf
<1>3. [CultOf(cult[b].at, m, cult[b].block, cult[b].sent) EXCEPT !.sent = e]
        = CultOf(cult[b].at, m, cult[b].block, e)
  BY <1>1 DEF Cultivators, CultOf
<1>4. [CultOf(cult[b].at, m, cult[b].block, e) EXCEPT !.at = "off"]
        = CultOf("off", m, cult[b].block, e)
  BY <1>1 DEF Cultivators, CultOf
<1>5. [[cult[b] EXCEPT !.mem = m, !.sent = e] EXCEPT !.at = "off"]
        = CultOf("off", m, cult[b].block, e)
  BY <1>2, <1>3, <1>4, Zenon
<1>6. cult' = [cult EXCEPT ![b] = CultOf("off", m, cult[b].block, e)]
  BY <1>5, Zenon DEF Ends
<1>7. CultOf("off", m, cult[b].block, e) \in Cultivators
  BY Zenon, <1>1, Named DEF Cultivators, CultOf
<1> QED
  BY <1>6, <1>7, CultPut, Zenon

-----------------------------------------------------------------------------
(* Every step but a restart concerns one batch. *)

\* Nothing about x changes.
Same(x) ==
    /\ row'[x] = row[x] /\ minted'[x] = minted[x] /\ tx'[x] = tx[x]
    /\ effect'[x] = effect[x] /\ cult'[x] = cult[x]
    /\ x \in cultivators' <=> x \in cultivators
    /\ x \in watched' <=> x \in watched
    /\ Owed(x)' <=> Owed(x)
    /\ x \in dropped => x \in dropped'
    /\ pendingBatch' = x <=> pendingBatch = x

Others(b) == \A x \in Batches \ {b} : Same(x)

\* What does not change keeps its part of the invariant.
LEMMA SameLocal ==
    ASSUME NEW x \in Batches, Local(x), Same(x)
    PROVE  Local(x)'
<1>1. InStep(x)' /\ Reports(x)'
  BY Zenon DEF Local, Same, InStep, Reports, Compensated
<1>2. SlotKnown(x)' /\ Staked(x)'
  BY Zenon DEF Local, Same, SlotKnown, Staked, Compensated
<1>3. Sprouted(x)' /\ Published(x)'
  BY Zenon DEF Local, Same, Sprouted, Published
<1> QED
  BY Zenon, <1>1, <1>2, <1>3 DEF Local

\* The slot: a batch enters it when it is empty, and has an owner while it is
\* there.
LEMMA SlotStep ==
    ASSUME MintInv, NEW b \in Batches, Others(b),
           row'[b].state \in PreBroadcast =>
              /\ row[b].state \in PreBroadcast \/ InSlot = {}
              /\ Owner(b)'
    PROVE  OneInSlot' /\ Owned'
<1>1. \A x \in Batches \ {b} : x \in InSlot' => x \in InSlot /\ Owner(x)'
  BY ZenonT(30) DEF MintInv, Owned, Owner, Others, Same, InSlot
<1>2. b \in InSlot' => (b \in InSlot \/ InSlot = {}) /\ Owner(b)'
  BY Zenon DEF InSlot
<1>3. InSlot' \subseteq Batches
  BY Zenon DEF InSlot
<1>4. \A x, y \in InSlot : x = y
  BY Zenon DEF MintInv, OneInSlot
<1>5. OneInSlot'
  BY <1>1, <1>2, <1>3, <1>4 DEF OneInSlot
<1>6. Owned'
  BY Zenon, <1>1, <1>2, <1>3 DEF Owned
<1> QED
  BY Zenon, <1>5, <1>6

\* Coins: a step that neither funds nor releases.
LEMMA CoinsStep ==
    ASSUME MintInv, NEW b \in Batches, Others(b),
           row'[b].coin = row[b].coin, leased \subseteq leased',
           Keeps(b)' => Keeps(b), tx[b].sent => tx'[b].sent
    PROVE  CoinsKept'
<1>1. \A x \in Batches : /\ row'[x].coin = row[x].coin
                         /\ Keeps(x)' => Keeps(x)
                         /\ tx[x].sent => tx'[x].sent
  BY ZenonT(30) DEF Others, Same, Keeps, Live
<1>2. CoinsKept
  BY Zenon DEF MintInv
<1> QED
  BY ZenonT(30), <1>1, <1>2 DEF CoinsKept

\* Coins: the coin of a batch that lets go of it is released.
LEMMA CoinsReleased ==
    ASSUME MintInv, NEW b \in Batches, Others(b),
           row'[b].coin = row[b].coin, leased' = leased \ {row[b].coin},
           Keeps(b), ~Keeps(b)'
    PROVE  CoinsKept'
<1>1. \A x \in Batches \ {b} : /\ row'[x].coin = row[x].coin
                               /\ Keeps(x)' <=> Keeps(x)
                               /\ tx[x].sent <=> tx'[x].sent
  BY Zenon DEF Others, Same, Keeps, Live
<1>2. CoinsKept
  BY Zenon DEF MintInv
<1> QED
  BY <1>1, <1>2 DEF CoinsKept

\* Coins: a batch begins without a coin.
LEMMA CoinsNew ==
    ASSUME MintInv, NEW b \in Batches, Others(b),
           row'[b].coin = NoCoin, leased' = leased
    PROVE  CoinsKept'
<1>1. \A x \in Batches \ {b} : /\ row'[x].coin = row[x].coin
                               /\ Keeps(x)' <=> Keeps(x)
                               /\ tx[x].sent <=> tx'[x].sent
  BY Zenon DEF Others, Same, Keeps, Live
<1>2. CoinsKept
  BY Zenon DEF MintInv
<1> QED
  BY ZenonT(30), <1>1, <1>2 DEF CoinsKept

\* Coins: a batch is funded with a coin that is neither leased nor spent.
LEMMA CoinsFunded ==
    ASSUME MintInv, NEW b \in Batches, Others(b), NEW c \in Fundable,
           row'[b].coin = c, leased' = leased \cup {c}
    PROVE  CoinsKept'
<1>1. \A x \in Batches \ {b} : /\ row'[x].coin = row[x].coin
                               /\ Keeps(x)' <=> Keeps(x)
                               /\ tx[x].sent <=> tx'[x].sent
  BY Zenon DEF Others, Same, Keeps, Live
<1>2. CoinsKept
  BY Zenon DEF MintInv
<1>3. \A x \in Batches \ {b} : Keeps(x) => row[x].coin # c \/ c = NoCoin
  BY Zenon, <1>2 DEF CoinsKept, Fundable
<1> QED
  BY ZenonT(30), <1>1, <1>2, <1>3 DEF CoinsKept, Fundable

\* The planter's part, for a step that leaves the planter's fields alone.
LEMMA PlanterStep ==
    ASSUME TypeOK, MintInv, NEW b \in Batches, Others(b),
           pendingBatch' = pendingBatch, gardener' = gardener,
           cultivators' \subseteq cultivators, watched' \subseteq watched,
           pendingBatch = b /\ gardener = Idle =>
              row'[b].state \in PreBroadcast /\ cult'[b].at = "off"
    PROVE  Pending'
<1>1. Pending /\ pendingBatch \in Batches \cup {None}
  BY Zenon DEF MintInv, TypeOK
<1> QED
  BY Zenon, <1>1 DEF Pending, Others, Same

\* The invariant, from its parts.
LEMMA Assemble ==
    ASSUME MintInv, NEW b \in Batches, Others(b), Local(b)', Pending', CoinsKept',
           OneInSlot' /\ Owned'
    PROVE  MintInv'
<1>1. \A x \in Batches \ {b} : Local(x)'
  BY Zenon, SameLocal DEF MintInv, Others
<1>2. ASSUME NEW x \in Batches PROVE Local(x)'
  <2>1. CASE x = b
    BY <2>1, Zenon
  <2>2. CASE x # b
    BY <1>1, <2>2, Zenon
  <2> QED
    BY <2>1, <2>2, Zenon
<1> QED
  BY <1>2, Zenon DEF MintInv

\* A step that leaves the planter and the outbox alone: the other batches do not
\* notice.
LEMMA Alone ==
    ASSUME TypeOK, NEW b \in Batches, NEW r, NEW m, NEW c, NEW t,
           RowIs(b, r), MintedIs(b, m), CultIs(b, c), TxIs(b, t),
           UNCHANGED <<leased, effect, delivered, planter>>,
           block' \in Nat, faults' \in Nat
    PROVE  TypeOK' /\ Others(b)
<1>1. TypeOK'
  BY Zenon DEF TypeOK, planter, RowIs, MintedIs, CultIs, TxIs
<1>2. Others(b)
  BY Zenon DEF Others, Same, Owed, planter, RowIs, MintedIs, CultIs, TxIs
<1> QED
  BY Zenon, <1>1, <1>2

\* A step of b's cultivator: no batch enters the slot, and the coin stays.
LEMMA CultivatorStep ==
    ASSUME TypeOK, MintInv, NEW b \in Batches, NEW r, NEW m, NEW c, NEW t,
           RowIs(b, r), MintedIs(b, m), CultIs(b, c), TxIs(b, t), Local(b)',
           cult[b].at # "off", row'[b].coin = row[b].coin, tx[b].sent => tx'[b].sent,
           row'[b].state \in PreBroadcast => row[b].state \in PreBroadcast /\ Owner(b)',
           UNCHANGED <<leased, effect, delivered, planter, block>>,
           faults' = faults \/ faults' = faults + 1
    PROVE  TypeOK' /\ MintInv'
<1>1. TypeOK' /\ Others(b)
  <2>1. block' \in Nat /\ faults' \in Nat
    BY DEF TypeOK
  <2> QED
    BY <2>1, Alone, Zenon
<1>2. Pending'
  <2>1. ~(pendingBatch = b /\ gardener = Idle)
    BY Zenon, Typed DEF MintInv, Pending
  <2> QED
    BY Zenon, <1>1, <2>1, PlanterStep DEF planter
<1>3. CoinsKept'
  BY Zenon, <1>1, CoinsStep DEF Keeps
<1>4. OneInSlot' /\ Owned'
  BY <1>1, SlotStep, Zenon
<1> QED
  BY <1>1, <1>2, <1>3, <1>4, Assemble, Zenon

\* A step of the chain: the transaction of b is mined, re-organised or decided.
LEMMA ChainStep ==
    ASSUME TypeOK, MintInv, NEW b \in Batches, NEW k \in Nat, NEW f \in Fates,
           TxIs(b, TxOf(tx[b].staked, tx[b].sent, k, f)), tx[b].fate = "open",
           UNCHANGED <<row, minted, leased, effect, delivered, planter, cult, faults>>,
           block' \in Nat
    PROVE  TypeOK' /\ MintInv'
<1>1. TypeOK' /\ Others(b)
  <2>1. faults' \in Nat
    BY Zenon DEF TypeOK
  <2> QED
    BY <2>1, RowKept, MintedKept, CultKept, Alone, Zenon
<1>2. Local(b) /\ tx'[b].staked = tx[b].staked /\ tx'[b].sent = tx[b].sent
  BY DEF MintInv, TxIs, TxOf
<1>3. Local(b)'
  <2>1. InStep(b)' /\ Reports(b)'
    BY Zenon, <1>2 DEF Local, InStep, Reports, Compensated, planter
  <2>2. SlotKnown(b)' /\ Staked(b)'
    BY Zenon, <1>2 DEF Local, SlotKnown, Staked, Owed, Compensated, planter
  <2>3. Sprouted(b)' /\ Published(b)'
    BY Zenon, <1>2 DEF Local, Sprouted, Published
  <2> QED
    BY Zenon, <2>1, <2>2, <2>3 DEF Local
<1>4. Pending' /\ OneInSlot' /\ Owned'
  BY Zenon DEF MintInv, Pending, OneInSlot, Owned, Owner, InSlot, planter
<1>5. CoinsKept'
  BY Zenon, <1>1, <1>2, CoinsStep DEF Keeps, Live
<1> QED
  BY <1>1, <1>3, <1>4, <1>5, Assemble, Zenon

-----------------------------------------------------------------------------
(* The cultivator's steps. *)

LEMMA StepFrozenInv ==
    ASSUME TypeOK, MintInv, NEW b \in Batches, StepFrozen(b)
    PROVE  TypeOK' /\ MintInv'
<1>1. /\ cult[b].at = "Frozen" /\ Local(b)
      /\ UNCHANGED <<leased, effect, delivered, planter, tx, block, faults>>
  BY Zenon DEF StepFrozen, MintInv
<1>2. /\ RowIs(b, RowOf("Committed", row[b].coin, row[b].seedlings, row[b].sealed))
      /\ MintedIs(b, SproutOf(TRUE, minted[b].conf, minted[b].proof))
      /\ CultIs(b, CultOf("Committed", "Committed", cult[b].block, cult[b].sent))
      /\ TxIs(b, tx[b])
  <2>1. RowIs(b, RowOf("Committed", row[b].coin, row[b].seedlings, row[b].sealed))
    BY RowState, Named, Zenon DEF StepFrozen, SetState
  <2>2. MintedIs(b, SproutOf(TRUE, minted[b].conf, minted[b].proof))
    BY MintedAssets, Zenon DEF StepFrozen
  <2>3. CultIs(b, CultOf("Committed", "Committed", cult[b].block, cult[b].sent))
    BY CultAtMem, Named, Zenon DEF StepFrozen, Steps
  <2>4. TxIs(b, tx[b])
    BY <1>1, TxKept, Zenon
  <2> QED
    BY <2>1, <2>2, <2>3, <2>4, Zenon
<1>f. /\ row'[b].state = "Committed" /\ row'[b].coin = row[b].coin
      /\ cult'[b].at = "Committed" /\ cult'[b].mem = "Committed" /\ cult'[b].sent = cult[b].sent
      /\ minted'[b].assets /\ tx'[b] = tx[b]
  <2>1. row'[b].state = "Committed" /\ row'[b].coin = row[b].coin
    BY Zenon, <1>2, RowFields
  <2>2. cult'[b].at = "Committed" /\ cult'[b].mem = "Committed" /\ cult'[b].sent = cult[b].sent
    BY Zenon, <1>2, CultFields
  <2>3. minted'[b].assets /\ tx'[b] = tx[b]
    BY ZenonT(30), <1>2, MintedFields DEF MintedIs, TxIs
  <2> QED
    BY Zenon, <2>1, <2>2, <2>3
<1>3. Local(b)'
  <2>1. InStep(b)' /\ Reports(b)'
    BY Zenon, <1>1, <1>f DEF Local, InStep, Reports, Compensated, Waiting, planter
  <2>2. SlotKnown(b)'
    BY Zenon, <1>1, <1>f DEF Local, InStep, Reports, SlotKnown, Owed, PreBroadcast, planter
  <2>3. Staked(b)'
    BY Zenon, <1>1, <1>f DEF Local, InStep, Staked, Compensated, PreBroadcast
  <2>4. Sprouted(b)' /\ Published(b)'
    BY Zenon, <1>1, <1>f DEF Local, InStep, Sprouted, Published, Compensated, PreBroadcast
  <2> QED
    BY Zenon, <2>1, <2>2, <2>3, <2>4 DEF Local
<1>4. /\ cult[b].at # "off" /\ row'[b].coin = row[b].coin /\ (tx[b].sent => tx'[b].sent)
      /\ faults' = faults \/ faults' = faults + 1
  BY Zenon, <1>1, <1>f
<1>5. row'[b].state \in PreBroadcast => row[b].state \in PreBroadcast /\ Owner(b)'
  BY Zenon, <1>f DEF PreBroadcast
<1> QED
  BY <1>1, <1>2, <1>3, <1>4, <1>5, CultivatorStep, Zenon

LEMMA StepCommittedInv ==
    ASSUME TypeOK, MintInv, NEW b \in Batches, StepCommitted(b)
    PROVE  TypeOK' /\ MintInv'
<1>1. /\ cult[b].at = "Committed" /\ Local(b)
      /\ UNCHANGED <<minted, leased, effect, delivered, planter, tx, block, faults>>
  BY Zenon DEF StepCommitted, MintInv
<1>2. /\ RowIs(b, RowOf("Broadcast", row[b].coin, row[b].seedlings, row[b].sealed))
      /\ MintedIs(b, minted[b])
      /\ CultIs(b, CultOf("Broadcast", "Broadcast", cult[b].block, cult[b].sent))
      /\ TxIs(b, tx[b])
  <2>1. RowIs(b, RowOf("Broadcast", row[b].coin, row[b].seedlings, row[b].sealed))
    BY RowState, Named, Zenon DEF StepCommitted, SetState
  <2>2. MintedIs(b, minted[b])
    BY <1>1, MintedKept, Zenon
  <2>3. CultIs(b, CultOf("Broadcast", "Broadcast", cult[b].block, cult[b].sent))
    BY CultAtMem, Named, Zenon DEF StepCommitted, Steps
  <2>4. TxIs(b, tx[b])
    BY <1>1, TxKept, Zenon
  <2> QED
    BY <2>1, <2>2, <2>3, <2>4, Zenon
<1>f. /\ row'[b].state = "Broadcast" /\ row'[b].coin = row[b].coin
      /\ cult'[b].at = "Broadcast" /\ cult'[b].mem = "Broadcast" /\ cult'[b].sent = cult[b].sent
      /\ minted'[b] = minted[b] /\ tx'[b] = tx[b]
  <2>1. row'[b].state = "Broadcast" /\ row'[b].coin = row[b].coin
    BY Zenon, <1>2, RowFields
  <2>2. cult'[b].at = "Broadcast" /\ cult'[b].mem = "Broadcast" /\ cult'[b].sent = cult[b].sent
    BY Zenon, <1>2, CultFields
  <2>3. minted'[b] = minted[b] /\ tx'[b] = tx[b]
    BY Zenon, <1>2, MintedFields DEF MintedIs, TxIs
  <2> QED
    BY Zenon, <2>1, <2>2, <2>3
<1>3. Local(b)'
  <2>1. InStep(b)' /\ Reports(b)'
    BY Zenon, <1>1, <1>f DEF Local, InStep, Reports, Compensated, Waiting, planter
  <2>2. SlotKnown(b)'
    BY Zenon, <1>1, <1>f DEF Local, InStep, Reports, SlotKnown, Owed, PreBroadcast, planter
  <2>3. Staked(b)'
    BY Zenon, <1>1, <1>f DEF Local, InStep, Staked, Compensated, PreBroadcast
  <2>4. Sprouted(b)' /\ Published(b)'
    BY Zenon, <1>1, <1>f DEF Local, InStep, Sprouted, Published, Compensated, PreBroadcast
  <2> QED
    BY Zenon, <2>1, <2>2, <2>3, <2>4 DEF Local
<1>4. /\ cult[b].at # "off" /\ row'[b].coin = row[b].coin /\ (tx[b].sent => tx'[b].sent)
      /\ faults' = faults \/ faults' = faults + 1
  BY Zenon, <1>1, <1>f
<1>5. row'[b].state \in PreBroadcast => row[b].state \in PreBroadcast /\ Owner(b)'
  BY Zenon, <1>f DEF PreBroadcast
<1> QED
  BY <1>1, <1>2, <1>3, <1>4, <1>5, CultivatorStep, Zenon

LEMMA StepBroadcastInv ==
    ASSUME TypeOK, MintInv, NEW b \in Batches, StepBroadcast(b)
    PROVE  TypeOK' /\ MintInv'
<1>1. /\ cult[b].at = "Broadcast" /\ tx[b].fate # "lost" /\ Local(b)
      /\ UNCHANGED <<row, minted, leased, effect, delivered, planter, block, faults>>
  BY Zenon DEF StepBroadcast, durable, MintInv
<1>2. /\ RowIs(b, row[b])
      /\ MintedIs(b, minted[b])
      /\ CultIs(b, CultOf("await", cult[b].mem, cult[b].block, "broadcast"))
      /\ TxIs(b, TxOf(TRUE, TRUE, tx[b].at, tx[b].fate))
  <2>1. RowIs(b, row[b])
    BY <1>1, RowKept, Zenon
  <2>2. MintedIs(b, minted[b])
    BY <1>1, MintedKept, Zenon
  <2>3. CultIs(b, CultOf("await", cult[b].mem, cult[b].block, "broadcast"))
    BY CultAtSent, Named, Zenon DEF StepBroadcast
  <2>4. TxIs(b, TxOf(TRUE, TRUE, tx[b].at, tx[b].fate))
    BY TxStakedSent, ZenonT(30) DEF StepBroadcast
  <2> QED
    BY <2>1, <2>2, <2>3, <2>4, Zenon
<1>3. Local(b)'
  BY <1>1, <1>2 DEF Local, InStep, Reports, SlotKnown, Staked, Sprouted, Published,
     Compensated, Owed, planter, RowIs, MintedIs, CultIs, TxIs, RowOf, SproutOf, CultOf,
     TxOf, Waiting, PreBroadcast
<1>4. /\ cult[b].at # "off" /\ row'[b].coin = row[b].coin /\ (tx[b].sent => tx'[b].sent)
      /\ faults' = faults \/ faults' = faults + 1
  BY <1>1, <1>2 DEF RowIs, RowOf, TxIs, TxOf
<1>5. row'[b].state \in PreBroadcast => row[b].state \in PreBroadcast /\ Owner(b)'
  BY Zenon, <1>1, <1>2 DEF RowIs, PreBroadcast, Local, InStep, Compensated
<1> QED
  BY <1>1, <1>2, <1>3, <1>4, <1>5, CultivatorStep, Zenon

LEMMA AwaitOutcomeInv ==
    ASSUME TypeOK, MintInv, NEW b \in Batches, AwaitOutcome(b)
    PROVE  TypeOK' /\ MintInv'
<1>1. /\ cult[b].at = "await" /\ Local(b)
      /\ UNCHANGED <<row, minted, leased, effect, delivered, planter, tx, block, faults>>
  BY Zenon DEF AwaitOutcome, durable, MintInv
<1>2. /\ RowIs(b, row[b])
      /\ MintedIs(b, minted[b])
      /\ \/ CultIs(b, CultOf("Confirmed", cult[b].mem, delivered[b].block, cult[b].sent))
         \/ CultIs(b, CultOf("off", "SproutCancelled", cult[b].block, cult[b].sent))
      /\ TxIs(b, tx[b])
  <2>1. RowIs(b, row[b])
    BY <1>1, RowKept, Zenon
  <2>2. MintedIs(b, minted[b])
    BY <1>1, MintedKept, Zenon
  <2>3. \/ CultIs(b, CultOf("Confirmed", cult[b].mem, delivered[b].block, cult[b].sent))
        \/ CultIs(b, CultOf("off", "SproutCancelled", cult[b].block, cult[b].sent))
    <3>1. delivered[b].block \in Nat
      BY Zenon DEF TypeOK
    <3> QED
      BY <3>1, CultAtBlock, EndsMem, Named, Zenon DEF AwaitOutcome
  <2>4. TxIs(b, tx[b])
    BY <1>1, TxKept, ZenonT(30)
  <2> QED
    BY <2>1, <2>2, <2>3, <2>4, Zenon
<1>3. Local(b)'
  BY <1>1, <1>2 DEF Local, InStep, Reports, SlotKnown, Staked, Sprouted, Published,
     Compensated, Owed, planter, Cancelled, RowIs, MintedIs, CultIs, TxIs, RowOf,
     SproutOf, CultOf, TxOf, Waiting, PreBroadcast
<1>4. /\ cult[b].at # "off" /\ row'[b].coin = row[b].coin /\ (tx[b].sent => tx'[b].sent)
      /\ faults' = faults \/ faults' = faults + 1
  BY Zenon, <1>1, <1>2 DEF RowIs, RowOf, TxIs, TxOf
<1>5. row'[b].state \in PreBroadcast => row[b].state \in PreBroadcast /\ Owner(b)'
  BY Zenon, <1>1, <1>2 DEF RowIs, PreBroadcast, Local, InStep, Compensated, Waiting
<1> QED
  BY <1>1, <1>2, <1>3, <1>4, <1>5, CultivatorStep, Zenon

LEMMA StepConfirmedInv ==
    ASSUME TypeOK, MintInv, NEW b \in Batches, StepConfirmed(b)
    PROVE  TypeOK' /\ MintInv'
<1>1. /\ cult[b].at = "Confirmed" /\ Local(b)
      /\ UNCHANGED <<row, minted, leased, effect, delivered, planter, tx, block, faults>>
  BY Zenon DEF StepConfirmed, durable, MintInv
<1>2. /\ RowIs(b, row[b])
      /\ MintedIs(b, minted[b])
      /\ CultIs(b, CultOf("mark", cult[b].mem, cult[b].block, cult[b].sent))
      /\ TxIs(b, tx[b])
  <2>1. RowIs(b, row[b])
    BY <1>1, RowKept, Zenon
  <2>2. MintedIs(b, minted[b])
    BY <1>1, MintedKept, Zenon
  <2>3. CultIs(b, CultOf("mark", cult[b].mem, cult[b].block, cult[b].sent))
    BY CultAt, Named, Zenon DEF StepConfirmed
  <2>4. TxIs(b, tx[b])
    BY <1>1, TxKept, ZenonT(30)
  <2> QED
    BY <2>1, <2>2, <2>3, <2>4, Zenon
<1>3. Local(b)'
  BY <1>1, <1>2 DEF Local, InStep, Reports, SlotKnown, Staked, Sprouted, Published,
     Compensated, Owed, planter, RowIs, MintedIs, CultIs, TxIs, RowOf, SproutOf, CultOf,
     TxOf, Waiting, PreBroadcast
<1>4. /\ cult[b].at # "off" /\ row'[b].coin = row[b].coin /\ (tx[b].sent => tx'[b].sent)
      /\ faults' = faults \/ faults' = faults + 1
  BY Zenon, <1>1, <1>2 DEF RowIs, RowOf, TxIs, TxOf
<1>5. row'[b].state \in PreBroadcast => row[b].state \in PreBroadcast /\ Owner(b)'
  BY Zenon, <1>1, <1>2 DEF RowIs, PreBroadcast, Local, InStep, Compensated, Waiting
<1> QED
  BY <1>1, <1>2, <1>3, <1>4, <1>5, CultivatorStep, Zenon

LEMMA MarkBatchConfirmedInv ==
    ASSUME TypeOK, MintInv, NEW b \in Batches, MarkBatchConfirmed(b)
    PROVE  TypeOK' /\ MintInv'
<1>1. /\ cult[b].at = "mark" /\ minted[b].assets /\ Local(b)
      /\ cult[b].block \in Nat
      /\ UNCHANGED <<leased, effect, delivered, planter, tx, block, faults>>
  BY Zenon DEF MarkBatchConfirmed, MintInv, TypeOK, Cultivators
<1>2. /\ RowIs(b, RowOf("Confirmed", row[b].coin, row[b].seedlings, row[b].sealed))
      /\ MintedIs(b, SproutOf(minted[b].assets, cult[b].block, cult[b].block))
      /\ CultIs(b, CultOf("Finalized", "Confirmed", cult[b].block, cult[b].sent))
      /\ TxIs(b, tx[b])
  <2>1. RowIs(b, RowOf("Confirmed", row[b].coin, row[b].seedlings, row[b].sealed))
    BY RowState, Named, Zenon DEF MarkBatchConfirmed, SetState
  <2>2. MintedIs(b, SproutOf(minted[b].assets, cult[b].block, cult[b].block))
    BY <1>1, MintedConfProof, Zenon DEF MarkBatchConfirmed
  <2>3. CultIs(b, CultOf("Finalized", "Confirmed", cult[b].block, cult[b].sent))
    BY CultAtMem, Named, Zenon DEF MarkBatchConfirmed, Steps
  <2>4. TxIs(b, tx[b])
    BY <1>1, TxKept, Zenon
  <2> QED
    BY <2>1, <2>2, <2>3, <2>4, Zenon
<1>f. /\ row'[b].state = "Confirmed" /\ row'[b].coin = row[b].coin
      /\ cult'[b].at = "Finalized" /\ cult'[b].mem = "Confirmed" /\ cult'[b].sent = cult[b].sent
      /\ minted'[b].assets /\ tx'[b] = tx[b]
  <2>1. row'[b].state = "Confirmed" /\ row'[b].coin = row[b].coin
    BY Zenon, <1>2, RowFields
  <2>2. cult'[b].at = "Finalized" /\ cult'[b].mem = "Confirmed" /\ cult'[b].sent = cult[b].sent
    BY Zenon, <1>2, CultFields
  <2>3. minted'[b].assets /\ tx'[b] = tx[b]
    <3>1. minted'[b].assets = minted[b].assets
      BY Zenon, <1>2, MintedFields
    <3> QED
      BY Zenon, <1>1, <1>2, <3>1 DEF TxIs
  <2> QED
    BY Zenon, <2>1, <2>2, <2>3
<1>3. Local(b)'
  <2>1. InStep(b)' /\ Reports(b)'
    BY Zenon, <1>1, <1>f DEF Local, InStep, Reports, Compensated, Waiting, planter
  <2>2. SlotKnown(b)'
    BY Zenon, <1>1, <1>f DEF Local, InStep, Reports, SlotKnown, Owed, PreBroadcast, planter
  <2>3. Staked(b)'
    BY Zenon, <1>1, <1>f DEF Local, InStep, Staked, Compensated, PreBroadcast
  <2>4. Sprouted(b)' /\ Published(b)'
    BY Zenon, <1>1, <1>f DEF Local, InStep, Sprouted, Published, Compensated, PreBroadcast
  <2> QED
    BY Zenon, <2>1, <2>2, <2>3, <2>4 DEF Local
<1>4. /\ cult[b].at # "off" /\ row'[b].coin = row[b].coin /\ (tx[b].sent => tx'[b].sent)
      /\ faults' = faults \/ faults' = faults + 1
  BY Zenon, <1>1, <1>f
<1>5. row'[b].state \in PreBroadcast => row[b].state \in PreBroadcast /\ Owner(b)'
  BY Zenon, <1>f DEF PreBroadcast
<1> QED
  BY <1>1, <1>2, <1>3, <1>4, <1>5, CultivatorStep, Zenon

LEMMA StepFinalizedInv ==
    ASSUME TypeOK, MintInv, NEW b \in Batches, StepFinalized(b)
    PROVE  TypeOK' /\ MintInv'
<1>1. /\ cult[b].at = "Finalized" /\ Local(b)
      /\ UNCHANGED <<minted, leased, effect, delivered, planter, tx, block, faults>>
  BY Zenon DEF StepFinalized, MintInv
<1>2. /\ RowIs(b, RowOf("Finalized", row[b].coin, row[b].seedlings, row[b].sealed))
      /\ MintedIs(b, minted[b])
      /\ CultIs(b, CultOf("off", "Finalized", cult[b].block, cult[b].sent))
      /\ TxIs(b, tx[b])
  <2>1. RowIs(b, RowOf("Finalized", row[b].coin, row[b].seedlings, row[b].sealed))
    BY RowState, Named, Zenon DEF StepFinalized, SetState
  <2>2. MintedIs(b, minted[b])
    BY <1>1, MintedKept, Zenon
  <2>3. CultIs(b, CultOf("off", "Finalized", cult[b].block, cult[b].sent))
    BY EndsMem, Named, Zenon DEF StepFinalized
  <2>4. TxIs(b, tx[b])
    BY <1>1, TxKept, Zenon
  <2> QED
    BY <2>1, <2>2, <2>3, <2>4, Zenon
<1>f. /\ row'[b].state = "Finalized" /\ row'[b].coin = row[b].coin
      /\ cult'[b].at = "off" /\ cult'[b].mem = "Finalized" /\ cult'[b].sent = cult[b].sent
      /\ minted'[b] = minted[b] /\ tx'[b] = tx[b]
  <2>1. row'[b].state = "Finalized" /\ row'[b].coin = row[b].coin
    BY Zenon, <1>2, RowFields
  <2>2. cult'[b].at = "off" /\ cult'[b].mem = "Finalized" /\ cult'[b].sent = cult[b].sent
    BY Zenon, <1>2, CultFields
  <2>3. minted'[b] = minted[b] /\ tx'[b] = tx[b]
    BY Zenon, <1>2, MintedFields DEF MintedIs, TxIs
  <2> QED
    BY Zenon, <2>1, <2>2, <2>3
<1>3. Local(b)'
  <2>1. InStep(b)' /\ Reports(b)'
    BY Zenon, <1>1, <1>f DEF Local, InStep, Reports, Compensated, Waiting, planter
  <2>2. SlotKnown(b)'
    BY Zenon, <1>1, <1>f DEF Local, InStep, Reports, SlotKnown, Owed, PreBroadcast, planter
  <2>3. Staked(b)'
    BY Zenon, <1>1, <1>f DEF Local, InStep, Staked, Compensated, PreBroadcast
  <2>4. Sprouted(b)' /\ Published(b)'
    BY Zenon, <1>1, <1>f DEF Local, InStep, Sprouted, Published, Compensated, PreBroadcast
  <2> QED
    BY Zenon, <2>1, <2>2, <2>3, <2>4 DEF Local
<1>4. /\ cult[b].at # "off" /\ row'[b].coin = row[b].coin /\ (tx[b].sent => tx'[b].sent)
      /\ faults' = faults \/ faults' = faults + 1
  BY Zenon, <1>1, <1>f
<1>5. row'[b].state \in PreBroadcast => row[b].state \in PreBroadcast /\ Owner(b)'
  BY Zenon, <1>f DEF PreBroadcast
<1> QED
  BY <1>1, <1>2, <1>3, <1>4, <1>5, CultivatorStep, Zenon

\* A failing broadcast may have staked the anchoring and sent the transaction.
StakeOnly(b) ==
    /\ tx'[b].fate = tx[b].fate
    /\ tx[b].sent => tx'[b].sent
    /\ tx'[b] = tx[b] \/ (cult[b].at = "Broadcast" /\ tx'[b].staked)

LEMMA StepFailsInv ==
    ASSUME TypeOK, MintInv, NEW b \in Batches, StepFails(b)
    PROVE  TypeOK' /\ MintInv'
<1>1. /\ cult[b].at \in {"Frozen", "Committed", "Broadcast"} /\ Local(b)
      /\ tx[b].sent \in BOOLEAN /\ (faults' = faults \/ faults' = faults + 1)
      /\ UNCHANGED <<row, minted, leased, effect, delivered, planter, block>>
  BY Zenon DEF StepFails, MintInv, TypeOK, Txns, durable, Fault
<1>2. /\ RowIs(b, row[b])
      /\ MintedIs(b, minted[b])
      /\ CultIs(b, CultOf("off", cult[b].mem, cult[b].block, "error"))
      /\ TxIs(b, tx'[b]) /\ StakeOnly(b)
  <2>1. RowIs(b, row[b])
    BY <1>1, RowKept, Zenon
  <2>2. MintedIs(b, minted[b])
    BY <1>1, MintedKept, Zenon
  <2>3. CultIs(b, CultOf("off", cult[b].mem, cult[b].block, "error"))
    BY EndsSent, Named, Zenon DEF StepFails
  <2>4. TxIs(b, tx'[b]) /\ StakeOnly(b)
    <3>1. CASE tx' = tx
      <4>1. TxIs(b, tx[b])
        BY <3>1, TxKept, Zenon
      <4>2. tx'[b] = tx[b]
        BY Zenon, <4>1 DEF TxIs
      <4>3. TxIs(b, tx'[b])
        BY <4>1, <4>2, Zenon
      <4>4. StakeOnly(b)
        BY Zenon, <4>2 DEF StakeOnly
      <4> QED
        BY Zenon, <4>2, <4>3, <4>4
    <3>2. CASE cult[b].at = "Broadcast" /\ tx' = [tx EXCEPT ![b].staked = TRUE]
      <4>1. TxIs(b, TxOf(TRUE, tx[b].sent, tx[b].at, tx[b].fate))
        BY <3>2, TxStaked, Zenon
      <4> QED
        BY <3>2, <4>1, ZenonT(30) DEF TxIs, TxOf, StakeOnly
    <3>3. ASSUME cult[b].at = "Broadcast", NEW se \in {tx[b].sent, TRUE},
                 tx' = [tx EXCEPT ![b].staked = TRUE, ![b].sent = se]
          PROVE  TxIs(b, tx'[b]) /\ StakeOnly(b)
      <4>1. se \in BOOLEAN /\ (tx[b].sent => se)
        BY <1>1, <3>3, Zenon
      <4>2. TxIs(b, TxOf(TRUE, se, tx[b].at, tx[b].fate))
        BY <3>3, <4>1, TxStakedSent, Zenon
      <4> QED
        BY <3>3, <4>1, <4>2, ZenonT(30) DEF TxIs, TxOf, StakeOnly
    <3> QED
      BY <3>1, <3>2, <3>3, Zenon DEF StepFails
  <2> QED
    BY <2>1, <2>2, <2>3, <2>4, Zenon
<1>f. /\ row' = row /\ minted' = minted
      /\ cult'[b].at = "off" /\ cult'[b].mem = cult[b].mem /\ cult'[b].sent = "error"
  <2>1. cult'[b].at = "off" /\ cult'[b].mem = cult[b].mem /\ cult'[b].sent = "error"
    BY Zenon, <1>2, CultFields
  <2> QED
    BY Zenon, <1>1, <2>1
<1>3. Local(b)'
  <2>1. InStep(b)' /\ Reports(b)'
    BY Zenon, <1>1, <1>2, <1>f DEF Local, InStep, Reports, Compensated, Waiting, planter
  <2>2. SlotKnown(b)'
    BY Zenon, <1>1, <1>2, <1>f DEF Local, InStep, Reports, SlotKnown, Owed, PreBroadcast, planter
  <2>3. Staked(b)'
    BY Zenon, <1>1, <1>2, <1>f DEF Local, InStep, Staked, StakeOnly, Compensated, Waiting
  <2>4. Sprouted(b)' /\ Published(b)'
    BY Zenon, <1>1, <1>2, <1>f DEF Local, InStep, Sprouted, Published, StakeOnly
  <2> QED
    BY Zenon, <2>1, <2>2, <2>3, <2>4 DEF Local
<1>4. /\ cult[b].at # "off" /\ row'[b].coin = row[b].coin /\ (tx[b].sent => tx'[b].sent)
      /\ faults' = faults \/ faults' = faults + 1
  BY Zenon, <1>1, <1>2 DEF RowIs, RowOf, TxIs, TxOf, StakeOnly
<1>5. row'[b].state \in PreBroadcast => row[b].state \in PreBroadcast /\ Owner(b)'
  <2>1. row[b].state \in PreBroadcast => cult[b].at = "Frozen"
    BY Zenon, <1>1 DEF Local, InStep, Compensated, PreBroadcast
  <2>2. cult[b].at = "Frozen" => b \in watched \/ pendingBatch = b
    <3>1. CASE gardener = [job |-> "finalize", batch |-> b]
      <4>1. gardener.job = "finalize" /\ gardener.batch = b
        BY <3>1
      <4> QED
        BY Zenon, <4>1 DEF MintInv, Pending
    <3> QED
      BY Zenon, <1>1, <3>1 DEF Local, SlotKnown, Owed
  <2> QED
    BY Zenon, <1>1, <1>f, <2>1, <2>2 DEF Owner, planter
<1> QED
  BY <1>1, <1>2, <1>3, <1>4, <1>5, CultivatorStep, Zenon

-----------------------------------------------------------------------------
(* The chain, the mint site and the outbox. *)

LEMMA MineInv ==
    ASSUME TypeOK, MintInv, NEW b \in Batches, Mine(b)
    PROVE  TypeOK' /\ MintInv'
<1>1. /\ tx[b].fate = "open" /\ tx[b].fate \in Fates
      /\ block' = block + 1 /\ block + 1 \in Nat
      /\ UNCHANGED <<row, minted, leased, effect, delivered, planter, cult, faults>>
  BY Typed DEF Mine, TypeOK, Txns, durable
<1>2. TxIs(b, TxOf(tx[b].staked, tx[b].sent, block + 1, tx[b].fate))
  BY <1>1, TxAt, Zenon DEF Mine
<1> QED
  BY Zenon, <1>1, <1>2, ChainStep

LEMMA ReorgedOutInv ==
    ASSUME TypeOK, MintInv, NEW b \in Batches, ReorgedOut(b)
    PROVE  TypeOK' /\ MintInv'
<1>1. /\ tx[b].fate = "open" /\ tx[b].fate \in Fates /\ block' \in Nat
      /\ UNCHANGED <<row, minted, leased, effect, delivered, planter, cult, faults>>
  BY Zenon, Typed DEF ReorgedOut, TypeOK, Txns, durable
<1>2. TxIs(b, TxOf(tx[b].staked, tx[b].sent, None, tx[b].fate))
  BY TxAt, Named, Zenon DEF ReorgedOut
<1> QED
  BY Zenon, <1>1, <1>2, ChainStep, Named

LEMMA DecidedInv ==
    ASSUME TypeOK, MintInv, NEW b \in Batches, Bury(b) \/ Conflict(b)
    PROVE  TypeOK' /\ MintInv'
<1>1. /\ tx[b].fate = "open" /\ tx[b].at \in Nat /\ block' \in Nat
      /\ UNCHANGED <<row, minted, leased, effect, delivered, planter, cult, faults>>
  BY Zenon, Typed DEF Bury, Conflict, TypeOK, Txns, durable
<1>2. PICK f \in Fates : TxIs(b, TxOf(tx[b].staked, tx[b].sent, tx[b].at, f))
  BY TxFate, Named, Zenon DEF Bury, Conflict
<1> QED
  BY Zenon, <1>1, <1>2, ChainStep

\* What the site's handlers make of a delivery.
Handled(b) ==
    \/ /\ RowIs(b, row[b]) /\ minted'[b].assets = minted[b].assets
       /\ effect'[b] = effect[b] \/ (effect'[b] = "queued" /\ tx[b].fate = "buried")
    \/ /\ RowIs(b, RowOf("SproutCancelled", row[b].coin, row[b].seedlings, row[b].sealed))
       /\ tx[b].fate = "lost" /\ effect'[b] = effect[b]

LEMMA DeliverIs ==
    ASSUME TypeOK, NEW b \in Batches, Deliver(b)
    PROVE  /\ Handled(b) /\ row' \in [Batches -> Rows] /\ MintedIs(b, minted'[b])
           /\ \A x \in Batches \ {b} : row'[x] = row[x] /\ effect'[x] = effect[x]
           /\ effect' \in [Batches -> {"none", "queued", "published"}]
<1>1. /\ effect' \in [Batches -> {"none", "queued", "published"}]
      /\ \A x \in Batches \ {b} : effect'[x] = effect[x]
      /\ effect'[b] = IF Phase(b) = "buried" THEN "queued" ELSE effect[b]
  BY Zenon DEF Deliver, TypeOK
<1>2. Phase(b) = "buried" <=> tx[b].fate = "buried"
  BY Zenon DEF Phase
<1>3. tx[b].at \in Nat /\ (IF minted[b].proof = None THEN None ELSE tx[b].at) \in Nat
  BY Zenon, Named DEF TypeOK, Txns
<1>4. CASE OnWitnessed(b)
  <2>1. RowIs(b, row[b])
    BY <1>4, RowKept, Zenon DEF OnWitnessed
  <2>2. MintedIs(b, SproutOf(minted[b].assets, tx[b].at,
                             IF minted[b].proof = None THEN None ELSE tx[b].at))
    BY <1>3, <1>4, MintedConfProof, Zenon DEF OnWitnessed
  <2>3. MintedIs(b, minted'[b]) /\ minted'[b].assets = minted[b].assets
    BY <2>2 DEF MintedIs, SproutOf
  <2>4. Handled(b)
    BY ZenonT(30), <1>1, <1>2, <2>1, <2>3 DEF Handled
  <2> QED
    BY Zenon, <1>1, <2>1, <2>3, <2>4 DEF RowIs
<1>5. CASE OnUnwitnessed(b)
  <2>1. RowIs(b, row[b])
    BY <1>5, RowKept, Zenon DEF OnUnwitnessed
  <2>2. MintedIs(b, SproutOf(minted[b].assets, None, minted[b].proof))
    BY <1>5, MintedConf, Named, Zenon DEF OnUnwitnessed
  <2>3. MintedIs(b, minted'[b]) /\ minted'[b].assets = minted[b].assets
    BY <2>2 DEF MintedIs, SproutOf
  <2>4. Handled(b)
    BY ZenonT(30), <1>1, <1>2, <2>1, <2>3 DEF Handled
  <2> QED
    BY ZenonT(30), <1>1, <2>1, <2>3, <2>4 DEF RowIs
<1>6. CASE OnAbandoned(b) /\ Phase(b) = "abandoned"
  <2>1. RowIs(b, RowOf("SproutCancelled", row[b].coin, row[b].seedlings, row[b].sealed))
    BY <1>6, RowState, Named, Zenon DEF OnAbandoned, SetState
  <2>2. SproutOf(FALSE, None, None) \in Sprouts
    BY Zenon, Named DEF SproutOf, Sprouts
  <2>3. MintedIs(b, SproutOf(FALSE, None, None))
    BY <1>6, <2>2, MintedPut, Zenon DEF OnAbandoned, SproutOf
  <2>4. tx[b].fate = "lost"
    BY Zenon, <1>6 DEF Phase
  <2> QED
    BY Zenon, <1>1, <1>2, <1>6, <2>1, <2>3, <2>4 DEF Handled, RowIs, MintedIs
<1>7. OnWitnessed(b) \/ OnUnwitnessed(b) \/ (OnAbandoned(b) /\ Phase(b) = "abandoned")
  <2>1. Phase(b) \in Phases
    BY Zenon DEF Phase, Phases
  <2>2. (CASE Phase(b) \in {"witnessed", "buried"} -> OnWitnessed(b)
           [] Phase(b) = "unwitnessed" -> OnUnwitnessed(b)
           [] OTHER -> OnAbandoned(b))
    BY Zenon DEF Deliver
  <2> QED
    BY Zenon, <2>1, <2>2 DEF Phases
<1> QED
  BY <1>4, <1>5, <1>6, <1>7, Zenon

LEMMA DeliverInv ==
    ASSUME TypeOK, MintInv, NEW b \in Batches, Deliver(b)
    PROVE  TypeOK' /\ MintInv'
<1>1. /\ tx[b].staked /\ Local(b)
      /\ delivered' \in [Batches -> [phase : Phases, block : Nat]]
      /\ UNCHANGED <<leased, planter, tx, cult, block, faults>>
  BY Zenon DEF Deliver, MintInv, TypeOK, Phase, Phases, Txns
<1>2. /\ Handled(b) /\ row' \in [Batches -> Rows]
      /\ MintedIs(b, minted'[b])
      /\ CultIs(b, cult[b])
      /\ TxIs(b, tx[b])
  <2>1. Handled(b) /\ row' \in [Batches -> Rows]
    BY DeliverIs, Zenon
  <2>2. MintedIs(b, minted'[b])
    BY DeliverIs, Zenon
  <2>3. CultIs(b, cult[b])
    BY <1>1, CultKept, Zenon
  <2>4. TxIs(b, tx[b])
    BY <1>1, TxKept, Zenon
  <2> QED
    BY <2>1, <2>2, <2>3, <2>4, Zenon
<1>3. TypeOK'
  BY Zenon, <1>1, <1>2, DeliverIs DEF TypeOK, planter, MintedIs, CultIs, TxIs
<1>4. Others(b)
  BY ZenonT(30), <1>1, <1>2, DeliverIs DEF Others, Same, Owed, planter, MintedIs, CultIs, TxIs
<1>f. /\ row'[b].coin = row[b].coin /\ cult'[b] = cult[b] /\ tx'[b] = tx[b]
      /\ \/ /\ row'[b] = row[b] /\ minted'[b].assets = minted[b].assets
            /\ effect'[b] = effect[b] \/ (effect'[b] = "queued" /\ tx[b].fate = "buried")
         \/ row'[b].state = "SproutCancelled" /\ tx[b].fate = "lost" /\ effect'[b] = effect[b]
      /\ row[b].state \notin PreBroadcast /\ row'[b].state \notin PreBroadcast
  <2>1. cult'[b] = cult[b] /\ tx'[b] = tx[b] /\ row[b].state \notin PreBroadcast
    BY Zenon, <1>1, <1>2 DEF CultIs, TxIs, Local, Staked, Compensated, PreBroadcast
  <2>2. CASE RowIs(b, row[b])
    <3>1. row'[b] = row[b]
      BY Zenon, <2>2 DEF RowIs
    <3>2. CASE RowIs(b, RowOf("SproutCancelled", row[b].coin, row[b].seedlings, row[b].sealed))
      <4>1. row'[b].state = "SproutCancelled"
        BY Zenon, <3>2, RowFields
      <4> QED
        BY Zenon, <1>2, <2>1, <3>1, <4>1 DEF Handled
    <3> QED
      BY Zenon, <1>2, <2>1, <3>1, <3>2 DEF Handled
  <2>3. CASE RowIs(b, RowOf("SproutCancelled", row[b].coin, row[b].seedlings, row[b].sealed))
             /\ tx[b].fate = "lost" /\ effect'[b] = effect[b]
    <3>1. row'[b].state = "SproutCancelled" /\ row'[b].coin = row[b].coin
      BY Zenon, <2>3, RowFields
    <3>2. "SproutCancelled" \notin PreBroadcast
      BY Zenon DEF PreBroadcast
    <3> QED
      BY Zenon, <2>1, <2>3, <3>1, <3>2
  <2> QED
    BY Zenon, <1>2, <2>2, <2>3 DEF Handled
<1>5. Local(b)'
  <2>1. InStep(b)' /\ Reports(b)'
    <3>1. cult[b].at \notin {"Frozen", "Committed"}
      BY Zenon, <1>1 DEF Local, InStep, Staked, Compensated
    <3> QED
      BY ZenonT(30), <1>1, <1>f, <3>1 DEF Local, InStep, Reports, Compensated, planter
  <2>2. SlotKnown(b)'
    BY Zenon, <1>1, <1>f DEF Local, SlotKnown, Owed, PreBroadcast, planter
  <2>3. Staked(b)'
    BY Zenon, <1>1, <1>f DEF Local, Staked, Compensated
  <2>4. Sprouted(b)' /\ Published(b)'
    BY Zenon, <1>1, <1>f DEF Local, Sprouted, Published
  <2> QED
    BY Zenon, <2>1, <2>2, <2>3, <2>4 DEF Local
<1>6. Pending'
  <2>1. pendingBatch = b => gardener # Idle
    BY Zenon, <1>1, Typed DEF MintInv, Pending, Local, Staked, Compensated, PreBroadcast
  <2> QED
    BY Zenon, <1>1, <1>2, <1>4, <2>1, PlanterStep DEF planter
<1>7. CoinsKept'
  <2>1. Keeps(b)' => Keeps(b)
    <3>1. row[b].state \in {"Absent", "SeedlingCancelled"} => FALSE
      BY Zenon, <1>1 DEF Local, Staked, Compensated
    <3> QED
      BY Zenon, <1>f DEF Keeps, Live, Cancelled
  <2> QED
    BY Zenon, <1>1, <1>f, <1>4, <2>1, CoinsStep
<1>8. OneInSlot' /\ Owned'
  BY Zenon, <1>4, <1>f, SlotStep
<1> QED
  BY <1>3, <1>4, <1>5, <1>6, <1>7, <1>8, Assemble, Zenon

LEMMA DispatchMintPublishInv ==
    ASSUME TypeOK, MintInv, NEW b \in Batches, DispatchMintPublish(b)
    PROVE  TypeOK' /\ MintInv'
<1>1. /\ row[b].state \in {"Confirmed", "Finalized"} /\ Local(b)
      /\ effect[b] = "queued" /\ effect' = [effect EXCEPT ![b] = "published"]
      /\ UNCHANGED <<row, minted, leased, delivered, planter, tx, cult, block, faults>>
  BY Zenon DEF DispatchMintPublish, MintInv
<1>2. /\ RowIs(b, row[b])
      /\ MintedIs(b, minted[b])
      /\ CultIs(b, cult[b])
      /\ TxIs(b, tx[b])
  <2>1. RowIs(b, row[b])
    BY <1>1, RowKept, Zenon
  <2>2. MintedIs(b, minted[b])
    BY <1>1, MintedKept, Zenon
  <2>3. CultIs(b, cult[b])
    BY <1>1, CultKept, Zenon
  <2>4. TxIs(b, tx[b])
    BY <1>1, TxKept, Zenon
  <2> QED
    BY <2>1, <2>2, <2>3, <2>4, Zenon
<1>3. TypeOK'
  BY Zenon, <1>1, <1>2 DEF TypeOK, planter, RowIs, MintedIs, CultIs, TxIs
<1>4. Others(b)
  BY ZenonT(30), <1>1, <1>2 DEF Others, Same, Owed, planter, TypeOK, RowIs, MintedIs, CultIs, TxIs
<1>5. Local(b)'
  BY ZenonT(30), <1>1, <1>2 DEF Local, InStep, Reports, SlotKnown, Staked, Sprouted, Published,
     Compensated, Owed, planter, TypeOK, RowIs, MintedIs, CultIs, TxIs, RowOf, SproutOf,
     CultOf, TxOf, Waiting, PreBroadcast
<1>6. Pending'
  BY Zenon, <1>1, <1>2, <1>4, PlanterStep DEF planter, MintInv, Pending
<1>7. CoinsKept'
  BY Zenon, <1>1, <1>2, <1>4, CoinsStep DEF Keeps, Live, RowIs, CultIs, TxIs, TxOf
<1>8. OneInSlot' /\ Owned'
  BY Zenon, <1>1, <1>2, <1>4, SlotStep DEF RowIs, PreBroadcast
<1> QED
  BY <1>3, <1>4, <1>5, <1>6, <1>7, <1>8, Assemble, Zenon

-----------------------------------------------------------------------------
(* The gardener. *)

\* A new batch: it takes the empty slot.
LEMMA Created ==
    ASSUME TypeOK, MintInv, NEW b \in Batches, NEW c, NEW q \in SUBSET Seedlings,
           gardener = Idle, row[b].state = "Absent", InSlot = {},
           pendingBatch = None, pendingBatch' = b, RowIs(b, RowOf("Pending", c, q, {})),
           \/ c = NoCoin /\ leased' = leased
           \/ c \in Fundable /\ leased' = leased \cup {c},
           UNCHANGED <<minted, effect, delivered, cultivators, gardener, watched, dropped, tx,
                       cult, block, faults>>
    PROVE  TypeOK' /\ MintInv'
<1>1. Local(b) /\ b # None
  BY Zenon, Typed DEF MintInv
<1>2. TypeOK'
  BY Zenon DEF TypeOK, RowIs, Fundable
<1>3. Others(b)
  BY Zenon, <1>1, Typed DEF Others, Same, Owed, RowIs
<1>4. cult[b].at = "off" /\ b \notin cultivators /\ b \notin watched /\ ~tx[b].staked
  BY Zenon, <1>1, Typed DEF Local, InStep, SlotKnown, Owed, Staked, Compensated, Cultivators, Places,
     Waiting
<1>f. row'[b].state = "Pending" /\ row'[b].coin = c
  BY Zenon, RowFields
<1>5. Local(b)'
  <2>1. InStep(b)' /\ Reports(b)'
    BY Zenon, <1>1, <1>4 DEF Local, InStep, Reports, Waiting
  <2>2. SlotKnown(b)'
    BY Zenon, <1>1, <1>4, <1>f DEF Local, SlotKnown, Owed
  <2>3. Staked(b)' /\ Sprouted(b)' /\ Published(b)'
    BY Zenon, <1>1, <1>4, <1>f DEF Local, Staked, Sprouted, Published
  <2> QED
    BY Zenon, <2>1, <2>2, <2>3 DEF Local
<1>6. Pending'
  BY Zenon, <1>1, <1>4, <1>f DEF Pending, MintInv, PreBroadcast, Idle
<1>7. CoinsKept'
  BY Zenon, <1>3, <1>f, CoinsNew, CoinsFunded
<1>8. OneInSlot' /\ Owned'
  BY Zenon, <1>3, SlotStep DEF Owner
<1> QED
  BY <1>2, <1>3, <1>5, <1>6, <1>7, <1>8, Assemble, Zenon

\* The pending batch gets a seedling, its funding or its groups.
LEMMA Filled ==
    ASSUME TypeOK, MintInv, NEW b \in Batches, NEW c, NEW q \in SUBSET Seedlings,
           NEW z \in SUBSET Seedlings,
           gardener = Idle, pendingBatch = b, RowIs(b, RowOf(row[b].state, c, q, z)),
           \/ c = row[b].coin /\ leased' = leased
           \/ c \in Fundable /\ leased' = leased \cup {c},
           UNCHANGED <<minted, effect, delivered, planter, tx, cult, block, faults>>
    PROVE  TypeOK' /\ MintInv'
<1>1. Local(b) /\ b # None
  BY Zenon, Typed DEF MintInv
<1>2. TypeOK'
  BY Zenon DEF TypeOK, RowIs, Fundable, planter
<1>3. Others(b)
  BY Zenon DEF Others, Same, Owed, RowIs, planter
<1>4. row[b].state \in PreBroadcast /\ cult[b].at = "off"
  BY Zenon, <1>1 DEF MintInv, Pending
<1>f. row'[b].state = row[b].state /\ row'[b].coin = c
  BY Zenon, RowFields
<1>5. Local(b)'
  <2>1. InStep(b)' /\ Reports(b)'
    BY Zenon, <1>1, <1>f DEF Local, InStep, Reports, Compensated, planter
  <2>2. SlotKnown(b)' /\ Staked(b)'
    BY Zenon, <1>1, <1>f DEF Local, SlotKnown, Staked, Owed, Compensated, planter
  <2>3. Sprouted(b)' /\ Published(b)'
    BY Zenon, <1>1, <1>f DEF Local, Sprouted, Published
  <2> QED
    BY Zenon, <2>1, <2>2, <2>3 DEF Local
<1>6. Pending'
  BY Zenon, <1>3, <1>4, <1>f, PlanterStep DEF planter
<1>7. CoinsKept'
  <2>1. CASE c = row[b].coin /\ leased' = leased
    BY Zenon, <1>3, <1>f, <2>1, CoinsStep DEF Keeps, Live
  <2>2. CASE c \in Fundable /\ leased' = leased \cup {c}
    BY Zenon, <1>3, <1>f, <2>2, CoinsFunded
  <2> QED
    BY Zenon, <2>1, <2>2
<1>8. OneInSlot' /\ Owned'
  BY Zenon, <1>3, <1>4, SlotStep DEF Owner, planter
<1> QED
  BY <1>2, <1>3, <1>5, <1>6, <1>7, <1>8, Assemble, Zenon

\* The gardener starts a cultivator on the pending batch.
LEMMA FinalizeBatchInv ==
    ASSUME TypeOK, MintInv, NEW b \in Batches, pendingBatch = b, FinalizeBatch
    PROVE  TypeOK' /\ MintInv'
<1>1. /\ gardener = Idle /\ pendingBatch = b /\ Local(b)
      /\ row[b].state \in PreBroadcast /\ cult[b].at = "off" /\ b \notin watched
      /\ cultivators' = cultivators \cup {b}
      /\ gardener' = [job |-> "finalize", batch |-> b]
      /\ UNCHANGED <<minted, effect, delivered, pendingBatch, watched, dropped, tx, block, faults>>
  BY Zenon, Typed DEF FinalizeBatch, MintInv, Pending
<1>2. /\ \E c, z : /\ RowIs(b, RowOf("Frozen", c, row[b].seedlings, z))
                   /\ leased' = leased \cup {c}
                   /\ c \in Fundable \/ (c = row[b].coin /\ c # NoCoin)
      /\ MintedIs(b, minted[b])
      /\ CultIs(b, CultOf("Frozen", "Frozen", None, "none"))
      /\ TxIs(b, tx[b])
  <2>1. \E c, z : /\ RowIs(b, RowOf("Frozen", c, row[b].seedlings, z))
                  /\ leased' = leased \cup {c}
                  /\ c \in Fundable \/ (c = row[b].coin /\ c # NoCoin)
    <3>1. PICK c \in IF row[b].coin = NoCoin THEN Fundable ELSE {row[b].coin},
               z \in SealResults(row[b]) :
               /\ row' = [row EXCEPT ![b].state = "Frozen", ![b].coin = c, ![b].sealed = z]
               /\ leased' = leased \cup {c}
      BY Zenon DEF FinalizeBatch
    <3>2. z \in SUBSET Seedlings /\ c \in Coins \cup {NoCoin}
      BY Zenon, Typed, SealedType DEF Rows, Fundable
    <3>3. RowIs(b, RowOf("Frozen", c, row[b].seedlings, z))
      BY <3>1, <3>2, RowStateCoinSealed, Named, Zenon
    <3>4. c \in Fundable \/ (c = row[b].coin /\ c # NoCoin)
      BY Zenon
    <3> QED
      BY Zenon, <3>1, <3>3, <3>4
  <2>2. MintedIs(b, minted[b])
    BY <1>1, MintedKept, Zenon
  <2>3. CultIs(b, CultOf("Frozen", "Frozen", None, "none"))
    <3>1. CultOf("Frozen", "Frozen", None, "none") \in Cultivators
      BY Zenon, Named DEF CultOf, Cultivators
    <3> QED
      BY <3>1, CultPut, Named, ZenonT(30) DEF FinalizeBatch
  <2>4. TxIs(b, tx[b])
    BY <1>1, TxKept, Zenon
  <2> QED
    BY <2>1, <2>2, <2>3, <2>4, Zenon
<1>3. TypeOK'
  <2>1. leased' \subseteq Coins
    BY ZenonT(30), <1>2, Typed DEF TypeOK, Fundable, Rows
  <2> QED
    BY Zenon, <1>1, <1>2, <2>1 DEF TypeOK, Jobs, RowIs, MintedIs, CultIs, TxIs
<1>4. Others(b)
  <2>1. \A x \in Batches \ {b} : row'[x] = row[x]
    BY Zenon, <1>2 DEF RowIs
  <2> QED
    BY Zenon, <1>1, <1>2, <2>1 DEF Others, Same, Owed, Idle, MintedIs, CultIs, TxIs
<1>f. /\ row'[b].state = "Frozen" /\ minted'[b] = minted[b] /\ tx'[b] = tx[b]
      /\ cult'[b].at = "Frozen" /\ cult'[b].mem = "Frozen" /\ cult'[b].sent = "none"
      /\ Owed(b)' /\ b \in cultivators'
  <2>1. row'[b].state = "Frozen"
    <3>1. PICK c, z : RowIs(b, RowOf("Frozen", c, row[b].seedlings, z))
      BY Zenon, <1>2
    <3> QED
      BY Zenon, <3>1, RowFields
  <2>2. cult'[b].at = "Frozen" /\ cult'[b].mem = "Frozen" /\ cult'[b].sent = "none"
    BY Zenon, <1>2, CultFields
  <2>3. minted'[b] = minted[b] /\ tx'[b] = tx[b] /\ Owed(b)' /\ b \in cultivators'
    BY Zenon, <1>1, <1>2 DEF MintedIs, TxIs, Owed
  <2> QED
    BY Zenon, <2>1, <2>2, <2>3
<1>5. Local(b)'
  <2>1. InStep(b)' /\ Reports(b)'
    BY Zenon, <1>f DEF InStep, Reports, Waiting
  <2>2. SlotKnown(b)'
    BY Zenon, <1>f DEF SlotKnown
  <2>3. Staked(b)'
    BY Zenon, <1>1, <1>f DEF Local, Staked, Compensated, PreBroadcast
  <2>4. Sprouted(b)' /\ Published(b)'
    BY Zenon, <1>1, <1>f DEF Local, Sprouted, Published, PreBroadcast
  <2> QED
    BY Zenon, <2>1, <2>2, <2>3, <2>4 DEF Local
<1>6. Pending'
  BY Zenon, <1>1, Typed DEF Pending, Idle
<1>7. CoinsKept'
  <2>1. PICK c, z : /\ RowIs(b, RowOf("Frozen", c, row[b].seedlings, z))
                    /\ leased' = leased \cup {c}
                    /\ c \in Fundable \/ (c = row[b].coin /\ c # NoCoin)
    BY Zenon, <1>2
  <2>2. row'[b].coin = c
    BY <2>1 DEF RowIs, RowOf
  <2>3. CASE c \in Fundable
    BY Zenon, <1>4, <2>1, <2>2, <2>3, CoinsFunded
  <2>4. CASE c = row[b].coin
    BY Zenon, <1>1, <1>2, <1>4, <2>1, <2>2, <2>4, CoinsStep DEF Keeps, Live, TxIs, PreBroadcast, Cancelled
  <2> QED
    BY Zenon, <2>1, <2>3, <2>4
<1>8. OneInSlot' /\ Owned'
  BY ZenonT(30), <1>1, <1>4, SlotStep DEF Owner
<1> QED
  BY <1>3, <1>4, <1>5, <1>6, <1>7, <1>8, Assemble, Zenon

\* CancelBatch of the pending batch.
LEMMA CancelPendingInv ==
    ASSUME TypeOK, MintInv, NEW b \in Batches, pendingBatch = b, CancelPending
    PROVE  TypeOK' /\ MintInv'
<1>1. /\ gardener = Idle /\ pendingBatch = b /\ Local(b) /\ b \notin watched
      /\ row[b].state \in PreBroadcast /\ cult[b].at = "off"
      /\ pendingBatch' = None /\ leased' = leased \ {row[b].coin}
      /\ UNCHANGED <<minted, effect, delivered, cultivators, gardener, watched, dropped, tx, cult, block, faults>>
  BY Zenon, Typed DEF CancelPending, Release, MintInv, Pending
<1>2. /\ RowIs(b, RowOf("SeedlingCancelled", row[b].coin, row[b].seedlings, row[b].sealed))
      /\ MintedIs(b, minted[b])
      /\ CultIs(b, cult[b])
      /\ TxIs(b, tx[b])
  <2>1. RowIs(b, RowOf("SeedlingCancelled", row[b].coin, row[b].seedlings, row[b].sealed))
    BY RowState, Named, Zenon DEF CancelPending, SetState
  <2>2. MintedIs(b, minted[b])
    BY <1>1, MintedKept, Zenon
  <2>3. CultIs(b, cult[b])
    BY <1>1, CultKept, Zenon
  <2>4. TxIs(b, tx[b])
    BY <1>1, TxKept, Zenon
  <2> QED
    BY <2>1, <2>2, <2>3, <2>4, Zenon
<1>3. TypeOK'
  BY Zenon, <1>1, <1>2 DEF TypeOK, planter, RowIs, MintedIs, CultIs, TxIs
<1>f. /\ row'[b].state = "SeedlingCancelled" /\ row'[b].coin = row[b].coin
      /\ cult'[b] = cult[b] /\ minted'[b] = minted[b] /\ tx'[b] = tx[b] /\ ~tx[b].sent
  <2>1. row'[b].state = "SeedlingCancelled" /\ row'[b].coin = row[b].coin
    BY Zenon, <1>2, RowFields
  <2>2. ~tx[b].sent
    BY Zenon, <1>1 DEF Local, Staked, Compensated, PreBroadcast
  <2> QED
    BY Zenon, <1>2, <2>1, <2>2 DEF CultIs, MintedIs, TxIs
<1>4. Others(b)
  <2>1. \A x \in Batches \ {b} : (Owed(x)' <=> Owed(x)) /\ (pendingBatch' = x <=> pendingBatch = x)
    BY Zenon, <1>1, Typed DEF Owed
  <2> QED
    BY Zenon, <1>1, <1>2, <2>1 DEF Others, Same, RowIs, MintedIs, CultIs, TxIs
<1>5. Local(b)'
  <2>1. InStep(b)' /\ Reports(b)'
    BY Zenon, <1>1, <1>f DEF Local, InStep, Reports, Waiting
  <2>2. SlotKnown(b)'
    <3>1. ~Owed(b)'
      BY Zenon, <1>1 DEF Owed, Idle
    <3> QED
      BY Zenon, <1>1, <1>f, <3>1 DEF SlotKnown
  <2>3. Staked(b)'
    BY Zenon, <1>1, <1>f DEF Local, Staked, Compensated, PreBroadcast
  <2>4. Sprouted(b)' /\ Published(b)'
    BY Zenon, <1>1, <1>f DEF Local, Sprouted, Published, PreBroadcast
  <2> QED
    BY Zenon, <2>1, <2>2, <2>3, <2>4 DEF Local
<1>6. Pending'
  BY Zenon, <1>1 DEF Pending, Idle
<1>7. CoinsKept'
  <2>1. Keeps(b) /\ ~Keeps(b)'
    BY Zenon, <1>1, <1>f DEF Keeps, Live, PreBroadcast, Cancelled
  <2> QED
    BY Zenon, <1>1, <1>f, <1>4, <2>1, CoinsReleased
<1>8. OneInSlot' /\ Owned'
  <2>1. row'[b].state \notin PreBroadcast
    BY Zenon, <1>f DEF PreBroadcast
  <2> QED
    BY Zenon, <1>4, <2>1, SlotStep
<1> QED
  BY <1>3, <1>4, <1>5, <1>6, <1>7, <1>8, Assemble, Zenon

\* The gardener asks a cultivator to cancel, or gives up on one that has ended:
\* neither concerns a batch that somebody waits for.
LEMMA AskStep ==
    ASSUME TypeOK, MintInv, NEW b \in Batches, pendingBatch = None, gardener' \in Jobs,
           gardener.job # "finalize", gardener'.job # "finalize",
           gardener'.job = "none" => gardener' = Idle,
           cultivators' = cultivators \/ (cultivators' = cultivators \ {b} /\ cult[b].at = "off"),
           UNCHANGED <<row, minted, leased, effect, delivered, pendingBatch, watched, dropped,
                       tx, cult, block, faults>>
    PROVE  TypeOK' /\ MintInv'
<1>1. TypeOK'
  BY Zenon DEF TypeOK
<1>2. \A x \in Batches : Owed(x)' <=> Owed(x)
  BY DEF Owed
<1>3. Others(b)
  BY Zenon, <1>2 DEF Others, Same
<1>4. Local(b) /\ Local(b)'
  <2>1. Local(b)
    BY Zenon DEF MintInv
  <2>2. InStep(b)' /\ Reports(b)'
    BY Zenon, <2>1 DEF Local, InStep, Reports, Compensated
  <2>3. SlotKnown(b)' /\ Staked(b)'
    BY Zenon, <1>2, <2>1 DEF Local, SlotKnown, Staked, Compensated
  <2>4. Sprouted(b)' /\ Published(b)'
    BY Zenon, <2>1 DEF Local, Sprouted, Published
  <2> QED
    BY Zenon, <2>1, <2>2, <2>3, <2>4 DEF Local
<1>5. Pending'
  BY Zenon DEF Pending
<1>6. CoinsKept'
  BY Zenon, <1>3, CoinsStep DEF Keeps, Live
<1>7. OneInSlot' /\ Owned'
  BY Zenon DEF MintInv, OneInSlot, Owned, Owner, InSlot
<1> QED
  BY <1>1, <1>3, <1>4, <1>5, <1>6, <1>7, Assemble, Zenon

\* CancelBatch of the batch under way: the gardener asks its cultivator.
LEMMA CancelBatchInv ==
    ASSUME TypeOK, MintInv, NEW b \in Batches, CancelBatch(b)
    PROVE  TypeOK' /\ MintInv'
BY Zenon, AskStep DEF CancelBatch, durable, Idle, Jobs

LEMMA CancelTooLateInv ==
    ASSUME TypeOK, MintInv, NEW b \in Batches, CancelTooLate(b)
    PROVE  TypeOK' /\ MintInv'
<1>1. pendingBatch = None
  BY ZenonT(30) DEF CancelTooLate, MintInv, Pending
<1> QED
  BY Zenon, <1>1, AskStep DEF CancelTooLate, durable, Idle, Jobs

LEMMA CompletedInv ==
    ASSUME TypeOK, MintInv, NEW b \in Batches, Completed(b)
    PROVE  TypeOK' /\ MintInv'
<1>1. /\ gardener = Idle /\ cult[b].at = "off" /\ b \notin watched /\ Local(b)
      /\ cultivators' = cultivators \ {b}
      /\ UNCHANGED <<row, minted, leased, effect, delivered, pendingBatch, gardener, watched, dropped, tx, block, faults>>
  BY Zenon DEF Completed, durable, MintInv
<1>2. /\ RowIs(b, row[b])
      /\ MintedIs(b, minted[b])
      /\ CultIs(b, CultOf("off", "Absent", None, "none"))
      /\ TxIs(b, tx[b])
  <2>1. RowIs(b, row[b])
    BY <1>1, RowKept, Zenon
  <2>2. MintedIs(b, minted[b])
    BY <1>1, MintedKept, Zenon
  <2>3. CultIs(b, CultOf("off", "Absent", None, "none"))
    <3>1. CultOf("off", "Absent", None, "none") \in Cultivators
      BY Zenon, Named DEF CultOf, Cultivators
    <3> QED
      BY <3>1, CultPut, Named, Zenon DEF Completed
  <2>4. TxIs(b, tx[b])
    BY <1>1, TxKept, Zenon
  <2> QED
    BY <2>1, <2>2, <2>3, <2>4, Zenon
<1>3. TypeOK'
  BY Zenon, <1>1, <1>2 DEF TypeOK, planter, RowIs, MintedIs, CultIs, TxIs
<1>4. Others(b)
  BY Zenon, <1>1, <1>2 DEF Others, Same, Owed, planter, Idle, RowIs, MintedIs, CultIs, TxIs
<1>f. cult'[b].at = "off" /\ cult'[b].sent = "none" /\ ~Owed(b)'
  <2>1. cult'[b].at = "off" /\ cult'[b].sent = "none"
    BY Zenon, <1>2, CultFields
  <2> QED
    BY Zenon, <1>1, <2>1 DEF Owed, Idle
<1>5. Local(b)'
  <2>1. InStep(b)' /\ Reports(b)'
    BY Zenon, <1>f DEF InStep, Reports, Waiting
  <2>2. SlotKnown(b)'
    BY Zenon, <1>1, <1>f DEF Local, SlotKnown
  <2>3. Staked(b)' /\ Sprouted(b)' /\ Published(b)'
    BY Zenon, <1>1 DEF Local, Staked, Sprouted, Published, Compensated
  <2> QED
    BY Zenon, <2>1, <2>2, <2>3 DEF Local
<1>6. Pending'
  BY Zenon, <1>1, <1>f, <1>4, PlanterStep DEF MintInv, Pending
<1>7. CoinsKept'
  BY Zenon, <1>1, <1>f, <1>4, CoinsStep DEF Keeps, Live
<1>8. OneInSlot' /\ Owned'
  BY ZenonT(30), <1>1, <1>2, <1>4, SlotStep DEF RowIs, Owner, MintInv, Owned, InSlot
<1> QED
  BY <1>3, <1>4, <1>5, <1>6, <1>7, <1>8, Assemble, Zenon

LEMMA FinalizeDoneInv ==
    ASSUME TypeOK, MintInv, NEW b \in Batches, FinalizeDone(b)
    PROVE  TypeOK' /\ MintInv'
<1>1. /\ gardener = [job |-> "finalize", batch |-> b] /\ cult[b].sent = "broadcast"
      /\ pendingBatch = b /\ b \notin watched /\ Local(b)
      /\ pendingBatch' = None /\ gardener' = Idle
      /\ UNCHANGED <<row, minted, leased, effect, delivered, cultivators, watched, dropped, tx, block, faults>>
  BY Zenon, Typed DEF FinalizeDone, durable, MintInv, Pending
<1>2. /\ RowIs(b, row[b])
      /\ MintedIs(b, minted[b])
      /\ CultIs(b, CultOf(cult[b].at, cult[b].mem, cult[b].block, "none"))
      /\ TxIs(b, tx[b])
  <2>1. RowIs(b, row[b])
    BY <1>1, RowKept, Zenon
  <2>2. MintedIs(b, minted[b])
    BY <1>1, MintedKept, Zenon
  <2>3. CultIs(b, CultOf(cult[b].at, cult[b].mem, cult[b].block, "none"))
    BY CultSent, Named, Zenon DEF FinalizeDone
  <2>4. TxIs(b, tx[b])
    BY <1>1, TxKept, Zenon
  <2> QED
    BY <2>1, <2>2, <2>3, <2>4, Zenon
<1>3. TypeOK'
  BY ZenonT(30), <1>1, <1>2 DEF TypeOK, planter, Jobs, Idle, RowIs, MintedIs, CultIs, TxIs
<1>f. /\ cult'[b].at = cult[b].at /\ cult'[b].mem = cult[b].mem /\ cult'[b].sent = "none"
      /\ ~Owed(b)'
  <2>1. cult'[b].at = cult[b].at /\ cult'[b].mem = cult[b].mem /\ cult'[b].sent = "none"
    BY Zenon, <1>2, CultFields
  <2> QED
    BY Zenon, <1>1, <2>1 DEF Owed, Idle
<1>4. Others(b)
  <2>1. \A x \in Batches \ {b} : (Owed(x)' <=> Owed(x)) /\ (pendingBatch' = x <=> pendingBatch = x)
    BY Zenon, <1>1, Typed DEF Owed, Idle
  <2> QED
    BY Zenon, <1>1, <1>2, <2>1 DEF Others, Same, RowIs, MintedIs, CultIs, TxIs
<1>5. Local(b)'
  <2>1. InStep(b)' /\ Reports(b)'
    BY Zenon, <1>1, <1>f DEF Local, InStep, Reports, Compensated
  <2>2. SlotKnown(b)'
    BY Zenon, <1>1, <1>f DEF Local, SlotKnown, Reports
  <2>3. Staked(b)' /\ Sprouted(b)' /\ Published(b)'
    BY Zenon, <1>1 DEF Local, Staked, Sprouted, Published, Compensated
  <2> QED
    BY Zenon, <2>1, <2>2, <2>3 DEF Local
<1>6. Pending'
  BY Zenon, <1>1 DEF Pending, Idle
<1>7. CoinsKept'
  <2>1. Keeps(b)' => Keeps(b)
    BY Zenon, <1>1, <1>f DEF Keeps, Live
  <2> QED
    BY Zenon, <1>1, <1>2, <1>4, <2>1, CoinsStep DEF RowIs
<1>8. OneInSlot' /\ Owned'
  BY Zenon, <1>1, <1>2, <1>4, SlotStep DEF RowIs, Local, Reports, Staked, Compensated,
     PreBroadcast
<1> QED
  BY <1>3, <1>4, <1>5, <1>6, <1>7, <1>8, Assemble, Zenon

\* cancelFailedBatch
LEMMA CancelFailedIs ==
    ASSUME TypeOK, NEW b \in Batches, CancelFailedBatch(b)
    PROVE  \/ /\ cult[b].mem \in PreBroadcast /\ leased' = leased \ {row[b].coin}
              /\ RowIs(b, RowOf("SeedlingCancelled", row[b].coin, row[b].seedlings,
                                row[b].sealed))
           \/ /\ cult[b].mem \notin PreBroadcast /\ leased' = leased
              /\ RowIs(b, row[b])
<1>1. CASE cult[b].mem \in PreBroadcast
  <2>1. SetState(b, "SeedlingCancelled") /\ Release(b)
    BY Zenon, <1>1 DEF CancelFailedBatch
  <2>2. RowIs(b, RowOf("SeedlingCancelled", row[b].coin, row[b].seedlings, row[b].sealed))
    BY <2>1, RowState, Named, Zenon DEF SetState
  <2> QED
    BY Zenon, <1>1, <2>1, <2>2 DEF Release
<1>2. CASE cult[b].mem \notin PreBroadcast
  BY <1>2, RowKept, Zenon DEF CancelFailedBatch
<1> QED
  BY Zenon, <1>1, <1>2

\* A batch in the slot lets go of its coin when it is cancelled.
LEMMA LetsGo ==
    ASSUME MintInv, NEW b \in Batches, Others(b), row[b].state \in PreBroadcast \cup {"Committed"},
           row'[b].state \in Cancelled, row'[b].coin = row[b].coin,
           cult'[b].at = "off", tx' = tx, leased' = leased \ {row[b].coin}
    PROVE  CoinsKept'
<1>1. Staked(b)
  BY Zenon DEF MintInv, Local
<1>2. ~tx[b].sent
  BY Zenon, <1>1 DEF Staked, Compensated, PreBroadcast
<1>3. Keeps(b) /\ ~Keeps(b)'
  BY ZenonT(30), <1>2 DEF Keeps, Live, PreBroadcast, Cancelled
<1> QED
  BY Zenon, <1>3, CoinsReleased

LEMMA FinalizeErrorInv ==
    ASSUME TypeOK, MintInv, NEW b \in Batches, FinalizeError(b)
    PROVE  TypeOK' /\ MintInv'
<1>1. /\ gardener = [job |-> "finalize", batch |-> b] /\ cult[b].sent = "error"
      /\ pendingBatch = b /\ b \notin watched /\ Local(b) /\ cult[b].at = "off"
      /\ cultivators' = cultivators \ {b} /\ gardener' = Idle
      /\ faults' \in Nat
      /\ cult[b].mem \in PreBroadcast <=> row[b].state \in PreBroadcast
      /\ UNCHANGED <<minted, effect, delivered, watched, dropped, tx, block>>
  BY Typed DEF FinalizeError, MintInv, Pending, Local, Reports, SlotKnown, Owed, Fault,
     TypeOK
<1>2. /\ \/ /\ cult[b].mem \in PreBroadcast /\ leased' = leased \ {row[b].coin}
            /\ RowIs(b, RowOf("SeedlingCancelled", row[b].coin, row[b].seedlings,
                              row[b].sealed))
            /\ pendingBatch' = None
         \/ /\ cult[b].mem \notin PreBroadcast /\ leased' = leased
            /\ RowIs(b, row[b]) /\ pendingBatch' = None
         \/ /\ cult[b].mem \in PreBroadcast /\ leased' = leased
            /\ RowIs(b, row[b]) /\ pendingBatch' = b
      /\ MintedIs(b, minted[b])
      /\ CultIs(b, CultOf("off", "Absent", None, "none"))
      /\ TxIs(b, tx[b])
  <2>1. \/ /\ cult[b].mem \in PreBroadcast /\ leased' = leased \ {row[b].coin}
           /\ RowIs(b, RowOf("SeedlingCancelled", row[b].coin, row[b].seedlings,
                             row[b].sealed))
           /\ pendingBatch' = None
        \/ /\ cult[b].mem \notin PreBroadcast /\ leased' = leased
           /\ RowIs(b, row[b]) /\ pendingBatch' = None
        \/ /\ cult[b].mem \in PreBroadcast /\ leased' = leased
           /\ RowIs(b, row[b]) /\ pendingBatch' = b
    <3>1. CASE CancelFailedBatch(b) /\ pendingBatch' = None
      BY Zenon, <3>1, CancelFailedIs
    <3>2. CASE cult[b].mem \in PreBroadcast /\ UNCHANGED <<row, leased, pendingBatch>>
      BY Zenon, <1>1, <3>2, RowKept
    <3> QED
      BY <3>1, <3>2, Zenon DEF FinalizeError
  <2>2. MintedIs(b, minted[b])
    BY <1>1, MintedKept, Zenon
  <2>3. CultIs(b, CultOf("off", "Absent", None, "none"))
    <3>1. CultOf("off", "Absent", None, "none") \in Cultivators
      BY ZenonT(30), Named DEF CultOf, Cultivators
    <3> QED
      BY <3>1, CultPut, Named, Zenon DEF FinalizeError
  <2>4. TxIs(b, tx[b])
    BY <1>1, TxKept, Zenon
  <2> QED
    BY <2>1, <2>2, <2>3, <2>4, Zenon
<1>3. TypeOK'
  BY ZenonT(30), <1>1, <1>2 DEF TypeOK, planter, Jobs, Idle, RowIs, MintedIs, CultIs, TxIs
<1>o. ~Owed(b)'
  BY Zenon, <1>1 DEF Owed, Idle
<1>f. /\ cult'[b].at = "off" /\ cult'[b].sent = "none"
      /\ tx'[b] = tx[b] /\ minted'[b] = minted[b] /\ row'[b].coin = row[b].coin
      /\ \/ /\ row[b].state \in PreBroadcast /\ row'[b].state = "SeedlingCancelled"
            /\ leased' = leased \ {row[b].coin}
         \/ row'[b] = row[b] /\ leased' = leased
      /\ row'[b].state \in PreBroadcast => row'[b] = row[b] /\ pendingBatch' = b
      /\ pendingBatch' = b => row'[b].state \in PreBroadcast
      /\ pendingBatch' = None \/ pendingBatch' = b
  <2>1. /\ cult'[b].at = "off" /\ cult'[b].sent = "none"
        /\ tx'[b] = tx[b] /\ minted'[b] = minted[b]
    <3>1. CultIs(b, CultOf("off", "Absent", None, "none"))
      BY Zenon, <1>2
    <3>2. cult'[b].at = "off" /\ cult'[b].sent = "none"
      BY Zenon, <3>1, CultFields
    <3> QED
      BY Zenon, <1>2, <3>2 DEF MintedIs, TxIs
  <2>2. CASE /\ cult[b].mem \in PreBroadcast /\ leased' = leased \ {row[b].coin}
             /\ RowIs(b, RowOf("SeedlingCancelled", row[b].coin, row[b].seedlings,
                               row[b].sealed))
             /\ pendingBatch' = None
    <3>1. row'[b].state = "SeedlingCancelled" /\ row'[b].coin = row[b].coin
      BY Zenon, <2>2, RowFields
    <3>2. "SeedlingCancelled" \notin PreBroadcast /\ b # None
      BY Zenon, Typed DEF PreBroadcast
    <3> QED
      BY Zenon, <1>1, <2>1, <2>2, <3>1, <3>2
  <2>3. CASE /\ cult[b].mem \notin PreBroadcast /\ leased' = leased
             /\ RowIs(b, row[b]) /\ pendingBatch' = None
    BY Zenon, <1>1, <2>1, <2>3, Typed DEF RowIs
  <2>4. CASE /\ cult[b].mem \in PreBroadcast /\ leased' = leased
             /\ RowIs(b, row[b]) /\ pendingBatch' = b
    BY Zenon, <1>1, <2>1, <2>4, Typed DEF RowIs
  <2> QED
    BY Zenon, <1>2, <2>2, <2>3, <2>4
<1>4. Others(b)
  <2>1. \A x \in Batches \ {b} : (Owed(x)' <=> Owed(x)) /\ (pendingBatch' = x <=> pendingBatch = x)
    BY Zenon, <1>1, <1>f, Typed DEF Owed, Idle
  <2> QED
    BY Zenon, <1>1, <1>2, <2>1 DEF Others, Same, RowIs, MintedIs, CultIs, TxIs
<1>5. Local(b)'
  <2>1. InStep(b)' /\ Reports(b)'
    BY Zenon, <1>f DEF InStep, Reports, Waiting
  <2>2. SlotKnown(b)'
    BY Zenon, <1>1, <1>o, <1>f DEF Local, SlotKnown
  <2>3. Staked(b)'
    BY Zenon, <1>1, <1>f DEF Local, Staked, Compensated, PreBroadcast
  <2>4. Sprouted(b)' /\ Published(b)'
    BY Zenon, <1>1, <1>f DEF Local, Sprouted, Published, PreBroadcast
  <2> QED
    BY Zenon, <2>1, <2>2, <2>3, <2>4 DEF Local
<1>6. Pending'
  BY Zenon, <1>1, <1>f DEF Pending, Idle
<1>7. CoinsKept'
  <2>1. CASE row'[b] = row[b] /\ leased' = leased
    BY Zenon, <1>f, <1>4, <2>1, CoinsStep DEF Keeps, Live
  <2>2. CASE /\ row[b].state \in PreBroadcast /\ row'[b].state = "SeedlingCancelled"
             /\ leased' = leased \ {row[b].coin}
    BY Zenon, <1>1, <1>f, <1>4, <2>2, LetsGo DEF Cancelled
  <2> QED
    BY Zenon, <1>f, <2>1, <2>2
<1>8. OneInSlot' /\ Owned'
  BY ZenonT(30), <1>f, <1>4, SlotStep DEF Owner
<1> QED
  BY <1>3, <1>4, <1>5, <1>6, <1>7, <1>8, Assemble, Zenon

LEMMA WatchResumedInv ==
    ASSUME TypeOK, MintInv, NEW b \in Batches, WatchResumed(b)
    PROVE  TypeOK' /\ MintInv'
<1>1. /\ b \in watched /\ cult[b].sent # "none" /\ Local(b) /\ pendingBatch # b
      /\ watched' = watched \ {b} /\ gardener # [job |-> "finalize", batch |-> b]
      /\ faults' \in Nat /\ dropped \subseteq dropped' /\ dropped' \subseteq Batches
      /\ cult[b].mem \in PreBroadcast <=> row[b].state \in PreBroadcast
      /\ cult[b].sent = "error" => cult[b].at = "off"
      /\ UNCHANGED <<minted, effect, delivered, pendingBatch, cultivators, gardener, tx, block>>
  BY Typed DEF WatchResumed, MintInv, Pending, Local, Reports, SlotKnown, Owed, Fault,
     TypeOK
<1>2. /\ \/ /\ cult[b].sent = "error" /\ cult[b].mem \in PreBroadcast
            /\ leased' = leased \ {row[b].coin}
            /\ RowIs(b, RowOf("SeedlingCancelled", row[b].coin, row[b].seedlings,
                              row[b].sealed))
         \/ /\ row[b].state \in PreBroadcast => b \in dropped'
            /\ leased' = leased /\ RowIs(b, row[b])
      /\ MintedIs(b, minted[b])
      /\ CultIs(b, CultOf(cult[b].at, cult[b].mem, cult[b].block, "none"))
      /\ TxIs(b, tx[b])
  <2>1. \/ /\ cult[b].sent = "error" /\ cult[b].mem \in PreBroadcast
           /\ leased' = leased \ {row[b].coin}
           /\ RowIs(b, RowOf("SeedlingCancelled", row[b].coin, row[b].seedlings,
                             row[b].sealed))
        \/ /\ row[b].state \in PreBroadcast => b \in dropped'
           /\ leased' = leased /\ RowIs(b, row[b])
    <3>1. CASE cult[b].sent = "broadcast" /\ UNCHANGED <<row, leased>>
      <4>1. row[b].state \notin PreBroadcast
        BY Zenon, <1>1, <3>1 DEF Local, Reports, Staked, Compensated, PreBroadcast
      <4> QED
        BY Zenon, <3>1, <4>1, RowKept
    <3>2. CASE cult[b].sent = "error" /\ CancelFailedBatch(b)
      BY Zenon, <1>1, <3>2, CancelFailedIs
    <3>3. CASE b \in dropped' /\ UNCHANGED <<row, leased>>
      BY Zenon, <3>3, RowKept
    <3>4. b \in dropped \cup {b}
      BY Zenon
    <3> QED
      BY <3>1, <3>2, <3>3, <3>4, Zenon DEF WatchResumed
  <2>2. MintedIs(b, minted[b])
    BY <1>1, MintedKept, Zenon
  <2>3. CultIs(b, CultOf(cult[b].at, cult[b].mem, cult[b].block, "none"))
    BY CultSent, Named, Zenon DEF WatchResumed
  <2>4. TxIs(b, tx[b])
    BY <1>1, TxKept, Zenon
  <2> QED
    BY <2>1, <2>2, <2>3, <2>4, Zenon
<1>3. TypeOK'
  BY ZenonT(30), <1>1, <1>2 DEF TypeOK, planter, RowIs, MintedIs, CultIs, TxIs
<1>4. Others(b)
  BY Zenon, <1>1, <1>2 DEF Others, Same, Owed, planter, RowIs, MintedIs, CultIs, TxIs
<1>o. ~Owed(b)'
  BY Zenon, <1>1 DEF Owed
<1>f. /\ cult'[b].at = cult[b].at /\ cult'[b].mem = cult[b].mem /\ cult'[b].sent = "none"
      /\ tx'[b] = tx[b] /\ minted'[b] = minted[b] /\ row'[b].coin = row[b].coin
      /\ \/ /\ row[b].state \in PreBroadcast /\ row'[b].state = "SeedlingCancelled"
            /\ leased' = leased \ {row[b].coin} /\ cult[b].at = "off"
         \/ row'[b] = row[b] /\ leased' = leased
      /\ row'[b].state \in PreBroadcast => row[b].state \in PreBroadcast /\ b \in dropped'
  <2>1. /\ cult'[b].at = cult[b].at /\ cult'[b].mem = cult[b].mem /\ cult'[b].sent = "none"
        /\ tx'[b] = tx[b] /\ minted'[b] = minted[b]
    <3>1. CultIs(b, CultOf(cult[b].at, cult[b].mem, cult[b].block, "none"))
      BY Zenon, <1>2
    <3>2. cult'[b].at = cult[b].at /\ cult'[b].mem = cult[b].mem /\ cult'[b].sent = "none"
      BY Zenon, <3>1, CultFields
    <3> QED
      BY Zenon, <1>2, <3>2 DEF MintedIs, TxIs
  <2>2. CASE /\ cult[b].sent = "error" /\ cult[b].mem \in PreBroadcast
             /\ leased' = leased \ {row[b].coin}
             /\ RowIs(b, RowOf("SeedlingCancelled", row[b].coin, row[b].seedlings,
                               row[b].sealed))
    <3>1. row'[b].state = "SeedlingCancelled" /\ row'[b].coin = row[b].coin
      BY Zenon, <2>2, RowFields
    <3>2. "SeedlingCancelled" \notin PreBroadcast
      BY Zenon DEF PreBroadcast
    <3> QED
      BY Zenon, <1>1, <2>1, <2>2, <3>1, <3>2
  <2>3. CASE /\ row[b].state \in PreBroadcast => b \in dropped'
             /\ leased' = leased /\ RowIs(b, row[b])
    BY Zenon, <2>1, <2>3 DEF RowIs
  <2> QED
    BY Zenon, <1>2, <2>2, <2>3
<1>5. Local(b)'
  <2>1. InStep(b)' /\ Reports(b)'
    BY Zenon, <1>1, <1>f DEF Local, InStep, Reports, Compensated, Waiting
  <2>2. SlotKnown(b)'
    BY Zenon, <1>1, <1>o, <1>f DEF Local, SlotKnown, Reports
  <2>3. Staked(b)'
    BY Zenon, <1>1, <1>f DEF Local, Staked, Compensated, PreBroadcast
  <2>4. Sprouted(b)' /\ Published(b)'
    BY Zenon, <1>1, <1>f DEF Local, Sprouted, Published, PreBroadcast
  <2> QED
    BY Zenon, <2>1, <2>2, <2>3, <2>4 DEF Local
<1>6. Pending'
  BY Zenon, <1>1, <1>2, <1>4, PlanterStep
<1>7. CoinsKept'
  <2>1. CASE row'[b] = row[b] /\ leased' = leased
    BY Zenon, <1>f, <1>4, <2>1, CoinsStep DEF Keeps, Live
  <2>2. CASE /\ row[b].state \in PreBroadcast /\ row'[b].state = "SeedlingCancelled"
             /\ leased' = leased \ {row[b].coin} /\ cult[b].at = "off"
    BY Zenon, <1>1, <1>f, <1>4, <2>2, LetsGo DEF Cancelled
  <2> QED
    BY Zenon, <1>f, <2>1, <2>2
<1>8. OneInSlot' /\ Owned'
  BY ZenonT(30), <1>f, <1>4, SlotStep DEF Owner
<1> QED
  BY <1>3, <1>4, <1>5, <1>6, <1>7, <1>8, Assemble, Zenon

LEMMA CancelInv ==
    ASSUME TypeOK, MintInv, NEW b \in Batches, Cancel(b)
    PROVE  TypeOK' /\ MintInv'
<1>1. /\ gardener = [job |-> "cancel", batch |-> b] /\ cult[b].at # "off" /\ Local(b)
      /\ gardener' = Idle /\ pendingBatch = None
      /\ faults' \in Nat
      /\ UNCHANGED <<minted, effect, delivered, pendingBatch, watched, dropped, tx, block>>
  BY Typed DEF Cancel, Cancellable, MintInv, Pending, Fault, TypeOK
<1>2. /\ \/ /\ row[b].state \in PreBroadcast \cup {"Committed"}
            /\ leased' = leased \ {row[b].coin} /\ cultivators' = cultivators \ {b}
            /\ \E to \in Cancelled :
                  /\ RowIs(b, RowOf(to, row[b].coin, row[b].seedlings, row[b].sealed))
                  /\ CultIs(b, CultOf("off", to, cult[b].block, "error"))
         \/ /\ leased' = leased /\ cultivators' = cultivators \ {b}
            /\ RowIs(b, row[b]) /\ CultIs(b, CultOf("off", cult[b].mem, cult[b].block, "error"))
         \/ /\ leased' = leased /\ cultivators' = cultivators
            /\ RowIs(b, row[b]) /\ CultIs(b, cult[b])
      /\ MintedIs(b, minted[b])
      /\ cult' \in [Batches -> Cultivators] /\ (\A x \in Batches \ {b} : cult'[x] = cult[x])
      /\ TxIs(b, tx[b])
  <2>1. \/ /\ row[b].state \in PreBroadcast \cup {"Committed"}
           /\ leased' = leased \ {row[b].coin} /\ cultivators' = cultivators \ {b}
           /\ \E to \in Cancelled :
                 /\ RowIs(b, RowOf(to, row[b].coin, row[b].seedlings, row[b].sealed))
                 /\ CultIs(b, CultOf("off", to, cult[b].block, "error"))
        \/ /\ leased' = leased /\ cultivators' = cultivators \ {b}
           /\ RowIs(b, row[b]) /\ CultIs(b, CultOf("off", cult[b].mem, cult[b].block, "error"))
        \/ /\ leased' = leased /\ cultivators' = cultivators
           /\ RowIs(b, row[b]) /\ CultIs(b, cult[b])
    <3> DEFINE to == IF cult[b].mem = "Committed" THEN "SproutCancelled"
                     ELSE "SeedlingCancelled"
    <3>1. CASE /\ cult[b].mem \in PreBroadcast \cup {"Committed"}
               /\ SetState(b, to) /\ Release(b)
               /\ Ends(b, [cult[b] EXCEPT !.mem = to, !.sent = "error"])
               /\ cultivators' = cultivators \ {b}
      <4>1. row[b].state \in PreBroadcast \cup {"Committed"}
        BY Zenon, <1>1, <3>1, Typed DEF Local, InStep, Cultivators, Places, Waiting, PreBroadcast
      <4>2. to \in Cancelled /\ to \in States
        BY Zenon DEF Cancelled, States
      <4> HIDE DEF to
      <4>3. RowIs(b, RowOf(to, row[b].coin, row[b].seedlings, row[b].sealed))
        BY <3>1, <4>2, RowState, Zenon DEF SetState
      <4>4. CultIs(b, CultOf("off", to, cult[b].block, "error"))
        BY <3>1, <4>2, EndsMemSent, Named, Zenon
      <4> QED
        BY Zenon, <3>1, <4>1, <4>2, <4>3, <4>4 DEF Release
    <3>2. CASE /\ Ends(b, [cult[b] EXCEPT !.sent = "error"])
               /\ UNCHANGED <<row, leased>> /\ cultivators' = cultivators \ {b}
      <4>1. CultIs(b, CultOf("off", cult[b].mem, cult[b].block, "error"))
        BY <3>2, EndsSent, Named, Zenon
      <4> QED
        BY Zenon, <3>2, <4>1, RowKept
    <3>3. CASE UNCHANGED <<row, leased, cultivators, cult>>
      BY Zenon, <3>3, RowKept, CultKept
    <3> QED
      BY <3>1, <3>2, <3>3, Zenon DEF Cancel
  <2>2. MintedIs(b, minted[b])
    BY <1>1, MintedKept, Zenon
  <2>3. cult' \in [Batches -> Cultivators] /\ (\A x \in Batches \ {b} : cult'[x] = cult[x])
    BY Zenon, <2>1 DEF CultIs
  <2>4. TxIs(b, tx[b])
    BY <1>1, TxKept, Zenon
  <2> QED
    BY <2>1, <2>2, <2>3, <2>4, Zenon
<1>3. TypeOK'
  BY ZenonT(30), <1>1, <1>2 DEF TypeOK, planter, Jobs, Idle, RowIs, MintedIs, CultIs, TxIs
<1>4. Others(b)
  BY Zenon, <1>1, <1>2 DEF Others, Same, Owed, planter, Idle, RowIs, MintedIs, CultIs, TxIs
<1>f. /\ tx'[b] = tx[b] /\ minted'[b] = minted[b] /\ row'[b].coin = row[b].coin
      /\ \/ /\ row[b].state \in PreBroadcast \cup {"Committed"} /\ row'[b].state \in Cancelled
            /\ cult'[b].at = "off" /\ cult'[b].sent = "error" /\ cult'[b].mem = row'[b].state
            /\ leased' = leased \ {row[b].coin} /\ cultivators' = cultivators \ {b}
         \/ /\ row'[b] = row[b] /\ cult'[b].at = "off" /\ cult'[b].sent = "error"
            /\ cult'[b].mem = cult[b].mem
            /\ leased' = leased /\ cultivators' = cultivators \ {b}
         \/ row'[b] = row[b] /\ cult'[b] = cult[b] /\ leased' = leased /\ cultivators' = cultivators
  <2>1. tx'[b] = tx[b] /\ minted'[b] = minted[b]
    BY Zenon, <1>2 DEF MintedIs, TxIs
  <2>2. CASE /\ row[b].state \in PreBroadcast \cup {"Committed"}
             /\ leased' = leased \ {row[b].coin} /\ cultivators' = cultivators \ {b}
             /\ \E to \in Cancelled :
                   /\ RowIs(b, RowOf(to, row[b].coin, row[b].seedlings, row[b].sealed))
                   /\ CultIs(b, CultOf("off", to, cult[b].block, "error"))
    <3>1. PICK to \in Cancelled :
                   /\ RowIs(b, RowOf(to, row[b].coin, row[b].seedlings, row[b].sealed))
                   /\ CultIs(b, CultOf("off", to, cult[b].block, "error"))
      BY Zenon, <2>2
    <3>2. /\ row'[b].state = to /\ row'[b].coin = row[b].coin
          /\ cult'[b].at = "off" /\ cult'[b].mem = to /\ cult'[b].sent = "error"
      <4>1. row'[b].state = to /\ row'[b].coin = row[b].coin
        BY Zenon, <3>1, RowFields
      <4>2. cult'[b].at = "off" /\ cult'[b].mem = to /\ cult'[b].sent = "error"
        BY Zenon, <3>1, CultFields
      <4> QED
        BY Zenon, <4>1, <4>2
    <3> QED
      BY Zenon, <2>1, <2>2, <3>2
  <2>3. CASE /\ leased' = leased /\ cultivators' = cultivators \ {b}
             /\ RowIs(b, row[b]) /\ CultIs(b, CultOf("off", cult[b].mem, cult[b].block, "error"))
    <3>1. /\ row'[b] = row[b] /\ cult'[b].at = "off" /\ cult'[b].mem = cult[b].mem
          /\ cult'[b].sent = "error"
      <4>1. cult'[b].at = "off" /\ cult'[b].mem = cult[b].mem /\ cult'[b].sent = "error"
        BY Zenon, <2>3, CultFields
      <4> QED
        BY Zenon, <2>3, <4>1 DEF RowIs
    <3> QED
      BY Zenon, <2>1, <2>3, <3>1
  <2>4. CASE /\ leased' = leased /\ cultivators' = cultivators
             /\ RowIs(b, row[b]) /\ CultIs(b, cult[b])
    BY ZenonT(30), <2>1, <2>4 DEF RowIs, CultIs
  <2> QED
    BY Zenon, <1>2, <2>2, <2>3, <2>4
<1>5. Local(b)'
  <2>1. InStep(b)' /\ Reports(b)'
    BY Zenon, <1>1, <1>f DEF Local, InStep, Reports, Compensated, Waiting
  <2>2. SlotKnown(b)'
    <3>1. Owed(b)' => Owed(b)
      BY Zenon, <1>1 DEF Owed, Idle
    <3>2. \A to \in Cancelled : to \notin PreBroadcast /\ to # "Absent"
      BY Zenon DEF Cancelled, PreBroadcast
    <3>3. cult'[b].at = "Frozen" => cult'[b] = cult[b] /\ row'[b] = row[b] /\ Owed(b)'
      <4>1. cult[b].at = "Frozen" => b \in watched
        BY Zenon, <1>1 DEF Local, SlotKnown, Owed
      <4> QED
        BY Zenon, <1>1, <1>f, <4>1 DEF Owed
    <3> QED
      BY ZenonT(30), <1>1, <1>f, <3>1, <3>2, <3>3 DEF Local, SlotKnown
  <2>3. Staked(b)'
    BY Zenon, <1>1, <1>f DEF Local, Staked, Compensated, PreBroadcast
  <2>4. Sprouted(b)' /\ Published(b)'
    <3>1. \A to \in Cancelled : to \notin {"Committed", "Broadcast", "Confirmed", "Finalized"}
      BY Zenon DEF Cancelled
    <3>2. \A s \in PreBroadcast \cup {"Committed"} : s \notin {"Confirmed", "Finalized"}
      BY Zenon DEF PreBroadcast
    <3> QED
      BY Zenon, <1>1, <1>f, <3>1, <3>2 DEF Local, Sprouted, Published
  <2> QED
    BY Zenon, <2>1, <2>2, <2>3, <2>4 DEF Local
<1>6. Pending'
  BY Zenon, <1>1 DEF Pending, Idle
<1>7. CoinsKept'
  <2>1. CASE row'[b] = row[b] /\ leased' = leased
    BY Zenon, <1>1, <1>f, <1>4, <2>1, CoinsStep DEF Keeps, Live
  <2>2. CASE /\ row[b].state \in PreBroadcast \cup {"Committed"} /\ row'[b].state \in Cancelled
             /\ cult'[b].at = "off" /\ leased' = leased \ {row[b].coin}
    BY Zenon, <1>1, <1>f, <1>4, <2>2, LetsGo
  <2> QED
    BY Zenon, <1>f, <2>1, <2>2
<1>8. OneInSlot' /\ Owned'
  <2>1. \A to \in Cancelled : to \notin PreBroadcast
    BY Zenon DEF Cancelled, PreBroadcast
  <2>2. row'[b].state \in PreBroadcast => row'[b] = row[b]
    BY Zenon, <1>f, <2>1
  <2>3. row'[b].state \in PreBroadcast => Owner(b)'
    <3>1. row[b].state \in PreBroadcast => cult[b].at = "Frozen" /\ Owed(b)
      BY Zenon, <1>1, Typed DEF Local, InStep, SlotKnown, Cultivators, Places, Waiting,
         PreBroadcast, Compensated
    <3>2. Owed(b) => b \in watched'
      BY Zenon, <1>1 DEF Owed
    <3> QED
      BY Zenon, <1>f, <2>1, <2>2, <3>1, <3>2 DEF Owner
  <2> QED
    BY Zenon, <1>4, <2>2, <2>3, SlotStep
<1> QED
  BY <1>3, <1>4, <1>5, <1>6, <1>7, <1>8, Assemble, Zenon

-----------------------------------------------------------------------------
(* A restart. *)

\* What a start makes of the batch in the slot: it is resumed, cancelled, or
\* could not be cancelled.
Thawed(b) ==
    \E c, z : /\ RowIs(b, RowOf("Frozen", c, row[b].seedlings, z))
              /\ leased' = leased \cup {c}
              /\ c \in Fundable \/ (c = row[b].coin /\ c # NoCoin)

Dropped(b) ==
    /\ RowIs(b, RowOf("SeedlingCancelled", row[b].coin, row[b].seedlings, row[b].sealed))
    /\ leased' = leased \ {row[b].coin}

Stuck(b) ==
    \E c, z : /\ RowIs(b, RowOf(row[b].state, c, row[b].seedlings, z))
              /\ leased' = leased \cup ({c} \ {NoCoin})
              /\ c \in Fundable \/ c = row[b].coin

LEMMA ResumeSlotIs ==
    ASSUME TypeOK, NEW resumed, NEW failed, ResumeSlot(resumed, failed)
    PROVE  \/ InSlot = {} /\ resumed = {} /\ failed = {} /\ UNCHANGED <<row, leased>>
           \/ \E b \in InSlot :
                \/ Thawed(b) /\ resumed = {b} /\ failed = {}
                \/ Dropped(b) /\ resumed = {} /\ failed = {}
                \/ Stuck(b) /\ resumed = {} /\ failed = {b}
<1>1. ASSUME NEW b \in InSlot, resumed = {b}, failed = {},
             NEW c \in IF row[b].coin = NoCoin THEN Fundable ELSE {row[b].coin},
             NEW z \in SealResults(row[b]),
             row' = [row EXCEPT ![b].state = "Frozen", ![b].coin = c, ![b].sealed = z],
             leased' = leased \cup {c}
      PROVE  Thawed(b)
  <2>1. b \in Batches
    BY Zenon DEF InSlot
  <2>2. z \in SUBSET Seedlings /\ c \in Coins \cup {NoCoin}
    BY Zenon, <2>1, Typed, SealedType DEF Rows, Fundable
  <2>3. RowIs(b, RowOf("Frozen", c, row[b].seedlings, z))
    BY <1>1, <2>1, <2>2, RowStateCoinSealed, Named, Zenon
  <2>4. c \in Fundable \/ (c = row[b].coin /\ c # NoCoin)
    BY Zenon
  <2> QED
    BY Zenon, <1>1, <2>3, <2>4 DEF Thawed
<1>2. ASSUME NEW b \in InSlot, SetState(b, "SeedlingCancelled"), Release(b)
      PROVE  Dropped(b)
  <2>1. b \in Batches
    BY Zenon DEF InSlot
  <2> QED
    BY <1>2, <2>1, RowState, Named, Zenon DEF Dropped, SetState, Release
<1>3. ASSUME NEW b \in InSlot, resumed = {}, failed = {b},
             NEW c \in {row[b].coin} \cup (IF row[b].coin = NoCoin THEN Fundable ELSE {}),
             NEW z \in {row[b].sealed} \cup SealResults(row[b]),
             row' = [row EXCEPT ![b].coin = c, ![b].sealed = z],
             leased' = leased \cup ({c} \ {NoCoin})
      PROVE  Stuck(b)
  <2>1. b \in Batches
    BY Zenon DEF InSlot
  <2>2. z \in SUBSET Seedlings /\ c \in Coins \cup {NoCoin}
    BY Zenon, <2>1, Typed, SealedType DEF Rows, Fundable
  <2>3. RowIs(b, RowOf(row[b].state, c, row[b].seedlings, z))
    BY <1>3, <2>1, <2>2, RowCoinSealed, Zenon
  <2>4. c \in Fundable \/ c = row[b].coin
    BY Zenon
  <2> QED
    BY Zenon, <1>3, <2>3, <2>4 DEF Stuck
<1> QED
  BY <1>1, <1>2, <1>3, ZenonT(30) DEF ResumeSlot

\* A batch after a start: a cultivator works on it again, or nobody does.
Fresh(x) ==
    /\ x \in cultivators' =>
          /\ cult'[x] = Launched(row'[x].state)
          /\ row'[x].state \in {"Frozen", "Committed", "Broadcast", "Confirmed"}
          /\ x \in watched' <=> row'[x].state # "Confirmed"
    /\ x \notin cultivators' => cult'[x] = NoCultivator /\ x \notin watched'
    /\ \/ row'[x].state = row[x].state
       \/ /\ row[x].state \in PreBroadcast
          /\ row'[x].state \in {"Frozen", "SeedlingCancelled"}

LEMMA FreshLocal ==
    ASSUME NEW x \in Batches, Local(x), Fresh(x), pendingBatch' = None, gardener' = Idle,
           UNCHANGED <<minted, effect, tx>>
    PROVE  Local(x)'
<1>1. ~Owed(x)' \/ x \in watched'
  BY Zenon DEF Owed, Idle
<1>2. /\ cult'[x].at # "off" => x \in cultivators'
      /\ cult'[x].sent = "none"
      /\ x \in cultivators' =>
            /\ cult'[x].mem = row'[x].state
            /\ cult'[x].at = IF row'[x].state = "Confirmed" THEN "Finalized" ELSE row'[x].state
      /\ cult'[x].block = None
  BY DEF Fresh, Launched, NoCultivator
<1>3. InStep(x)' /\ Reports(x)'
  BY Zenon, <1>2 DEF Fresh, InStep, Reports, Waiting
<1>4. SlotKnown(x)'
  <2>1. x # None
    BY DEF Batches, None
  <2>2. cult'[x].at = "Frozen" => x \in watched' /\ row'[x].state = "Frozen"
    BY Zenon, <1>2 DEF Fresh
  <2>3. Owed(x)' => cult'[x].mem = row'[x].state
    BY Zenon, <1>1, <1>2 DEF Fresh
  <2>4. row'[x].state = "Absent" => x \notin cultivators' /\ x \notin watched'
    BY Zenon DEF Fresh
  <2> QED
    BY Zenon, <1>1, <2>1, <2>2, <2>3, <2>4 DEF SlotKnown, Owed
<1>5. Staked(x)'
  BY Zenon DEF Local, Fresh, Staked, Compensated, PreBroadcast
<1>6. Sprouted(x)' /\ Published(x)'
  BY Zenon DEF Local, Fresh, Sprouted, Published, PreBroadcast
<1> QED
  BY Zenon, <1>3, <1>4, <1>5, <1>6 DEF Local

\* The batches after a start.
LEMMA RestartFresh ==
    ASSUME TypeOK, MintInv, Restart
    PROVE  /\ \A x \in Batches : Fresh(x)
           /\ \A x \in InSlot' : x \in InSlot /\ Owner(x)'
           /\ cultivators' \subseteq Batches /\ watched' \subseteq Batches
           /\ dropped' \subseteq Batches /\ cult' \in [Batches -> Cultivators]
           /\ row' \in [Batches -> Rows] /\ leased' \subseteq Coins
           /\ \/ UNCHANGED <<row, leased>>
              \/ \E b \in InSlot : Thawed(b) \/ Dropped(b) \/ Stuck(b)
<1>1. PICK resumed, failed \in SUBSET Batches :
        /\ ResumeSlot(resumed, failed)
        /\ cultivators' = (Resumable \ InSlot) \cup resumed
        /\ cult' = [b \in Batches |-> IF b \in (Resumable \ InSlot) \cup resumed
                                      THEN Launched(row'[b].state) ELSE NoCultivator]
        /\ watched' = {b \in (Resumable \ InSlot) \cup resumed : row'[b].state # "Confirmed"}
        /\ dropped' = failed
  BY Zenon DEF Restart
<1>2. \/ InSlot = {} /\ resumed = {} /\ failed = {} /\ UNCHANGED <<row, leased>>
      \/ \E b \in InSlot :
           \/ Thawed(b) /\ resumed = {b} /\ failed = {}
           \/ Dropped(b) /\ resumed = {} /\ failed = {}
           \/ Stuck(b) /\ resumed = {} /\ failed = {b}
  <2>1. ResumeSlot(resumed, failed)
    BY Zenon, <1>1
  <2> QED
    BY <2>1, ResumeSlotIs
<1>3. \A x, y \in InSlot : x = y
  BY Zenon DEF MintInv, OneInSlot
<1>4. InSlot \subseteq Batches /\ Resumable \subseteq Batches
  BY Zenon DEF InSlot, Resumable
<1>5. /\ row' \in [Batches -> Rows]
      /\ \A x \in Batches \ InSlot : row'[x] = row[x]
      /\ \A x \in InSlot :
           \/ row'[x].state = "Frozen" /\ resumed = {x}
           \/ row'[x].state = "SeedlingCancelled" /\ resumed = {}
           \/ row'[x].state = row[x].state /\ resumed = {} /\ x \in failed
  <2>1. CASE InSlot = {} /\ resumed = {} /\ failed = {} /\ UNCHANGED <<row, leased>>
    BY Zenon, <2>1 DEF TypeOK
  <2>2. ASSUME NEW b \in InSlot, Thawed(b), resumed = {b}
        PROVE  /\ row' \in [Batches -> Rows] /\ row'[b].state = "Frozen"
               /\ \A x \in Batches \ {b} : row'[x] = row[x]
    <3>1. PICK c, z : RowIs(b, RowOf("Frozen", c, row[b].seedlings, z))
      BY Zenon, <2>2 DEF Thawed
    <3>2. row'[b].state = "Frozen"
      BY Zenon, <3>1, RowFields
    <3> QED
      BY Zenon, <3>1, <3>2 DEF RowIs
  <2>3. ASSUME NEW b \in InSlot, Dropped(b)
        PROVE  /\ row' \in [Batches -> Rows] /\ row'[b].state = "SeedlingCancelled"
               /\ \A x \in Batches \ {b} : row'[x] = row[x]
    <3>1. RowIs(b, RowOf("SeedlingCancelled", row[b].coin, row[b].seedlings, row[b].sealed))
      BY Zenon, <2>3 DEF Dropped
    <3>2. row'[b].state = "SeedlingCancelled"
      BY Zenon, <3>1, RowFields
    <3> QED
      BY Zenon, <3>1, <3>2 DEF RowIs
  <2>4. ASSUME NEW b \in InSlot, Stuck(b)
        PROVE  /\ row' \in [Batches -> Rows] /\ row'[b].state = row[b].state
               /\ \A x \in Batches \ {b} : row'[x] = row[x]
    <3>1. PICK c, z : RowIs(b, RowOf(row[b].state, c, row[b].seedlings, z))
      BY Zenon, <2>4 DEF Stuck
    <3>2. row'[b].state = row[b].state
      BY Zenon, <3>1, RowFields
    <3> QED
      BY Zenon, <3>1, <3>2 DEF RowIs
  <2> QED
    BY ZenonT(30), <1>2, <1>3, <1>4, <2>1, <2>2, <2>3, <2>4
<1>6. \A x \in Batches : row[x].state \in States /\ row'[x].state \in States
  BY Zenon, <1>5 DEF TypeOK, Rows
<1>7. resumed \subseteq InSlot
  BY Zenon, <1>2
<1>8. ASSUME NEW x \in Batches PROVE Fresh(x)
  <2>1. CASE x \in InSlot
    BY Zenon, <1>1, <1>4, <1>5, <2>1 DEF Fresh, InSlot
  <2>2. CASE x \notin InSlot
    BY ZenonT(30), <1>1, <1>4, <1>5, <1>6, <1>7, <2>2 DEF Fresh, InSlot, Resumable, Live, States, Cancelled,
       PreBroadcast
  <2> QED
    BY Zenon, <2>1, <2>2
<1>9. ASSUME NEW x \in InSlot' PROVE x \in InSlot /\ Owner(x)'
  <2>1. x \in InSlot
    BY Zenon, <1>5 DEF InSlot
  <2>2. x \in dropped' \/ cult'[x].at = "Frozen"
    BY ZenonT(30), <1>1, <1>4, <1>5, <2>1 DEF InSlot, Launched, PreBroadcast
  <2> QED
    BY Zenon, <2>1, <2>2 DEF Owner
<1>10. cult' \in [Batches -> Cultivators]
  <2>1. NoCultivator \in Cultivators
    BY Zenon, Named DEF NoCultivator, Cultivators
  <2>2. ASSUME NEW x \in Batches, row'[x].state \in {"Frozen", "Committed", "Broadcast", "Confirmed"}
        PROVE  Launched(row'[x].state) \in Cultivators
    BY Zenon, <2>2, Named DEF Launched, Cultivators
  <2>3. ASSUME NEW x \in Batches PROVE cult'[x] \in Cultivators
    BY Zenon, <1>1, <1>8, <2>1, <2>2 DEF Fresh
  <2> QED
    BY Zenon, <1>1, <2>3
<1>11. leased' \subseteq Coins
  <2>1. ASSUME NEW b \in InSlot, Thawed(b) PROVE leased' \subseteq Coins
    BY ZenonT(30), <1>4, <2>1, Typed DEF Thawed, TypeOK, Fundable, Rows
  <2>2. ASSUME NEW b \in InSlot, Dropped(b) PROVE leased' \subseteq Coins
    BY Zenon, <2>2 DEF Dropped, TypeOK
  <2>3. ASSUME NEW b \in InSlot, Stuck(b) PROVE leased' \subseteq Coins
    BY ZenonT(30), <1>4, <2>3, Typed DEF Stuck, TypeOK, Fundable, Rows
  <2> QED
    BY ZenonT(30), <1>2, <2>1, <2>2, <2>3 DEF TypeOK
<1> QED
  BY <1>1, <1>2, <1>4, <1>5, <1>7, <1>8, <1>9, <1>10, <1>11, ZenonT(30)

\* Coins: a start keeps them.
LEMMA RestartCoins ==
    ASSUME TypeOK, MintInv, \A x \in Batches : Fresh(x), tx' = tx,
           \/ UNCHANGED <<row, leased>>
           \/ \E b \in InSlot : Thawed(b) \/ Dropped(b) \/ Stuck(b)
    PROVE  CoinsKept'
<1>1. ASSUME NEW x \in Batches, Keeps(x)' PROVE Keeps(x)
  <2>1. Fresh(x)
    BY Zenon
  <2>2. CASE x \in cultivators'
    BY Zenon, <2>1, <2>2 DEF Fresh, Keeps, Live, PreBroadcast, Cancelled
  <2>3. CASE x \notin cultivators'
    BY <1>1, <2>1, <2>3 DEF Fresh, Keeps, Live, NoCultivator, PreBroadcast, Cancelled
  <2> QED
    BY Zenon, <2>2, <2>3
<1>2. CoinsKept
  BY Zenon DEF MintInv
<1>3. CASE UNCHANGED <<row, leased>>
  BY Zenon, <1>1, <1>2, <1>3 DEF CoinsKept
<1>4. ASSUME NEW b \in Batches, NEW c, c \in Fundable \/ c = row[b].coin,
             row'[b].coin = c, \A x \in Batches \ {b} : row'[x].coin = row[x].coin,
             leased \subseteq leased', c # NoCoin => c \in leased'
      PROVE  CoinsKept'
  <2>1. \A x \in Batches \ {b} : c \in Fundable /\ Keeps(x) => row[x].coin # c \/ c = NoCoin
    BY Zenon, <1>2 DEF CoinsKept, Fundable
  <2>2. CASE c \in Fundable
    <3> SUFFICES ASSUME NEW x \in Batches, Keeps(x)', row'[x].coin # NoCoin, ~tx[x].sent
                 PROVE  /\ row'[x].coin \in leased'
                        /\ \A y \in Batches \ {x} : Keeps(y)' => row'[y].coin # row'[x].coin
      BY Zenon DEF CoinsKept
    <3>1. CASE x = b
      BY Zenon, <1>1, <1>4, <2>1, <2>2, <3>1
    <3>2. CASE x # b
      BY ZenonT(30), <1>1, <1>2, <1>4, <2>1, <2>2, <3>2 DEF CoinsKept
    <3> QED
      BY Zenon, <3>1, <3>2
  <2>3. CASE c = row[b].coin
    <3>1. \A x \in Batches : row'[x].coin = row[x].coin
      BY Zenon, <1>4, <2>3
    <3> QED
      BY ZenonT(30), <1>1, <1>2, <1>4, <3>1 DEF CoinsKept
  <2> QED
    BY Zenon, <1>4, <2>2, <2>3
<1>5. ASSUME NEW b \in InSlot, Thawed(b) PROVE CoinsKept'
  <2>1. b \in Batches
    BY Zenon DEF InSlot
  <2>2. PICK c, z : /\ RowIs(b, RowOf("Frozen", c, row[b].seedlings, z))
                    /\ leased' = leased \cup {c}
                    /\ c \in Fundable \/ (c = row[b].coin /\ c # NoCoin)
    BY Zenon, <1>5 DEF Thawed
  <2>3. /\ row'[b].coin = c /\ \A x \in Batches \ {b} : row'[x].coin = row[x].coin
        /\ leased \subseteq leased' /\ c \in leased'
    <3>1. row'[b].coin = c
      BY Zenon, <2>2, RowFields
    <3> QED
      BY Zenon, <2>2, <3>1 DEF RowIs
  <2> QED
    BY Zenon, <1>4, <2>1, <2>2, <2>3
<1>6. ASSUME NEW b \in InSlot, Stuck(b) PROVE CoinsKept'
  <2>1. b \in Batches
    BY ZenonT(30) DEF InSlot
  <2>2. PICK c, z : /\ RowIs(b, RowOf(row[b].state, c, row[b].seedlings, z))
                    /\ leased' = leased \cup ({c} \ {NoCoin})
                    /\ c \in Fundable \/ c = row[b].coin
    BY Zenon, <1>6 DEF Stuck
  <2>3. /\ row'[b].coin = c /\ \A x \in Batches \ {b} : row'[x].coin = row[x].coin
        /\ leased \subseteq leased' /\ (c # NoCoin => c \in leased')
    <3>1. row'[b].coin = c
      BY ZenonT(30), <2>2, RowFields
    <3> QED
      BY Zenon, <2>2, <3>1 DEF RowIs
  <2> QED
    BY Zenon, <1>4, <2>1, <2>2, <2>3
<1>7. ASSUME NEW b \in InSlot, Dropped(b) PROVE CoinsKept'
  <2>1. b \in Batches /\ row[b].state \in PreBroadcast
    BY Zenon DEF InSlot
  <2>2. /\ row'[b].coin = row[b].coin /\ row'[b].state = "SeedlingCancelled"
        /\ \A x \in Batches \ {b} : row'[x].coin = row[x].coin
        /\ leased' = leased \ {row[b].coin}
    <3>1. RowIs(b, RowOf("SeedlingCancelled", row[b].coin, row[b].seedlings, row[b].sealed))
      BY Zenon, <1>7 DEF Dropped
    <3>2. row'[b].coin = row[b].coin /\ row'[b].state = "SeedlingCancelled"
      BY Zenon, <3>1, RowFields
    <3> QED
      BY Zenon, <1>7, <3>1, <3>2 DEF Dropped, RowIs
  <2>3. ~tx[b].sent
    BY ZenonT(30), <2>1 DEF MintInv, Local, Staked, Compensated, PreBroadcast
  <2>4. cult'[b].at = "off"
    BY <2>1, <2>2 DEF Fresh, NoCultivator
  <2>5. Keeps(b) /\ ~Keeps(b)'
    BY Zenon, <2>1, <2>2, <2>3, <2>4 DEF Keeps, Live, PreBroadcast, Cancelled
  <2> QED
    BY <1>1, <1>2, <2>1, <2>2, <2>5 DEF CoinsKept
<1> QED
  BY <1>3, <1>5, <1>6, <1>7, Zenon

LEMMA RestartInv ==
    ASSUME TypeOK, MintInv, Restart, faults' \in Nat
    PROVE  TypeOK' /\ MintInv'
<1>1. /\ pendingBatch' = None /\ gardener' = Idle
      /\ UNCHANGED <<minted, effect, delivered, tx, block>>
  BY Zenon DEF Restart
<1>2. \A x \in Batches : Local(x)'
  BY Zenon, <1>1, RestartFresh, FreshLocal DEF MintInv
<1>3. Pending'
  BY Zenon, <1>1 DEF Pending, Idle
<1>4. CoinsKept'
  BY <1>1, RestartFresh, RestartCoins, Zenon
<1>5. OneInSlot' /\ Owned'
  BY Zenon, RestartFresh DEF MintInv, OneInSlot, Owned
<1>6. TypeOK'
  BY ZenonT(30), <1>1, RestartFresh DEF TypeOK, Jobs, Idle
<1> QED
  BY Zenon, <1>2, <1>3, <1>4, <1>5, <1>6 DEF MintInv

-----------------------------------------------------------------------------
(* The planter's callers. *)

LEMMA CreateBatchIs ==
    ASSUME TypeOK, NEW q \in SUBSET Seedlings, NEW c \in Coins \cup {NoCoin}, CreateBatch(q, c)
    PROVE  /\ pendingBatch = None /\ InSlot = {}
           /\ \E b \in Batches : /\ row[b].state = "Absent" /\ pendingBatch' = b
                                 /\ RowIs(b, RowOf("Pending", c, q, {}))
<1>1. NextBatch \in Batches /\ row[NextBatch].state = "Absent"
  BY Zenon, NextBatchUnused DEF CreateBatch
<1>2. pendingBatch = None /\ InSlot = {} /\ pendingBatch' = NextBatch
  BY Zenon DEF CreateBatch, CreationAllowed, InSlot
<1>3. RowOf("Pending", c, q, {}) \in Rows
  BY Zenon, Named DEF RowOf, Rows
<1>4. row' = [row EXCEPT ![NextBatch] = RowOf("Pending", c, q, {})]
  BY Zenon DEF CreateBatch, RowOf
<1>5. RowIs(NextBatch, RowOf("Pending", c, q, {}))
  BY <1>1, <1>3, <1>4, RowPut, ZenonT(30)
<1> QED
  BY <1>1, <1>2, <1>5, Zenon

LEMMA QueueSeedlingInv ==
    ASSUME TypeOK, MintInv, NEW s \in Seedlings, QueueSeedling(s)
    PROVE  TypeOK' /\ MintInv'
<1>1. /\ gardener = Idle /\ leased' = leased
      /\ UNCHANGED <<minted, effect, delivered, cultivators, gardener, watched, dropped, tx,
                     cult, block, faults>>
  BY Zenon DEF QueueSeedling
<1>2. CASE CreateBatch({s}, NoCoin)
  <2>1. {s} \in SUBSET Seedlings /\ NoCoin \in Coins \cup {NoCoin}
    BY Zenon
  <2>2. PICK b \in Batches : /\ row[b].state = "Absent" /\ pendingBatch' = b
                             /\ RowIs(b, RowOf("Pending", NoCoin, {s}, {}))
                             /\ pendingBatch = None /\ InSlot = {}
    BY <1>2, <2>1, CreateBatchIs, Zenon
  <2> QED
    BY Zenon, <1>1, <2>1, <2>2, Created
<1>3. CASE /\ pendingBatch # None
           /\ row' = [row EXCEPT ![pendingBatch].seedlings = @ \cup {s}]
           /\ UNCHANGED pendingBatch
  <2>1. PICK b \in Batches : b = pendingBatch
    BY Zenon, <1>3 DEF TypeOK
  <2>2. /\ row[b].seedlings \cup {s} \in SUBSET Seedlings
        /\ row[b].sealed \in SUBSET Seedlings
    BY Zenon, Typed DEF Rows
  <2>3. row' = [row EXCEPT ![b].seedlings = row[b].seedlings \cup {s}]
    BY <1>3, <2>1, Zenon
  <2>4. RowIs(b, RowOf(row[b].state, row[b].coin, row[b].seedlings \cup {s}, row[b].sealed))
    BY <2>2, <2>3, RowSeedlings, Zenon
  <2> QED
    BY ZenonT(30), <1>1, <1>3, <2>1, <2>2, <2>4, Filled DEF planter
<1> QED
  BY <1>2, <1>3, Zenon DEF QueueSeedling

LEMMA FundBatchInv ==
    ASSUME TypeOK, MintInv, FundBatch
    PROVE  TypeOK' /\ MintInv'
<1>1. /\ gardener = Idle
      /\ UNCHANGED <<minted, effect, delivered, cultivators, gardener, watched, dropped, tx,
                     cult, block, faults>>
  BY Zenon DEF FundBatch
<1>2. PICK c \in Fundable :
        /\ \/ CreateBatch({}, c)
           \/ /\ pendingBatch # None
              /\ row' = [row EXCEPT ![pendingBatch].coin = c]
              /\ UNCHANGED pendingBatch
        /\ leased' = leased \cup {c}
  BY Zenon DEF FundBatch
<1>3. c \in Coins \cup {NoCoin} /\ {} \in SUBSET Seedlings
  BY Zenon DEF Fundable
<1>4. CASE CreateBatch({}, c)
  <2>1. PICK b \in Batches : /\ row[b].state = "Absent" /\ pendingBatch' = b
                             /\ RowIs(b, RowOf("Pending", c, {}, {}))
                             /\ pendingBatch = None /\ InSlot = {}
    BY <1>3, <1>4, CreateBatchIs, Zenon
  <2> QED
    BY Zenon, <1>1, <1>2, <1>3, <2>1, Created
<1>5. CASE /\ pendingBatch # None
           /\ row' = [row EXCEPT ![pendingBatch].coin = c]
           /\ UNCHANGED pendingBatch
  <2>1. PICK b \in Batches : b = pendingBatch
    BY Zenon, <1>5 DEF TypeOK
  <2>2. row[b].seedlings \in SUBSET Seedlings /\ row[b].sealed \in SUBSET Seedlings
    BY Zenon, Typed DEF Rows
  <2>3. row' = [row EXCEPT ![b].coin = c]
    BY <1>5, <2>1, Zenon
  <2>4. RowIs(b, RowOf(row[b].state, c, row[b].seedlings, row[b].sealed))
    BY <1>3, <2>3, RowCoin, Zenon
  <2> QED
    BY ZenonT(30), <1>1, <1>2, <1>5, <2>1, <2>2, <2>4, Filled DEF planter
<1> QED
  BY <1>2, <1>4, <1>5, Zenon

LEMMA SealBatchInv ==
    ASSUME TypeOK, MintInv, SealBatch
    PROVE  TypeOK' /\ MintInv'
<1>1. PICK b \in Batches : b = pendingBatch
  BY Zenon DEF SealBatch, TypeOK
<1>2. PICK z \in SealResults(row[b]) : row' = [row EXCEPT ![b].sealed = z]
  BY <1>1, Zenon DEF SealBatch
<1>3. row[b].seedlings \in SUBSET Seedlings /\ z \in SUBSET Seedlings
  BY Zenon, Typed, SealedType DEF Rows
<1>4. RowIs(b, RowOf(row[b].state, row[b].coin, row[b].seedlings, z))
  BY <1>2, <1>3, RowSealed, Zenon
<1> QED
  BY ZenonT(30), <1>1, <1>3, <1>4, Filled DEF SealBatch

-----------------------------------------------------------------------------
(* The theorems. *)

LEMMA InitInv == Init => TypeOK /\ MintInv
<1> SUFFICES ASSUME Init PROVE TypeOK /\ MintInv
  BY Zenon
<1>1. /\ [state |-> "Absent", coin |-> NoCoin, seedlings |-> {}, sealed |-> {}] \in Rows
      /\ [assets |-> FALSE, conf |-> None, proof |-> None] \in Sprouts
      /\ [staked |-> FALSE, sent |-> FALSE, at |-> None, fate |-> "open"] \in Txns
      /\ NoCultivator \in Cultivators
  BY Zenon, Named DEF Rows, Sprouts, Txns, NoCultivator, Cultivators, None
<1>2. TypeOK
  BY Zenon, <1>1 DEF Init, TypeOK, Jobs, Idle, Phases, None
<1>3. ASSUME NEW b \in Batches PROVE Local(b)
  BY Zenon, Typed, <1>2 DEF Init, Local, InStep, Reports, SlotKnown, Staked, Sprouted, Published, Owed,
     Compensated, NoCultivator, Waiting, PreBroadcast, Idle, None
<1>4. InSlot = {}
  BY Zenon DEF Init, InSlot, PreBroadcast
<1>5. Pending /\ OneInSlot /\ Owned
  BY Zenon, <1>4 DEF Init, Pending, OneInSlot, Owned, Idle, None
<1>6. CoinsKept
  BY Zenon DEF Init, CoinsKept, NoCoin
<1> QED
  BY Zenon, <1>2, <1>3, <1>5, <1>6 DEF MintInv

LEMMA NextInv == TypeOK /\ MintInv /\ [Next]_vars => TypeOK' /\ MintInv'
<1> SUFFICES ASSUME TypeOK, MintInv, [Next]_vars PROVE TypeOK' /\ MintInv'
  BY Zenon
<1> DEFINE G == TypeOK' /\ MintInv'
<1>1. ASSUME NEW s \in Seedlings, QueueSeedling(s) PROVE G
  BY Zenon, <1>1, QueueSeedlingInv
<1>2. CASE FundBatch \/ SealBatch
  BY Zenon, <1>2, FundBatchInv, SealBatchInv
<1>3. CASE FinalizeBatch \/ CancelPending
  <2>1. PICK b \in Batches : pendingBatch = b
    BY Zenon, <1>3 DEF FinalizeBatch, CancelPending, TypeOK
  <2> QED
    BY ZenonT(30), <1>3, <2>1, FinalizeBatchInv, CancelPendingInv
<1>4. ASSUME NEW b \in Batches, CancelBatch(b) PROVE G
  BY Zenon, <1>4, CancelBatchInv
<1>5. ASSUME NEW b \in Batches, Answer(b) PROVE G
  BY ZenonT(30), <1>5, FinalizeDoneInv, FinalizeErrorInv, CancelTooLateInv, CancelInv, CompletedInv,
     WatchResumedInv DEF Answer
<1>6. ASSUME Restart, faults' \in Nat PROVE G
  BY Zenon, <1>6, RestartInv
<1>7. ASSUME NEW b \in Batches, Cultivate(b) PROVE G
  <2>1. CASE MarkPanics(b)
    BY ZenonT(30), <1>6, <2>1 DEF MarkPanics, TypeOK
  <2> QED
    BY ZenonT(30), <1>7, <2>1, StepFrozenInv, StepCommittedInv, StepBroadcastInv, AwaitOutcomeInv,
       StepConfirmedInv, MarkBatchConfirmedInv, StepFinalizedInv DEF Cultivate
<1>8. ASSUME NEW b \in Batches, StepFails(b) \/ Mine(b) \/ ReorgedOut(b) PROVE G
  BY Zenon, <1>8, StepFailsInv, MineInv, ReorgedOutInv
<1>9. ASSUME NEW b \in Batches, Bury(b) \/ Conflict(b) \/ Deliver(b) \/ DispatchMintPublish(b)
      PROVE  G
  BY ZenonT(30), <1>9, DecidedInv, DeliverInv, DispatchMintPublishInv
<1>10. CASE Crash
  BY <1>6, <1>10 DEF Crash, Fault, TypeOK
<1>11. CASE UNCHANGED vars
  <2>1. UNCHANGED <<row, minted, leased, tx, delivered, effect, pendingBatch, cultivators, cult,
                    gardener, watched, dropped, block, faults>>
    BY Zenon, <1>11 DEF vars, durable, planter
  <2>2. TypeOK'
    BY Zenon, <2>1 DEF TypeOK
  <2>3. \A b \in Batches : Same(b)
    BY Zenon, <2>1 DEF Same, Owed
  <2>4. \A b \in Batches : Local(b)'
    BY ZenonT(30), <2>3, SameLocal DEF MintInv
  <2>5. Pending' /\ CoinsKept'
    BY ZenonT(30), <2>1 DEF MintInv, Pending, CoinsKept, Keeps, Live
  <2>6. OneInSlot' /\ Owned'
    BY ZenonT(30), <2>1 DEF MintInv, OneInSlot, Owned, Owner, InSlot
  <2> QED
    BY ZenonT(30), <2>2, <2>4, <2>5, <2>6 DEF MintInv
<1> QED
  BY <1>1, <1>2, <1>3, <1>4, <1>5, <1>7, <1>8, <1>9, <1>10, <1>11, ZenonT(30) DEF Next

\* The tables, the planter's fields and the goroutines keep their types, and
\* the inductive invariant holds throughout.
THEOREM Invariance == Spec => [](TypeOK /\ MintInv)
BY InitInv, NextInv, PTL DEF Spec

\* At most one batch is in the slot, and it can still be moved out: by the
\* planter, its cultivator, or whoever cleans up after it, unless the planter
\* reported that it could not cancel it (CreateBatch, cancelFailedBatch,
\* watchResumedCultivator).
THEOREM SlotSafe == Spec => []SlotOwned
<1>1. MintInv => SlotOwned
  BY ZenonT(30) DEF MintInv, OneInSlot, Owned, Owner, SlotOwned
<1> QED
  BY <1>1, Invariance, PTL

\* The coin of a live, unsent batch stays leased and belongs to it alone,
\* across cancellations, failures and restarts (releaseBatchFundingInputs).
THEOREM LeasesSafe == Spec => []LeasesHeld
<1>1. MintInv => LeasesHeld
  BY ZenonT(30) DEF MintInv, CoinsKept, Keeps, LeasesHeld
<1> QED
  BY <1>1, Invariance, PTL

\* A batch that was cancelled never reaches the network, unless the chain
\* decided against it (Cancel, cancelFailedBatch, ApplyMintAbandonment).
THEOREM CancelSafe == Spec => []CancelledNeverSent
<1>1. MintInv => CancelledNeverSent
  BY ZenonT(30) DEF MintInv, Local, Staked, Compensated, CancelledNeverSent, Cancelled
<1> QED
  BY <1>1, Invariance, PTL

\* Only buried issuances with their assets and a confirmed batch are published
\* (DispatchMintPublish against the site's handlers and restarts).
THEOREM PublishSafe == Spec => []PublishedOnlyBuried
<1>1. MintInv => PublishedOnlyBuried
  BY Zenon DEF MintInv, Local, Sprouted, Published, PublishedOnlyBuried
<1> QED
  BY <1>1, Invariance, PTL

====
