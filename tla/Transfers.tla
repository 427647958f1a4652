----------------------------- MODULE Transfers -----------------------------
(* Outbound transfers: the chain porter's send state machine                *)
(* (tapfreighter/chain_porter.go), its re-org watcher site                  *)
(* (tapfreighter/anchoring_site.go) and the rows both drive                 *)
(* (tapdb/freighter_anchoring.go, tapdb/assets_store.go and the queries of  *)
(* tapdb/sqlc/queries/transfers.sql).                                       *)
(*                                                                          *)
(* A transfer spends anchor points and creates one, named after itself.     *)
(* Every point holds an asset row of its own; a coin of Hosts also holds a  *)
(* passive asset, named after the coin, which a transfer that spends the    *)
(* point carries along to its own anchor. The re-org watcher is reduced to  *)
(* what it promises a site: every phase it senses is true of the chain when *)
(* it is sensed, terminal phases rest on buried transactions, and the last  *)
(* sensed phase is delivered in the end.                                    *)
EXTENDS Naturals, FiniteSets, SequencesExt

CONSTANTS
    Transfers,      \* the transfers this node may build
    Foreign,        \* transactions of others
    Coins,          \* the anchor points the node starts with
    Hosts,          \* the coins that also hold a passive asset
    Spends,         \* the points each transaction spends
    Anchored,       \* transfers signed and broadcast by another subsystem
    Addressed,      \* transfers with an output whose proof goes to a receiver
    MaxReorgs,      \* blocks that are re-organized out
    MaxFaults       \* failing calls, expired leases and restarts

Txs == Transfers \cup Foreign
Points == Coins \cup Transfers

ASSUME TransferConstants ==
    /\ Hosts \subseteq Coins /\ Anchored \subseteq Transfers
    /\ Addressed \subseteq Transfers
    /\ Spends \in [Txs -> SUBSET Points]
    /\ MaxReorgs \in Nat /\ MaxFaults \in Nat

VARIABLES
    send,           \* the send state of a transfer's goroutine
    stored,         \* transfers with a row
    confirmed,      \* those whose anchor transaction has a block
    superseded, abandoned,              \* the flags of the row
    proved,         \* those whose proof delivery is recorded complete
    rows, spent,    \* asset rows by anchor point, and those marked spent
    file,           \* the anchors in a passive asset's proof file
    gone,           \* passive assets marked spent
    carried,        \* the passive assets a transfer re-anchors
    leased, short,  \* leased points; those leased for ten minutes only
    phase, done,    \* the sensed and the delivered phase of an anchoring
    sent,           \* transactions that have reached the network
    chain, buried,  \* transactions in blocks; those too deep to be undone
    reorgs, faults

rowVars == <<stored, confirmed, superseded, abandoned>>
assetVars == <<rows, spent, file, gone>>
leaseVars == <<leased, short>>
chainVars == <<sent, chain, buried, reorgs>>
vars == <<send, rowVars, proved, assetVars, carried, leaseVars, phase, done,
          chainVars, faults>>

SendStates == {"idle", "select", "sign", "anchor", "verify", "store",
               "broadcast", "wait", "post", "proofs", "complete", "failed"}

Kinds == {"witnessed", "unwitnessed", "conflicted", "buried",
          "abandoned"}
Is(kind) == [kind |-> kind, by |-> {}]
Terminal(p) == p.kind \in {"buried", "abandoned"}

(* Transactions that spend a point the transaction x spends.                *)
Rivals(x) == {y \in Txs \ {x} : Spends[x] \cap Spends[y] # {}}

Tip(f) == f[Len(f)]

Init ==
    /\ send = [t \in Transfers |-> "idle"]
    /\ stored = {} /\ confirmed = {} /\ superseded = {} /\ abandoned = {}
    /\ proved = {}
    /\ rows = Coins /\ spent = {}
    /\ file = [x \in Hosts |-> <<x>>] /\ gone = {}
    /\ carried = [t \in Transfers |-> {}]
    /\ leased = {} /\ short = {}
    /\ phase = [t \in Transfers |-> Is("unwitnessed")]
    /\ done = [t \in Transfers |-> Is("unwitnessed")]
    /\ sent = {} /\ chain = {} /\ buried = {}
    /\ reorgs = 0 /\ faults = 0

-----------------------------------------------------------------------------
(* The chain, and what the watcher senses of it                             *)
-----------------------------------------------------------------------------

(* Points a transaction in the chain has spent, and points that exist.      *)
Consumed == UNION {Spends[x] : x \in chain}
Existing == Coins \cup (chain \cap Transfers)

(* A transaction is mined. Others can spend only what a staked transfer     *)
(* claims, such as the outputs of a channel they share, and do so while its *)
(* outcome is open.                                                         *)
Mine(x) ==
    /\ x \notin chain
    /\ x \in Transfers => x \in sent \cup (Anchored \cap stored)
    /\ x \in Foreign => \E t \in Rivals(x) \cap stored : ~Terminal(phase[t])
    /\ Spends[x] \subseteq Existing \ Consumed
    /\ chain' = chain \cup {x}
    /\ sent' = sent \cup {x}
    /\ UNCHANGED <<send, rowVars, proved, assetVars, carried, leaseVars, phase,
                   done, buried, reorgs, faults>>

(* A block is re-organized out, and with it what spends its outputs.        *)
Descendants(x) == {x} \cup {y \in chain : x \in Spends[y]}
ReorgedOut(x) ==
    /\ x \in chain \ buried
    /\ reorgs < MaxReorgs
    /\ chain' = chain \ Descendants(x)
    /\ reorgs' = reorgs + 1
    /\ UNCHANGED <<send, rowVars, proved, assetVars, carried, leaseVars, phase,
                   done, sent, buried, faults>>

(* A transaction reaches the depth at which it cannot be undone.            *)
Bury(x) ==
    /\ x \in chain \ buried
    /\ Spends[x] \cap Transfers \subseteq buried
    /\ buried' = buried \cup {x}
    /\ UNCHANGED <<send, rowVars, proved, assetVars, carried, leaseVars, phase,
                   done, sent, chain, reorgs, faults>>

(* The buried transactions that decide against a transfer: those that       *)
(* spend one of its inputs, or that foreclose a transfer it builds on.      *)
Foreclosers(t) ==
    (Rivals(t) \cap buried)
      \cup UNION {Rivals(u) \cap buried : u \in Spends[t] \cap Transfers}

(* What the chain says of a staked transfer. An abandonment collects the    *)
(* foreclosing transactions and every foreign spend in the chain.           *)
CurrentPhase(t) ==
    CASE t \in buried -> Is("buried")
      [] t \notin buried /\ Foreclosers(t) # {} ->
           [kind |-> "abandoned", by |-> Foreclosers(t) \cup (Rivals(t) \cap chain)]
      [] t \in chain \ buried /\ Foreclosers(t) = {} -> Is("witnessed")
      [] t \notin chain /\ Foreclosers(t) = {} /\ Rivals(t) \cap chain # {} ->
           Is("conflicted")
      [] OTHER -> Is("unwitnessed")

Sense(t) ==
    /\ t \in stored
    /\ ~Terminal(phase[t])
    /\ phase[t] # CurrentPhase(t)
    /\ phase' = [phase EXCEPT ![t] = CurrentPhase(t)]
    /\ UNCHANGED <<send, rowVars, proved, assetVars, carried, leaseVars, done,
                   chainVars, faults>>

-----------------------------------------------------------------------------
(* The porter site: what a delivered phase does to the rows                 *)
-----------------------------------------------------------------------------

(* Mutant of CanRebuild: a file that has the transaction is not accepted.   *)
CanRebuild_fresh(t) ==
    /\ Spends[t] \subseteq rows
    /\ \A x \in carried[t] : Tip(file[x]) \in Spends[t]

(* A confirmation can be rebuilt from stored state: the inputs' proofs are  *)
(* there, and every carried asset's file either has this transaction or     *)
(* ends at a point it spends.                                               *)
CanRebuild(t) ==
    /\ Spends[t] \subseteq rows
    /\ \A x \in carried[t] : Contains(file[x], t) \/ Tip(file[x]) \in Spends[t]

(* ApplyAnchorTxConfirm: inputs spent, unconfirmed rivals superseded, the   *)
(* own flag lifted, outputs materialized, passive assets re-anchored.       *)
Supersede(t) == superseded \cup ((stored \ confirmed) \cap Rivals(t))
ApplyConfirm(t) ==
    /\ CanRebuild(t)
    /\ spent' = spent \cup Spends[t]
    /\ superseded' = IF t \in abandoned THEN Supersede(t) ELSE Supersede(t) \ {t}
    /\ rows' = rows \cup {t}
    /\ file' = [x \in Hosts |-> IF x \in carried[t] /\ ~Contains(file[x], t)
                                THEN Append(file[x], t) ELSE file[x]]
    /\ confirmed' = confirmed \cup {t}
    /\ UNCHANGED <<stored, abandoned, gone, leaseVars>>

(* ApplyAnchorTxUnconfirm: only the confirmation is withdrawn, and the      *)
(* transfer is superseded if a confirmed rival claims an input.             *)
ApplyUnconfirm(t) ==
    /\ confirmed' = confirmed \ {t}
    /\ superseded' = IF Rivals(t) \cap confirmed # {}
                     THEN superseded \cup {t} ELSE superseded
    /\ UNCHANGED <<stored, abandoned, assetVars, leaseVars>>

(* restorePassiveAssets: the file is rolled back from this transaction's    *)
(* proof; an asset left at a point that was taken is marked spent.          *)
RollBack(f, t) ==
    IF Contains(f, t) THEN SubSeq(f, 1, SelectInSeq(f, LAMBDA a : a = t) - 1) ELSE f
RestoredFile(t) ==
    [x \in Hosts |-> IF x \in carried[t] THEN RollBack(file[x], t) ELSE file[x]]
MarkedGone(t, taken) == gone \cup {x \in carried[t] : Tip(RestoredFile(t)[x]) \in taken}

(* Mutant of Unspent: what the foreclosing transactions took comes back.    *)
Unspent_taken(t, taken) ==
    {p \in Spends[t] \cap rows : ~\E u \in confirmed \ {t} : p \in Spends[u]}

(* The points of t that are un-spent again: not taken, their row is there,  *)
(* and no other confirmed transfer claims them (SetAssetUnspent).           *)
Unspent(t, taken) ==
    {p \in (Spends[t] \ taken) \cap rows :
        ~\E u \in confirmed \ {t} : p \in Spends[u]}

(* Mutant of Revived: the transfer's own confirmation still counts.         *)
Revived_late(t, taken) ==
    {u \in superseded \ abandoned :
        /\ u # t
        /\ Spends[u] \cap (Spends[t] \ taken) # {}
        /\ Spends[u] \cap taken = {}
        /\ Rivals(u) \cap confirmed = {}}

(* reviveSafeRivals: the superseded rivals at the points left, none of      *)
(* whose inputs was taken or is claimed by a confirmed transfer.            *)
Revived(t, taken) ==
    {u \in superseded \ abandoned :
        /\ u # t
        /\ Spends[u] \cap (Spends[t] \ taken) # {}
        /\ Spends[u] \cap taken = {}
        /\ Rivals(u) \cap (confirmed \ {t}) = {}}

(* Mutant of Released: the leases are left in place.                        *)
Released_none(t, taken) == {}

(* Restored points whose lease goes: no live transfer still claims them     *)
(* (CountLiveTransfersSpendingPoint).                                       *)
Released(t, taken) ==
    {p \in Unspent(t, taken) :
        ~\E u \in stored \ (confirmed \cup {t}) :
            /\ p \in Spends[u]
            /\ u \notin superseded \ Revived(t, taken)}

(* Mutant of ApplyAbandonment: the superseded flag is not set with it.      *)
ApplyAbandonment_resumable(t, by) ==
    LET taken == UNION {Spends[x] : x \in by} IN
    /\ rows' = rows \ {t}
    /\ file' = RestoredFile(t)
    /\ gone' = MarkedGone(t, taken)
    /\ confirmed' = confirmed \ {t}
    /\ spent' = ((spent \cup (Spends[t] \cap taken \cap rows))
                   \ Unspent(t, taken)) \ {t}
    /\ superseded' = superseded \ Revived(t, taken)
    /\ leased' = leased \ Released(t, taken)
    /\ short' = short \ Released(t, taken)
    /\ abandoned' = abandoned \cup {t}
    /\ UNCHANGED stored

(* ApplyTransferAbandonment: everything staked on t is reversed, except     *)
(* what the foreclosing transactions took.                                  *)
ApplyAbandonment(t, by) ==
    LET taken == UNION {Spends[x] : x \in by} IN
    /\ rows' = rows \ {t}
    /\ file' = RestoredFile(t)
    /\ gone' = MarkedGone(t, taken)
    /\ confirmed' = confirmed \ {t}
    /\ spent' = ((spent \cup (Spends[t] \cap taken \cap rows))
                   \ Unspent(t, taken)) \ {t}
    /\ superseded' = (superseded \ Revived(t, taken)) \cup {t}
    /\ leased' = leased \ Released(t, taken)
    /\ short' = short \ Released(t, taken)
    /\ abandoned' = abandoned \cup {t}
    /\ UNCHANGED stored

(* A delivery runs the site's handler in one transaction with the record    *)
(* of what was delivered; a handler that cannot run leaves both alone.      *)
Deliver(t) ==
    /\ phase[t] # done[t]
    /\ CASE phase[t].kind \in {"witnessed", "buried"} -> ApplyConfirm(t)
         [] phase[t].kind \in {"unwitnessed", "conflicted"} -> ApplyUnconfirm(t)
         [] phase[t].kind = "abandoned" -> ApplyAbandonment(t, phase[t].by)
    /\ done' = [done EXCEPT ![t] = phase[t]]
    /\ UNCHANGED <<send, proved, carried, phase, chainVars, faults>>

-----------------------------------------------------------------------------
(* The porter: one goroutine per transfer                                   *)
-----------------------------------------------------------------------------

Goto(t, from, to) == send[t] = from /\ send' = [send EXCEPT ![t] = to]

Fault == faults < MaxFaults /\ faults' = faults + 1

(* The passive assets at the points a transfer spends.                      *)
Passives(t) == {x \in Hosts \ gone : Tip(file[x]) \in Spends[t]}

(* RequestShipment: an address parcel starts at coin selection, one that    *)
(* is signed already at its verification.                                   *)
RequestShipment(t) ==
    /\ t \notin stored
    /\ \/ t \notin Anchored /\ Goto(t, "idle", "select") /\ UNCHANGED carried
       \/ /\ t \in Anchored
          /\ Goto(t, "idle", "verify")
          /\ carried' = [carried EXCEPT ![t] = Passives(t)]
    /\ UNCHANGED <<rowVars, proved, assetVars, leaseVars, phase, done, chainVars,
                   faults>>

(* Coin selection takes rows that are unspent, unleased and confirmed, and  *)
(* leases them under one lock.                                              *)
Eligible(p) ==
    /\ p \in rows \ (spent \cup leased)
    /\ p \in Coins \cup confirmed
SelectCoins(t) ==
    /\ Goto(t, "select", "sign")
    /\ \A p \in Spends[t] : Eligible(p)
    /\ leased' = leased \cup Spends[t]
    /\ short' = short \cup Spends[t]
    /\ UNCHANGED <<rowVars, proved, assetVars, carried, phase, done, chainVars,
                   faults>>
NoCoins(t) ==
    /\ Goto(t, "select", "failed")
    /\ \E p \in Spends[t] : ~Eligible(p)
    /\ UNCHANGED <<rowVars, proved, assetVars, carried, leaseVars, phase, done,
                   chainVars, faults>>

(* The virtual packets are signed; the anchor transaction is built and      *)
(* signed, which creates the passive packets; both are verified.            *)
Prepared ==
    UNCHANGED <<rowVars, proved, assetVars, leaseVars, phase, done, chainVars, faults>>
VirtualSign(t) == Goto(t, "sign", "anchor") /\ UNCHANGED carried /\ Prepared
AnchorSign(t) ==
    /\ Goto(t, "anchor", "verify")
    /\ carried' = [carried EXCEPT ![t] = Passives(t)]
    /\ Prepared
VerifyPreBroadcast(t) == Goto(t, "verify", "store") /\ UNCHANGED carried /\ Prepared

(* unlockInputs: before the store state the coins selected are released,    *)
(* whoever holds the lease by now. A parcel signed elsewhere selected none. *)
UnlockInputs(t) ==
    LET released == IF send[t] \in {"sign", "anchor", "verify"} /\ t \notin Anchored
                    THEN Spends[t] ELSE {}
    IN  leased' = leased \ released /\ short' = short \ released

PrepareFails(t) ==
    /\ Fault
    /\ \E s \in {"sign", "anchor", "verify", "store"} : Goto(t, s, "failed")
    /\ UnlockInputs(t)
    /\ UNCHANGED <<rowVars, proved, assetVars, carried, phase, done, chainVars>>

(* The parcel is written, its inputs leased for good and its anchoring      *)
(* registered, all in one transaction (registerParcelAnchoring).            *)
StorePreBroadcast(t) ==
    /\ Goto(t, "store", "broadcast")
    /\ stored' = stored \cup {t}
    /\ leased' = leased \cup Spends[t]
    /\ short' = short \ Spends[t]
    /\ UNCHANGED <<confirmed, superseded, abandoned, proved, assetVars, carried,
                   phase, done, chainVars, faults>>

(* The transaction is published, by us or by whoever signed it. The network *)
(* may refuse one whose rival it has seen, and must if a block spends an    *)
(* input: a double spend ends the goroutine.                                *)
Broadcast(t) ==
    /\ \/ /\ t \in Anchored \cup chain \/ Spends[t] \cap Consumed = {}
          /\ Goto(t, "broadcast", "wait")
          /\ sent' = sent \cup {t}
       \/ /\ t \notin Anchored \cup chain
          /\ Rivals(t) \cap sent # {}
          /\ Goto(t, "broadcast", "failed")
          /\ UNCHANGED sent
    /\ UNCHANGED <<rowVars, proved, assetVars, carried, leaseVars, phase, done,
                   chain, buried, reorgs, faults>>

(* The wait ends with a delivered confirmation or abandonment.              *)
WaitForOutcome(t) ==
    /\ \/ done[t].kind \in {"witnessed", "buried"} /\ Goto(t, "wait", "post")
       \/ done[t].kind = "abandoned" /\ Goto(t, "wait", "failed")
    /\ UNCHANGED <<rowVars, proved, assetVars, carried, leaseVars, phase, done,
                   chainVars, faults>>

(* importConfirmedProofFiles rebuilds and verifies the proof files: the     *)
(* block of the confirmation must still be in the chain.                    *)
ProofsImport(t) == CanRebuild(t) /\ t \in chain
StorePostConf(t) ==
    /\ IF ProofsImport(t)
       THEN Goto(t, "post", "proofs") ELSE Goto(t, "post", "failed")
    /\ UNCHANGED <<rowVars, proved, assetVars, carried, leaseVars, phase, done,
                   chainVars, faults>>

(* transferReceiverProof delivers what is still owed and records it.        *)
TransferProofs(t) ==
    /\ Goto(t, "proofs", "complete")
    /\ proved' = proved \cup ({t} \cap Addressed)
    /\ UNCHANGED <<rowVars, assetVars, carried, leaseVars, phase, done, chainVars,
                   faults>>

(* A courier that exceeds its backoff limit only sets a flag: the state     *)
(* still succeeds. Any other error ends the goroutine.                      *)
TransferIncomplete(t) ==
    /\ t \in Addressed \ proved
    /\ Fault
    /\ \/ Goto(t, "proofs", "complete")
       \/ Goto(t, "proofs", "failed")
    /\ UNCHANGED <<rowVars, proved, assetVars, carried, leaseVars, phase, done,
                   chainVars>>

(* A failing call after the parcel is stored ends the goroutine.            *)
LateFailure(t) ==
    /\ Fault
    /\ \E s \in {"broadcast", "wait", "post"} : Goto(t, s, "failed")
    /\ UNCHANGED <<rowVars, proved, assetVars, carried, leaseVars, phase, done,
                   chainVars>>

(* A coin lease of ten minutes runs out before its parcel is stored.        *)
LeaseExpires(p) ==
    /\ Fault
    /\ p \in short
    /\ leased' = leased \ {p}
    /\ short' = short \ {p}
    /\ UNCHANGED <<send, rowVars, proved, assetVars, carried, phase, done, chainVars>>

(* resumePendingParcels: unconfirmed parcels and those that still owe a     *)
(* proof, unless superseded, start over at the broadcast.                   *)
PendingParcels ==
    {t \in stored \ superseded : t \notin confirmed \/ t \in Addressed \ proved}
Restart ==
    /\ Fault
    /\ send' = [t \in Transfers |->
                  IF t \in PendingParcels THEN "broadcast" ELSE "idle"]
    /\ UNCHANGED <<rowVars, proved, assetVars, carried, leaseVars, phase, done,
                   chainVars>>

Chain == \E x \in Txs : Mine(x) \/ ReorgedOut(x) \/ Bury(x)
Watch == \E t \in Transfers : Sense(t) \/ Deliver(t)
Porter(t) ==
    \/ SelectCoins(t) \/ NoCoins(t) \/ VirtualSign(t) \/ AnchorSign(t)
    \/ VerifyPreBroadcast(t) \/ StorePreBroadcast(t)
    \/ Broadcast(t) \/ WaitForOutcome(t) \/ StorePostConf(t) \/ TransferProofs(t)
Fails(t) == PrepareFails(t) \/ TransferIncomplete(t) \/ LateFailure(t)

Next ==
    \/ Chain \/ Watch \/ Restart
    \/ \E t \in Transfers : RequestShipment(t) \/ Porter(t) \/ Fails(t)
    \/ \E p \in Points : LeaseExpires(p)

Spec == Init /\ [][Next]_vars

(* The watcher keeps sensing and retries deliveries. The goroutines, the    *)
(* miners and the network may stop at any point.                            *)
FairSpec == Spec /\ WF_vars(Watch)

-----------------------------------------------------------------------------

(* Types.                                                                   *)
TypeOK ==
    /\ send \in [Transfers -> SendStates]
    /\ stored \subseteq Transfers
    /\ confirmed \subseteq stored /\ superseded \subseteq stored
    /\ abandoned \subseteq superseded
    /\ proved \subseteq stored \cap Addressed
    /\ Coins \subseteq rows /\ rows \subseteq Coins \cup stored
    /\ spent \subseteq rows
    /\ \A x \in Hosts : file[x] \in Seq(Points) /\ file[x][1] = x
    /\ gone \subseteq Hosts
    /\ carried \in [Transfers -> SUBSET Hosts]
    /\ leased \subseteq Points /\ short \subseteq leased
    /\ \A t \in Transfers : /\ phase[t].kind \in Kinds /\ phase[t].by \subseteq Txs
                            /\ done[t].kind \in Kinds /\ done[t].by \subseteq Txs
    /\ buried \subseteq chain /\ chain \subseteq sent /\ sent \subseteq Txs
    /\ reorgs \in 0 .. MaxReorgs /\ faults \in 0 .. MaxFaults

(* Everything staked has come to its end and the rows have heard of it.     *)
Settled == \A t \in stored : Terminal(done[t])

(* Once everything staked has come to its end, the asset rows are what the  *)
(* chain says: exactly the points that exist are there, and a point that a  *)
(* transfer claimed is marked spent exactly if a transaction in the chain   *)
(* spent it, or did when the transfer was given up. However the deliveries  *)
(* of rivals and successors interleave with each other and with re-orgs,    *)
(* ApplyAnchorTxConfirm and ApplyTransferAbandonment neither lose a balance *)
(* nor invent one.                                                          *)
Ledger ==
    Settled =>
        /\ rows = Coins \cup (chain \cap stored)
        /\ \A t \in stored : \A p \in Spends[t] \cap rows :
              p \in spent <=> \/ p \in Consumed
                              \/ \E u \in stored : \E x \in done[u].by : p \in Spends[x]

(* A loser of a rivalry stays superseded, and is not resumed at startup,    *)
(* only while one of its rivals may still confirm or while the chain has    *)
(* decided against it: reviveSafeRivals forgets nobody.                     *)
LosersRevive ==
    (\A t \in stored : done[t] = phase[t] /\ phase[t] = CurrentPhase(t)) =>
        \A t \in superseded \ abandoned :
            \/ (Rivals(t) \cap stored) \ abandoned # {}
            \/ Rivals(t) \cap chain # {}

(* The passive assets the node still owns are in its balance: once all is   *)
(* settled, a passive asset is marked spent exactly if the point it sits at *)
(* was spent by a transaction that did not carry it along.                  *)
HoldingsKept ==
    Settled => \A x \in Hosts : x \in gone <=> Tip(file[x]) \in Consumed

(* No coin is locked for good: once everything staked has come to its end,  *)
(* a coin that is unspent again is free to be selected, or will be when a   *)
(* ten-minute lease runs out.                                               *)
CoinsFreed ==
    Settled => \A t \in stored : \A p \in Spends[t] \cap rows :
                 p \in leased \ short => p \in spent

(* A buried transfer ends up confirmed and unflagged, however its rivals    *)
(* stand: no delivery waits forever for another.                            *)
BuriedSettles ==
    \A t \in Transfers :
        (t \in stored /\ t \in buried) ~> (t \in confirmed \ superseded)
=============================================================================
