-------------------------------- MODULE Chain --------------------------------
(***************************************************************************)
(* The dominant chain, its re-organizations, and what the notifier reports *)
(* about it.  The contract modelled is the one the repository writes down  *)
(* in tapreorg/chainsim: a subscription dispatches historically when it is *)
(* registered, and is reconciled with the chain on every change of it.     *)
(*                                                                         *)
(* A block carries the number of re-orgs that preceded it.  Together with  *)
(* the height that number identifies the block, as the unique nonce of a   *)
(* simulated block does, and so it serves as the block hash.               *)
(***************************************************************************)
EXTENDS Phases, Sequences

CONSTANTS
    MaxHeight,   \* bound: the highest block
    MaxReorgs,   \* bound: how many re-orgs happen
    MaxReorgLen  \* bound: how many blocks one re-org connects

VARIABLES
    chain,       \* the dominant chain, a sequence of blocks
    orphaned,    \* the chains that were dominant when a re-org displaced them
    reorgs       \* how many re-orgs there were

chainVars == <<chain, orphaned, reorgs>>

Blocks == [txs : SUBSET Txs, hash : {reorgs}]

ASSUME ChainBounds == {MaxHeight, MaxReorgs, MaxReorgLen} \subseteq Nat

-----------------------------------------------------------------------------
(* Reading a chain. *)

HeightsOf(c, t) == {h \in DOMAIN c : t \in c[h].txs}
Confirmed(c, t) == HeightsOf(c, t) # {}

\* The location of a transaction, NoWitness when it is not in the chain.
findTx(c, t) ==
    IF ~Confirmed(c, t) THEN NoWitness
    ELSE LET h == CHOOSE g \in HeightsOf(c, t) : TRUE
         IN  [tx |-> t, height |-> h, block |-> c[h].hash]

\* The confirmed spender of an outpoint: at most one on a valid chain.
findSpender(c, op) == {findTx(c, t) : t \in {u \in Txs : op \in TxSpends[u] /\ Confirmed(c, u)}}

\* verifyLocation: is the recorded location part of the chain?  A height
\* above the tip is a disproof.
verifyLocation(c, w) == w.height \in DOMAIN c /\ c[w.height].hash = w.block

\* A location has depth n when its block has n - 1 blocks on top of it.
HoldsDepth(c, w, n) == verifyLocation(c, w) /\ Len(c) - w.height + 1 >= n

\* What a confirmation subscription at n confirmations stands at: a
\* transaction below the height hint when the subscription was registered
\* is hidden from it until it moves.
confReport(c, t, n, hidden) ==
    LET w == findTx(c, t)
    IN  IF w # NoWitness /\ ~hidden /\ HoldsDepth(c, w, n) THEN w ELSE NoWitness

\* The rescan of a new subscription starts at the hint.
BelowHint(c, t, hint) == Confirmed(c, t) /\ findTx(c, t).height < hint

\* No transaction twice, no outpoint spent twice, and no transaction before
\* the ones it spends from.
ValidChain(c) ==
    /\ \A t \in Txs : Cardinality(HeightsOf(c, t)) <= 1
    /\ \A op \in OutPoints : Cardinality(findSpender(c, op)) <= 1
    /\ \A h \in DOMAIN c : \A t \in c[h].txs : \A op \in TxSpends[t] :
            CreatedBy[op] # 0 => \E g \in HeightsOf(c, CreatedBy[op]) : g <= h

-----------------------------------------------------------------------------
(* Changes of the chain. *)

MineBlock ==
    /\ Len(chain) < MaxHeight
    /\ \E b \in Blocks : chain' = Append(chain, b)
    /\ ValidChain(chain')
    /\ UNCHANGED <<orphaned, reorgs>>

\* Disconnect some blocks and connect others.  The chain may shrink: a
\* shorter chain can carry more work.
Reorg ==
    /\ reorgs < MaxReorgs
    /\ orphaned' = orphaned \cup {chain}
    /\ reorgs' = reorgs + 1
    /\ \E depth \in 1..Len(chain), len \in 1..MaxReorgLen :
        /\ Len(chain) - depth + len <= MaxHeight
        /\ \E replacement \in [1..len -> [txs : SUBSET Txs, hash : {reorgs'}]] :
            chain' = SubSeq(chain, 1, Len(chain) - depth) \o replacement
    /\ ValidChain(chain')

\* Was the location once n deep in a dominant chain?
HeldDepth(w, n) == \E c \in orphaned \cup {chain} : HoldsDepth(c, w, n)

=============================================================================
