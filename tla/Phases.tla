------------------------------- MODULE Phases -------------------------------
(***************************************************************************)
(* The pure core of the re-org watcher: an anchoring's phase as a total    *)
(* function of the chain evidence recorded for it (tapreorg/phase.go and   *)
(* tapreorg/derive.go), and the way the registry assembles that evidence   *)
(* (tapdb/reorg_registry.go).                                              *)
(*                                                                         *)
(* A transaction is a positive number, which stands for its hash and keeps *)
(* the byte order the code compares hashes by.  A block hash is a number   *)
(* too.  The index of a transaction inside its block is left out: one      *)
(* transaction never sits twice in one block.                              *)
(***************************************************************************)
EXTENDS Naturals, FiniteSets

CONSTANTS
    Anchorings,  \* the anchorings that may be registered
    Txs,         \* the transactions that may confirm
    TxSpends,    \* TxSpends[t]: the outpoints transaction t spends
    CreatedBy    \* CreatedBy[op]: the transaction that creates op, 0 if none here

OutPoints == DOMAIN CreatedBy

ASSUME TransactionConstants ==
    /\ Txs \subseteq Nat \ {0} /\ (Txs = {} \/ \E n \in Txs : \A t \in Txs : t <= n)
    /\ TxSpends \in [Txs -> SUBSET OutPoints]
    /\ CreatedBy \in [OutPoints -> Txs \cup {0}]

Verdicts == {"none", "satisfies", "foreign"}

\* A Witness locates a transaction: its hash, height and block hash.
NoWitness == [tx |-> 0, height |-> 0, block |-> 0]

\* A recorded candidate spend; a transaction that was never recorded has
\* the verdict "none".  act is the sticky notifier certification.
NoSpend == [verdict |-> "none", w |-> NoWitness, onChain |-> FALSE, act |-> FALSE]

\* Staged foreclosing evidence; the evidence is absent when w is NoWitness.
NoForeclosure == [parent |-> 0, w |-> NoWitness, onChain |-> FALSE, act |-> FALSE]

-----------------------------------------------------------------------------
(* Phases: a variant and the evidence it carries. *)

Unwitnessed == [code |-> "unwitnessed", w |-> NoWitness, foreign |-> {}, parent |-> 0]
Witnessed(w) == [code |-> "witnessed", w |-> w, foreign |-> {}, parent |-> 0]
Conflicted(ws) == [code |-> "conflicted", w |-> NoWitness, foreign |-> ws, parent |-> 0]
Buried(w) == [code |-> "buried", w |-> w, foreign |-> {}, parent |-> 0]
ForeignBurial(w) == [code |-> "abandoned", w |-> w, foreign |-> {}, parent |-> 0]
Foreclosed(p, w) == [code |-> "abandoned", w |-> w, foreign |-> {}, parent |-> p]

PhaseCodes == {"unwitnessed", "witnessed", "conflicted", "buried", "abandoned"}
TerminalCodes == {"buried", "abandoned"}
IsTerminal(p) == p.code \in TerminalCodes

-----------------------------------------------------------------------------
(* Derivation. *)

\* The total preference order among recorded spends: the deeper one, then
\* the smaller transaction hash.  Spends are keyed by transaction, so the
\* order's further tie-breaks never decide.
spendPreferred(a, b) ==
    \/ a.w.height < b.w.height
    \/ a.w.height = b.w.height /\ a.w.tx < b.w.tx

\* The preferred one of a non-empty set of recorded spends.
Preferred(S) == CHOOSE s \in S : \A o \in S \ {s} : spendPreferred(s, o)

SpendsWith(spends, verdict) == {spends[t] : t \in {u \in Txs : spends[u].verdict = verdict}}
Certified(S) == {s \in S : s.act}
OnChain(S) == {s \in S : s.onChain}

\* DerivePhase, in order of evidence strength.  Contradictory
\* certifications are withheld, and a whole-set violation reads as
\* Conflicted.
DerivePhase(spends, fc) ==
    LET satisfying == SpendsWith(spends, "satisfies")
        foreign == SpendsWith(spends, "foreign")
        buried == Certified(satisfying)
        refuted == Certified(foreign)
    IN  IF buried # {} /\ refuted = {} THEN Buried(Preferred(buried).w)
        ELSE IF buried = {} /\ refuted # {} THEN ForeignBurial(Preferred(refuted).w)
        ELSE IF fc.act THEN Foreclosed(fc.parent, fc.w)
        ELSE IF OnChain(foreign) # {} THEN Conflicted({s.w : s \in OnChain(foreign)})
        ELSE IF OnChain(satisfying) # {} THEN Witnessed(Preferred(OnChain(satisfying)).w)
        ELSE Unwitnessed

-----------------------------------------------------------------------------
(* Assembling the staged foreclosure of a chain view from the edges to the *)
(* anchoring's parents.                                                    *)

\* Certified beats uncertified, then on-chain beats off-chain, then the
\* deeper one wins.
foreclosureStronger(a, b) ==
    IF a.act # b.act THEN a.act
    ELSE IF a.onChain # b.onChain THEN a.onChain
    ELSE a.w.height < b.w.height

\* On a tie the edge read first is kept: the older one, which is the one to
\* the older parent.
StrongestForeclosure(staged) ==
    IF staged = {} THEN NoForeclosure
    ELSE CHOOSE f \in staged :
            \A o \in staged \ {f} :
                \/ foreclosureStronger(f, o)
                \/ ~foreclosureStronger(o, f) /\ f.parent < o.parent

=============================================================================
