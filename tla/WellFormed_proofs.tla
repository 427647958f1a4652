-------------------------- MODULE WellFormed_proofs --------------------------
(***************************************************************************)
(* Facts about the operators ReorgWatcher is built from (what the choices  *)
(* of Phases return, what a derivation yields, what the chain and the      *)
(* notifier can report), and well-formedness, the strengthening that its   *)
(* type invariant needs: what is keyed by a transaction or a parent        *)
(* carries that key, and everything in flight refers to what is            *)
(* registered.                                                             *)
(***************************************************************************)
EXTENDS ReorgWatcher, TLAPS, WellFoundedInduction

-----------------------------------------------------------------------------
(* Choices. *)

\* A non-empty set of numbers has a least element.
LEMMA NatLeast ==
    ASSUME NEW S \in SUBSET Nat, S # {}
    PROVE  \E x \in S : \A y \in S : x <= y
<1>1. PICK x \in S : \A y \in S : ~ (<<y, x>> \in OpToRel(<, Nat))
  BY Zenon, NatLessThanWellFounded, WFMin
<1>2. \A y \in S : ~ (<<y, x>> \in {ss \in Nat \X Nat : ss[1] < ss[2]})
  BY Zenon, <1>1 DEF OpToRel
<1>3. \A y \in S : y \in Nat /\ x \in Nat /\ ~ (y < x)
  BY Zenon, <1>2
<1> QED
  BY <1>3

\* A non-empty bounded set of numbers has a greatest element.
LEMMA NatGreatest ==
    ASSUME NEW S \in SUBSET Nat, S # {}, \E n \in Nat : \A x \in S : x <= n
    PROVE  \E x \in S : \A y \in S : y <= x
<1>1. PICK n \in Nat : \A x \in S : x <= n
  BY Zenon
<1> DEFINE Above == {k \in 0..n : n - k \in S}
<1>2. Above \in SUBSET Nat /\ Above # {}
  <2>1. PICK x \in S : TRUE
    BY Zenon
  <2>2. n - x \in Above
    BY <1>1, <2>1
  <2>3. Above \in SUBSET Nat
    OBVIOUS
  <2> QED
    BY Zenon, <2>2, <2>3
<1>3. PICK k \in Above : \A j \in Above : k <= j
  <2> HIDE DEF Above
  <2> QED
    BY Zenon, <1>2, NatLeast
<1>4. \A y \in S : y <= n - k
  <2> SUFFICES ASSUME NEW y \in S PROVE y <= n - k
    BY Zenon
  <2>1. n - y \in Above
    BY <1>1
  <2> QED
    BY <1>1, <1>3, <2>1
<1> QED
  BY Zenon, <1>3, <1>4

\* Transactions and anchorings are numbered.
LEMMA Numbered ==
    /\ \A t \in Txs \cup {0} : t \in Nat
    /\ \A a \in Anchorings \cup {0} : a \in Nat
BY TransactionConstants, WatcherConstants

\* Of the recorded spends of a set, which are of distinct transactions, one is
\* preferred to all the others.
LEMMA PreferredIn ==
    ASSUME NEW S \in SUBSET Candidates, S # {},
           \A s \in S, o \in S : s.w.tx = o.w.tx => s = o
    PROVE  Preferred(S) \in S
<1>0. \A s \in S : s.w.height \in Nat /\ s.w.tx \in Nat
  BY Zenon, Numbered DEF Candidates, Witnesses
<1> DEFINE Heights == {s.w.height : s \in S}
<1>1. PICK h \in Heights : \A g \in Heights : h <= g
  <2>1. Heights \in SUBSET Nat /\ Heights # {}
    BY Zenon, <1>0
  <2> HIDE DEF Heights
  <2> QED
    BY Zenon, <2>1, NatLeast
<1> DEFINE Deepest == {s \in S : s.w.height = h}
           Hashes == {s.w.tx : s \in Deepest}
<1>2. PICK x \in Hashes : \A y \in Hashes : x <= y
  <2>1. Hashes \in SUBSET Nat /\ Hashes # {}
    BY <1>0, <1>1
  <2> HIDE DEF Hashes
  <2> QED
    BY Zenon, <2>1, NatLeast
<1>3. PICK s \in Deepest : s.w.tx = x
  BY Zenon, <1>2
<1>4. \A o \in S \ {s} : spendPreferred(s, o)
  <2> SUFFICES ASSUME NEW o \in S, o # s PROVE spendPreferred(s, o)
    BY Zenon
  <2>1. o.w.height \in Nat /\ s.w.height \in Nat /\ o.w.tx \in Nat /\ s.w.tx \in Nat
    BY Zenon, <1>0
  <2>2. s.w.height = h /\ h <= o.w.height /\ s.w.tx # o.w.tx
    BY ZenonT(30), <1>1, <1>3
  <2>3. CASE o.w.height = h
    <3>1. s.w.tx <= o.w.tx
      BY ZenonT(30), <1>2, <1>3, <2>3
    <3> QED
      BY <2>1, <2>2, <2>3, <3>1 DEF spendPreferred
  <2>4. CASE o.w.height # h
    BY <2>1, <2>2, <2>4 DEF spendPreferred
  <2> QED
    BY Zenon, <2>3, <2>4
<1> QED
  BY Zenon, <1>4 DEF Preferred

\* The strongest of the foreclosures staged on an anchoring's edges, which
\* go to distinct parents, is one of them, and a certified one if there is one.
LEMMA StrongestIn ==
    ASSUME NEW S \in SUBSET Foreclosures, S # {},
           \A f \in S, o \in S : f.parent = o.parent => f = o
    PROVE  /\ StrongestForeclosure(S) \in S
           /\ (\E f \in S : f.act) => StrongestForeclosure(S).act
<1>0. \A f \in S : f.w.height \in Nat /\ f.parent \in Nat
  BY Zenon, Numbered DEF Foreclosures, Witnesses
<1>b. \A f \in S : f.act \in BOOLEAN /\ f.onChain \in BOOLEAN
  BY Zenon DEF Foreclosures
<1> DEFINE Acts == IF \E f \in S : f.act THEN {f \in S : f.act} ELSE S
           Ons == IF \E f \in Acts : f.onChain THEN {f \in Acts : f.onChain} ELSE Acts
           Heights == {f.w.height : f \in Ons}
<1>1. Ons # {} /\ Ons \subseteq S
  BY Zenon
<1>2. PICK h \in Heights : \A g \in Heights : h <= g
  <2>1. Heights \in SUBSET Nat /\ Heights # {}
    BY <1>0, <1>1
  <2> HIDE DEF Heights
  <2> QED
    BY Zenon, <2>1, NatLeast
<1> DEFINE Deepest == {f \in Ons : f.w.height = h}
           Parents == {f.parent : f \in Deepest}
<1>3. PICK x \in Parents : \A y \in Parents : x <= y
  <2>1. Parents \in SUBSET Nat /\ Parents # {}
    BY <1>0, <1>1, <1>2
  <2> HIDE DEF Parents
  <2> QED
    BY Zenon, <2>1, NatLeast
<1>4. PICK f \in Deepest : f.parent = x
  BY Zenon, <1>3
<1>5. \A o \in S \ {f} : \/ foreclosureStronger(f, o)
                         \/ ~foreclosureStronger(o, f) /\ f.parent < o.parent
  <2> SUFFICES ASSUME NEW o \in S, o # f
               PROVE  \/ foreclosureStronger(f, o)
                      \/ ~foreclosureStronger(o, f) /\ f.parent < o.parent
    BY Zenon
  <2>1. f \in S /\ f.w.height \in Nat /\ o.w.height \in Nat /\ f.parent \in Nat /\ o.parent \in Nat
    BY Zenon, <1>0, <1>1, <1>4
  <2>2. f.w.height = h /\ f.parent # o.parent
    BY Zenon, <1>4, <2>1
  <2>3. o \in Acts \/ (f.act /\ ~o.act)
    BY Zenon, <1>4, <2>1
  <2>4. o \in Acts => f.act = o.act
    BY Zenon, <1>b, <1>4, <2>1
  <2>5. o \in Acts => o \in Ons \/ (f.onChain /\ ~o.onChain)
    BY Zenon, <1>4, <2>1
  <2>6. o \in Ons => o \in Acts /\ f.onChain = o.onChain /\ h <= o.w.height
    BY <1>b, <1>2, <1>4, <2>1
  <2>7. o \in Deepest => f.parent < o.parent
    <3>1. o \in Deepest => f.parent <= o.parent
      BY <1>3, <1>4
    <3> QED
      BY <2>1, <2>2, <3>1
  <2>8. o \in Ons /\ o.w.height = h => o \in Deepest
    BY Zenon
  <2> HIDE DEF Acts, Ons, Deepest
  <2> QED
    BY <1>b, <2>1, <2>2, <2>3, <2>4, <2>5, <2>6, <2>7, <2>8 DEF foreclosureStronger
<1>6. StrongestForeclosure(S) \in S
  BY Zenon, <1>1, <1>4, <1>5 DEF StrongestForeclosure
<1>7. ASSUME NEW g \in S, g.act PROVE StrongestForeclosure(S).act
  <2> DEFINE m == StrongestForeclosure(S)
  <2>1. \A o \in S \ {m} : \/ foreclosureStronger(m, o)
                           \/ ~foreclosureStronger(o, m) /\ m.parent < o.parent
    BY Zenon, <1>1, <1>4, <1>5 DEF StrongestForeclosure
  <2>2. m.act \in BOOLEAN /\ g.act \in BOOLEAN
    BY Zenon, <1>6 DEF Foreclosures
  <2> HIDE DEF m
  <2> QED
    BY Zenon, <1>7, <2>1, <2>2 DEF foreclosureStronger, m
<1> QED
  BY Zenon, <1>6, <1>7

-----------------------------------------------------------------------------
(* Derivation. *)

\* The witness of a phase that has one locates a transaction.
Located(ph) == ph.code \in {"witnessed", "buried", "abandoned"} => ph.w.tx \in Txs

\* Recorded spends are keyed by their transaction.
SpendsKeyed(sp) ==
    \A t \in Txs : /\ sp[t].verdict # "none" => sp[t].w.tx = t
                   /\ sp[t].verdict = "none" => ~sp[t].act

\* The spends with one verdict, or a part of them, have a preferred one.
LEMMA PreferredSpend ==
    ASSUME NEW sp \in [Txs -> Candidates], SpendsKeyed(sp), NEW v \in Verdicts \ {"none"},
           NEW S \in SUBSET SpendsWith(sp, v), S # {}
    PROVE  \E t \in Txs : Preferred(S) = sp[t] /\ sp[t] \in S /\ sp[t].w.tx = t
<1>1. S \in SUBSET Candidates
  BY Zenon DEF SpendsWith
<1>2. \A s \in S : \E t \in Txs : s = sp[t] /\ s.w.tx = t
  BY DEF SpendsWith, SpendsKeyed
<1>3. \A s \in S, o \in S : s.w.tx = o.w.tx => s = o
  BY <1>2
<1>4. Preferred(S) \in S
  BY Zenon, <1>1, <1>3, PreferredIn
<1> QED
  BY <1>2, <1>4

\* A terminal phase rests on a certified spend or on the certified foreclosure,
\* and carries its witness.
LEMMA DerivedTerminal ==
    ASSUME NEW sp \in [Txs -> Candidates], SpendsKeyed(sp), NEW fc,
           IsTerminal(DerivePhase(sp, fc))
    PROVE  \/ \E t \in Txs : sp[t].act /\ DerivePhase(sp, fc).w = sp[t].w
           \/ fc.act /\ DerivePhase(sp, fc).w = fc.w
<1> DEFINE buried == Certified(SpendsWith(sp, "satisfies"))
           refuted == Certified(SpendsWith(sp, "foreign"))
<1>1. CASE buried # {} /\ refuted = {}
  <2>1. PICK t \in Txs : Preferred(buried) = sp[t] /\ sp[t] \in buried
    BY Zenon, <1>1, PreferredSpend DEF Certified, Verdicts
  <2>2. DerivePhase(sp, fc) = Buried(sp[t].w)
    BY Zenon, <1>1, <2>1 DEF DerivePhase
  <2>3. DerivePhase(sp, fc).w = sp[t].w
    BY <2>2 DEF Buried
  <2>4. sp[t].act
    BY ZenonT(30), <2>1 DEF Certified
  <2> QED
    BY Zenon, <2>3, <2>4
<1>2. CASE buried = {} /\ refuted # {}
  <2>1. PICK t \in Txs : Preferred(refuted) = sp[t] /\ sp[t] \in refuted
    BY Zenon, <1>2, PreferredSpend DEF Certified, Verdicts
  <2>2. DerivePhase(sp, fc) = ForeignBurial(sp[t].w)
    BY Zenon, <1>2, <2>1 DEF DerivePhase
  <2>3. DerivePhase(sp, fc).w = sp[t].w
    BY <2>2 DEF ForeignBurial
  <2>4. sp[t].act
    BY Zenon, <2>1 DEF Certified
  <2> QED
    BY ZenonT(30), <2>3, <2>4
<1>3. CASE ~(buried # {} /\ refuted = {}) /\ ~(buried = {} /\ refuted # {})
  BY Zenon, <1>3 DEF DerivePhase, IsTerminal, TerminalCodes, Foreclosed, Conflicted, Witnessed, Unwitnessed
<1> QED
  BY Zenon, <1>1, <1>2, <1>3

\* The derivation yields a phase, located when its variant carries a witness.
LEMMA DerivedType ==
    ASSUME NEW sp \in [Txs -> Candidates], SpendsKeyed(sp), NEW fc \in Foreclosures,
           fc.act => fc.w.tx \in Txs
    PROVE  DerivePhase(sp, fc) \in PhaseType /\ Located(DerivePhase(sp, fc))
<1> DEFINE buried == Certified(SpendsWith(sp, "satisfies"))
           refuted == Certified(SpendsWith(sp, "foreign"))
           shown == OnChain(SpendsWith(sp, "satisfies"))
           contrary == OnChain(SpendsWith(sp, "foreign"))
           d == DerivePhase(sp, fc)
<1> USE DEF PhaseType, PhaseCodes, Located
<1>0. NoWitness \in Witnesses
  BY Zenon DEF NoWitness, Witnesses
<1>1. CASE buried # {} /\ refuted = {}
  <2>1. PICK t \in Txs : Preferred(buried) = sp[t] /\ sp[t].w.tx = t
    BY Zenon, <1>1, PreferredSpend DEF Certified, Verdicts
  <2>2. d = Buried(sp[t].w)
    BY Zenon, <1>1, <2>1 DEF DerivePhase
  <2>3. sp[t].w \in Witnesses
    BY Zenon DEF Candidates
  <2> QED
    BY <2>1, <2>2, <2>3 DEF Buried
<1>2. CASE buried = {} /\ refuted # {}
  <2>1. PICK t \in Txs : Preferred(refuted) = sp[t] /\ sp[t].w.tx = t
    BY Zenon, <1>2, PreferredSpend DEF Certified, Verdicts
  <2>2. d = ForeignBurial(sp[t].w)
    BY Zenon, <1>2, <2>1 DEF DerivePhase
  <2>3. sp[t].w \in Witnesses
    BY ZenonT(30) DEF Candidates
  <2> QED
    BY <2>1, <2>2, <2>3 DEF ForeignBurial
<1> DEFINE split == (buried # {} /\ refuted # {}) \/ (buried = {} /\ refuted = {})
<1>3. CASE split /\ fc.act
  <2>1. d = Foreclosed(fc.parent, fc.w)
    BY Zenon, <1>3 DEF DerivePhase
  <2> QED
    BY <1>3, <2>1 DEF Foreclosed, Foreclosures
<1>4. CASE split /\ ~fc.act /\ contrary # {}
  <2>1. d = Conflicted({s.w : s \in contrary})
    BY Zenon, <1>4 DEF DerivePhase
  <2>2. {s.w : s \in contrary} \subseteq Witnesses
    BY DEF OnChain, SpendsWith, Candidates
  <2> HIDE DEF contrary
  <2> QED
    BY <1>0, <2>1, <2>2 DEF Conflicted
<1>5. CASE split /\ ~fc.act /\ contrary = {} /\ shown # {}
  <2>1. PICK t \in Txs : Preferred(shown) = sp[t] /\ sp[t].w.tx = t
    BY ZenonT(30), <1>5, PreferredSpend DEF OnChain, Verdicts
  <2>2. d = Witnessed(sp[t].w)
    BY Zenon, <1>5, <2>1 DEF DerivePhase
  <2>3. sp[t].w \in Witnesses
    BY ZenonT(30) DEF Candidates
  <2> QED
    BY <2>1, <2>2, <2>3 DEF Witnessed
<1>6. CASE split /\ ~fc.act /\ contrary = {} /\ shown = {}
  <2>1. d = Unwitnessed
    BY Zenon, <1>6 DEF DerivePhase
  <2> QED
    BY <1>0, <2>1 DEF Unwitnessed
<1> QED
  BY ZenonT(30), <1>1, <1>2, <1>3, <1>4, <1>5, <1>6

\* A single certification is decisive.
LEMMA CertifiedIsTerminal ==
    ASSUME NEW sp \in [Txs -> Candidates], SpendsKeyed(sp), NEW fc,
           \A t \in Txs, u \in Txs : sp[t].act /\ sp[u].act => t = u,
           (\E t \in Txs : sp[t].act) \/ fc.act
    PROVE  IsTerminal(DerivePhase(sp, fc))
<1> DEFINE buried == Certified(SpendsWith(sp, "satisfies"))
           refuted == Certified(SpendsWith(sp, "foreign"))
<1>1. buried = {} \/ refuted = {}
  BY Zenon DEF Certified, SpendsWith
<1>2. (\E t \in Txs : sp[t].act) => buried # {} \/ refuted # {}
  <2> SUFFICES ASSUME NEW t \in Txs, sp[t].act PROVE buried # {} \/ refuted # {}
    BY Zenon
  <2>1. sp[t].verdict \in {"satisfies", "foreign"}
    BY Zenon DEF SpendsKeyed, Candidates, Verdicts
  <2> QED
    BY Zenon, <2>1 DEF Certified, SpendsWith
<1>3. DerivePhase(sp, fc).code \in {"buried", "abandoned"}
  <2> HIDE DEF buried, refuted
  <2>1. CASE buried # {} /\ refuted = {}
    BY Zenon, <2>1 DEF DerivePhase, buried, refuted, Buried
  <2>2. CASE buried = {} /\ refuted # {}
    BY Zenon, <2>2 DEF DerivePhase, buried, refuted, ForeignBurial
  <2>3. CASE buried = {} /\ refuted = {} /\ fc.act
    BY Zenon, <2>3 DEF DerivePhase, buried, refuted, Foreclosed
  <2> QED
    BY ZenonT(30), <1>1, <1>2, <2>1, <2>2, <2>3
<1> QED
  BY Zenon, <1>3 DEF IsTerminal, TerminalCodes

-----------------------------------------------------------------------------
(* The chain and the notifier. *)

\* A location is well formed, and of the transaction asked for.
LEMMA FindTxType ==
    ASSUME NEW c \in ChainType, NEW t \in Txs \cup {0}
    PROVE  /\ findTx(c, t) \in Witnesses
           /\ Confirmed(c, t) <=> findTx(c, t) # NoWitness
           /\ findTx(c, t) # NoWitness => t \in Txs /\ findTx(c, t).tx = t
<1>0. NoWitness \in Witnesses
  BY Zenon DEF NoWitness, Witnesses
<1>1. DOMAIN c \subseteq Nat \ {0} /\ \A h \in DOMAIN c : c[h].txs \subseteq Txs /\ c[h].hash \in Nat
  <2>1. Len(c) \in Nat /\ DOMAIN c = 1..Len(c)
    BY DEF ChainType
  <2> DEFINE BlockType == [txs : SUBSET Txs, hash : Nat]
  <2>2. \A h \in 1..Len(c) : c[h] \in BlockType
    <3>1. c \in Seq(BlockType)
      BY Zenon DEF ChainType
    <3> HIDE DEF BlockType
    <3> QED
      BY <3>1
  <2> QED
    BY <2>1, <2>2
<1>2. CASE ~Confirmed(c, t)
  BY Zenon, <1>0, <1>2 DEF findTx
<1>3. CASE Confirmed(c, t)
  <2> DEFINE h == CHOOSE g \in HeightsOf(c, t) : TRUE
  <2>1. h \in DOMAIN c /\ t \in c[h].txs
    BY Zenon, <1>3 DEF Confirmed, HeightsOf
  <2>2. findTx(c, t) = [tx |-> t, height |-> h, block |-> c[h].hash]
    BY Zenon, <1>3 DEF findTx
  <2> HIDE DEF h
  <2>3. h \in Nat \ {0} /\ c[h].hash \in Nat /\ t \in Txs
    BY Zenon, <1>1, <2>1
  <2> QED
    BY <1>3, <2>2, <2>3 DEF Witnesses, NoWitness
<1> QED
  BY Zenon, <1>2, <1>3

\* A report locates the transaction where it has the depth subscribed for.
LEMMA ConfReport ==
    ASSUME NEW c \in ChainType, NEW t \in Txs \cup {0}, NEW n, NEW hidden,
           confReport(c, t, n, hidden) # NoWitness
    PROVE  /\ confReport(c, t, n, hidden) \in Witnesses
           /\ t \in Txs /\ confReport(c, t, n, hidden).tx = t
           /\ HoldsDepth(c, confReport(c, t, n, hidden), n)
<1>1. confReport(c, t, n, hidden) = findTx(c, t) /\ HoldsDepth(c, findTx(c, t), n)
  BY Zenon DEF confReport
<1> QED
  BY Zenon, <1>1, FindTxType

\* The spenders the notifier reports are transactions of the model.
LEMMA FindSpender ==
    ASSUME NEW c \in ChainType, NEW op, NEW w \in findSpender(c, op)
    PROVE  w.tx \in Txs
BY Zenon, FindTxType DEF findSpender

\* Blocks are only ever appended to well-formed chains, and the chains that
\* a re-org displaces are remembered.
LEMMA ChainStep ==
    ASSUME chain \in ChainType, orphaned \subseteq ChainType, reorgs \in Nat,
           MineBlock \/ Reorg
    PROVE  /\ chain' \in ChainType /\ orphaned' \subseteq ChainType /\ reorgs' \in Nat
           /\ \A w \in Witnesses, n \in Nat : HeldDepth(w, n) => HeldDepth(w, n)'
<1> DEFINE BlockType == [txs : SUBSET Txs, hash : Nat]
<1>0. reorgs \in Nat /\ reorgs' \in Nat
  BY DEF MineBlock, Reorg
<1>1. CASE MineBlock
  <2>1. PICK b \in BlockType : chain' = Append(chain, b) /\ orphaned' = orphaned
    BY Zenon, <1>0, <1>1 DEF MineBlock, Blocks
  <2>2. /\ chain' \in ChainType /\ Len(chain') = Len(chain) + 1 /\ Len(chain) \in Nat
        /\ DOMAIN chain = 1..Len(chain) /\ DOMAIN chain' = 1..Len(chain')
        /\ \A i \in 1..Len(chain) : chain'[i] = chain[i]
    BY <2>1 DEF ChainType
  <2>3. ASSUME NEW w \in Witnesses, NEW n \in Nat, HoldsDepth(chain, w, n)
        PROVE  HoldsDepth(chain', w, n)
    <3>1. w.height \in Nat
      BY Zenon DEF Witnesses
    <3> QED
      BY <2>2, <2>3, <3>1 DEF HoldsDepth, verifyLocation
  <2> QED
    BY Zenon, <1>0, <2>1, <2>2, <2>3 DEF HeldDepth
<1>2. CASE Reorg
  <2>1. orphaned' = orphaned \cup {chain}
    BY Zenon, <1>2 DEF Reorg
  <2>2. reorgs' \in Nat /\ orphaned' \subseteq ChainType
    BY Zenon, <1>0, <2>1
  <2>a. PICK depth \in 1..Len(chain), len \in 1..MaxReorgLen :
             \E r \in [1..len -> [txs : SUBSET Txs, hash : {reorgs'}]] :
                chain' = SubSeq(chain, 1, Len(chain) - depth) \o r
    BY Zenon, <1>2 DEF Reorg
  <2>3. PICK r \in [1..len -> [txs : SUBSET Txs, hash : {reorgs'}]] :
             chain' = SubSeq(chain, 1, Len(chain) - depth) \o r
    BY Zenon, <2>a
  <2>4. Len(chain) \in Nat /\ DOMAIN chain = 1..Len(chain) /\ \A i \in 1..Len(chain) : chain[i] \in BlockType
    <3>1. chain \in Seq(BlockType)
      BY Zenon DEF ChainType
    <3> HIDE DEF BlockType
    <3> QED
      BY <3>1
  <2>5. SubSeq(chain, 1, Len(chain) - depth) \in Seq(BlockType)
    <3>1. 1 \in Int /\ Len(chain) - depth \in Int /\ \A i \in 1..(Len(chain) - depth) : chain[i] \in BlockType
      BY <2>4
    <3> HIDE DEF BlockType
    <3> QED
      BY <3>1
  <2>6. r \in Seq(BlockType)
    <3>1. len \in Nat /\ \A i \in 1..len : r[i] \in BlockType
      BY <1>0, ChainBounds
    <3>2. r \in [1..len -> BlockType]
      BY Zenon, <3>1
    <3> HIDE DEF BlockType
    <3> QED
      BY <3>1, <3>2
  <2>7. chain' \in Seq(BlockType)
    <3> HIDE DEF BlockType
    <3> QED
      BY <2>3, <2>5, <2>6
  <2> QED
    BY Zenon, <2>1, <2>2, <2>7 DEF ChainType, HeldDepth
<1> QED
  BY ZenonT(30), <1>1, <1>2

\* What a subscription of a reports about chain c: a confirmation event names
\* its subscription's kind and parent, and a location that deep.
ReportOf(e, a, subs, c) ==
    /\ e \in EventType /\ e.id = a /\ e.w.tx \in Txs
    /\ e.type \in ChainEvents
    /\ e.type \in {"loc", "act", "fc"} =>
            \E s \in subs : /\ e.type = s.kind /\ e.parent = s.parent
                            /\ HoldsDepth(c, e.w, NumConfs(a, s))

\* The fields of an event, and its type (Event builds what the notifier hands to the sensing loop).
LEMMA EventParts ==
    ASSUME NEW type, NEW a, NEW w, NEW p
    PROVE  /\ Event(type, a, w, p).type = type /\ Event(type, a, w, p).id = a
           /\ Event(type, a, w, p).w = w /\ Event(type, a, w, p).parent = p
           /\ /\ type \in {"sense", "stop", "resense", "spend", "loc", "act", "fc", "lost"}
              /\ a \in Anchorings /\ w \in Witnesses /\ p \in Anchorings \cup {0}
              => Event(type, a, w, p) \in EventType
BY Zenon DEF Event, EventType

\* A dispatched confirmation reports a subscription of the anchoring at its depth (confirmation dispatch of the notifier).
LEMMA DispatchConf ==
    ASSUME NEW a \in Anchorings, NEW subs \in SUBSET SubType, NEW s \in subs,
           NEW c \in ChainType, NEW hidden, NEW was,
           NEW e \in dispatchConf(a, s, was, confReport(c, s.tx, NumConfs(a, s), hidden))
    PROVE  ReportOf(e, a, subs, c)
<1> DEFINE now == confReport(c, s.tx, NumConfs(a, s), hidden)
<1>0. s \in SubType /\ s.kind \in {"loc", "act", "fc"} /\ s.tx \in Txs /\ s.parent \in Anchorings \cup {0}
  BY Zenon DEF SubType
<1>1. CASE now # NoWitness
  <2>1. now \in Witnesses /\ now.tx \in Txs /\ HoldsDepth(c, now, NumConfs(a, s))
    BY <1>0, <1>1, ConfReport
  <2>2. e = Event(s.kind, a, now, s.parent)
    BY Zenon, <1>1 DEF dispatchConf
  <2> HIDE DEF now
  <2>3. e.type = s.kind /\ e.id = a /\ e.w = now /\ e.parent = s.parent /\ e \in EventType
    BY <1>0, <2>1, <2>2, EventParts
  <2> QED
    BY Zenon, <1>0, <2>1, <2>3 DEF ReportOf, ChainEvents
<1>2. CASE now = NoWitness
  <2> DEFINE w == [NoWitness EXCEPT !.tx = s.tx]
  <2>1. e = Event("lost", a, w, 0)
    BY Zenon, <1>2 DEF dispatchConf, evCandidateReorg
  <2>2. w \in Witnesses /\ w.tx = s.tx
    BY Zenon, <1>0 DEF NoWitness, Witnesses
  <2> HIDE DEF w
  <2>3. e.type = "lost" /\ e.id = a /\ e.w.tx = s.tx /\ e \in EventType
    BY <2>1, <2>2, EventParts
  <2> QED
    BY Zenon, <1>0, <2>3 DEF ReportOf, ChainEvents
<1> QED
  BY Zenon, <1>1, <1>2

\* A spend detail is a report of the anchoring it is sent for.
LEMMA SpendEvent ==
    ASSUME NEW a \in Anchorings, NEW t \in Txs, NEW subs, NEW c
    PROVE  ReportOf(evSpendDetail(a, t), a, subs, c)
<1> DEFINE w == [NoWitness EXCEPT !.tx = t]
           e == evSpendDetail(a, t)
<1>1. w \in Witnesses /\ w.tx = t /\ e = Event("spend", a, w, 0)
  BY Zenon DEF NoWitness, Witnesses, evSpendDetail
<1> HIDE DEF e, w
<1>2. e.type = "spend" /\ e.id = a /\ e.w.tx = t /\ e \in EventType
  BY <1>1, EventParts
<1>3. ReportOf(e, a, subs, c)
  BY Zenon, <1>2 DEF ReportOf, ChainEvents
<1> QED
  BY Zenon, <1>3 DEF e

\* What new subscriptions report at once.
LEMMA Historical ==
    ASSUME chain \in ChainType, NEW a \in Anchorings, NEW subs \in SUBSET SubType, NEW ops
    PROVE  \A e \in HistoricalConfs(a, subs) \cup HistoricalSpends(a, ops) : ReportOf(e, a, subs, chain)
<1>1. ASSUME NEW e \in HistoricalConfs(a, subs) PROVE ReportOf(e, a, subs, chain)
  BY Zenon, DispatchConf DEF HistoricalConfs
<1>2. ASSUME NEW e \in HistoricalSpends(a, ops) PROVE ReportOf(e, a, subs, chain)
  BY ZenonT(30), FindSpender, SpendEvent DEF HistoricalSpends
<1> QED
  BY Zenon, <1>1, <1>2

\* What the subscriptions of a sensor report when the chain changes.
LEMMA Dispatching ==
    ASSUME NEW c, NEW d \in ChainType, NEW a \in Anchorings, sensors[a].subs \in SUBSET SubType,
           NEW e \in dispatch(a, c, d)
    PROVE  ReportOf(e, a, sensors[a].subs, d)
<1> DEFINE Conf(s) == dispatchConf(a, s, confReport(c, s.tx, NumConfs(a, s), s.hidden),
                            confReport(d, s.tx, NumConfs(a, s), Unhide(s, c, d).hidden))
           New(op) == {x \in findSpender(d, op) :
                            \A y \in findSpender(c, op) : y.tx = x.tx => y.height # x.height}
           News == UNION {New(op) : op \in sensors[a].watched}
<1>1. ASSUME NEW s \in sensors[a].subs, e \in Conf(s) PROVE ReportOf(e, a, sensors[a].subs, d)
  BY Zenon, <1>1, DispatchConf
<1>2. ASSUME NEW w \in News, e = evSpendDetail(a, w.tx) PROVE ReportOf(e, a, sensors[a].subs, d)
  BY ZenonT(30), <1>2, FindSpender, SpendEvent
<1>3. e \in (UNION {Conf(s) : s \in sensors[a].subs}) \cup {evSpendDetail(a, w.tx) : w \in News}
  BY Zenon DEF dispatch
<1> HIDE DEF Conf, News
<1> QED
  BY Zenon, <1>1, <1>2, <1>3

-----------------------------------------------------------------------------
(* Well-formedness: its parts, and what the operators do to them. *)


TasksOf(s) == {s[i] : i \in DOMAIN s}

ChainOK == chain \in ChainType /\ orphaned \subseteq ChainType /\ reorgs \in Nat

RowsOK ==
    /\ registered \subseteq Anchorings
    /\ triggers \in [Anchorings -> SUBSET OutPoints]
    /\ createdHeight \in [Anchorings -> Nat]

SpendsOK ==
    /\ spends \in [Anchorings -> [Txs -> Candidates]]
    /\ \A a \in Anchorings : SpendsKeyed(spends[a])

\* Staged evidence names the parent of its edge, and the edge exists.
EdgeType == [form : Txs \cup {0}, fc : Foreclosures]
EdgeKeyed(p, edge) ==
    edge.fc # NoForeclosure => edge.fc.parent = p /\ edge.fc.w.tx \in Txs /\ edge.form # 0
EdgesOK ==
    /\ edges \in [Anchorings -> [Anchorings -> EdgeType]]
    /\ \A c \in Anchorings, p \in Anchorings : EdgeKeyed(p, edges[c][p])

\* What a delivery reports is final with the phase, and an anchoring that is
\* not registered has neither spends nor a phase of its own.
PhasesOK ==
    /\ DOMAIN phase = Anchorings /\ DOMAIN delivered = Anchorings
    /\ \A a \in Anchorings :
        /\ {phase[a], delivered[a]} \subseteq PhaseType
        /\ Located(phase[a])
        /\ IsTerminal(delivered[a]) => phase[a] = delivered[a]
        /\ a \notin registered => /\ \A t \in Txs : spends[a][t].verdict = "none"
                                  /\ phase[a] = Unwitnessed /\ delivered[a] = Unwitnessed

\* Only registered anchorings are sensed; a foreclosure is watched on an edge.
SubOK(a, s) == s.kind = "fc" => s.parent \in Anchorings /\ edges[a][s.parent].form # 0
SensorOK(a) ==
    /\ sensors[a] \in SensorType
    /\ sensors[a].st # "off" \/ sensors[a].streams => a \in registered
    /\ \A s \in sensors[a].subs : SubOK(a, s)
SensorsOK == DOMAIN sensors = Anchorings /\ \A a \in Anchorings : SensorOK(a)

EventOK(e) ==
    /\ e \in EventType
    /\ e.id \in registered
    /\ e.type \in ChainEvents => e.w.tx \in Txs
    /\ e.type = "fc" => e.parent \in Anchorings /\ edges[e.id][e.parent].form # 0
EventsOK == \A e \in inflight : EventOK(e)

TaskOK(t) ==
    /\ t.op = "sweep" => /\ t.todo # {} /\ t.todo \subseteq registered
                         /\ \A a \in t.todo : t.trigs[a] \in SUBSET OutPoints
    /\ t.op = "kids" => /\ t.todo # {} /\ t.todo \subseteq registered
                        /\ Located(t.phase)
                        /\ \A c \in t.todo : edges[c][t.id].form # 0
    /\ t.op # "sweep" => t.id \in registered
LoopOK == loop \in Seq(TaskType) /\ \A t \in TasksOf(loop) : TaskOK(t)

WellFormed ==
    /\ ChainOK /\ RowsOK /\ SpendsOK /\ EdgesOK /\ PhasesOK
    /\ SensorsOK /\ EventsOK /\ LoopOK /\ faults \in 0..MaxFaults

\* The type invariant is part of well-formedness.
LEMMA WellFormedTypes == WellFormed => TypeOK
BY Zenon DEF WellFormed, TypeOK, ChainOK, RowsOK, SpendsOK, EdgesOK, EdgeType, PhasesOK, SensorsOK,
       SensorOK, EventsOK, EventOK, LoopOK

-----------------------------------------------------------------------------
(* Frames. *)

\* Rows and edges are never removed.
Grows ==
    /\ registered \subseteq registered'
    /\ \A c \in Anchorings, p \in Anchorings : edges[c][p].form # 0 => edges'[c][p].form # 0

\* A sensor that is not written stays well formed while the registry grows.
LEMMA FrameSensor ==
    ASSUME Grows, NEW a \in Anchorings, SensorOK(a), sensors'[a] = sensors[a]
    PROVE  SensorOK(a)'
BY Zenon DEF Grows, SensorOK, SubOK

\* An event in flight stays well formed while the registry grows.
LEMMA FrameEvent ==
    ASSUME Grows, registered \subseteq Anchorings, NEW e, EventOK(e)
    PROVE  EventOK(e)'
BY Zenon DEF Grows, EventOK

\* A task on the loop's stack stays well formed while the registry grows.
LEMMA FrameTask ==
    ASSUME Grows, registered \subseteq Anchorings, NEW t, TaskOK(t)
    PROVE  TaskOK(t)'
BY Zenon DEF Grows, TaskOK

-----------------------------------------------------------------------------
(* The task stack. *)

\* The task stacks of one and two tasks that the loop pushes are sequences of these tasks.
LEMMA ShortStacks ==
    /\ << >> \in Seq(TaskType) /\ TasksOf(<< >>) = {}
    /\ \A x \in TaskType : << x >> \in Seq(TaskType) /\ TasksOf(<< x >>) = {x}
    /\ \A x \in TaskType, y \in TaskType : << x, y >> \in Seq(TaskType) /\ TasksOf(<< x, y >>) = {x, y}
BY DEF TasksOf

\* Pushing tasks on a stack yields a stack of the tasks of both.
LEMMA StackConcat ==
    ASSUME NEW r \in Seq(TaskType), NEW s \in Seq(TaskType)
    PROVE  r \o s \in Seq(TaskType) /\ TasksOf(r \o s) = TasksOf(r) \cup TasksOf(s)
<1>1. /\ r \o s \in Seq(TaskType) /\ Len(r \o s) = Len(r) + Len(s)
      /\ Len(r) \in Nat /\ Len(s) \in Nat
      /\ DOMAIN r = 1..Len(r) /\ DOMAIN s = 1..Len(s) /\ DOMAIN (r \o s) = 1..(Len(r) + Len(s))
      /\ \A i \in 1..(Len(r) + Len(s)) : (r \o s)[i] = IF i <= Len(r) THEN r[i] ELSE s[i - Len(r)]
  OBVIOUS
<1>2. ASSUME NEW i \in DOMAIN (r \o s) PROVE (r \o s)[i] \in TasksOf(r) \cup TasksOf(s)
  <2>1. CASE i <= Len(r)
    BY <1>1, <2>1 DEF TasksOf
  <2>2. CASE ~(i <= Len(r))
    <3>1. i - Len(r) \in DOMAIN s /\ (r \o s)[i] = s[i - Len(r)]
      BY <1>1, <2>2
    <3> QED
      BY Zenon, <3>1 DEF TasksOf
  <2> QED
    BY Zenon, <2>1, <2>2
<1>3. ASSUME NEW i \in DOMAIN r PROVE r[i] \in TasksOf(r \o s)
  <2>1. i \in DOMAIN (r \o s) /\ (r \o s)[i] = r[i]
    BY <1>1
  <2> QED
    BY Zenon, <2>1 DEF TasksOf
<1>4. ASSUME NEW i \in DOMAIN s PROVE s[i] \in TasksOf(r \o s)
  <2>1. i + Len(r) \in DOMAIN (r \o s) /\ (r \o s)[i + Len(r)] = s[i]
    BY <1>1
  <2> QED
    BY ZenonT(30), <2>1 DEF TasksOf
<1>5. TasksOf(r \o s) \subseteq TasksOf(r) \cup TasksOf(s)
  BY ZenonT(30), <1>2 DEF TasksOf
<1>6. TasksOf(r) \cup TasksOf(s) \subseteq TasksOf(r \o s)
  BY ZenonT(30), <1>3, <1>4 DEF TasksOf
<1> QED
  BY Zenon, <1>1, <1>5, <1>6

\* The top of the stack and the rest of it.
LEMMA StackTop ==
    ASSUME loop \in Seq(TaskType), ~Idle
    PROVE  /\ Head(loop) \in TaskType /\ Tail(loop) \in Seq(TaskType)
           /\ TasksOf(loop) = {Head(loop)} \cup TasksOf(Tail(loop))
<1>1. /\ Head(loop) \in TaskType /\ Tail(loop) \in Seq(TaskType)
      /\ Len(Tail(loop)) = Len(loop) - 1 /\ Len(loop) \in Nat \ {0}
      /\ \A i \in 1..Len(Tail(loop)) : Tail(loop)[i] = loop[i + 1]
      /\ DOMAIN loop = 1..Len(loop) /\ DOMAIN Tail(loop) = 1..Len(Tail(loop))
  BY DEF Idle
<1>2. Head(loop) = loop[1]
  BY <1>1
<1>3. ASSUME NEW i \in DOMAIN loop PROVE loop[i] \in {Head(loop)} \cup TasksOf(Tail(loop))
  <2>1. CASE i = 1
    BY Zenon, <1>2, <2>1
  <2>2. CASE i # 1
    <3>1. i - 1 \in DOMAIN Tail(loop) /\ Tail(loop)[i - 1] = loop[i]
      BY <1>1, <2>2
    <3> QED
      BY Zenon, <3>1 DEF TasksOf
  <2> QED
    BY Zenon, <2>1, <2>2
<1>4. ASSUME NEW i \in DOMAIN Tail(loop) PROVE Tail(loop)[i] \in TasksOf(loop)
  <2>1. i + 1 \in DOMAIN loop /\ Tail(loop)[i] = loop[i + 1]
    BY <1>1
  <2> QED
    BY ZenonT(30), <2>1 DEF TasksOf
<1>5. Head(loop) \in TasksOf(loop)
  BY <1>1, <1>2 DEF TasksOf
<1> QED
  BY ZenonT(30), <1>1, <1>3, <1>4, <1>5 DEF TasksOf

\* New tasks replace the top of the stack.
LEMMA LoopThen ==
    ASSUME LoopOK, ~Idle, Grows, registered \subseteq Anchorings,
           NEW tasks \in Seq(TaskType), \A t \in TasksOf(tasks) : TaskOK(t)',
           loop' = Then(tasks)
    PROVE  LoopOK'
<1>1. loop \in Seq(TaskType) /\ \A t \in TasksOf(loop) : TaskOK(t)
  BY Zenon DEF LoopOK
<1>2. Tail(loop) \in Seq(TaskType) /\ TasksOf(Tail(loop)) \subseteq TasksOf(loop)
  BY Zenon, <1>1, StackTop
<1>3. loop' \in Seq(TaskType) /\ TasksOf(loop') = TasksOf(tasks) \cup TasksOf(Tail(loop))
  BY ZenonT(30), <1>2, StackConcat DEF Then
<1>4. \A t \in TasksOf(Tail(loop)) : TaskOK(t)'
  BY ZenonT(30), <1>1, <1>2, FrameTask
<1> QED
  BY Zenon, <1>3, <1>4 DEF LoopOK

\* Popping the loop's top task leaves the stack well formed.
LEMMA LoopTail ==
    ASSUME LoopOK, ~Idle, Grows, registered \subseteq Anchorings, loop' = Tail(loop)
    PROVE  LoopOK'
<1>1. loop \in Seq(TaskType) /\ \A t \in TasksOf(loop) : TaskOK(t)
  BY Zenon DEF LoopOK
<1>2. Tail(loop) \in Seq(TaskType) /\ TasksOf(Tail(loop)) \subseteq TasksOf(loop)
  BY ZenonT(30), <1>1, StackTop
<1>3. \A t \in TasksOf(Tail(loop)) : TaskOK(t)'
  BY ZenonT(30), <1>1, <1>2, FrameTask
<1> QED
  BY ZenonT(30), <1>2, <1>3 DEF LoopOK

\* A step that leaves the loop alone leaves its stack well formed.
LEMMA LoopSame ==
    ASSUME LoopOK, Grows, registered \subseteq Anchorings, loop' = loop
    PROVE  LoopOK'
BY ZenonT(30), FrameTask DEF LoopOK

\* The tasks that visit one anchoring.
LEMMA SimpleTask ==
    ASSUME NEW op \in {"adopt", "verify", "rederive", "own"}, NEW a \in registered,
           registered \subseteq Anchorings
    PROVE  Task(op, a) \in TaskType /\ TaskOK(Task(op, a)) /\ Task(op, a).op = op /\ Task(op, a).id = a
<1>1. Unwitnessed \in PhaseType
  BY Zenon DEF Unwitnessed, PhaseType, PhaseCodes, NoWitness, Witnesses
<1>2. [b \in {} |-> {}] \in [{} -> SUBSET OutPoints]
  BY Zenon
<1>3. [b \in {} |-> {}] \in UNION {[S -> SUBSET OutPoints] : S \in SUBSET Anchorings}
  BY ZenonT(30), <1>2
<1>4. Task(op, a) \in TaskType
  BY ZenonT(30), <1>1, <1>3 DEF Task, TaskType
<1> QED
  BY ZenonT(30), <1>4 DEF Task, TaskOK

\* A sweep or a restage visits its anchorings one after the other.
LEMMA Visit ==
    ASSUME NEW t \in TaskType, TaskOK(t), t.todo # {}
    PROVE  /\ First(t) \in t.todo
           /\ Others(t) \in Seq(TaskType)
           /\ \A u \in TasksOf(Others(t)) : u.op = t.op /\ (t.op \in {"sweep", "kids"} => TaskOK(u))
<1>1. t.todo \in SUBSET Nat
  BY Zenon, WatcherConstants DEF TaskType
<1>2. First(t) \in t.todo
  BY Zenon, <1>1, NatLeast DEF First
<1> DEFINE rest == t.todo \ {First(t)}
           u == [t EXCEPT !.todo = rest]
<1>3. u \in TaskType /\ u.op = t.op /\ u.id = t.id /\ u.phase = t.phase /\ u.trigs = t.trigs /\ u.todo = rest
  BY Zenon DEF TaskType
<1>4. Others(t) = IF rest = {} THEN << >> ELSE << u >>
  BY Zenon DEF Others
<1> HIDE DEF u
<1>5. rest # {} /\ t.op \in {"sweep", "kids"} => TaskOK(u)
  BY Zenon, <1>3 DEF TaskOK
<1> HIDE DEF rest
<1> QED
  BY <1>2, <1>3, <1>4, <1>5, ShortStacks

\* The restage of an anchoring's dependents.
LEMMA RestageTask ==
    ASSUME RowsOK, NEW p \in registered, NEW ph \in PhaseType, Located(ph)
    PROVE  /\ Restage(p, ph) \in Seq(TaskType)
           /\ \A t \in TasksOf(Restage(p, ph)) : t.op = "kids" /\ TaskOK(t)
<1> DEFINE kids == DependencyEdges(p)
           t == [Task("kids", p) EXCEPT !.phase = ph, !.todo = kids]
<1>1. kids \subseteq registered /\ kids \subseteq Anchorings /\ \A c \in kids : edges[c][p].form # 0
  BY Zenon DEF DependencyEdges, LiveAnchorings, RowsOK
<1>2. [b \in {} |-> {}] \in UNION {[S -> SUBSET OutPoints] : S \in SUBSET Anchorings}
  <2>1. [b \in {} |-> {}] \in [{} -> SUBSET OutPoints]
    BY Zenon
  <2> QED
    BY Zenon, <2>1
<1>3. Restage(p, ph) = IF kids = {} THEN << >> ELSE << t >>
  BY Zenon DEF Restage
<1> HIDE DEF kids
<1>4. t \in TaskType /\ t.op = "kids" /\ t.id = p /\ t.phase = ph /\ t.todo = kids
  BY ZenonT(30), <1>1, <1>2 DEF Task, TaskType, RowsOK
<1> HIDE DEF t
<1>5. kids # {} => TaskOK(t)
  BY ZenonT(30), <1>1, <1>4 DEF TaskOK
<1> QED
  BY <1>3, <1>4, <1>5, ShortStacks

-----------------------------------------------------------------------------
(* Subscriptions and events. *)

\* A subscription the sensor adds is well typed.
LEMMA NewSub ==
    ASSUME NEW kind \in {"loc", "act", "fc"}, NEW t \in Txs, NEW p \in Anchorings \cup {0}, NEW hint
    PROVE  /\ Sub(kind, t, p, hint) \in SubType
           /\ Sub(kind, t, p, hint).kind = kind /\ Sub(kind, t, p, hint).parent = p
<1>1. BelowHint(chain, t, hint) \in BOOLEAN
  BY Zenon DEF BelowHint
<1> QED
  BY ZenonT(30), <1>1 DEF Sub, SubType

\* The subscriptions to a candidate's confirmations are well formed.
LEMMA CandidateSubsOK ==
    ASSUME NEW a, NEW t \in Txs, NEW subs
    PROVE  \A s \in CandidateSubs(a, t, subs) : s \in SubType /\ s.kind \in {"loc", "act"}
BY NewSub DEF CandidateSubs

\* The subscriptions to foreclosing transactions sit on existing edges.
LEMMA ForeclosureSubsOK ==
    ASSUME NEW fc \in Foreclosures, fc # NoForeclosure => fc.w.tx \in Txs, NEW subs
    PROVE  \A s \in ForeclosureSubs(fc, subs) :
                s \in SubType /\ fc # NoForeclosure /\ s.kind = "fc" /\ s.parent = fc.parent
<1>1. fc.parent \in Anchorings \cup {0}
  BY Zenon DEF Foreclosures
<1> QED
  BY <1>1, NewSub DEF ForeclosureSubs

\* A report of subscriptions on existing edges of a registered anchoring.
LEMMA ReportOK ==
    ASSUME NEW a \in registered, NEW subs, \A s \in subs : SubOK(a, s), NEW c, NEW e,
           ReportOf(e, a, subs, c)
    PROVE  EventOK(e)
BY Zenon DEF ReportOf, EventOK, SubOK

\* The hand-offs to the sensing loop.
LEMMA HandOffOK ==
    ASSUME NEW a \in registered, registered \subseteq Anchorings
    PROVE  EventOK(evSense(a)) /\ EventOK(evStopSensing(a)) /\ EventOK(evResense(a))
<1>1. NoWitness \in Witnesses
  BY Zenon DEF NoWitness, Witnesses
<1>2. \A type \in {"sense", "stop", "resense"} :
        /\ Event(type, a, NoWitness, 0) \in EventType
        /\ Event(type, a, NoWitness, 0).type = type /\ Event(type, a, NoWitness, 0).id = a
  BY <1>1, EventParts
<1> QED
  BY ZenonT(30), <1>2 DEF EventOK, evSense, evStopSensing, evResense, ChainEvents

\* The stopped sensor is well formed: it holds no subscription and no stream.
LEMMA NoSensorOK == NoSensor \in SensorType /\ NoSensor.st = "off" /\ NoSensor.subs = {} /\ NoSensor.streams = FALSE
BY Zenon DEF NoSensor, SensorType, Verdicts

-----------------------------------------------------------------------------
(* Edges. *)

\* The absent foreclosure is a foreclosure without act-level evidence.
LEMMA NoForeclosureType == NoForeclosure \in Foreclosures /\ NoForeclosure.act = FALSE
BY Zenon DEF NoForeclosure, Foreclosures, NoWitness, Witnesses

\* Staging or clearing a foreclosure on an edge keeps its form (StageForeclosure, ClearForeclosure).
LEMMA Staging ==
    ASSUME NEW edge \in EdgeType, NEW fc \in Foreclosures
    PROVE  /\ StageForeclosure(edge, fc) \in EdgeType
           /\ StageForeclosure(edge, fc).form = edge.form
           /\ StageForeclosure(edge, fc).fc = IF edge.fc.act THEN edge.fc ELSE fc
           /\ edge.fc.act => StageForeclosure(edge, fc) = edge
           /\ ClearForeclosure(edge) \in EdgeType
           /\ ClearForeclosure(edge).form = edge.form
           /\ ClearForeclosure(edge).fc = IF edge.fc.act THEN edge.fc ELSE NoForeclosure
           /\ edge.fc.act => ClearForeclosure(edge) = edge
BY Zenon, NoForeclosureType DEF EdgeType, StageForeclosure, ClearForeclosure

\* A foreclosure built from a parent and a witness carries both.
LEMMA NewForeclosure ==
    ASSUME NEW p \in Anchorings, NEW w \in Witnesses
    PROVE  /\ Foreclosure(p, w) \in Foreclosures
           /\ Foreclosure(p, w).parent = p /\ Foreclosure(p, w).w = w /\ ~Foreclosure(p, w).act
BY Zenon DEF Foreclosure, Foreclosures

\* A restaged edge stays well formed, a certified one stays as it is, and no
\* restage certifies.
EdgeStep(p, edge, new) ==
    /\ new \in EdgeType /\ EdgeKeyed(p, new)
    /\ new.form = edge.form
    /\ edge.fc.act => new = edge
    /\ new.fc.act => edge.fc.act

\* Restaging an edge after its parent's phase moved keeps the edge keyed by the parent.
LEMMA RestagedEdge ==
    ASSUME NEW p \in Anchorings, NEW ph \in PhaseType, Located(ph),
           NEW edge \in EdgeType, EdgeKeyed(p, edge), edge.form # 0
    PROVE  EdgeStep(p, edge, restageEdge(p, ph, edge))
<1>0. ph.w \in Witnesses /\ edge.fc \in Foreclosures
  BY Zenon DEF PhaseType, EdgeType
<1>1. CASE ph.code = "abandoned"
  <2>1. restageEdge(p, ph, edge) = StageForeclosure(edge, Foreclosure(p, ph.w)) /\ ph.w.tx \in Txs
    BY Zenon, <1>1 DEF restageEdge, Located
  <2> QED
    BY <1>0, <2>1, Staging, NewForeclosure DEF EdgeStep, EdgeKeyed
<1>2. CASE ph.code \in {"witnessed", "buried"} /\ ph.w.tx = edge.form
  <2>1. restageEdge(p, ph, edge) = ClearForeclosure(edge)
    BY Zenon, <1>2 DEF restageEdge
  <2> QED
    BY <1>0, <2>1, Staging, NoForeclosureType DEF EdgeStep, EdgeKeyed
<1>3. CASE ph.code \in {"witnessed", "buried"} /\ ph.w.tx # edge.form
  <2>1. restageEdge(p, ph, edge) = StageForeclosure(edge, Foreclosure(p, ph.w)) /\ ph.w.tx \in Txs
    BY ZenonT(30), <1>3 DEF restageEdge, Located
  <2> QED
    BY <1>0, <2>1, Staging, NewForeclosure DEF EdgeStep, EdgeKeyed
<1>4. CASE ph.code \notin {"abandoned", "witnessed", "buried"} /\ edge.fc.onChain
  <2> DEFINE fc == [edge.fc EXCEPT !.onChain = FALSE]
  <2>1. restageEdge(p, ph, edge) = StageForeclosure(edge, fc)
    BY Zenon, <1>4 DEF restageEdge
  <2>2. fc \in Foreclosures /\ fc.parent = edge.fc.parent /\ fc.w = edge.fc.w /\ fc.act = edge.fc.act
    BY Zenon, <1>0 DEF Foreclosures
  <2>3. edge.fc # NoForeclosure
    BY <1>4 DEF NoForeclosure
  <2> HIDE DEF fc
  <2> QED
    BY <2>1, <2>2, <2>3, Staging DEF EdgeStep, EdgeKeyed
<1>5. CASE ph.code \notin {"abandoned", "witnessed", "buried"} /\ ~edge.fc.onChain
  <2>1. restageEdge(p, ph, edge) = edge
    BY ZenonT(30), <1>5 DEF restageEdge
  <2> QED
    BY ZenonT(30), <2>1 DEF EdgeStep
<1> QED
  BY ZenonT(30), <1>1, <1>2, <1>3, <1>4, <1>5

\* The strongest staged foreclosure is one of an existing edge.
LEMMA StagedOK ==
    ASSUME EdgesOK, NEW a \in Anchorings
    PROVE  /\ StagedForeclosure(a) \in Foreclosures
           /\ StagedForeclosure(a) # NoForeclosure =>
                \E p \in Anchorings : /\ StagedForeclosure(a) = edges[a][p].fc
                                      /\ StagedForeclosure(a).parent = p
                                      /\ StagedForeclosure(a).w.tx \in Txs
                                      /\ edges[a][p].form # 0
           /\ (\E p \in Anchorings : edges[a][p].fc.act) => StagedForeclosure(a).act
<1> DEFINE S == {edges[a][p].fc : p \in Anchorings} \ {NoForeclosure}
<1>1. \A f \in S : \E p \in Anchorings :
            f = edges[a][p].fc /\ f.parent = p /\ f.w.tx \in Txs /\ edges[a][p].form # 0
  BY DEF EdgesOK, EdgeKeyed
<1>2. S \in SUBSET Foreclosures
  BY DEF EdgesOK, EdgeType
<1>3. \A f \in S, o \in S : f.parent = o.parent => f = o
  BY <1>1
<1>4. StagedForeclosure(a) = StrongestForeclosure(S)
  BY Zenon DEF StagedForeclosure
<1>5. ASSUME NEW p \in Anchorings, edges[a][p].fc.act PROVE edges[a][p].fc \in S
  BY Zenon, <1>5, NoForeclosureType
<1> HIDE DEF S
<1>6. CASE S = {}
  BY Zenon, <1>4, <1>5, <1>6, NoForeclosureType DEF StrongestForeclosure
<1>7. CASE S # {}
  BY <1>1, <1>2, <1>3, <1>4, <1>5, <1>7, StrongestIn
<1> QED
  BY ZenonT(30), <1>6, <1>7

\* What every write to the edges but a certification does: no edge goes away,
\* a certified one is left alone, and none becomes certified.
MovesTo(p, edge, new) ==
    /\ new \in EdgeType /\ EdgeKeyed(p, new)
    /\ edge.form # 0 => new.form # 0
    /\ edge.fc.act => new = edge
    /\ new.fc.act => edge.fc.act
EdgesMove(new) ==
    /\ new \in [Anchorings -> [Anchorings -> EdgeType]]
    /\ \A c \in Anchorings, p \in Anchorings : MovesTo(p, edges[c][p], new[c][p])

\* Leaving every edge alone is a move of the edges.
LEMMA EdgesStay == EdgesOK => EdgesMove(edges)
BY Zenon DEF EdgesOK, EdgesMove, MovesTo

\* A step that moves edges keeps them well formed.
LEMMA EdgesMoved ==
    ASSUME EdgesMove(edges') PROVE EdgesOK'
BY Zenon DEF EdgesMove, MovesTo, EdgesOK

\* A certified edge exists.
LEMMA CertifiedEdge ==
    ASSUME EdgesOK, NEW c \in Anchorings, NEW p \in Anchorings, edges[c][p].fc.act
    PROVE  edges[c][p].form # 0
BY ZenonT(30), NoForeclosureType DEF EdgesOK, EdgeKeyed

\* Edges derived from a recorded candidate.
LEMMA DerivedEdgesMove ==
    ASSUME EdgesOK, NEW p \in Anchorings, NEW c, c.verdict = "satisfies" => c.w.tx \in Txs
    PROVE  EdgesMove(DerivedEdges(p, c))
<1> DEFINE D == DerivedEdges(p, c)
<1>0. \A t \in Txs : t # 0
  BY ZenonT(30), TransactionConstants
<1>1. ASSUME NEW ch \in Anchorings
      PROVE  \/ D[ch] = edges[ch]
             \/ edges[ch][p].form = 0 /\ c.w.tx \in Txs /\ D[ch] = [edges[ch] EXCEPT ![p].form = c.w.tx]
  BY ZenonT(30), <1>1 DEF DerivedEdges
<1>2. D = [ch \in Anchorings |-> D[ch]]
  BY Zenon DEF DerivedEdges
<1> HIDE DEF D
<1>3. ASSUME NEW ch \in Anchorings
      PROVE  D[ch] \in [Anchorings -> EdgeType] /\ \A q \in Anchorings : MovesTo(q, edges[ch][q], D[ch][q])
  <2>0. edges[ch] \in [Anchorings -> EdgeType] /\ \A q \in Anchorings : EdgeKeyed(q, edges[ch][q])
    BY Zenon DEF EdgesOK
  <2>1. CASE D[ch] = edges[ch]
    BY ZenonT(30), <2>0, <2>1 DEF MovesTo
  <2>2. CASE edges[ch][p].form = 0 /\ c.w.tx \in Txs /\ D[ch] = [edges[ch] EXCEPT ![p].form = c.w.tx]
    <3> DEFINE e == [edges[ch][p] EXCEPT !.form = c.w.tx]
    <3>1. e \in EdgeType /\ e.form = c.w.tx /\ e.fc = edges[ch][p].fc
      BY <2>0, <2>2 DEF EdgeType
    <3>2. D[ch] \in [Anchorings -> EdgeType] /\ D[ch][p] = e /\ \A q \in Anchorings \ {p} : D[ch][q] = edges[ch][q]
      BY Zenon, <2>0, <2>2, <3>1
    <3> HIDE DEF e
    <3>3. MovesTo(p, edges[ch][p], e)
      BY Zenon, <1>0, <2>0, <2>2, <3>1, CertifiedEdge DEF MovesTo, EdgeKeyed
    <3>4. ASSUME NEW q \in Anchorings \ {p} PROVE MovesTo(q, edges[ch][q], D[ch][q])
      BY ZenonT(30), <2>0, <3>2 DEF MovesTo
    <3> QED
      BY ZenonT(30), <3>2, <3>3, <3>4
  <2> QED
    BY ZenonT(30), <1>1, <2>1, <2>2
<1>4. D \in [Anchorings -> [Anchorings -> EdgeType]]
  BY ZenonT(30), <1>2, <1>3
<1>5. EdgesMove(D)
  BY ZenonT(30), <1>3, <1>4 DEF EdgesMove
<1> QED
  BY ZenonT(30), <1>5 DEF D

\* Edges derived from new triggers.
LEMMA ParentEdgesMove ==
    ASSUME EdgesOK, NEW c \in Anchorings, NEW new \in SUBSET OutPoints
    PROVE  /\ ParentEdges(c, new) \in [Anchorings -> EdgeType]
           /\ \A p \in Anchorings : MovesTo(p, edges[c][p], ParentEdges(c, new)[p])
<1> DEFINE P == ParentEdges(c, new)
           forms(p) == {CreatedBy[op] : op \in {o \in new : p \in LiveParentsOf(c, CreatedBy[o])}}
           last(p) == CHOOSE t \in forms(p) : \A u \in forms(p) : u <= t
<1>1. ASSUME NEW p \in Anchorings, forms(p) # {} PROVE last(p) \in Txs
  <2>1. forms(p) \subseteq Txs
    BY ZenonT(30), TransactionConstants DEF LiveParentsOf
  <2>2. forms(p) \in SUBSET Nat /\ \E n \in Nat : \A t \in forms(p) : t <= n
    <3>1. PICK n \in Txs : \A t \in Txs : t <= n
      BY ZenonT(30), <1>1, <2>1, TransactionConstants
    <3> QED
      BY ZenonT(30), <2>1, <3>1, TransactionConstants
  <2> HIDE DEF forms
  <2>3. last(p) \in forms(p)
    BY ZenonT(30), <1>1, <2>2, NatGreatest
  <2> QED
    BY ZenonT(30), <2>1, <2>3
<1>2. ASSUME NEW p \in Anchorings
      PROVE  P[p] = IF edges[c][p].form # 0 \/ forms(p) = {} THEN edges[c][p]
                    ELSE [NoEdge EXCEPT !.form = last(p)]
  BY Zenon DEF ParentEdges
<1>3. P = [p \in Anchorings |-> P[p]]
  BY DEF ParentEdges
<1> HIDE DEF P, forms, last
<1>4. ASSUME NEW p \in Anchorings PROVE MovesTo(p, edges[c][p], P[p])
  <2>0. edges[c][p] \in EdgeType /\ EdgeKeyed(p, edges[c][p])
    BY Zenon DEF EdgesOK
  <2>1. CASE edges[c][p].form # 0 \/ forms(p) = {}
    BY Zenon, <1>2, <2>0, <2>1 DEF MovesTo
  <2>2. CASE edges[c][p].form = 0 /\ forms(p) # {}
    <3> DEFINE e == [NoEdge EXCEPT !.form = last(p)]
    <3>1. e \in EdgeType /\ e.fc = NoForeclosure /\ e.form = last(p)
      BY ZenonT(30), <1>1, <2>2, NoForeclosureType DEF NoEdge, EdgeType
    <3>2. P[p] = e
      BY ZenonT(30), <1>2, <2>2
    <3> HIDE DEF e
    <3> QED
      BY ZenonT(30), <2>0, <2>2, <3>1, <3>2, CertifiedEdge, NoForeclosureType DEF MovesTo, EdgeKeyed
  <2> QED
    BY Zenon, <2>1, <2>2
<1>5. P \in [Anchorings -> EdgeType]
  BY ZenonT(30), <1>3, <1>4 DEF MovesTo
<1> QED
  BY ZenonT(30), <1>4, <1>5 DEF P

\* Clearing or staging an edge when its parent settles moves the edge.
LEMMA SettledEdge ==
    ASSUME NEW p \in Anchorings, NEW w \in Witnesses, w.tx \in Txs,
           NEW edge \in EdgeType, EdgeKeyed(p, edge), edge.form # 0
    PROVE  /\ MovesTo(p, edge, ClearForeclosure(edge))
           /\ MovesTo(p, edge, StageForeclosure(edge, Foreclosure(p, w)))
<1> DEFINE cleared == ClearForeclosure(edge)
           fc == Foreclosure(p, w)
           staged == StageForeclosure(edge, fc)
<1>1. /\ cleared \in EdgeType /\ cleared.form = edge.form
      /\ cleared.fc = IF edge.fc.act THEN edge.fc ELSE NoForeclosure
      /\ edge.fc.act => cleared = edge
  BY ZenonT(30), NoForeclosureType, Staging
<1>2. fc \in Foreclosures /\ fc.parent = p /\ fc.w = w /\ ~fc.act
  BY ZenonT(30), NewForeclosure
<1> HIDE DEF fc
<1>3. /\ staged \in EdgeType /\ staged.form = edge.form
      /\ staged.fc = IF edge.fc.act THEN edge.fc ELSE fc
      /\ edge.fc.act => staged = edge
  BY ZenonT(30), <1>2, Staging
<1> HIDE DEF cleared, staged
<1>4. MovesTo(p, edge, cleared)
  BY ZenonT(30), <1>1, NoForeclosureType DEF MovesTo, EdgeKeyed
<1>5. MovesTo(p, edge, staged)
  BY ZenonT(30), <1>2, <1>3 DEF MovesTo, EdgeKeyed
<1> QED
  BY ZenonT(30), <1>4, <1>5 DEF cleared, staged, fc

\* The settlement of the dependents' edges.
LEMMA SettledEdgesMove ==
    ASSUME EdgesOK, NEW p \in Anchorings, NEW ph \in PhaseType, Located(ph)
    PROVE  EdgesMove(settleDependentEdges(p, ph))
<1> DEFINE S == settleDependentEdges(p, ph)
           E(c) == IF ph.code = "buried" /\ edges[c][p].form = ph.w.tx
                   THEN ClearForeclosure(edges[c][p])
                   ELSE StageForeclosure(edges[c][p], Foreclosure(p, ph.w))
<1>1. ASSUME NEW c \in Anchorings
      PROVE  \/ S[c] = edges[c]
             \/ IsTerminal(ph) /\ edges[c][p].form # 0 /\ S[c] = [edges[c] EXCEPT ![p] = E(c)]
  BY ZenonT(30), <1>1 DEF settleDependentEdges, DependencyEdges
<1>2. S = [c \in Anchorings |-> S[c]]
  BY Zenon DEF settleDependentEdges
<1> HIDE DEF S
<1>3. ASSUME NEW c \in Anchorings
      PROVE  S[c] \in [Anchorings -> EdgeType] /\ \A q \in Anchorings : MovesTo(q, edges[c][q], S[c][q])
  <2>0. edges[c] \in [Anchorings -> EdgeType] /\ \A q \in Anchorings : EdgeKeyed(q, edges[c][q])
    BY Zenon DEF EdgesOK
  <2>1. CASE S[c] = edges[c]
    BY ZenonT(30), <2>0, <2>1 DEF MovesTo
  <2>2. CASE IsTerminal(ph) /\ edges[c][p].form # 0 /\ S[c] = [edges[c] EXCEPT ![p] = E(c)]
    <3>1. ph.w \in Witnesses /\ ph.w.tx \in Txs
      BY ZenonT(30), <2>2 DEF PhaseType, Located, IsTerminal, TerminalCodes
    <3>2. MovesTo(p, edges[c][p], E(c))
      BY ZenonT(30), <2>0, <2>2, <3>1, SettledEdge
    <3>3. E(c) \in EdgeType
      BY ZenonT(30), <3>2 DEF MovesTo
    <3> HIDE DEF E
    <3>4. S[c] \in [Anchorings -> EdgeType] /\ S[c][p] = E(c) /\ \A q \in Anchorings \ {p} : S[c][q] = edges[c][q]
      BY ZenonT(30), <2>0, <2>2, <3>3
    <3>5. ASSUME NEW q \in Anchorings \ {p} PROVE MovesTo(q, edges[c][q], S[c][q])
      BY ZenonT(30), <2>0, <3>4 DEF MovesTo
    <3> QED
      BY ZenonT(30), <3>2, <3>4, <3>5
  <2> QED
    BY ZenonT(30), <1>1, <2>1, <2>2
<1>4. S \in [Anchorings -> [Anchorings -> EdgeType]]
  BY ZenonT(30), <1>2, <1>3
<1>5. EdgesMove(S)
  BY ZenonT(30), <1>3, <1>4 DEF EdgesMove
<1> QED
  BY ZenonT(30), <1>5 DEF S

\* Replacing one anchoring's row of edges keeps the table well typed.
LEMMA ReplacedRow ==
    ASSUME EdgesOK, NEW c \in Anchorings, NEW row \in [Anchorings -> EdgeType],
           \A p \in Anchorings : MovesTo(p, edges[c][p], row[p])
    PROVE  EdgesMove([edges EXCEPT ![c] = row])
<1>1. edges \in [Anchorings -> [Anchorings -> EdgeType]]
  BY Zenon DEF EdgesOK
<1>2. [edges EXCEPT ![c] = row] \in [Anchorings -> [Anchorings -> EdgeType]]
  BY ZenonT(30), <1>1
<1>3. \A d \in Anchorings : [edges EXCEPT ![c] = row][d] = IF d = c THEN row ELSE edges[d]
  BY ZenonT(30), <1>1
<1>4. ASSUME NEW d \in Anchorings, d # c, NEW p \in Anchorings PROVE MovesTo(p, edges[d][p], edges[d][p])
  BY Zenon DEF EdgesOK, MovesTo
<1> QED
  BY ZenonT(30), <1>2, <1>3, <1>4 DEF EdgesMove

\* Replacing one edge by one it may move to is a move of the edges.
LEMMA ReplacedEdge ==
    ASSUME EdgesOK, NEW c \in Anchorings, NEW p \in Anchorings, NEW edge,
           MovesTo(p, edges[c][p], edge)
    PROVE  EdgesMove([edges EXCEPT ![c][p] = edge])
<1> DEFINE row == [edges[c] EXCEPT ![p] = edge]
<1>1. edges[c] \in [Anchorings -> EdgeType] /\ edge \in EdgeType
  BY Zenon DEF EdgesOK, MovesTo
<1>2. row \in [Anchorings -> EdgeType] /\ \A q \in Anchorings : row[q] = IF q = p THEN edge ELSE edges[c][q]
  BY ZenonT(30), <1>1
<1>3. ASSUME NEW q \in Anchorings, q # p PROVE MovesTo(q, edges[c][q], edges[c][q])
  BY Zenon DEF EdgesOK, MovesTo
<1>4. [edges EXCEPT ![c][p] = edge] = [edges EXCEPT ![c] = row]
  BY Zenon DEF EdgesOK
<1> HIDE DEF row
<1>5. \A q \in Anchorings : MovesTo(q, edges[c][q], row[q])
  BY ZenonT(30), <1>2, <1>3
<1> QED
  BY ZenonT(30), <1>2, <1>4, <1>5, ReplacedRow

\* Restaging one dependent is a move of the edges.
LEMMA RestageMoves ==
    ASSUME NEW p \in Anchorings, NEW edge, NEW new, EdgeStep(p, edge, new)
    PROVE  MovesTo(p, edge, new)
BY Zenon DEF EdgeStep, MovesTo

-----------------------------------------------------------------------------
(* Spends. *)

\* The absent spend is a candidate without verdict.
LEMMA NoSpendType == NoSpend \in Candidates /\ NoSpend.verdict = "none" /\ NoSpend.act = FALSE
BY Zenon DEF NoSpend, Candidates, Verdicts, NoWitness, Witnesses

\* Marking candidates off-chain changes nothing else about them.
LEMMA OffChain ==
    ASSUME SpendsOK, NEW a \in Anchorings, NEW gone
    PROVE  /\ MarkedOffChain(a, gone) \in [Anchorings -> [Txs -> Candidates]]
           /\ \A b \in Anchorings : SpendsKeyed(MarkedOffChain(a, gone)[b])
           /\ \A b \in Anchorings, t \in Txs :
                LET old == spends[b][t]
                    new == MarkedOffChain(a, gone)[b][t]
                IN  new.verdict = old.verdict /\ new.w = old.w /\ new.act = old.act
           /\ \A b \in Anchorings \ {a} : MarkedOffChain(a, gone)[b] = spends[b]
<1> DEFINE row == [t \in Txs |-> IF t \in gone THEN [spends[a][t] EXCEPT !.onChain = FALSE]
                                 ELSE spends[a][t]]
           M == MarkedOffChain(a, gone)
<1>0. spends \in [Anchorings -> [Txs -> Candidates]]
  BY Zenon DEF SpendsOK
<1>1. M = [spends EXCEPT ![a] = row]
  BY Zenon DEF MarkedOffChain
<1>2. ASSUME NEW t \in Txs
      PROVE  LET old == spends[a][t]
                 new == row[t]
             IN  /\ new \in Candidates
                 /\ new.verdict = old.verdict /\ new.w = old.w /\ new.act = old.act
  <2>1. spends[a][t] \in Candidates
    BY ZenonT(30), <1>0
  <2>2. row[t] = IF t \in gone THEN [spends[a][t] EXCEPT !.onChain = FALSE] ELSE spends[a][t]
    BY Zenon
  <2> HIDE DEF row
  <2>3. row[t] \in Candidates
    BY ZenonT(30), <2>1, <2>2 DEF Candidates
  <2>4. /\ row[t].verdict = spends[a][t].verdict /\ row[t].w = spends[a][t].w
        /\ row[t].act = spends[a][t].act
    BY ZenonT(30), <2>1, <2>2 DEF Candidates
  <2> QED
    BY ZenonT(30), <2>3, <2>4
<1>3. row \in [Txs -> Candidates]
  BY ZenonT(30), <1>2
<1> HIDE DEF row
<1>4. SpendsKeyed(row)
  <2>1. SpendsKeyed(spends[a])
    BY Zenon DEF SpendsOK
  <2> QED
    BY ZenonT(30), <1>2, <2>1 DEF SpendsKeyed
<1>5. M \in [Anchorings -> [Txs -> Candidates]] /\ M[a] = row /\ \A b \in Anchorings \ {a} : M[b] = spends[b]
  BY ZenonT(30), <1>0, <1>1, <1>3
<1> HIDE DEF M
<1>6. \A b \in Anchorings : SpendsKeyed(M[b])
  BY ZenonT(30), <1>4, <1>5 DEF SpendsOK
<1>7. \A b \in Anchorings, t \in Txs : /\ M[b][t].verdict = spends[b][t].verdict
                                       /\ M[b][t].w = spends[b][t].w /\ M[b][t].act = spends[b][t].act
  BY ZenonT(30), <1>2, <1>5
<1> QED
  BY ZenonT(30), <1>5, <1>6, <1>7 DEF M

\* One recorded candidate is written.
LEMMA Recorded ==
    ASSUME SpendsOK, NEW a \in Anchorings, NEW t \in Txs, NEW c \in Candidates,
           c.w.tx = t, c.verdict # "none"
    PROVE  /\ [spends EXCEPT ![a][t] = c] \in [Anchorings -> [Txs -> Candidates]]
           /\ \A b \in Anchorings : SpendsKeyed([spends EXCEPT ![a][t] = c][b])
           /\ \A b \in Anchorings, u \in Txs :
                [spends EXCEPT ![a][t] = c][b][u] = IF b = a /\ u = t THEN c ELSE spends[b][u]
           /\ \A b \in Anchorings \ {a} : [spends EXCEPT ![a][t] = c][b] = spends[b]
<1> DEFINE M == [spends EXCEPT ![a][t] = c]
<1>0. spends \in [Anchorings -> [Txs -> Candidates]] /\ \A b \in Anchorings : SpendsKeyed(spends[b])
  BY Zenon DEF SpendsOK
<1>1. M \in [Anchorings -> [Txs -> Candidates]] /\ \A b \in Anchorings \ {a} : M[b] = spends[b]
  BY ZenonT(30), <1>0
<1>2. \A b \in Anchorings, u \in Txs : M[b][u] = IF b = a /\ u = t THEN c ELSE spends[b][u]
  BY ZenonT(30), <1>0
<1> HIDE DEF M
<1>3. \A b \in Anchorings : SpendsKeyed(M[b])
  BY <1>0, <1>2 DEF SpendsKeyed
<1> QED
  BY Zenon, <1>1, <1>2, <1>3 DEF M

-----------------------------------------------------------------------------
(* Steps, component by component. *)

\* A step that leaves the registry alone lets nothing shrink.
LEMMA RegistrySame ==
    ASSUME WellFormed, UNCHANGED registryVars
    PROVE  RowsOK' /\ SpendsOK' /\ EdgesOK' /\ PhasesOK' /\ Grows
BY Zenon DEF WellFormed, registryVars, RowsOK, SpendsOK, EdgesOK, PhasesOK, Grows

\* A step that leaves the chain alone leaves it well typed.
LEMMA ChainSame == ASSUME ChainOK, UNCHANGED chainVars PROVE ChainOK'
BY Zenon DEF ChainOK, chainVars

\* Moved edges keep their forms, so the registry only grows.
LEMMA EdgesGrow ==
    ASSUME EdgesMove(edges'), registered \subseteq registered'
    PROVE  EdgesOK' /\ Grows
BY ZenonT(30), EdgesMoved DEF EdgesMove, MovesTo, Grows

\* A step that leaves the sensors alone leaves them well formed.
LEMMA SensorsSame ==
    ASSUME SensorsOK, Grows, sensors' = sensors
    PROVE  SensorsOK'
BY Zenon, FrameSensor DEF SensorsOK

\* Writing one well-formed sensor of a registered anchoring keeps all of them well formed.
LEMMA SensorWritten ==
    ASSUME SensorsOK, Grows, NEW a \in Anchorings, NEW s \in SensorType,
           s.st # "off" \/ s.streams => a \in registered',
           \A x \in s.subs : SubOK(a, x)',
           sensors' = [sensors EXCEPT ![a] = s]
    PROVE  SensorsOK'
<1>1. DOMAIN sensors' = Anchorings /\ sensors'[a] = s /\ \A b \in Anchorings \ {a} : sensors'[b] = sensors[b]
  BY Zenon DEF SensorsOK
<1>2. SensorOK(a)'
  BY ZenonT(30), <1>1 DEF SensorOK
<1>3. ASSUME NEW b \in Anchorings \ {a} PROVE SensorOK(b)'
  BY ZenonT(30), <1>1, FrameSensor DEF SensorsOK
<1> QED
  BY ZenonT(30), <1>1, <1>2, <1>3 DEF SensorsOK

\* Stopping a sensor keeps all of them well formed.
LEMMA SensorStopped ==
    ASSUME SensorsOK, Grows, NEW a \in Anchorings, sensors' = StopSensor(a)
    PROVE  SensorsOK'
BY ZenonT(30), SensorWritten, NoSensorOK DEF StopSensor

\* Adding well-formed events keeps the events in flight well formed.
LEMMA EventsAdded ==
    ASSUME EventsOK, Grows, RowsOK, NEW new, inflight' \subseteq inflight \cup new,
           \A e \in new : EventOK(e)'
    PROVE  EventsOK'
<1>1. ASSUME NEW e \in inflight PROVE EventOK(e)'
  BY ZenonT(30), FrameEvent DEF EventsOK, RowsOK
<1> QED
  BY ZenonT(30), <1>1 DEF EventsOK

\* Taking events out keeps the events in flight well formed.
LEMMA EventsKept ==
    ASSUME EventsOK, Grows, RowsOK, inflight' \subseteq inflight
    PROVE  EventsOK'
BY ZenonT(30), FrameEvent DEF EventsOK, RowsOK

\* A counted fault stays within its bound.
LEMMA FaultCounted ==
    ASSUME faults \in 0..MaxFaults, Fault \/ UNCHANGED faults
    PROVE  faults' \in 0..MaxFaults
BY WatcherConstants DEF Fault

\* New subscriptions of a registered anchoring bring well-formed reports.
LEMMA ReportsAdded ==
    ASSUME ChainOK, EventsOK, Grows, RowsOK, NEW a \in registered, NEW subs \in SUBSET SubType,
           \A s \in subs : SubOK(a, s), NEW ops, NEW old, old \subseteq inflight,
           inflight' \subseteq old \cup (HistoricalConfs(a, subs) \cup HistoricalSpends(a, ops))
    PROVE  EventsOK'
<1> DEFINE new == HistoricalConfs(a, subs) \cup HistoricalSpends(a, ops)
<1>1. a \in Anchorings
  BY Zenon DEF RowsOK
<1>2. ASSUME NEW e \in new PROVE EventOK(e)
  BY Zenon, <1>1, Historical, ReportOK DEF ChainOK
<1>3. ASSUME NEW e \in new PROVE EventOK(e)'
  BY ZenonT(30), <1>2, FrameEvent DEF RowsOK
<1>4. inflight' \subseteq inflight \cup new
  BY Zenon
<1> HIDE DEF new
<1> QED
  BY Zenon, <1>3, <1>4, EventsAdded

\* The task at the top of the stack.
LEMMA TopTask ==
    ASSUME LoopOK, ~Idle
    PROVE  Head(loop) \in TaskType /\ TaskOK(Head(loop)) /\ Head(loop) \in TasksOf(loop)
BY ZenonT(30), StackTop DEF LoopOK

\* Up to its reconciliation, the start of a sensor.
LEMMA Subscribed ==
    ASSUME WellFormed, ~Idle, UNCHANGED <<chainVars, registryVars, faults>>,
           NEW a \in registered, NEW trigs \in SUBSET OutPoints, NEW rest \in Seq(TaskType),
           \A t \in TasksOf(rest) : TaskOK(t), Subscribe(a, trigs, rest)
    PROVE  WellFormed'
<1> DEFINE subs == UNION {CandidateSubs(a, t, {}) : t \in {u \in Txs : spends[a][u] # NoSpend}}
           s == [st |-> "starting", watched |-> trigs, cached |-> trigs, subs |-> subs,
                 pending |-> [t \in Txs |-> "none"], streams |-> TRUE]
<1>0. a \in Anchorings /\ registered \subseteq Anchorings
  BY Zenon DEF WellFormed, RowsOK
<1>1. \A x \in subs : x \in SubType /\ x.kind \in {"loc", "act"}
  BY CandidateSubsOK
<1>2. /\ sensors' = [sensors EXCEPT ![a] = s]
      /\ inflight' = inflight \cup HistoricalConfs(a, subs) \cup HistoricalSpends(a, trigs)
      /\ loop' = Then(<< Task("verify", a) >> \o rest)
  BY Zenon DEF Subscribe
<1> HIDE DEF subs
<1>3. s \in SensorType /\ s.st = "starting" /\ s.subs = subs
  BY Zenon, <1>1 DEF SensorType, Verdicts
<1> HIDE DEF s
<1>4. RowsOK' /\ SpendsOK' /\ EdgesOK' /\ PhasesOK' /\ Grows /\ ChainOK'
  BY Zenon, RegistrySame, ChainSame DEF WellFormed
<1>5. \A x \in subs : SubOK(a, x) /\ SubOK(a, x)'
  BY ZenonT(30), <1>1 DEF SubOK
<1>6. SensorsOK'
  BY ZenonT(30), <1>0, <1>2, <1>3, <1>4, <1>5, SensorWritten DEF WellFormed, registryVars
<1>7. EventsOK'
  BY ZenonT(30), <1>1, <1>2, <1>4, <1>5, ReportsAdded DEF WellFormed
<1>8. LoopOK'
  <2>1. Task("verify", a) \in TaskType /\ TaskOK(Task("verify", a))
    BY ZenonT(30), <1>0, SimpleTask
  <2> DEFINE v == << Task("verify", a) >>
             tasks == v \o rest
  <2>a. v \in Seq(TaskType) /\ \A t \in TasksOf(v) : TaskOK(t)
    BY <2>1, ShortStacks
  <2> HIDE DEF v
  <2>2. tasks \in Seq(TaskType) /\ \A t \in TasksOf(tasks) : TaskOK(t)
    BY Zenon, <2>a, StackConcat
  <2> HIDE DEF tasks
  <2>3. \A t \in TasksOf(tasks) : TaskOK(t)'
    BY ZenonT(30), <1>0, <1>4, <2>2, FrameTask
  <2> QED
    BY ZenonT(30), <1>0, <1>2, <1>4, <2>2, <2>3, LoopThen DEF WellFormed, tasks, v
<1> QED
  BY ZenonT(30), <1>4, <1>6, <1>7, <1>8 DEF WellFormed

\* The tasks that follow the start of a sensor are well formed.
LEMMA AfterStartTasks ==
    ASSUME NEW a \in registered, registered \subseteq Anchorings
    PROVE  AfterStart(a) \in Seq(TaskType) /\ \A t \in TasksOf(AfterStart(a)) : TaskOK(t)
<1>1. /\ Task("rederive", a) \in TaskType /\ TaskOK(Task("rederive", a))
      /\ Task("own", a) \in TaskType /\ TaskOK(Task("own", a))
  BY Zenon, SimpleTask
<1> QED
  BY <1>1, ShortStacks DEF AfterStart

\* Tasks that are fit for the present registry replace the top of the stack.
LEMMA LoopContinues ==
    ASSUME WellFormed, ~Idle, Grows, NEW tasks \in Seq(TaskType),
           \A t \in TasksOf(tasks) : TaskOK(t), loop' = Then(tasks)
    PROVE  LoopOK'
<1>1. registered \subseteq Anchorings /\ LoopOK
  BY Zenon DEF WellFormed, RowsOK
<1>2. \A t \in TasksOf(tasks) : TaskOK(t)'
  BY ZenonT(30), <1>1, FrameTask
<1> QED
  BY Zenon, <1>1, <1>2, LoopThen

-----------------------------------------------------------------------------
(* The sensing loop's tasks. *)

\* Adopting one anchoring (the sensor's start) preserves well-formedness.
LEMMA AdoptOneOK == WellFormed /\ AdoptOne => WellFormed'
<1> SUFFICES ASSUME WellFormed, AdoptOne PROVE WellFormed'
  BY Zenon
<1> DEFINE a == Head(loop).id
<1>0. ~Idle /\ Head(loop).op = "adopt" /\ UNCHANGED <<chainVars, registryVars, faults>>
  BY Zenon DEF AdoptOne, Doing
<1>1. a \in registered /\ a \in Anchorings /\ registered \subseteq Anchorings
  BY ZenonT(30), <1>0, TopTask DEF TaskOK, WellFormed, RowsOK
<1>2. RowsOK' /\ SpendsOK' /\ EdgesOK' /\ PhasesOK' /\ Grows /\ ChainOK'
  BY ZenonT(30), <1>0, RegistrySame, ChainSame DEF WellFormed
<1>3. CASE Sensing(a)
  <2>1. loop' = Then(AfterStart(a)) /\ UNCHANGED <<sensors, inflight>>
    BY ZenonT(30), <1>3 DEF AdoptOne
  <2>2. LoopOK'
    BY ZenonT(30), <1>0, <1>1, <1>2, <2>1, AfterStartTasks, LoopContinues
  <2> QED
    BY ZenonT(30), <1>0, <1>2, <2>1, <2>2, SensorsSame, EventsKept DEF WellFormed
<1>4. CASE ~Sensing(a) /\ IsTerminal(phase[a])
  <2>1. loop' = Tail(loop) /\ UNCHANGED <<sensors, inflight>>
    BY ZenonT(30), <1>4 DEF AdoptOne
  <2> QED
    BY ZenonT(30), <1>0, <1>1, <1>2, <2>1, SensorsSame, EventsKept, LoopTail DEF WellFormed
<1>5. CASE ~Sensing(a) /\ ~IsTerminal(phase[a])
  <2>1. Subscribe(a, triggers[a], << >>)
    BY ZenonT(30), <1>5 DEF AdoptOne
  <2>2. triggers[a] \in SUBSET OutPoints
    BY ZenonT(30), <1>1 DEF WellFormed, RowsOK
  <2> QED
    BY ZenonT(30), <1>0, <1>1, <2>1, <2>2, ShortStacks, Subscribed
<1> QED
  BY ZenonT(30), <1>3, <1>4, <1>5

\* Adopting from a sweep preserves well-formedness.
LEMMA AdoptSweptOK == WellFormed /\ AdoptSwept => WellFormed'
<1> SUFFICES ASSUME WellFormed, AdoptSwept PROVE WellFormed'
  BY ZenonT(30)
<1> DEFINE t == Head(loop)
<1>0. ~Idle /\ t.op = "sweep" /\ UNCHANGED <<chainVars, registryVars, faults>>
  BY Zenon DEF AdoptSwept, Doing
<1>1. t \in TaskType /\ TaskOK(t)
  BY ZenonT(30), <1>0, TopTask DEF WellFormed
<1>2. /\ First(t) \in registered /\ t.trigs[First(t)] \in SUBSET OutPoints
      /\ Others(t) \in Seq(TaskType) /\ \A u \in TasksOf(Others(t)) : TaskOK(u)
  <2>1. t.todo # {} /\ t.todo \subseteq registered /\ \A b \in t.todo : t.trigs[b] \in SUBSET OutPoints
    BY ZenonT(30), <1>0, <1>1 DEF TaskOK
  <2> HIDE DEF t
  <2> QED
    BY ZenonT(30), <1>0, <1>1, <2>1, Visit
<1>3. RowsOK' /\ SpendsOK' /\ EdgesOK' /\ PhasesOK' /\ Grows /\ ChainOK'
  BY ZenonT(30), <1>0, RegistrySame, ChainSame DEF WellFormed
<1>4. CASE Covered(t)
  <2>1. loop' = Then(Others(t)) /\ UNCHANGED <<sensors, inflight>>
    BY ZenonT(30), <1>4 DEF AdoptSwept
  <2>2. LoopOK'
    BY ZenonT(30), <1>0, <1>2, <1>3, <2>1, LoopContinues
  <2> QED
    BY ZenonT(30), <1>0, <1>3, <2>1, <2>2, SensorsSame, EventsKept DEF WellFormed
<1>5. CASE ~Covered(t)
  <2>1. Subscribe(First(t), t.trigs[First(t)], Others(t))
    BY ZenonT(30), <1>5 DEF AdoptSwept
  <2> HIDE DEF t
  <2> QED
    BY ZenonT(30), <1>0, <1>2, <2>1, Subscribed
<1> QED
  BY ZenonT(30), <1>4, <1>5

\* Spends are written for registered anchorings only.
LEMMA PhasesSame ==
    ASSUME PhasesOK, UNCHANGED <<registered, phase, delivered>>,
           \A a \in Anchorings \ registered : spends'[a] = spends[a]
    PROVE  PhasesOK'
BY DEF PhasesOK

\* The reconciliation restages the incoming edges and nothing else of them.
LEMMA VerifyEdges ==
    ASSUME WellFormed, VerifyAndInstall
    PROVE  EdgesMove(edges') /\ Head(loop).id \in registered /\ Head(loop).id \in Anchorings
<1> USE DEF WellFormed
<1>1. PICK a \in registered : a = Head(loop).id /\ a \in Anchorings
  BY Zenon, TopTask DEF VerifyAndInstall, Doing, TaskOK, RowsOK
<1> DEFINE row == [p \in Anchorings |-> IF p \in IncomingEdges(a) THEN restageEdge(p, phase[p], edges[a][p])
                                        ELSE edges[a][p]]
<1>2. edges' = [edges EXCEPT ![a] = row]
  BY ZenonT(30), <1>1 DEF VerifyAndInstall
<1>3. ASSUME NEW p \in Anchorings PROVE row[p] \in EdgeType /\ MovesTo(p, edges[a][p], row[p])
  <2>1. edges[a][p] \in EdgeType /\ EdgeKeyed(p, edges[a][p]) /\ phase[p] \in PhaseType /\ Located(phase[p])
    BY ZenonT(30), <1>1 DEF EdgesOK, PhasesOK
  <2>2. CASE p \in IncomingEdges(a)
    <3>1. edges[a][p].form # 0 /\ row[p] = restageEdge(p, phase[p], edges[a][p])
      BY ZenonT(30), <2>2 DEF IncomingEdges
    <3>2. EdgeStep(p, edges[a][p], row[p])
      BY ZenonT(30), <2>1, <3>1, RestagedEdge
    <3> QED
      BY ZenonT(30), <3>2, RestageMoves DEF EdgeStep
  <2>3. CASE p \notin IncomingEdges(a)
    BY ZenonT(30), <2>1, <2>3 DEF MovesTo
  <2> QED
    BY ZenonT(30), <2>2, <2>3
<1>4. row \in [Anchorings -> EdgeType]
  BY ZenonT(30), <1>3
<1> HIDE DEF row
<1> QED
  BY Zenon, <1>1, <1>2, <1>3, <1>4, ReplacedRow

\* The reconciliation that installs a sensor keeps the state well formed.
LEMMA VerifyAndInstallOK == WellFormed /\ VerifyAndInstall => WellFormed'
<1> SUFFICES ASSUME WellFormed, VerifyAndInstall PROVE WellFormed'
  BY ZenonT(30)
<1> USE DEF WellFormed
<1>1. PICK a \in registered : a = Head(loop).id /\ a \in Anchorings /\ registered \subseteq Anchorings
  BY ZenonT(30), VerifyEdges DEF RowsOK
<1>0. /\ ~Idle /\ Head(loop).op = "verify"
      /\ UNCHANGED <<chainVars, registered, triggers, createdHeight, phase, delivered, inflight, faults>>
      /\ spends' = MarkedOffChain(a, Displaced(a))
      /\ sensors' = [sensors EXCEPT ![a].st = "on"]
      /\ loop' = Then(AfterStart(a))
  BY ZenonT(30), <1>1 DEF VerifyAndInstall, Doing
<1>5. EdgesOK' /\ Grows
  BY ZenonT(30), <1>0, VerifyEdges, EdgesGrow
<1>6. SpendsOK' /\ PhasesOK'
  BY SMTT(30), <1>0, <1>1, OffChain, PhasesSame DEF SpendsOK
<1>7. SensorsOK'
  <2> DEFINE s == [sensors[a] EXCEPT !.st = "on"]
  <2>1. sensors' = [sensors EXCEPT ![a] = s]
    BY ZenonT(30), <1>0
  <2>2. SensorOK(a)
    BY ZenonT(30), <1>1 DEF SensorsOK
  <2>3. s \in SensorType /\ s.subs = sensors[a].subs
    BY ZenonT(30), <2>2 DEF SensorOK, SensorType
  <2> HIDE DEF s
  <2>4. \A x \in s.subs : SubOK(a, x)'
    BY ZenonT(30), <1>1, <1>5, <2>2, <2>3 DEF SensorOK, SubOK, Grows
  <2> QED
    BY Zenon, <1>0, <1>1, <1>5, <2>1, <2>3, <2>4, SensorWritten
<1>8. LoopOK'
  BY ZenonT(30), <1>0, <1>1, <1>5, AfterStartTasks, LoopContinues
<1>9. RowsOK' /\ ChainOK' /\ EventsOK'
  BY ZenonT(30), <1>0, <1>5, ChainSame, EventsKept DEF RowsOK
<1> QED
  BY ZenonT(30), <1>0, <1>5, <1>6, <1>7, <1>8, <1>9

\* A failed verification preserves well-formedness.
LEMMA VerifyFailsOK == WellFormed /\ VerifyFails => WellFormed'
<1> SUFFICES ASSUME WellFormed, VerifyFails PROVE WellFormed'
  BY ZenonT(30)
<1> USE DEF WellFormed
<1> DEFINE a == Head(loop).id
<1>0. /\ ~Idle /\ Head(loop).op = "verify" /\ Fault
      /\ UNCHANGED <<chainVars, registered, triggers, createdHeight, phase, delivered, edges, inflight>>
      /\ \E part \in SUBSET Displaced(a) : spends' = MarkedOffChain(a, part)
      /\ sensors' = StopSensor(a)
      /\ loop' = Tail(loop)
  BY Zenon DEF VerifyFails, Doing
<1>1. a \in registered /\ a \in Anchorings /\ registered \subseteq Anchorings
  BY ZenonT(30), <1>0, TopTask DEF TaskOK, RowsOK
<1>2. EdgesOK' /\ Grows
  BY ZenonT(30), <1>0, EdgesStay, EdgesGrow
<1>3. SpendsOK'
  BY SMTT(30), <1>0, <1>1, OffChain DEF SpendsOK
<1>8. PhasesOK'
  <2>1. SpendsOK /\ PhasesOK /\ UNCHANGED <<registered, phase, delivered>>
    BY ZenonT(30), <1>0
  <2>2. \A b \in Anchorings \ registered : spends'[b] = spends[b]
    BY SMTT(30), <2>1, <1>0, <1>1, OffChain
  <2> QED
    BY Zenon, <2>1, <2>2, PhasesSame
<1>4. SensorsOK'
  BY Zenon, <1>0, <1>1, <1>2, SensorStopped
<1>6. LoopOK'
  BY ZenonT(30), <1>0, <1>1, <1>2, LoopTail
<1>7. faults' \in 0..MaxFaults
  BY ZenonT(30), <1>0, FaultCounted
<1>5. RowsOK' /\ ChainOK' /\ EventsOK'
  BY ZenonT(30), <1>0, <1>2, ChainSame, EventsKept DEF RowsOK
<1> QED
  BY ZenonT(30), <1>2, <1>3, <1>4, <1>5, <1>6, <1>7, <1>8

\* The phase a sensor derives from a well-formed registry.
LEMMA DerivedOK ==
    ASSUME WellFormed, NEW a \in Anchorings
    PROVE  DerivedPhase(a) \in PhaseType /\ Located(DerivedPhase(a))
<1>1. spends[a] \in [Txs -> Candidates] /\ SpendsKeyed(spends[a])
  BY Zenon DEF WellFormed, SpendsOK
<1>2. StagedForeclosure(a) \in Foreclosures /\ (StagedForeclosure(a).act => StagedForeclosure(a).w.tx \in Txs)
  BY ZenonT(30), StagedOK, NoForeclosureType DEF WellFormed
<1> QED
  BY ZenonT(30), <1>1, <1>2, DerivedType DEF DerivedPhase

\* Re-deriving a phase, with its settling of dependents, preserves well-formedness.
LEMMA RederiveOK == WellFormed /\ Rederive => WellFormed'
<1> SUFFICES ASSUME WellFormed, Rederive PROVE WellFormed'
  BY ZenonT(30)
<1> USE DEF WellFormed
<1>1. PICK a \in registered : a = Head(loop).id /\ a \in Anchorings /\ registered \subseteq Anchorings
  BY ZenonT(30), TopTask DEF Rederive, Doing, TaskOK, RowsOK
<1> DEFINE fc == StagedForeclosure(a)
           derived == DerivedPhase(a)
           subs == ForeclosureSubs(fc, sensors[a].subs)
           refreshed == [sensors EXCEPT ![a].subs = @ \cup subs, ![a].cached = triggers[a]]
<1>0. /\ ~Idle /\ Head(loop).op = "rederive"
      /\ UNCHANGED <<chainVars, registered, triggers, createdHeight, delivered, spends, edges, faults>>
  BY Zenon DEF Rederive, Doing
<1>2. EdgesOK' /\ Grows /\ SpendsOK' /\ RowsOK' /\ ChainOK' /\ faults' \in 0..MaxFaults
  BY ZenonT(30), <1>0, EdgesStay, EdgesGrow, ChainSame DEF SpendsOK, RowsOK
<1>3. CASE ~Sensing(a)
  <2>1. loop' = Tail(loop) /\ UNCHANGED <<phase, sensors, inflight>>
    BY ZenonT(30), <1>1, <1>3 DEF Rederive
  <2> QED
    BY ZenonT(30), <1>0, <1>1, <1>2, <2>1, PhasesSame, SensorsSame, EventsKept, LoopTail
<1>4. CASE Sensing(a) /\ IsTerminal(phase[a])
  <2>1. loop' = Tail(loop) /\ sensors' = StopSensor(a) /\ UNCHANGED <<phase, inflight>>
    BY ZenonT(30), <1>1, <1>4 DEF Rederive
  <2> QED
    BY ZenonT(30), <1>0, <1>1, <1>2, <2>1, PhasesSame, SensorStopped, EventsKept, LoopTail
<1>5. CASE Sensing(a) /\ ~IsTerminal(phase[a])
  <2>1. /\ phase' = [phase EXCEPT ![a] = derived]
        /\ sensors' = IF IsTerminal(derived) THEN StopSensor(a) ELSE refreshed
        /\ inflight' = inflight \cup HistoricalConfs(a, subs)
        /\ loop' = Then(IF derived = phase[a] THEN << >> ELSE Restage(a, derived))
    BY ZenonT(30), <1>1, <1>5 DEF Rederive
  <2>2. derived \in PhaseType /\ Located(derived)
    BY ZenonT(30), <1>1, DerivedOK
  <2>3. /\ fc \in Foreclosures /\ (fc # NoForeclosure => fc.w.tx \in Txs)
        /\ fc # NoForeclosure => fc.parent \in Anchorings /\ edges[a][fc.parent].form # 0
    BY ZenonT(30), <1>1, StagedOK
  <2> HIDE DEF derived, fc
  <2>4. \A s \in subs : s \in SubType /\ SubOK(a, s)
    BY ZenonT(30), <2>3, ForeclosureSubsOK DEF SubOK
  <2> HIDE DEF subs
  <2>5. PhasesOK'
    <3>1. ~IsTerminal(delivered[a])
      BY Zenon, <1>1, <1>5 DEF PhasesOK
    <3>2. DOMAIN phase' = Anchorings /\ phase'[a] = derived /\ \A b \in Anchorings \ {a} : phase'[b] = phase[b]
      BY ZenonT(30), <1>1, <2>1 DEF PhasesOK
    <3>3. spends' = spends /\ registered' = registered /\ delivered' = delivered
      BY ZenonT(30), <1>0
    <3> QED
      BY SMTT(30), <1>1, <2>2, <3>1, <3>2, <3>3 DEF PhasesOK
  <2>6. SensorsOK'
    <3>1. CASE IsTerminal(derived)
      BY ZenonT(30), <1>1, <1>2, <2>1, <3>1, SensorStopped
    <3>2. CASE ~IsTerminal(derived)
      <4> DEFINE s == [sensors[a] EXCEPT !.subs = @ \cup subs, !.cached = triggers[a]]
      <4>1. sensors' = [sensors EXCEPT ![a] = s]
        BY ZenonT(30), <1>1, <2>1, <3>2 DEF SensorsOK
      <4>2. SensorOK(a) /\ triggers[a] \in SUBSET OutPoints
        BY ZenonT(30), <1>1 DEF SensorsOK, RowsOK
      <4>3. s \in SensorType /\ s.subs = sensors[a].subs \cup subs
        BY ZenonT(30), <2>4, <4>2 DEF SensorOK, SensorType
      <4> HIDE DEF s
      <4>4. \A x \in s.subs : SubOK(a, x)'
        BY ZenonT(30), <1>0, <1>1, <2>4, <4>2, <4>3 DEF SensorOK, SubOK
      <4> QED
        BY ZenonT(30), <1>0, <1>1, <1>2, <4>1, <4>3, <4>4, SensorWritten
    <3> QED
      BY ZenonT(30), <3>1, <3>2
  <2>7. EventsOK'
    <3>1. subs \in SUBSET SubType /\ \A s \in subs : SubOK(a, s)
      BY ZenonT(30), <2>4
    <3>2. inflight' \subseteq inflight \cup (HistoricalConfs(a, subs) \cup HistoricalSpends(a, {}))
      BY ZenonT(30), <2>1
    <3> QED
      BY ZenonT(30), <1>1, <1>2, <3>1, <3>2, ReportsAdded
  <2>8. LoopOK'
    <3> DEFINE tasks == IF derived = phase[a] THEN << >> ELSE Restage(a, derived)
    <3>1. tasks \in Seq(TaskType) /\ \A t \in TasksOf(tasks) : TaskOK(t)
      BY ZenonT(30), <1>1, <2>2, RestageTask, ShortStacks
    <3> HIDE DEF tasks
    <3> QED
      BY ZenonT(30), <1>0, <1>2, <2>1, <3>1, LoopContinues DEF tasks
  <2> QED
    BY ZenonT(30), <1>2, <2>5, <2>6, <2>7, <2>8
<1> QED
  BY ZenonT(30), <1>3, <1>4, <1>5

\* Restaging an adopted anchoring preserves well-formedness.
LEMMA RestageAdoptedOK == WellFormed /\ RestageAdopted => WellFormed'
<1> SUFFICES ASSUME WellFormed, RestageAdopted PROVE WellFormed'
  BY ZenonT(30)
<1> USE DEF WellFormed
<1>1. PICK a \in registered : a = Head(loop).id /\ a \in Anchorings
  BY ZenonT(30), TopTask DEF RestageAdopted, Doing, TaskOK, RowsOK
<1> DEFINE tasks == IF Sensing(a) THEN Restage(a, phase[a]) ELSE << >>
<1>2. ~Idle /\ UNCHANGED <<chainVars, registryVars, sensors, inflight, faults>> /\ loop' = Then(tasks)
  BY ZenonT(30), <1>1 DEF RestageAdopted, Doing
<1>3. tasks \in Seq(TaskType) /\ \A t \in TasksOf(tasks) : TaskOK(t)
  <2>1. phase[a] \in PhaseType /\ Located(phase[a])
    BY ZenonT(30), <1>1 DEF PhasesOK
  <2> QED
    BY ZenonT(30), <1>1, <2>1, RestageTask, ShortStacks
<1> HIDE DEF tasks
<1>4. RowsOK' /\ SpendsOK' /\ EdgesOK' /\ PhasesOK' /\ Grows /\ ChainOK'
  BY ZenonT(30), <1>2, RegistrySame, ChainSame
<1>5. LoopOK'
  BY ZenonT(30), <1>2, <1>3, <1>4, LoopContinues
<1> QED
  BY ZenonT(30), <1>2, <1>4, <1>5, SensorsSame, EventsKept

\* The task that visits a child, and the child.
LEMMA VisitOK ==
    ASSUME WellFormed, ~Idle, Head(loop).op \in {"sweep", "kids"}
    PROVE  \E t \in TaskType, c \in registered :
                /\ t = Head(loop) /\ c = First(t) /\ c \in t.todo /\ c \in Anchorings /\ TaskOK(t)
                /\ Others(t) \in Seq(TaskType) /\ \A u \in TasksOf(Others(t)) : TaskOK(u)
                /\ t.op = "kids" => /\ t.id \in registered /\ t.id \in Anchorings
                                    /\ t.phase \in PhaseType /\ Located(t.phase)
                                    /\ edges[c][t.id].form # 0
<1>1. PICK t \in TaskType : t = Head(loop) /\ TaskOK(t)
  BY ZenonT(30), TopTask DEF WellFormed
<1>2. t.todo # {} /\ t.todo \subseteq registered
  BY ZenonT(30), <1>1 DEF TaskOK
<1>3. First(t) \in t.todo /\ Others(t) \in Seq(TaskType) /\ \A u \in TasksOf(Others(t)) : TaskOK(u)
  BY ZenonT(30), <1>1, <1>2, Visit
<1>4. t.op = "kids" => /\ t.id \in registered /\ t.phase \in PhaseType /\ Located(t.phase)
                       /\ edges[First(t)][t.id].form # 0
  BY ZenonT(30), <1>1, <1>3 DEF TaskOK, TaskType
<1> QED
  BY ZenonT(30), <1>1, <1>2, <1>3, <1>4 DEF WellFormed, RowsOK

\* The restage of one child moves its edge to the parent.
LEMMA RestageEdges ==
    ASSUME WellFormed, RestageChild
    PROVE  EdgesMove(edges')
<1> USE DEF WellFormed
<1>1. PICK t \in TaskType, c \in registered :
                /\ t = Head(loop) /\ c = First(t) /\ c \in Anchorings
                /\ t.id \in Anchorings /\ t.phase \in PhaseType /\ Located(t.phase)
                /\ edges[c][t.id].form # 0
  BY ZenonT(30), VisitOK DEF RestageChild, Doing
<1> DEFINE p == t.id
           new == restageEdge(p, t.phase, edges[c][p])
<1>2. edges' = [edges EXCEPT ![c][p] = new]
  BY ZenonT(30), <1>1 DEF RestageChild
<1>3. edges[c][p] \in EdgeType /\ EdgeKeyed(p, edges[c][p])
  BY ZenonT(30), <1>1 DEF EdgesOK
<1>4. MovesTo(p, edges[c][p], new)
  BY ZenonT(30), <1>1, <1>3, RestagedEdge, RestageMoves
<1> HIDE DEF new, p
<1> QED
  BY ZenonT(30), <1>1, <1>2, <1>4, ReplacedEdge DEF p

\* The restage of one child, and the re-derivation it asks for.
LEMMA RestageChildOK == WellFormed /\ RestageChild => WellFormed'
<1> SUFFICES ASSUME WellFormed, RestageChild PROVE WellFormed'
  BY ZenonT(30)
<1> USE DEF WellFormed
<1>0. ~Idle /\ Head(loop).op = "kids"
  BY ZenonT(30) DEF RestageChild, Doing
<1>1. PICK t \in TaskType, c \in registered :
                /\ t = Head(loop) /\ c = First(t) /\ c \in Anchorings
                /\ Others(t) \in Seq(TaskType) /\ \A u \in TasksOf(Others(t)) : TaskOK(u)
                /\ t.id \in registered /\ t.id \in Anchorings
                /\ t.phase \in PhaseType /\ Located(t.phase)
                /\ edges[c][t.id].form # 0
  BY ZenonT(30), <1>0, VisitOK
<1> DEFINE tasks == (IF Sensing(c) THEN << Task("rederive", c) >> ELSE << >>) \o Others(t)
<1>2. /\ loop' = Then(tasks)
      /\ UNCHANGED <<chainVars, registered, triggers, createdHeight, phase, delivered, spends,
                     sensors, inflight, faults>>
  BY ZenonT(30), <1>1 DEF RestageChild
<1>4. EdgesOK' /\ Grows
  BY ZenonT(30), <1>2, RestageEdges, EdgesGrow
<1>5. LoopOK'
  <2> DEFINE first == IF Sensing(c) THEN << Task("rederive", c) >> ELSE << >>
  <2>1. Task("rederive", c) \in TaskType /\ TaskOK(Task("rederive", c))
    BY ZenonT(30), <1>1, SimpleTask DEF RowsOK
  <2>2. first \in Seq(TaskType) /\ \A u \in TasksOf(first) : TaskOK(u)
    BY ZenonT(30), <2>1, ShortStacks
  <2> HIDE DEF first
  <2>3. first \o Others(t) \in Seq(TaskType) /\ \A u \in TasksOf(first \o Others(t)) : TaskOK(u)
    BY SMTT(30), <1>1, <2>2, StackConcat
  <2>4. loop' = Then(first \o Others(t))
    BY Zenon, <1>2 DEF first
  <2> QED
    BY ZenonT(30), <1>0, <1>4, <2>3, <2>4, LoopContinues
<1>6. SpendsOK' /\ PhasesOK' /\ RowsOK' /\ ChainOK'
  BY Zenon, <1>2, PhasesSame, ChainSame DEF SpendsOK, RowsOK
<1> QED
  BY ZenonT(30), <1>2, <1>4, <1>5, <1>6, SensorsSame, EventsKept

\* A failing task preserves well-formedness.
LEMMA TaskFailsOK == WellFormed /\ TaskFails => WellFormed'
<1> SUFFICES ASSUME WellFormed, TaskFails PROVE WellFormed'
  BY ZenonT(30)
<1> USE DEF WellFormed
<1>0. ~Idle /\ MakesCalls(Head(loop)) /\ Fault /\ UNCHANGED <<chainVars, registryVars, inflight>>
  BY ZenonT(30) DEF TaskFails
<1>1. RowsOK' /\ SpendsOK' /\ EdgesOK' /\ PhasesOK' /\ Grows /\ ChainOK' /\ faults' \in 0..MaxFaults
  BY ZenonT(30), <1>0, RegistrySame, ChainSame, FaultCounted
<1>2. CASE Head(loop).op \in {"sweep", "kids"}
  <2>1. PICK t \in TaskType, c \in registered :
                /\ t = Head(loop) /\ c = First(t) /\ c \in Anchorings
                /\ Others(t) \in Seq(TaskType) /\ \A u \in TasksOf(Others(t)) : TaskOK(u)
    BY ZenonT(30), <1>0, <1>2, VisitOK
  <2>2. sensors' = StopSensor(c) /\ loop' = Then(Others(t))
    BY ZenonT(30), <1>2, <2>1 DEF TaskFails
  <2>3. LoopOK'
    BY ZenonT(30), <1>0, <1>1, <2>1, <2>2, LoopContinues
  <2> QED
    BY ZenonT(30), <1>0, <1>1, <2>1, <2>2, <2>3, SensorStopped, EventsKept
<1>3. CASE Head(loop).op \notin {"sweep", "kids"}
  <2>1. sensors' = StopSensor(Head(loop).id) /\ loop' = Tail(loop)
    BY ZenonT(30), <1>3 DEF TaskFails
  <2>2. Head(loop).id \in Anchorings /\ registered \subseteq Anchorings
    BY ZenonT(30), <1>0, <1>3, TopTask DEF TaskOK, RowsOK
  <2> QED
    BY ZenonT(30), <1>0, <1>1, <2>1, <2>2, SensorStopped, EventsKept, LoopTail
<1> QED
  BY ZenonT(30), <1>2, <1>3

\* A failed load of the dependents preserves well-formedness.
LEMMA LoadDependentsFailsOK == WellFormed /\ LoadDependentsFails => WellFormed'
<1> SUFFICES ASSUME WellFormed, LoadDependentsFails PROVE WellFormed'
  BY ZenonT(30)
<1> USE DEF WellFormed
<1>0. /\ ~Idle /\ Head(loop).op = "kids" /\ Fault /\ UNCHANGED <<chainVars, registryVars, inflight>>
      /\ sensors' = StopSensor(Head(loop).id) /\ loop' = Tail(loop)
  BY Zenon DEF LoadDependentsFails, Doing
<1>1. RowsOK' /\ SpendsOK' /\ EdgesOK' /\ PhasesOK' /\ Grows /\ ChainOK' /\ faults' \in 0..MaxFaults
  BY ZenonT(30), <1>0, RegistrySame, ChainSame, FaultCounted
<1>2. Head(loop).id \in Anchorings /\ registered \subseteq Anchorings
  BY ZenonT(30), <1>0, TopTask DEF TaskOK, RowsOK
<1> QED
  BY ZenonT(30), <1>0, <1>1, <1>2, SensorStopped, EventsKept, LoopTail

\* The sweep preserves well-formedness.
LEMMA SweepOK == WellFormed /\ Sweep => WellFormed'
<1> SUFFICES ASSUME WellFormed, Sweep PROVE WellFormed'
  BY ZenonT(30)
<1> USE DEF WellFormed
<1>0. UNCHANGED <<chainVars, registryVars, sensors, inflight, faults>>
  BY ZenonT(30) DEF Sweep
<1>1. RowsOK' /\ SpendsOK' /\ EdgesOK' /\ PhasesOK' /\ Grows /\ ChainOK'
  BY ZenonT(30), <1>0, RegistrySame, ChainSame
<1> DEFINE live == LiveAnchorings
           trigs == [a \in live |-> triggers[a]]
           t == [Task("sweep", 0) EXCEPT !.todo = live, !.trigs = trigs]
<1>2. live \subseteq registered /\ live \subseteq Anchorings
  BY ZenonT(30) DEF LiveAnchorings, RowsOK
<1>3. loop' = loop \/ (live # {} /\ loop' = << t >>)
  BY ZenonT(30) DEF Sweep
<1> HIDE DEF live
<1>4. trigs \in UNION {[S -> SUBSET OutPoints] : S \in SUBSET Anchorings} /\ \A a \in live : trigs[a] \in SUBSET OutPoints
  <2>1. \A a \in live : triggers[a] \in SUBSET OutPoints
    BY ZenonT(30), <1>2 DEF RowsOK
  <2>2. trigs \in [live -> SUBSET OutPoints]
    BY ZenonT(30), <2>1
  <2> QED
    BY ZenonT(30), <1>2, <2>1, <2>2
<1> HIDE DEF trigs
<1>5. t \in TaskType /\ t.op = "sweep" /\ t.todo = live /\ t.trigs = trigs
  <2>1. Unwitnessed \in PhaseType
    BY ZenonT(30) DEF Unwitnessed, PhaseType, PhaseCodes, NoWitness, Witnesses
  <2> QED
    BY ZenonT(30), <1>2, <1>4, <2>1 DEF Task, TaskType
<1> HIDE DEF t
<1>6. LoopOK'
  <2>1. CASE loop' = loop
    BY ZenonT(30), <1>1, <2>1, LoopSame DEF RowsOK
  <2>2. CASE live # {} /\ loop' = << t >>
    <3>1. PICK u \in TaskType : u = t /\ TaskOK(u)
      BY Zenon, <1>2, <1>4, <1>5, <2>2 DEF TaskOK
    <3>2. TaskOK(u)'
      BY ZenonT(30), <1>1, <3>1, FrameTask DEF RowsOK
    <3> QED
      BY ZenonT(30), <2>2, <3>1, <3>2, ShortStacks DEF LoopOK
  <2> QED
    BY ZenonT(30), <1>3, <2>1, <2>2
<1> QED
  BY ZenonT(30), <1>0, <1>1, <1>6, SensorsSame, EventsKept
==============================================================================
