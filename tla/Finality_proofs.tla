--------------------------- MODULE Finality_proofs ---------------------------
(***************************************************************************)
(* What a step of ReorgWatcher may do to the registry, and the safety      *)
(* properties that follow: finality and the whole-set rule. Then what      *)
(* counts as evidence of a terminal phase, and which steps leave it alone. *)
(***************************************************************************)
EXTENDS ReorgWatcher_proofs

-----------------------------------------------------------------------------
(* What a step may do to the registry. *)

\* Candidates keep their verdict, their location and their certification.
SpendsSteady ==
    \A a \in Anchorings, t \in Txs :
        /\ spends'[a][t].verdict = spends[a][t].verdict
        /\ spends'[a][t].w = spends[a][t].w
        /\ spends'[a][t].act = spends[a][t].act
Steady ==
    /\ UNCHANGED <<triggers, phase, delivered>>
    /\ SpendsSteady
    /\ EdgesMove(edges')

\* Marking candidates off-chain is steady.
LEMMA OffChainSteady ==
    ASSUME WellFormed, NEW a \in Anchorings, NEW gone, spends' = MarkedOffChain(a, gone)
    PROVE  SpendsSteady
BY OffChain DEF WellFormed, SpendsSteady

\* Steps that leave the registry alone, mark candidates off-chain or restage
\* edges.
LEMMA SteadyLoop ==
    ASSUME WellFormed, LoopTask \/ Sweep \/ Restart \/ BlockConnected \/ ChainReorged, ~Rederive
    PROVE  Steady
<1>1. CASE UNCHANGED registryVars
  BY ZenonT(30), <1>1, EdgesStay DEF WellFormed, Steady, SpendsSteady, registryVars
<1>2. CASE VerifyAndInstall
  <2>1. PICK a \in Anchorings : a = Head(loop).id
    BY ZenonT(30), <1>2, VerifyEdges
  <2>2. spends' = MarkedOffChain(a, Displaced(a)) /\ UNCHANGED <<triggers, phase, delivered>>
    BY ZenonT(30), <1>2, <2>1 DEF VerifyAndInstall
  <2> QED
    BY ZenonT(30), <1>2, <2>2, OffChainSteady, VerifyEdges DEF Steady
<1>3. CASE VerifyFails
  <2>1. Head(loop).id \in Anchorings
    BY ZenonT(30), <1>3, TopTask DEF WellFormed, VerifyFails, Doing, TaskOK, RowsOK
  <2>2. PICK a \in Anchorings : a = Head(loop).id
    BY ZenonT(30), <2>1
  <2>3. PICK part \in SUBSET Displaced(a) : spends' = MarkedOffChain(a, part)
    BY ZenonT(30), <1>3, <2>2 DEF VerifyFails
  <2>4. UNCHANGED <<triggers, phase, delivered, edges>>
    BY ZenonT(30), <1>3 DEF VerifyFails
  <2> QED
    BY ZenonT(30), <2>3, <2>4, OffChainSteady, EdgesStay DEF WellFormed, Steady
<1>4. CASE RestageChild
  <2>1. UNCHANGED <<triggers, phase, delivered, spends>>
    BY ZenonT(30), <1>4 DEF RestageChild
  <2> QED
    BY ZenonT(30), <1>4, <2>1, RestageEdges DEF Steady, SpendsSteady
<1> QED
  BY Zenon, <1>1, <1>2, <1>3, <1>4 DEF LoopTask, AdoptOne, AdoptSwept, RestageAdopted, LoadDependentsFails, TaskFails,
     Sweep, Restart, BlockConnected, ChainReorged, Dispatched

\* The handlers that record no confirmation change neither spends nor certificates to their disadvantage.
LEMMA SteadyHandlers ==
    ASSUME WellFormed, NEW e \in inflight,
           \/ handleSense(e) \/ handleStopSensing(e) \/ handleResense(e) \/ IgnoreEvent(e)
           \/ HandlerFails(e) \/ handleSpendDetail(e) \/ markCandidateOffChain(e)
    PROVE  Steady
<1>1. CASE UNCHANGED registryVars
  BY ZenonT(30), <1>1, EdgesStay DEF WellFormed, Steady, SpendsSteady, registryVars
<1>2. CASE markCandidateOffChain(e)
  <2>1. PICK a \in Anchorings, t \in Witnesses : a = e.id /\ t = e.w
    BY ZenonT(30), TakenEvent
  <2>2. /\ UNCHANGED <<edges, triggers, phase, delivered>>
        /\ spends' = MarkedOffChain(a, {t.tx}) \/ spends' = spends
    BY ZenonT(30), <1>2, <2>1 DEF markCandidateOffChain, RegistrationUnchanged
  <2>3. SpendsSteady
    BY ZenonT(30), <2>2, OffChainSteady DEF SpendsSteady
  <2> QED
    BY ZenonT(30), <2>2, <2>3, EdgesStay DEF WellFormed, Steady
<1> QED
  BY ZenonT(30), <1>1, <1>2 DEF handleSense, handleStopSensing, handleResense, IgnoreEvent, HandlerFails, handleSpendDetail

\* What a confirmation writes when it records its candidate.
Recording(a, t, c) ==
    /\ c \in Candidates /\ c.w.tx = t /\ c.verdict # "none" /\ CandidateAllowed(triggers[a], c)
    /\ spends' = [spends EXCEPT ![a][t] = UpsertedCandidate(spends[a][t], c)]
    /\ edges' = DerivedEdges(a, c)
    /\ loop' = << Task("rederive", a) >>
    /\ \A b \in Anchorings : sensors'[b].st = sensors[b].st

\* What recording a confirmation does: the sensor is dropped, or the candidate is written and a derivation is due.
LEMMA RecordEffect ==
    ASSUME WellFormed, NEW e \in inflight, e.type \in ChainEvents, NEW act \in BOOLEAN,
           RecordCandidate(e, act)
    PROVE  \/ sensors' = StopSensor(e.id) /\ UNCHANGED <<spends, edges, loop>>
           \/ \E a \in Anchorings, t \in Txs, c \in Candidates :
                a = e.id /\ t = e.w.tx /\ c.w = e.w /\ c.act = act /\ Recording(a, t, c)
<1> USE DEF WellFormed
<1>0. PICK a \in registered, t \in Txs : a = e.id /\ t = e.w.tx /\ a \in Anchorings /\ e.w \in Witnesses
  BY ZenonT(30), TakenEvent
<1> DEFINE c == [verdict |-> VerdictOf(a, t), w |-> e.w, onChain |-> TRUE, act |-> act]
<1>1. SensorOK(a) /\ spends[a][t] \in Candidates /\ DOMAIN sensors = Anchorings
  BY ZenonT(30), <1>0 DEF SensorsOK, SpendsOK
<1>2. c \in Candidates /\ c.verdict = VerdictOf(a, t) /\ c.w = e.w /\ c.act = act
  <2>1. VerdictOf(a, t) \in Verdicts
    BY ZenonT(30), <1>1 DEF VerdictOf, SensorOK, SensorType, Candidates
  <2> QED
    BY ZenonT(30), <1>0, <2>1 DEF Candidates
<1>3. CASE c.verdict = "none" \/ ~CandidateAllowed(triggers[a], c)
  BY ZenonT(30), <1>0, <1>3 DEF RecordCandidate
<1>4. CASE ~(c.verdict = "none" \/ ~CandidateAllowed(triggers[a], c))
  <2>1. /\ spends' = [spends EXCEPT ![a][t] = UpsertedCandidate(spends[a][t], c)]
        /\ edges' = DerivedEdges(a, c)
        /\ sensors' = [sensors EXCEPT ![a].pending[t] = "none"]
        /\ loop' = << Task("rederive", a) >>
    BY ZenonT(30), <1>0, <1>4 DEF RecordCandidate
  <2> HIDE DEF c
  <2>2. \A b \in Anchorings : sensors'[b].st = sensors[b].st
    <3> DEFINE s == [sensors[a] EXCEPT !.pending[t] = "none"]
    <3>1. s.st = sensors[a].st
      BY ZenonT(30), <1>1 DEF SensorOK, SensorType
    <3>2. sensors' = [sensors EXCEPT ![a] = s]
      BY ZenonT(30), <2>1
    <3> HIDE DEF s
    <3> QED
      BY ZenonT(30), <1>1, <3>1, <3>2
  <2> QED
    BY ZenonT(30), <1>0, <1>2, <1>4, <2>1, <2>2 DEF Recording
<1> QED
  BY ZenonT(30), <1>3, <1>4

\* The candidates after a recording.
LEMMA RecordingSpends ==
    ASSUME WellFormed, NEW a \in Anchorings, NEW t \in Txs, NEW c \in Candidates, Recording(a, t, c)
    PROVE  /\ \A b \in Anchorings, u \in Txs :
                ~(b = a /\ u = t) => spends'[b][u] = spends[b][u]
           /\ spends'[a][t].verdict = c.verdict /\ spends'[a][t].w = c.w
           /\ spends'[a][t].act <=> spends[a][t].act \/ c.act
           /\ EdgesMove(edges')
<1> DEFINE new == UpsertedCandidate(spends[a][t], c)
<1>1. spends[a][t] \in Candidates /\ SpendsOK /\ EdgesOK
  BY ZenonT(30) DEF WellFormed, SpendsOK
<1>2. new \in Candidates /\ new.verdict = c.verdict /\ new.w = c.w /\ (new.act <=> spends[a][t].act \/ c.act)
  BY ZenonT(30), <1>1, UpsertOK
<1>3. spends' = [spends EXCEPT ![a][t] = new] /\ c.w.tx = t /\ c.verdict # "none" /\ edges' = DerivedEdges(a, c)
  BY Zenon DEF Recording
<1> HIDE DEF new
<1>4. \A b \in Anchorings, u \in Txs : spends'[b][u] = IF b = a /\ u = t THEN new ELSE spends[b][u]
  <2>1. spends \in [Anchorings -> [Txs -> Candidates]]
    BY ZenonT(30), <1>1 DEF SpendsOK
  <2> QED
    BY ZenonT(30), <1>3, <2>1
<1>5. EdgesMove(edges')
  BY ZenonT(30), <1>1, <1>3, DerivedEdgesMove
<1> QED
  BY ZenonT(30), <1>2, <1>4, <1>5

\* What a certification of an edge writes.
EdgeCertified(e) ==
    /\ Certify(e.id, e.parent, e.w)
    /\ loop' = << Task("rederive", e.id) >>
    /\ UNCHANGED <<sensors, spends>>

\* The three ways a confirmation is answered.
LEMMA ConfirmationEffect ==
    ASSUME WellFormed, NEW e \in inflight,
           handleCandidateConf(e) \/ handleCandidateActConf(e) \/ handleForeclosureActConf(e)
    PROVE  /\ UNCHANGED chainVars /\ RegistrationUnchanged /\ inflight' = inflight \ {e}
           /\ Idle /\ e.id \in Anchorings
           /\ \/ (sensors' = sensors \/ sensors' = StopSensor(e.id)) /\ UNCHANGED <<spends, edges, loop>>
              \/ \E a \in Anchorings, t \in Txs, c \in Candidates :
                    /\ a = e.id /\ t = e.w.tx /\ c.w = e.w /\ Recording(a, t, c)
                    /\ c.act => e.type = "act" \/ (e.type = "loc" /\ Threshold[a] <= 1)
              \/ EdgeCertified(e) /\ e.type = "fc"
           /\ Sensing(e.id)
<1>1. /\ UNCHANGED chainVars /\ RegistrationUnchanged /\ inflight' = inflight \ {e}
      /\ Idle /\ Sensing(e.id) /\ e.type \in ChainEvents
  BY ZenonT(30) DEF handleCandidateConf, handleCandidateActConf, handleForeclosureActConf, Take, ChainEvents
<1>2. e.id \in Anchorings
  BY ZenonT(30), TakenEvent
<1>3. \/ RecordCandidate(e, Threshold[e.id] <= 1) /\ e.type = "loc"
      \/ RecordCandidate(e, TRUE) /\ e.type = "act"
      \/ (sensors' = sensors \/ sensors' = StopSensor(e.id)) /\ UNCHANGED <<spends, edges, loop>>
      \/ EdgeCertified(e) /\ e.type = "fc"
  BY ZenonT(30) DEF handleCandidateConf, handleCandidateActConf, handleForeclosureActConf, Take, EdgeCertified, Certify
<1>4. CASE RecordCandidate(e, Threshold[e.id] <= 1) /\ e.type = "loc"
  <2>1. (Threshold[e.id] <= 1) \in BOOLEAN
    OBVIOUS
  <2> QED
    BY ZenonT(30), <1>1, <1>2, <1>4, <2>1, RecordEffect
<1>5. CASE RecordCandidate(e, TRUE) /\ e.type = "act"
  <2>1. TRUE \in BOOLEAN
    BY ZenonT(30)
  <2> QED
    BY ZenonT(30), <1>1, <1>2, <1>5, <2>1, RecordEffect
<1> QED
  BY ZenonT(30), <1>1, <1>2, <1>3, <1>4, <1>5

\* The edges after a certification: one edge may have become certified.
LEMMA CertifiedEdges ==
    ASSUME WellFormed, NEW e \in inflight, e.type = "fc", EdgeCertified(e)
    PROVE  /\ e.parent \in Anchorings
           /\ \A d \in Anchorings, q \in Anchorings :
                /\ edges[d][q].fc.act => edges'[d][q] = edges[d][q]
                /\ edges'[d][q].fc.act =>
                        edges[d][q].fc.act \/ (d = e.id /\ q = e.parent /\ edges'[d][q].fc.w = e.w)
<1>1. PICK c \in Anchorings, p \in Anchorings, w \in Witnesses :
            c = e.id /\ p = e.parent /\ w = e.w /\ edges[c][p].form # 0 /\ w.tx \in Txs
  BY Zenon, TakenEvent DEF ChainEvents
<1>2. Certify(c, p, w) /\ EdgesOK
  BY ZenonT(30), <1>1 DEF EdgeCertified, WellFormed
<1>3. \A d \in Anchorings, q \in Anchorings :
        /\ edges[d][q].fc.act => edges'[d][q] = edges[d][q]
        /\ edges'[d][q].fc.act => edges[d][q].fc.act \/ (d = c /\ q = p /\ edges'[d][q].fc.w = w)
  BY SMTT(30), <1>1, <1>2, CertifiedForeclosure
<1> QED
  BY <1>1, <1>3

\* The steps of the watcher by what they write to the registry.
LEMMA StepKinds ==
    ASSUME WellFormed, [Next]_vars
    PROVE  \/ Steady
           \/ Rederive
           \/ \E e \in inflight :
                handleCandidateConf(e) \/ handleCandidateActConf(e) \/ handleForeclosureActConf(e)
           \/ \E a \in Anchorings : Register(a) \/ Attach(a) \/ Deliver(a)
<1>1. CASE LoopTask \/ Sweep \/ Restart \/ BlockConnected \/ ChainReorged
  BY ZenonT(30), <1>1, SteadyLoop
<1>2. ASSUME NEW e \in inflight, Handle(e) \/ HandlerFails(e)
      PROVE  Steady \/ handleCandidateConf(e) \/ handleCandidateActConf(e) \/ handleForeclosureActConf(e)
  BY ZenonT(30), <1>2, SteadyHandlers DEF Handle
<1>3. CASE UNCHANGED registryVars
  BY ZenonT(30), <1>3, EdgesStay DEF WellFormed, Steady, SpendsSteady, registryVars
<1>4. ASSUME NEW a \in Anchorings, StreamBroken(a) PROVE UNCHANGED registryVars
  BY ZenonT(30), <1>4 DEF StreamBroken
<1> QED
  BY Zenon, <1>1, <1>2, <1>3, <1>4 DEF Next, Sense, vars

\* Attaching writes triggers and moves edges.
LEMMA AttachEffect ==
    ASSUME WellFormed, NEW a \in Anchorings, Attach(a)
    PROVE  /\ UNCHANGED <<phase, delivered, spends>> /\ EdgesMove(edges')
           /\ \E new \in SUBSET OutPoints :
                /\ triggers' = [triggers EXCEPT ![a] = triggers[a] \cup new]
                /\ \A t \in Txs : spends[a][t].verdict = "satisfies" => new \subseteq TxSpends[t]
<1> DEFINE new == AddedTriggers[a] \ triggers[a]
<1>1. new \in SUBSET OutPoints
  BY ZenonT(30), WatcherConstants
<1>2. /\ UNCHANGED <<phase, delivered, spends>>
      /\ edges' = [edges EXCEPT ![a] = ParentEdges(a, new)]
      /\ triggers' = [triggers EXCEPT ![a] = triggers[a] \cup new]
      /\ \A t \in Txs : spends[a][t].verdict = "satisfies" => new \subseteq TxSpends[t]
  BY ZenonT(30) DEF Attach, attachExisting
<1> HIDE DEF new
<1>3. EdgesMove(edges')
  BY ZenonT(30), <1>1, <1>2, ParentEdgesMove, ReplacedRow DEF WellFormed
<1> QED
  BY ZenonT(30), <1>1, <1>2, <1>3

\* Delivering writes the delivered phase and moves edges.
LEMMA DeliverEffect ==
    ASSUME WellFormed, NEW a \in Anchorings, Deliver(a)
    PROVE  /\ UNCHANGED <<triggers, phase, spends>> /\ EdgesMove(edges')
           /\ ~IsTerminal(delivered[a])
           /\ \A b \in Anchorings \ {a} : delivered'[b] = delivered[b]
<1>1. /\ UNCHANGED <<triggers, phase, spends>>
      /\ delivered[a] # phase[a] /\ delivered' = [delivered EXCEPT ![a] = phase[a]]
      /\ edges' = settleDependentEdges(a, phase[a])
  BY ZenonT(30) DEF Deliver
<1>2. phase[a] \in PhaseType /\ Located(phase[a]) /\ EdgesOK
  BY ZenonT(30) DEF WellFormed, PhasesOK
<1>3. EdgesMove(edges')
  BY ZenonT(30), <1>1, <1>2, SettledEdgesMove
<1>4. ~IsTerminal(delivered[a]) /\ \A b \in Anchorings \ {a} : delivered'[b] = delivered[b]
  BY ZenonT(30), <1>1 DEF WellFormed, PhasesOK
<1> QED
  BY ZenonT(30), <1>1, <1>3, <1>4

\* Registering writes the rows of the new anchoring and moves edges.
LEMMA RegisterEffect ==
    ASSUME WellFormed, NEW a \in Anchorings, Register(a)
    PROVE  /\ EdgesMove(edges')
           /\ ~IsTerminal(phase'[a]) /\ ~IsTerminal(phase[a]) /\ ~IsTerminal(delivered[a])
           /\ \A b \in Anchorings \ {a} : /\ phase'[b] = phase[b] /\ delivered'[b] = delivered[b]
                                          /\ triggers'[b] = triggers[b]
           /\ \A b \in Anchorings, t \in Txs : spends'[b][t].act <=> spends[b][t].act
           /\ \A b \in Anchorings, t \in Txs :
                \/ spends'[b][t] = spends[b][t] /\ (b = a => spends[b][t].verdict = "none")
                \/ b = a /\ ~spends'[b][t].act
                   /\ (spends'[b][t].verdict = "satisfies" => triggers'[a] \subseteq TxSpends[t])
<1> USE DEF WellFormed
<1>1. PICK seed \in {NoSpend} \cup
            {[verdict |-> "satisfies", w |-> findTx(c, SeedTx[a]), onChain |-> TRUE, act |-> FALSE] :
                c \in {d \in orphaned \cup {chain} : SeedTx[a] # 0 /\ Confirmed(d, SeedTx[a])}} :
            insertRegistration(a, RegTriggers[a], Len(chain), seed)
  BY ZenonT(30) DEF Register
<1>2. \/ seed = NoSpend
      \/ seed \in Candidates /\ seed.verdict = "satisfies" /\ seed.w.tx \in Txs /\ ~seed.act
  BY ZenonT(30), <1>1, SeedType
<1>3. RegTriggers[a] \in SUBSET OutPoints /\ Len(chain) \in Nat
  BY WatcherConstants DEF ChainOK, ChainType
<1>4. Inserted(a, seed)
  BY Zenon, <1>1, <1>2, <1>3, InsertOK
<1>5. a \notin registered /\ triggers' = [triggers EXCEPT ![a] = RegTriggers[a]]
      /\ CandidateAllowed(RegTriggers[a], seed)
  BY ZenonT(30), <1>1 DEF insertRegistration
<1>6. /\ \A t \in Txs : spends[a][t].verdict = "none"
      /\ delivered[a] = Unwitnessed
  BY ZenonT(30), <1>5 DEF PhasesOK
<1>7. ~IsTerminal(delivered[a])
  BY SMTT(30), <1>6 DEF Unwitnessed, IsTerminal, TerminalCodes
<1>8. triggers'[a] = RegTriggers[a] /\ \A b \in Anchorings \ {a} : triggers'[b] = triggers[b]
  BY ZenonT(30), <1>5 DEF RowsOK
<1>9. seed.verdict = "satisfies" => RegTriggers[a] \subseteq TxSpends[seed.w.tx]
  BY ZenonT(30), <1>5 DEF CandidateAllowed
<1>10. ~seed.act
  BY ZenonT(30), <1>2, NoSpendType
<1> QED
  BY SMTT(30), <1>4, <1>6, <1>7, <1>8, <1>9, <1>10 DEF Inserted

-----------------------------------------------------------------------------
(* Finality. *)

\* No step takes back what is final.
LEMMA FinalitySteps == ASSUME WellFormed, [Next]_vars PROVE FinalityStep
<1>1. ASSUME EdgesMove(edges') PROVE \A c \in Anchorings, p \in Anchorings :
                                        edges[c][p].fc.act => edges'[c][p] = edges[c][p]
  BY ZenonT(30), <1>1 DEF EdgesMove, MovesTo
<1>2. CASE Steady
  BY ZenonT(30), <1>1, <1>2 DEF Steady, SpendsSteady, FinalityStep
<1>3. CASE Rederive
  <2>1. UNCHANGED <<delivered, spends, edges>>
    BY ZenonT(30), <1>3 DEF Rederive
  <2>2. phase' = phase \/ \E a \in Anchorings : ~IsTerminal(phase[a]) /\ phase' = [phase EXCEPT ![a] = DerivedPhase(a)]
    <3>1. Head(loop).id \in Anchorings
      BY ZenonT(30), <1>3, TopTask DEF WellFormed, Rederive, Doing, TaskOK, RowsOK
    <3> QED
      BY ZenonT(30), <1>3, <3>1 DEF Rederive
  <2>3. \A a \in Anchorings : IsTerminal(phase[a]) => phase'[a] = phase[a]
    BY ZenonT(30), <2>2 DEF WellFormed, PhasesOK
  <2> QED
    BY ZenonT(30), <2>1, <2>3 DEF FinalityStep
<1>4. ASSUME NEW e \in inflight,
             handleCandidateConf(e) \/ handleCandidateActConf(e) \/ handleForeclosureActConf(e)
      PROVE  FinalityStep
  <2>1. UNCHANGED <<phase, delivered>>
    BY ZenonT(30), <1>4, ConfirmationEffect DEF RegistrationUnchanged
  <2>2. CASE UNCHANGED <<spends, edges>>
    BY ZenonT(30), <2>1, <2>2 DEF FinalityStep
  <2>3. ASSUME NEW a \in Anchorings, NEW t \in Txs, NEW c \in Candidates, Recording(a, t, c)
        PROVE  FinalityStep
    <3>1. /\ \A b \in Anchorings, u \in Txs : spends[b][u].act => spends'[b][u].act
          /\ EdgesMove(edges')
      BY SMTT(30), <2>3, RecordingSpends
    <3> QED
      BY ZenonT(30), <1>1, <2>1, <3>1 DEF FinalityStep
  <2>4. CASE EdgeCertified(e) /\ e.type = "fc"
    <3>1. \A c \in Anchorings, p \in Anchorings : edges[c][p].fc.act => edges'[c][p] = edges[c][p]
      BY <2>4, CertifiedEdges
    <3>2. UNCHANGED spends
      BY Zenon, <2>4 DEF EdgeCertified
    <3> QED
      BY Zenon, <2>1, <3>1, <3>2 DEF FinalityStep
  <2> QED
    BY ZenonT(30), <1>4, <2>2, <2>3, <2>4, ConfirmationEffect
<1>5. ASSUME NEW a \in Anchorings, Register(a) PROVE FinalityStep
  BY ZenonT(30), <1>1, <1>5, RegisterEffect DEF FinalityStep
<1>6. ASSUME NEW a \in Anchorings, Attach(a) PROVE FinalityStep
  BY ZenonT(30), <1>1, <1>6, AttachEffect DEF FinalityStep
<1>7. ASSUME NEW a \in Anchorings, Deliver(a) PROVE FinalityStep
  BY ZenonT(30), <1>1, <1>7, DeliverEffect DEF FinalityStep
<1> QED
  BY ZenonT(30), <1>2, <1>3, <1>4, <1>5, <1>6, <1>7, StepKinds

\* Finality, for any number of anchorings, blocks, re-orgs and faults: a
\* terminal phase, a delivered one, the sticky certification of a candidate
\* (UpsertReorgCandidate) and a certified edge (StageForeclosure) survive
\* every later registration, delivery, restage, re-org and restart.
THEOREM FinalityHolds == Spec \/ RegisteredSpec => Finality
<1>1. WellFormed /\ [Next]_vars => [FinalityStep]_vars
  BY ZenonT(30), FinalitySteps
<1>2. Spec => Finality
  BY <1>1, InitWellFormed, WellFormedStep, PTL DEF Spec, Finality
<1>3. RegisteredSpec => Finality
  BY <1>1, InitWellFormed, WellFormedStep, PTL DEF RegisteredSpec, Finality
<1> QED
  BY ZenonT(30), <1>2, <1>3

-----------------------------------------------------------------------------
(* The whole-set rule. *)

\* Every write that could break the rule is refused at the registry.
LEMMA WholeSetStep == ASSUME WellFormed, WholeSet, [Next]_vars PROVE WholeSet'
<1>1. CASE Steady
  BY ZenonT(30), <1>1 DEF Steady, SpendsSteady, WholeSet
<1>2. CASE Rederive
  BY ZenonT(30), <1>2 DEF Rederive, WholeSet
<1>3. ASSUME NEW e \in inflight,
             handleCandidateConf(e) \/ handleCandidateActConf(e) \/ handleForeclosureActConf(e)
      PROVE  WholeSet'
  <2>1. UNCHANGED triggers
    BY ZenonT(30), <1>3, ConfirmationEffect DEF RegistrationUnchanged
  <2>2. CASE UNCHANGED spends
    BY ZenonT(30), <2>1, <2>2 DEF WholeSet
  <2>3. ASSUME NEW a \in Anchorings, NEW t \in Txs, NEW c \in Candidates, Recording(a, t, c)
        PROVE  WholeSet'
    <3>1. /\ \A b \in Anchorings, u \in Txs : ~(b = a /\ u = t) => spends'[b][u] = spends[b][u]
          /\ spends'[a][t].verdict = c.verdict
      BY ZenonT(30), <2>3, RecordingSpends
    <3>2. c.verdict = "satisfies" => triggers[a] \subseteq TxSpends[t]
      BY ZenonT(30), <2>3 DEF Recording, CandidateAllowed
    <3> QED
      BY SMTT(30), <2>1, <3>1, <3>2 DEF WholeSet
  <2>4. CASE EdgeCertified(e)
    BY ZenonT(30), <2>2, <2>4 DEF EdgeCertified
  <2> QED
    BY ZenonT(30), <1>3, <2>2, <2>3, <2>4, ConfirmationEffect
<1>4. ASSUME NEW a \in Anchorings, Register(a) PROVE WholeSet'
  <2>1. /\ \A b \in Anchorings \ {a} : triggers'[b] = triggers[b]
        /\ \A b \in Anchorings, t \in Txs :
                \/ spends'[b][t] = spends[b][t] /\ (b = a => spends[b][t].verdict = "none")
                \/ b = a /\ (spends'[b][t].verdict = "satisfies" => triggers'[a] \subseteq TxSpends[t])
    BY SMTT(30), <1>4, RegisterEffect
  <2>2. ASSUME NEW b \in Anchorings, NEW t \in Txs, spends'[b][t].verdict = "satisfies"
        PROVE  triggers'[b] \subseteq TxSpends[t]
    <3>1. CASE spends'[b][t] = spends[b][t] /\ b # a
      BY ZenonT(30), <2>1, <2>2, <3>1 DEF WholeSet
    <3>2. CASE b = a
      BY ZenonT(30), <2>1, <2>2, <3>2
    <3> QED
      BY Zenon, <2>1, <3>1, <3>2
  <2> QED
    BY ZenonT(30), <2>2 DEF WholeSet
<1>5. ASSUME NEW a \in Anchorings, Attach(a) PROVE WholeSet'
  <2>1. UNCHANGED spends /\ triggers \in [Anchorings -> SUBSET OutPoints]
    BY ZenonT(30), <1>5, AttachEffect DEF WellFormed, RowsOK
  <2>2. PICK new \in SUBSET OutPoints :
                /\ triggers' = [triggers EXCEPT ![a] = triggers[a] \cup new]
                /\ \A t \in Txs : spends[a][t].verdict = "satisfies" => new \subseteq TxSpends[t]
    BY ZenonT(30), <1>5, AttachEffect
  <2>3. triggers'[a] = triggers[a] \cup new /\ \A b \in Anchorings \ {a} : triggers'[b] = triggers[b]
    BY ZenonT(30), <2>1, <2>2
  <2> QED
    BY ZenonT(30), <2>1, <2>2, <2>3 DEF WholeSet
<1>6. ASSUME NEW a \in Anchorings, Deliver(a) PROVE WholeSet'
  BY ZenonT(30), <1>6, DeliverEffect DEF WholeSet
<1> QED
  BY ZenonT(30), <1>1, <1>2, <1>3, <1>4, <1>5, <1>6, StepKinds

\* The whole-set rule, for every way the trigger set of an anchoring can grow
\* while verdicts are pending: a candidate recorded as satisfying spends all
\* triggers the anchoring has, whatever was cached when it was evaluated.
THEOREM WholeSetHolds == Spec \/ RegisteredSpec => []WholeSet
<1>1. Init \/ InitRegistered => WholeSet
  <2>1. Init \/ InitRegistered => \A a \in Anchorings, t \in Txs : spends[a][t] = NoSpend
    BY DEF Init, RegistryInit, InitRegistered
  <2> QED
    BY ZenonT(30), <2>1, NoSpendType DEF WholeSet
<1>2. WellFormed /\ WholeSet /\ [Next]_vars => WholeSet'
  BY Zenon, WholeSetStep
<1>3. Spec => []WholeSet
  BY <1>1, <1>2, InitWellFormed, WellFormedStep, PTL DEF Spec
<1>4. RegisteredSpec => []WholeSet
  BY <1>1, <1>2, InitWellFormed, WellFormedStep, PTL DEF RegisteredSpec
<1> QED
  BY ZenonT(30), <1>3, <1>4

-----------------------------------------------------------------------------
(* Evidence. *)

\* A confirmation in flight was true of a dominant chain.
EventEvidence(e) ==
    /\ e.type = "loc" => HeldDepth(e.w, 1)
    /\ e.type \in {"act", "fc"} => HeldDepth(e.w, Threshold[e.id])
EventsEvidence == \A e \in inflight : EventEvidence(e)

\* What is certified once held its depth, and of the candidates of an
\* anchoring at most one is certified.
CertsEvidence ==
    \A a \in Anchorings :
        /\ \A t \in Txs : spends[a][t].act => HeldDepth(spends[a][t].w, Threshold[a])
        /\ \A p \in Anchorings : edges[a][p].fc.act => HeldDepth(edges[a][p].fc.w, Threshold[a])
        /\ \A t \in Txs, u \in Txs : spends[a][t].act /\ spends[a][u].act => t = u

\* A sensor does not outlive a certification: while it runs, the re-derivation
\* that will end it is on the stack, so no further event is taken for it.
HasCert(a) ==
    (\E t \in Txs : spends[a][t].act) \/ (\E p \in Anchorings : edges[a][p].fc.act)
RederivePending(a) == \E t \in TasksOf(loop) : t.op = "rederive" /\ t.id = a
LastDerivation == \A a \in Anchorings : HasCert(a) /\ Sensing(a) => RederivePending(a)

Evidence == EventsEvidence /\ CertsEvidence /\ LastDerivation /\ ActEvidence

\* Depth once held stays held.
HeldKept == \A w \in Witnesses, n \in Nat : HeldDepth(w, n) => HeldDepth(w, n)'

\* A step that leaves the chain alone takes no depth away.
LEMMA HeldSame == ASSUME UNCHANGED chainVars PROVE HeldKept
BY ZenonT(30) DEF HeldKept, HeldDepth, chainVars

\* The evidence of events in flight survives a step that adds only events with evidence.
LEMMA EventsFrame ==
    ASSUME WellFormed, EventsEvidence, HeldKept, NEW new, inflight' \subseteq inflight \cup new,
           \A e \in new : EventEvidence(e)'
    PROVE  EventsEvidence'
<1>1. ASSUME NEW e \in inflight PROVE EventEvidence(e)'
  <2>1. EventEvidence(e) /\ e.w \in Witnesses /\ Threshold[e.id] \in Nat /\ 1 \in Nat
    BY ZenonT(30), TakenEvent, WatcherConstants DEF EventsEvidence
  <2> QED
    BY ZenonT(30), <2>1 DEF EventEvidence, HeldKept
<1> QED
  BY ZenonT(30), <1>1 DEF EventsEvidence

\* What new subscriptions report at once is evidence.
LEMMA NewReports ==
    ASSUME WellFormed, UNCHANGED chainVars, NEW a \in Anchorings, NEW subs \in SUBSET SubType, NEW ops,
           NEW e \in HistoricalConfs(a, subs) \cup HistoricalSpends(a, ops)
    PROVE  EventEvidence(e)'
<1>1. ReportOf(e, a, subs, chain)
  BY ZenonT(30), Historical DEF WellFormed, ChainOK
<1>2. EventEvidence(e)
  BY ZenonT(30), <1>1 DEF ReportOf, NumConfs, EventEvidence, HeldDepth
<1> QED
  BY ZenonT(30), <1>2 DEF EventEvidence, HeldDepth, chainVars

\* No certification comes, goes or changes what it is about.
CertsKept ==
    /\ \A a \in Anchorings, t \in Txs :
        /\ spends'[a][t].act <=> spends[a][t].act
        /\ spends[a][t].act => spends'[a][t].w = spends[a][t].w
    /\ \A c \in Anchorings, p \in Anchorings :
        /\ edges[c][p].fc.act => edges'[c][p] = edges[c][p]
        /\ edges'[c][p].fc.act => edges[c][p].fc.act

\* Only confirmations certify.
LEMMA CertsKeptBy ==
    ASSUME WellFormed,
           Steady \/ Rederive \/ \E a \in Anchorings : Register(a) \/ Attach(a) \/ Deliver(a)
    PROVE  CertsKept
<1>1. ASSUME EdgesMove(edges')
      PROVE  \A c \in Anchorings, p \in Anchorings : /\ edges[c][p].fc.act => edges'[c][p] = edges[c][p]
                                                     /\ edges'[c][p].fc.act => edges[c][p].fc.act
  BY ZenonT(30), <1>1 DEF EdgesMove, MovesTo
<1>2. CASE Steady
  BY ZenonT(30), <1>1, <1>2 DEF Steady, SpendsSteady, CertsKept
<1>3. CASE Rederive
  <2>1. UNCHANGED <<spends, edges>>
    BY ZenonT(30), <1>3 DEF Rederive
  <2> QED
    BY Zenon, <2>1 DEF CertsKept
<1>4. ASSUME NEW a \in Anchorings, Register(a) PROVE CertsKept
  <2>1. /\ EdgesMove(edges')
        /\ \A b \in Anchorings, t \in Txs : spends'[b][t].act <=> spends[b][t].act
        /\ \A b \in Anchorings, t \in Txs : spends'[b][t] = spends[b][t] \/ ~spends'[b][t].act
    BY ZenonT(30), <1>4, RegisterEffect
  <2> QED
    BY ZenonT(30), <1>1, <2>1 DEF CertsKept
<1>5. ASSUME NEW a \in Anchorings, Attach(a) \/ Deliver(a) PROVE CertsKept
  <2>1. UNCHANGED spends /\ EdgesMove(edges')
    BY ZenonT(30), <1>5, AttachEffect, DeliverEffect
  <2> QED
    BY ZenonT(30), <1>1, <2>1 DEF CertsKept
<1> QED
  BY ZenonT(30), <1>2, <1>3, <1>4, <1>5

\* The evidence of certificates survives a step that keeps them.
LEMMA CertsFrame ==
    ASSUME WellFormed, HeldKept, CertsKept, CertsEvidence
    PROVE  CertsEvidence' /\ \A a \in Anchorings : HasCert(a)' => HasCert(a)
<1>1. \A a \in Anchorings : Threshold[a] \in Nat
  BY ZenonT(30), WatcherConstants
<1>2. \A a \in Anchorings, t \in Txs : spends[a][t].w \in Witnesses
  BY ZenonT(30) DEF WellFormed, SpendsOK, Candidates
<1>3. \A c \in Anchorings, p \in Anchorings : edges[c][p].fc.w \in Witnesses
  BY ZenonT(30) DEF WellFormed, EdgesOK, EdgeType, Foreclosures
<1>4. \A a \in Anchorings : HasCert(a)' => HasCert(a)
  BY ZenonT(30) DEF CertsKept, HasCert
<1>5. ASSUME NEW a \in Anchorings, NEW t \in Txs, spends'[a][t].act
      PROVE  HeldDepth(spends[a][t].w, Threshold[a])' /\ spends'[a][t].w = spends[a][t].w
  <2>1. HeldDepth(spends[a][t].w, Threshold[a]) /\ spends'[a][t].w = spends[a][t].w
    BY ZenonT(30), <1>5 DEF CertsKept, CertsEvidence
  <2>2. PICK w \in Witnesses, n \in Nat : w = spends[a][t].w /\ n = Threshold[a]
    BY ZenonT(30), <1>1, <1>2
  <2>3. HeldDepth(w, n)'
    BY ZenonT(30), <2>1, <2>2 DEF HeldKept
  <2> QED
    BY ZenonT(30), <2>1, <2>2, <2>3
<1>6. ASSUME NEW a \in Anchorings, NEW p \in Anchorings, edges'[a][p].fc.act
      PROVE  HeldDepth(edges[a][p].fc.w, Threshold[a])'
  <2>1. HeldDepth(edges[a][p].fc.w, Threshold[a]) /\ edges'[a][p] = edges[a][p]
    BY ZenonT(30), <1>6 DEF CertsKept, CertsEvidence
  <2>2. PICK w \in Witnesses, n \in Nat : w = edges[a][p].fc.w /\ n = Threshold[a]
    BY Zenon, <1>1, <1>3
  <2>3. HeldDepth(w, n)'
    BY Zenon, <2>1, <2>2 DEF HeldKept
  <2> QED
    BY ZenonT(30), <2>1, <2>2, <2>3
<1>7. \A a \in Anchorings, t \in Txs, u \in Txs : spends'[a][t].act /\ spends'[a][u].act => t = u
  BY ZenonT(30) DEF CertsKept, CertsEvidence
<1> QED
  BY ZenonT(30), <1>4, <1>5, <1>6, <1>7 DEF CertsEvidence

\* A sensor that runs after the step has a re-derivation before it, or ran
\* before the step without one.
Calm ==
    \A a \in Anchorings :
        Sensing(a)' => RederivePending(a)' \/ (Sensing(a) /\ ~RederivePending(a))

\* The last derivation stays what the certificates say when a step adds none without a derivation to come.
LEMMA CalmFrame ==
    ASSUME LastDerivation, Calm, \A a \in Anchorings : HasCert(a)' => HasCert(a) \/ RederivePending(a)'
    PROVE  LastDerivation'
BY ZenonT(30) DEF LastDerivation, Calm

\* A phase that is terminal after the step was so before it.
LEMMA ActFrame ==
    ASSUME WellFormed, ActEvidence, HeldKept,
           \A a \in Anchorings : IsTerminal(phase'[a]) => phase'[a] = phase[a]
    PROVE  ActEvidence'
<1>1. ASSUME NEW a \in Anchorings, IsTerminal(phase'[a]) PROVE HeldDepth(phase[a].w, Threshold[a])'
  <2>1. phase'[a] = phase[a] /\ HeldDepth(phase[a].w, Threshold[a])
    BY ZenonT(30), <1>1 DEF ActEvidence
  <2>2. PICK w \in Witnesses, n \in Nat : w = phase[a].w /\ n = Threshold[a]
    BY ZenonT(30), WatcherConstants DEF WellFormed, PhasesOK, PhaseType
  <2>3. HeldDepth(w, n)'
    BY ZenonT(30), <2>1, <2>2 DEF HeldKept
  <2> QED
    BY ZenonT(30), <2>1, <2>2, <2>3
<1> QED
  BY ZenonT(30), <1>1 DEF ActEvidence

-----------------------------------------------------------------------------
(* Calm steps. *)

\* Steps outside the sensing loop do not touch its stack or start sensors.
LEMMA CalmOutside ==
    ASSUME WellFormed, loop' = loop, \A a \in Anchorings : Sensing(a)' => Sensing(a)
    PROVE  Calm
BY ZenonT(30) DEF Calm, RederivePending

\* An idle loop has no re-derivation pending.
LEMMA CalmIdle ==
    ASSUME Idle, \A a \in Anchorings : Sensing(a)' => Sensing(a)
    PROVE  Calm
BY ZenonT(30), ShortStacks DEF Calm, RederivePending, Idle

\* A task that leaves the rest of the stack alone, and is not the last
\* re-derivation of a sensor that goes on.
LEMMA CalmTask ==
    ASSUME LoopOK, ~Idle, TasksOf(Tail(loop)) \subseteq TasksOf(loop'),
           \A a \in Anchorings :
                Sensing(a)' => \/ RederivePending(a)'
                               \/ Sensing(a) /\ ~(Head(loop).op = "rederive" /\ Head(loop).id = a)
    PROVE  Calm
<1>1. TasksOf(loop) = {Head(loop)} \cup TasksOf(Tail(loop))
  BY ZenonT(30), StackTop DEF LoopOK
<1> QED
  BY ZenonT(30), <1>1 DEF Calm, RederivePending

\* Pushing tasks over the rest of the stack keeps both.
LEMMA ThenTail ==
    ASSUME LoopOK, ~Idle, NEW tasks \in Seq(TaskType), loop' = Then(tasks)
    PROVE  TasksOf(Tail(loop)) \subseteq TasksOf(loop') /\ TasksOf(tasks) \subseteq TasksOf(loop')
<1>1. Tail(loop) \in Seq(TaskType)
  BY ZenonT(30), StackTop DEF LoopOK
<1> QED
  BY ZenonT(30), <1>1, StackConcat DEF Then

\* Stopping a sensor starts none.
LEMMA StoppedSensors ==
    ASSUME WellFormed, NEW a \in Anchorings, sensors' = StopSensor(a)
    PROVE  ~Sensing(a)' /\ \A b \in Anchorings : Sensing(b)' => Sensing(b)
<1>1. DOMAIN sensors = Anchorings
  BY ZenonT(30) DEF WellFormed, SensorsOK
<1>2. sensors'[a] = NoSensor /\ \A b \in Anchorings \ {a} : sensors'[b] = sensors[b]
  BY ZenonT(30), <1>1 DEF StopSensor
<1> QED
  BY ZenonT(30), <1>2, NoSensorOK DEF Sensing

\* Up to its reconciliation the start of a sensor is calm, and its reports are
\* evidence.
LEMMA SubscribeCalm ==
    ASSUME WellFormed, EventsEvidence, ~Idle, Head(loop).op # "rederive", UNCHANGED chainVars,
           NEW a \in registered, NEW trigs, NEW rest \in Seq(TaskType), Subscribe(a, trigs, rest)
    PROVE  Calm /\ EventsEvidence'
<1> DEFINE subs == UNION {CandidateSubs(a, t, {}) : t \in {u \in Txs : spends[a][u] # NoSpend}}
           s == [st |-> "starting", watched |-> trigs, cached |-> trigs, subs |-> subs,
                 pending |-> [t \in Txs |-> "none"], streams |-> TRUE]
           v == << Task("verify", a) >>
<1>0. a \in Anchorings /\ registered \subseteq Anchorings /\ DOMAIN sensors = Anchorings /\ LoopOK
  BY ZenonT(30) DEF WellFormed, RowsOK, SensorsOK
<1>1. subs \in SUBSET SubType
  BY SMTT(30), CandidateSubsOK
<1>2. /\ sensors' = [sensors EXCEPT ![a] = s]
      /\ inflight' = inflight \cup (HistoricalConfs(a, subs) \cup HistoricalSpends(a, trigs))
      /\ loop' = Then(v \o rest)
  BY Zenon DEF Subscribe
<1> HIDE DEF subs
<1>3. s.st = "starting"
  BY Zenon
<1> HIDE DEF s
<1>4. v \in Seq(TaskType)
  BY ZenonT(30), <1>0, SimpleTask, ShortStacks
<1> HIDE DEF v
<1>5. v \o rest \in Seq(TaskType)
  BY ZenonT(30), <1>4, StackConcat
<1>6. TasksOf(Tail(loop)) \subseteq TasksOf(loop')
  BY ZenonT(30), <1>0, <1>2, <1>5, ThenTail
<1>7. \A b \in Anchorings : Sensing(b)' => Sensing(b)
  BY ZenonT(30), <1>0, <1>2, <1>3 DEF Sensing
<1>8. Calm
  BY ZenonT(30), <1>0, <1>6, <1>7, CalmTask
<1>9. EventsEvidence'
  <2>1. PICK new : new = HistoricalConfs(a, subs) \cup HistoricalSpends(a, trigs)
    BY ZenonT(30)
  <2>2. \A e \in new : EventEvidence(e)'
    BY ZenonT(30), <1>0, <1>1, <2>1, NewReports
  <2>3. inflight' \subseteq inflight \cup new
    BY ZenonT(30), <1>2, <2>1
  <2> QED
    BY ZenonT(30), <2>2, <2>3, HeldSame, EventsFrame
<1> QED
  BY ZenonT(30), <1>8, <1>9

\* Events that are only taken leave evidence.
LEMMA EventsTaken ==
    ASSUME WellFormed, EventsEvidence, HeldKept, inflight' \subseteq inflight
    PROVE  EventsEvidence'
<1>1. PICK new : new = {}
  BY ZenonT(30)
<1>2. inflight' \subseteq inflight \cup new /\ \A e \in new : EventEvidence(e)'
  BY ZenonT(30), <1>1
<1> QED
  BY ZenonT(30), <1>2, EventsFrame

\* The tasks of an adoption are calm.
LEMMA AdoptionCalm ==
    ASSUME WellFormed, EventsEvidence, AdoptOne \/ AdoptSwept
    PROVE  Calm /\ EventsEvidence'
<1>0. /\ ~Idle /\ Head(loop).op \in {"adopt", "sweep"} /\ UNCHANGED chainVars /\ LoopOK
      /\ registered \subseteq Anchorings
  BY ZenonT(30) DEF AdoptOne, AdoptSwept, Doing, WellFormed, RowsOK
<1>1. ASSUME NEW tasks \in Seq(TaskType), loop' = Then(tasks), UNCHANGED <<sensors, inflight>>
      PROVE  Calm /\ EventsEvidence'
  <2>1. TasksOf(Tail(loop)) \subseteq TasksOf(loop')
    BY ZenonT(30), <1>0, <1>1, ThenTail
  <2>2. \A a \in Anchorings : Sensing(a)' => Sensing(a)
    BY ZenonT(30), <1>1 DEF Sensing
  <2> QED
    BY ZenonT(30), <1>0, <1>1, <2>1, <2>2, CalmTask, HeldSame, EventsTaken
<1>2. CASE AdoptOne
  <2>1. PICK a \in registered : a = Head(loop).id
    BY ZenonT(30), <1>2, TopTask DEF WellFormed, AdoptOne, Doing, TaskOK
  <2>2. CASE Sensing(a)
    <3>1. loop' = Then(AfterStart(a)) /\ UNCHANGED <<sensors, inflight>>
      BY ZenonT(30), <1>2, <2>1, <2>2 DEF AdoptOne
    <3> QED
      BY ZenonT(30), <1>0, <1>1, <3>1, AfterStartTasks
  <2>3. CASE ~Sensing(a) /\ IsTerminal(phase[a])
    <3>1. loop' = Tail(loop) /\ UNCHANGED <<sensors, inflight>>
      BY ZenonT(30), <1>2, <2>1, <2>3 DEF AdoptOne
    <3>2. \A b \in Anchorings : Sensing(b)' => Sensing(b)
      BY ZenonT(30), <3>1 DEF Sensing
    <3> QED
      BY ZenonT(30), <1>0, <3>1, <3>2, CalmTask, HeldSame, EventsTaken
  <2>4. CASE ~Sensing(a) /\ ~IsTerminal(phase[a])
    <3>1. Subscribe(a, triggers[a], << >>)
      BY ZenonT(30), <1>2, <2>1, <2>4 DEF AdoptOne
    <3> QED
      BY ZenonT(30), <1>0, <2>1, <3>1, ShortStacks, SubscribeCalm
  <2> QED
    BY ZenonT(30), <2>2, <2>3, <2>4
<1>3. CASE AdoptSwept
  <2>1. PICK t \in TaskType, c \in registered : t = Head(loop) /\ c = First(t) /\ Others(t) \in Seq(TaskType)
    BY ZenonT(30), <1>3, VisitOK DEF AdoptSwept, Doing
  <2>2. CASE Covered(t)
    BY ZenonT(30), <1>1, <1>3, <2>1, <2>2 DEF AdoptSwept
  <2>3. CASE ~Covered(t)
    <3>1. Subscribe(c, t.trigs[c], Others(t))
      BY ZenonT(30), <1>3, <2>1, <2>3 DEF AdoptSwept
    <3> QED
      BY ZenonT(30), <1>0, <2>1, <3>1, SubscribeCalm
  <2> QED
    BY ZenonT(30), <2>2, <2>3
<1> QED
  BY ZenonT(30), <1>2, <1>3

\* A sensor is installed with its re-derivation on the stack.
LEMMA InstallCalm ==
    ASSUME WellFormed, VerifyAndInstall
    PROVE  Calm
<1>1. PICK a \in registered : a = Head(loop).id /\ a \in Anchorings
  BY ZenonT(30), VerifyEdges
<1>2. /\ ~Idle /\ Head(loop).op = "verify" /\ LoopOK /\ registered \subseteq Anchorings
      /\ sensors' = [sensors EXCEPT ![a].st = "on"] /\ loop' = Then(AfterStart(a))
      /\ DOMAIN sensors = Anchorings
  BY ZenonT(30), <1>1 DEF VerifyAndInstall, Doing, WellFormed, RowsOK, SensorsOK
<1>3. /\ AfterStart(a) \in Seq(TaskType) /\ Task("rederive", a) \in TasksOf(AfterStart(a))
      /\ Task("rederive", a).op = "rederive" /\ Task("rederive", a).id = a
  <2>1. Task("rederive", a) \in TaskType /\ Task("own", a) \in TaskType
    BY Zenon, <1>2, SimpleTask
  <2> QED
    BY SMTT(30), <1>2, <2>1, SimpleTask, ShortStacks DEF AfterStart
<1>4. TasksOf(Tail(loop)) \subseteq TasksOf(loop') /\ TasksOf(AfterStart(a)) \subseteq TasksOf(loop')
  BY ZenonT(30), <1>2, <1>3, ThenTail
<1>5. RederivePending(a)'
  BY ZenonT(30), <1>3, <1>4 DEF RederivePending
<1>6. \A b \in Anchorings \ {a} : Sensing(b)' => Sensing(b)
  BY ZenonT(30), <1>2 DEF Sensing
<1> QED
  BY ZenonT(30), <1>2, <1>4, <1>5, <1>6, CalmTask

\* The restages are calm, and so are the failures.
LEMMA RestageCalm ==
    ASSUME WellFormed, RestageAdopted \/ RestageChild
    PROVE  Calm
<1>0. /\ ~Idle /\ Head(loop).op \in {"own", "kids"} /\ LoopOK /\ sensors' = sensors
      /\ registered \subseteq Anchorings /\ RowsOK
  BY ZenonT(30) DEF RestageAdopted, RestageChild, Doing, WellFormed, RowsOK
<1>1. \A a \in Anchorings : Sensing(a)' => Sensing(a)
  BY ZenonT(30), <1>0 DEF Sensing
<1>2. ASSUME NEW tasks \in Seq(TaskType), loop' = Then(tasks) PROVE Calm
  BY ZenonT(30), <1>0, <1>1, <1>2, ThenTail, CalmTask
<1>3. CASE RestageAdopted
  <2>1. PICK a \in registered : a = Head(loop).id /\ a \in Anchorings
    BY ZenonT(30), <1>0, TopTask DEF TaskOK
  <2> DEFINE tasks == IF Sensing(a) THEN Restage(a, phase[a]) ELSE << >>
  <2>2. phase[a] \in PhaseType /\ Located(phase[a])
    BY ZenonT(30), <2>1 DEF WellFormed, PhasesOK
  <2>3. tasks \in Seq(TaskType)
    BY ZenonT(30), <1>0, <2>2, RestageTask, ShortStacks
  <2>4. loop' = Then(tasks)
    BY ZenonT(30), <1>3, <2>1 DEF RestageAdopted
  <2> HIDE DEF tasks
  <2> QED
    BY ZenonT(30), <1>2, <2>3, <2>4
<1>4. CASE RestageChild
  <2>1. PICK t \in TaskType, c \in registered : t = Head(loop) /\ c = First(t) /\ Others(t) \in Seq(TaskType)
    BY ZenonT(30), <1>4, VisitOK DEF RestageChild, Doing
  <2> DEFINE first == IF Sensing(c) THEN << Task("rederive", c) >> ELSE << >>
  <2>2. first \in Seq(TaskType)
    BY ZenonT(30), <1>0, SimpleTask, ShortStacks
  <2>3. loop' = Then(first \o Others(t))
    BY ZenonT(30), <1>4, <2>1 DEF RestageChild
  <2> HIDE DEF first
  <2>4. first \o Others(t) \in Seq(TaskType)
    BY ZenonT(30), <2>1, <2>2, StackConcat
  <2> QED
    BY ZenonT(30), <1>2, <2>3, <2>4
<1> QED
  BY ZenonT(30), <1>0, <1>3, <1>4 DEF RestageAdopted, RestageChild

\* A failing task loses no pending derivation of a sensed anchoring.
LEMMA FailureCalm ==
    ASSUME WellFormed, VerifyFails \/ LoadDependentsFails \/ TaskFails
    PROVE  Calm
<1>0. ~Idle /\ LoopOK
  BY ZenonT(30) DEF VerifyFails, LoadDependentsFails, TaskFails, Doing, WellFormed
<1>1. ASSUME Head(loop).id \in Anchorings, sensors' = StopSensor(Head(loop).id), loop' = Tail(loop) PROVE Calm
  <2>2. PICK a \in Anchorings : a = Head(loop).id
    BY ZenonT(30), <1>1
  <2>3. ~Sensing(a)' /\ \A b \in Anchorings : Sensing(b)' => Sensing(b)
    BY ZenonT(30), <1>1, <2>2, StoppedSensors
  <2> QED
    BY ZenonT(30), <1>0, <1>1, <2>2, <2>3, CalmTask
<1>2. CASE VerifyFails \/ LoadDependentsFails
  <2>1. Head(loop).op \in {"verify", "kids"} /\ sensors' = StopSensor(Head(loop).id) /\ loop' = Tail(loop)
    BY ZenonT(30), <1>2 DEF VerifyFails, LoadDependentsFails, Doing
  <2>2. Head(loop).id \in Anchorings
    BY ZenonT(30), <1>0, <2>1, TopTask DEF TaskOK, WellFormed, RowsOK
  <2> QED
    BY ZenonT(30), <1>1, <2>1, <2>2
<1>3. CASE TaskFails /\ Head(loop).op \in {"sweep", "kids"}
  <2>1. PICK t \in TaskType, c \in registered : t = Head(loop) /\ c = First(t) /\ Others(t) \in Seq(TaskType)
                                                /\ c \in Anchorings
    BY ZenonT(30), <1>0, <1>3, VisitOK
  <2>2. sensors' = StopSensor(c) /\ loop' = Then(Others(t))
    BY ZenonT(30), <1>3, <2>1 DEF TaskFails
  <2>3. \A b \in Anchorings : Sensing(b)' => Sensing(b)
    BY ZenonT(30), <2>1, <2>2, StoppedSensors
  <2>4. TasksOf(Tail(loop)) \subseteq TasksOf(loop')
    BY ZenonT(30), <1>0, <2>1, <2>2, ThenTail
  <2> QED
    BY ZenonT(30), <1>0, <1>3, <2>3, <2>4, CalmTask
<1>4. CASE TaskFails /\ Head(loop).op \notin {"sweep", "kids"}
  <2>1. sensors' = StopSensor(Head(loop).id) /\ loop' = Tail(loop)
    BY ZenonT(30), <1>4 DEF TaskFails
  <2>2. Head(loop).id \in Anchorings
    BY ZenonT(30), <1>0, <1>4, TopTask DEF TaskOK, WellFormed, RowsOK
  <2> QED
    BY ZenonT(30), <1>1, <2>1, <2>2
<1> QED
  BY ZenonT(30), <1>2, <1>3, <1>4
==============================================================================
