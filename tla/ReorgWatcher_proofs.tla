------------------------- MODULE ReorgWatcher_proofs -------------------------
(***************************************************************************)
(* Every step of ReorgWatcher preserves well-formedness, one lemma per     *)
(* action, and with it the type invariant.                                 *)
(***************************************************************************)
EXTENDS WellFormed_proofs

-----------------------------------------------------------------------------
(* The sensing loop's inputs. *)

\* The event a handler takes.
LEMMA TakenEvent ==
    ASSUME WellFormed, NEW e \in inflight
    PROVE  /\ e.id \in registered /\ e.id \in Anchorings /\ e.w \in Witnesses
           /\ e.type \in ChainEvents => e.w.tx \in Txs
           /\ e.type = "fc" => e.parent \in Anchorings /\ edges[e.id][e.parent].form # 0
BY Zenon DEF WellFormed, EventsOK, EventOK, EventType

\* A new stack of one task.
LEMMA LoopStarts ==
    ASSUME WellFormed, Grows, NEW op \in {"adopt", "verify", "rederive", "own"}, NEW a \in registered,
           loop' = << Task(op, a) >>
    PROVE  LoopOK'
<1>1. Task(op, a) \in TaskType /\ TaskOK(Task(op, a))
  BY Zenon, SimpleTask DEF WellFormed, RowsOK
<1>2. PICK u \in TaskType : u = Task(op, a)
  BY ZenonT(30), <1>1
<1>3. TaskOK(u)'
  BY ZenonT(30), <1>1, <1>2, FrameTask DEF WellFormed, RowsOK
<1> QED
  BY ZenonT(30), <1>2, <1>3, ShortStacks DEF LoopOK

\* The handlers that start or stop a sensor and write nothing.
LEMMA HandOffsOK ==
    ASSUME WellFormed, NEW e \in inflight,
           handleSense(e) \/ handleStopSensing(e) \/ handleResense(e) \/ IgnoreEvent(e) \/ HandlerFails(e)
    PROVE  WellFormed'
<1> USE DEF WellFormed
<1>0. inflight' = inflight \ {e} /\ UNCHANGED <<chainVars, registryVars>>
  BY Zenon DEF handleSense, handleStopSensing, handleResense, IgnoreEvent, HandlerFails
<1>1. RowsOK' /\ SpendsOK' /\ EdgesOK' /\ PhasesOK' /\ Grows /\ ChainOK' /\ EventsOK'
  BY ZenonT(30), <1>0, RegistrySame, ChainSame, EventsKept
<1>2. e.id \in registered /\ e.id \in Anchorings /\ registered \subseteq Anchorings
  BY ZenonT(30), TakenEvent DEF RowsOK
<1>3. faults' \in 0..MaxFaults
  BY ZenonT(30), FaultCounted DEF handleSense, handleStopSensing, handleResense, IgnoreEvent, HandlerFails
<1>4. SensorsOK'
  <2>1. sensors' = sensors \/ sensors' = StopSensor(e.id)
    BY Zenon DEF handleSense, handleStopSensing, handleResense, IgnoreEvent, HandlerFails
  <2> QED
    BY ZenonT(30), <1>1, <1>2, <2>1, SensorsSame, SensorStopped
<1>5. LoopOK'
  <2>1. loop' = loop \/ loop' = << Task("adopt", e.id) >>
    BY ZenonT(30) DEF handleSense, handleStopSensing, handleResense, IgnoreEvent, HandlerFails
  <2> QED
    BY ZenonT(30), <1>1, <1>2, <2>1, LoopSame, LoopStarts
<1> QED
  BY ZenonT(30), <1>1, <1>3, <1>4, <1>5

\* Handling a spend preserves well-formedness (handleSpendDetail).
LEMMA HandleSpendDetailOK ==
    ASSUME WellFormed, NEW e \in inflight, handleSpendDetail(e)
    PROVE  WellFormed'
<1> USE DEF WellFormed
<1> DEFINE a == e.id
           t == e.w.tx
           subs == CandidateSubs(a, t, sensors[a].subs)
           known == spends[a][t] # NoSpend \/ sensors[a].pending[t] # "none"
           verdict == IF known THEN sensors[a].pending[t] ELSE EvaluateCandidate(a, t)
<1>0. /\ Sensing(a)
      /\ sensors' = [sensors EXCEPT ![a] =
                            [sensors[a] EXCEPT !.subs = @ \cup subs, !.pending[t] = verdict]]
      /\ inflight' = (inflight \ {e}) \cup HistoricalConfs(a, subs)
      /\ UNCHANGED <<chainVars, registryVars, loop, faults>>
  BY ZenonT(30) DEF handleSpendDetail
<1>1. a \in registered /\ a \in Anchorings /\ t \in Txs
  BY ZenonT(30), TakenEvent DEF handleSpendDetail, Take, ChainEvents
<1>2. \A s \in subs : s \in SubType /\ s.kind \in {"loc", "act"}
  BY ZenonT(30), <1>1, CandidateSubsOK
<1>3. SensorOK(a)
  BY ZenonT(30), <1>1 DEF SensorsOK
<1>4. verdict \in Verdicts
  BY ZenonT(30), <1>1, <1>3 DEF SensorOK, SensorType, EvaluateCandidate, Verdicts
<1> DEFINE s == [sensors[a] EXCEPT !.subs = @ \cup subs, !.pending[t] = verdict]
<1>5. sensors' = [sensors EXCEPT ![a] = s]
  BY ZenonT(30), <1>0
<1> HIDE DEF subs, verdict
<1>6. s \in SensorType /\ s.subs = sensors[a].subs \cup subs /\ s.st = sensors[a].st
  BY ZenonT(30), <1>1, <1>2, <1>3, <1>4 DEF SensorOK, SensorType
<1> HIDE DEF s
<1>7. RowsOK' /\ SpendsOK' /\ EdgesOK' /\ PhasesOK' /\ Grows /\ ChainOK'
  BY ZenonT(30), <1>0, RegistrySame, ChainSame
<1>8. PICK b \in Anchorings, new \in SensorType : b = a /\ new = s
  BY ZenonT(30), <1>1, <1>6
<1>9. SensorsOK'
  <2>1. \A x \in new.subs : SubOK(b, x)
    BY ZenonT(30), <1>2, <1>3, <1>6, <1>8 DEF SensorOK, SubOK
  <2>2. \A x \in new.subs : SubOK(b, x)'
    BY ZenonT(30), <1>7, <1>8, <2>1 DEF SubOK, Grows
  <2> QED
    BY ZenonT(30), <1>1, <1>5, <1>7, <1>8, <2>2, SensorWritten DEF Grows
<1>10. EventsOK'
  <2>1. subs \in SUBSET SubType /\ \A x \in subs : SubOK(a, x)
    BY ZenonT(30), <1>2 DEF SubOK
  <2>2. inflight' \subseteq inflight \cup (HistoricalConfs(a, subs) \cup HistoricalSpends(a, {}))
    BY ZenonT(30), <1>0 DEF subs
  <2> QED
    BY ZenonT(30), <1>1, <1>7, <2>1, <2>2, ReportsAdded
<1>11. LoopOK'
  BY ZenonT(30), <1>0, <1>7, LoopSame DEF RowsOK
<1> QED
  BY ZenonT(30), <1>0, <1>7, <1>9, <1>10, <1>11

\* The candidate a confirmation records.
LEMMA UpsertOK ==
    ASSUME NEW old \in Candidates, NEW c \in Candidates
    PROVE  LET new == UpsertedCandidate(old, c)
           IN  /\ new \in Candidates
               /\ new.verdict = c.verdict /\ new.w = c.w /\ (new.act <=> old.act \/ c.act)
<1> DEFINE act == old.act \/ c.act
           new == [c EXCEPT !.act = act]
<1>1. act \in BOOLEAN /\ UpsertedCandidate(old, c) = new
  BY Zenon DEF UpsertedCandidate
<1>2. new \in Candidates /\ new.verdict = c.verdict /\ new.w = c.w /\ new.act = act
  <2> HIDE DEF act
  <2> QED
    BY ZenonT(30), <1>1 DEF Candidates
<1> HIDE DEF new
<1> QED
  BY ZenonT(30), <1>1, <1>2

\* Recording a candidate's confirmation preserves well-formedness.
LEMMA RecordCandidateOK ==
    ASSUME WellFormed, NEW e \in inflight, e.type \in ChainEvents, NEW act \in BOOLEAN,
           RecordCandidate(e, act), inflight' = inflight \ {e},
           UNCHANGED <<chainVars, faults>>, RegistrationUnchanged
    PROVE  WellFormed'
<1> USE DEF WellFormed
<1>0. PICK a \in registered, t \in Txs : a = e.id /\ t = e.w.tx /\ a \in Anchorings /\ e.w \in Witnesses
  BY ZenonT(30), TakenEvent
<1> DEFINE c == [verdict |-> VerdictOf(a, t), w |-> e.w, onChain |-> TRUE, act |-> act]
<1>1. SensorOK(a) /\ spends[a][t] \in Candidates
  BY ZenonT(30), <1>0 DEF SensorsOK, SpendsOK
<1>2. c \in Candidates /\ c.verdict = VerdictOf(a, t) /\ c.w = e.w /\ c.act = act
  <2>1. VerdictOf(a, t) \in Verdicts
    BY ZenonT(30), <1>1 DEF VerdictOf, SensorOK, SensorType, Candidates
  <2> QED
    BY ZenonT(30), <1>0, <2>1 DEF Candidates
<1>3. RowsOK' /\ ChainOK' /\ faults' \in 0..MaxFaults
  BY ZenonT(30), ChainSame DEF RegistrationUnchanged, RowsOK
<1>4. CASE c.verdict = "none" \/ ~CandidateAllowed(triggers[a], c)
  <2>1. sensors' = StopSensor(a) /\ UNCHANGED <<spends, edges, loop>>
    BY ZenonT(30), <1>0, <1>4 DEF RecordCandidate
  <2>2. EdgesOK' /\ Grows /\ SpendsOK' /\ PhasesOK'
    BY ZenonT(30), <2>1, EdgesStay, EdgesGrow, PhasesSame DEF RegistrationUnchanged, SpendsOK
  <2> QED
    BY ZenonT(30), <1>0, <1>3, <2>1, <2>2, SensorStopped, EventsKept, LoopSame DEF RowsOK
<1>5. CASE ~(c.verdict = "none" \/ ~CandidateAllowed(triggers[a], c))
  <2> DEFINE new == UpsertedCandidate(spends[a][t], c)
  <2>1. /\ spends' = [spends EXCEPT ![a][t] = new]
        /\ edges' = DerivedEdges(a, c)
        /\ sensors' = [sensors EXCEPT ![a].pending[t] = "none"]
        /\ loop' = << Task("rederive", a) >>
    BY ZenonT(30), <1>0, <1>5 DEF RecordCandidate
  <2>2. new \in Candidates /\ new.verdict = c.verdict /\ new.w = c.w
    <3> HIDE DEF c
    <3> QED
      BY ZenonT(30), <1>1, <1>2, UpsertOK
  <2>3. c.verdict # "none" /\ c.w.tx \in Txs
    BY ZenonT(30), <1>0, <1>2, <1>5
  <2> HIDE DEF new, c
  <2>4. EdgesMove(edges')
    BY ZenonT(30), <1>0, <2>1, <2>3, DerivedEdgesMove
  <2>5. EdgesOK' /\ Grows
    BY ZenonT(30), <2>4, EdgesGrow DEF RegistrationUnchanged
  <2>6. SpendsOK' /\ PhasesOK'
    <3>1. new.w.tx = t /\ new.verdict # "none"
      BY ZenonT(30), <1>0, <1>2, <2>2, <2>3
    <3>2. SpendsOK' /\ \A b \in Anchorings \ registered : spends'[b] = spends[b]
      BY ZenonT(30), <1>0, <2>1, <2>2, <3>1, Recorded DEF SpendsOK
    <3> QED
      BY ZenonT(30), <3>2, PhasesSame DEF RegistrationUnchanged
  <2>7. SensorsOK'
    <3> DEFINE s == [sensors[a] EXCEPT !.pending[t] = "none"]
    <3>1. sensors' = [sensors EXCEPT ![a] = s]
      BY ZenonT(30), <2>1
    <3>2. s \in SensorType /\ s.subs = sensors[a].subs /\ s.st = sensors[a].st
      BY ZenonT(30), <1>1 DEF SensorOK, SensorType, Verdicts
    <3> HIDE DEF s
    <3>3. PICK r \in SensorType : r = s
      BY ZenonT(30), <3>2
    <3>4. \A x \in r.subs : SubOK(a, x)
      BY ZenonT(30), <1>1, <3>2, <3>3 DEF SensorOK
    <3>5. \A x \in r.subs : SubOK(a, x)'
      BY ZenonT(30), <1>0, <2>5, <3>4 DEF SubOK, Grows
    <3> QED
      BY Zenon, <1>0, <2>5, <3>1, <3>3, <3>5, SensorWritten DEF Grows
  <2>8. LoopOK' /\ EventsOK'
    BY ZenonT(30), <1>0, <2>1, <2>5, LoopStarts, EventsKept
  <2> QED
    BY ZenonT(30), <1>3, <2>5, <2>6, <2>7, <2>8
<1> QED
  BY ZenonT(30), <1>4, <1>5

\* Handling a candidate's confirmations preserves well-formedness (handleCandidateConf, handleCandidateActConf).
LEMMA ConfirmationsOK ==
    ASSUME WellFormed, NEW e \in inflight, handleCandidateConf(e) \/ handleCandidateActConf(e)
    PROVE  WellFormed'
<1> USE DEF WellFormed
<1>0. /\ e.type \in ChainEvents /\ inflight' = inflight \ {e}
      /\ UNCHANGED <<chainVars, faults>> /\ RegistrationUnchanged
  BY Zenon DEF handleCandidateConf, handleCandidateActConf, Take, ChainEvents
<1>1. \/ RecordCandidate(e, Threshold[e.id] <= 1)
      \/ RecordCandidate(e, TRUE)
      \/ (sensors' = sensors \/ sensors' = StopSensor(e.id)) /\ UNCHANGED <<spends, edges, loop>>
  BY Zenon DEF handleCandidateConf, handleCandidateActConf
<1>2. CASE RecordCandidate(e, Threshold[e.id] <= 1) \/ RecordCandidate(e, TRUE)
  <2>1. (Threshold[e.id] <= 1) \in BOOLEAN /\ TRUE \in BOOLEAN
    OBVIOUS
  <2> QED
    BY ZenonT(30), <1>0, <1>2, <2>1, RecordCandidateOK
<1>3. CASE (sensors' = sensors \/ sensors' = StopSensor(e.id)) /\ UNCHANGED <<spends, edges, loop>>
  <2>1. EdgesOK' /\ Grows /\ SpendsOK' /\ PhasesOK' /\ RowsOK' /\ ChainOK'
    BY ZenonT(30), <1>0, <1>3, EdgesStay, EdgesGrow, PhasesSame, ChainSame DEF RegistrationUnchanged, SpendsOK, RowsOK
  <2>2. e.id \in Anchorings
    BY ZenonT(30), TakenEvent
  <2> QED
    BY ZenonT(30), <1>0, <1>3, <2>1, <2>2, SensorsSame, SensorStopped, EventsKept, LoopSame DEF RowsOK
<1> QED
  BY ZenonT(30), <1>1, <1>2, <1>3

\* Handling a candidate's re-org preserves well-formedness (markCandidateOffChain).
LEMMA MarkCandidateOffChainOK ==
    ASSUME WellFormed, NEW e \in inflight, markCandidateOffChain(e)
    PROVE  WellFormed'
<1> USE DEF WellFormed
<1>0. /\ inflight' = inflight \ {e}
      /\ UNCHANGED <<chainVars, edges, sensors, faults>> /\ RegistrationUnchanged
      /\ \/ spends' = MarkedOffChain(e.id, {e.w.tx}) /\ loop' = << Task("rederive", e.id) >>
         \/ UNCHANGED <<spends, loop>>
  BY Zenon DEF markCandidateOffChain
<1>1. e.id \in registered /\ e.id \in Anchorings
  BY ZenonT(30), TakenEvent
<1>2. EdgesOK' /\ Grows /\ RowsOK' /\ ChainOK'
  BY ZenonT(30), <1>0, EdgesStay, EdgesGrow, ChainSame DEF RegistrationUnchanged, RowsOK
<1>3. SpendsOK' /\ PhasesOK'
  <2>1. SpendsOK' /\ \A a \in Anchorings \ registered : spends'[a] = spends[a]
    BY <1>0, <1>1, OffChain DEF SpendsOK
  <2> QED
    BY ZenonT(30), <1>0, <2>1, PhasesSame DEF RegistrationUnchanged
<1>4. LoopOK'
  BY Zenon, <1>0, <1>1, <1>2, LoopSame, LoopStarts DEF RowsOK
<1> QED
  BY ZenonT(30), <1>0, <1>2, <1>3, <1>4, SensorsSame, EventsKept

\* A certification of an edge's foreclosure.
Certify(c, p, w) ==
    edges' = [edges EXCEPT ![c][p] = StageForeclosure(@, [Foreclosure(p, w) EXCEPT !.act = TRUE])]

\* Certifying a staged foreclosure keeps the edges well formed and their forms.
LEMMA CertifiedForeclosure ==
    ASSUME EdgesOK, NEW c \in Anchorings, NEW p \in Anchorings, edges[c][p].form # 0,
           NEW w \in Witnesses, w.tx \in Txs,
           Certify(c, p, w)
    PROVE  /\ EdgesOK'
           /\ \A d \in Anchorings, q \in Anchorings :
                /\ edges'[d][q].form = edges[d][q].form
                /\ edges[d][q].fc.act => edges'[d][q] = edges[d][q]
                /\ edges'[d][q].fc.act => edges[d][q].fc.act \/ (d = c /\ q = p /\ edges'[d][q].fc.w = w)
<1> DEFINE fc == [Foreclosure(p, w) EXCEPT !.act = TRUE]
           new == StageForeclosure(edges[c][p], fc)
<1>1. fc \in Foreclosures /\ fc.parent = p /\ fc.w = w
  BY Zenon DEF Foreclosure, Foreclosures
<1>2. edges[c][p] \in EdgeType /\ EdgeKeyed(p, edges[c][p]) /\ edges \in [Anchorings -> [Anchorings -> EdgeType]]
  BY Zenon DEF EdgesOK
<1>3. edges' = [edges EXCEPT ![c][p] = new]
  BY Zenon DEF Certify
<1> HIDE DEF fc
<1>4. /\ new \in EdgeType /\ EdgeKeyed(p, new) /\ new.form = edges[c][p].form
      /\ edges[c][p].fc.act => new = edges[c][p]
      /\ ~edges[c][p].fc.act => new.fc.w = w
  BY ZenonT(30), <1>1, <1>2, Staging DEF EdgeKeyed
<1> HIDE DEF new
<1>5. /\ edges' \in [Anchorings -> [Anchorings -> EdgeType]]
      /\ \A d \in Anchorings, q \in Anchorings : edges'[d][q] = IF d = c /\ q = p THEN new ELSE edges[d][q]
  <2> DEFINE row == [edges[c] EXCEPT ![p] = new]
  <2>1. row \in [Anchorings -> EdgeType] /\ \A q \in Anchorings : row[q] = IF q = p THEN new ELSE edges[c][q]
    BY ZenonT(30), <1>2, <1>4
  <2>2. edges' = [edges EXCEPT ![c] = row]
    BY ZenonT(30), <1>3
  <2> HIDE DEF row
  <2>3. /\ edges' \in [Anchorings -> [Anchorings -> EdgeType]]
        /\ \A d \in Anchorings : edges'[d] = IF d = c THEN row ELSE edges[d]
    BY ZenonT(30), <1>2, <2>1, <2>2
  <2> QED
    BY ZenonT(30), <2>1, <2>3
<1> QED
  BY <1>4, <1>5 DEF EdgesOK

\* Handling a foreclosing transaction's depth preserves well-formedness (handleForeclosureActConf).
LEMMA HandleForeclosureActConfOK ==
    ASSUME WellFormed, NEW e \in inflight, handleForeclosureActConf(e)
    PROVE  WellFormed'
<1> USE DEF WellFormed
<1>0. /\ inflight' = inflight \ {e} /\ e.type = "fc" /\ e.type \in ChainEvents
      /\ UNCHANGED <<chainVars, spends, faults>> /\ RegistrationUnchanged
      /\ \/ /\ Certify(e.id, e.parent, e.w)
            /\ loop' = << Task("rederive", e.id) >> /\ sensors' = sensors
         \/ sensors' = StopSensor(e.id) /\ UNCHANGED <<edges, loop>>
  BY Zenon DEF handleForeclosureActConf, Take, ChainEvents, Certify
<1>1. /\ e.id \in registered /\ e.id \in Anchorings /\ e.w \in Witnesses /\ e.w.tx \in Txs
      /\ e.parent \in Anchorings /\ edges[e.id][e.parent].form # 0
  BY ZenonT(30), <1>0, TakenEvent
<1>2. EdgesOK' /\ Grows
  <2>1. CASE edges' = edges
    BY ZenonT(30), <1>0, <2>1, EdgesStay, EdgesGrow DEF RegistrationUnchanged
  <2>2. CASE Certify(e.id, e.parent, e.w)
    <3>1. PICK c \in Anchorings, p \in Anchorings, w \in Witnesses :
                /\ c = e.id /\ p = e.parent /\ w = e.w /\ edges[c][p].form # 0 /\ w.tx \in Txs
                /\ Certify(c, p, w)
      BY ZenonT(30), <1>1, <2>2
    <3>2. EdgesOK' /\ \A d \in Anchorings, q \in Anchorings : edges'[d][q].form = edges[d][q].form
      BY <3>1, CertifiedForeclosure, SMTT(30)
    <3> QED
      BY ZenonT(30), <1>0, <3>2 DEF RegistrationUnchanged, Grows
  <2> QED
    BY ZenonT(30), <1>0, <2>1, <2>2
<1>3. SpendsOK' /\ PhasesOK' /\ RowsOK' /\ ChainOK'
  BY Zenon, <1>0, PhasesSame, ChainSame DEF RegistrationUnchanged, SpendsOK, RowsOK
<1>4. LoopOK'
  BY Zenon, <1>0, <1>1, <1>2, LoopSame, LoopStarts DEF RowsOK
<1> QED
  BY ZenonT(30), <1>0, <1>1, <1>2, <1>3, <1>4, SensorsSame, SensorStopped, EventsKept


-----------------------------------------------------------------------------
(* The world around the sensing loop. *)

\* A subscription that a chain step may unhide is otherwise what it was.
LEMMA Unhidden ==
    ASSUME NEW s \in SubType, NEW c, NEW d
    PROVE  Unhide(s, c, d) \in SubType /\ Unhide(s, c, d).kind = s.kind /\ Unhide(s, c, d).parent = s.parent
<1>1. (s.hidden /\ findTx(d, s.tx) = findTx(c, s.tx)) \in BOOLEAN
  BY Zenon
<1> QED
  BY ZenonT(30), <1>1 DEF Unhide, SubType

\* A block or a re-org, and its dispatch to every live stream, keep the state
\* well formed.
LEMMA ChainMovesOK == WellFormed /\ (BlockConnected \/ ChainReorged) => WellFormed'
<1> SUFFICES ASSUME WellFormed, BlockConnected \/ ChainReorged PROVE WellFormed'
  BY Zenon
<1> USE DEF WellFormed
<1>0. MineBlock \/ Reorg
  BY ZenonT(30) DEF BlockConnected, ChainReorged
<1> DEFINE new == UNION {dispatch(a, chain, chain') : a \in Anchorings}
           S(a) == [sensors[a] EXCEPT !.subs = {Unhide(s, chain, chain') : s \in @}]
<1>1. /\ inflight' = inflight \cup new
      /\ sensors' = [a \in Anchorings |-> S(a)]
      /\ UNCHANGED <<registryVars, loop, faults>>
  BY Zenon DEF BlockConnected, ChainReorged, Dispatched
<1>2. ChainOK' /\ chain' \in ChainType
  BY ZenonT(30), <1>0, ChainStep DEF ChainOK
<1>3. RowsOK' /\ SpendsOK' /\ EdgesOK' /\ PhasesOK' /\ Grows
  BY ZenonT(30), <1>1, RegistrySame
<1>4. ASSUME NEW a \in Anchorings, NEW e \in dispatch(a, chain, chain') PROVE EventOK(e)
  <2>1. SensorOK(a)
    BY Zenon DEF SensorsOK
  <2>2. sensors[a].subs \in SUBSET SubType /\ \A s \in sensors[a].subs : SubOK(a, s)
    BY ZenonT(30), <2>1 DEF SensorOK, SensorType
  <2>3. a \in registered
    BY ZenonT(30), <2>1 DEF SensorOK, dispatch
  <2>4. ReportOf(e, a, sensors[a].subs, chain')
    BY ZenonT(30), <1>2, <1>4, <2>2, Dispatching
  <2> QED
    BY ZenonT(30), <2>2, <2>3, <2>4, ReportOK
<1>5. EventsOK'
  <2>1. \A e \in new : EventOK(e)
    BY ZenonT(30), <1>4
  <2> HIDE DEF new
  <2>2. \A e \in new : EventOK(e)'
    BY ZenonT(30), <1>3, <2>1, FrameEvent DEF RowsOK
  <2> QED
    BY ZenonT(30), <1>1, <1>3, <2>2, EventsAdded
<1>6. SensorsOK'
  <2>1. ASSUME NEW a \in Anchorings PROVE SensorOK(a)'
    <3> DEFINE U == {Unhide(s, chain, chain') : s \in sensors[a].subs}
    <3>1. sensors'[a] = [sensors[a] EXCEPT !.subs = U]
      BY ZenonT(30), <1>1
    <3>2. SensorOK(a)
      BY Zenon DEF SensorsOK
    <3>3. sensors[a].subs \in SUBSET SubType /\ \A s \in sensors[a].subs : SubOK(a, s)
      BY ZenonT(30), <3>2 DEF SensorOK, SensorType
    <3>4. \A u \in U : u \in SubType /\ SubOK(a, u)
      BY <3>3, Unhidden DEF SubOK
    <3> HIDE DEF U
    <3>5. /\ sensors'[a] \in SensorType /\ sensors'[a].subs = U
          /\ sensors'[a].st = sensors[a].st /\ sensors'[a].streams = sensors[a].streams
      BY Zenon, <3>1, <3>2, <3>4 DEF SensorOK, SensorType
    <3>6. \A u \in U : SubOK(a, u)'
      BY ZenonT(30), <1>3, <3>4 DEF Grows, SubOK
    <3> QED
      BY ZenonT(30), <1>3, <3>2, <3>5, <3>6 DEF SensorOK, Grows
  <2> QED
    BY ZenonT(30), <1>1, <2>1 DEF SensorsOK
<1>7. LoopOK'
  BY ZenonT(30), <1>1, <1>3, LoopSame DEF RowsOK
<1> QED
  BY ZenonT(30), <1>1, <1>2, <1>3, <1>5, <1>6, <1>7

\* The hand-offs about an anchoring that is registered after the step.
LEMMA HandOffNext ==
    ASSUME NEW a \in Anchorings, a \in registered'
    PROVE  EventOK(evSense(a))' /\ EventOK(evStopSensing(a))' /\ EventOK(evResense(a))'
<1>1. NoWitness \in Witnesses
  BY ZenonT(30) DEF NoWitness, Witnesses
<1>2. \A type \in {"sense", "stop", "resense"} :
        /\ Event(type, a, NoWitness, 0) \in EventType
        /\ Event(type, a, NoWitness, 0).type = type /\ Event(type, a, NoWitness, 0).id = a
  BY <1>1, EventParts
<1> QED
  BY ZenonT(30), <1>2 DEF EventOK, evSense, evStopSensing, evResense, ChainEvents

\* A row of moved edges is replaced.
LEMMA MovedRow ==
    ASSUME NEW D, EdgesMove(D), NEW c \in Anchorings, NEW row \in [Anchorings -> EdgeType],
           \A p \in Anchorings : MovesTo(p, edges[c][p], row[p])
    PROVE  EdgesMove([D EXCEPT ![c] = row])
<1>1. D \in [Anchorings -> [Anchorings -> EdgeType]]
  BY Zenon DEF EdgesMove
<1>2. [D EXCEPT ![c] = row] \in [Anchorings -> [Anchorings -> EdgeType]]
  BY ZenonT(30), <1>1
<1>3. \A d \in Anchorings : [D EXCEPT ![c] = row][d] = IF d = c THEN row ELSE D[d]
  BY ZenonT(30), <1>1
<1> QED
  BY Zenon, <1>2, <1>3 DEF EdgesMove

\* A seed is a satisfying, uncertified candidate that some dominant chain held.
LEMMA SeedType ==
    ASSUME ChainOK, NEW a \in Anchorings,
           NEW c \in {d \in orphaned \cup {chain} : SeedTx[a] # 0 /\ Confirmed(d, SeedTx[a])},
           NEW seed,
           seed = [verdict |-> "satisfies", w |-> findTx(c, SeedTx[a]), onChain |-> TRUE, act |-> FALSE]
    PROVE  /\ seed \in Candidates /\ seed.verdict = "satisfies" /\ seed.w.tx \in Txs /\ ~seed.act
<1>1. c \in ChainType /\ SeedTx[a] \in Txs \cup {0}
  BY ZenonT(30), WatcherConstants DEF ChainOK
<1>2. findTx(c, SeedTx[a]) \in Witnesses /\ findTx(c, SeedTx[a]).tx \in Txs
  BY ZenonT(30), <1>1, FindTxType
<1> QED
  BY ZenonT(30), <1>2 DEF Candidates, Verdicts

\* What a new registration writes of its seed, and leaves alone.
Inserted(a, seed) ==
    /\ EdgesMove(edges')
    /\ \A b \in Anchorings, t \in Txs : spends'[b][t].act <=> spends[b][t].act
    /\ ~IsTerminal(phase'[a]) /\ ~IsTerminal(phase[a])
    /\ \A b \in Anchorings \ {a} : phase'[b] = phase[b] /\ delivered'[b] = delivered[b]
    /\ \A b \in Anchorings, t \in Txs :
            \/ spends'[b][t] = spends[b][t]
            \/ b = a /\ spends'[b][t] = seed /\ t = seed.w.tx

\* What a new registration writes to the registry.
LEMMA InsertOK ==
    ASSUME WellFormed, NEW a \in Anchorings, NEW trigs \in SUBSET OutPoints, NEW h \in Nat,
           NEW seed, insertRegistration(a, trigs, h, seed),
           \/ seed = NoSpend
           \/ seed \in Candidates /\ seed.verdict = "satisfies" /\ seed.w.tx \in Txs /\ ~seed.act
    PROVE  /\ RowsOK' /\ SpendsOK' /\ EdgesOK' /\ PhasesOK' /\ Grows /\ a \in registered'
           /\ Inserted(a, seed)
<1> USE DEF WellFormed
<1> DEFINE born == DerivePhase(spends'[a], NoForeclosure)
<1>0. /\ a \notin registered
      /\ registered' = registered \cup {a}
      /\ triggers' = [triggers EXCEPT ![a] = trigs]
      /\ createdHeight' = [createdHeight EXCEPT ![a] = h]
      /\ spends' = IF seed = NoSpend THEN spends ELSE [spends EXCEPT ![a][seed.w.tx] = seed]
      /\ edges' = [DerivedEdges(a, seed) EXCEPT ![a] = ParentEdges(a, trigs)]
      /\ phase' = [phase EXCEPT ![a] = born]
      /\ delivered' = [delivered EXCEPT ![a] = born]
  BY ZenonT(30) DEF insertRegistration
<1>1. RowsOK'
  BY ZenonT(30), <1>0 DEF RowsOK
<1>2. EdgesMove(edges')
  <2>1. EdgesMove(DerivedEdges(a, seed))
    BY ZenonT(30), DerivedEdgesMove, NoSpendType
  <2> DEFINE D == DerivedEdges(a, seed)
             row == ParentEdges(a, trigs)
  <2>2. row \in [Anchorings -> EdgeType] /\ \A p \in Anchorings : MovesTo(p, edges[a][p], row[p])
    BY ZenonT(30), ParentEdgesMove
  <2> HIDE DEF D, row
  <2> QED
    BY ZenonT(30), <1>0, <2>1, <2>2, MovedRow DEF D, row
<1>3. EdgesOK' /\ Grows
  BY ZenonT(30), <1>0, <1>2, EdgesGrow
<1>4. /\ \A t \in Txs : spends[a][t].verdict = "none" /\ spends[a][t].act = FALSE
      /\ phase[a] = Unwitnessed /\ delivered[a] = Unwitnessed
  <2>1. \A t \in Txs : spends[a][t] \in Candidates
    BY ZenonT(30) DEF SpendsOK
  <2>2. SpendsKeyed(spends[a])
    BY ZenonT(30) DEF SpendsOK
  <2>3. \A t \in Txs : spends[a][t].act \in BOOLEAN
    BY ZenonT(30), <2>1 DEF Candidates
  <2> QED
    BY ZenonT(30), <1>0, <2>2, <2>3 DEF PhasesOK, SpendsKeyed
<1>5. /\ SpendsOK'
      /\ \A b \in Anchorings, t \in Txs :
            \/ spends'[b][t] = spends[b][t]
            \/ b = a /\ spends'[b][t] = seed /\ t = seed.w.tx /\ ~seed.act
  <2>1. CASE seed = NoSpend
    BY ZenonT(30), <1>0, <2>1 DEF SpendsOK
  <2>2. CASE seed # NoSpend
    <3>1. PICK t \in Txs : t = seed.w.tx
      BY ZenonT(30), <2>2
    <3>2. spends' = [spends EXCEPT ![a][t] = seed]
      BY ZenonT(30), <1>0, <2>2, <3>1
    <3>3. seed \in Candidates /\ seed.verdict # "none" /\ ~seed.act
      BY ZenonT(30), <2>2
    <3>4. /\ spends' \in [Anchorings -> [Txs -> Candidates]]
          /\ \A b \in Anchorings : SpendsKeyed(spends'[b])
          /\ \A b \in Anchorings, u \in Txs : spends'[b][u] = IF b = a /\ u = t THEN seed ELSE spends[b][u]
      BY SMTT(30), <3>1, <3>2, <3>3, Recorded
    <3> QED
      BY ZenonT(30), <3>1, <3>3, <3>4 DEF SpendsOK
  <2> QED
    BY ZenonT(30), <2>1, <2>2
<1>6. \A b \in Anchorings, t \in Txs : spends'[b][t].act <=> spends[b][t].act
  BY SMTT(30), <1>4, <1>5
<1>7. /\ born \in PhaseType /\ Located(born) /\ ~IsTerminal(born)
  <2>1. spends'[a] \in [Txs -> Candidates] /\ SpendsKeyed(spends'[a])
    BY ZenonT(30), <1>5 DEF SpendsOK
  <2>2. \A t \in Txs : ~spends'[a][t].act
    BY ZenonT(30), <1>4, <1>6
  <2> QED
    BY Zenon, <2>1, <2>2, NoForeclosureType, DerivedType, DerivedTerminal
<1> HIDE DEF born
<1>8. /\ DOMAIN phase' = Anchorings /\ DOMAIN delivered' = Anchorings
      /\ phase'[a] = born /\ delivered'[a] = born
      /\ \A b \in Anchorings \ {a} : phase'[b] = phase[b] /\ delivered'[b] = delivered[b]
  BY ZenonT(30), <1>0 DEF PhasesOK
<1>9. PhasesOK'
  <2>1. ASSUME NEW b \in Anchorings \ {a}, NEW t \in Txs PROVE spends'[b][t] = spends[b][t]
    BY Zenon, <1>5
  <2> QED
    BY SMTT(30), <1>0, <1>7, <1>8, <2>1 DEF PhasesOK
<1>10. ~IsTerminal(phase[a])
  BY SMTT(30), <1>4 DEF Unwitnessed, IsTerminal, TerminalCodes
<1> QED
  BY SMTT(30), <1>0, <1>1, <1>2, <1>3, <1>5, <1>6, <1>7, <1>8, <1>9, <1>10 DEF Inserted

\* A registration and its hand-off keep the state well formed.
LEMMA RegisterOK == ASSUME WellFormed, NEW a \in Anchorings, Register(a) PROVE WellFormed'
<1> USE DEF WellFormed
<1>1. PICK seed \in {NoSpend} \cup
            {[verdict |-> "satisfies", w |-> findTx(c, SeedTx[a]), onChain |-> TRUE, act |-> FALSE] :
                c \in {d \in orphaned \cup {chain} : SeedTx[a] # 0 /\ Confirmed(d, SeedTx[a])}} :
            insertRegistration(a, RegTriggers[a], Len(chain), seed)
  BY Zenon DEF Register
<1>2. \/ seed = NoSpend
      \/ seed \in Candidates /\ seed.verdict = "satisfies" /\ seed.w.tx \in Txs /\ ~seed.act
  BY ZenonT(30), <1>1, SeedType
<1>3. RegTriggers[a] \in SUBSET OutPoints /\ Len(chain) \in Nat
  BY SMTT(30), WatcherConstants DEF ChainOK, ChainType
<1>4. RowsOK' /\ SpendsOK' /\ EdgesOK' /\ PhasesOK' /\ Grows /\ a \in registered'
  BY Zenon, <1>1, <1>2, <1>3, InsertOK
<1>5. UNCHANGED <<chainVars, sensors, loop>> /\ (Fault \/ UNCHANGED faults)
  BY Zenon DEF Register
<1>6. EventsOK'
  <2>1. PICK e : e = evSense(a)
    BY Zenon
  <2>2. PICK sent : sent = {e} /\ inflight' \subseteq inflight \cup sent
    BY ZenonT(30), <2>1 DEF Register
  <2>3. \A x \in sent : EventOK(x)'
    BY ZenonT(30), <1>4, <2>1, <2>2, HandOffNext
  <2> QED
    BY ZenonT(30), <1>4, <2>2, <2>3, EventsAdded
<1>7. LoopOK' /\ SensorsOK' /\ ChainOK'
  BY ZenonT(30), <1>4, <1>5, LoopSame, SensorsSame, ChainSame DEF RowsOK
<1> QED
  BY ZenonT(30), <1>4, <1>5, <1>6, <1>7, FaultCounted

\* Attaching to an anchoring enlarges its triggers and derives edges to its
\* parents.
LEMMA AttachOK == ASSUME WellFormed, NEW a \in Anchorings, Attach(a) PROVE WellFormed'
<1> USE DEF WellFormed
<1> DEFINE new == AddedTriggers[a] \ triggers[a]
           row == ParentEdges(a, new)
<1>0. /\ a \in registered
      /\ triggers' = [triggers EXCEPT ![a] = triggers[a] \cup new]
      /\ edges' = [edges EXCEPT ![a] = row]
      /\ UNCHANGED <<registered, createdHeight, phase, delivered, spends>>
      /\ UNCHANGED <<chainVars, sensors, loop>> /\ (Fault \/ UNCHANGED faults)
      /\ inflight' \subseteq inflight \cup {evStopSensing(a), evSense(a)}
  BY ZenonT(30) DEF Attach, attachExisting
<1>1. new \in SUBSET OutPoints
  BY ZenonT(30), WatcherConstants
<1>2. row \in [Anchorings -> EdgeType] /\ \A p \in Anchorings : MovesTo(p, edges[a][p], row[p])
  BY ZenonT(30), <1>1, ParentEdgesMove
<1> HIDE DEF new, row
<1>3. EdgesMove(edges')
  BY ZenonT(30), <1>0, <1>2, ReplacedRow
<1>4. EdgesOK' /\ Grows
  BY ZenonT(30), <1>0, <1>3, EdgesGrow
<1>5. RowsOK' /\ SpendsOK' /\ PhasesOK' /\ ChainOK'
  BY ZenonT(30), <1>0, <1>1, PhasesSame, ChainSame DEF RowsOK, SpendsOK
<1>6. EventsOK'
  <2>1. PICK e, f : e = evSense(a) /\ f = evStopSensing(a)
    BY ZenonT(30)
  <2>2. PICK sent : sent = {e, f} /\ inflight' \subseteq inflight \cup sent
    BY ZenonT(30), <1>0, <2>1
  <2>3. \A x \in sent : EventOK(x)'
    BY ZenonT(30), <1>0, <2>1, <2>2, HandOffNext
  <2> QED
    BY ZenonT(30), <1>4, <2>2, <2>3, EventsAdded
<1>7. LoopOK' /\ SensorsOK'
  BY ZenonT(30), <1>0, <1>4, LoopSame, SensorsSame DEF RowsOK
<1> QED
  BY ZenonT(30), <1>0, <1>4, <1>5, <1>6, <1>7, FaultCounted

\* A committed delivery settles the dependents' edges and nudges them.
LEMMA DeliverOK == ASSUME WellFormed, NEW a \in Anchorings, Deliver(a) PROVE WellFormed'
<1> USE DEF WellFormed
<1>0. /\ a \in registered
      /\ delivered' = [delivered EXCEPT ![a] = phase[a]]
      /\ edges' = settleDependentEdges(a, phase[a])
      /\ UNCHANGED <<chainVars, registered, triggers, createdHeight, phase, spends, sensors, loop>>
      /\ Fault \/ UNCHANGED faults
      /\ inflight' \subseteq inflight \cup ({evStopSensing(a)} \cup {evSense(c) : c \in DependencyEdges(a)})
  BY ZenonT(30) DEF Deliver
<1>1. phase[a] \in PhaseType /\ Located(phase[a])
  BY ZenonT(30) DEF PhasesOK
<1>2. EdgesMove(edges')
  BY ZenonT(30), <1>0, <1>1, SettledEdgesMove
<1>3. EdgesOK' /\ Grows
  BY ZenonT(30), <1>0, <1>2, EdgesGrow
<1>4. PhasesOK'
  <2>1. /\ DOMAIN delivered' = Anchorings /\ delivered'[a] = phase[a]
        /\ \A b \in Anchorings \ {a} : delivered'[b] = delivered[b]
    BY Zenon, <1>0 DEF PhasesOK
  <2> QED
    BY SMTT(30), <1>0, <2>1 DEF PhasesOK
<1>5. RowsOK' /\ SpendsOK' /\ ChainOK'
  BY ZenonT(30), <1>0, ChainSame DEF RowsOK, SpendsOK
<1>6. EventsOK'
  <2> DEFINE sent == {evStopSensing(a)} \cup {evSense(c) : c \in DependencyEdges(a)}
  <2>1. ASSUME NEW c \in DependencyEdges(a) PROVE c \in Anchorings /\ c \in registered'
    BY ZenonT(30), <1>0 DEF DependencyEdges, LiveAnchorings, RowsOK
  <2>2. ASSUME NEW c \in DependencyEdges(a) PROVE EventOK(evSense(c))'
    BY ZenonT(30), <2>1, HandOffNext
  <2>3. EventOK(evStopSensing(a))'
    BY ZenonT(30), <1>0, HandOffNext
  <2>4. ASSUME NEW e \in sent PROVE EventOK(e)'
    <3>1. CASE e = evStopSensing(a)
      BY ZenonT(30), <2>3, <3>1
    <3>2. ASSUME NEW c \in DependencyEdges(a), e = evSense(c) PROVE EventOK(e)'
      BY ZenonT(30), <2>2, <3>2
    <3> QED
      BY ZenonT(30), <3>1, <3>2
  <2>5. inflight' \subseteq inflight \cup sent
    BY ZenonT(30), <1>0
  <2> HIDE DEF sent
  <2> QED
    BY ZenonT(30), <1>3, <2>4, <2>5, EventsAdded
<1>7. LoopOK' /\ SensorsOK'
  BY ZenonT(30), <1>0, <1>3, LoopSame, SensorsSame DEF RowsOK
<1> QED
  BY ZenonT(30), <1>0, <1>3, <1>4, <1>5, <1>6, <1>7, FaultCounted

\* A severed stream.
LEMMA StreamBrokenOK == ASSUME WellFormed, NEW a \in Anchorings, StreamBroken(a) PROVE WellFormed'
<1> USE DEF WellFormed
<1> DEFINE s == [sensors[a] EXCEPT !.streams = FALSE]
<1>0. /\ sensors[a].streams /\ Fault
      /\ sensors' = [sensors EXCEPT ![a] = s]
      /\ inflight' = inflight \cup {evResense(a)}
      /\ UNCHANGED <<chainVars, registryVars, loop>>
  BY ZenonT(30) DEF StreamBroken
<1>1. SensorOK(a)
  BY ZenonT(30) DEF SensorsOK
<1>2. a \in registered
  BY ZenonT(30), <1>0, <1>1 DEF SensorOK
<1>3. RowsOK' /\ SpendsOK' /\ EdgesOK' /\ PhasesOK' /\ Grows /\ ChainOK'
  BY ZenonT(30), <1>0, RegistrySame, ChainSame
<1>4. s \in SensorType /\ s.subs = sensors[a].subs
  BY ZenonT(30), <1>1 DEF SensorOK, SensorType
<1> HIDE DEF s
<1>5. \A x \in s.subs : SubOK(a, x)'
  BY ZenonT(30), <1>1, <1>3, <1>4 DEF SensorOK, SubOK, Grows
<1>6. a \in registered'
  BY ZenonT(30), <1>2, <1>3 DEF Grows
<1>7. SensorsOK'
  BY ZenonT(30), <1>0, <1>3, <1>4, <1>5, <1>6, SensorWritten
<1>8. EventsOK'
  <2>1. PICK e : e = evResense(a)
    BY ZenonT(30)
  <2>2. PICK sent : sent = {e} /\ inflight' \subseteq inflight \cup sent
    BY ZenonT(30), <1>0, <2>1
  <2>3. \A x \in sent : EventOK(x)'
    BY ZenonT(30), <1>6, <2>1, <2>2, HandOffNext
  <2> QED
    BY ZenonT(30), <1>3, <2>2, <2>3, EventsAdded
<1>9. LoopOK'
  BY ZenonT(30), <1>0, <1>3, LoopSame DEF RowsOK
<1> QED
  BY ZenonT(30), <1>0, <1>3, <1>7, <1>8, <1>9, FaultCounted

\* A restart leaves nothing but the registry.
LEMMA RestartOK == WellFormed /\ Restart => WellFormed'
<1> SUFFICES ASSUME WellFormed, Restart PROVE WellFormed'
  BY ZenonT(30)
<1> USE DEF WellFormed
<1>0. /\ Fault /\ sensors' = [a \in Anchorings |-> NoSensor] /\ inflight' = {} /\ loop' = << >>
      /\ UNCHANGED <<chainVars, registryVars>>
  BY ZenonT(30) DEF Restart
<1>1. RowsOK' /\ SpendsOK' /\ EdgesOK' /\ PhasesOK' /\ ChainOK'
  BY ZenonT(30), <1>0, RegistrySame, ChainSame
<1>2. SensorsOK'
  BY ZenonT(30), <1>0, NoSensorOK DEF SensorsOK, SensorOK
<1>3. EventsOK' /\ LoopOK'
  BY ZenonT(30), <1>0, ShortStacks DEF EventsOK, LoopOK
<1> QED
  BY ZenonT(30), <1>0, <1>1, <1>2, <1>3, FaultCounted

-----------------------------------------------------------------------------
(* The theorem. *)

\* Before anything is registered, and when the daemon comes up over rows of an
\* earlier run, the state is well formed.
LEMMA InitWellFormed == Init \/ InitRegistered => WellFormed
<1> SUFFICES ASSUME Init \/ InitRegistered PROVE WellFormed
  BY ZenonT(30)
<1>1. /\ chain = << >> /\ orphaned = {} /\ reorgs = 0
      /\ registered \subseteq Anchorings /\ triggers \in [Anchorings -> SUBSET OutPoints]
      /\ createdHeight = [a \in Anchorings |-> 0]
      /\ phase = [a \in Anchorings |-> Unwitnessed] /\ delivered = [a \in Anchorings |-> Unwitnessed]
      /\ spends = [a \in Anchorings |-> [t \in Txs |-> NoSpend]]
      /\ edges = [c \in Anchorings |-> [p \in Anchorings |-> NoEdge]]
      /\ sensors = [a \in Anchorings |-> NoSensor] /\ inflight = {} /\ loop = << >> /\ faults = 0
  <2>1. CASE Init
    BY ZenonT(30), <2>1 DEF Init, RegistryInit
  <2>2. CASE InitRegistered
    BY ZenonT(30), <2>2, WatcherConstants DEF InitRegistered
  <2> QED
    BY ZenonT(30), <2>1, <2>2
<1>2. ChainOK
  BY <1>1 DEF ChainOK, ChainType
<1>3. RowsOK /\ faults \in 0..MaxFaults
  BY SMTT(30), <1>1, WatcherConstants DEF RowsOK
<1>4. SpendsOK
  BY Zenon, <1>1, NoSpendType DEF SpendsOK, SpendsKeyed
<1>5. EdgesOK
  <2>1. NoEdge \in EdgeType /\ NoEdge.fc = NoForeclosure
    BY ZenonT(30), NoForeclosureType DEF NoEdge, EdgeType
  <2>2. \A p \in Anchorings : EdgeKeyed(p, NoEdge)
    BY ZenonT(30), <2>1 DEF EdgeKeyed
  <2> QED
    BY ZenonT(30), <1>1, <2>1, <2>2 DEF EdgesOK
<1>6. PhasesOK
  <2>1. Unwitnessed \in PhaseType /\ Located(Unwitnessed) /\ ~IsTerminal(Unwitnessed)
    BY ZenonT(30) DEF Unwitnessed, PhaseType, PhaseCodes, NoWitness, Witnesses, Located, IsTerminal, TerminalCodes
  <2> QED
    BY ZenonT(30), <1>1, <2>1, NoSpendType DEF PhasesOK
<1>7. SensorsOK /\ EventsOK /\ LoopOK
  BY ZenonT(30), <1>1, NoSensorOK, ShortStacks DEF SensorsOK, SensorOK, EventsOK, LoopOK
<1> QED
  BY ZenonT(30), <1>2, <1>3, <1>4, <1>5, <1>6, <1>7 DEF WellFormed

\* Well-formedness is inductive: every step of the watcher and of the world
\* around it keeps it.
LEMMA WellFormedStep == WellFormed /\ [Next]_vars => WellFormed'
<1> SUFFICES ASSUME WellFormed, [Next]_vars PROVE WellFormed'
  BY ZenonT(30)
<1>1. CASE LoopTask
  BY ZenonT(30), <1>1, AdoptOneOK, AdoptSweptOK, VerifyAndInstallOK, VerifyFailsOK, RederiveOK, RestageAdoptedOK,
     RestageChildOK, LoadDependentsFailsOK, TaskFailsOK DEF LoopTask
<1>2. CASE Sweep
  BY ZenonT(30), <1>2, SweepOK
<1>3. ASSUME NEW e \in inflight, Handle(e) \/ HandlerFails(e) PROVE WellFormed'
  BY ZenonT(30), <1>3, HandOffsOK, HandleSpendDetailOK, ConfirmationsOK, HandleForeclosureActConfOK,
     MarkCandidateOffChainOK DEF Handle
<1>4. CASE BlockConnected \/ ChainReorged
  BY ZenonT(30), <1>4, ChainMovesOK
<1>5. ASSUME NEW a \in Anchorings, Register(a) \/ Attach(a) \/ StreamBroken(a) \/ Deliver(a)
      PROVE  WellFormed'
  BY ZenonT(30), <1>5, RegisterOK, AttachOK, StreamBrokenOK, DeliverOK
<1>6. CASE Restart
  BY ZenonT(30), <1>6, RestartOK
<1>7. CASE UNCHANGED vars
  <2>1. UNCHANGED <<chainVars, registryVars, faults>> /\ sensors' = sensors /\ inflight' = inflight /\ loop' = loop
    BY ZenonT(30), <1>7 DEF vars, watcherVars
  <2>2. RowsOK' /\ SpendsOK' /\ EdgesOK' /\ PhasesOK' /\ Grows /\ ChainOK'
    BY ZenonT(30), <2>1, RegistrySame, ChainSame DEF WellFormed
  <2> QED
    BY ZenonT(30), <2>1, <2>2, SensorsSame, EventsKept, LoopSame DEF WellFormed, RowsOK
<1> QED
  BY ZenonT(30), <1>1, <1>2, <1>3, <1>4, <1>5, <1>6, <1>7 DEF Next, Sense

\* Type correctness, for any number of anchorings, transactions, blocks,
\* re-orgs and faults: whatever order the sensing loop, the sites, the
\* delivery loop and the chain take their steps in, every variable keeps its
\* type, also when the daemon comes up over rows of an earlier run.
THEOREM TypeCorrect == Spec \/ RegisteredSpec \/ SensingSpec => []TypeOK
<1>1. Spec => []TypeOK
  BY InitWellFormed, WellFormedStep, WellFormedTypes, PTL DEF Spec
<1>2. RegisteredSpec => []TypeOK
  BY InitWellFormed, WellFormedStep, WellFormedTypes, PTL DEF RegisteredSpec
<1>3. [Sense]_vars => [Next]_vars
  BY Zenon DEF Next
<1>4. SensingSpec => []TypeOK
  BY <1>3, InitWellFormed, WellFormedStep, WellFormedTypes, PTL DEF SensingSpec
<1> QED
  BY ZenonT(30), <1>1, <1>2, <1>4
=============================================================================
