---------------------------- MODULE Safety_proofs ----------------------------
(***************************************************************************)
(* No anchoring of ReorgWatcher is buried or abandoned, let alone both,    *)
(* without evidence.                                                       *)
(***************************************************************************)
EXTENDS Finality_proofs

-----------------------------------------------------------------------------
(* The induction step. *)

\* A terminal derivation is derived from a certification.
LEMMA DerivedEvidence ==
    ASSUME WellFormed, CertsEvidence, NEW a \in Anchorings, IsTerminal(DerivedPhase(a))
    PROVE  HeldDepth(DerivedPhase(a).w, Threshold[a])
<1>1. spends[a] \in [Txs -> Candidates] /\ SpendsKeyed(spends[a]) /\ EdgesOK
  BY ZenonT(30) DEF WellFormed, SpendsOK
<1> DEFINE fc == StagedForeclosure(a)
           d == DerivedPhase(a)
<1>2. \/ \E t \in Txs : spends[a][t].act /\ d.w = spends[a][t].w
      \/ fc.act /\ d.w = fc.w
  BY ZenonT(30), <1>1, DerivedTerminal DEF DerivedPhase
<1> HIDE DEF d
<1>3. ASSUME fc.act PROVE \E p \in Anchorings : edges[a][p].fc.act /\ fc.w = edges[a][p].fc.w
  <2>1. fc # NoForeclosure
    BY ZenonT(30), <1>3, NoForeclosureType
  <2>2. PICK p \in Anchorings : fc = edges[a][p].fc
    BY ZenonT(30), <1>1, <2>1, StagedOK
  <2> HIDE DEF fc
  <2> QED
    BY ZenonT(30), <1>3, <2>2
<1> HIDE DEF fc
<1>4. HeldDepth(d.w, Threshold[a])
  BY ZenonT(30), <1>2, <1>3 DEF CertsEvidence
<1> QED
  BY ZenonT(30), <1>4 DEF d

\* A certified anchoring derives a terminal phase.
LEMMA CertifiedDerives ==
    ASSUME WellFormed, CertsEvidence, NEW a \in Anchorings, HasCert(a)
    PROVE  IsTerminal(DerivedPhase(a))
<1>1. spends[a] \in [Txs -> Candidates] /\ SpendsKeyed(spends[a]) /\ EdgesOK
  BY ZenonT(30) DEF WellFormed, SpendsOK
<1> DEFINE fc == StagedForeclosure(a)
           sp == spends[a]
<1>2. (\E t \in Txs : sp[t].act) \/ fc.act
  BY ZenonT(30), <1>1, StagedOK DEF HasCert
<1>3. \A t \in Txs, u \in Txs : sp[t].act /\ sp[u].act => t = u
  BY ZenonT(30) DEF CertsEvidence
<1>4. DerivedPhase(a) = DerivePhase(sp, fc)
  BY ZenonT(30) DEF DerivedPhase
<1> HIDE DEF fc, sp
<1> QED
  BY ZenonT(30), <1>1, <1>2, <1>3, <1>4, CertifiedIsTerminal DEF sp

\* The re-derivation: the last one of a certified anchoring ends its sensor.
LEMMA RederiveEvidence ==
    ASSUME WellFormed, Evidence, Rederive
    PROVE  Evidence'
<1> USE DEF Evidence
<1>1. PICK a \in registered : a = Head(loop).id /\ a \in Anchorings /\ registered \subseteq Anchorings
  BY ZenonT(30), TopTask DEF WellFormed, Rederive, Doing, TaskOK, RowsOK
<1>2. /\ ~Idle /\ Head(loop).op = "rederive" /\ LoopOK /\ UNCHANGED chainVars
      /\ UNCHANGED <<spends, edges>>
  BY ZenonT(30) DEF Rederive, Doing, WellFormed
<1>3. HeldKept
  BY ZenonT(30), <1>2, HeldSame
<1>4. CertsKept
  BY ZenonT(30), CertsKeptBy
<1>5. CertsEvidence' /\ \A b \in Anchorings : HasCert(b)' => HasCert(b)
  BY ZenonT(30), <1>3, <1>4, CertsFrame
<1> DEFINE fc == StagedForeclosure(a)
           derived == DerivedPhase(a)
           subs == ForeclosureSubs(fc, sensors[a].subs)
           refreshed == [sensors EXCEPT ![a].subs = @ \cup subs, ![a].cached = triggers[a]]
<1>6. CASE ~Sensing(a)
  <2>1. loop' = Tail(loop) /\ UNCHANGED <<phase, sensors, inflight>>
    BY ZenonT(30), <1>1, <1>6 DEF Rederive
  <2>2. \A b \in Anchorings : Sensing(b)' => Sensing(b)
    BY ZenonT(30), <2>1 DEF Sensing
  <2>3. Calm
    BY ZenonT(30), <1>1, <1>2, <1>6, <2>1, <2>2, CalmTask
  <2> QED
    BY ZenonT(30), <1>3, <1>5, <2>1, <2>3, CalmFrame, EventsTaken, ActFrame
<1>7. CASE Sensing(a) /\ IsTerminal(phase[a])
  <2>1. loop' = Tail(loop) /\ sensors' = StopSensor(a) /\ UNCHANGED <<phase, inflight>>
    BY ZenonT(30), <1>1, <1>7 DEF Rederive
  <2>2. ~Sensing(a)' /\ \A b \in Anchorings : Sensing(b)' => Sensing(b)
    BY ZenonT(30), <1>1, <2>1, StoppedSensors
  <2>3. Calm
    BY ZenonT(30), <1>1, <1>2, <2>1, <2>2, CalmTask
  <2> QED
    BY ZenonT(30), <1>3, <1>5, <2>1, <2>3, CalmFrame, EventsTaken, ActFrame
<1>8. CASE Sensing(a) /\ ~IsTerminal(phase[a])
  <2>1. /\ phase' = [phase EXCEPT ![a] = derived]
        /\ sensors' = IF IsTerminal(derived) THEN StopSensor(a) ELSE refreshed
        /\ inflight' = inflight \cup HistoricalConfs(a, subs)
        /\ loop' = Then(IF derived = phase[a] THEN << >> ELSE Restage(a, derived))
    BY ZenonT(30), <1>1, <1>8 DEF Rederive
  <2>2. derived \in PhaseType /\ Located(derived)
    BY ZenonT(30), <1>1, DerivedOK
  <2>3. fc \in Foreclosures /\ (fc # NoForeclosure => fc.w.tx \in Txs) /\ DOMAIN sensors = Anchorings
    BY ZenonT(30), <1>1, StagedOK DEF WellFormed, SensorsOK
  <2>4. HasCert(a) => IsTerminal(derived)
    BY ZenonT(30), <1>1, CertifiedDerives
  <2>5. IsTerminal(derived) => HeldDepth(derived.w, Threshold[a])
    BY ZenonT(30), <1>1, DerivedEvidence
  <2> HIDE DEF derived, fc
  <2>6. subs \in SUBSET SubType
    BY ZenonT(30), <2>3, ForeclosureSubsOK
  <2> HIDE DEF subs
  <2>7. /\ \A b \in Anchorings : Sensing(b)' => Sensing(b)
        /\ IsTerminal(derived) => ~Sensing(a)'
    <3>1. CASE IsTerminal(derived)
      BY ZenonT(30), <1>1, <2>1, <3>1, StoppedSensors
    <3>2. CASE ~IsTerminal(derived)
      BY SMTT(30), <1>1, <2>1, <2>3, <3>2 DEF Sensing
    <3> QED
      BY ZenonT(30), <3>1, <3>2
  <2>8. TasksOf(Tail(loop)) \subseteq TasksOf(loop')
    <3> DEFINE tasks == IF derived = phase[a] THEN << >> ELSE Restage(a, derived)
    <3>1. tasks \in Seq(TaskType)
      BY ZenonT(30), <1>1, <2>2, RestageTask, ShortStacks DEF WellFormed
    <3>2. loop' = Then(tasks)
      BY ZenonT(30), <2>1
    <3> HIDE DEF tasks
    <3> QED
      BY ZenonT(30), <1>2, <3>1, <3>2, ThenTail
  <2>9. LastDerivation'
    <3>1. ASSUME NEW b \in Anchorings, HasCert(b)', Sensing(b)' PROVE RederivePending(b)'
      <4>1. HasCert(b) /\ Sensing(b) /\ b # a
        BY ZenonT(30), <1>5, <2>4, <2>7, <3>1
      <4>2. PICK t \in TasksOf(loop) : t.op = "rederive" /\ t.id = b
        BY ZenonT(30), <4>1 DEF LastDerivation, RederivePending
      <4>3. t \in TasksOf(Tail(loop))
        BY ZenonT(30), <1>1, <1>2, <4>1, <4>2, StackTop DEF LoopOK
      <4> QED
        BY ZenonT(30), <2>8, <4>2, <4>3 DEF RederivePending
    <3> QED
      BY ZenonT(30), <3>1 DEF LastDerivation
  <2>10. EventsEvidence'
    <3>1. PICK new : new = HistoricalConfs(a, subs)
      BY ZenonT(30)
    <3>2. \A e \in new : EventEvidence(e)'
      BY ZenonT(30), <1>1, <1>2, <2>6, <3>1, NewReports
    <3> QED
      BY ZenonT(30), <1>3, <2>1, <3>1, <3>2, EventsFrame
  <2>11. ActEvidence'
    <3>1. phase'[a] = derived /\ \A b \in Anchorings \ {a} : phase'[b] = phase[b]
      BY ZenonT(30), <1>1, <2>1 DEF WellFormed, PhasesOK
    <3>2. PICK w \in Witnesses, n \in Nat : w = derived.w /\ n = Threshold[a]
      BY ZenonT(30), <1>1, <2>2, WatcherConstants DEF PhaseType
    <3>3. IsTerminal(derived) => HeldDepth(w, n)'
      BY ZenonT(30), <1>3, <2>5, <3>2 DEF HeldKept
    <3>4. ASSUME NEW b \in Anchorings \ {a}, IsTerminal(phase[b]) PROVE HeldDepth(phase[b].w, Threshold[b])'
      <4>1. PICK x \in Witnesses, m \in Nat : x = phase[b].w /\ m = Threshold[b]
        BY ZenonT(30), WatcherConstants DEF WellFormed, PhasesOK, PhaseType
      <4>2. HeldDepth(x, m)'
        BY ZenonT(30), <1>3, <3>4, <4>1 DEF HeldKept, ActEvidence
      <4> QED
        BY ZenonT(30), <3>1, <4>1, <4>2
    <3> QED
      BY ZenonT(30), <3>1, <3>2, <3>3, <3>4 DEF ActEvidence
  <2> QED
    BY ZenonT(30), <1>5, <2>9, <2>10, <2>11
<1> QED
  BY ZenonT(30), <1>6, <1>7, <1>8

\* A step that certifies nothing and starts no sensor without a derivation
\* keeps the evidence.
LEMMA EvidenceKept ==
    ASSUME WellFormed, Evidence, HeldKept, CertsKept, Calm, EventsEvidence',
           \A a \in Anchorings : IsTerminal(phase'[a]) => phase'[a] = phase[a]
    PROVE  Evidence'
<1> USE DEF Evidence
<1>1. CertsEvidence' /\ \A a \in Anchorings : HasCert(a)' => HasCert(a)
  BY ZenonT(30), CertsFrame
<1>2. LastDerivation'
  BY ZenonT(30), <1>1, CalmFrame
<1>3. ActEvidence'
  BY ZenonT(30), ActFrame
<1> QED
  BY ZenonT(30), <1>1, <1>2, <1>3

\* The tasks of the loop other than the re-derivation.
LEMMA LoopEvidence ==
    ASSUME WellFormed, Evidence, LoopTask, ~Rederive
    PROVE  Evidence'
<1>1. Steady /\ CertsKept
  BY ZenonT(30), SteadyLoop, CertsKeptBy
<1>2. \A a \in Anchorings : IsTerminal(phase'[a]) => phase'[a] = phase[a]
  BY ZenonT(30), <1>1 DEF Steady
<1>3. UNCHANGED chainVars
  BY ZenonT(30) DEF LoopTask, AdoptOne, AdoptSwept, VerifyAndInstall, VerifyFails, RestageAdopted, RestageChild,
         LoadDependentsFails, TaskFails
<1>4. HeldKept
  BY ZenonT(30), <1>3, HeldSame
<1>5. Calm /\ EventsEvidence'
  <2>1. CASE AdoptOne \/ AdoptSwept
    BY ZenonT(30), <2>1, AdoptionCalm DEF Evidence
  <2>2. CASE ~(AdoptOne \/ AdoptSwept)
    <3>1. VerifyAndInstall \/ VerifyFails \/ RestageAdopted \/ RestageChild \/ LoadDependentsFails \/ TaskFails
      BY ZenonT(30), <2>2 DEF LoopTask
    <3>2. inflight' = inflight
      BY ZenonT(30), <3>1 DEF VerifyAndInstall, VerifyFails, RestageAdopted, RestageChild, LoadDependentsFails, TaskFails
    <3>3. Calm
      BY ZenonT(30), <3>1, InstallCalm, RestageCalm, FailureCalm
    <3> QED
      BY ZenonT(30), <1>4, <3>2, <3>3, EventsTaken DEF Evidence
  <2> QED
    BY ZenonT(30), <2>1, <2>2
<1> QED
  BY ZenonT(30), <1>1, <1>2, <1>4, <1>5, EvidenceKept

\* The sweep only starts a task, and a restart stops every sensor.
LEMMA SweepEvidence ==
    ASSUME WellFormed, Evidence, Sweep \/ Restart
    PROVE  Evidence'
<1>0. ~Rederive
  <2>1. CASE Sweep
    BY ZenonT(30), <2>1 DEF Sweep, Rederive, Doing
  <2>2. CASE Restart
    <3>1. faults' = faults + 1 /\ faults \in Nat
      BY SMTT(30), <2>2, WatcherConstants DEF Restart, Fault, WellFormed
    <3>2. Rederive => faults' = faults
      BY Zenon DEF Rederive
    <3> QED
      BY <3>1, <3>2
  <2> QED
    BY ZenonT(30), <2>1, <2>2
<1>1. Steady /\ CertsKept
  BY ZenonT(30), <1>0, SteadyLoop, CertsKeptBy
<1>2. \A a \in Anchorings : IsTerminal(phase'[a]) => phase'[a] = phase[a]
  BY ZenonT(30), <1>1 DEF Steady
<1>3. HeldKept
  BY ZenonT(30), HeldSame DEF Sweep, Restart
<1>4. EventsEvidence'
  <2>1. inflight' \subseteq inflight
    BY ZenonT(30) DEF Sweep, Restart
  <2> QED
    BY ZenonT(30), <1>3, <2>1, EventsTaken DEF Evidence
<1>5. Calm
  <2>1. CASE Sweep
    <3>1. Idle /\ sensors' = sensors
      BY ZenonT(30), <2>1 DEF Sweep
    <3> QED
      BY ZenonT(30), <3>1, CalmIdle DEF Sensing
  <2>2. CASE Restart
    <3>1. sensors' = [a \in Anchorings |-> NoSensor]
      BY ZenonT(30), <2>2 DEF Restart
    <3> QED
      BY ZenonT(30), <3>1, NoSensorOK DEF Calm, Sensing
  <2> QED
    BY ZenonT(30), <2>1, <2>2
<1> QED
  BY ZenonT(30), <1>1, <1>2, <1>3, <1>4, <1>5, EvidenceKept

\* The chain moves: what it held remains evidence, and what it reports holds
\* the depth reported.
LEMMA ChainEvidence ==
    ASSUME WellFormed, Evidence, BlockConnected \/ ChainReorged
    PROVE  Evidence'
<1>0. MineBlock \/ Reorg
  BY ZenonT(30) DEF BlockConnected, ChainReorged
<1>1. Dispatched /\ UNCHANGED <<registryVars, loop>>
  BY ZenonT(30) DEF BlockConnected, ChainReorged, Dispatched
<1>2. HeldKept /\ chain' \in ChainType
  BY ZenonT(30), <1>0, ChainStep DEF HeldKept, WellFormed, ChainOK
<1>3. Steady
  BY ZenonT(30), <1>1, EdgesStay DEF Steady, SpendsSteady, registryVars, WellFormed
<1>4. CertsKept
  BY ZenonT(30), <1>3, CertsKeptBy
<1>5. \A a \in Anchorings : IsTerminal(phase'[a]) => phase'[a] = phase[a]
  BY ZenonT(30), <1>3 DEF Steady
<1>6. Calm
  <2>1. \A a \in Anchorings : sensors'[a].st = sensors[a].st
    BY ZenonT(30), <1>1 DEF Dispatched, WellFormed, SensorsOK, SensorOK, SensorType
  <2>2. loop' = loop /\ \A a \in Anchorings : Sensing(a)' => Sensing(a)
    BY ZenonT(30), <1>1, <2>1 DEF Sensing
  <2> QED
    BY ZenonT(30), <2>2, CalmOutside
<1>7. EventsEvidence'
  <2>1. PICK new : new = UNION {dispatch(a, chain, chain') : a \in Anchorings}
    BY ZenonT(30)
  <2>2. ASSUME NEW e \in new PROVE EventEvidence(e)'
    <3>1. PICK a \in Anchorings : e \in dispatch(a, chain, chain')
      BY ZenonT(30), <2>1, <2>2
    <3>2. PICK d \in ChainType : d = chain'
      BY ZenonT(30), <1>2
    <3>3. sensors[a].subs \in SUBSET SubType
      BY ZenonT(30) DEF WellFormed, SensorsOK, SensorOK, SensorType
    <3>4. ReportOf(e, a, sensors[a].subs, d)
      BY ZenonT(30), <3>1, <3>2, <3>3, Dispatching
    <3>5. /\ e.type = "loc" => HoldsDepth(d, e.w, 1)
          /\ e.type \in {"act", "fc"} => HoldsDepth(d, e.w, Threshold[e.id])
      BY ZenonT(30), <3>4 DEF ReportOf, NumConfs
    <3>6. \A w, n : HoldsDepth(d, w, n) => HeldDepth(w, n)'
      BY ZenonT(30), <3>2 DEF HeldDepth
    <3> QED
      BY ZenonT(30), <3>5, <3>6 DEF EventEvidence
  <2>3. inflight' \subseteq inflight \cup new
    BY ZenonT(30), <1>1, <2>1 DEF Dispatched
  <2> QED
    BY ZenonT(30), <1>2, <2>2, <2>3, EventsFrame DEF Evidence
<1> QED
  BY ZenonT(30), <1>2, <1>4, <1>5, <1>6, <1>7, EvidenceKept

\* Taking an event that certifies nothing.
LEMMA HandlerEvidence ==
    ASSUME WellFormed, Evidence, NEW e \in inflight,
           \/ handleSense(e) \/ handleStopSensing(e) \/ handleResense(e) \/ IgnoreEvent(e)
           \/ HandlerFails(e) \/ handleSpendDetail(e) \/ markCandidateOffChain(e)
    PROVE  Evidence'
<1>1. Steady /\ CertsKept
  BY ZenonT(30), SteadyHandlers, CertsKeptBy
<1>2. \A a \in Anchorings : IsTerminal(phase'[a]) => phase'[a] = phase[a]
  BY ZenonT(30), <1>1 DEF Steady
<1>3. UNCHANGED chainVars
  BY ZenonT(30) DEF handleSense, handleStopSensing, handleResense, IgnoreEvent, HandlerFails, handleSpendDetail,
         markCandidateOffChain
<1>4. HeldKept
  BY ZenonT(30), <1>3, HeldSame
<1>5. PICK a \in Anchorings : a = e.id
  BY ZenonT(30), TakenEvent
<1>6. \A b \in Anchorings : Sensing(b)' => Sensing(b)
  <2>1. CASE sensors' = sensors
    BY ZenonT(30), <2>1 DEF Sensing
  <2>2. CASE sensors' = StopSensor(a)
    BY ZenonT(30), <2>2, StoppedSensors
  <2>3. CASE handleSpendDetail(e)
    <3>1. PICK subs, verdict : sensors' = [sensors EXCEPT ![a] =
                            [sensors[a] EXCEPT !.subs = @ \cup subs, !.pending[e.w.tx] = verdict]]
      BY ZenonT(30), <1>5, <2>3 DEF handleSpendDetail
    <3>2. sensors[a] \in SensorType /\ DOMAIN sensors = Anchorings
      BY ZenonT(30) DEF WellFormed, SensorsOK, SensorOK
    <3> QED
      BY ZenonT(30), <3>1, <3>2 DEF Sensing, SensorType
  <2> QED
    BY ZenonT(30), <1>5, <2>1, <2>2, <2>3 DEF handleSense, handleStopSensing, handleResense, IgnoreEvent, HandlerFails,
         markCandidateOffChain
<1>7. Calm
  <2>1. CASE IgnoreEvent(e)
    BY ZenonT(30), <1>6, <2>1, CalmOutside DEF IgnoreEvent
  <2>2. CASE ~IgnoreEvent(e)
    <3>1. Idle
      BY ZenonT(30), <2>2 DEF handleSense, handleStopSensing, handleResense, HandlerFails, handleSpendDetail,
            markCandidateOffChain, Take
    <3> QED
      BY ZenonT(30), <1>6, <3>1, CalmIdle
  <2> QED
    BY ZenonT(30), <2>1, <2>2
<1>8. EventsEvidence'
  <2>1. CASE handleSpendDetail(e)
    <3>1. PICK subs : /\ subs = CandidateSubs(a, e.w.tx, sensors[a].subs)
                      /\ inflight' = (inflight \ {e}) \cup HistoricalConfs(a, subs)
      BY ZenonT(30), <1>5, <2>1 DEF handleSpendDetail
    <3>2. e.w.tx \in Txs
      BY ZenonT(30), <2>1, TakenEvent DEF handleSpendDetail, Take, ChainEvents
    <3>3. subs \in SUBSET SubType
      BY ZenonT(30), <3>1, <3>2, CandidateSubsOK
    <3>4. PICK new : new = HistoricalConfs(a, subs)
      BY ZenonT(30)
    <3>5. \A x \in new : EventEvidence(x)'
      BY ZenonT(30), <1>3, <3>3, <3>4, NewReports
    <3>6. inflight' \subseteq inflight \cup new
      BY ZenonT(30), <3>1, <3>4
    <3> QED
      BY ZenonT(30), <1>4, <3>5, <3>6, EventsFrame DEF Evidence
  <2>2. CASE ~handleSpendDetail(e)
    <3>1. inflight' \subseteq inflight
      BY ZenonT(30), <2>2 DEF handleSense, handleStopSensing, handleResense, IgnoreEvent, HandlerFails,
            markCandidateOffChain
    <3> QED
      BY ZenonT(30), <1>4, <3>1, EventsTaken DEF Evidence
  <2> QED
    BY ZenonT(30), <2>1, <2>2
<1> QED
  BY ZenonT(30), <1>1, <1>2, <1>4, <1>7, <1>8, EvidenceKept

\* Hand-offs are no evidence.
LEMMA HandOffEvidence ==
    ASSUME NEW a
    PROVE  EventEvidence(evSense(a))' /\ EventEvidence(evStopSensing(a))' /\ EventEvidence(evResense(a))'
<1>1. /\ evSense(a).type = "sense" /\ evStopSensing(a).type = "stop" /\ evResense(a).type = "resense"
  BY ZenonT(30) DEF evSense, evStopSensing, evResense, Event
<1> QED
  BY ZenonT(30), <1>1 DEF EventEvidence

\* Registrations, deliveries and broken streams only hand events over.
LEMMA WorldEvidence ==
    ASSUME WellFormed, Evidence, NEW a \in Anchorings,
           Register(a) \/ Attach(a) \/ Deliver(a) \/ StreamBroken(a)
    PROVE  Evidence'
<1>1. CertsKept
  <2>1. CASE Register(a) \/ Attach(a) \/ Deliver(a)
    BY ZenonT(30), <2>1, CertsKeptBy
  <2>2. CASE StreamBroken(a)
    BY ZenonT(30), <2>2 DEF StreamBroken, registryVars, CertsKept
  <2> QED
    BY ZenonT(30), <2>1, <2>2
<1>2. \A b \in Anchorings : IsTerminal(phase'[b]) => phase'[b] = phase[b]
  <2>1. CASE Register(a)
    BY ZenonT(30), <2>1, RegisterEffect
  <2>2. CASE Attach(a)
    BY ZenonT(30), <2>2, AttachEffect
  <2>3. CASE Deliver(a)
    BY ZenonT(30), <2>3, DeliverEffect
  <2>4. CASE StreamBroken(a)
    BY ZenonT(30), <2>4 DEF StreamBroken, registryVars
  <2> QED
    BY ZenonT(30), <2>1, <2>2, <2>3, <2>4
<1>3. HeldKept
  BY ZenonT(30), HeldSame DEF Register, Attach, Deliver, StreamBroken
<1>4. Calm
  <2>1. \A b \in Anchorings : sensors'[b].st = sensors[b].st
    <3>1. CASE sensors' = sensors
      BY ZenonT(30), <3>1
    <3>2. CASE StreamBroken(a)
      BY ZenonT(30), <3>2 DEF StreamBroken, WellFormed, SensorsOK, SensorOK, SensorType
    <3> QED
      BY ZenonT(30), <3>1, <3>2 DEF Register, Attach, Deliver
  <2>2. loop' = loop /\ \A b \in Anchorings : Sensing(b)' => Sensing(b)
    BY ZenonT(30), <2>1 DEF Register, Attach, Deliver, StreamBroken, Sensing
  <2> QED
    BY ZenonT(30), <2>2, CalmOutside
<1>5. EventsEvidence'
  <2>1. PICK new : new = {evSense(b) : b \in Anchorings} \cup {evStopSensing(a), evResense(a)}
    BY ZenonT(30)
  <2>2. \A e \in new : EventEvidence(e)'
    BY ZenonT(30), <2>1, HandOffEvidence
  <2>3. DependencyEdges(a) \subseteq Anchorings
    BY ZenonT(30) DEF DependencyEdges, LiveAnchorings, WellFormed, RowsOK
  <2>4. inflight' \subseteq inflight \cup new
    BY SMTT(30), <2>1, <2>3 DEF Register, Attach, Deliver, StreamBroken
  <2> QED
    BY ZenonT(30), <1>3, <2>2, <2>4, EventsFrame DEF Evidence
<1> QED
  BY ZenonT(30), <1>1, <1>2, <1>3, <1>4, <1>5, EvidenceKept

\* A certification that a step leaves alone keeps its evidence.
LEMMA SpendHeld ==
    ASSUME WellFormed, Evidence, HeldKept, NEW b \in Anchorings, NEW u \in Txs,
           spends'[b][u] = spends[b][u], spends[b][u].act
    PROVE  HeldDepth(spends[b][u].w, Threshold[b])'
<1>1. PICK x \in Witnesses, m \in Nat : x = spends[b][u].w /\ m = Threshold[b]
  BY SMTT(30), WatcherConstants DEF WellFormed, SpendsOK, Candidates
<1>2. HeldDepth(x, m)'
  BY Zenon, <1>1 DEF HeldKept, Evidence, CertsEvidence
<1> QED
  BY ZenonT(30), <1>1, <1>2

LEMMA EdgeHeld ==
    ASSUME WellFormed, Evidence, HeldKept, NEW b \in Anchorings, NEW p \in Anchorings,
           edges'[b][p] = edges[b][p], edges[b][p].fc.act
    PROVE  HeldDepth(edges[b][p].fc.w, Threshold[b])'
<1>1. edges[b][p] \in EdgeType /\ Threshold[b] \in Nat
  BY WatcherConstants DEF WellFormed, EdgesOK
<1>2. PICK x \in Witnesses, m \in Nat : x = edges[b][p].fc.w /\ m = Threshold[b]
  BY Zenon, <1>1 DEF EdgeType, Foreclosures
<1>3. HeldDepth(x, m)'
  BY ZenonT(30), <1>2 DEF HeldKept, Evidence, CertsEvidence
<1> QED
  BY ZenonT(30), <1>2, <1>3

\* One candidate of an anchoring without certification is certified.
LEMMA CandidateCerts ==
    ASSUME WellFormed, Evidence, HeldKept, NEW a \in Anchorings, ~HasCert(a),
           NEW t \in Txs, NEW w \in Witnesses, spends'[a][t].w = w,
           spends'[a][t].act => HeldDepth(w, Threshold[a])',
           \A b \in Anchorings, u \in Txs : ~(b = a /\ u = t) => spends'[b][u] = spends[b][u],
           \A b \in Anchorings, p \in Anchorings :
               edges'[b][p].fc.act => edges'[b][p] = edges[b][p] /\ edges[b][p].fc.act
    PROVE  CertsEvidence'
<1>1. ASSUME NEW b \in Anchorings, NEW u \in Txs, spends'[b][u].act
      PROVE  HeldDepth(spends[b][u].w, Threshold[b])'
  <2>1. CASE b = a /\ u = t
    BY ZenonT(30), <1>1, <2>1
  <2>2. CASE ~(b = a /\ u = t)
    <3>1. spends'[b][u] = spends[b][u] /\ spends[b][u].act
      BY ZenonT(30), <1>1, <2>2
    <3> QED
      BY ZenonT(30), <3>1, SpendHeld
  <2> QED
    BY ZenonT(30), <2>1, <2>2
<1>2. ASSUME NEW b \in Anchorings, NEW p \in Anchorings, edges'[b][p].fc.act
      PROVE  HeldDepth(edges[b][p].fc.w, Threshold[b])'
  <2>1. edges'[b][p] = edges[b][p] /\ edges[b][p].fc.act
    BY ZenonT(30), <1>2
  <2> QED
    BY ZenonT(30), <2>1, EdgeHeld
<1>3. ASSUME NEW b \in Anchorings, NEW u \in Txs, NEW v \in Txs, spends'[b][u].act, spends'[b][v].act
      PROVE  u = v
  <2>1. CASE b = a
    BY SMTT(30), <1>3, <2>1 DEF HasCert
  <2>2. CASE b # a
    BY SMTT(30), <1>3, <2>2 DEF Evidence, CertsEvidence
  <2> QED
    BY ZenonT(30), <2>1, <2>2
<1> QED
  BY ZenonT(30), <1>1, <1>2, <1>3 DEF CertsEvidence

\* One foreclosure is certified.
LEMMA EdgeCerts ==
    ASSUME WellFormed, Evidence, HeldKept, spends' = spends, NEW a \in Anchorings,
           NEW w \in Witnesses, HeldDepth(w, Threshold[a])',
           \A b \in Anchorings, p \in Anchorings : edges'[b][p].fc.act =>
               \/ edges'[b][p] = edges[b][p] /\ edges[b][p].fc.act
               \/ b = a /\ edges'[b][p].fc.w = w
    PROVE  CertsEvidence'
<1>1. ASSUME NEW b \in Anchorings, NEW u \in Txs, spends'[b][u].act
      PROVE  HeldDepth(spends[b][u].w, Threshold[b])'
  <2>1. spends'[b][u] = spends[b][u] /\ spends[b][u].act
    BY ZenonT(30), <1>1
  <2> QED
    BY ZenonT(30), <2>1, SpendHeld
<1>2. ASSUME NEW b \in Anchorings, NEW p \in Anchorings, edges'[b][p].fc.act
      PROVE  HeldDepth(edges[b][p].fc.w, Threshold[b])'
  <2>1. CASE edges'[b][p] = edges[b][p] /\ edges[b][p].fc.act
    BY ZenonT(30), <2>1, EdgeHeld
  <2>2. CASE b = a /\ edges'[b][p].fc.w = w
    BY ZenonT(30), <2>2
  <2> QED
    BY ZenonT(30), <1>2, <2>1, <2>2
<1>3. ASSUME NEW b \in Anchorings, NEW u \in Txs, NEW v \in Txs, spends'[b][u].act, spends'[b][v].act
      PROVE  u = v
  BY ZenonT(30), <1>3 DEF Evidence, CertsEvidence
<1> QED
  BY Zenon, <1>1, <1>2, <1>3 DEF CertsEvidence

\* The re-derivation of the anchoring that was certified is the next task.
LEMMA NextDerivation ==
    ASSUME WellFormed, Evidence, Idle, NEW a \in registered, loop' = << Task("rederive", a) >>,
           \A b \in Anchorings : sensors'[b].st = sensors[b].st,
           \A b \in Anchorings : b # a /\ HasCert(b)' => HasCert(b)
    PROVE  LastDerivation'
<1>1. RederivePending(a)'
  <2>1. PICK t \in TaskType : t = Task("rederive", a) /\ t.op = "rederive" /\ t.id = a
    <3>1. a \in registered /\ registered \subseteq Anchorings
      BY ZenonT(30) DEF WellFormed, RowsOK
    <3> QED
      BY ZenonT(30), <3>1, SimpleTask
  <2>2. loop' = << t >>
    BY ZenonT(30), <2>1
  <2>3. TasksOf(loop') = {t}
    BY ZenonT(30), <2>1, <2>2, ShortStacks
  <2>4. t \in TasksOf(loop')
    BY ZenonT(30), <2>3
  <2> QED
    BY ZenonT(30), <2>1, <2>4 DEF RederivePending
<1>2. \A b \in Anchorings : Sensing(b)' => Sensing(b)
  BY ZenonT(30) DEF Sensing
<1>3. Calm
  BY ZenonT(30), <1>2, CalmIdle
<1>4. \A b \in Anchorings : HasCert(b)' => HasCert(b) \/ RederivePending(b)'
  BY ZenonT(30), <1>1
<1> QED
  BY ZenonT(30), <1>3, <1>4, CalmFrame DEF Evidence

\* A confirmation certifies only what it is evidence of, and only an anchoring
\* that had no certification; a re-derivation follows at once.
LEMMA ConfirmationEvidence ==
    ASSUME WellFormed, Evidence, NEW e \in inflight,
           handleCandidateConf(e) \/ handleCandidateActConf(e) \/ handleForeclosureActConf(e)
    PROVE  Evidence'
<1>1. /\ UNCHANGED chainVars /\ RegistrationUnchanged /\ inflight' = inflight \ {e}
      /\ Idle /\ e.id \in Anchorings /\ Sensing(e.id)
  BY ZenonT(30), ConfirmationEffect
<1>2. PICK a \in Anchorings : a = e.id
  BY ZenonT(30), <1>1
<1>3. HeldKept
  BY ZenonT(30), <1>1, HeldSame
<1>4. EventsEvidence'
  BY ZenonT(30), <1>1, <1>3, EventsTaken DEF Evidence
<1>5. \A b \in Anchorings : IsTerminal(phase'[b]) => phase'[b] = phase[b]
  BY ZenonT(30), <1>1 DEF RegistrationUnchanged
<1>6. ActEvidence'
  BY ZenonT(30), <1>3, <1>5, ActFrame DEF Evidence
<1>7. ~HasCert(a)
  <2>1. ~RederivePending(a)
    BY ZenonT(30), <1>1, ShortStacks DEF Idle, RederivePending
  <2> QED
    BY ZenonT(30), <1>1, <1>2, <2>1 DEF Evidence, LastDerivation
<1>8. CASE (sensors' = sensors \/ sensors' = StopSensor(e.id)) /\ UNCHANGED <<spends, edges, loop>>
  <2>1. CertsKept
    BY ZenonT(30), <1>8 DEF CertsKept
  <2>2. \A b \in Anchorings : Sensing(b)' => Sensing(b)
    <3>1. CASE sensors' = sensors
      BY ZenonT(30), <3>1 DEF Sensing
    <3>2. CASE sensors' = StopSensor(a)
      BY ZenonT(30), <3>2, StoppedSensors
    <3> QED
      BY ZenonT(30), <1>2, <1>8, <3>1, <3>2
  <2>3. Calm
    BY ZenonT(30), <1>1, <2>2, CalmIdle
  <2> QED
    BY ZenonT(30), <1>3, <1>4, <1>5, <2>1, <2>3, EvidenceKept
<1>9. PICK w \in Witnesses, n \in Nat \ {0} : w = e.w /\ n = Threshold[a]
  BY ZenonT(30), TakenEvent, WatcherConstants
<1>10. a \in registered
  BY ZenonT(30), <1>2, TakenEvent
<1>11. ASSUME NEW t \in Txs, NEW c \in Candidates, t = e.w.tx, c.w = e.w, Recording(a, t, c),
              c.act => e.type = "act" \/ (e.type = "loc" /\ Threshold[a] <= 1)
       PROVE  Evidence'
  <2>1. /\ \A b \in Anchorings, u \in Txs : ~(b = a /\ u = t) => spends'[b][u] = spends[b][u]
        /\ spends'[a][t].w = w
        /\ spends'[a][t].act <=> spends[a][t].act \/ c.act
        /\ EdgesMove(edges')
    BY SMTT(30), <1>9, <1>11, RecordingSpends
  <2>2. ~spends[a][t].act
    BY ZenonT(30), <1>7 DEF HasCert
  <2>3. \A b \in Anchorings, p \in Anchorings :
            edges'[b][p].fc.act => edges'[b][p] = edges[b][p] /\ edges[b][p].fc.act
    BY ZenonT(30), <2>1 DEF EdgesMove, MovesTo
  <2>4. ASSUME c.act PROVE HeldDepth(w, n)'
    <3>1. EventEvidence(e)
      BY ZenonT(30) DEF Evidence, EventsEvidence
    <3>2. HeldDepth(w, n)
      <4>1. CASE e.type = "act"
        BY ZenonT(30), <1>2, <1>9, <3>1, <4>1 DEF EventEvidence
      <4>2. CASE e.type = "loc" /\ Threshold[a] <= 1
        <5>1. n = 1
          BY SMTT(30), <1>9, <4>2
        <5> QED
          BY ZenonT(30), <1>9, <3>1, <4>2, <5>1 DEF EventEvidence
      <4> QED
        BY ZenonT(30), <1>11, <2>4, <4>1, <4>2
    <3> QED
      BY ZenonT(30), <1>3, <3>2 DEF HeldKept
  <2>5. spends'[a][t].act => HeldDepth(w, Threshold[a])'
    BY ZenonT(30), <1>9, <2>1, <2>2, <2>4
  <2>6. CertsEvidence'
    BY ZenonT(30), <1>3, <1>7, <2>1, <2>3, <2>5, CandidateCerts
  <2>7. \A b \in Anchorings : b # a /\ HasCert(b)' => HasCert(b)
    BY SMTT(30), <2>1, <2>3 DEF HasCert
  <2>8. LastDerivation'
    BY Zenon, <1>1, <1>10, <1>11, <2>7, NextDerivation DEF Recording
  <2> QED
    BY ZenonT(30), <1>4, <1>6, <2>6, <2>8 DEF Evidence
<1>12. ASSUME EdgeCertified(e), e.type = "fc" PROVE Evidence'
  <2>1. /\ loop' = << Task("rederive", a) >> /\ spends' = spends
        /\ \A b \in Anchorings : sensors'[b].st = sensors[b].st
    BY ZenonT(30), <1>2, <1>12 DEF EdgeCertified
  <2>2. \A b \in Anchorings, p \in Anchorings : edges'[b][p].fc.act =>
            \/ edges'[b][p] = edges[b][p] /\ edges[b][p].fc.act
            \/ b = a /\ edges'[b][p].fc.w = w
    BY SMTT(30), <1>2, <1>9, <1>12, CertifiedEdges
  <2>3. HeldDepth(w, n)'
    <3>1. EventEvidence(e)
      BY ZenonT(30) DEF Evidence, EventsEvidence
    <3>2. HeldDepth(w, n)
      BY ZenonT(30), <1>2, <1>9, <1>12, <3>1 DEF EventEvidence
    <3> QED
      BY ZenonT(30), <1>3, <3>2 DEF HeldKept
  <2>4. HeldDepth(w, Threshold[a])'
    BY ZenonT(30), <1>9, <2>3
  <2>5. CertsEvidence'
    BY SMTT(30), <1>3, <2>1, <2>2, <2>4, EdgeCerts
  <2>6. \A b \in Anchorings : b # a /\ HasCert(b)' => HasCert(b)
    BY ZenonT(30), <2>1, <2>2 DEF HasCert
  <2>7. LastDerivation'
    BY ZenonT(30), <1>1, <1>10, <2>1, <2>6, NextDerivation
  <2> QED
    BY ZenonT(30), <1>4, <1>6, <2>5, <2>7 DEF Evidence
<1> QED
  BY SMTT(30), <1>2, <1>8, <1>11, <1>12, ConfirmationEffect

\* Every step keeps the evidence.
LEMMA EvidenceStep == ASSUME WellFormed, Evidence, [Next]_vars PROVE Evidence'
<1>1. CASE UNCHANGED vars
  <2>1. UNCHANGED <<chain, orphaned, spends, edges, phase, sensors, inflight, loop>>
    BY ZenonT(30), <1>1 DEF vars, chainVars, registryVars, watcherVars
  <2>2. EventsEvidence' /\ ActEvidence'
    BY ZenonT(30), <2>1 DEF Evidence, EventsEvidence, EventEvidence, ActEvidence, HeldDepth
  <2>3. CertsEvidence'
    BY ZenonT(30), <2>1 DEF Evidence, CertsEvidence, HeldDepth
  <2>4. LastDerivation'
    BY <2>1 DEF Evidence, LastDerivation, HasCert, Sensing, RederivePending, TasksOf
  <2> QED
    BY ZenonT(30), <2>2, <2>3, <2>4 DEF Evidence
<1>2. CASE LoopTask
  <2>1. CASE Rederive
    BY ZenonT(30), <2>1, RederiveEvidence
  <2>2. CASE ~Rederive
    BY ZenonT(30), <1>2, <2>2, LoopEvidence
  <2> QED
    BY Zenon, <2>1, <2>2
<1>3. CASE Sweep \/ Restart
  BY ZenonT(30), <1>3, SweepEvidence
<1>4. CASE BlockConnected \/ ChainReorged
  BY ZenonT(30), <1>4, ChainEvidence
<1>5. ASSUME NEW e \in inflight, Handle(e) \/ HandlerFails(e) PROVE Evidence'
  BY ZenonT(30), <1>5, HandlerEvidence, ConfirmationEvidence DEF Handle
<1>6. ASSUME NEW a \in Anchorings, Register(a) \/ Attach(a) \/ StreamBroken(a) \/ Deliver(a) PROVE Evidence'
  BY ZenonT(30), <1>6, WorldEvidence
<1> QED
  BY ZenonT(30), <1>1, <1>2, <1>3, <1>4, <1>5, <1>6 DEF Next, Sense

\* Nothing is certified before the first event.
LEMMA InitEvidence == ASSUME Init \/ InitRegistered PROVE Evidence
<1>1. /\ phase = [a \in Anchorings |-> Unwitnessed] /\ inflight = {}
      /\ spends = [a \in Anchorings |-> [t \in Txs |-> NoSpend]]
      /\ edges = [c \in Anchorings |-> [p \in Anchorings |-> NoEdge]]
  BY ZenonT(30) DEF Init, RegistryInit, InitRegistered
<1>2. \A a \in Anchorings : /\ \A t \in Txs : ~spends[a][t].act
                            /\ \A p \in Anchorings : ~edges[a][p].fc.act
                            /\ ~IsTerminal(phase[a])
  BY ZenonT(30), <1>1, NoSpendType, NoForeclosureType DEF NoEdge, Unwitnessed, IsTerminal, TerminalCodes
<1> QED
  BY ZenonT(30), <1>1, <1>2 DEF Evidence, EventsEvidence, CertsEvidence, LastDerivation, HasCert, ActEvidence

\* An anchoring is buried or abandoned only on evidence: whatever order the
\* notifier's events arrive in and whatever is lost on the way, the witness
\* of a terminal phase that rederive writes once held the anchoring's
\* threshold depth on the dominant chain.
THEOREM ActEvidenceHolds == Spec \/ RegisteredSpec => []ActEvidence
<1>1. (Init \/ InitRegistered) => WellFormed /\ Evidence
  BY ZenonT(30), InitWellFormed, InitEvidence
<1>2. WellFormed /\ Evidence /\ [Next]_vars => (WellFormed /\ Evidence)'
  BY ZenonT(30), WellFormedStep, EvidenceStep
<1>3. Evidence => ActEvidence
  BY ZenonT(30) DEF Evidence
<1> QED
  BY <1>1, <1>2, <1>3, PTL DEF Spec, RegisteredSpec

\* The contradictory certifications that DerivePhase withholds never arise:
\* no anchoring is certified both as satisfied and as conflicted.
THEOREM NoContradictionHolds == Spec \/ RegisteredSpec => []NoContradiction
<1>1. (Init \/ InitRegistered) => WellFormed /\ Evidence
  BY ZenonT(30), InitWellFormed, InitEvidence
<1>2. WellFormed /\ Evidence /\ [Next]_vars => (WellFormed /\ Evidence)'
  BY ZenonT(30), WellFormedStep, EvidenceStep
<1>3. Evidence => NoContradiction
  <2> SUFFICES ASSUME Evidence, NEW a \in Anchorings
               PROVE  \/ Certified(SpendsWith(spends[a], "satisfies")) = {}
                      \/ Certified(SpendsWith(spends[a], "foreign")) = {}
    BY ZenonT(30) DEF NoContradiction
  <2>1. \A t \in Txs, u \in Txs : spends[a][t].act /\ spends[a][u].act => t = u
    BY ZenonT(30) DEF Evidence, CertsEvidence
  <2>2. ASSUME NEW s \in Certified(SpendsWith(spends[a], "satisfies")),
               NEW o \in Certified(SpendsWith(spends[a], "foreign"))
        PROVE  FALSE
    BY ZenonT(30), <2>1, <2>2 DEF Certified, SpendsWith
  <2> QED
    BY ZenonT(30), <2>2
<1> QED
  BY <1>1, <1>2, <1>3, PTL DEF Spec, RegisteredSpec
=============================================================================
