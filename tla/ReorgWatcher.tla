---------------------------- MODULE ReorgWatcher ----------------------------
(***************************************************************************)
(* The re-org watcher's sensing loop (tapreorg/service.go) composed with   *)
(* the chain it watches, the registry it writes, the registrations of the  *)
(* sites and the deliveries to them.                                       *)
(*                                                                         *)
(* One goroutine runs the sensing loop.  While it works through an event   *)
(* the chain may move, a site may register, the delivery loop may commit   *)
(* and the daemon may die, so the work of one event is a stack of tasks,   *)
(* each one database transaction long, and the next event is taken when    *)
(* the stack is empty.  Subscriptions deliver into a bag of events in      *)
(* flight from which the loop takes any: the goroutines that forward them  *)
(* race each other.                                                        *)
(***************************************************************************)
EXTENDS Chain, ReorgRegistry

CONSTANTS
    RegTriggers,   \* RegTriggers[a]: the triggers a is registered with
    AddedTriggers, \* AddedTriggers[a]: the triggers a second registration adds
    SeedTx,        \* SeedTx[a]: the transaction a may be seeded with, 0 if none
    Satisfying,    \* Satisfying[a]: the transactions a's site predicate accepts
    Threshold,     \* Threshold[a]: the act threshold
    HeightHint,    \* HeightHint[a]: the hint of a's triggers, 0 if they carry none
    Unwatchable,   \* the transactions without a standard output script
    MaxRegHeight,  \* bound: the best height up to which new anchorings register
    MaxFaults      \* bound: failing calls, lost hand-offs, severed streams, crashes

ASSUME WatcherConstants ==
    /\ Anchorings \subseteq Nat \ {0}
    /\ RegTriggers \in [Anchorings -> SUBSET OutPoints]
    /\ AddedTriggers \in [Anchorings -> SUBSET OutPoints]
    /\ SeedTx \in [Anchorings -> Txs \cup {0}]
    /\ Satisfying \in [Anchorings -> SUBSET Txs]
    /\ Threshold \in [Anchorings -> Nat \ {0}]
    /\ HeightHint \in [Anchorings -> Nat]
    /\ Unwatchable \subseteq Txs
    /\ {MaxRegHeight, MaxFaults} \subseteq Nat

VARIABLES
    sensors,   \* sensors[a]: the sensor of a
    inflight,  \* the events on their way to the sensing loop
    loop,      \* the tasks left of the event being handled
    faults     \* how many faults have happened

watcherVars == <<sensors, inflight, loop, faults>>
vars == <<chainVars, registryVars, watcherVars>>

-----------------------------------------------------------------------------
(* Sensors and their subscriptions. *)

\* cached is the trigger set of the aggregate the sensor holds; its cached
\* candidates always equal the registry's while the loop is idle.  streams
\* is FALSE once the notifier has severed them.
NoSensor == [st |-> "off", watched |-> {}, cached |-> {}, subs |-> {},
             pending |-> [t \in Txs |-> "none"], streams |-> FALSE]

\* A confirmation subscription: "loc" at one confirmation, "act" at the
\* threshold, "fc" on a transaction that forecloses through parent.
Sub(kind, t, p, hint) ==
    [kind |-> kind, tx |-> t, parent |-> p, hidden |-> BelowHint(chain, t, hint)]
NumConfs(a, s) == IF s.kind = "loc" THEN 1 ELSE Threshold[a]

earliestSpendHint(a) == IF HeightHint[a] # 0 THEN HeightHint[a] ELSE createdHeight[a]

\* watchCandidate: the subscriptions a sensor still needs for t.
CandidateSubs(a, t, subs) ==
    IF t \in Unwatchable \/ \E s \in subs : s.kind = "loc" /\ s.tx = t THEN {}
    ELSE {Sub(kind, t, 0, earliestSpendHint(a)) :
            kind \in {"loc"} \cup (IF Threshold[a] > 1 THEN {"act"} ELSE {})}

\* watchForeclosure: one subscription per foreclosing transaction.
ForeclosureSubs(fc, subs) ==
    IF \/ fc = NoForeclosure \/ fc.act
       \/ fc.w.tx \in Unwatchable
       \/ \E s \in subs : s.kind = "fc" /\ s.tx = fc.w.tx
    THEN {}
    ELSE {Sub("fc", fc.w.tx, fc.parent, earliestSpendHint(fc.parent))}

-----------------------------------------------------------------------------
(* Events. *)

Event(type, a, w, p) == [type |-> type, id |-> a, w |-> w, parent |-> p]
evSense(a) == Event("sense", a, NoWitness, 0)
evStopSensing(a) == Event("stop", a, NoWitness, 0)
evResense(a) == Event("resense", a, NoWitness, 0)
evSpendDetail(a, t) == Event("spend", a, [NoWitness EXCEPT !.tx = t], 0)
evCandidateReorg(a, t) == Event("lost", a, [NoWitness EXCEPT !.tx = t], 0)

\* What a confirmation subscription of a reports when the chain moves from
\* c to d (from the empty report, when it has just been registered).  Only
\* the location subscription has a re-org channel.
dispatchConf(a, s, was, now) ==
    IF was = now THEN {}
    ELSE IF now # NoWitness THEN {Event(s.kind, a, now, s.parent)}
    ELSE IF s.kind = "loc" THEN {evCandidateReorg(a, s.tx)}
    ELSE {}

\* A subscription is no longer hidden from its transaction once that moves.
Unhide(s, c, d) == [s EXCEPT !.hidden = @ /\ findTx(d, s.tx) = findTx(c, s.tx)]

\* The historical dispatch of new subscriptions.
HistoricalConfs(a, subs) ==
    UNION {dispatchConf(a, s, NoWitness, confReport(chain, s.tx, NumConfs(a, s), s.hidden)) :
            s \in subs}
HistoricalSpends(a, ops) ==
    {evSpendDetail(a, w.tx) : w \in UNION {findSpender(chain, op) : op \in ops}}

\* dispatch: every subscription of a live stream is reconciled with the new
\* chain.  The re-org signal of a spend subscription is never acted upon.
dispatch(a, c, d) ==
    IF ~sensors[a].streams THEN {}
    ELSE (UNION {dispatchConf(a, s, confReport(c, s.tx, NumConfs(a, s), s.hidden),
                    confReport(d, s.tx, NumConfs(a, s), Unhide(s, c, d).hidden)) :
                    s \in sensors[a].subs})
         \cup {evSpendDetail(a, w.tx) :
                w \in UNION {{x \in findSpender(d, op) :
                                \A y \in findSpender(c, op) : y.tx = x.tx => y.height # x.height} :
                            op \in sensors[a].watched}}

Dispatched ==
    /\ inflight' = inflight \cup UNION {dispatch(a, chain, chain') : a \in Anchorings}
    /\ sensors' = [a \in Anchorings |->
                    [sensors[a] EXCEPT !.subs = {Unhide(s, chain, chain') : s \in @}]]
    /\ UNCHANGED <<registryVars, loop, faults>>

BlockConnected == MineBlock /\ Dispatched
ChainReorged == Reorg /\ Dispatched

-----------------------------------------------------------------------------
(* The sensing loop's tasks. *)

\* todo holds the anchorings a task has still to visit, in order.
Task(op, a) == [op |-> op, id |-> a, trigs |-> [b \in {} |-> {}], phase |-> Unwitnessed, todo |-> {}]
Idle == loop = << >>
Doing(op) == ~Idle /\ Head(loop).op = op
Then(tasks) == tasks \o Tail(loop)

Sensing(a) == sensors[a].st = "on"
StopSensor(a) == [sensors EXCEPT ![a] = NoSensor]
Fault == faults < MaxFaults /\ faults' = faults + 1

\* adopt: start the sensor, re-derive, and restage the dependents even when
\* the derivation changed nothing.
AfterStart(a) == << Task("rederive", a), Task("own", a) >>

\* startSensor up to its reconciliation: the spend subscriptions over the
\* trigger set that was read, and those of the recorded candidates.
Subscribe(a, trigs, rest) ==
    LET subs == UNION {CandidateSubs(a, t, {}) : t \in {u \in Txs : spends[a][u] # NoSpend}}
    IN  /\ sensors' = [sensors EXCEPT ![a] =
                        [st |-> "starting", watched |-> trigs, cached |-> trigs, subs |-> subs,
                         pending |-> [t \in Txs |-> "none"], streams |-> TRUE]]
        /\ inflight' = inflight \cup HistoricalConfs(a, subs) \cup HistoricalSpends(a, trigs)
        /\ loop' = Then(<< Task("verify", a) >> \o rest)

\* An adoption asked for by an event: it leaves a running sensor alone, and
\* a terminal anchoring without one.
AdoptOne ==
    /\ Doing("adopt")
    /\ LET a == Head(loop).id IN
       IF Sensing(a) THEN loop' = Then(AfterStart(a)) /\ UNCHANGED <<sensors, inflight>>
       ELSE IF IsTerminal(phase[a]) THEN loop' = Tail(loop) /\ UNCHANGED <<sensors, inflight>>
       ELSE Subscribe(a, triggers[a], << >>)
    /\ UNCHANGED <<chainVars, registryVars, faults>>

First(t) == CHOOSE a \in t.todo : \A b \in t.todo : a <= b
Others(t) ==
    LET rest == t.todo \ {First(t)}
    IN  IF rest = {} THEN << >> ELSE << [t EXCEPT !.todo = rest] >>

\* An adoption by the sweep, from the rows it read when it began: a sensor
\* that spans the trigger set is left alone, any other is rebuilt.
Covered(t) == Sensing(First(t)) /\ sensors[First(t)].watched = t.trigs[First(t)]

\* A sweep that leaves every running sensor alone.
AdoptSwept_running ==
    /\ Doing("sweep")
    /\ LET t == Head(loop)
       IN  IF Sensing(First(t)) THEN loop' = Then(Others(t)) /\ UNCHANGED <<sensors, inflight>>
           ELSE Subscribe(First(t), t.trigs[First(t)], Others(t))
    /\ UNCHANGED <<chainVars, registryVars, faults>>

AdoptSwept ==
    /\ Doing("sweep")
    /\ LET t == Head(loop)
       IN  IF Covered(t) THEN loop' = Then(Others(t)) /\ UNCHANGED <<sensors, inflight>>
           ELSE Subscribe(First(t), t.trigs[First(t)], Others(t))
    /\ UNCHANGED <<chainVars, registryVars, faults>>

\* A staging that waits until the parent's outcome is final.
restageEdge_late(p, ph, edge) ==
    IF ~IsTerminal(ph) THEN edge
    ELSE IF ph.code = "buried" /\ ph.w.tx = edge.form THEN ClearForeclosure(edge)
    ELSE StageForeclosure(edge, Foreclosure(p, ph.w))

\* restageEdge: the staging of one edge as a function of the parent's phase.
restageEdge(p, ph, edge) ==
    IF ph.code = "abandoned" THEN StageForeclosure(edge, Foreclosure(p, ph.w))
    ELSE IF ph.code \in {"witnessed", "buried"}
         THEN IF ph.w.tx = edge.form THEN ClearForeclosure(edge)
              ELSE StageForeclosure(edge, Foreclosure(p, ph.w))
    ELSE IF edge.fc.onChain THEN StageForeclosure(edge, [edge.fc EXCEPT !.onChain = FALSE])
    ELSE edge

\* The recorded candidates the dominant chain no longer holds where recorded.
Displaced(a) == {t \in Txs : spends[a][t].onChain /\ ~verifyLocation(chain, spends[a][t].w)}
MarkedOffChain(a, gone) ==
    [spends EXCEPT ![a] = [t \in Txs |-> IF t \in gone THEN [spends[a][t] EXCEPT !.onChain = FALSE]
                                         ELSE spends[a][t]]]

\* A reconciliation that trusts what was recorded before the sensor was down.
VerifyAndInstall_trusting ==
    /\ Doing("verify")
    /\ sensors' = [sensors EXCEPT ![Head(loop).id].st = "on"]
    /\ loop' = Then(AfterStart(Head(loop).id))
    /\ UNCHANGED <<chainVars, registryVars, inflight, faults>>

\* startSensor's reconciliation, strictly after the subscriptions: verify
\* the recorded locations, rebuild the incoming staging (reconcileForeclosures),
\* and only then install the sensor.
VerifyAndInstall ==
    /\ Doing("verify")
    /\ LET a == Head(loop).id
       IN  /\ spends' = MarkedOffChain(a, Displaced(a))
           /\ edges' = [edges EXCEPT ![a] =
                            [p \in Anchorings |-> IF p \in IncomingEdges(a)
                                                  THEN restageEdge(p, phase[p], @[p]) ELSE @[p]]]
           /\ sensors' = [sensors EXCEPT ![a].st = "on"]
           /\ loop' = Then(AfterStart(a))
    /\ UNCHANGED <<chainVars, registered, triggers, createdHeight, phase, delivered, inflight, faults>>

\* The reconciliation fails part-way: what it wrote stays, the sensor does not.
VerifyFails ==
    /\ Doing("verify")
    /\ Fault
    /\ LET a == Head(loop).id
       IN  /\ \E part \in SUBSET Displaced(a) : spends' = MarkedOffChain(a, part)
           /\ sensors' = StopSensor(a)
    /\ loop' = Tail(loop)
    /\ UNCHANGED <<chainVars, registered, triggers, createdHeight, phase, delivered, edges, inflight>>

\* restageDependentForeclosures: load the edges, then restage and re-derive
\* one child after the other.
Restage(p, ph) ==
    IF DependencyEdges(p) = {} THEN << >>
    ELSE << [Task("kids", p) EXCEPT !.phase = ph, !.todo = DependencyEdges(p)] >>

\* A re-derivation that keeps sensing past a terminal phase.
Rederive_past ==
    /\ Doing("rederive")
    /\ LET a == Head(loop).id
           derived == DerivedPhase(a)
       IN  /\ phase' = IF Sensing(a) THEN [phase EXCEPT ![a] = derived] ELSE phase
           /\ sensors' = IF Sensing(a) THEN [sensors EXCEPT ![a].cached = triggers[a]] ELSE sensors
           /\ loop' = Then(IF ~Sensing(a) \/ derived = phase[a] THEN << >> ELSE Restage(a, derived))
    /\ UNCHANGED <<chainVars, registered, triggers, createdHeight, delivered, spends, edges,
                   inflight, faults>>

\* rederive: the phase is a function of the recorded view.  A staged
\* foreclosure gets its certification subscription, the cached aggregate is
\* refreshed, a changed phase is set, and dependents are restaged.
Rederive ==
    /\ Doing("rederive")
    /\ LET a == Head(loop).id
           fc == StagedForeclosure(a)
           derived == DerivedPhase(a)
           subs == ForeclosureSubs(fc, sensors[a].subs)
           refreshed == [sensors EXCEPT ![a].subs = @ \cup subs, ![a].cached = triggers[a]]
       IN  IF ~Sensing(a) THEN loop' = Tail(loop) /\ UNCHANGED <<phase, sensors, inflight>>
           ELSE IF IsTerminal(phase[a])
           THEN loop' = Tail(loop) /\ sensors' = StopSensor(a) /\ UNCHANGED <<phase, inflight>>
           ELSE /\ phase' = [phase EXCEPT ![a] = derived]
                /\ sensors' = IF IsTerminal(derived) THEN StopSensor(a) ELSE refreshed
                /\ inflight' = inflight \cup HistoricalConfs(a, subs)
                /\ loop' = Then(IF derived = phase[a] THEN << >> ELSE Restage(a, derived))
    /\ UNCHANGED <<chainVars, registered, triggers, createdHeight, delivered, spends, edges, faults>>

\* The restage at the end of an adoption, for a sensor that survived it.
RestageAdopted ==
    /\ Doing("own")
    /\ LET a == Head(loop).id
       IN  loop' = Then(IF Sensing(a) THEN Restage(a, phase[a]) ELSE << >>)
    /\ UNCHANGED <<chainVars, registryVars, sensors, inflight, faults>>

RestageChild ==
    /\ Doing("kids")
    /\ LET t == Head(loop)
           c == First(t)
       IN  /\ edges' = [edges EXCEPT ![c][t.id] = restageEdge(t.id, t.phase, @)]
           /\ loop' = Then((IF Sensing(c) THEN << Task("rederive", c) >> ELSE << >>) \o Others(t))
    /\ UNCHANGED <<chainVars, registered, triggers, createdHeight, phase, delivered, spends,
                   sensors, inflight, faults>>

\* Does the task call the notifier or the registry at all?
MakesCalls(t) ==
    CASE t.op = "adopt" -> ~Sensing(t.id) /\ ~IsTerminal(phase[t.id])
      [] t.op = "sweep" -> ~Covered(t)
      [] t.op = "rederive" -> Sensing(t.id)
      [] OTHER -> t.op = "kids"

\* A call fails: the sensor concerned is dropped for the sweep to rebuild,
\* and a restage goes on with the next child.
TaskFails ==
    /\ ~Idle
    /\ MakesCalls(Head(loop))
    /\ Fault
    /\ LET t == Head(loop)
       IN  IF t.op \in {"sweep", "kids"}
           THEN sensors' = StopSensor(First(t)) /\ loop' = Then(Others(t))
           ELSE sensors' = StopSensor(t.id) /\ loop' = Tail(loop)
    /\ UNCHANGED <<chainVars, registryVars, inflight>>

\* The dependents cannot be loaded: the restage is left to the re-adoption.
LoadDependentsFails ==
    /\ Doing("kids")
    /\ Head(loop).todo = DependencyEdges(Head(loop).id)
    /\ Fault
    /\ sensors' = StopSensor(Head(loop).id)
    /\ loop' = Tail(loop)
    /\ UNCHANGED <<chainVars, registryVars, inflight>>

-----------------------------------------------------------------------------
(* The sensing loop's inputs: it takes one only when it is idle. *)

\* reconcileSensors: the sweep that every lost hand-off is left to.  It
\* reads the live rows once and then visits them in order; when every
\* sensor spans its triggers there is nothing to do.
Sweep ==
    /\ Idle
    /\ loop' = IF \A a \in LiveAnchorings : Sensing(a) /\ sensors[a].watched = triggers[a]
               THEN loop
               ELSE << [Task("sweep", 0) EXCEPT !.todo = LiveAnchorings,
                                                !.trigs = [a \in LiveAnchorings |-> triggers[a]]] >>
    /\ UNCHANGED <<chainVars, registryVars, sensors, inflight, faults>>

\* The next event, taken off the channel; the handlers below say what else.
Take(type, e) == Idle /\ e \in inflight /\ e.type = type

handleSense(e) ==
    /\ Take("sense", e)
    /\ inflight' = inflight \ {e}
    /\ loop' = << Task("adopt", e.id) >>
    /\ UNCHANGED <<chainVars, registryVars, sensors, faults>>

handleStopSensing(e) ==
    /\ Take("stop", e)
    /\ inflight' = inflight \ {e}
    /\ sensors' = StopSensor(e.id)
    /\ UNCHANGED <<chainVars, registryVars, loop, faults>>

\* A broken stream that nobody answers.
handleResense_ignored(e) ==
    /\ Take("resense", e)
    /\ inflight' = inflight \ {e}
    /\ UNCHANGED <<chainVars, registryVars, sensors, loop, faults>>

\* Only the sensor whose stream broke is dropped, not a successor.
handleResense(e) ==
    /\ Take("resense", e)
    /\ inflight' = inflight \ {e}
    /\ sensors' = IF sensors[e.id].streams THEN sensors ELSE StopSensor(e.id)
    /\ UNCHANGED <<chainVars, registryVars, loop, faults>>

ChainEvents == {"spend", "loc", "act", "fc", "lost"}

\* An event without a sensor is ignored by the loop; a cancelled sensor's
\* forwarder may also give up on it earlier (forwardEvent).
IgnoreEvent(e) ==
    /\ e \in inflight /\ e.type \in ChainEvents
    /\ sensors[e.id].st = "off"
    /\ inflight' = inflight \ {e}
    /\ UNCHANGED <<chainVars, registryVars, sensors, loop, faults>>

\* A failing call is logged and forgotten.
HandlerFails_logged(e) ==
    /\ Idle /\ e \in inflight /\ e.type \in ChainEvents
    /\ Sensing(e.id)
    /\ Fault
    /\ inflight' = inflight \ {e}
    /\ UNCHANGED <<chainVars, registryVars, sensors, loop>>

\* A call a handler makes fails, before it has written anything: resense.
HandlerFails(e) ==
    /\ Idle /\ e \in inflight /\ e.type \in ChainEvents
    /\ Sensing(e.id)
    /\ Fault
    /\ inflight' = inflight \ {e}
    /\ sensors' = StopSensor(e.id)
    /\ UNCHANGED <<chainVars, registryVars, loop>>

\* The whole-set rule is enforced before the site's predicate is asked.
EvaluateCandidate(a, t) ==
    IF sensors[a].cached \subseteq TxSpends[t] /\ t \in Satisfying[a] THEN "satisfies" ELSE "foreign"

handleSpendDetail(e) ==
    /\ Take("spend", e)
    /\ Sensing(e.id)
    /\ LET a == e.id
           t == e.w.tx
           subs == CandidateSubs(a, t, sensors[a].subs)
           known == spends[a][t] # NoSpend \/ sensors[a].pending[t] # "none"
           verdict == IF known THEN sensors[a].pending[t] ELSE EvaluateCandidate(a, t)
       IN  /\ sensors' = [sensors EXCEPT ![a] =
                            [sensors[a] EXCEPT !.subs = @ \cup subs, !.pending[t] = verdict]]
           /\ inflight' = (inflight \ {e}) \cup HistoricalConfs(a, subs)
    /\ UNCHANGED <<chainVars, registryVars, loop, faults>>

\* The verdict of a candidate: the pending one, or the recorded one.
VerdictOf(a, t) ==
    IF sensors[a].pending[t] # "none" THEN sensors[a].pending[t] ELSE spends[a][t].verdict

\* Record a located candidate and re-derive.  A refused or unattributable
\* record rebuilds the sensor.
RecordCandidate(e, act) ==
    LET a == e.id
        c == [verdict |-> VerdictOf(a, e.w.tx), w |-> e.w, onChain |-> TRUE, act |-> act]
    IN  IF c.verdict = "none" \/ ~CandidateAllowed(triggers[a], c)
        THEN sensors' = StopSensor(a) /\ UNCHANGED <<spends, edges, loop>>
        ELSE /\ spends' = [spends EXCEPT ![a][e.w.tx] = UpsertedCandidate(@, c)]
             /\ edges' = DerivedEdges(a, c)
             /\ sensors' = [sensors EXCEPT ![a].pending[e.w.tx] = "none"]
             /\ loop' = << Task("rederive", a) >>

RegistrationUnchanged == UNCHANGED <<registered, triggers, createdHeight, phase, delivered>>

\* A first confirmation that certifies one block too early.
handleCandidateConf_early(e) ==
    /\ Take("loc", e)
    /\ Sensing(e.id)
    /\ inflight' = inflight \ {e}
    /\ IF verifyLocation(chain, e.w) THEN RecordCandidate(e, Threshold[e.id] <= 2)
       ELSE UNCHANGED <<spends, edges, sensors, loop>>
    /\ UNCHANGED <<chainVars, faults>> /\ RegistrationUnchanged

\* A stale confirmation is dropped: what the chain holds now has events of
\* its own.
handleCandidateConf(e) ==
    /\ Take("loc", e)
    /\ Sensing(e.id)
    /\ inflight' = inflight \ {e}
    /\ IF VerdictOf(e.id, e.w.tx) = "none" \/ verifyLocation(chain, e.w)
       THEN RecordCandidate(e, Threshold[e.id] <= 1)
       ELSE UNCHANGED <<spends, edges, sensors, loop>>
    /\ UNCHANGED <<chainVars, faults>> /\ RegistrationUnchanged

\* A stale certification is not recorded either, and rebuilds the sensor.
handleCandidateActConf(e) ==
    /\ Take("act", e)
    /\ Sensing(e.id)
    /\ inflight' = inflight \ {e}
    /\ IF verifyLocation(chain, e.w) THEN RecordCandidate(e, TRUE)
       ELSE sensors' = StopSensor(e.id) /\ UNCHANGED <<spends, edges, loop>>
    /\ UNCHANGED <<chainVars, faults>> /\ RegistrationUnchanged

handleForeclosureActConf(e) ==
    /\ Take("fc", e)
    /\ Sensing(e.id)
    /\ inflight' = inflight \ {e}
    /\ IF verifyLocation(chain, e.w)
       THEN /\ edges' = [edges EXCEPT ![e.id][e.parent] =
                            StageForeclosure(@, [Foreclosure(e.parent, e.w) EXCEPT !.act = TRUE])]
            /\ loop' = << Task("rederive", e.id) >>
            /\ UNCHANGED sensors
       ELSE sensors' = StopSensor(e.id) /\ UNCHANGED <<edges, loop>>
    /\ UNCHANGED <<chainVars, spends, faults>> /\ RegistrationUnchanged

\* A loss signal is believed only if the recorded location really is gone.
markCandidateOffChain(e) ==
    /\ Take("lost", e)
    /\ Sensing(e.id)
    /\ inflight' = inflight \ {e}
    /\ IF e.w.tx \in Displaced(e.id)
       THEN /\ spends' = MarkedOffChain(e.id, {e.w.tx})
            /\ loop' = << Task("rederive", e.id) >>
       ELSE UNCHANGED <<spends, loop>>
    /\ UNCHANGED <<chainVars, edges, sensors, faults>> /\ RegistrationUnchanged

-----------------------------------------------------------------------------
(* The world around the sensing loop. *)

\* RegisterBatch for a new anchoring.  The hand-off to the sensing loop is
\* best effort.  A seed is located where the site last saw it, which may be
\* a block that a re-org has displaced since.
Register(a) ==
    /\ Len(chain) <= MaxRegHeight
    /\ \E seed \in {NoSpend} \cup
            {[verdict |-> "satisfies", w |-> findTx(c, SeedTx[a]), onChain |-> TRUE, act |-> FALSE] :
                c \in {d \in orphaned \cup {chain} : SeedTx[a] # 0 /\ Confirmed(d, SeedTx[a])}} :
            insertRegistration(a, RegTriggers[a], Len(chain), seed)
    /\ \/ inflight' = inflight \cup {evSense(a)} /\ UNCHANGED faults
       \/ Fault /\ UNCHANGED inflight
    /\ UNCHANGED <<chainVars, sensors, loop>>

\* RegisterBatch attaching to an anchoring and enlarging its trigger set.
Attach(a) ==
    /\ AddedTriggers[a] \ triggers[a] # {}
    /\ \E phase1OnAttach \in BOOLEAN :
            attachExisting(a, AddedTriggers[a] \ triggers[a], phase1OnAttach)
    /\ \/ inflight' = inflight \cup {evStopSensing(a), evSense(a)} /\ UNCHANGED faults
       \/ Fault /\ inflight' \in {inflight, inflight \cup {evStopSensing(a)}, inflight \cup {evSense(a)}}
    /\ UNCHANGED <<chainVars, sensors, loop>>

\* deliverOne, once its site handler succeeds: the delivery commits only
\* against the phase it was decided on, settles the dependents' edges when
\* that phase is terminal, and then ends sensing and nudges the dependents.
\* The nudge is lost when the dependents cannot be loaded.
Deliver(a) ==
    /\ a \in registered
    /\ delivered[a] # phase[a]
    /\ delivered' = [delivered EXCEPT ![a] = phase[a]]
    /\ edges' = settleDependentEdges(a, phase[a])
    /\ IF ~IsTerminal(phase[a]) THEN UNCHANGED <<inflight, faults>>
       ELSE \/ /\ inflight' = inflight \cup {evStopSensing(a)}
                                \cup {evSense(c) : c \in DependencyEdges(a)}
               /\ UNCHANGED faults
            \/ Fault /\ inflight' = inflight \cup {evStopSensing(a)}
    /\ UNCHANGED <<chainVars, registered, triggers, createdHeight, phase, spends, sensors, loop>>

\* streamBroken: the notifier severs a sensor's streams.
StreamBroken(a) ==
    /\ sensors[a].streams
    /\ Fault
    /\ sensors' = [sensors EXCEPT ![a].streams = FALSE]
    /\ inflight' = inflight \cup {evResense(a)}
    /\ UNCHANGED <<chainVars, registryVars, loop>>

\* The daemon stops and starts again: only the registry survives, and the
\* startup adoption of everything live is a sweep.
Restart ==
    /\ Fault
    /\ sensors' = [a \in Anchorings |-> NoSensor]
    /\ inflight' = {}
    /\ loop' = << >>
    /\ UNCHANGED <<chainVars, registryVars>>

-----------------------------------------------------------------------------

Init ==
    /\ chain = << >>
    /\ orphaned = {} /\ reorgs = 0
    /\ RegistryInit
    /\ sensors = [a \in Anchorings |-> NoSensor]
    /\ inflight = {}
    /\ loop = << >>
    /\ faults = 0

\* The daemon comes up with every anchoring registered at an earlier run.
InitRegistered ==
    /\ chain = << >>
    /\ orphaned = {} /\ reorgs = 0
    /\ registered = Anchorings
    /\ triggers = RegTriggers
    /\ createdHeight = [a \in Anchorings |-> 0]
    /\ phase = [a \in Anchorings |-> Unwitnessed]
    /\ delivered = [a \in Anchorings |-> Unwitnessed]
    /\ spends = [a \in Anchorings |-> [t \in Txs |-> NoSpend]]
    /\ edges = [c \in Anchorings |-> [p \in Anchorings |-> NoEdge]]
    /\ sensors = [a \in Anchorings |-> NoSensor]
    /\ inflight = {}
    /\ loop = << >>
    /\ faults = 0

LoopTask == AdoptOne \/ AdoptSwept \/ VerifyAndInstall \/ VerifyFails \/ Rederive
            \/ RestageAdopted \/ RestageChild \/ LoadDependentsFails \/ TaskFails

Handle(e) == handleSense(e) \/ handleStopSensing(e) \/ handleResense(e) \/ IgnoreEvent(e)
             \/ handleSpendDetail(e) \/ handleCandidateConf(e) \/ handleCandidateActConf(e)
             \/ handleForeclosureActConf(e) \/ markCandidateOffChain(e)

Sense ==
    \/ LoopTask
    \/ Sweep
    \/ \E e \in inflight : Handle(e) \/ HandlerFails(e)
    \/ BlockConnected
    \/ ChainReorged
    \/ \E a \in Anchorings : Register(a) \/ Attach(a) \/ StreamBroken(a)
    \/ Restart

Next == Sense \/ \E a \in Anchorings : Deliver(a)

\* The sensing loop runs its tasks, takes waiting events and sweeps on its
\* ticker; the delivery loop retries every lagging delivery until it commits.
Fairness ==
    /\ WF_vars(LoopTask)
    /\ WF_vars(\E e \in inflight : Handle(e))
    /\ WF_vars(Sweep)
    /\ \A a \in Anchorings : WF_vars(Deliver(a))

SensingSpec == Init /\ [][Sense]_vars
Spec == Init /\ [][Next]_vars
RegisteredSpec == InitRegistered /\ [][Next]_vars
FairSpec == RegisteredSpec /\ Fairness
RegisteringFairSpec == Spec /\ Fairness

-----------------------------------------------------------------------------
(* Properties. *)

Witnesses == [tx : Txs \cup {0}, height : Nat, block : Nat]
Candidates == [verdict : Verdicts, w : Witnesses, onChain : BOOLEAN, act : BOOLEAN]
Foreclosures == [parent : Anchorings \cup {0}, w : Witnesses, onChain : BOOLEAN, act : BOOLEAN]
PhaseType == [code : PhaseCodes, w : Witnesses, foreign : SUBSET Witnesses,
              parent : Anchorings \cup {0}]
SubType == [kind : {"loc", "act", "fc"}, tx : Txs, parent : Anchorings \cup {0}, hidden : BOOLEAN]
EventType == [type : {"sense", "stop", "resense", "spend", "loc", "act", "fc", "lost"},
              id : Anchorings, w : Witnesses, parent : Anchorings \cup {0}]
TaskType == [op : {"adopt", "sweep", "verify", "rederive", "own", "kids"}, id : Anchorings \cup {0},
             trigs : UNION {[S -> SUBSET OutPoints] : S \in SUBSET Anchorings},
             phase : PhaseType, todo : SUBSET Anchorings]
ChainType == Seq([txs : SUBSET Txs, hash : Nat])
SensorType == [st : {"off", "starting", "on"}, watched : SUBSET OutPoints,
               cached : SUBSET OutPoints, subs : SUBSET SubType,
               pending : [Txs -> Verdicts], streams : BOOLEAN]

\* The type invariant.
TypeOK ==
    /\ chain \in ChainType /\ orphaned \subseteq ChainType /\ reorgs \in Nat
    /\ registered \subseteq Anchorings
    /\ triggers \in [Anchorings -> SUBSET OutPoints]
    /\ createdHeight \in [Anchorings -> Nat]
    /\ DOMAIN phase = Anchorings /\ DOMAIN delivered = Anchorings
    /\ \A a \in Anchorings : {phase[a], delivered[a]} \subseteq PhaseType
    /\ spends \in [Anchorings -> [Txs -> Candidates]]
    /\ edges \in [Anchorings -> [Anchorings -> [form : Txs \cup {0}, fc : Foreclosures]]]
    /\ DOMAIN sensors = Anchorings
    /\ \A a \in Anchorings : sensors[a] \in SensorType
    /\ inflight \subseteq EventType
    /\ loop \in Seq(TaskType)
    /\ faults \in 0..MaxFaults

\* No anchoring is buried or abandoned on a chain state that never existed:
\* whatever order events arrive in, the witness of a terminal phase once held
\* the anchoring's threshold depth on the dominant chain.
ActEvidence ==
    \A a \in Anchorings : IsTerminal(phase[a]) => HeldDepth(phase[a].w, Threshold[a])

\* The branch of DerivePhase that withholds contradictory certifications is
\* never needed: an anchoring is not certified both ways, even by re-orgs
\* deeper than its threshold.
NoContradiction ==
    \A a \in Anchorings :
        Certified(SpendsWith(spends[a], "satisfies")) = {} \/ Certified(SpendsWith(spends[a], "foreign")) = {}

\* A recorded satisfying candidate spends the whole trigger set, also when
\* the set grew while the verdict was pending.
WholeSet ==
    \A a \in Anchorings, t \in Txs :
        spends[a][t].verdict = "satisfies" => triggers[a] \subseteq TxSpends[t]

\* What the dominant chain says of an anchoring's triggers right now.
ChainSpends(a) ==
    [t \in Txs |->
        IF Confirmed(chain, t) /\ t \notin Unwatchable
           /\ (TxSpends[t] \cap triggers[a] # {} \/ spends[a][t] # NoSpend)
        THEN [verdict |-> IF triggers[a] \subseteq TxSpends[t] /\ t \in Satisfying[a]
                          THEN "satisfies" ELSE "foreign",
              w |-> findTx(chain, t), onChain |-> TRUE,
              act |-> HoldsDepth(chain, findTx(chain, t), Threshold[a])]
        ELSE NoSpend]

\* The staged foreclosing transaction is as deep as the child needs it.
ForeclosureDue(a) ==
    \E p \in Anchorings : LET fc == edges[a][p].fc IN
        fc # NoForeclosure /\ Confirmed(chain, fc.w.tx)
        /\ HoldsDepth(chain, findTx(chain, fc.w.tx), Threshold[a])

\* The sensed phase is the one the dominant chain derives, or is final.
Current(a) ==
    IsTerminal(phase[a]) \/ /\ phase[a] = DerivePhase(ChainSpends(a), NoForeclosure)
                            /\ ~ForeclosureDue(a)

Quiet(a) ==
    /\ Idle /\ Sensing(a) /\ sensors[a].streams
    /\ sensors[a].watched = triggers[a]
    /\ \A e \in inflight : e.id # a

\* There is no silent gap: a running sensor with nothing in flight has sensed
\* the phase the chain is in, whatever was lost, reordered or raced before.
QuietMeansCurrent == \A a \in LiveAnchorings : Quiet(a) => Current(a)

\* Between a quiet child and a quiet parent the edge carries on-chain
\* foreclosing evidence exactly while the parent is witnessed in another form
\* than the one depended on, and it is that witness: no restage of
\* restageDependentForeclosures and no edge derived at registration is lost.
StagingCurrent ==
    \A p \in registered : \A c \in DependencyEdges(p) :
        LET fc == edges[c][p].fc
        IN  Quiet(p) /\ Quiet(c) /\ ~fc.act =>
                /\ fc.onChain <=> phase[p].code = "witnessed" /\ phase[p].w.tx # edges[c][p].form
                /\ fc.onChain => fc.w = phase[p].w

\* Finality: a terminal phase, sensed or delivered, a certification and a
\* certified edge are never taken back.
FinalityStep ==
    \A a \in Anchorings :
        /\ IsTerminal(phase[a]) => phase'[a] = phase[a]
        /\ IsTerminal(delivered[a]) => delivered'[a] = delivered[a]
        /\ \A t \in Txs : spends[a][t].act => spends'[a][t].act
        /\ \A p \in Anchorings : edges[a][p].fc.act => edges'[a][p] = edges[a][p]
Finality == [][FinalityStep]_vars

\* Once the chain and the faults calm down, every anchoring is sensed in the
\* phase of the chain and every site has converged to it.
Convergence == <>[](\A a \in registered : Current(a) /\ delivered[a] = phase[a])

=============================================================================
