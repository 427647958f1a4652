--------------------------- MODULE Delivery_proofs ---------------------------
(***************************************************************************)
(* Proofs about the delivery of outcomes and about those it serves: the    *)
(* delivery and outbox loops (Delivery), the waiters a delivery wakes      *)
(* (Waiters) and the porter that puts its transfers under protection       *)
(* (Protection), for any number of anchorings, phases, effects, phase      *)
(* changes and failures.                                                   *)
(***************************************************************************)
EXTENDS Delivery, Waiters, Protection, TLAPS

\* backoffFor never exceeds the cap.
LEMMA BackoffCapped == ASSUME NEW n \in Nat PROVE backoffFor(n) \in 0..MaxBackoff
BY DeliveryConstants DEF backoffFor

\* Counting an attempt stays in the naturals.
LEMMA Incremented ==
    ASSUME NEW S, NEW f \in [S -> Nat], NEW a \in S
    PROVE  [f EXCEPT ![a] = @ + 1] \in [S -> Nat]
OBVIOUS

\* An effect the handler enqueues is a well-formed row, and one that is
\* fetched again or marked stays one.
LEMMA EffectTypes ==
    /\ \A a \in Anchorings, p \in EffectPhases : NewEffect(a, p) \in EffectRows
    /\ \A x \in EffectRows : [x EXCEPT !.st = "dispatched"] \in EffectRows
    /\ \A x \in EffectRows, w \in 0..MaxBackoff : Failed(x, w) \in EffectRows
    /\ \A x \in EffectRows : x # NoEffect
<1>1. \A a \in Anchorings, p \in EffectPhases : NewEffect(a, p) \in EffectRows
  BY DeliveryConstants DEF NewEffect, EffectRows
<1>2. \A x \in EffectRows : [x EXCEPT !.st = "dispatched"] \in EffectRows
  BY Zenon DEF EffectRows
<1>3. ASSUME NEW x \in EffectRows, NEW w \in 0..MaxBackoff
      PROVE  Failed(x, w) \in EffectRows
  BY DEF Failed, EffectRows
<1>4. ASSUME NEW x \in EffectRows PROVE x # NoEffect
  <2>1. x.st # "none"
    BY Zenon DEF EffectRows
  <2> QED
    BY <2>1 DEF NoEffect
<1> QED
  BY Zenon, <1>1, <1>2, <1>3, <1>4

\* What a handler writes is well typed, and it leaves every effect that was
\* already enqueued alone.
LEMMA HandlerTypes ==
    ASSUME TypeOK, NEW a \in Anchorings, NEW p \in AllPhases, Handler(a, p)
    PROVE  /\ site' \in [Anchorings -> AllPhases]
           /\ outbox' \in [Effects -> EffectRows \cup {NoEffect}]
           /\ ready' \in SUBSET Effects
           /\ \A e \in Effects : outbox[e] # NoEffect => outbox'[e] = outbox[e]
<1>1. site' \in [Anchorings -> AllPhases]
  BY Zenon DEF Handler, TypeOK
<1>2. CASE p \notin EffectPhases
  BY Zenon, <1>1, <1>2 DEF Handler, TypeOK
<1>3. CASE p \in EffectPhases
  <2>1. PICK e \in Effects :
          /\ outbox[e] = NoEffect
          /\ outbox' = [outbox EXCEPT ![e] = NewEffect(a, p)]
          /\ ready' \in {ready, ready \cup {e}}
    BY Zenon, <1>3 DEF Handler
  <2>2. NewEffect(a, p) \in EffectRows
    BY Zenon, <1>3, EffectTypes
  <2>3. outbox' \in [Effects -> EffectRows \cup {NoEffect}]
    BY Zenon, <2>1, <2>2 DEF TypeOK
  <2>4. ready' \in SUBSET Effects
    BY Zenon, <2>1 DEF TypeOK
  <2>5. \A d \in Effects : outbox[d] # NoEffect => outbox'[d] = outbox[d]
    BY Zenon, <2>1 DEF TypeOK
  <2> QED
    BY Zenon, <1>1, <2>3, <2>4, <2>5
<1> QED
  BY Zenon, <1>2, <1>3

\* TypeOK alone is not inductive: a fetched effect must exist, for marking it
\* or recording its failure to leave a well-formed row.
LEMMA TypesAndFetched == Spec => [](TypeOK /\ FetchedExist)
<1> USE DeliveryConstants
<1>1. Init => TypeOK /\ FetchedExist
  BY DEF Init, TypeOK, FetchedExist, AllPhases, ScannedRows
<1>2. TypeOK /\ FetchedExist /\ [Next]_vars => TypeOK' /\ FetchedExist'
  <2> SUFFICES ASSUME TypeOK, FetchedExist, [Next]_vars PROVE TypeOK' /\ FetchedExist'
    BY Zenon
  <2>1. CASE Tick
    <3>1. wait' \in [Anchorings -> 0..MaxBackoff]
      BY <2>1 DEF Tick, TypeOK
    <3>2. ASSUME NEW e \in Effects
          PROVE  /\ outbox'[e] \in EffectRows \cup {NoEffect}
                 /\ outbox[e] # NoEffect => outbox'[e] # NoEffect
      <4>0. outbox'[e] = IF outbox[e].wait > 0 THEN [outbox[e] EXCEPT !.wait = @ - 1]
                         ELSE outbox[e]
        BY Zenon, <2>1 DEF Tick
      <4>1. CASE outbox[e] = NoEffect
        BY <4>0, <4>1 DEF NoEffect
      <4>2. CASE outbox[e] \in EffectRows
        <5>1. outbox'[e] \in EffectRows
          BY <4>0, <4>2 DEF EffectRows
        <5> QED
          BY Zenon, <5>1, EffectTypes
      <4> QED
        BY ZenonT(30), <4>1, <4>2 DEF TypeOK
    <3>3. outbox' \in [Effects -> EffectRows \cup {NoEffect}]
      BY Zenon, <2>1, <3>2 DEF Tick
    <3>4. TypeOK'
      BY Zenon, <2>1, <3>1, <3>3 DEF Tick, TypeOK, loopVars
    <3>5. FetchedExist'
      BY Zenon, <2>1, <3>2 DEF Tick, TypeOK, FetchedExist
    <3> QED
      BY Zenon, <3>4, <3>5
  <2>2. ASSUME NEW a \in Anchorings, SetPhase(a) PROVE TypeOK' /\ FetchedExist'
    BY <2>2 DEF SetPhase, TypeOK, FetchedExist, loopVars, outboxVars
  <2>3. ASSUME NEW a \in Anchorings, Reconcile(a) PROVE TypeOK' /\ FetchedExist'
    <3>1. Handler(a, delivered[a]) /\ delivered[a] \in AllPhases
      BY Zenon, <2>3 DEF Reconcile, TypeOK
    <3>2. TypeOK'
      BY <2>3, <3>1, HandlerTypes DEF Reconcile, TypeOK, loopVars
    <3>3. FetchedExist'
      BY Zenon, <2>3, <3>1, HandlerTypes DEF Reconcile, TypeOK, FetchedExist
    <3> QED
      BY Zenon, <3>2, <3>3
  <2>4. CASE Scan
    BY <2>4 DEF Scan, TypeOK, FetchedExist, rowVars, outboxVars, Pending, ScannedRows
  <2>5. ASSUME NEW r \in pass, Deliver(r) PROVE TypeOK' /\ FetchedExist'
    <3>1. r.id \in Anchorings /\ r.target \in AllPhases /\ Handler(r.id, r.target)
      BY Zenon, <2>5 DEF TypeOK, ScannedRows, Deliver
    <3>2. /\ delivered' \in [Anchorings -> AllPhases]
          /\ attempts' \in [Anchorings -> Nat]
          /\ wait' \in [Anchorings -> 0..MaxBackoff]
      BY <2>5, <3>1 DEF Deliver, TypeOK
    <3>3. stuck' \in [Anchorings -> BOOLEAN]
      BY Zenon, <2>5, <3>1 DEF Deliver, TypeOK
    <3>4. pass' \in SUBSET ScannedRows /\ failed' \in SUBSET ScannedRows
      BY Zenon, <2>5 DEF Deliver, TypeOK
    <3>t. /\ site' \in [Anchorings -> AllPhases]
          /\ outbox' \in [Effects -> EffectRows \cup {NoEffect}]
          /\ ready' \in SUBSET Effects
      BY ZenonT(30), <3>1, HandlerTypes
    <3>5. TypeOK'
      BY <2>5, <3>2, <3>3, <3>4, <3>t DEF Deliver, TypeOK
    <3>6. FetchedExist'
      BY ZenonT(30), <2>5, <3>1, HandlerTypes DEF Deliver, TypeOK, FetchedExist
    <3> QED
      BY Zenon, <3>5, <3>6
  <2>6. ASSUME NEW r \in pass, DeliverStale(r) PROVE TypeOK' /\ FetchedExist'
    BY Zenon, <2>6 DEF DeliverStale, TypeOK, FetchedExist, rowVars, outboxVars
  <2>7. ASSUME NEW r \in failed, RecordDeliveryFailure(r) PROVE TypeOK' /\ FetchedExist'
    <3>1. r.id \in Anchorings /\ r.attempts + 1 \in Nat
      BY <2>7 DEF TypeOK, ScannedRows
    <3>2. wait' \in [Anchorings -> 0..MaxBackoff]
      <4> DEFINE w == backoffFor(r.attempts + 1)
      <4>1. w \in 0..MaxBackoff
        BY Zenon, <3>1, BackoffCapped
      <4>2. wait' = [wait EXCEPT ![r.id] = w]
        BY Zenon, <2>7 DEF RecordDeliveryFailure
      <4> HIDE DEF w
      <4> QED
        BY ZenonT(30), <4>1, <4>2 DEF TypeOK
    <3>3. attempts' \in [Anchorings -> Nat]
      <4>1. attempts' = [attempts EXCEPT ![r.id] = @ + 1]
        BY Zenon, <2>7 DEF RecordDeliveryFailure
      <4>2. attempts \in [Anchorings -> Nat]
        BY Zenon DEF TypeOK
      <4> QED
        BY ZenonT(30), <3>1, <4>1, <4>2, Incremented
    <3>4. stuck' \in [Anchorings -> BOOLEAN]
      <4> DEFINE b == r.attempts + 1 >= StuckAfterAttempts
      <4>1. b \in BOOLEAN
        OBVIOUS
      <4>2. stuck' = [stuck EXCEPT ![r.id] = b]
        BY Zenon, <2>7 DEF RecordDeliveryFailure
      <4> HIDE DEF b
      <4> QED
        BY ZenonT(30), <4>1, <4>2 DEF TypeOK
    <3>5. failed' = {}
      BY Zenon, <2>7 DEF RecordDeliveryFailure
    <3> QED
      BY <2>7, <3>2, <3>3, <3>4, <3>5 DEF RecordDeliveryFailure, TypeOK, FetchedExist, outboxVars
  <2>8. CASE RecordFails
    BY <2>8 DEF RecordFails, Fails, TypeOK, FetchedExist, rowVars, outboxVars
  <2>9. ASSUME NEW r \in pass, DeliverFails(r) PROVE TypeOK' /\ FetchedExist'
    BY <2>9 DEF DeliverFails, Fails, TypeOK, FetchedExist, rowVars, outboxVars
  <2>10. CASE FetchEffects
    BY <2>10 DEF FetchEffects, Due, TypeOK, FetchedExist, NoEffect, rowVars, loopVars
  <2>11. ASSUME NEW e \in Effects, DispatchEffect(e) PROVE TypeOK' /\ FetchedExist'
    BY ZenonT(30), <2>11 DEF DispatchEffect, EffectTurn, TypeOK, FetchedExist, rowVars, loopVars
  <2>12. ASSUME NEW e \in Effects, EffectNotReady(e) PROVE TypeOK' /\ FetchedExist'
    BY Zenon, <2>12 DEF EffectNotReady, TypeOK, FetchedExist, rowVars, loopVars
  <2>13. CASE MarkFails
    BY <2>13 DEF MarkFails, Fails, TypeOK, FetchedExist, rowVars, loopVars
  <2>14. ASSUME NEW e \in Effects, BecomeReady(e) PROVE TypeOK' /\ FetchedExist'
    BY Zenon, <2>14 DEF BecomeReady, TypeOK, FetchedExist, rowVars, loopVars
  <2>15. CASE Restart
    BY <2>15 DEF Restart, Fails, TypeOK, FetchedExist, rowVars
  <2>16. CASE UNCHANGED vars
    BY Zenon, <2>16 DEF vars, rowVars, loopVars, outboxVars, TypeOK, FetchedExist
  <2>17. ASSUME NEW e \in Effects, MarkEffectDispatched(e) PROVE TypeOK' /\ FetchedExist'
    <3>1. outbox[e] \in EffectRows
      BY Zenon, <2>17 DEF MarkEffectDispatched, TypeOK, FetchedExist
    <3>2. [outbox[e] EXCEPT !.st = "dispatched"] \in EffectRows
      BY Zenon, <3>1, EffectTypes
    <3>3. outbox' \in [Effects -> EffectRows \cup {NoEffect}] /\ outbox'[e] \in EffectRows
      BY Zenon, <2>17, <3>2 DEF MarkEffectDispatched, TypeOK
    <3>4. TypeOK'
      BY Zenon, <2>17, <3>3 DEF MarkEffectDispatched, TypeOK, rowVars, loopVars
    <3>5. FetchedExist'
      BY Zenon, <2>17, <3>3, EffectTypes DEF MarkEffectDispatched, TypeOK, FetchedExist
    <3> QED
      BY Zenon, <3>4, <3>5
  <2>18. ASSUME NEW e \in Effects, EffectFails(e) PROVE TypeOK' /\ FetchedExist'
    <3>1. outbox[e] \in EffectRows
      BY ZenonT(30), <2>18 DEF EffectFails, EffectTurn, TypeOK, FetchedExist
    <3> DEFINE w == backoffFor(outbox[e].attempts + 1)
    <3>2. w \in 0..MaxBackoff
      BY <3>1, BackoffCapped DEF EffectRows
    <3>3. outbox' = [outbox EXCEPT ![e] = Failed(outbox[e], w)]
      BY Zenon, <2>18 DEF EffectFails
    <3> HIDE DEF w
    <3>4. Failed(outbox[e], w) \in EffectRows
      BY Zenon, <3>1, <3>2, EffectTypes
    <3>5. outbox' \in [Effects -> EffectRows \cup {NoEffect}] /\ outbox'[e] \in EffectRows
      BY Zenon, <3>3, <3>4 DEF TypeOK
    <3>6. \A d \in Effects \ {e} : outbox'[d] = outbox[d]
      BY Zenon, <3>3 DEF TypeOK
    <3>7. TypeOK'
      BY <2>18, <3>5 DEF EffectFails, Fails, TypeOK, rowVars, loopVars
    <3>8. FetchedExist'
      BY Zenon, <2>18, <3>5, <3>6, EffectTypes DEF EffectFails, TypeOK, FetchedExist
    <3> QED
      BY Zenon, <3>7, <3>8
  <2> QED
    BY ZenonT(30), <2>1, <2>2, <2>3, <2>4, <2>5, <2>6, <2>7, <2>8, <2>9, <2>10, <2>11, <2>12, <2>13,
       <2>14, <2>15, <2>16, <2>17, <2>18 DEF Next, DeliveryStep, OutboxStep
<1> QED
  BY <1>1, <1>2, PTL DEF Spec

\* The rows, the passes and the outbox are well typed, and no backoff exceeds
\* MaxDeliveryBackoff, in every behaviour of the two loops.
THEOREM TypeCorrect == Spec => []TypeOK
BY TypesAndFetched, PTL

\* What a site's own state reflects and what the registry has recorded as
\* delivered agree in every state: a handler's writes and the delivery are
\* one transaction, and nothing that fails around it tears them apart.
THEOREM SitesNeverDiverge == Spec => []SiteMatchesRegistry
<1>1. Init => SiteMatchesRegistry
  BY Zenon DEF Init, SiteMatchesRegistry
<1>2. TypeOK /\ SiteMatchesRegistry /\ [Next]_vars => SiteMatchesRegistry'
  <2> SUFFICES ASSUME TypeOK, SiteMatchesRegistry, [Next]_vars PROVE SiteMatchesRegistry'
    BY Zenon
  <2>1. ASSUME NEW a \in Anchorings, Reconcile(a) PROVE SiteMatchesRegistry'
    BY Zenon, <2>1 DEF Reconcile, Handler, SiteMatchesRegistry, TypeOK
  <2>2. ASSUME NEW r \in pass, Deliver(r) PROVE SiteMatchesRegistry'
    BY Zenon, <2>2 DEF Deliver, Handler, SiteMatchesRegistry
  <2>3. CASE UNCHANGED <<site, delivered>>
    BY Zenon, <2>3 DEF SiteMatchesRegistry
  <2> QED
    BY Zenon, <2>1, <2>2, <2>3 DEF Next, DeliveryStep, OutboxStep, vars, rowVars, Tick, SetPhase, Scan,
       DeliverStale, DeliverFails, RecordDeliveryFailure, RecordFails, FetchEffects,
       DispatchEffect, MarkEffectDispatched, MarkFails, EffectNotReady, EffectFails,
       BecomeReady, Restart
<1> QED
  BY <1>1, <1>2, TypeCorrect, PTL DEF Spec

\* An effect is marked dispatched only after it was carried out, across
\* failed marks, retries and restarts: the loop may repeat an effect, and
\* never skips one.
THEOREM EffectsAtLeastOnce == Spec => []AtLeastOnce
<1> DEFINE PerformedDone == performed \subseteq done
<1>1. Init => AtLeastOnce /\ PerformedDone
  BY DEF Init, AtLeastOnce, NoEffect
<1>2. TypeOK /\ FetchedExist /\ AtLeastOnce /\ PerformedDone /\ [Next]_vars
      => AtLeastOnce' /\ PerformedDone'
  <2> SUFFICES ASSUME TypeOK, FetchedExist, AtLeastOnce, PerformedDone, [Next]_vars
               PROVE  AtLeastOnce' /\ PerformedDone'
    BY Zenon
  <2> DEFINE Quiet == done' = done /\ performed' \in {performed, {}}
  <2> DEFINE SameMarks == \A e \in Effects : outbox'[e].st = "dispatched" => outbox[e].st = "dispatched"
  <2>0. ASSUME Quiet, SameMarks PROVE AtLeastOnce' /\ PerformedDone'
    BY Zenon, <2>0 DEF AtLeastOnce
  <2>1. CASE Tick
    <3>1. SameMarks
      <4> SUFFICES ASSUME NEW e \in Effects PROVE outbox'[e].st = outbox[e].st
        BY Zenon
      <4>1. outbox'[e] = IF outbox[e].wait > 0 THEN [outbox[e] EXCEPT !.wait = @ - 1] ELSE outbox[e]
        BY Zenon, <2>1 DEF Tick
      <4>2. outbox[e] \in EffectRows \cup {NoEffect}
        BY Zenon DEF TypeOK
      <4> QED
        BY Zenon, <4>1, <4>2 DEF EffectRows, NoEffect
    <3> QED
      BY Zenon, <2>0, <2>1, <3>1 DEF Tick
  <2>2. ASSUME NEW a \in Anchorings, NEW p \in AllPhases, Handler(a, p) PROVE SameMarks
    <3>1. CASE p \notin EffectPhases
      BY Zenon, <2>2, <3>1 DEF Handler
    <3>2. CASE p \in EffectPhases
      <4>1. PICK e \in Effects : outbox' = [outbox EXCEPT ![e] = NewEffect(a, p)]
        BY Zenon, <2>2, <3>2 DEF Handler
      <4>2. NewEffect(a, p).st = "pending"
        BY Zenon DEF NewEffect
      <4> QED
        BY Zenon, <4>1, <4>2 DEF TypeOK
    <3> QED
      BY Zenon, <3>1, <3>2
  <2>3. ASSUME NEW a \in Anchorings, Reconcile(a) PROVE AtLeastOnce' /\ PerformedDone'
    <3>1. Handler(a, delivered[a]) /\ delivered[a] \in AllPhases
      BY Zenon, <2>3 DEF Reconcile, TypeOK
    <3> QED
      BY Zenon, <2>0, <2>2, <2>3, <3>1 DEF Reconcile
  <2>4. ASSUME NEW r \in pass, Deliver(r) PROVE AtLeastOnce' /\ PerformedDone'
    <3>1. Handler(r.id, r.target) /\ r.id \in Anchorings /\ r.target \in AllPhases
      BY Zenon, <2>4 DEF Deliver, TypeOK, ScannedRows
    <3> QED
      BY Zenon, <2>0, <2>2, <2>4, <3>1 DEF Deliver
  <2>5. ASSUME NEW e \in Effects, DispatchEffect(e) PROVE AtLeastOnce' /\ PerformedDone'
    BY Zenon, <2>5 DEF DispatchEffect, AtLeastOnce
  <2>6. ASSUME NEW e \in Effects, MarkEffectDispatched(e) PROVE AtLeastOnce' /\ PerformedDone'
    <3>1. \A d \in Effects \ {e} : outbox'[d] = outbox[d]
      BY Zenon, <2>6 DEF MarkEffectDispatched, TypeOK
    <3> QED
      BY Zenon, <2>6, <3>1 DEF MarkEffectDispatched, AtLeastOnce
  <2>7. ASSUME NEW e \in Effects, EffectFails(e) PROVE AtLeastOnce' /\ PerformedDone'
    <3> DEFINE w == backoffFor(outbox[e].attempts + 1)
    <3>1. outbox' = [outbox EXCEPT ![e] = Failed(outbox[e], w)]
      BY Zenon, <2>7 DEF EffectFails
    <3> HIDE DEF w
    <3>2. Failed(outbox[e], w).st = outbox[e].st
      BY Zenon DEF Failed
    <3>3. SameMarks
      BY Zenon, <3>1, <3>2 DEF TypeOK
    <3> QED
      BY Zenon, <2>0, <2>7, <3>3 DEF EffectFails
  <2>8. CASE UNCHANGED <<outbox, done>> /\ performed' \in {performed, {}}
    BY Zenon, <2>0, <2>8
  <2> QED
    BY ZenonT(30), <2>1, <2>3, <2>4, <2>5, <2>6, <2>7, <2>8 DEF Next, DeliveryStep, OutboxStep, vars,
       outboxVars, SetPhase, Scan, DeliverStale, DeliverFails, RecordDeliveryFailure,
       RecordFails, FetchEffects, MarkFails, EffectNotReady, BecomeReady, Restart
<1> QED
  BY <1>1, <1>2, TypesAndFetched, PTL DEF Spec

\* An effect of phase p was enqueued for anchoring a.
Enqueued(a, p) == \E e \in Effects : outbox[e].id = a /\ outbox[e].phase = p /\ outbox[e] # NoEffect

\* A handler enqueues at most the effect of its own anchoring and phase.
LEMMA HandlerEnqueues ==
    ASSUME TypeOK, NEW a \in Anchorings, NEW p \in AllPhases, Handler(a, p),
           NEW b \in Anchorings, NEW q \in EffectPhases
    PROVE  Enqueued(b, q)' <=> Enqueued(b, q) \/ (a = b /\ p = q)
<1>1. CASE p \notin EffectPhases
  BY Zenon, <1>1 DEF Handler, Enqueued
<1>2. CASE p \in EffectPhases
  <2>1. PICK e \in Effects :
          /\ outbox[e] = NoEffect
          /\ outbox' = [outbox EXCEPT ![e] = NewEffect(a, p)]
    BY Zenon, <1>2 DEF Handler
  <2>2. /\ outbox'[e] = NewEffect(a, p)
        /\ \A d \in Effects \ {e} : outbox'[d] = outbox[d]
    BY Zenon, <2>1 DEF TypeOK
  <2>3. /\ NewEffect(a, p).id = a /\ NewEffect(a, p).phase = p
        /\ NewEffect(a, p) # NoEffect
    BY Zenon, <1>2, EffectTypes DEF NewEffect
  <2> QED
    BY Zenon, <2>1, <2>2, <2>3 DEF Enqueued
<1> QED
  BY Zenon, <1>1, <1>2

\* An effect that keeps its anchoring and its phase stays enqueued.
LEMMA KeptEnqueued ==
    ASSUME \A e \in Effects : /\ outbox'[e].id = outbox[e].id
                              /\ outbox'[e].phase = outbox[e].phase
                              /\ outbox'[e] = NoEffect <=> outbox[e] = NoEffect
    PROVE  \A a, p : Enqueued(a, p)' <=> Enqueued(a, p)
BY Zenon DEF Enqueued

\* The effects of a terminal phase are in the outbox exactly when the phase
\* was delivered.  A terminal phase is delivered once: whatever is delivered
\* and terminal is still the sensed phase, because SetPhase leaves terminal
\* rows alone.
THEOREM EffectsFollowDeliveries == Spec => []EffectsMatchDeliveries
<1> DEFINE Settled == \A a \in Anchorings : delivered[a] \in FinalPhases => phase[a] = delivered[a]
<1> USE DeliveryConstants
<1>1. Init => EffectsMatchDeliveries /\ Settled
  BY Zenon DEF Init, EffectsMatchDeliveries
<1>2. TypeOK /\ FetchedExist /\ EffectsMatchDeliveries /\ Settled /\ [Next]_vars
      => EffectsMatchDeliveries' /\ Settled'
  <2> SUFFICES ASSUME TypeOK, FetchedExist, EffectsMatchDeliveries, Settled, [Next]_vars
               PROVE  EffectsMatchDeliveries' /\ Settled'
    BY ZenonT(30)
  <2> DEFINE Kept == \A e \in Effects : /\ outbox'[e].id = outbox[e].id
                                        /\ outbox'[e].phase = outbox[e].phase
                                        /\ outbox'[e] = NoEffect <=> outbox[e] = NoEffect
  <2>e. \A b \in Anchorings, q \in FinalPhases \cap EffectPhases :
          delivered[b] = q <=> Enqueued(b, q)
    BY Zenon DEF EffectsMatchDeliveries, Enqueued
  <2>0. ASSUME Kept, UNCHANGED <<phase, delivered>> PROVE EffectsMatchDeliveries' /\ Settled'
    <3>1. \A a, p : Enqueued(a, p)' <=> Enqueued(a, p)
      BY Zenon, <2>0, KeptEnqueued
    <3>2. EffectsMatchDeliveries'
      <4> SUFFICES ASSUME NEW b \in Anchorings, NEW q \in FinalPhases \cap EffectPhases
                   PROVE  delivered'[b] = q <=> Enqueued(b, q)'
        BY ZenonT(30) DEF EffectsMatchDeliveries, Enqueued
      <4>1. delivered[b] = q <=> Enqueued(b, q)
        BY <2>e, Zenon
      <4> QED
        BY Zenon, <2>0, <3>1, <4>1
    <3> QED
      BY Zenon, <2>0, <3>2
  <2>1. CASE Tick
    <3> SUFFICES ASSUME NEW e \in Effects
                 PROVE  /\ outbox'[e].id = outbox[e].id
                        /\ outbox'[e].phase = outbox[e].phase
                        /\ outbox'[e] = NoEffect <=> outbox[e] = NoEffect
      BY Zenon, <2>0, <2>1 DEF Tick
    <3>1. outbox'[e] = IF outbox[e].wait > 0 THEN [outbox[e] EXCEPT !.wait = @ - 1] ELSE outbox[e]
      BY Zenon, <2>1 DEF Tick
    <3>2. CASE outbox[e] = NoEffect
      BY <3>1, <3>2 DEF NoEffect
    <3>3. CASE outbox[e] \in EffectRows
      <4>1. outbox'[e] \in EffectRows
        BY <3>1, <3>3 DEF EffectRows
      <4>2. outbox'[e].id = outbox[e].id /\ outbox'[e].phase = outbox[e].phase
        BY Zenon, <3>1, <3>3 DEF EffectRows
      <4> QED
        BY Zenon, <3>3, <4>1, <4>2, EffectTypes
    <3> QED
      BY ZenonT(30), <3>2, <3>3 DEF TypeOK
  <2>2. ASSUME NEW a \in Anchorings, SetPhase(a) PROVE EffectsMatchDeliveries' /\ Settled'
    BY <2>2 DEF SetPhase, outboxVars, EffectsMatchDeliveries, TypeOK
  <2>3. ASSUME NEW a \in Anchorings, Reconcile(a) PROVE EffectsMatchDeliveries' /\ Settled'
    <3>1. Handler(a, delivered[a]) /\ delivered[a] \in AllPhases
      BY Zenon, <2>3 DEF Reconcile, TypeOK
    <3>2. \A b \in Anchorings, q \in FinalPhases \cap EffectPhases :
            Enqueued(b, q)' <=> Enqueued(b, q) \/ (a = b /\ delivered[a] = q)
      BY ZenonT(30), <3>1, HandlerEnqueues
    <3>3. UNCHANGED <<phase, delivered>>
      BY Zenon, <2>3 DEF Reconcile
    <3>4. EffectsMatchDeliveries'
      <4> SUFFICES ASSUME NEW b \in Anchorings, NEW q \in FinalPhases \cap EffectPhases
                   PROVE  delivered'[b] = q <=> Enqueued(b, q)'
        BY ZenonT(30) DEF EffectsMatchDeliveries, Enqueued
      <4>1. delivered[b] = q <=> Enqueued(b, q)
        BY <2>e, Zenon
      <4>2. Enqueued(b, q)' <=> Enqueued(b, q) \/ (a = b /\ delivered[a] = q)
        BY <3>2, Zenon
      <4>3. delivered'[b] = delivered[b]
        BY Zenon, <3>3
      <4> QED
        BY <4>1, <4>2, <4>3, Zenon
    <3> QED
      BY Zenon, <3>3, <3>4
  <2>4. ASSUME NEW r \in pass, Deliver(r) PROVE EffectsMatchDeliveries' /\ Settled'
    <3>1. r.id \in Anchorings /\ r.target \in AllPhases /\ Handler(r.id, r.target)
      BY Zenon, <2>4 DEF Deliver, TypeOK, ScannedRows
    <3>2. \A b \in Anchorings, q \in FinalPhases \cap EffectPhases :
            Enqueued(b, q)' <=> Enqueued(b, q) \/ (r.id = b /\ r.target = q)
      BY ZenonT(30), <3>1, HandlerEnqueues
    <3>3. /\ phase[r.id] = r.target /\ delivered[r.id] # r.target /\ phase' = phase
          /\ \A b \in Anchorings : delivered'[b] = IF b = r.id THEN r.target ELSE delivered[b]
      BY Zenon, <2>4, <3>1 DEF Deliver, TypeOK
    <3>4. delivered[r.id] \notin FinalPhases
      BY ZenonT(30), <3>1, <3>3
    <3>5. Settled'
      BY Zenon, <3>1, <3>3
    <3>6. EffectsMatchDeliveries'
      <4> SUFFICES ASSUME NEW b \in Anchorings, NEW q \in FinalPhases \cap EffectPhases
                   PROVE  delivered'[b] = q <=> Enqueued(b, q)'
        BY ZenonT(30) DEF EffectsMatchDeliveries, Enqueued
      <4>1. delivered[b] = q <=> Enqueued(b, q)
        BY <2>e, Zenon
      <4> QED
        BY ZenonT(30), <3>2, <3>3, <3>4, <4>1
    <3> QED
      BY Zenon, <3>5, <3>6
  <2>5. ASSUME NEW e \in Effects, MarkEffectDispatched(e) PROVE EffectsMatchDeliveries' /\ Settled'
    <3>1. outbox[e] \in EffectRows
      BY Zenon, <2>5 DEF MarkEffectDispatched, TypeOK, FetchedExist
    <3> DEFINE x == [outbox[e] EXCEPT !.st = "dispatched"]
    <3>2. x \in EffectRows /\ x.id = outbox[e].id /\ x.phase = outbox[e].phase
      BY Zenon, <3>1 DEF EffectRows
    <3>3. outbox' = [outbox EXCEPT ![e] = x]
      BY Zenon, <2>5 DEF MarkEffectDispatched
    <3> HIDE DEF x
    <3>4. outbox'[e] = x /\ \A d \in Effects \ {e} : outbox'[d] = outbox[d]
      BY Zenon, <3>3 DEF TypeOK
    <3>5. Kept
      BY Zenon, <3>1, <3>2, <3>4, EffectTypes
    <3> QED
      BY Zenon, <2>0, <2>5, <3>5 DEF MarkEffectDispatched, rowVars
  <2>6. ASSUME NEW e \in Effects, EffectFails(e) PROVE EffectsMatchDeliveries' /\ Settled'
    <3>1. outbox[e] \in EffectRows
      BY ZenonT(30), <2>6 DEF EffectFails, EffectTurn, TypeOK, FetchedExist
    <3> DEFINE w == backoffFor(outbox[e].attempts + 1)
    <3>2. w \in 0..MaxBackoff
      BY <3>1, BackoffCapped DEF EffectRows
    <3>3. outbox' = [outbox EXCEPT ![e] = Failed(outbox[e], w)]
      BY Zenon, <2>6 DEF EffectFails
    <3> HIDE DEF w
    <3>4. /\ Failed(outbox[e], w) \in EffectRows
          /\ Failed(outbox[e], w).id = outbox[e].id
          /\ Failed(outbox[e], w).phase = outbox[e].phase
      BY Zenon, <3>1, <3>2, EffectTypes DEF Failed
    <3>5. outbox'[e] = Failed(outbox[e], w) /\ \A d \in Effects \ {e} : outbox'[d] = outbox[d]
      BY Zenon, <3>3 DEF TypeOK
    <3>6. Kept
      BY Zenon, <3>1, <3>4, <3>5, EffectTypes
    <3> QED
      BY Zenon, <2>0, <2>6, <3>6 DEF EffectFails, rowVars
  <2>7. CASE UNCHANGED <<phase, delivered, outbox>>
    BY Zenon, <2>0, <2>7
  <2> QED
    BY ZenonT(30), <2>1, <2>2, <2>3, <2>4, <2>5, <2>6, <2>7 DEF Next, DeliveryStep, OutboxStep, vars,
       rowVars, outboxVars, Scan, DeliverStale, DeliverFails, RecordDeliveryFailure,
       RecordFails, FetchEffects, DispatchEffect, MarkFails, EffectNotReady, BecomeReady, Restart
<1> QED
  BY <1>1, <1>2, TypesAndFetched, PTL DEF Spec

\* The delivery loop and its bookkeeping implement the promise of the
\* Registry interface: a site only ever moves to the phase sensed at that
\* moment, and a terminal phase is never left.
THEOREM DeliveryImplementsPromise == Spec => ImplementsPromise
<1>1. Init => Promise!Init
  BY Zenon DEF Init, Promise!Init
<1>2. TypeOK /\ SiteMatchesRegistry /\ [Next]_vars => [Promise!Next]_(Promise!vars)
  <2> SUFFICES ASSUME TypeOK, SiteMatchesRegistry, [Next]_vars
               PROVE [Promise!Next]_(Promise!vars)
    BY Zenon
  <2>1. ASSUME NEW a \in Anchorings, SetPhase(a) PROVE Promise!Next
    BY ZenonT(30), <2>1 DEF SetPhase, Promise!Next, Promise!SetPhase, AllPhases, Promise!AllPhases
  <2>2. ASSUME NEW r \in pass, Deliver(r) PROVE Promise!Next
    <3>1. r.id \in Anchorings
      BY Zenon, <2>2 DEF TypeOK, ScannedRows
    <3>2. Promise!Deliver(r.id)
      BY ZenonT(30), <2>2 DEF Deliver, Handler, SiteMatchesRegistry, Promise!Deliver
    <3> QED
      BY Zenon, <3>1, <3>2 DEF Promise!Next
  <2>3. CASE UNCHANGED <<phase, site>>
    BY Zenon, <2>3 DEF Promise!vars
  <2>4. CASE DeliveryStep
    <3>1. CASE \E r \in pass : Deliver(r)
      BY Zenon, <2>2, <3>1
    <3>2. CASE Scan \/ \E r \in pass : DeliverStale(r)
      BY ZenonT(30), <2>3, <3>2 DEF Scan, DeliverStale, rowVars
    <3>3. CASE \E r \in failed : RecordDeliveryFailure(r)
      BY Zenon, <2>3, <3>3 DEF RecordDeliveryFailure
    <3> QED
      BY Zenon, <2>4, <3>1, <3>2, <3>3 DEF DeliveryStep
  <2>5. CASE OutboxStep \/ MarkFails \/ \E e \in Effects : EffectFails(e) \/ BecomeReady(e)
    BY Zenon, <2>3, <2>5 DEF OutboxStep, FetchEffects, DispatchEffect, MarkEffectDispatched, MarkFails,
       EffectNotReady, EffectFails, BecomeReady, rowVars
  <2>6. CASE Tick \/ Restart \/ RecordFails \/ (\E r \in pass : DeliverFails(r))
             \/ UNCHANGED vars
    BY Zenon, <2>3, <2>6 DEF Tick, Restart, RecordFails, DeliverFails, rowVars, vars
  <2>7. ASSUME NEW a \in Anchorings, Reconcile(a) PROVE UNCHANGED <<phase, site>>
    BY Zenon, <2>7 DEF Reconcile, Handler, SiteMatchesRegistry, TypeOK
  <2> QED
    BY Zenon, <2>1, <2>3, <2>4, <2>5, <2>6, <2>7 DEF Next
<1> QED
  BY <1>1, <1>2, TypeCorrect, SitesNeverDiverge, PTL
     DEF Spec, ImplementsPromise, Promise!Spec

-----------------------------------------------------------------------------
(* Waiters: any number of anchorings, deliveries, failed reads and         *)
(* restarts.                                                               *)

\* The waiter's state is well typed: in particular every goroutine started
\* for the listener runs at most once.
THEOREM WaitersTypeCorrect == WaitersSpec => []WaitersTypeOK
<1> USE WaiterConstants
<1>1. WaitersInit => WaitersTypeOK
  BY DEF WaitersInit, WaitersTypeOK, Outcomes, Places
<1>2. WaitersTypeOK /\ [WaitersNext]_waiterVars => WaitersTypeOK'
  <2> SUFFICES ASSUME WaitersTypeOK, [WaitersNext]_waiterVars PROVE WaitersTypeOK'
    BY Zenon
  <2>1. ASSUME NEW i \in Ids, Delivered(i) PROVE WaitersTypeOK'
    BY <2>1 DEF Delivered, WaitersTypeOK
  <2>2. ASSUME NEW i \in Ids, Nudge(i) PROVE WaitersTypeOK'
    BY <2>2 DEF Nudge, WaitersTypeOK
  <2>3. ASSUME NEW i \in Ids, Channel(i) PROVE WaitersTypeOK'
    BY Zenon, <2>3 DEF Channel, WaitersTypeOK, Places
  <2>4. ASSUME NEW i \in Ids, Read(i) PROVE WaitersTypeOK'
    BY Zenon, <2>4 DEF Read, WaitersTypeOK, Places
  <2>5. ASSUME NEW i \in Ids, Block(i) PROVE WaitersTypeOK'
    BY Zenon, <2>5 DEF Block, WaitersTypeOK, Places
  <2>6. ASSUME NEW i \in Ids, Wake(i) PROVE WaitersTypeOK'
    BY Zenon, <2>6 DEF Wake, WaitersTypeOK, Places
  <2>7. ASSUME NEW i \in Ids, Retry(i) PROVE WaitersTypeOK'
    BY Zenon, <2>7 DEF Retry, WaitersTypeOK, Places
  <2>8. ASSUME NEW i \in Ids, ReadFails(i) PROVE WaitersTypeOK'
    BY <2>8 DEF ReadFails, Fault, WaitersTypeOK, Places
  <2>9. CASE WaitersRestart
    BY <2>9 DEF WaitersRestart, Fault, WaitersTypeOK, Places
  <2>10. CASE UNCHANGED waiterVars
    BY Zenon, <2>10 DEF waiterVars, WaitersTypeOK
  <2> QED
    BY Zenon, <2>1, <2>2, <2>3, <2>4, <2>5, <2>6, <2>7, <2>8, <2>9, <2>10 DEF WaitersNext, Cultivate
<1> QED
  BY <1>1, <1>2, PTL DEF WaitersSpec

\* A cultivator inside its wait has a channel for the listener to find.
ChannelExists ==
    \A i \in Ids : at[i] \in {"read", "unresolved", "blocked", "retrying"} => channels[i] # "none"

\* A cultivator that has seen no outcome and will not look again by itself
\* has a nudge waiting or on its way whenever there is an outcome.  The
\* invariant needs that the channel is obtained before the registry is read
\* and is not dropped before the wait ends: a nudge without a channel is lost.
THEOREM NudgesAreNotLost == WaitersSpec => []NoLostWakeup
<1> DEFINE Inv == NoLostWakeup /\ ChannelExists
<1>1. WaitersInit => Inv
  BY Zenon DEF WaitersInit, NoLostWakeup, ChannelExists
<1>2. WaitersTypeOK /\ Inv /\ [WaitersNext]_waiterVars => Inv'
  <2> SUFFICES ASSUME WaitersTypeOK, Inv, [WaitersNext]_waiterVars PROVE Inv'
    BY Zenon
  <2> USE DEF NoLostWakeup, ChannelExists, Resolved
  <2>1. ASSUME NEW i \in Ids, Delivered(i) PROVE Inv'
    BY <2>1 DEF Delivered, WaitersTypeOK
  <2>2. ASSUME NEW i \in Ids, Nudge(i) PROVE Inv'
    BY Zenon, <2>2 DEF Nudge, WaitersTypeOK
  <2>3. ASSUME NEW i \in Ids, Channel(i) PROVE Inv'
    BY Zenon, <2>3 DEF Channel, WaitersTypeOK
  <2>4. ASSUME NEW i \in Ids, Read(i) PROVE Inv'
    BY Zenon, <2>4 DEF Read, WaitersTypeOK
  <2>5. ASSUME NEW i \in Ids, Block(i) PROVE Inv'
    BY Zenon, <2>5 DEF Block, WaitersTypeOK
  <2>6. ASSUME NEW i \in Ids, Wake(i) PROVE Inv'
    BY Zenon, <2>6 DEF Wake, WaitersTypeOK
  <2>7. ASSUME NEW i \in Ids, Retry(i) PROVE Inv'
    BY Zenon, <2>7 DEF Retry, WaitersTypeOK
  <2>8. ASSUME NEW i \in Ids, ReadFails(i) PROVE Inv'
    BY Zenon, <2>8 DEF ReadFails, WaitersTypeOK
  <2>9. CASE WaitersRestart
    BY Zenon, <2>9 DEF WaitersRestart
  <2>10. CASE UNCHANGED waiterVars
    BY Zenon, <2>10 DEF waiterVars
  <2> QED
    BY Zenon, <2>1, <2>2, <2>3, <2>4, <2>5, <2>6, <2>7, <2>8, <2>9, <2>10 DEF WaitersNext, Cultivate
<1> QED
  BY <1>1, <1>2, WaitersTypeCorrect, PTL DEF WaitersSpec

-----------------------------------------------------------------------------
(* Protection: every word size, threshold and best height.                 *)

\* What needs protection is never below the floor, at every best height: the
\* database filter of the adoption passes loses nothing.
LEMMA FloorCovers ==
    ASSUME NEW b \in Words, NEW h \in Words, NEW t \in Words, h # 0,
           AnchorNeedsProtection(b, h, t)
    PROVE  h >= ProtectionFloor(b, t)
BY ProtectionConstants DEF Words, Wrap, AnchorNeedsProtection, ProtectionFloor

\* ProtectionFloor's contract holds below the largest word: a known height
\* needs protection exactly when it is at or above the floor.
THEOREM FloorExact ==
    ASSUME NEW b \in Words, NEW h \in Words, NEW t \in Words, h # 0, b < MaxUint
    PROVE  AnchorNeedsProtection(b, h, t) <=> h >= ProtectionFloor(b, t)
BY ProtectionConstants DEF Words, Wrap, AnchorNeedsProtection, ProtectionFloor

\* The state of the adoption pass is well typed, whatever fails or restarts.
THEOREM AdoptionTypeCorrect == AdoptionSpec => []AdoptionTypeOK
<1>1. AdoptionInit => AdoptionTypeOK
  BY ProtectionConstants DEF AdoptionInit, AdoptionTypeOK, Stopped
<1>2. AdoptionTypeOK /\ [AdoptionNext]_adoptionVars => AdoptionTypeOK'
  <2> SUFFICES ASSUME AdoptionTypeOK, [AdoptionNext]_adoptionVars PROVE AdoptionTypeOK'
    BY Zenon
  <2> USE ProtectionConstants DEF AdoptionTypeOK
  <2>1. CASE BlockConnected
    BY <2>1 DEF BlockConnected
  <2>2. CASE BlockDisconnected
    BY <2>2 DEF BlockDisconnected
  <2>3. CASE ListParcels
    BY Zenon, <2>3 DEF ListParcels
  <2>4. CASE AdoptionFails
    BY <2>4 DEF AdoptionFails, Stopped
  <2>5. CASE AdoptionDone
    BY Zenon, <2>5 DEF AdoptionDone
  <2>6. CASE \E p \in Parcels : AdoptParcel(p)
    BY Zenon, <2>6 DEF AdoptParcel
  <2>7. CASE UNCHANGED adoptionVars
    BY Zenon, <2>7 DEF adoptionVars
  <2> QED
    BY Zenon, <2>1, <2>2, <2>3, <2>4, <2>5, <2>6, <2>7 DEF AdoptionNext
<1> QED
  BY <1>1, <1>2, PTL DEF AdoptionSpec

-----------------------------------------------------------------------------

\* While a pass is under way, what is young at its best height is anchored or
\* among the rows still to visit; it ends only when no rows are left.
PassCovers ==
    /\ adoption.at # "stopped" =>
        \A p \in Parcels :
            /\ height[p] > 0
            /\ AnchorNeedsProtection(adoption.best, height[p], Threshold)
            => p \in anchored \cup adoption.rows
    /\ adoption.at = "running" => adoption.rows = {}

\* Recorded heights fit in a word.
HeightsFit == \A p \in Parcels : height[p] \in Words

\* Best heights and transaction heights stay within the machine word.
LEMMA HeightsFitAlways == AdoptionSpec => [](AdoptionTypeOK /\ HeightsFit)
<1>1. AdoptionInit => HeightsFit
  BY ProtectionConstants DEF AdoptionInit, HeightsFit, Words
<1>2. HeightsFit /\ [AdoptionNext]_adoptionVars => HeightsFit'
  BY Zenon DEF HeightsFit, AdoptionNext, adoptionVars, BlockConnected, BlockDisconnected, ListParcels,
         AdoptionFails, AdoptionDone, AdoptParcel
<1> QED
  BY <1>1, <1>2, AdoptionTypeCorrect, PTL DEF AdoptionSpec

\* The startup pass of the porter (adoptLegacyParcels) misses no transfer
\* that was young when it began, however blocks come and go meanwhile.
THEOREM AdoptionComplete == AdoptionSpec => []YoungAreAnchored
<1>1. AdoptionInit => PassCovers
  BY DEF AdoptionInit, PassCovers, Stopped
<1>2. AdoptionTypeOK /\ HeightsFit /\ PassCovers /\ [AdoptionNext]_adoptionVars => PassCovers'
  <2> SUFFICES ASSUME AdoptionTypeOK, HeightsFit, PassCovers, [AdoptionNext]_adoptionVars PROVE PassCovers'
    BY Zenon
  <2> USE DEF AdoptionTypeOK, PassCovers
  <2>1. CASE BlockConnected
    BY Zenon, <2>1 DEF BlockConnected
  <2>2. CASE BlockDisconnected
    BY Zenon, <2>2 DEF BlockDisconnected
  <2>3. CASE ListParcels
    <3>1. \A p \in Parcels :
            height[p] > 0 /\ AnchorNeedsProtection(best, height[p], Threshold)
            => height[p] >= ProtectionFloor(best, Threshold)
      BY FloorCovers, ProtectionConstants DEF HeightsFit, Words
    <3> QED
      BY Zenon, <2>3, <3>1 DEF ListParcels
  <2>4. CASE AdoptionFails
    BY Zenon, <2>4 DEF AdoptionFails, Stopped
  <2>5. CASE AdoptionDone
    BY Zenon, <2>5 DEF AdoptionDone
  <2>6. ASSUME NEW p \in Parcels, AdoptParcel(p) PROVE PassCovers'
    BY Zenon, <2>6 DEF AdoptParcel
  <2>7. CASE UNCHANGED adoptionVars
    BY Zenon, <2>7 DEF adoptionVars
  <2> QED
    BY Zenon, <2>1, <2>2, <2>3, <2>4, <2>5, <2>6, <2>7 DEF AdoptionNext
<1>3. PassCovers => YoungAreAnchored
  BY Zenon DEF PassCovers, YoungAreAnchored
<1> QED
  BY <1>1, <1>2, <1>3, HeightsFitAlways, PTL DEF AdoptionSpec

\* The contract of ProtectionFloor's comment holds in every state as long as
\* the chain stays below the largest word.
THEOREM FloorAlwaysAgrees ==
    ASSUME MaxBest < MaxUint
    PROVE  AdoptionSpec => []FloorAgrees
<1>1. AdoptionTypeOK => FloorAgrees
  <2> SUFFICES ASSUME AdoptionTypeOK, NEW h \in 1..MaxUint, NEW t \in Words
               PROVE  AnchorNeedsProtection(best, h, t) <=> h >= ProtectionFloor(best, t)
    BY Zenon DEF FloorAgrees
  <2>1. best \in Words /\ best < MaxUint /\ h \in Words /\ h # 0
    BY ProtectionConstants DEF AdoptionTypeOK, Words
  <2> QED
    BY Zenon, <2>1, FloorExact
<1> QED
  BY <1>1, AdoptionTypeCorrect, PTL

=============================================================================
