--------------------------- MODULE SiteConvergence ---------------------------
(***************************************************************************)
(* What the delivery loop promises a site (the Registry interface of       *)
(* tapreorg/registry.go): sensing moves the phase of an anchoring until it *)
(* is terminal, and a delivery brings the site to the phase sensed at that *)
(* moment, never to another, and never away from a terminal one.           *)
(***************************************************************************)
CONSTANTS
    Anchorings,
    LivePhases,   \* the phases that sensing may still leave
    FinalPhases   \* the absorbing phases

VARIABLES
    phase,      \* phase[a]: the sensed phase
    delivered   \* delivered[a]: the phase the site has converged to

vars == <<phase, delivered>>

AllPhases == LivePhases \cup FinalPhases

Init ==
    /\ phase \in [Anchorings -> LivePhases]
    /\ delivered = phase

SetPhase(a) ==
    /\ phase[a] \notin FinalPhases
    /\ \E p \in AllPhases \ {phase[a]} : phase' = [phase EXCEPT ![a] = p]
    /\ UNCHANGED delivered

Deliver(a) ==
    /\ delivered[a] # phase[a]
    /\ delivered' = [delivered EXCEPT ![a] = phase[a]]
    /\ UNCHANGED phase

Next == \E a \in Anchorings : SetPhase(a) \/ Deliver(a)

Spec == Init /\ [][Next]_vars

=============================================================================
