----------------------------- MODULE Protection -----------------------------
(***************************************************************************)
(* When a confirmation is too shallow to be left unwatched                 *)
(* (tapreorg/anchoring.go), and the porter's startup pass that adopts the  *)
(* young transfers written before anchorings existed                       *)
(* (tapfreighter/chain_porter.go).                                         *)
(*                                                                         *)
(* Heights and thresholds are unsigned words: MaxUint is the largest one,  *)
(* 2^32 - 1 in the code.                                                   *)
(***************************************************************************)
EXTENDS Integers

CONSTANTS
    MaxUint,     \* the largest unsigned word
    Parcels,     \* the transfers recorded before anchorings existed
    Threshold,   \* the porter's act threshold
    MaxBest      \* bound: the highest best height

ASSUME ProtectionConstants ==
    /\ MaxUint \in Nat \ {0}
    /\ Threshold \in 0..MaxUint
    /\ MaxBest \in 0..MaxUint

Words == 0..MaxUint

\* Unsigned addition and subtraction wrap around.
Wrap(n) == IF n > MaxUint THEN n - (MaxUint + 1)
           ELSE IF n < 0 THEN n + (MaxUint + 1) ELSE n

\* A depth of one less: the confirming block itself is not counted.
AnchorNeedsProtection_shallow(bestHeight, blockHeight, threshold) ==
    \/ threshold = 0 \/ blockHeight = 0 \/ blockHeight > bestHeight
    \/ Wrap(bestHeight - blockHeight) < threshold

\* Unknown policy or location data still needs protection.
AnchorNeedsProtection(bestHeight, blockHeight, threshold) ==
    \/ threshold = 0 \/ blockHeight = 0 \/ blockHeight > bestHeight
    \/ Wrap(Wrap(bestHeight - blockHeight) + 1) < threshold

\* A floor that forgets that the confirming block counts.
ProtectionFloor_high(bestHeight, threshold) ==
    IF threshold = 0 THEN 0
    ELSE IF threshold = 1 THEN Wrap(bestHeight + 1)
    ELSE IF bestHeight < threshold - 2 THEN 0
    ELSE Wrap(bestHeight - (threshold - 2)) + 1

\* The lowest known height that still needs protection.
ProtectionFloor(bestHeight, threshold) ==
    IF threshold = 0 THEN 0
    ELSE IF threshold = 1 THEN IF bestHeight = MaxUint THEN bestHeight ELSE Wrap(bestHeight + 1)
    ELSE IF bestHeight < Wrap(threshold - 2) THEN 0
    ELSE Wrap(bestHeight - Wrap(threshold - 2))

-----------------------------------------------------------------------------
(* Adoption.  A parcel's recorded confirmation height is 0 while it is     *)
(* pending.                                                                *)

VARIABLES
    best,       \* the watcher's best height
    height,     \* height[p]: the confirmation height recorded for p
    anchored,   \* the parcels that have an anchoring
    adoption    \* the startup pass: its step, the best height it read, its rows

adoptionVars == <<best, height, anchored, adoption>>

Stopped == [at |-> "stopped", best |-> 0, rows |-> {}]

AdoptionInit ==
    /\ best \in 0..MaxBest
    /\ height \in [Parcels -> 0..best]
    /\ anchored = {}
    /\ adoption = Stopped

BlockConnected ==
    /\ best < MaxBest
    /\ best' = best + 1
    /\ UNCHANGED <<height, anchored, adoption>>

\* The recorded heights stay behind when their blocks are displaced.
BlockDisconnected ==
    /\ best > 0
    /\ best' = best - 1
    /\ UNCHANGED <<height, anchored, adoption>>

\* The database is asked for transfers confirmed at or above the floor.
ListParcels ==
    /\ adoption.at = "stopped"
    /\ adoption' = [at |-> "adopting", best |-> best,
                    rows |-> {p \in Parcels : /\ height[p] > 0
                                              /\ height[p] >= ProtectionFloor(best, Threshold)}]
    /\ UNCHANGED <<best, height, anchored>>

\* One row: a final transfer and one that is anchored already are skipped.
\* The registration is seeded with the witness rebuilt from the chain when
\* that is still possible, which makes no difference to its being watched.
AdoptParcel(p) ==
    /\ p \in adoption.rows
    /\ adoption' = [adoption EXCEPT !.rows = @ \ {p}]
    /\ anchored' = IF AnchorNeedsProtection(adoption.best, height[p], Threshold)
                   THEN anchored \cup {p} ELSE anchored
    /\ UNCHANGED <<best, height>>

\* A registry or database failure keeps the porter from starting, and so
\* does a crash; the next start begins a pass of its own.
AdoptionFails ==
    /\ adoption.at = "adopting"
    /\ adoption' = Stopped
    /\ UNCHANGED <<best, height, anchored>>

AdoptionDone ==
    /\ adoption.at = "adopting" /\ adoption.rows = {}
    /\ adoption' = [adoption EXCEPT !.at = "running"]
    /\ UNCHANGED <<best, height, anchored>>

AdoptionNext ==
    \/ BlockConnected \/ BlockDisconnected
    \/ ListParcels \/ AdoptionFails \/ AdoptionDone
    \/ \E p \in Parcels : AdoptParcel(p)

AdoptionSpec == AdoptionInit /\ [][AdoptionNext]_adoptionVars

-----------------------------------------------------------------------------
(* Properties. *)

\* The type invariant.
AdoptionTypeOK ==
    /\ best \in 0..MaxBest
    /\ height \in [Parcels -> Nat]
    /\ anchored \subseteq Parcels
    /\ adoption \in [at : {"stopped", "adopting", "running"},
                    best : 0..MaxBest, rows : SUBSET Parcels]

\* Once the porter runs, every transfer that was young at the best height its
\* startup pass began with is watched, and no transfer was missed because
\* the database filter and the code's own test disagree.
YoungAreAnchored ==
    adoption.at = "running" =>
        \A p \in Parcels :
            height[p] > 0 /\ AnchorNeedsProtection(adoption.best, height[p], Threshold)
            => p \in anchored

\* What ProtectionFloor's comment promises: a known height at or above the
\* floor needs protection, and one below it does not.
FloorAgrees ==
    \A h \in 1..MaxUint, t \in Words :
        AnchorNeedsProtection(best, h, t) <=> h >= ProtectionFloor(best, t)

=============================================================================
