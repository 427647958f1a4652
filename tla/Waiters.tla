------------------------------- MODULE Waiters -------------------------------
(***************************************************************************)
(* Waiting for an anchoring's outcome (tapreorg/waiters.go and the         *)
(* cultivator's wait in tapgarden/anchoring_site.go).  The registry is the *)
(* durable source of the outcome; the delivery listener runs in goroutines *)
(* of its own and wakes the waiter through a channel with room for one     *)
(* nudge.  The cultivator has no ticker to fall back on: a lost nudge      *)
(* would leave it waiting for ever.                                        *)
(***************************************************************************)
EXTENDS Integers

CONSTANTS
    Ids,            \* the anchorings waited for, one cultivator each
    MaxDeliveries,  \* bound: deliveries per anchoring
    MaxFaults       \* bound: failed reads and restarts

ASSUME WaiterConstants == {MaxDeliveries, MaxFaults} \subseteq Nat

VARIABLES
    outcome,    \* outcome[i]: the delivered phase, as far as the waiter cares
    nudging,    \* nudging[i]: listener goroutines that have yet to run
    channels,   \* channels[i]: "none", "empty" or "full"
    at,         \* at[i]: where the cultivator is in its wait
    deliveries, \* deliveries[i]: how many deliveries there were
    faults

waiterVars == <<outcome, nudging, channels, at, deliveries, faults>>

\* Witnessed may still be taken back; buried and abandoned are final.
Outcomes == {"open", "witnessed", "final"}
Resolved(i) == outcome[i] # "open"

WaitersInit ==
    /\ outcome = [i \in Ids |-> "open"]
    /\ nudging = [i \in Ids |-> 0]
    /\ channels = [i \in Ids |-> "none"]
    /\ at = [i \in Ids |-> "start"]
    /\ deliveries = [i \in Ids |-> 0]
    /\ faults = 0

-----------------------------------------------------------------------------

\* A delivery commits, and a goroutine is started for the listener.
Delivered(i) ==
    /\ outcome[i] # "final"
    /\ deliveries[i] < MaxDeliveries
    /\ \E o \in Outcomes : outcome' = [outcome EXCEPT ![i] = o]
    /\ nudging' = [nudging EXCEPT ![i] = @ + 1]
    /\ deliveries' = [deliveries EXCEPT ![i] = @ + 1]
    /\ UNCHANGED <<channels, at, faults>>

\* A nudge that only a waiter already blocked receives.
Nudge_unbuffered(i) ==
    /\ nudging[i] > 0
    /\ nudging' = [nudging EXCEPT ![i] = @ - 1]
    /\ channels' = [channels EXCEPT ![i] = IF at[i] = "blocked" THEN "full" ELSE @]
    /\ UNCHANGED <<outcome, at, deliveries, faults>>

\* Nudge: a full channel takes no second nudge, a missing one none at all.
Nudge(i) ==
    /\ nudging[i] > 0
    /\ nudging' = [nudging EXCEPT ![i] = @ - 1]
    /\ channels' = [channels EXCEPT ![i] = IF @ = "none" THEN @ ELSE "full"]
    /\ UNCHANGED <<outcome, at, deliveries, faults>>

\* The wait begins by obtaining the channel, creating it if need be.
Channel(i) ==
    /\ at[i] = "start"
    /\ at' = [at EXCEPT ![i] = "read"]
    /\ channels' = [channels EXCEPT ![i] = IF @ = "none" THEN "empty" ELSE @]
    /\ UNCHANGED <<outcome, nudging, deliveries, faults>>

\* readMintAnchoring; a resolved outcome ends the wait and forgets the channel.
Read(i) ==
    /\ at[i] = "read"
    /\ at' = [at EXCEPT ![i] = IF Resolved(i) THEN "returned" ELSE "unresolved"]
    /\ channels' = [channels EXCEPT ![i] = IF Resolved(i) THEN "none" ELSE @]
    /\ UNCHANGED <<outcome, nudging, deliveries, faults>>

\* A wake-up that leaves its nudge in the channel is only wasteful; one that
\* drains the channel after the read loses what came in between.
Block_draining(i) ==
    /\ at[i] = "unresolved"
    /\ at' = [at EXCEPT ![i] = "blocked"]
    /\ channels' = [channels EXCEPT ![i] = "empty"]
    /\ UNCHANGED <<outcome, nudging, deliveries, faults>>

\* awaitMintAnchoring, without a retry timer.
Block(i) ==
    /\ at[i] = "unresolved"
    /\ at' = [at EXCEPT ![i] = "blocked"]
    /\ UNCHANGED <<outcome, nudging, channels, deliveries, faults>>

Wake(i) ==
    /\ at[i] \in {"blocked", "retrying"}
    /\ channels[i] = "full"
    /\ channels' = [channels EXCEPT ![i] = "empty"]
    /\ at' = [at EXCEPT ![i] = "read"]
    /\ UNCHANGED <<outcome, nudging, deliveries, faults>>

Fault == faults < MaxFaults /\ faults' = faults + 1

\* A read fails: the wait that follows has a retry timer besides the channel.
ReadFails(i) ==
    /\ at[i] = "read"
    /\ Fault
    /\ at' = [at EXCEPT ![i] = "retrying"]
    /\ UNCHANGED <<outcome, nudging, channels, deliveries>>

Retry(i) ==
    /\ at[i] = "retrying"
    /\ at' = [at EXCEPT ![i] = "read"]
    /\ UNCHANGED <<outcome, nudging, channels, deliveries, faults>>

\* The daemon restarts: only the registry survives, and the planter resumes
\* the batch's cultivator.
WaitersRestart ==
    /\ Fault
    /\ nudging' = [i \in Ids |-> 0]
    /\ channels' = [i \in Ids |-> "none"]
    /\ at' = [i \in Ids |-> "start"]
    /\ UNCHANGED <<outcome, deliveries>>

Cultivate(i) == Channel(i) \/ Read(i) \/ Block(i) \/ Wake(i) \/ Retry(i)

WaitersNext ==
    \/ \E i \in Ids : Delivered(i) \/ Nudge(i) \/ Cultivate(i) \/ ReadFails(i)
    \/ WaitersRestart

WaitersSpec == WaitersInit /\ [][WaitersNext]_waiterVars

\* Goroutines run, and a cultivator that can go on does.
WaitersFairSpec ==
    WaitersSpec /\ \A i \in Ids : WF_waiterVars(Nudge(i)) /\ WF_waiterVars(Cultivate(i))

-----------------------------------------------------------------------------
(* Properties. *)

Places == {"start", "read", "unresolved", "blocked", "retrying", "returned"}

\* The type invariant.
WaitersTypeOK ==
    /\ outcome \in [Ids -> Outcomes]
    /\ nudging \in [Ids -> Nat]
    /\ channels \in [Ids -> {"none", "empty", "full"}]
    /\ at \in [Ids -> Places]
    /\ deliveries \in [Ids -> 0..MaxDeliveries]
    /\ faults \in 0..MaxFaults

\* No wake-up is lost: a cultivator that has seen no outcome, and will not
\* look again by itself, has a nudge coming when there is one by now.
NoLostWakeup ==
    \A i \in Ids : at[i] \in {"unresolved", "blocked"} /\ Resolved(i) =>
        channels[i] = "full" \/ nudging[i] > 0

\* A final outcome reaches the cultivator: the wait ends.
WaitEnds == \A i \in Ids : outcome[i] = "final" ~> at[i] = "returned"

=============================================================================
