----------------------------- MODULE Custodian -----------------------------
(* Inbound receives: the custodian's event loop and its proof retrievals    *)
(* (tapcustody/custodian.go), its re-org watcher site                       *)
(* (tapcustody/anchoring_site.go) and the rows both write                   *)
(* (tapdb/custody_anchoring.go, tapdb/addrs.go).                            *)
(*                                                                          *)
(* A receive is an output that pays one of the node's addresses, with an    *)
(* anchor transaction of its own; its outputs are the assets it carries.    *)
(* One to an address of version 0 or 1 is found by the wallet, one to an    *)
(* address of version 2 by a message in a mailbox. The re-org watcher is    *)
(* reduced to what it promises a site: a sensed phase is true of the chain, *)
(* terminal ones are final, and the sensed phase is delivered in the end.   *)
EXTENDS Naturals, FiniteSets, FiniteSetsExt, Sequences

CONSTANTS
    Walleted,       \* receives the wallet detects
    Mailed,         \* receives a mailbox message announces
    Outputs,        \* the assets each receive carries
    MaxReceives,    \* receives that happen
    MaxReorgs,      \* transactions that are re-organized out
    MaxCrashes,     \* crashes of the daemon
    MaxFaults       \* failing calls, broken streams and synced proofs

Receives == Walleted \cup Mailed
ProofsOf(r) == {r} \X Outputs[r]
Proofs == UNION {ProofsOf(r) : r \in Receives}

ASSUME CustodianConstants ==
    /\ Walleted \cap Mailed = {}
    /\ \A r \in Receives : Outputs[r] # {}
    /\ {MaxReceives, MaxReorgs, MaxCrashes, MaxFaults} \subseteq Nat

VARIABLES
    status, stamp,  \* an address event's status; its transaction's block
    held,           \* proofs in the database
    phase, done,    \* the sensed and the delivered phase of an anchoring
    boot,           \* how far the event loop has come
    resume, listing,        \* pending events, wallet transactions to go over
    from, start,    \* heights the wallet and the mailboxes are read from
    cache,          \* the events in memory, by what they know of the block
    live, txs,      \* the wallet's subscription and what it has delivered
    subscribed, inbox,      \* mailbox subscriptions, and messages delivered
    tasks,          \* running proof retrievals
    arrived,        \* proofs the loop has been notified of
    loop,           \* the receive the loop is completing
    told,           \* receives whose failure subscribers were told of
    seen, at,       \* transactions in the mempool; the block they are in
    buried, gone,   \* those that cannot be undone; those lost to a rival
    courier, box, posted,   \* proofs and messages at the servers
    reorgs, crashes, faults

eventVars == <<status, stamp>>
anchoringVars == <<phase, done>>
startVars == <<boot, resume, listing, from, start>>
walletVars == <<live, txs>>
mailVars == <<subscribed, inbox>>
chainVars == <<seen, at, buried, gone, reorgs>>
serverVars == <<courier, box, posted>>
vars == <<eventVars, held, anchoringVars, startVars, cache, walletVars, mailVars,
          tasks, arrived, loop, told, chainVars, serverVars, crashes, faults>>

Is(kind, h) == [kind |-> kind, height |-> h]
NoAnchoring == Is("none", 0)
Idle == [pc |-> "idle"]
Notice(r, h) == [r |-> r, height |-> h]
Task(r) == [r |-> r, todo |-> Outputs[r], pc |-> "fetch"]

Init ==
    /\ status = [r \in Receives |-> "none"]
    /\ stamp = [r \in Receives |-> 0]
    /\ held = {}
    /\ phase = [r \in Receives |-> NoAnchoring] /\ done = phase
    /\ boot = "down" /\ resume = {} /\ listing = {} /\ from = 0 /\ start = 0
    /\ cache = [r \in Receives |-> "none"]
    /\ live = FALSE /\ txs = <<>>
    /\ subscribed = {} /\ inbox = {}
    /\ tasks = {} /\ arrived = {} /\ loop = Idle /\ told = {}
    /\ seen = {} /\ at = [r \in Receives |-> 0] /\ buried = {} /\ gone = {}
    /\ courier = {} /\ box = [r \in Mailed |-> 0] /\ posted = {}
    /\ reorgs = 0 /\ crashes = 0 /\ faults = 0

Fault == faults < MaxFaults /\ faults' = faults + 1

-----------------------------------------------------------------------------
(* The chain, the wallet and the sender                                     *)
-----------------------------------------------------------------------------

(* The wallet reports a transaction when it sees it and when it confirms,   *)
(* to a subscriber that is connected.                                       *)
Reported(r, h) ==
    txs' = IF live /\ r \in Walleted THEN Append(txs, Notice(r, h)) ELSE txs

custodyVars == <<eventVars, held, anchoringVars, startVars, cache, live, mailVars,
                 tasks, arrived, loop, told, crashes, faults>>

Broadcast(r) ==
    /\ r \notin seen /\ Cardinality(seen) < MaxReceives
    /\ seen' = seen \cup {r}
    /\ Reported(r, 0)
    /\ UNCHANGED <<custodyVars, at, buried, gone, reorgs, serverVars>>

Mine(r) ==
    /\ r \in seen \ gone /\ at[r] = 0
    /\ LET h == 1 + Max({at[q] : q \in Receives}) IN
         /\ at' = [at EXCEPT ![r] = h]
         /\ Reported(r, h)
    /\ UNCHANGED <<custodyVars, seen, buried, gone, reorgs, serverVars>>

ReorgedOut(r) ==
    /\ at[r] > 0 /\ r \notin buried
    /\ reorgs < MaxReorgs /\ reorgs' = reorgs + 1
    /\ at' = [at EXCEPT ![r] = 0]
    /\ UNCHANGED <<custodyVars, txs, seen, buried, gone, serverVars>>

Bury(r) ==
    /\ at[r] > 0 /\ r \notin buried
    /\ buried' = buried \cup {r}
    /\ UNCHANGED <<custodyVars, txs, seen, at, gone, reorgs, serverVars>>

(* A rival of a transaction that has left the chain is buried.              *)
Foreclose(r) ==
    /\ reorgs > 0 /\ r \in seen \ gone /\ at[r] = 0
    /\ gone' = gone \cup {r}
    /\ UNCHANGED <<custodyVars, txs, seen, at, buried, reorgs, serverVars>>

(* Once the transaction confirms the sender uploads the proofs, and leaves  *)
(* a message for an address of version 2.                                   *)
Upload(p) ==
    /\ p \notin courier /\ at[p[1]] > 0
    /\ courier' = courier \cup {p}
    /\ UNCHANGED <<custodyVars, txs, chainVars, box, posted>>

Post(r) ==
    /\ r \notin posted /\ at[r] > 0
    /\ posted' = posted \cup {r}
    /\ box' = [box EXCEPT ![r] = at[r]]
    /\ inbox' = IF r \in subscribed THEN inbox \cup {r} ELSE inbox
    /\ UNCHANGED <<eventVars, held, anchoringVars, startVars, cache, walletVars,
                   subscribed, tasks, arrived, loop, told, chainVars, courier,
                   crashes, faults>>

-----------------------------------------------------------------------------
(* The receive site                                                         *)
-----------------------------------------------------------------------------

CurrentPhase(r) ==
    CASE r \in gone -> Is("abandoned", 0)
      [] r \in buried -> Is("buried", at[r])
      [] at[r] > 0 /\ r \notin buried -> Is("witnessed", at[r])
      [] OTHER -> Is("unwitnessed", 0)

Sense(r) ==
    /\ phase[r].kind \in {"witnessed", "unwitnessed"}
    /\ phase[r] # CurrentPhase(r)
    /\ phase' = [phase EXCEPT ![r] = CurrentPhase(r)]
    /\ UNCHANGED <<eventVars, held, done, startVars, cache, walletVars, mailVars,
                   tasks, arrived, loop, told, chainVars, serverVars, crashes, faults>>

(* The block a handler records: the one the phase names, if it names one.   *)
Stamped(r, p) == stamp' = [stamp EXCEPT ![r] = p.height]

(* The proofs an abandonment leaves, and the statuses: events return to     *)
(* their first status.                                                      *)
KeptProofs(r) == held \ ProofsOf(r)
ResetStatus(r) == IF status[r] = "none" THEN status
                  ELSE [status EXCEPT ![r] = "detected"]

Deliver(r) ==
    /\ done[r] # phase[r]
    /\ done' = [done EXCEPT ![r] = phase[r]]
    /\ Stamped(r, phase[r])
    /\ IF phase[r].kind = "abandoned"
         THEN held' = KeptProofs(r) /\ status' = ResetStatus(r)
         ELSE UNCHANGED <<held, status>>
    /\ UNCHANGED <<phase, startVars, cache, walletVars, mailVars, tasks, arrived, loop,
                   told, chainVars, serverVars, crashes, faults>>

(* A proof passes the first half of StakeReceive: its anchoring is not      *)
(* abandoned, and its transaction is in the chain.                          *)
Acceptable(r) == phase[r].kind # "abandoned" /\ at[r] > 0

(* The registration transaction imports the proof with the stake. A new     *)
(* anchoring is born witnessed in the block the proof attests, an existing  *)
(* one has its delivered phase delivered again. A transaction already safe  *)
(* needs no anchoring.                                                      *)
Refused_early(r) == FALSE
Refused(r) == "abandoned" \in {phase[r].kind, done[r].kind}

Registered(p, h) ==
    LET r == p[1] IN
    /\ ~Refused(r)
    /\ held' = held \cup {p}
    /\ IF phase[r] = NoAnchoring
         THEN /\ phase' = [phase EXCEPT ![r] = Is("witnessed", h)]
              /\ done' = [done EXCEPT ![r] = Is("witnessed", h)]
              /\ Stamped(r, Is("witnessed", h))
         ELSE /\ Stamped(r, done[r])
              /\ UNCHANGED anchoringVars

Stored(p) ==
    /\ p[1] \in buried
    /\ held' = held \cup {p}
    /\ UNCHANGED <<anchoringVars, stamp>>

StakeReceive(p, h) == Registered(p, h) \/ Stored(p)

-----------------------------------------------------------------------------
(* Retrieving the proofs of a receive: one goroutine for each time a        *)
(* confirmation is seen                                                     *)
-----------------------------------------------------------------------------

(* The courier has the proof and it is acceptable.                          *)
Fetch(k) ==
    /\ k.pc = "fetch"
    /\ Acceptable(k.r)
    /\ \E o \in k.todo :
         /\ <<k.r, o>> \in courier
         /\ tasks' = (tasks \ {k}) \cup
                {[r |-> k.r, todo |-> k.todo, pc |-> "stake", o |-> o,
                  height |-> at[k.r]]}
    /\ UNCHANGED <<eventVars, held, anchoringVars, startVars, cache, walletVars,
                   mailVars, arrived, loop, told, chainVars, serverVars, crashes,
                   faults>>

(* The proof is in custody, and the loop is notified of it.                 *)
Advanced_first(k) == [r |-> k.r, todo |-> k.todo \ {k.o}, pc |-> "finish"]
Advanced(k) ==
    LET todo == k.todo \ {k.o} IN
    [r |-> k.r, todo |-> todo, pc |-> IF todo = {} THEN "finish" ELSE "fetch"]

Stake(k) ==
    /\ k.pc = "stake"
    /\ StakeReceive(<<k.r, k.o>>, k.height)
    /\ arrived' = arrived \cup {<<k.r, k.o>>}
    /\ tasks' = (tasks \ {k}) \cup {Advanced(k)}
    /\ UNCHANGED <<status, startVars, cache, walletVars, mailVars, loop, told,
                   chainVars, serverVars, crashes, faults>>

(* All proofs are in: the message is removed from the mailbox, if that      *)
(* succeeds.                                                                *)
Finish(k) ==
    /\ k.pc = "finish"
    /\ tasks' = tasks \ {k}
    /\ \/ k.r \in Mailed /\ box' = [box EXCEPT ![k.r] = 0] /\ UNCHANGED faults
       \/ k.r \in Mailed /\ Fault /\ UNCHANGED box
       \/ k.r \in Walleted /\ UNCHANGED <<box, faults>>
    /\ UNCHANGED <<eventVars, held, anchoringVars, startVars, cache, walletVars,
                   mailVars, arrived, loop, told, chainVars, courier, posted, crashes>>

(* The retrieval ends with an error, which is published.                    *)
GiveUp(k) ==
    /\ \/ k.pc = "fetch" /\ ~Acceptable(k.r) /\ UNCHANGED faults
       \/ k.pc = "fetch" /\ Acceptable(k.r) /\ Fault
       \/ k.pc = "stake" /\ Refused(k.r) /\ UNCHANGED faults
    /\ tasks' = tasks \ {k}
    /\ told' = told \cup {k.r}
    /\ UNCHANGED <<eventVars, held, anchoringVars, startVars, cache, walletVars,
                   mailVars, arrived, loop, chainVars, serverVars, crashes>>

-----------------------------------------------------------------------------
(* The event loop                                                           *)
-----------------------------------------------------------------------------

Ready == boot = "serving" /\ listing = {} /\ loop = Idle

(* GetOrCreateEvent: the status is overwritten, the block only by a block.  *)
Upsert(r, st, h) ==
    /\ status' = [status EXCEPT ![r] = st]
    /\ stamp' = IF h > 0 THEN [stamp EXCEPT ![r] = h] ELSE stamp

Knows(h) == IF h > 0 THEN "confirmed" ELSE "pending"

(* A wallet transaction: an event in memory advances when its first         *)
(* confirmation is seen, an unknown output gets an event unless it has a    *)
(* completed one. Retrieval starts with the confirmation.                   *)
Inspected(n) ==
    LET r == n.r IN
    \/ /\ cache[r] = "pending" /\ n.height > 0
       /\ Upsert(r, "confirmed", n.height)
       /\ cache' = [cache EXCEPT ![r] = "confirmed"]
       /\ tasks' = tasks \cup {Task(r)}
    \/ /\ cache[r] = "none" /\ status[r] # "completed"
       /\ Upsert(r, IF n.height > 0 THEN "confirmed" ELSE "detected", n.height)
       /\ cache' = [cache EXCEPT ![r] = Knows(stamp'[r])]
       /\ tasks' = IF n.height > 0 THEN tasks \cup {Task(r)} ELSE tasks
    \/ /\ \/ cache[r] = "confirmed"
          \/ cache[r] = "pending" /\ n.height = 0
          \/ cache[r] = "none" /\ status[r] = "completed"
       /\ UNCHANGED <<eventVars, cache, tasks>>

InspectWalletTx ==
    /\ Ready /\ txs # <<>>
    /\ Inspected(Head(txs))
    /\ txs' = Tail(txs)
    /\ UNCHANGED <<held, anchoringVars, startVars, live, mailVars, arrived, loop, told,
                   chainVars, serverVars, crashes, faults>>

(* The stream to the wallet breaks, with what it had delivered; a later     *)
(* subscription delivers only what comes after it.                          *)
StreamEnds ==
    /\ live /\ Fault
    /\ live' = FALSE /\ txs' = <<>>
    /\ UNCHANGED <<eventVars, held, anchoringVars, startVars, cache, mailVars, tasks,
                   arrived, loop, told, chainVars, serverVars, crashes>>

Resubscribe ==
    /\ Ready /\ ~live
    /\ live' = TRUE
    /\ UNCHANGED <<eventVars, held, anchoringVars, startVars, cache, txs, mailVars,
                   tasks, arrived, loop, told, chainVars, serverVars, crashes, faults>>

(* A mailbox is subscribed to: what it already holds is delivered if it is  *)
(* of the start height or above.                                            *)
Subscribe(r) ==
    /\ Ready /\ r \notin subscribed
    /\ subscribed' = subscribed \cup {r}
    /\ inbox' = IF box[r] >= Max({1, start}) THEN inbox \cup {r} ELSE inbox
    /\ UNCHANGED <<eventVars, held, anchoringVars, startVars, cache, walletVars, tasks,
                   arrived, loop, told, chainVars, serverVars, crashes, faults>>

(* A message: an event is recorded as confirmed in the block the message    *)
(* names and its proofs are retrieved, unless it is complete. The block may *)
(* be one that cannot be fetched.                                           *)
HandleMailboxMessage(r) ==
    /\ Ready /\ r \in inbox
    /\ inbox' = inbox \ {r}
    /\ \/ /\ status[r] # "completed" /\ box[r] > 0
          /\ Upsert(r, "confirmed", box[r])
          /\ cache' = [cache EXCEPT ![r] = "confirmed"]
          /\ start' = Max({start, box[r]})
          /\ tasks' = tasks \cup {Task(r)}
          /\ UNCHANGED <<told, faults>>
       \/ /\ status[r] # "completed" /\ box[r] > 0 /\ Fault
          /\ told' = told \cup {r}
          /\ UNCHANGED <<eventVars, cache, start, tasks>>
       \/ /\ status[r] = "completed" \/ box[r] = 0
          /\ UNCHANGED <<eventVars, cache, start, tasks, told, faults>>
    /\ UNCHANGED <<held, anchoringVars, boot, resume, listing, from, walletVars,
                   subscribed, arrived, loop, chainVars, serverVars, crashes>>

(* A proof of a transaction enters the local universe with a sync.          *)
SyncProof(p) ==
    /\ boot # "down" /\ Fault
    /\ p \in courier \ (held \cup arrived)
    /\ arrived' = arrived \cup {p}
    /\ UNCHANGED <<eventVars, held, anchoringVars, startVars, cache, walletVars,
                   mailVars, tasks, loop, told, chainVars, serverVars, crashes>>

(* The loop turns to completing a receive with a proof of it; a proof that  *)
(* is no longer acceptable is an error.                                     *)
Completing_silent(p) ==
    /\ loop' = IF Acceptable(p[1]) THEN [pc |-> "stake", p |-> p, height |-> at[p[1]]]
               ELSE loop
    /\ UNCHANGED told
Completing(p) ==
    \/ /\ Acceptable(p[1])
       /\ loop' = [pc |-> "stake", p |-> p, height |-> at[p[1]]]
       /\ UNCHANGED told
    \/ /\ ~Acceptable(p[1])
       /\ told' = told \cup {p[1]}
       /\ UNCHANGED loop

MapProofToEvent(p) ==
    /\ Ready /\ p \in arrived
    /\ arrived' = arrived \ {p}
    /\ IF cache[p[1]] = "none" THEN UNCHANGED <<loop, told>> ELSE Completing(p)
    /\ UNCHANGED <<eventVars, held, anchoringVars, startVars, cache, walletVars,
                   mailVars, tasks, chainVars, serverVars, crashes, faults>>

(* setReceiveCompleted: the proof is staked, every output of the event must *)
(* have a proof, and the event is completed in a transaction that looks     *)
(* each of them up again.                                                   *)
HasAllProofs(r) == ProofsOf(r) \subseteq held

StakeAgain ==
    /\ loop.pc = "stake"
    /\ \/ /\ StakeReceive(loop.p, loop.height)
          /\ loop' = [pc |-> "check", r |-> loop.p[1]]
          /\ UNCHANGED told
       \/ /\ Refused(loop.p[1])
          /\ loop' = Idle
          /\ told' = told \cup {loop.p[1]}
          /\ UNCHANGED <<held, anchoringVars, stamp>>
    /\ UNCHANGED <<status, startVars, cache, walletVars, mailVars, tasks, arrived,
                   chainVars, serverVars, crashes, faults>>

CheckProofs ==
    /\ loop.pc = "check"
    /\ loop' = IF HasAllProofs(loop.r) THEN [pc |-> "complete", r |-> loop.r] ELSE Idle
    /\ UNCHANGED <<eventVars, held, anchoringVars, startVars, cache, walletVars,
                   mailVars, tasks, arrived, told, chainVars, serverVars, crashes,
                   faults>>

MayComplete_unchecked(r) == TRUE
MayComplete(r) == HasAllProofs(r)

CompleteEvent ==
    /\ loop.pc = "complete"
    /\ loop' = Idle
    /\ IF MayComplete(loop.r)
         THEN /\ status' = [status EXCEPT ![loop.r] = "completed"]
              /\ cache' = [cache EXCEPT ![loop.r] = "none"]
              /\ UNCHANGED told
         ELSE /\ told' = told \cup {loop.r}
              /\ UNCHANGED <<status, cache>>
    /\ UNCHANGED <<stamp, held, anchoringVars, startVars, walletVars, mailVars, tasks,
                   arrived, chainVars, serverVars, crashes, faults>>

-----------------------------------------------------------------------------
(* Starting and crashing                                                    *)
-----------------------------------------------------------------------------

(* The wallet is subscribed to and the pending events are loaded; the       *)
(* mailboxes are to be read from the last block any event of theirs is in,  *)
(* the wallet from the last block any pending event is in.                  *)
Pending == {r \in Receives : status[r] \in {"detected", "confirmed"}}
LastBlock(S) == Max({0} \cup {stamp[r] : r \in S})

Start ==
    /\ boot = "down"
    /\ boot' = "resuming"
    /\ live' = TRUE
    /\ resume' = Pending
    /\ cache' = [r \in Receives |-> IF r \in Pending THEN Knows(stamp[r]) ELSE "none"]
    /\ start' = LastBlock(Mailed)
    /\ from' = LastBlock(Pending)
    /\ UNCHANGED <<eventVars, held, anchoringVars, listing, txs, mailVars, tasks,
                   arrived, loop, told, chainVars, serverVars, crashes, faults>>

(* A pending event is completed if its proof is already held, which can be  *)
(* told by the address only for one of version 0 or 1; otherwise its proofs *)
(* are retrieved once it has a block.                                       *)
ResumeEvent(r) ==
    /\ boot = "resuming" /\ loop = Idle /\ r \in resume
    /\ resume' = resume \ {r}
    /\ \/ /\ r \in Walleted /\ HasAllProofs(r)
          /\ \E p \in ProofsOf(r) : Completing(p)
          /\ UNCHANGED tasks
       \/ /\ ~(r \in Walleted /\ HasAllProofs(r))
          /\ tasks' = IF cache[r] = "confirmed" THEN tasks \cup {Task(r)} ELSE tasks
          /\ UNCHANGED <<loop, told>>
    /\ UNCHANGED <<eventVars, held, anchoringVars, boot, listing, from, start, cache,
                   walletVars, mailVars, arrived, chainVars, serverVars, crashes,
                   faults>>

(* The wallet's transactions are listed, unconfirmed ones included.         *)
Listed(r) == at[r] = 0 \/ at[r] >= from

ListTransactions ==
    /\ boot = "resuming" /\ loop = Idle /\ resume = {}
    /\ boot' = "serving"
    /\ listing' = {Notice(r, at[r]) : r \in {q \in (Walleted \cap seen) \ gone : Listed(q)}}
    /\ UNCHANGED <<eventVars, held, anchoringVars, resume, from, start, cache,
                   walletVars, mailVars, tasks, arrived, loop, told, chainVars,
                   serverVars, crashes, faults>>

InspectListed ==
    /\ \E n \in listing : Inspected(n) /\ listing' = listing \ {n}
    /\ UNCHANGED <<held, anchoringVars, boot, resume, from, start, walletVars, mailVars,
                   arrived, loop, told, chainVars, serverVars, crashes, faults>>

Crash ==
    /\ boot # "down"
    /\ crashes < MaxCrashes /\ crashes' = crashes + 1
    /\ boot' = "down" /\ resume' = {} /\ listing' = {} /\ from' = 0 /\ start' = 0
    /\ cache' = [r \in Receives |-> "none"]
    /\ live' = FALSE /\ txs' = <<>>
    /\ subscribed' = {} /\ inbox' = {}
    /\ tasks' = {} /\ arrived' = {} /\ loop' = Idle /\ told' = {}
    /\ UNCHANGED <<eventVars, held, anchoringVars, chainVars, serverVars, faults>>

-----------------------------------------------------------------------------

TaskStep == \E k \in tasks : Fetch(k) \/ Stake(k) \/ Finish(k) \/ GiveUp(k)
Complete == StakeAgain \/ CheckProofs \/ CompleteEvent
Resuming == (\E r \in Receives : ResumeEvent(r)) \/ ListTransactions \/ InspectListed

Next ==
    \/ \E r \in Receives : Broadcast(r) \/ Mine(r) \/ ReorgedOut(r) \/ Bury(r)
                           \/ Foreclose(r) \/ Sense(r) \/ Deliver(r)
    \/ \E r \in Mailed : Post(r) \/ Subscribe(r) \/ HandleMailboxMessage(r)
    \/ \E p \in Proofs : Upload(p) \/ SyncProof(p) \/ MapProofToEvent(p)
    \/ TaskStep \/ InspectWalletTx \/ StreamEnds \/ Resubscribe
    \/ Complete \/ Start \/ Resuming \/ Crash

Spec == Init /\ [][Next]_vars

(* The loop and its goroutines keep running.                                *)
FairSpec ==
    /\ Spec
    /\ WF_vars(TaskStep) /\ WF_vars(Complete) /\ WF_vars(Resuming)
    /\ \A p \in Proofs : WF_vars(MapProofToEvent(p))

-----------------------------------------------------------------------------
(* Properties                                                               *)
-----------------------------------------------------------------------------

(* The receiver never holds a proof the watcher does not watch              *)
(* (setReceiveCompleted): what is held is anchored or too deep to be        *)
(* undone, and nothing of an abandoned receive is held once the abandonment *)
(* is delivered, however late a copy of the proof arrives.                  *)
HeldIsWatched ==
    \A p \in held : /\ phase[p[1]] # NoAnchoring \/ p[1] \in buried
                   /\ done[p[1]].kind # "abandoned"

(* A completed event holds the proof of each of its outputs, although the   *)
(* watcher may withdraw them between the loop's check and CompleteEvent.    *)
CompletedIsHeld ==
    \A r \in Receives : status[r] = "completed" => HasAllProofs(r)

(* A message is removed from its mailbox only when the receive can go on    *)
(* without it: an event is recorded, and every proof was staked.            *)
RemovedIsStaked ==
    \A r \in posted : box[r] = 0 =>
        status[r] # "none" /\ (HasAllProofs(r) \/ done[r].kind = "abandoned")

(* A receive whose confirmation is in memory and whose proofs the courier   *)
(* has is completed in the end, unless subscribers are told of an error,    *)
(* the receive is abandoned or the daemon goes down.                        *)
Settles ==
    \A r \in Receives :
        (cache[r] = "confirmed" /\ ProofsOf(r) \subseteq courier)
          ~> (status[r] = "completed" \/ r \in told \/ r \in gone \/ boot = "down")

(* At start all on-chain transactions are read and mapped to an event (the  *)
(* comment in mainEventLoop): when the listing has been gone over and the   *)
(* wallet's stream has not broken, no confirmed one is left without.        *)
StartMapsAll ==
    Ready /\ live /\ txs = <<>> =>
        \A r \in Walleted : at[r] > 0 => status[r] \in {"confirmed", "completed"}
=============================================================================
