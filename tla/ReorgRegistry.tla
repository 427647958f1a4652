---------------------------- MODULE ReorgRegistry ----------------------------
(***************************************************************************)
(* The durable registry of anchorings (tapdb/reorg_registry.go and         *)
(* tapdb/sqlc/queries/reorg.sql): what is stored, and each write as the    *)
(* function of the stored rows that one database transaction applies.      *)
(***************************************************************************)
EXTENDS Phases

VARIABLES
    registered,     \* the anchorings that have a row
    triggers,       \* triggers[a]: the trigger outpoints of a
    createdHeight,  \* createdHeight[a]: the best height when a was registered
    phase,          \* phase[a]: the sensed phase
    delivered,      \* delivered[a]: the phase the site last converged to
    spends,         \* spends[a][t]: the candidate spend of a by transaction t
    edges           \* edges[c][p]: the dependency of child c on parent p

registryVars == <<registered, triggers, createdHeight, phase, delivered, spends, edges>>

\* An absent edge depends on no form of the parent.
NoEdge == [form |-> 0, fc |-> NoForeclosure]

RegistryInit ==
    /\ registered = {}
    /\ triggers = [a \in Anchorings |-> {}]
    /\ createdHeight = [a \in Anchorings |-> 0]
    /\ phase = [a \in Anchorings |-> Unwitnessed]
    /\ delivered = [a \in Anchorings |-> Unwitnessed]
    /\ spends = [a \in Anchorings |-> [t \in Txs |-> NoSpend]]
    /\ edges = [c \in Anchorings |-> [p \in Anchorings |-> NoEdge]]

-----------------------------------------------------------------------------
(* Reading. *)

LiveAnchorings == {a \in registered : ~IsTerminal(phase[a])}
IncomingEdges(c) == {p \in Anchorings : edges[c][p].form # 0}
DependencyEdges(p) == {c \in LiveAnchorings : edges[c][p].form # 0}

\* The strongest foreclosure staged on an anchoring's edges.
StagedForeclosure(a) ==
    StrongestForeclosure({edges[a][p].fc : p \in Anchorings} \ {NoForeclosure})

DerivedPhase(a) == DerivePhase(spends[a], StagedForeclosure(a))

\* The live anchorings, other than c, that were ever seen satisfied by t.
LiveParentsOf(c, t) ==
    {p \in LiveAnchorings \ {c} : t # 0 /\ spends[p][t].verdict = "satisfies"}

-----------------------------------------------------------------------------
(* Candidate spends. *)

\* No check of the whole-set rule at the durable boundary.
CandidateAllowed_any(trigs, c) == TRUE

\* A satisfying candidate must spend the whole trigger set; the write is
\* refused otherwise, whoever asks for it.
CandidateAllowed(trigs, c) == c.verdict = "satisfies" => trigs \subseteq TxSpends[c.w.tx]

\* The upsert replaces everything but a certification, which is sticky.
UpsertedCandidate(old, new) == [new EXCEPT !.act = old.act \/ new.act]

\* Recording a satisfying candidate of p derives the edges of the children
\* staked on its outputs; the first form written to an edge wins.
DerivedEdges(p, c) ==
    [ch \in Anchorings |->
        IF /\ c.verdict = "satisfies"
           /\ ch \in LiveAnchorings \ {p}
           /\ edges[ch][p].form = 0
           /\ \E op \in triggers[ch] : CreatedBy[op] = c.w.tx
        THEN [edges[ch] EXCEPT ![p].form = c.w.tx]
        ELSE edges[ch]]

-----------------------------------------------------------------------------
(* Foreclosure staging. *)

\* A staging that overwrites a certified one.
StageForeclosure_thawed(edge, fc) == [edge EXCEPT !.fc = fc]

\* A certified foreclosure freezes its edge.
StageForeclosure(edge, fc) == IF edge.fc.act THEN edge ELSE [edge EXCEPT !.fc = fc]
ClearForeclosure(edge) == IF edge.fc.act THEN edge ELSE [edge EXCEPT !.fc = NoForeclosure]

Foreclosure(p, w) == [parent |-> p, w |-> w, onChain |-> TRUE, act |-> FALSE]

\* A terminal delivery settles the edges of the live dependents: burial
\* clears the edges that depend on the buried form, and everything else is
\* foreclosed.
settleDependentEdges(p, ph) ==
    [c \in Anchorings |->
        IF ~IsTerminal(ph) \/ c \notin DependencyEdges(p) THEN edges[c]
        ELSE [edges[c] EXCEPT ![p] =
                IF ph.code = "buried" /\ edges[c][p].form = ph.w.tx
                THEN ClearForeclosure(@)
                ELSE StageForeclosure(@, Foreclosure(p, ph.w))]]

-----------------------------------------------------------------------------
(* Registration. *)

\* The edges that new triggers of c derive to live parents that were seen in
\* the form the triggers are outputs of.
ParentEdges(c, new) ==
    [p \in Anchorings |->
        LET forms == {CreatedBy[op] : op \in {o \in new : p \in LiveParentsOf(c, CreatedBy[o])}}
        IN  IF edges[c][p].form # 0 \/ forms = {} THEN edges[c][p]
            ELSE [NoEdge EXCEPT !.form = CHOOSE t \in forms : \A u \in forms : u <= t]]

\* insertRegistration, with deliverSeed when the registration carries a
\* satisfying, uncertified witness: a seeded anchoring is born in the phase
\* its seed establishes, and that phase counts as delivered.
insertRegistration(a, trigs, height, seed) ==
    /\ a \notin registered
    /\ CandidateAllowed(trigs, seed)
    /\ registered' = registered \cup {a}
    /\ triggers' = [triggers EXCEPT ![a] = trigs]
    /\ createdHeight' = [createdHeight EXCEPT ![a] = height]
    /\ spends' = IF seed = NoSpend THEN spends ELSE [spends EXCEPT ![a][seed.w.tx] = seed]
    /\ edges' = [DerivedEdges(a, seed) EXCEPT ![a] = ParentEdges(a, trigs)]
    /\ LET born == DerivePhase(spends'[a], NoForeclosure)
       IN  /\ phase' = [phase EXCEPT ![a] = born]
           /\ delivered' = [delivered EXCEPT ![a] = born]

\* attachExisting: a registration that carries the identity of an existing
\* anchoring unites its triggers in, unless a recorded satisfying candidate
\* would not spend the larger set whole.  One that stakes state of its own
\* is refused by an abandoned anchoring.
attachExisting(a, new, phase1OnAttach) ==
    /\ a \in registered
    /\ ~(phase1OnAttach /\ "abandoned" \in {phase[a].code, delivered[a].code})
    /\ \A t \in Txs : spends[a][t].verdict = "satisfies" => new \subseteq TxSpends[t]
    /\ triggers' = [triggers EXCEPT ![a] = @ \cup new]
    /\ edges' = [edges EXCEPT ![a] = ParentEdges(a, new)]
    /\ UNCHANGED <<registered, createdHeight, phase, delivered, spends>>

=============================================================================
