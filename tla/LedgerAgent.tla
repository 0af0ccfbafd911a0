----------------------------- MODULE LedgerAgent -----------------------------
(***************************************************************************)
(* The ledger read as what the agent holds: the refinement mapping from    *)
(* ContextLedger to AgentContext.  A delivery is a sent row with the       *)
(* content it was sent with, and an agent holds the active ones of its     *)
(* session.                                                                *)
(***************************************************************************)
EXTENDS ContextLedger

WantOf(shape) == [x \in DOMAIN shape.sections |->
                    [content |-> shape.sections[x].content,
                     kind    |-> shape.sections[x].kind]]

Delivery(row) == [turn |-> row.artifact, section |-> row.section,
                  content |-> SectionOf(row).content]

HeldBy(s) == {Delivery(row) : row \in ActiveSent(s)}

PackOf(n) ==
    [session   |-> artifacts[n].session,
     want      |-> WantOf(artifacts[n].shape),
     delivered |-> {row.section : row \in {r \in sent : r.artifact = n}},
     unchanged |-> {o.section : o \in {r \in omitted : r.artifact = n}},
     revoked   |-> {Delivery(p.previous) :
                      p \in {q \in packItems : /\ q.artifact = n
                                               /\ q.state = "INVALIDATE_PREVIOUS"}}]

\* A delivery of artifact n is a delivery of the n-th turn.
Agent == INSTANCE AgentContext WITH
    Wants <- {WantOf(shape) : shape \in Shapes},
    turn  <- Len(artifacts),
    held  <- [s \in Sessions |-> HeldBy(s)],
    pack  <- IF artifacts = << >> THEN [session |-> {}] ELSE PackOf(Len(artifacts))

\* Every build is a turn of the promise: what a pack revokes is held by its own
\* session and not revoked before, what it calls unchanged is held with that very
\* content, and what it leaves out is optional.
KeepsPromise == Agent!AgentSpec
=============================================================================
