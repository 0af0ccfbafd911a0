---------------------------- MODULE AgentContext ----------------------------
(***************************************************************************)
(* What the ledger promises an agent, without a ledger.  Per session the   *)
(* agent holds a set of deliveries.  Each turn it asks for a set of        *)
(* sections and receives a pack: some of its deliveries are revoked, some  *)
(* sections are delivered, some are only said to be unchanged, and a token *)
(* budget may prune optional ones.  Docs: docs/v1/contracts/context-diff.md*)
(***************************************************************************)
EXTENDS Integers, FiniteSets

CONSTANTS
    Sessions,
    Sections,
    Wants       \* the requests: functions from sections to [content, kind]

VARIABLES
    turn,       \* packs handed out, over all sessions
    held,       \* held[s]: deliveries the agent may still rely on
    pack        \* the last pack handed out

agentVars == <<turn, held, pack>>

NoPack == [session |-> {}]

Pruned(p) == (DOMAIN p.want) \ (p.delivered \cup p.unchanged)

Deliveries(p, t) ==
    {[turn |-> t, section |-> x, content |-> p.want[x].content] : x \in p.delivered}

\* A pack is honest when what it revokes and calls unchanged is what its own
\* session holds, pinned sections are always delivered, only optional ones are
\* pruned, and nothing revoked in this pack is called unchanged.
Honest(p) ==
    LET kept == held[p.session] \ p.revoked
    IN  /\ p.revoked \subseteq held[p.session]
        /\ p.delivered \cup p.unchanged \subseteq DOMAIN p.want
        /\ p.delivered \cap p.unchanged = {}
        /\ \A x \in p.unchanged :
              /\ p.want[x].kind # "pinned"
              /\ \E d \in kept : d.section = x /\ d.content = p.want[x].content
        /\ \A x \in Pruned(p) : p.want[x].kind = "optional"

AgentInit ==
    /\ turn = 0
    /\ held = [s \in Sessions |-> {}]
    /\ pack = NoPack

\* The agent takes its next turn and receives the pack it finds in pack'.
Turn ==
    /\ turn' = turn + 1
    /\ pack'.session \in Sessions
    /\ pack'.want \in Wants
    /\ Honest(pack')
    /\ held' = [held EXCEPT ![pack'.session] =
                   (@ \ pack'.revoked) \cup Deliveries(pack', turn')]

AgentSpec == AgentInit /\ [][Turn]_agentVars
=============================================================================
