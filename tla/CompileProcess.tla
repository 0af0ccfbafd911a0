--------------------------- MODULE CompileProcess ---------------------------
(***************************************************************************)
(* compileLocalContext as it runs in several operating system processes at *)
(* once (CLI commands and MCP servers share one SQLite file).  A compile   *)
(* reads the clock and the repository, opens the session row, works        *)
(* outside any transaction, commits one ledger build under the session     *)
(* lock, rebuilds the pack summary, and releases the lock.                 *)
(***************************************************************************)
EXTENDS ContextLedger

CONSTANTS
    Procs,
    MaxCrashes      \* bound on the crashes of a behaviour

NoRow == [branch |-> "none"]
Unlocked == 0                   \* lock_token NULL, lock_status 'unlocked'

ASSUME ClocksAreTokens == Unlocked \notin Clocks

ASSUME MaxCrashesIsNatural == MaxCrashes \in Nat

VARIABLES
    clock,      \* the last timestamp read by a compile
    pc,         \* pc[p]: where the compile of process p is
    run,        \* run[p]: its inputs, and the session row it has read
    sessions,   \* context_sessions: NoRow, or branch, head and lock token
    events,     \* session_events of type session_invalidated
    crashes     \* crashes so far

compileVars == <<artifacts, packItems, sent, omitted,
                 clock, pc, run, sessions, events, crashes>>

Steps == {"idle", "started", "insert", "build", "release"}
Idle == [at |-> 0]

\* lock_token is random per compile; `at` is as unique and serves as the token.
Token(p) == run[p].at
MySession(p) == sessions[run[p].session]
Existed(p) == run[p].row # NoRow

\* Mutant: a reset hides the branch change.
BranchChangedUnlessReset(p) ==
    Existed(p) /\ ~run[p].reset /\ run[p].row.branch # run[p].shape.branch

BranchChanged(p) == Existed(p) /\ run[p].row.branch # run[p].shape.branch

Goto(p, step) == pc' = [pc EXCEPT ![p] = step]

CompileInit ==
    /\ LedgerInit
    /\ clock = 0
    /\ pc = [p \in Procs |-> "idle"]
    /\ run = [p \in Procs |-> Idle]
    /\ sessions = [s \in Sessions |-> NoRow]
    /\ events = {}
    /\ crashes = 0

----------------------------------------------------------------------------
(* Reads the clock first, then the repository: what the compile will produce
   (shape) is settled here, before it has looked at the session. *)
Start(p) ==
    /\ pc[p] = "idle"
    /\ clock + 1 \in Clocks
    /\ clock' = clock + 1
    /\ \E s \in Sessions, shape \in Shapes, reset \in BOOLEAN :
          run' = [run EXCEPT ![p] = [session |-> s, shape |-> shape, at |-> clock',
                                     reset |-> reset, row |-> NoRow]]
    /\ Goto(p, "started")
    /\ UNCHANGED <<ledgerVars, sessions, events, crashes>>

\* Reads the session row.  A locked row is another compile's: it throws.
OpenSession(p) ==
    /\ pc[p] = "started"
    /\ run' = [run EXCEPT ![p].row = MySession(p)]
    /\ \/ /\ MySession(p) = NoRow
          /\ Goto(p, "insert")
       \/ /\ MySession(p) # NoRow
          /\ Goto(p, IF MySession(p).lock = Unlocked THEN "build" ELSE "idle")
    /\ UNCHANGED <<ledgerVars, clock, sessions, events, crashes>>

\* Mutant: a failed insert goes unnoticed.
InsertSessionNothing(p) ==
    /\ pc[p] = "insert"
    /\ Goto(p, "build")
    /\ UNCHANGED <<ledgerVars, clock, run, sessions, events, crashes>>

\* Inserts the row it did not find.  If another process has inserted it since,
\* the primary key refuses and the compile throws.
InsertSession(p) ==
    /\ pc[p] = "insert"
    /\ \/ /\ MySession(p) = NoRow
          /\ sessions' = [sessions EXCEPT ![run[p].session] =
                             [branch |-> run[p].shape.branch,
                              head   |-> run[p].shape.commit,
                              lock   |-> Unlocked]]
          /\ Goto(p, "build")
       \/ /\ MySession(p) # NoRow
          /\ Goto(p, "idle")
          /\ UNCHANGED sessions
    /\ UNCHANGED <<ledgerVars, clock, run, events, crashes>>

\* Any error before the build's try block: session mismatch, a busy database,
\* indexing, proofs, claims, an incomplete artifact, a secret found in it.
Abandon(p) ==
    /\ pc[p] \in {"started", "insert", "build"}
    /\ Goto(p, "idle")
    /\ UNCHANGED <<ledgerVars, clock, run, sessions, events, crashes>>

ResetEffective(p) == run[p].reset /\ Existed(p)

\* Mutant: the build locks the row and leaves its branch and head as they were.
LockedRowOfOldBranch(p) == [MySession(p) EXCEPT !.lock = Token(p)]

LockedRow(p) ==
    IF Existed(p)
    THEN [branch |-> run[p].shape.branch, head |-> run[p].shape.commit,
          lock |-> Token(p)]
    ELSE [MySession(p) EXCEPT !.lock = Token(p)]

BuildEvents(p, n) ==
    {e \in {[artifact |-> n, reason |-> "branch_changed"],
            [artifact |-> n, reason |-> "session_reset"]} :
        \/ e.reason = "branch_changed" /\ BranchChanged(p)
        \/ e.reason = "session_reset"  /\ ResetEffective(p)}

\* The transaction of buildDurableContext.
CommitBuild(p) ==
    /\ pc[p] = "build"
    /\ MySession(p).lock = Unlocked
    /\ sessions' = [sessions EXCEPT ![run[p].session] = LockedRow(p)]
    /\ events' = events \cup BuildEvents(p, Len(artifacts) + 1)
    /\ Build(run[p].session, run[p].shape, run[p].at, ResetEffective(p))
    /\ Goto(p, "release")
    /\ UNCHANGED <<clock, run, crashes>>

\* Mutant: the artifact is written outside the transaction and survives it.
RollBackItemsOnly(p) ==
    /\ pc[p] = "build"
    /\ artifacts' = Append(artifacts,
          [session |-> run[p].session, at |-> run[p].at, shape |-> run[p].shape,
           reset |-> ResetEffective(p), dropped |-> {}])
    /\ Goto(p, "release")
    /\ UNCHANGED <<packItems, sent, omitted, clock, run, sessions, events, crashes>>

\* The transaction throws and rolls back: the lock is another compile's, or the
\* output files cannot be written.
RollBack(p) ==
    /\ pc[p] = "build"
    /\ Goto(p, "release")
    /\ UNCHANGED <<ledgerVars, clock, run, sessions, events, crashes>>

\* Mutant: releases whatever lock the session has.
ReleaseAnyToken(p) ==
    /\ pc[p] = "release"
    /\ sessions' = [sessions EXCEPT ![run[p].session].lock = Unlocked]
    /\ Goto(p, "idle")
    /\ UNCHANGED <<ledgerVars, clock, run, events, crashes>>

\* Mutant: a compile that inserted the row does not release the lock.
ReleaseExistedOnly(p) ==
    /\ pc[p] = "release"
    /\ sessions' = IF Existed(p) /\ MySession(p).lock = Token(p)
                   THEN [sessions EXCEPT ![run[p].session].lock = Unlocked]
                   ELSE sessions
    /\ Goto(p, "idle")
    /\ UNCHANGED <<ledgerVars, clock, run, events, crashes>>

\* The finally block, after the pack summary was rebuilt or failed to be.
Release(p) ==
    /\ pc[p] = "release"
    /\ sessions' = IF MySession(p).lock = Token(p)
                   THEN [sessions EXCEPT ![run[p].session].lock = Unlocked]
                   ELSE sessions
    /\ Goto(p, "idle")
    /\ UNCHANGED <<ledgerVars, clock, run, events, crashes>>

\* The process dies, or the database stays busy too long for its last write: the
\* compile ends where it is, and only the database survives it.
Crash(p) ==
    /\ pc[p] # "idle"
    /\ crashes < MaxCrashes
    /\ crashes' = crashes + 1
    /\ Goto(p, "idle")
    /\ UNCHANGED <<ledgerVars, clock, run, sessions, events>>

Proceed(p) ==
    \/ OpenSession(p)
    \/ InsertSession(p)
    \/ CommitBuild(p)
    \/ RollBack(p)
    \/ Release(p)

CompileNext ==
    \E p \in Procs : Start(p) \/ Proceed(p) \/ Abandon(p) \/ Crash(p)

CompileSpec == CompileInit /\ [][CompileNext]_compileVars

\* The code is straight-line and synchronous: a started compile that is not killed
\* goes on to its end.  Nothing obliges anybody to start one.
FairSpec == CompileSpec /\ \A p \in Procs : WF_compileVars(Proceed(p))

----------------------------------------------------------------------------
(* Properties *)

\* Types and references: timestamps and lock tokens were read from the clock, and a
\* compile that has opened its session has a row to build on.
CompileTypeOK ==
    /\ clock \in Clocks \cup {0}
    /\ pc \in [Procs -> Steps]
    /\ \A p \in Procs : pc[p] # "idle" => run[p].at \in 1 .. clock
    /\ \A p \in Procs : pc[p] \in {"build", "release"} => MySession(p) # NoRow
    /\ \A s \in Sessions :
          sessions[s] # NoRow => sessions[s].lock \in (1 .. clock) \cup {Unlocked}
    /\ crashes \in 0 .. MaxCrashes

Locked(s) == sessions[s] # NoRow /\ sessions[s].lock # Unlocked

\* p has committed its build and has not released the lock: it rebuilds the summary.
InSummary(p) ==
    /\ pc[p] = "release"
    /\ \E n \in ArtifactIds : artifacts[n].at = Token(p)

\* From its commit to its release a compile's token is on the session row, so no
\* other compile of the session commits in between, not even after a compile that
\* was refused has run its own release; and unless a process was killed, a locked
\* row has a live compile that will unlock it.
LockProtocol ==
    /\ \A p \in Procs : InSummary(p) => MySession(p).lock = Token(p)
    /\ crashes = 0 => \A s \in Sessions : Locked(s) =>
          \E p \in Procs : InSummary(p) /\ run[p].session = s

\* Every step of the processes is one ledger build or leaves the ledger alone:
\* a compile that fails, is refused or dies leaves no part of a build behind.
ImplementsLedger == LedgerSpec

\* A lock that is taken is given back.
LockReleased == \A s \in Sessions : Locked(s) ~> ~Locked(s)

\* The session row names the branch and head of the last build that was committed
\* for the session; what MCP writes are compared with (write-session-context.ts).
SessionTracksLastBuild ==
    \A s \in Sessions : \A n \in LastBuildOf(s) :
        /\ sessions[s].branch = artifacts[n].shape.branch
        /\ sessions[s].head = artifacts[n].shape.commit
=============================================================================
