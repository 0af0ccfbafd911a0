------------------------ MODULE CompileProcessProofs ------------------------
(***************************************************************************)
(* Proofs about CompileProcess, for every number of processes, sessions,   *)
(* compiles and crashes: the processes together implement the ledger, so   *)
(* the ledger's theorems hold of them, and the session lock covers the     *)
(* stretch from a commit to its release.  While compiles do not overlap    *)
(* the session row, the ledger and what is said of a session stay true.    *)
(***************************************************************************)
EXTENDS Inspection, ContextLedgerProofs, WellFoundedInduction

Row == [branch : {sh.branch : sh \in Shapes},
        head   : {sh.commit : sh \in Shapes},
        lock   : Clocks \cup {Unlocked}]

Run == [session : Sessions, shape : Shapes, at : Clocks, reset : BOOLEAN,
        row : Row \cup {NoRow}]

\* A running compile has its inputs, and a row it has read is a session row.
RunsTyped ==
    /\ pc \in [Procs -> Steps]
    /\ DOMAIN run = Procs
    /\ \A p \in Procs : pc[p] # "idle" => run[p] \in Run
    /\ sessions \in [Sessions -> Row \cup {NoRow}]

\* The row a compile writes, of its branch, head and lock token, is a session row.
LEMMA ShapeRow ==
    ASSUME NEW shape \in Shapes, NEW lock \in Clocks \cup {Unlocked}
    PROVE  [branch |-> shape.branch, head |-> shape.commit, lock |-> lock] \in Row
  BY DEF Row

\* Every step of a compile keeps its inputs and the session rows typed.
LEMMA RunsTypedStep ==
    ASSUME RunsTyped, CompileNext
    PROVE  RunsTyped'
  <1> SUFFICES ASSUME NEW p \in Procs,
                      Start(p) \/ Proceed(p) \/ Abandon(p) \/ Crash(p)
               PROVE  RunsTyped'
    BY DEF CompileNext
  <1> USE DEF Goto, Steps
  <1>1. CASE Start(p)
    <2>1. PICK s \in Sessions, shape \in Shapes, reset \in BOOLEAN :
              run' = [run EXCEPT ![p] = [session |-> s, shape |-> shape,
                                         at |-> clock', reset |-> reset,
                                         row |-> NoRow]]
      BY <1>1 DEF Start
    <2>2. run'[p] \in Run
      BY <1>1, <2>1 DEF Start, Run, RunsTyped
    <2>3. \A q \in Procs : q # p => run'[q] = run[q] /\ pc'[q] = pc[q]
      BY <1>1, <2>1 DEF Start, RunsTyped
    <2> QED BY <1>1, <2>1, <2>2, <2>3 DEF Start, RunsTyped
  <1>2. CASE OpenSession(p)
    <2>1. pc[p] = "started" /\ run[p] \in Run /\ MySession(p) \in Row \cup {NoRow}
      BY <1>2 DEF OpenSession, RunsTyped, MySession, Run
    <2>2. run' = [run EXCEPT ![p].row = MySession(p)]
      BY <1>2 DEF OpenSession
    <2>3. run'[p] \in Run
      BY <2>1, <2>2 DEF Run, RunsTyped
    <2>4. \A q \in Procs : q # p => run'[q] = run[q] /\ pc'[q] = pc[q]
      BY <1>2 DEF OpenSession, RunsTyped
    <2>5. pc' \in [Procs -> Steps]
      BY <1>2 DEF OpenSession, RunsTyped
    <2> QED BY <1>2, <2>2, <2>3, <2>4, <2>5 DEF OpenSession, RunsTyped
  <1>3. CASE InsertSession(p)
    <2>1. run[p] \in Run
      BY <1>3 DEF InsertSession, RunsTyped
    <2>2. sessions' \in [Sessions -> Row \cup {NoRow}]
      BY <1>3, <2>1, ShapeRow DEF InsertSession, RunsTyped, Run
    <2> QED BY <1>3, <2>1, <2>2 DEF InsertSession, RunsTyped
  <1>4. CASE CommitBuild(p)
    <2>1. run[p] \in Run
      BY <1>4 DEF CommitBuild, RunsTyped
    <2>2. LockedRow(p) \in Row \cup {NoRow}
      <3>1. MySession(p) \in Row \cup {NoRow}
        BY <2>1 DEF RunsTyped, MySession, Run
      <3>2. Token(p) \in Clocks /\ run[p].shape \in Shapes
        BY <2>1 DEF Token, Run
      <3>3. [MySession(p) EXCEPT !.lock = Token(p)] \in Row \cup {NoRow}
        BY <3>1, <3>2 DEF Row, NoRow
      <3> QED BY <3>2, <3>3, ShapeRow DEF LockedRow
    <2>3. sessions' \in [Sessions -> Row \cup {NoRow}]
      BY <1>4, <2>2 DEF CommitBuild, RunsTyped
    <2> QED BY <1>4, <2>1, <2>3 DEF CommitBuild, RunsTyped
  <1>5. CASE RollBack(p)
    BY <1>5 DEF RollBack, RunsTyped
  <1>6. CASE Release(p)
    <2>1. run[p] \in Run
      BY <1>6 DEF Release, RunsTyped
    <2>2. sessions' \in [Sessions -> Row \cup {NoRow}]
      <3>1. MySession(p) \in Row \cup {NoRow} /\ run[p].session \in Sessions
        BY <2>1 DEF RunsTyped, MySession, Run
      <3>2. [MySession(p) EXCEPT !.lock = Unlocked] \in Row \cup {NoRow}
        BY <3>1 DEF Row, NoRow
      <3> QED BY <1>6, <3>1, <3>2 DEF Release, RunsTyped, MySession
    <2> QED BY <1>6, <2>1, <2>2 DEF Release, RunsTyped
  <1>7. CASE Abandon(p)
    BY <1>7 DEF Abandon, RunsTyped
  <1>8. CASE Crash(p)
    BY <1>8 DEF Crash, RunsTyped
  <1> QED BY <1>1, <1>2, <1>3, <1>4, <1>5, <1>6, <1>7, <1>8 DEF Proceed

\* A running compile always has its inputs, and the rows it reads are session rows.
LEMMA RunsAlwaysTyped == CompileSpec => []RunsTyped
  <1>1. CompileInit => RunsTyped
    BY DEF CompileInit, RunsTyped, Steps
  <1>2. RunsTyped /\ [CompileNext]_compileVars => RunsTyped'
    <2>1. ASSUME RunsTyped, UNCHANGED compileVars PROVE RunsTyped'
      BY <2>1 DEF compileVars, RunsTyped
    <2> QED BY <2>1, RunsTypedStep
  <1> QED BY <1>1, <1>2, PTL DEF CompileSpec

\* Every step of the processes is one ledger build or leaves the ledger alone: a
\* compile that fails, is refused or is killed leaves no part of a build behind.
THEOREM CompileImplementsLedger == CompileSpec => ImplementsLedger
  <1>1. CompileInit => LedgerInit
    BY DEF CompileInit
  <1>2. RunsTyped /\ [CompileNext]_compileVars => [LedgerNext]_ledgerVars
    <2> SUFFICES ASSUME RunsTyped, [CompileNext]_compileVars
                 PROVE  [LedgerNext]_ledgerVars
      OBVIOUS
    <2>1. ASSUME NEW p \in Procs, CommitBuild(p)
          PROVE  LedgerNext
      <3>1. run[p] \in Run
        BY <2>1 DEF CommitBuild, RunsTyped
      <3>2. /\ run[p].session \in Sessions /\ run[p].shape \in Shapes
            /\ run[p].at \in Clocks /\ ResetEffective(p) \in BOOLEAN
        BY <3>1 DEF Run, ResetEffective
      <3> QED BY <2>1, <3>2 DEF CommitBuild, LedgerNext
    <2>2. CASE CompileNext
      BY <2>1, <2>2 DEF CompileNext, Proceed, Start, OpenSession, InsertSession,
         RollBack, Release, Abandon, Crash
    <2>3. CASE UNCHANGED compileVars
      BY <2>3 DEF compileVars, ledgerVars
    <2> QED BY <2>2, <2>3
  <1> QED BY <1>1, <1>2, RunsAlwaysTyped, PTL
          DEF CompileSpec, ImplementsLedger, LedgerSpec

\* Whatever processes compile at once, fail or are killed, no pack leaves out a
\* section its session's agent was not validly sent.
THEOREM ConcurrentOmissionsAreBacked == CompileSpec => []OmitBacked
  BY CompileImplementsLedger, OmissionsAreBacked DEF ImplementsLedger

\* Through the ledger, concurrent compiles keep the promise to their agents: turn by
\* turn, what a pack revokes or calls unchanged is what the session's agent holds.
THEOREM CompilesKeepPromise == CompileSpec => KeepsPromise
  BY CompileImplementsLedger, LedgerKeepsPromise DEF ImplementsLedger

----------------------------------------------------------------------------
(* The session lock *)

InFlight == {"started", "insert", "build"}

\* A compile's token is its own: no other running compile has it, and no artifact
\* has it before the compile's own commit.
TokensFresh ==
    /\ clock \in Nat
    /\ \A p \in Procs : pc[p] # "idle" => run[p].at \leq clock
    /\ \A n \in ArtifactIds : artifacts[n].at \leq clock
    /\ \A p, q \in Procs :
          (p # q /\ pc[p] # "idle" /\ pc[q] # "idle") => run[p].at # run[q].at
    /\ \A p \in Procs : pc[p] \in InFlight =>
          \A n \in ArtifactIds : artifacts[n].at # run[p].at

\* A compile that is about to build, or has built, has its session's row.
RowsExist ==
    \A p \in Procs : pc[p] = "build" \/ InSummary(p) => MySession(p) \in Row

LockInv ==
    /\ crashes \in Nat
    /\ TokensFresh
    /\ RowsExist
    /\ LockProtocol

\* A running compile has a token, which never reads as unlocked, and a session.
LEMMA TokenOfRun ==
    ASSUME RunsTyped, NEW p \in Procs, pc[p] # "idle"
    PROVE  /\ run[p].at \in Nat /\ run[p].at # Unlocked
           /\ run[p].session \in Sessions
           /\ run[p].at \in Clocks
           /\ run[p].shape \in Shapes
           /\ run[p].reset \in BOOLEAN
  BY ClocksAreNaturals, ClocksAreTokens DEF RunsTyped, Run

\* What the commit of p adds to the artifacts: one, under p's token.
LEMMA CommitEffect ==
    ASSUME TypeOK, RunsTyped, NEW p \in Procs, CommitBuild(p)
    PROVE  \E n \in Nat :
              /\ ArtifactIds' = ArtifactIds \cup {n}
              /\ n \notin ArtifactIds
              /\ \A k \in ArtifactIds : artifacts'[k] = artifacts[k]
              /\ artifacts'[n].at = Token(p)
  <1>1. pc[p] # "idle"
    BY DEF CommitBuild
  <1>2. Build(run[p].session, run[p].shape, run[p].at, ResetEffective(p))
    BY DEF CommitBuild
  <1>3. ResetEffective(p) \in BOOLEAN
    BY DEF ResetEffective
  <1> QED BY <1>1, <1>2, <1>3, TokenOfRun, BuildEffect DEF Token

\* No step gives two running compiles the same token, nor an artifact the token of a
\* compile that has not committed.
LEMMA TokensStep ==
    ASSUME TypeOK, RunsTyped, TokensFresh, CompileNext
    PROVE  TokensFresh'
  <1> SUFFICES ASSUME NEW p \in Procs,
                      Start(p) \/ Proceed(p) \/ Abandon(p) \/ Crash(p)
               PROVE  TokensFresh'
    BY DEF CompileNext
  <1>1. CASE Start(p)
    <2>1. clock' = clock + 1 /\ clock' \in Nat
      BY <1>1 DEF Start, TokensFresh
    <2>2. run'[p].at = clock' /\ pc'[p] = "started"
      BY <1>1 DEF Start, RunsTyped, Goto
    <2>3. \A q \in Procs : q # p => run'[q] = run[q] /\ pc'[q] = pc[q]
      BY <1>1 DEF Start, RunsTyped, Goto
    <2>4. artifacts' = artifacts /\ ArtifactIds' = ArtifactIds
      BY <1>1 DEF Start, ledgerVars, ArtifactIds
    <2>5. \A q \in Procs : pc[q] # "idle" => run[q].at \in Nat
      BY TokenOfRun
    <2>6. \A n \in ArtifactIds : artifacts[n].at \in Nat
      BY StoredArtifacts, ClocksAreNaturals DEF Artifact
    <2> QED BY <2>1, <2>2, <2>3, <2>4, <2>5, <2>6 DEF TokensFresh, InFlight
  <1>2. CASE CommitBuild(p)
    <2>1. PICK n \in Nat :
              /\ ArtifactIds' = ArtifactIds \cup {n}
              /\ \A k \in ArtifactIds : artifacts'[k] = artifacts[k]
              /\ artifacts'[n].at = run[p].at
      BY <1>2, CommitEffect DEF Token
    <2>2. /\ pc[p] = "build" /\ pc'[p] = "release" /\ run' = run /\ clock' = clock
          /\ \A q \in Procs : q # p => pc'[q] = pc[q]
      BY <1>2 DEF CommitBuild, RunsTyped, Goto
    <2> QED BY <2>1, <2>2 DEF TokensFresh, InFlight
  <1>3. CASE /\ OpenSession(p) \/ InsertSession(p) \/ RollBack(p) \/ Release(p)
                 \/ Abandon(p) \/ Crash(p)
    <2>1. /\ artifacts' = artifacts /\ ArtifactIds' = ArtifactIds /\ clock' = clock
      BY <1>3 DEF OpenSession, InsertSession, RollBack, Release, Abandon, Crash,
                  ledgerVars, ArtifactIds
    <2>2. \A q \in Procs : run'[q].at = run[q].at
      <3>1. CASE OpenSession(p)
        <4>1. run[p] \in Run /\ DOMAIN run = Procs
          BY <3>1 DEF OpenSession, RunsTyped
        <4>2. run' = [run EXCEPT ![p].row = MySession(p)]
          BY <3>1 DEF OpenSession
        <4> QED BY <4>1, <4>2 DEF Run
      <3>2. CASE run' = run
        BY <3>2
      <3> QED BY <1>3, <3>1, <3>2
              DEF InsertSession, RollBack, Release, Abandon, Crash
    <2>3. ASSUME NEW q \in Procs
          PROVE  /\ pc'[q] # "idle" => pc[q] # "idle"
                 /\ pc'[q] \in InFlight => pc[q] \in InFlight
      <3> USE DEF Goto, InFlight
      <3>1. CASE OpenSession(p)
        BY <3>1 DEF OpenSession, RunsTyped
      <3>2. CASE InsertSession(p)
        BY <3>2 DEF InsertSession, RunsTyped
      <3>3. CASE RollBack(p)
        BY <3>3 DEF RollBack, RunsTyped
      <3>4. CASE Release(p) \/ Abandon(p) \/ Crash(p)
        BY <3>4 DEF Release, Abandon, Crash, RunsTyped
      <3> QED BY <1>3, <3>1, <3>2, <3>3, <3>4
    <2>4. \A q \in Procs : pc'[q] # "idle" => run'[q].at \leq clock'
      BY <2>1, <2>2, <2>3 DEF TokensFresh
    <2>5. \A q, r \in Procs : (q # r /\ pc'[q] # "idle" /\ pc'[r] # "idle")
                                 => run'[q].at # run'[r].at
      BY <2>2, <2>3 DEF TokensFresh
    <2>6. \A q \in Procs : pc'[q] \in InFlight =>
              \A n \in ArtifactIds : artifacts[n].at # run'[q].at
      BY <2>2, <2>3 DEF TokensFresh
    <2> QED BY <2>1, <2>4, <2>5, <2>6 DEF TokensFresh
  <1> QED BY <1>1, <1>2, <1>3 DEF Proceed

\* Only its own commit puts a compile into the summary, and only its own release,
\* or its death, takes it out.
LEMMA SummaryStep ==
    ASSUME TypeOK, RunsTyped, TokensFresh, NEW p \in Procs, NEW q \in Procs,
           Start(p) \/ Proceed(p) \/ Abandon(p) \/ Crash(p)
    PROVE  /\ q # p => run'[q] = run[q] /\ (InSummary(q)' <=> InSummary(q))
           /\ InSummary(p)' <=> CommitBuild(p)
  <1> USE DEF InSummary, Token
  <1>1. CASE CommitBuild(p)
    <2>1. PICK n \in Nat :
              /\ ArtifactIds' = ArtifactIds \cup {n}
              /\ \A k \in ArtifactIds : artifacts'[k] = artifacts[k]
              /\ artifacts'[n].at = run[p].at
      BY <1>1, CommitEffect
    <2>2. /\ pc[p] = "build" /\ pc'[p] = "release" /\ run' = run
          /\ \A r \in Procs : r # p => pc'[r] = pc[r]
      BY <1>1 DEF CommitBuild, RunsTyped, Goto
    <2>3. q # p /\ pc[q] # "idle" => run[q].at # run[p].at
      BY <2>2 DEF TokensFresh
    <2>4. InSummary(p)'
      BY <2>1, <2>2
    <2>5. q # p => (InSummary(q)' <=> InSummary(q))
      BY <2>1, <2>2, <2>3
    <2> QED BY <1>1, <2>2, <2>4, <2>5
  <1>2. CASE ~CommitBuild(p)
    <2>1. artifacts' = artifacts /\ ArtifactIds' = ArtifactIds
      BY <1>2 DEF Proceed, Start, OpenSession, InsertSession, RollBack, Release,
                  Abandon, Crash, ledgerVars, ArtifactIds
    <2>2. q # p => run'[q] = run[q] /\ pc'[q] = pc[q]
      BY <1>2 DEF Proceed, Start, OpenSession, InsertSession, RollBack, Release,
                  Abandon, Crash, Goto, RunsTyped
    <2>3. pc'[p] = "release" => RollBack(p)
      BY <1>2 DEF Proceed, Start, OpenSession, InsertSession, RollBack, Release,
                  Abandon, Crash, Goto, RunsTyped
    <2>4. RollBack(p) => ~InSummary(p)'
      BY <2>1 DEF RollBack, TokensFresh, InFlight
    <2> QED BY <1>2, <2>1, <2>2, <2>3, <2>4
  <1> QED BY <1>1, <1>2

\* A session row never goes away, and a row is where a compile is about to build.
LEMMA RowsStep ==
    ASSUME TypeOK, RunsTyped, TokensFresh, RowsExist, CompileNext
    PROVE  RowsExist'
  <1> SUFFICES ASSUME NEW p \in Procs,
                      Start(p) \/ Proceed(p) \/ Abandon(p) \/ Crash(p)
               PROVE  RowsExist'
    BY DEF CompileNext
  <1>1. \A s \in Sessions : sessions[s] \in Row => sessions'[s] \in Row
    <2>1. CASE InsertSession(p)
      BY <2>1, TokenOfRun, ShapeRow DEF InsertSession, RunsTyped
    <2>2. CASE CommitBuild(p)
      <3>1. MySession(p) \in Row
        BY <2>2 DEF CommitBuild, RowsExist
      <3>2. LockedRow(p) \in Row
        BY <2>2, <3>1, TokenOfRun, ShapeRow DEF CommitBuild, LockedRow, Token, Row
      <3> QED BY <2>2, <3>2 DEF CommitBuild, RunsTyped
    <2>3. CASE Release(p)
      BY <2>3, TokenOfRun DEF Release, RunsTyped, Row
    <2>4. CASE sessions' = sessions
      BY <2>4
    <2> QED BY <2>1, <2>2, <2>3, <2>4 DEF Proceed, Start, OpenSession, RollBack,
                                         Abandon, Crash
  <1>2. ASSUME NEW q \in Procs, q # p, pc'[q] = "build" \/ InSummary(q)'
        PROVE  MySession(q)' \in Row
    <2>1. pc'[q] = pc[q]
      BY <1>2 DEF Proceed, Start, OpenSession, InsertSession, CommitBuild, RollBack,
                  Release, Abandon, Crash, Goto, RunsTyped
    <2>2. run'[q] = run[q] /\ (pc[q] = "build" \/ InSummary(q))
      BY <1>2, <2>1, SummaryStep
    <2>3. MySession(q) \in Row /\ run[q].session \in Sessions
      BY <2>2, TokenOfRun DEF RowsExist, InSummary
    <2> QED BY <1>1, <2>2, <2>3 DEF MySession
  <1>3. ASSUME pc'[p] = "build" \/ InSummary(p)'
        PROVE  MySession(p)' \in Row
    <2>1. InSummary(p)' => CommitBuild(p)
      BY SummaryStep
    <2>2. CASE CommitBuild(p)
      <3>1. MySession(p) \in Row /\ run[p].session \in Sessions /\ run' = run
        BY <2>2, TokenOfRun DEF CommitBuild, RowsExist
      <3> QED BY <1>1, <3>1 DEF MySession
    <2>3. CASE OpenSession(p) /\ pc'[p] = "build"
      <3>1. run[p] \in Run /\ run' = [run EXCEPT ![p].row = MySession(p)]
        BY <2>3 DEF OpenSession, RunsTyped
      <3>2. run'[p].session = run[p].session /\ run[p].session \in Sessions
        BY <3>1 DEF Run, RunsTyped
      <3>3. MySession(p) # NoRow /\ sessions' = sessions
        BY <2>3 DEF OpenSession, Goto, RunsTyped
      <3> QED BY <3>2, <3>3 DEF MySession, RunsTyped
    <2>4. CASE InsertSession(p) /\ pc'[p] = "build"
      <3>1. MySession(p) = NoRow
        BY <2>4 DEF InsertSession, Goto, RunsTyped
      <3> QED BY <2>4, <3>1, TokenOfRun, ShapeRow
              DEF InsertSession, MySession, RunsTyped
    <2> QED BY <1>3, <2>1, <2>2, <2>3, <2>4
            DEF Proceed, Start, RollBack, Release, Abandon, Crash, Goto, RunsTyped
  <1> QED BY <1>2, <1>3 DEF RowsExist

\* No step takes the lock from a compile that rebuilds its summary, or leaves a lock
\* behind without one: the refused compile's release does not match its token.
LEMMA LockStep ==
    ASSUME TypeOK, RunsTyped, LockInv, CompileNext
    PROVE  LockProtocol'
  <1> SUFFICES ASSUME NEW p \in Procs,
                      Start(p) \/ Proceed(p) \/ Abandon(p) \/ Crash(p)
               PROVE  LockProtocol'
    BY DEF CompileNext
  <1>1. \A q \in Procs : InSummary(q) =>
            /\ MySession(q) \in Row
            /\ MySession(q).lock = run[q].at
            /\ run[q].at # Unlocked
            /\ run[q].session \in Sessions
            /\ pc[q] = "release"
    BY TokenOfRun DEF LockInv, RowsExist, LockProtocol, InSummary, Token
  <1>2. \A q \in Procs : q # p =>
            run'[q] = run[q] /\ (InSummary(q)' <=> InSummary(q))
    BY SummaryStep DEF LockInv
  <1>3. InSummary(p)' <=> CommitBuild(p)
    BY SummaryStep DEF LockInv
  <1>4. CASE CommitBuild(p)
    <2>1. /\ MySession(p) \in Row /\ MySession(p).lock = Unlocked
          /\ run[p].session \in Sessions /\ run' = run /\ crashes' = crashes
          /\ sessions' = [sessions EXCEPT ![run[p].session] = LockedRow(p)]
      BY <1>4, TokenOfRun DEF CommitBuild, LockInv, RowsExist
    <2>2. LockedRow(p).lock = run[p].at
      BY <2>1 DEF LockedRow, Token, Row
    <2>3. \A q \in Procs : q # p /\ InSummary(q) => run[q].session # run[p].session
      BY <1>1, <2>1 DEF MySession
    <2>4. \A q \in Procs : InSummary(q)' => (MySession(q).lock = Token(q))'
      BY <1>1, <1>2, <2>1, <2>2, <2>3 DEF MySession, Token, RunsTyped
    <2>5. ASSUME crashes' = 0, NEW s \in Sessions, Locked(s)'
          PROVE  \E q \in Procs : InSummary(q)' /\ run'[q].session = s
      <3>1. CASE s = run[p].session
        BY <1>3, <1>4, <2>1, <3>1
      <3>2. CASE s # run[p].session
        <4>1. Locked(s)
          BY <2>1, <2>5, <3>2 DEF Locked, RunsTyped
        <4>2. PICK q \in Procs : InSummary(q) /\ run[q].session = s
          BY <2>1, <2>5, <4>1 DEF LockInv, LockProtocol
        <4> QED BY <1>2, <3>2, <4>2
      <3> QED BY <3>1, <3>2
    <2> QED BY <2>4, <2>5 DEF LockProtocol
  <1>5. CASE Release(p)
    <2>1. /\ run' = run /\ crashes' = crashes /\ pc[p] = "release"
          /\ run[p].session \in Sessions
      BY <1>5, TokenOfRun DEF Release
    <2>2. \A s \in Sessions : sessions'[s] # sessions[s] =>
              /\ s = run[p].session
              /\ sessions[s].lock = run[p].at
      BY <1>5, <2>1 DEF Release, MySession, Token, RunsTyped
    <2>3. \A q \in Procs : q # p /\ InSummary(q) => run[q].at # run[p].at
      BY <1>1, <2>1 DEF LockInv, TokensFresh
    <2>4. \A q \in Procs : InSummary(q)' => (MySession(q).lock = Token(q))'
      BY <1>1, <1>2, <1>3, <1>5, <2>1, <2>2, <2>3
         DEF MySession, Token, Release, CommitBuild
    <2>5. ASSUME crashes' = 0, NEW s \in Sessions, Locked(s)'
          PROVE  \E q \in Procs : InSummary(q)' /\ run'[q].session = s
      <3>1. sessions'[s] = sessions[s]
        BY <1>5, <2>1, <2>2, <2>5 DEF Release, MySession, Token, RunsTyped, Locked, Row
      <3>2. PICK q \in Procs : InSummary(q) /\ run[q].session = s
        BY <2>1, <2>5, <3>1 DEF LockInv, LockProtocol, Locked
      <3>3. q # p
        <4> SUFFICES ASSUME q = p PROVE FALSE
          OBVIOUS
        <4>1. sessions[s] \in Row /\ sessions[s].lock = run[p].at
          BY <1>1, <3>2 DEF MySession
        <4>2. sessions'[s].lock = Unlocked
          BY <1>5, <2>1, <3>2, <4>1 DEF Release, MySession, Token, RunsTyped, Row
        <4> QED BY <2>5, <4>2 DEF Locked
      <3> QED BY <1>2, <3>2, <3>3
    <2> QED BY <2>4, <2>5 DEF LockProtocol
  <1>6. CASE InsertSession(p)
    <2>1. pc[p] = "insert" /\ run' = run /\ crashes' = crashes
      BY <1>6 DEF InsertSession
    <2>2. \A s \in Sessions : sessions'[s] # sessions[s] =>
              sessions[s] = NoRow /\ sessions'[s].lock = Unlocked
      BY <1>6, <2>1, TokenOfRun DEF InsertSession, MySession, RunsTyped
    <2>3. NoRow \notin Row
      BY DEF NoRow, Row
    <2>4. \A q \in Procs : InSummary(q)' => (MySession(q).lock = Token(q))'
      BY <1>1, <1>2, <1>3, <1>6, <2>1, <2>2, <2>3
         DEF MySession, Token, InsertSession, CommitBuild
    <2>5. ASSUME crashes' = 0, NEW s \in Sessions, Locked(s)'
          PROVE  \E q \in Procs : InSummary(q)' /\ run'[q].session = s
      <3>1. Locked(s)
        BY <2>2, <2>5 DEF Locked
      <3>2. PICK q \in Procs : InSummary(q) /\ run[q].session = s
        BY <2>1, <2>5, <3>1 DEF LockInv, LockProtocol
      <3> QED BY <1>1, <1>2, <2>1, <3>2
    <2> QED BY <2>4, <2>5 DEF LockProtocol
  <1>7. CASE Start(p) \/ OpenSession(p) \/ RollBack(p) \/ Abandon(p)
    <2>1. sessions' = sessions /\ crashes' = crashes /\ pc[p] # "release"
      BY <1>7 DEF Start, OpenSession, RollBack, Abandon
    <2>2. ~InSummary(p) /\ ~InSummary(p)'
      <3>1. ArtifactIds' = ArtifactIds
        BY <1>7 DEF Start, OpenSession, RollBack, Abandon, ledgerVars, ArtifactIds
      <3>2. ~CommitBuild(p)
        BY <3>1, CommitEffect
      <3> QED BY <1>3, <2>1, <3>2 DEF InSummary
    <2>3. \A q \in Procs : InSummary(q)' => (MySession(q).lock = Token(q))'
      BY <1>1, <1>2, <2>1, <2>2 DEF MySession, Token
    <2> QED BY <1>2, <2>1, <2>2, <2>3 DEF LockProtocol, LockInv, Locked
  <1>8. CASE Crash(p)
    <2>1. sessions' = sessions /\ crashes' = crashes + 1 /\ crashes' # 0
          /\ pc'[p] = "idle"
      BY <1>8 DEF Crash, LockInv, Goto, RunsTyped
    <2>2. ~InSummary(p)'
      BY <2>1 DEF InSummary
    <2>3. \A q \in Procs : InSummary(q)' => (MySession(q).lock = Token(q))'
      BY <1>1, <1>2, <2>1, <2>2 DEF MySession, Token
    <2> QED BY <2>1, <2>3 DEF LockProtocol
  <1> QED BY <1>4, <1>5, <1>6, <1>7, <1>8 DEF Proceed

\* From its commit to its release a compile's token is on the session row, so no
\* other compile of the session commits in between, and unless a process was
\* killed a locked row has a live compile that will unlock it.
THEOREM LockProtocolHolds == CompileSpec => []LockProtocol
  <1>1. CompileInit => LockInv
    BY DEF CompileInit, LedgerInit, LockInv, TokensFresh, RowsExist, LockProtocol,
           InSummary, Locked, InFlight, ArtifactIds
  <1>2. TypeOK /\ RunsTyped /\ LockInv /\ [CompileNext]_compileVars => LockInv'
    <2> SUFFICES ASSUME TypeOK, RunsTyped, LockInv, [CompileNext]_compileVars
                 PROVE  LockInv'
      OBVIOUS
    <2>1. CASE CompileNext
      <3>1. crashes' \in Nat
        BY <2>1 DEF CompileNext, LockInv, Proceed, Start, OpenSession, InsertSession,
                    CommitBuild, RollBack, Release, Abandon, Crash
      <3> QED BY <2>1, <3>1, TokensStep, RowsStep, LockStep DEF LockInv
    <2>2. CASE UNCHANGED compileVars
      BY <2>2 DEF compileVars, LockInv, TokensFresh, RowsExist, LockProtocol,
                  InSummary, Locked, InFlight, ArtifactIds, MySession, Token
    <2> QED BY <2>1, <2>2
  <1>3. CompileSpec => []TypeOK
    BY CompileImplementsLedger, TypeCorrect DEF ImplementsLedger
  <1>4. LockInv => LockProtocol
    BY DEF LockInv
  <1> QED BY <1>1, <1>2, <1>3, <1>4, RunsAlwaysTyped, PTL DEF CompileSpec

----------------------------------------------------------------------------
(* Types, and the session row *)

TypedInv == RunsTyped /\ CompileTypeOK

\* A session row is not the absence of one.
LEMMA NoRowIsNone == NoRow \notin Row
  BY DEF NoRow, Row

\* No step takes a session row away.
LEMMA RowsStay ==
    ASSUME TypedInv, CompileNext,
           NEW s \in Sessions, sessions[s] # NoRow
    PROVE  sessions'[s] # NoRow
  <1> SUFFICES ASSUME NEW p \in Procs,
                      Start(p) \/ Proceed(p) \/ Abandon(p) \/ Crash(p)
               PROVE  sessions'[s] # NoRow
    BY DEF CompileNext
  <1> USE DEF TypedInv
  <1>1. CASE InsertSession(p)
    BY <1>1, TokenOfRun DEF InsertSession, RunsTyped, MySession
  <1>2. CASE CommitBuild(p)
    <2>1. MySession(p) \in Row /\ run[p].session \in Sessions
      BY <1>2, TokenOfRun DEF CommitBuild, RunsTyped, CompileTypeOK, MySession
    <2>2. LockedRow(p) \in Row
      BY <1>2, <2>1, TokenOfRun, ShapeRow DEF CommitBuild, LockedRow, Token, Row
    <2> QED BY <1>2, <2>1, <2>2, NoRowIsNone DEF CommitBuild, RunsTyped
  <1>3. CASE Release(p)
    <2>1. MySession(p) \in Row /\ run[p].session \in Sessions
      BY <1>3, TokenOfRun DEF Release, RunsTyped, CompileTypeOK, MySession
    <2>2. [MySession(p) EXCEPT !.lock = Unlocked] \in Row
      BY <2>1 DEF Row
    <2> QED BY <1>3, <2>1, <2>2, NoRowIsNone DEF Release, RunsTyped, MySession
  <1>4. CASE sessions' = sessions
    BY <1>4
  <1> QED BY <1>1, <1>2, <1>3, <1>4
          DEF Proceed, Start, OpenSession, RollBack, Abandon, Crash

\* Every step keeps the clock, the tokens and the rows that compiles build on.
LEMMA TypedStep ==
    ASSUME TypedInv, CompileNext
    PROVE  TypedInv'
  <1> SUFFICES ASSUME NEW p \in Procs,
                      Start(p) \/ Proceed(p) \/ Abandon(p) \/ Crash(p)
               PROVE  TypedInv'
    BY DEF CompileNext
  <1> USE DEF TypedInv
  <1>1. RunsTyped'
    BY RunsTypedStep
  <1>2. /\ clock' \in Clocks \cup {0} /\ clock \in Nat /\ clock' \in Nat
        /\ clock \leq clock'
    BY ClocksAreNaturals
       DEF Proceed, Start, OpenSession, InsertSession, CommitBuild, RollBack,
           Release, Abandon, Crash, CompileTypeOK
  <1>3. crashes' \in 0 .. MaxCrashes
    BY MaxCrashesIsNatural
       DEF Proceed, Start, OpenSession, InsertSession, CommitBuild, RollBack,
           Release, Abandon, Crash, CompileTypeOK
  <1>4. /\ \A q \in Procs : q # p => run'[q] = run[q] /\ pc'[q] = pc[q]
        /\ ~Start(p) => /\ pc'[p] # "idle" => pc[p] # "idle"
                        /\ run'[p].at = run[p].at
                        /\ run'[p].session = run[p].session
    <2>1. CASE Start(p)
      BY <2>1 DEF Start, Goto, RunsTyped
    <2>2. CASE OpenSession(p)
      <3>1. run[p] \in Run /\ run' = [run EXCEPT ![p].row = MySession(p)]
        BY <2>2 DEF OpenSession, RunsTyped
      <3> QED BY <2>2, <3>1 DEF OpenSession, Goto, RunsTyped, Run
    <2>3. CASE InsertSession(p) \/ CommitBuild(p) \/ RollBack(p) \/ Release(p)
                  \/ Abandon(p) \/ Crash(p)
      BY <2>3 DEF InsertSession, CommitBuild, RollBack, Release, Abandon, Crash,
                  Goto, RunsTyped
    <2> QED BY <2>1, <2>2, <2>3 DEF Proceed
  <1>5. \A q \in Procs : pc'[q] # "idle" => run'[q].at \in 1 .. clock'
    <2>1. CASE Start(p)
      <3>1. run'[p].at = clock' /\ clock' = clock + 1
        BY <2>1 DEF Start, RunsTyped
      <3> QED BY <1>2, <1>4, <3>1 DEF CompileTypeOK
    <2> QED BY <1>2, <1>4, <2>1 DEF CompileTypeOK
  <1>6. \A q \in Procs : pc'[q] \in {"build", "release"} => MySession(q)' # NoRow
    <2>1. ASSUME NEW q \in Procs, pc[q] \in {"build", "release"},
                 run'[q].session = run[q].session
          PROVE  MySession(q)' # NoRow
      <3>1. MySession(q) # NoRow /\ run[q].session \in Sessions
        BY <2>1, TokenOfRun DEF CompileTypeOK
      <3> QED BY <2>1, <3>1, RowsStay DEF MySession
    <2>2. CASE Start(p)
      BY <1>4, <2>1, <2>2 DEF Start, Goto, RunsTyped
    <2>3. CASE OpenSession(p)
      <3>1. pc'[p] = "build" => MySession(p) # NoRow
        BY <2>3 DEF OpenSession, Goto, RunsTyped
      <3>2. ~Start(p) /\ sessions' = sessions /\ pc'[p] # "release"
        BY <2>3 DEF OpenSession, Start, Goto, RunsTyped
      <3> QED BY <1>4, <2>1, <3>1, <3>2 DEF MySession
    <2>4. CASE InsertSession(p)
      <3>1. run[p].session \in Sessions /\ run' = run /\ run[p].shape \in Shapes
        BY <2>4, TokenOfRun DEF InsertSession
      <3>2. pc'[p] \in {"build", "release"} => MySession(p)' # NoRow
        BY <2>4, <3>1, ShapeRow, NoRowIsNone
           DEF InsertSession, Goto, RunsTyped, MySession
      <3> QED BY <1>4, <2>1, <3>1, <3>2
    <2>5. CASE CommitBuild(p) \/ RollBack(p) \/ Release(p) \/ Abandon(p) \/ Crash(p)
      <3>1. pc'[p] \in {"build", "release"} => pc[p] \in {"build", "release"}
        BY <2>5 DEF CommitBuild, RollBack, Release, Abandon, Crash, Goto, RunsTyped
      <3>2. run' = run
        BY <2>5 DEF CommitBuild, RollBack, Release, Abandon, Crash
      <3> QED BY <1>4, <2>1, <3>1, <3>2
    <2> QED BY <2>2, <2>3, <2>4, <2>5 DEF Proceed
  <1>7. \A s \in Sessions : sessions'[s] # NoRow =>
            sessions'[s].lock \in (1 .. clock') \cup {Unlocked}
    <2>1. \A s \in Sessions : sessions'[s] = sessions[s] =>
              (sessions'[s] # NoRow =>
                  sessions'[s].lock \in (1 .. clock') \cup {Unlocked})
      BY <1>2 DEF CompileTypeOK
    <2>2. CASE InsertSession(p)
      BY <2>1, <2>2, TokenOfRun DEF InsertSession, RunsTyped
    <2>3. CASE CommitBuild(p)
      <3>1. MySession(p) \in Row /\ run[p].session \in Sessions
        BY <2>3, TokenOfRun DEF CommitBuild, RunsTyped, CompileTypeOK, MySession
      <3>2. LockedRow(p).lock = run[p].at
        BY <3>1 DEF LockedRow, Token, Row
      <3>3. run[p].at \in 1 .. clock'
        BY <2>3, <1>2 DEF CommitBuild, CompileTypeOK
      <3> QED BY <2>1, <2>3, <3>1, <3>2, <3>3 DEF CommitBuild, RunsTyped
    <2>4. CASE Release(p)
      <3>1. MySession(p) \in Row /\ run[p].session \in Sessions
        BY <2>4, TokenOfRun DEF Release, RunsTyped, CompileTypeOK, MySession
      <3>2. [MySession(p) EXCEPT !.lock = Unlocked].lock = Unlocked
        BY <3>1 DEF Row
      <3> QED BY <2>1, <2>4, <3>1, <3>2 DEF Release, RunsTyped, MySession
    <2>5. CASE sessions' = sessions
      BY <2>1, <2>5
    <2> QED BY <2>2, <2>3, <2>4, <2>5
            DEF Proceed, Start, OpenSession, RollBack, Abandon, Crash
  <1> QED BY <1>1, <1>2, <1>3, <1>5, <1>6, <1>7 DEF RunsTyped, CompileTypeOK

\* The types hold in every state of the processes.
LEMMA TypedInvariance == CompileSpec => []TypedInv
  <1>1. CompileInit => TypedInv
    BY MaxCrashesIsNatural
       DEF CompileInit, TypedInv, RunsTyped, CompileTypeOK, Steps
  <1>2. TypedInv /\ [CompileNext]_compileVars => TypedInv'
    <2>1. ASSUME TypedInv, UNCHANGED compileVars PROVE TypedInv'
      BY <2>1 DEF compileVars, TypedInv, RunsTyped, CompileTypeOK, MySession
    <2> QED BY <2>1, TypedStep
  <1> QED BY <1>1, <1>2, PTL DEF CompileSpec

\* Timestamps and lock tokens were read from the clock, and a compile that has opened
\* its session has a row to build on, whatever the others do to the table.
THEOREM CompileTypeCorrect == CompileSpec => []CompileTypeOK
  <1>1. TypedInv => CompileTypeOK
    BY DEF TypedInv
  <1> QED BY <1>1, TypedInvariance, PTL

----------------------------------------------------------------------------
(* The session row names what was last built for the session, unless compiles
   of several processes overlap: a compile that inserted the row commits with the
   row as another process has rewritten it since (the run of MCSessionRow). *)

\* Compiles do not overlap: there is one process.
OneProcess == \A p, q \in Procs : p = q

\* A session that has a build has a row; one that compiles inserted itself, and has
\* not built on yet, names what it compiles.
RowsFollow ==
    /\ \A n \in ArtifactIds : sessions[artifacts[n].session] # NoRow
    /\ \A p \in Procs : pc[p] = "insert" => ~Existed(p)
    /\ \A p \in Procs : pc[p] = "build" /\ ~Existed(p) =>
          /\ MySession(p).branch = run[p].shape.branch
          /\ MySession(p).head = run[p].shape.commit

RowInv == TypedInv /\ TypeOK /\ RowsFollow /\ SessionTracksLastBuild

\* Steps other than a commit leave the artifacts alone, and of the rows only the
\* locks, but for the one that is inserted.
LEMMA BetweenBuilds ==
    ASSUME RowInv, NEW p \in Procs,
           Start(p) \/ Proceed(p) \/ Abandon(p) \/ Crash(p), ~CommitBuild(p)
    PROVE  /\ artifacts' = artifacts /\ ArtifactIds' = ArtifactIds
           /\ \A s \in Sessions : sessions[s] # NoRow =>
                 /\ sessions'[s].branch = sessions[s].branch
                 /\ sessions'[s].head = sessions[s].head
  <1>1. artifacts' = artifacts /\ ArtifactIds' = ArtifactIds
    BY DEF Proceed, Start, OpenSession, InsertSession, RollBack, Release, Abandon,
           Crash, ledgerVars, ArtifactIds
  <1>2. ASSUME NEW s \in Sessions, sessions[s] # NoRow
        PROVE  /\ sessions'[s].branch = sessions[s].branch
               /\ sessions'[s].head = sessions[s].head
    <2>1. CASE InsertSession(p)
      BY <1>2, <2>1, TokenOfRun
         DEF InsertSession, RowInv, TypedInv, RunsTyped, MySession
    <2>2. CASE Release(p)
      <3>1. sessions[s] \in Row
        BY <1>2 DEF RowInv, TypedInv, RunsTyped
      <3> QED BY <2>2, <3>1, TokenOfRun
              DEF Release, RowInv, TypedInv, RunsTyped, MySession, Row
    <2>3. CASE sessions' = sessions
      BY <2>3
    <2> QED BY <2>1, <2>2, <2>3
            DEF Proceed, Start, OpenSession, RollBack, Abandon, Crash
  <1> QED BY <1>1, <1>2

\* A stored artifact belongs to a session.
LEMMA BuiltSessions ==
    ASSUME TypeOK, NEW n \in ArtifactIds
    PROVE  artifacts[n].session \in Sessions
  BY StoredArtifacts DEF Artifact

\* The only process opens or inserts a row, and builds on the row as it left it.
LEMMA RowsFollowStep ==
    ASSUME OneProcess, RowInv, CompileNext
    PROVE  RowsFollow' /\ SessionTracksLastBuild'
  <1> SUFFICES ASSUME NEW p \in Procs,
                      Start(p) \/ Proceed(p) \/ Abandon(p) \/ Crash(p)
               PROVE  RowsFollow' /\ SessionTracksLastBuild'
    BY DEF CompileNext
  <1>1. \A q \in Procs : q = p
    BY DEF OneProcess
  <1>2. CASE CommitBuild(p)
    <2>1. /\ run[p].session \in Sessions /\ run[p].shape \in Shapes
          /\ run[p].at \in Clocks /\ ResetEffective(p) \in BOOLEAN
          /\ run' = run /\ pc'[p] = "release"
          /\ Build(run[p].session, run[p].shape, run[p].at, ResetEffective(p))
          /\ sessions' = [sessions EXCEPT ![run[p].session] = LockedRow(p)]
      BY <1>2, TokenOfRun
         DEF CommitBuild, ResetEffective, Goto, RowInv, TypedInv, RunsTyped
    <2>2. MySession(p) \in Row
      BY <1>2, <2>1
         DEF CommitBuild, RowInv, TypedInv, RunsTyped, CompileTypeOK, MySession
    <2>3. LockedRow(p).branch = run[p].shape.branch
             /\ LockedRow(p).head = run[p].shape.commit
      BY <1>2, <2>2 DEF CommitBuild, LockedRow, RowInv, RowsFollow, Row
    <2>4. LockedRow(p) # NoRow
      BY <2>1, <2>2, ShapeRow, NoRowIsNone DEF LockedRow, Token, Row
    <2>5. PICK n \in Nat :
              /\ ArtifactIds' = ArtifactIds \cup {n}
              /\ \A k \in ArtifactIds : artifacts'[k] = artifacts[k] /\ k < n
              /\ artifacts'[n].session = run[p].session
              /\ artifacts'[n].shape = run[p].shape
      BY <2>1, BuildEffect DEF RowInv
    <2>6. \A k \in ArtifactIds : artifacts[k].session \in Sessions
      BY BuiltSessions DEF RowInv
    <2>7. \A k \in ArtifactIds' : sessions'[artifacts'[k].session] # NoRow
      BY <2>1, <2>4, <2>5, <2>6 DEF RowInv, RowsFollow, TypedInv, RunsTyped
    <2>8. RowsFollow'
      BY <1>1, <2>1, <2>7 DEF RowsFollow
    <2>9. ASSUME NEW s \in Sessions, NEW k \in LastBuildOf(s)'
          PROVE  /\ sessions'[s].branch = artifacts'[k].shape.branch
                 /\ sessions'[s].head = artifacts'[k].shape.commit
      <3>1. k \in ArtifactIds' /\ artifacts'[k].session = s
            /\ \A m \in ArtifactIds' : artifacts'[m].session = s => m \leq k
        BY <2>9 DEF LastBuildOf
      <3>2. CASE s = run[p].session
        <4>1. n \leq k /\ ArtifactIds \subseteq Nat
          BY <2>5, <3>1, <3>2 DEF ArtifactIds
        <4>2. k = n
          BY <2>5, <3>1, <4>1
        <4>3. sessions'[s] = LockedRow(p)
          BY <2>1, <3>2 DEF RowInv, TypedInv, RunsTyped
        <4> QED BY <2>3, <2>5, <4>2, <4>3
      <3>3. CASE s # run[p].session
        <4>1. k \in ArtifactIds /\ sessions'[s] = sessions[s]
          BY <2>1, <2>5, <3>1, <3>3 DEF RowInv, TypedInv, RunsTyped
        <4>2. k \in LastBuildOf(s)
          BY <2>5, <3>1, <4>1 DEF LastBuildOf
        <4> QED BY <2>5, <4>1, <4>2 DEF RowInv, SessionTracksLastBuild
      <3> QED BY <3>2, <3>3
    <2> QED BY <2>8, <2>9 DEF SessionTracksLastBuild
  <1>3. CASE ~CommitBuild(p)
    <2>1. /\ artifacts' = artifacts /\ ArtifactIds' = ArtifactIds
          /\ \A s \in Sessions : sessions[s] # NoRow =>
                /\ sessions'[s].branch = sessions[s].branch
                /\ sessions'[s].head = sessions[s].head
      BY <1>3, BetweenBuilds
    <2>2. \A k \in ArtifactIds : artifacts[k].session \in Sessions
                                   /\ sessions[artifacts[k].session] # NoRow
      BY BuiltSessions DEF RowInv, RowsFollow
    <2>3. \A k \in ArtifactIds' : sessions'[artifacts'[k].session] # NoRow
      <3>1. CompileNext
        OBVIOUS
      <3> QED BY <2>1, <2>2, <3>1, RowsStay DEF RowInv
    <2>4. SessionTracksLastBuild'
      <3>1. \A s \in Sessions : LastBuildOf(s)' = LastBuildOf(s)
        BY <2>1 DEF LastBuildOf
      <3>2. \A s \in Sessions : \A n \in LastBuildOf(s) : sessions[s] # NoRow
        BY <2>2 DEF LastBuildOf
      <3> QED BY <2>1, <3>1, <3>2 DEF RowInv, SessionTracksLastBuild
    <2>5. /\ pc'[p] = "insert" => ~Existed(p)'
          /\ pc'[p] = "build" /\ ~Existed(p)' =>
                /\ (MySession(p).branch = run[p].shape.branch)'
                /\ (MySession(p).head = run[p].shape.commit)'
      <3>1. CASE OpenSession(p)
        <4>1. run[p] \in Run /\ run' = [run EXCEPT ![p].row = MySession(p)]
          BY <3>1 DEF OpenSession, RowInv, TypedInv, RunsTyped
        <4>2. run'[p].row = MySession(p)
          BY <4>1 DEF Run, RowInv, TypedInv, RunsTyped
        <4>3. pc'[p] = "insert" => MySession(p) = NoRow
          BY <3>1 DEF OpenSession, Goto, RowInv, TypedInv, RunsTyped
        <4>4. pc'[p] = "build" => MySession(p) # NoRow
          BY <3>1 DEF OpenSession, Goto, RowInv, TypedInv, RunsTyped
        <4> QED BY <4>2, <4>3, <4>4 DEF Existed
      <3>2. CASE InsertSession(p)
        <4>1. /\ run' = run /\ run[p].session \in Sessions
              /\ pc'[p] = "build" =>
                    sessions' = [sessions EXCEPT ![run[p].session] =
                                    [branch |-> run[p].shape.branch,
                                     head   |-> run[p].shape.commit,
                                     lock   |-> Unlocked]]
              /\ pc'[p] # "insert"
          BY <3>2, TokenOfRun DEF InsertSession, Goto, RowInv, TypedInv, RunsTyped
        <4> QED BY <4>1 DEF MySession, RowInv, TypedInv, RunsTyped
      <3>3. CASE Start(p) \/ RollBack(p) \/ Release(p) \/ Abandon(p) \/ Crash(p)
        BY <3>3 DEF Start, RollBack, Release, Abandon, Crash, Goto,
                    RowInv, TypedInv, RunsTyped
      <3> QED BY <1>3, <3>1, <3>2, <3>3 DEF Proceed
    <2>6. RowsFollow'
      BY <1>1, <2>3, <2>5 DEF RowsFollow
    <2> QED BY <2>4, <2>6
  <1> QED BY <1>2, <1>3

\* The session row that MCP writes are compared with names the branch and head of
\* the session's last build, when compiles do not overlap.
THEOREM SessionRowFollows ==
    ASSUME OneProcess
    PROVE  CompileSpec => []SessionTracksLastBuild
  <1>1. CompileInit => RowsFollow /\ SessionTracksLastBuild
    BY DEF CompileInit, LedgerInit, ArtifactIds, RowsFollow, LastBuildOf,
           SessionTracksLastBuild
  <1>2. TypedInv /\ TypeOK /\ RowsFollow /\ SessionTracksLastBuild
           /\ [CompileNext]_compileVars
           => RowsFollow' /\ SessionTracksLastBuild'
    <2>1. ASSUME RowInv, UNCHANGED compileVars
          PROVE  RowsFollow' /\ SessionTracksLastBuild'
      BY <2>1 DEF compileVars, RowInv, RowsFollow, SessionTracksLastBuild,
                  LastBuildOf, ArtifactIds, MySession, Existed
    <2> QED BY <2>1, RowsFollowStep DEF RowInv
  <1>3. CompileSpec => []TypeOK
    BY CompileImplementsLedger, TypeCorrect DEF ImplementsLedger
  <1>4. CompileSpec => []TypedInv
    BY TypedInvariance
  <1> QED BY <1>1, <1>2, <1>3, <1>4, PTL DEF CompileSpec

----------------------------------------------------------------------------
(* What the ledger says an agent holds, while compiles do not overlap *)

\* Everything stored was compiled before what is being compiled now.
ClocksFollow ==
    /\ \A n \in ArtifactIds : artifacts[n].at \in 1 .. clock
    /\ \A p \in Procs : pc[p] \in {"started", "insert", "build"} =>
          \A n \in ArtifactIds : artifacts[n].at < run[p].at

LastPackInv == ClocksFollow /\ LedgerMatchesLastPack

\* The only process commits later clocks than those that are stored.
LEMMA LastPackInvStep ==
    ASSUME OneProcess, TypedInv, LedgerInv, LastPackInv, CompileNext
    PROVE  LastPackInv'
  <1> SUFFICES ASSUME NEW p \in Procs,
                      Start(p) \/ Proceed(p) \/ Abandon(p) \/ Crash(p)
               PROVE  LastPackInv'
    BY DEF CompileNext
  <1>1. \A q \in Procs : q = p
    BY DEF OneProcess
  <1>2. clock \in Nat
    BY ClocksAreNaturals DEF TypedInv, CompileTypeOK
  <1>3. CASE CommitBuild(p)
    <2>1. /\ run[p].session \in Sessions /\ run[p].shape \in Shapes
          /\ run[p].at \in Clocks /\ ResetEffective(p) \in BOOLEAN
          /\ clock' = clock /\ pc'[p] = "release"
          /\ Build(run[p].session, run[p].shape, run[p].at, ResetEffective(p))
      BY <1>3, TokenOfRun DEF CommitBuild, ResetEffective, Goto, TypedInv, RunsTyped
    <2>2. run[p].at \in 1 .. clock /\ \A n \in ArtifactIds : artifacts[n].at < run[p].at
      BY <1>3 DEF CommitBuild, TypedInv, CompileTypeOK, LastPackInv, ClocksFollow
    <2>3. PICK n :
              /\ ArtifactIds' = ArtifactIds \cup {n}
              /\ \A k \in ArtifactIds : artifacts'[k] = artifacts[k]
              /\ artifacts'[n].at = run[p].at
      BY <2>1, BuildEffect DEF LedgerInv
    <2>4. ClocksFollow'
      BY <1>1, <2>1, <2>2, <2>3 DEF LastPackInv, ClocksFollow
    <2>5. LedgerMatchesLastPack'
      BY <2>1, <2>2, LastPackStep DEF LastPackInv
    <2> QED BY <2>4, <2>5 DEF LastPackInv
  <1>4. CASE ~CommitBuild(p)
    <2>1. UNCHANGED ledgerVars
      BY <1>4 DEF Proceed, Start, OpenSession, InsertSession, RollBack, Release, Abandon, Crash
    <2>2. LedgerMatchesLastPack'
      BY <2>1, LastPackKept DEF LastPackInv
    <2>3. artifacts' = artifacts /\ ArtifactIds' = ArtifactIds
      BY <2>1 DEF ledgerVars, ArtifactIds
    <2>4. CASE Start(p)
      <3>1. clock' = clock + 1 /\ run'[p].at = clock'
        BY <2>4 DEF Start, TypedInv, RunsTyped
      <3> QED BY <1>1, <1>2, <2>2, <2>3, <3>1 DEF LastPackInv, ClocksFollow
    <2>5. CASE Proceed(p) \/ Abandon(p) \/ Crash(p)
      <3>1. /\ clock' = clock /\ run'[p].at = run[p].at
            /\ pc'[p] \in {"started", "insert", "build"}
                  => pc[p] \in {"started", "insert", "build"}
        <4>1. CASE OpenSession(p)
          <5>1. run[p] \in Run /\ run' = [run EXCEPT ![p].row = MySession(p)]
            BY <4>1 DEF OpenSession, TypedInv, RunsTyped
          <5> QED BY <4>1, <5>1 DEF OpenSession, Goto, TypedInv, RunsTyped, Run
        <4>2. CASE InsertSession(p) \/ RollBack(p) \/ Release(p) \/ Abandon(p) \/ Crash(p)
          BY <4>2 DEF InsertSession, RollBack, Release, Abandon, Crash, Goto, TypedInv, RunsTyped
        <4> QED BY <1>4, <2>5, <4>1, <4>2 DEF Proceed
      <3> QED BY <1>1, <2>2, <2>3, <3>1 DEF LastPackInv, ClocksFollow
    <2> QED BY <2>4, <2>5
  <1> QED BY <1>3, <1>4

\* The ledger's invariant holds of the processes.
LEMMA LedgerInvOfCompiles == CompileSpec => []LedgerInv
  BY CompileImplementsLedger, LedgerInvariance, PTL DEF ImplementsLedger

\* While compiles do not overlap, the ledger knows what each agent was last told: what the
\* next build reads as held has the content of the last pack and is not stale to it.
THEOREM LastPackFollows ==
    ASSUME OneProcess
    PROVE  CompileSpec => []LedgerMatchesLastPack
  <1>1. CompileInit => LastPackInv
    BY DEF CompileInit, LedgerInit, ArtifactIds, LastPackInv, ClocksFollow, LastBuildOf,
           LedgerMatchesLastPack
  <1>2. TypedInv /\ LedgerInv /\ LastPackInv /\ [CompileNext]_compileVars => LastPackInv'
    <2>1. ASSUME LastPackInv, UNCHANGED compileVars
          PROVE  LastPackInv'
      BY <2>1, LastPackKept DEF compileVars, ledgerVars, LastPackInv, ClocksFollow, ArtifactIds
    <2> QED BY <2>1, LastPackInvStep
  <1>3. LastPackInv => LedgerMatchesLastPack
    BY DEF LastPackInv
  <1> QED BY <1>1, <1>2, <1>3, TypedInvariance, LedgerInvOfCompiles, PTL DEF CompileSpec

----------------------------------------------------------------------------
(* What the commands that inspect a project say of it *)

\* A bounded set of naturals has a greatest element.
LEMMA GreatestElement ==
    ASSUME NEW m \in Nat, NEW T, T \subseteq 0 .. m, T # {}
    PROVE  \E x \in T : \A y \in T : y =< x
  <1>1. PICK D : D = {d \in 0 .. m : m - d \in T}
    OBVIOUS
  <1>2. D \subseteq Nat /\ D # {}
    <2>1. PICK t \in T : TRUE
      OBVIOUS
    <2>2. PICK d : d = m - t
      OBVIOUS
    <2>3. d \in 0 .. m /\ m - d = t
      BY <2>1, <2>2
    <2>4. d \in D
      BY <1>1, <2>1, <2>3
    <2>5. D \subseteq Nat
      BY <1>1
    <2> QED BY <2>4, <2>5
  <1>3. PICK d \in D : \A y \in D : <<y, d>> \notin OpToRel(<, Nat)
    BY <1>2, WFMin, NatLessThanWellFounded, Zenon
  <1>4. \A y \in D : ~(y < d)
    BY <1>2, <1>3, Zenon DEF OpToRel
  <1>5. d \in 0 .. m /\ m - d \in T
    BY <1>1
  <1>6. \A y \in T : m - y \in D /\ y \in 0 .. m
    BY <1>1
  <1>7. \A y \in T : y =< m - d
    BY <1>4, <1>5, <1>6
  <1> QED BY <1>5, <1>7

\* A session with a build has a last one.
LEMMA LastBuildExists ==
    ASSUME TypeOK, NEW n \in ArtifactIds
    PROVE  \E m \in LastBuildOf(artifacts[n].session) : n =< m
  <1>1. Len(artifacts) \in Nat
    BY DEF TypeOK
  <1>2. PICK T : T = {m \in ArtifactIds : artifacts[m].session = artifacts[n].session}
    OBVIOUS
  <1>3. T \subseteq 0 .. Len(artifacts) /\ n \in T
    BY <1>1, <1>2 DEF ArtifactIds
  <1>4. PICK x \in T : \A y \in T : y =< x
    BY <1>1, <1>3, GreatestElement
  <1>5. x \in LastBuildOf(artifacts[n].session)
    BY <1>2, <1>4 DEF LastBuildOf
  <1> QED BY <1>3, <1>4, <1>5

\* Where a session has active rows, one of them was sent last.
LEMMA LatestExists ==
    ASSUME TypeOK, clock \in Nat, \A n \in ArtifactIds : artifacts[n].at =< clock,
           NEW s, NEW row \in ActiveSent(s)
    PROVE  LatestActive(s) # {}
  <1>1. PICK T : T = {ArtifactOf(r).at : r \in ActiveSent(s)}
    OBVIOUS
  <1>2. \A r \in ActiveSent(s) : ArtifactOf(r).at \in 0 .. clock
    <2> SUFFICES ASSUME NEW r \in ActiveSent(s)
                 PROVE  ArtifactOf(r).at \in 0 .. clock
      OBVIOUS
    <2>1. r.artifact \in ArtifactIds
      BY DEF ActiveSent, TypeOK, SentRow
    <2>2. artifacts[r.artifact].at \in Nat /\ artifacts[r.artifact].at =< clock
      BY <2>1, StoredArtifacts, ClocksAreNaturals DEF Artifact
    <2> QED BY <2>2 DEF ArtifactOf
  <1>3. T \subseteq 0 .. clock /\ T # {}
    BY <1>1, <1>2
  <1>4. PICK x \in T : \A y \in T : y =< x
    BY <1>3, GreatestElement
  <1>5. PICK r \in ActiveSent(s) : ArtifactOf(r).at = x
    BY <1>1
  <1>6. \A other \in ActiveSent(s) : ~(ArtifactOf(other).at > ArtifactOf(r).at)
    BY <1>1, <1>2, <1>4, <1>5
  <1> QED BY <1>5, <1>6 DEF LatestActive

SameHead(a, b) == a.branch = b.branch /\ a.commit = b.commit

\* Nothing was invalidated: what a session was sent is of the branch and commit of
\* everything that was compiled for it since.
RowsKept ==
    \A row \in sent : InvalidationsOf(SessionOf(row)) = {} =>
        \A n \in ArtifactIds :
            row.artifact =< n /\ artifacts[n].session = SessionOf(row)
                => SameHead(ArtifactOf(row).shape, artifacts[n].shape)

\* A build of another session, or one that invalidates nothing, keeps that.
LEMMA RowsKeptStep ==
    ASSUME LedgerInv, RowsKept,
           clock \in Nat, \A k \in ArtifactIds : artifacts[k].at =< clock,
           NEW s \in Sessions, NEW shape \in Shapes, NEW at \in Clocks,
           NEW reset \in BOOLEAN,
           Build(s, shape, at, reset)
    PROVE  RowsKept'
  <1> DEFINE n == Len(artifacts) + 1
  <1>0. TypeOK
    BY DEF LedgerInv
  <1>1. /\ \A k \in ArtifactIds : artifacts'[k] = artifacts[k] /\ k < n
        /\ ArtifactIds' = ArtifactIds \cup {n} /\ n \notin ArtifactIds
        /\ artifacts'[n].session = s /\ artifacts'[n].shape = shape
    BY <1>0, BuildEffect
  <1>2. /\ packItems \cup InvalidationItems(n, StalePrior(s, shape, reset)) \subseteq packItems'
        /\ \A row \in sent' : row \in sent \/ row.artifact = n
    <2>1. PICK kept \in SUBSET DiffItems(n, shape, CurrentPrior(s, shape, reset)) :
              /\ packItems' = packItems
                    \cup InvalidationItems(n, StalePrior(s, shape, reset)) \cup kept
              /\ sent' = sent \cup SentRows(kept)
      BY BuildRows
    <2>2. \A row \in SentRows(kept) : row.artifact = n
      BY DiffItem DEF SentRows
    <2> QED BY <2>1, <2>2
  <1> HIDE DEF n
  <1>3. SUFFICES ASSUME NEW row \in sent', InvalidationsOf(SessionOf(row))' = {},
                        NEW m \in ArtifactIds', row.artifact =< m,
                        artifacts'[m].session = SessionOf(row)'
                 PROVE  SameHead(ArtifactOf(row).shape, artifacts[m].shape)'
    BY DEF RowsKept
  <1>4. CASE row.artifact = n
    <2>1. m = n
      BY <1>1, <1>3, <1>4 DEF ArtifactIds
    <2> QED BY <1>4, <2>1 DEF SameHead, ArtifactOf
  <1>5. CASE row.artifact # n
    <2>1. row \in sent /\ row.artifact \in ArtifactIds
      BY <1>0, <1>2, <1>5 DEF TypeOK, SentRow
    <2>2. /\ SessionOf(row)' = SessionOf(row) /\ ArtifactOf(row)' = ArtifactOf(row)
      BY <1>1, <2>1 DEF SessionOf, ArtifactOf
    <2>3. \A p \in packItems' : p.state = "INVALIDATE_PREVIOUS"
              => artifacts'[p.artifact].session # SessionOf(row)
      BY <1>3, <2>2 DEF InvalidationsOf, SessionOf, ArtifactOf
    <2>4. InvalidationsOf(SessionOf(row)) = {}
      <3>1. \A p \in packItems : p \in packItems' /\ p.artifact \in ArtifactIds
        BY <1>0, <1>2 DEF TypeOK, PackItem
      <3> QED BY <1>1, <2>3, <3>1 DEF InvalidationsOf, SessionOf, ArtifactOf
    <2>5. CASE m \in ArtifactIds
      BY <1>1, <1>3, <2>1, <2>2, <2>4, <2>5 DEF RowsKept, SameHead
    <2>6. CASE m = n
      <3>1. SessionOf(row) = s
        BY <1>1, <1>3, <2>2, <2>6
      <3>2. StalePrior(s, shape, reset) = {}
        <4>1. ASSUME NEW old \in StalePrior(s, shape, reset)
              PROVE  FALSE
          <5>1. PICK p : p = [artifact |-> n, section |-> old.section, previous |-> old,
                              state |-> "INVALIDATE_PREVIOUS"]
            OBVIOUS
          <5>2. p \in packItems' /\ p.artifact = n /\ p.state = "INVALIDATE_PREVIOUS"
            BY <1>2, <4>1, <5>1 DEF InvalidationItems
          <5> QED BY <1>1, <2>3, <3>1, <5>2
        <4> QED BY <4>1
      <3>3. row \in ActiveSent(s)
        BY <2>1, <2>4, <3>1 DEF ActiveSent, Invalidated, InvalidationsOf
      <3>4. PICK last \in LatestActive(s) : TRUE
        BY <1>0, <3>3, LatestExists
      <3>5. /\ last \in sent /\ SessionOf(last) = s /\ last.artifact \in ArtifactIds
            /\ SameHead(ArtifactOf(last).shape, shape)
        <4>1. last \in sent /\ SessionOf(last) = s
          BY <3>4, PriorRows
        <4>2. ~Stale(last, shape)
          BY <3>2, <3>4 DEF StalePrior
        <4> QED BY <1>0, <4>1, <4>2 DEF Stale, SameHead, TypeOK, SentRow
      <3>6. SameHead(ArtifactOf(row).shape, ArtifactOf(last).shape)
        <4>1. row.artifact \in Nat /\ last.artifact \in Nat
          BY <2>1, <3>5 DEF ArtifactIds
        <4>2. CASE row.artifact =< last.artifact
          BY <2>1, <2>4, <3>1, <3>5, <4>2 DEF RowsKept, SessionOf, ArtifactOf
        <4>3. CASE last.artifact =< row.artifact
          BY <2>1, <2>4, <3>1, <3>5, <4>3 DEF RowsKept, SessionOf, ArtifactOf, SameHead
        <4> QED BY <4>1, <4>2, <4>3
      <3> QED BY <1>1, <2>2, <2>6, <3>5, <3>6 DEF SameHead
    <2> QED BY <1>1, <2>5, <2>6
  <1> QED BY <1>4, <1>5

Event(n, reason) == [artifact |-> n, reason |-> reason]

\* The events of a build say whether it was a reset, and whether the branch had moved
\* since the build before it.
EventsTrue ==
    /\ \A e \in events : e.artifact \in ArtifactIds
    /\ \A n \in ArtifactIds :
          /\ Event(n, "session_reset") \in events <=> artifacts[n].reset
          /\ \A m \in BuildBefore(n) :
                Event(n, "branch_changed") \in events
                    <=> artifacts[m].shape.branch # artifacts[n].shape.branch

\* The row that a compile has read is of the last build of its session; it has found
\* none only where nothing was built.
RowsRead ==
    \A p \in Procs : pc[p] \in {"insert", "build"} =>
        /\ ~Existed(p) => \A n \in ArtifactIds : artifacts[n].session # run[p].session
        /\ Existed(p) => \A n \in LastBuildOf(run[p].session) :
                             artifacts[n].shape.branch = run[p].row.branch

\* The artifact of a build keeps whether it was a reset.
LEMMA BuildKeepsReset ==
    ASSUME TypeOK, NEW s \in Sessions, NEW shape \in Shapes, NEW at \in Clocks,
           NEW reset \in BOOLEAN, Build(s, shape, at, reset)
    PROVE  artifacts'[Len(artifacts) + 1].reset = reset
  <1>1. PICK a : artifacts' = Append(artifacts, a) /\ a.reset = reset
    BY DEF Build, InsertArtifact
  <1>2. artifacts \in Seq(Artifact)
    BY DEF TypeOK
  <1> QED BY <1>1, <1>2

\* The build before a build is not changed by later ones; for a new build it is what
\* was the last one of its session.
LEMMA BuildsBefore ==
    ASSUME TypeOK, NEW n \in Nat, n = Len(artifacts) + 1, NEW s,
           \A k \in ArtifactIds : artifacts'[k] = artifacts[k],
           artifacts'[n].session = s
    PROVE  /\ \A k \in ArtifactIds : BuildBefore(k)' = BuildBefore(k)
           /\ BuildBefore(n)' = LastBuildOf(s)
  <1>1. Len(artifacts) \in Nat /\ ArtifactIds = 1 .. n - 1
    BY DEF TypeOK, ArtifactIds
  <1>2. ASSUME NEW k \in ArtifactIds
        PROVE  BuildBefore(k)' = BuildBefore(k)
    <2>1. \A m \in 1 .. k : artifacts'[m] = artifacts[m]
      BY <1>1
    <2>2. \A m \in 1 .. k - 1 : m \in 1 .. k /\ \A j \in m + 1 .. k - 1 : j \in 1 .. k
      BY <1>1
    <2>3. artifacts'[k] = artifacts[k]
      OBVIOUS
    <2> QED BY <2>1, <2>2, <2>3 DEF BuildBefore
  <1>3. BuildBefore(n)' = LastBuildOf(s)
    <2>1. BuildBefore(n)' = {m \in 1 .. n - 1 : /\ artifacts[m].session = s
                                /\ \A k \in m + 1 .. n - 1 : artifacts[k].session # s}
      <3>1. \A m \in 1 .. n - 1 : \A k \in m + 1 .. n - 1 : artifacts'[k] = artifacts[k]
        BY <1>1
      <3> QED BY <1>1, <3>1 DEF BuildBefore
    <2>2. \A m \in 1 .. n - 1 :
              (\A k \in m + 1 .. n - 1 : artifacts[k].session # s)
                  <=> (\A k \in 1 .. n - 1 : artifacts[k].session = s => k =< m)
      <3> SUFFICES ASSUME NEW m \in 1 .. n - 1
                   PROVE  (\A k \in m + 1 .. n - 1 : artifacts[k].session # s)
                            <=> (\A k \in 1 .. n - 1 : artifacts[k].session = s => k =< m)
        OBVIOUS
      <3>1. \A k \in 1 .. n - 1 : k =< m \/ k \in m + 1 .. n - 1
        OBVIOUS
      <3>2. \A k \in m + 1 .. n - 1 : k \in 1 .. n - 1 /\ ~(k =< m)
        OBVIOUS
      <3> QED BY <3>1, <3>2
    <2> QED BY <1>1, <2>1, <2>2 DEF LastBuildOf
  <1> QED BY <1>2, <1>3

\* What a commit records is true of the two builds.
LEMMA EventsStep ==
    ASSUME TypeOK, RunsTyped, EventsTrue, RowsRead, NEW p \in Procs, CommitBuild(p)
    PROVE  EventsTrue'
  <1>1. PICK n : n = Len(artifacts) + 1
    OBVIOUS
  <1>2. PICK s, shape, reset :
            s = run[p].session /\ shape = run[p].shape /\ reset = ResetEffective(p)
    OBVIOUS
  <1>3. /\ s \in Sessions /\ shape \in Shapes /\ run[p].at \in Clocks /\ reset \in BOOLEAN
        /\ Build(s, shape, run[p].at, reset)
        /\ events' = events \cup BuildEvents(p, n)
    BY <1>1, <1>2, TokenOfRun DEF CommitBuild, ResetEffective
  <1>4. /\ \A k \in ArtifactIds : artifacts'[k] = artifacts[k]
        /\ n \in Nat /\ n \notin ArtifactIds /\ ArtifactIds' = ArtifactIds \cup {n}
        /\ artifacts'[n].session = s /\ artifacts'[n].shape = shape
    BY <1>1, <1>3, BuildEffect
  <1>5. artifacts'[n].reset = reset
    BY <1>1, <1>3, BuildKeepsReset
  <1>6. /\ \A k \in ArtifactIds : BuildBefore(k)' = BuildBefore(k)
        /\ BuildBefore(n)' = LastBuildOf(s)
    BY <1>1, <1>4, BuildsBefore
  <1>7. /\ \A e \in BuildEvents(p, n) : e.artifact = n
        /\ Event(n, "session_reset") \in BuildEvents(p, n) <=> ResetEffective(p)
        /\ Event(n, "branch_changed") \in BuildEvents(p, n) <=> BranchChanged(p)
    BY DEF BuildEvents, Event
  <1>8. \A reason : Event(n, reason) \notin events
    BY <1>4 DEF EventsTrue, Event
  <1>9. \A k \in ArtifactIds : \A reason :
            Event(k, reason) \in events' <=> Event(k, reason) \in events
    <2>1. \A k \in ArtifactIds : \A reason : Event(k, reason) \notin BuildEvents(p, n)
      BY <1>4, <1>7 DEF Event
    <2> QED BY <1>3, <2>1
  <1>10. \A e \in events' : e.artifact \in ArtifactIds'
    BY <1>3, <1>4, <1>7 DEF EventsTrue
  <1>11. ASSUME NEW k \in ArtifactIds
         PROVE  /\ Event(k, "session_reset") \in events' <=> artifacts'[k].reset
                /\ \A m \in BuildBefore(k)' : Event(k, "branch_changed") \in events'
                        <=> artifacts'[m].shape.branch # artifacts'[k].shape.branch
    <2>1. Event(k, "session_reset") \in events' <=> artifacts'[k].reset
      BY <1>4, <1>9, Zenon DEF EventsTrue
    <2>2. ASSUME NEW m \in BuildBefore(k)
          PROVE  Event(k, "branch_changed") \in events'
                    <=> artifacts'[m].shape.branch # artifacts'[k].shape.branch
      <3>1. m \in ArtifactIds
        <4>1. Len(artifacts) \in Nat
          BY DEF TypeOK
        <4> QED BY <4>1 DEF BuildBefore, ArtifactIds
      <3> QED BY <1>4, <1>9, <3>1 DEF EventsTrue
    <2> QED BY <1>6, <2>1, <2>2
  <1>12. Event(n, "session_reset") \in events' <=> artifacts'[n].reset
    BY <1>2, <1>3, <1>5, <1>7, <1>8, Zenon
  <1>13. ASSUME NEW m \in LastBuildOf(s)
         PROVE  Event(n, "branch_changed") \in events'
                    <=> artifacts'[m].shape.branch # artifacts'[n].shape.branch
    <2>1. m \in ArtifactIds /\ artifacts[m].session = s
      BY DEF LastBuildOf
    <2>2. Existed(p) /\ artifacts[m].shape.branch = run[p].row.branch
      BY <1>2, <2>1 DEF RowsRead, CommitBuild
    <2>3. BranchChanged(p) <=> artifacts[m].shape.branch # shape.branch
      BY <1>2, <2>2 DEF BranchChanged
    <2>4. Event(n, "branch_changed") \in events' <=> BranchChanged(p)
      BY <1>3, <1>7, <1>8
    <2> QED BY <1>4, <2>1, <2>3, <2>4
  <1>14. \A k \in ArtifactIds' :
            /\ Event(k, "session_reset") \in events' <=> artifacts'[k].reset
            /\ \A m \in BuildBefore(k)' : Event(k, "branch_changed") \in events'
                    <=> artifacts'[m].shape.branch # artifacts'[k].shape.branch
    <2> SUFFICES ASSUME NEW k \in ArtifactIds'
                 PROVE  /\ Event(k, "session_reset") \in events' <=> artifacts'[k].reset
                        /\ \A m \in BuildBefore(k)' : Event(k, "branch_changed") \in events'
                                <=> artifacts'[m].shape.branch # artifacts'[k].shape.branch
      OBVIOUS
    <2>1. CASE k = n
      BY <1>6, <1>12, <1>13, <2>1, Zenon
    <2>2. CASE k \in ArtifactIds
      BY <1>11, <2>2, Zenon
    <2> QED BY <1>4, <2>1, <2>2
  <1> QED BY <1>10, <1>14, Zenon DEF EventsTrue, Event

\* The only process reads the row of the session's last build, and keeps it until its
\* own build.
LEMMA RowsReadStep ==
    ASSUME OneProcess, RowInv, RowsRead, CompileNext
    PROVE  RowsRead'
  <1> SUFFICES ASSUME NEW p \in Procs,
                      Start(p) \/ Proceed(p) \/ Abandon(p) \/ Crash(p)
               PROVE  RowsRead'
    BY DEF CompileNext
  <1>1. \A q \in Procs : q = p
    BY DEF OneProcess
  <1>2. CASE OpenSession(p)
    <2>1. /\ artifacts' = artifacts /\ ArtifactIds' = ArtifactIds /\ sessions' = sessions
          /\ run' = [run EXCEPT ![p].row = MySession(p)] /\ run[p] \in Run
      BY <1>2 DEF OpenSession, ledgerVars, ArtifactIds, RowInv, TypedInv, RunsTyped
    <2>2. run'[p].row = MySession(p) /\ run'[p].session = run[p].session
             /\ run[p].session \in Sessions
      BY <2>1 DEF Run, RowInv, TypedInv, RunsTyped
    <2>3. PICK s : s = run[p].session
      OBVIOUS
    <2>4. MySession(p) = NoRow => \A n \in ArtifactIds : artifacts[n].session # s
      BY <2>3 DEF RowInv, RowsFollow, MySession
    <2>5. \A n \in LastBuildOf(s) : artifacts[n].shape.branch = MySession(p).branch
      BY <2>2, <2>3 DEF RowInv, SessionTracksLastBuild, MySession
    <2>6. LastBuildOf(s)' = LastBuildOf(s)
      BY <2>1 DEF LastBuildOf
    <2>7. /\ ~Existed(p)' => \A n \in ArtifactIds' : artifacts'[n].session # run'[p].session
          /\ \A n \in LastBuildOf(s)' : artifacts'[n].shape.branch = run'[p].row.branch
      BY <2>1, <2>2, <2>3, <2>4, <2>5, <2>6 DEF Existed
    <2>8. LastBuildOf(run[p].session)' = LastBuildOf(s)'
      BY <2>2, <2>3 DEF LastBuildOf
    <2> QED BY <1>1, <2>7, <2>8 DEF RowsRead
  <1>3. CASE InsertSession(p)
    <2>1. /\ artifacts' = artifacts /\ ArtifactIds' = ArtifactIds /\ run' = run
          /\ pc[p] = "insert"
      BY <1>3 DEF InsertSession, ledgerVars, ArtifactIds
    <2> QED BY <1>1, <2>1 DEF RowsRead, Existed, LastBuildOf
  <1>4. CASE CommitBuild(p) \/ RollBack(p) \/ Release(p) \/ Abandon(p) \/ Crash(p) \/ Start(p)
    <2>1. pc'[p] \notin {"insert", "build"}
      BY <1>4 DEF CommitBuild, RollBack, Release, Abandon, Crash, Start, Goto, RowInv, TypedInv,
                  RunsTyped
    <2> QED BY <1>1, <2>1 DEF RowsRead
  <1> QED BY <1>2, <1>3, <1>4 DEF Proceed

\* What is invalidated was sent in an earlier build.
InvalidatesEarlier ==
    \A p \in packItems : p.state = "INVALIDATE_PREVIOUS" => p.previous.artifact < p.artifact

InspectInv == RowsKept /\ EventsTrue /\ RowsRead /\ InvalidatesEarlier

\* A build invalidates rows of the builds before it.
LEMMA InvalidatesEarlierStep ==
    ASSUME TypeOK, InvalidatesEarlier,
           NEW s \in Sessions, NEW shape \in Shapes, NEW at \in Clocks,
           NEW reset \in BOOLEAN,
           Build(s, shape, at, reset)
    PROVE  InvalidatesEarlier'
  <1> SUFFICES ASSUME NEW p \in packItems', p.state = "INVALIDATE_PREVIOUS"
               PROVE  p.previous.artifact < p.artifact
    BY DEF InvalidatesEarlier
  <1>1. CASE p \in packItems
    BY <1>1 DEF InvalidatesEarlier
  <1>2. CASE p \notin packItems
    <2>1. p.artifact = Len(artifacts) + 1 /\ p.previous \in StalePrior(s, shape, reset)
      BY <1>2, NewInvalidations
    <2>2. p.previous.artifact \in ArtifactIds
      BY <2>1, PriorRows DEF StalePrior, TypeOK, SentRow
    <2>3. Len(artifacts) \in Nat
      BY DEF TypeOK
    <2> QED BY <2>1, <2>2, <2>3 DEF ArtifactIds
  <1> QED BY <1>1, <1>2

\* The steps of the only process keep what the commands rely on.
LEMMA InspectStep ==
    ASSUME OneProcess, LedgerInv, RowInv, ClocksFollow, InspectInv, CompileNext
    PROVE  InspectInv'
  <1>1. RowsRead'
    BY RowsReadStep DEF InspectInv
  <1>2. PICK p \in Procs : Start(p) \/ Proceed(p) \/ Abandon(p) \/ Crash(p)
    BY DEF CompileNext
  <1>3. /\ clock \in Nat /\ \A n \in ArtifactIds : artifacts[n].at =< clock
        /\ TypeOK /\ RunsTyped
    <2>1. clock \in Nat
      BY ClocksAreNaturals DEF RowInv, TypedInv, CompileTypeOK
    <2>2. \A n \in ArtifactIds : artifacts[n].at =< clock
      BY <2>1 DEF ClocksFollow
    <2> QED BY <2>1, <2>2 DEF RowInv, TypedInv
  <1>4. CASE CommitBuild(p)
    <2>1. EventsTrue'
      BY <1>3, <1>4, EventsStep DEF InspectInv
    <2>2. /\ run[p].session \in Sessions /\ run[p].shape \in Shapes
          /\ run[p].at \in Clocks /\ ResetEffective(p) \in BOOLEAN
          /\ Build(run[p].session, run[p].shape, run[p].at, ResetEffective(p))
      BY <1>3, <1>4, TokenOfRun DEF CommitBuild, ResetEffective
    <2>3. RowsKept' /\ InvalidatesEarlier'
      BY <1>3, <2>2, RowsKeptStep, InvalidatesEarlierStep DEF InspectInv
    <2> QED BY <1>1, <2>1, <2>3 DEF InspectInv
  <1>5. CASE ~CommitBuild(p)
    <2>1. UNCHANGED ledgerVars /\ events' = events
      BY <1>2, <1>5
         DEF Proceed, Start, OpenSession, InsertSession, RollBack, Release, Abandon, Crash
    <2>2. RowsKept'
      BY <2>1 DEF ledgerVars, InspectInv, RowsKept, InvalidationsOf, SessionOf, ArtifactOf,
                  ArtifactIds, SameHead
    <2>3. EventsTrue' /\ InvalidatesEarlier'
      BY <2>1 DEF ledgerVars, InspectInv, EventsTrue, BuildBefore, ArtifactIds,
                  InvalidatesEarlier
    <2> QED BY <1>1, <2>2, <2>3 DEF InspectInv
  <1> QED BY <1>4, <1>5

\* A session without a reason to be called unsafe or stale has the branch and the commit
\* of the worktree, and nothing of it was invalidated.
LEMMA NotStale ==
    ASSUME NEW s, NEW now,
           SessionStatus(s, now) # "unsafe", SessionStatus(s, now) # "stale"
    PROVE  /\ sessions[s].branch = now.branch /\ sessions[s].head = now.commit
           /\ InvalidationsOf(s) = {}
  <1>1. PICK reasons : reasons = FreshnessReasons(s, now)
    OBVIOUS
  <1>2. /\ "session_branch_or_head_stale" \notin reasons
        /\ "stale_context_invalidations_present" \notin reasons
    BY <1>1 DEF SessionStatus, FreshnessStatusForReasons
  <1>3. sessions[s].branch # now.branch \/ sessions[s].head # now.commit
            => "session_branch_or_head_stale" \in FreshnessReasons(s, now)
    BY DEF FreshnessReasons
  <1>4. InvalidationsOf(s) # {}
            => "stale_context_invalidations_present" \in FreshnessReasons(s, now)
    BY DEF FreshnessReasons
  <1> QED BY <1>1, <1>2, <1>3, <1>4

\* So what status calls fresh is current.
LEMMA FreshFollows ==
    ASSUME LedgerInv, RowInv, RowsKept
    PROVE  FreshIsCurrent
  <1> SUFFICES ASSUME NEW now \in Shapes, OverallStatus(now) = "fresh"
               PROVE  /\ RefreshRecommendations(now) = {}
                      /\ \A row \in UNION {ActiveSent(s) : s \in KnownSessions} :
                            LET old == ArtifactOf(row).shape IN
                            /\ old.branch = now.branch /\ old.commit = now.commit
                            /\ old \in CleanShapes => SameTree(old, now)
    BY DEF FreshIsCurrent
  <1>1. /\ SessionsWith("unsafe", now) = {} /\ SessionsWith("stale", now) = {}
        /\ now \in CleanShapes /\ KnownSessions # {}
    BY DEF OverallStatus
  <1>2. RefreshRecommendations(now) = {}
    BY <1>1 DEF RefreshRecommendations
  <1>3. ASSUME NEW s \in KnownSessions, NEW row \in ActiveSent(s)
        PROVE  /\ ArtifactOf(row).shape.branch = now.branch
               /\ ArtifactOf(row).shape.commit = now.commit
               /\ ArtifactOf(row).shape \in Shapes
    <2>1. /\ sessions[s].branch = now.branch /\ sessions[s].head = now.commit
          /\ InvalidationsOf(s) = {}
      BY <1>1, <1>3, NotStale DEF SessionsWith
    <2>2. row \in sent /\ SessionOf(row) = s /\ row.artifact \in ArtifactIds
      BY <1>3 DEF ActiveSent, LedgerInv, TypeOK, SentRow
    <2>3. PICK last \in LastBuildOf(s) : row.artifact =< last
      BY <2>2, LastBuildExists DEF SessionOf, ArtifactOf, LedgerInv
    <2>4. SameHead(ArtifactOf(row).shape, artifacts[last].shape)
      BY <2>1, <2>2, <2>3 DEF RowsKept, LastBuildOf
    <2>5. /\ sessions[s].branch = artifacts[last].shape.branch
          /\ sessions[s].head = artifacts[last].shape.commit
      BY <1>3, <2>3 DEF KnownSessions, RowInv, SessionTracksLastBuild
    <2>6. ArtifactOf(row).shape \in Shapes
      BY <2>2, StoredArtifacts DEF LedgerInv, Artifact, ArtifactOf
    <2> QED BY <2>1, <2>4, <2>5, <2>6 DEF SameHead
  <1>4. ASSUME NEW row \in UNION {ActiveSent(s) : s \in KnownSessions}
        PROVE  LET old == ArtifactOf(row).shape IN
               /\ old.branch = now.branch /\ old.commit = now.commit
               /\ old \in CleanShapes => SameTree(old, now)
    <2>1. PICK s \in KnownSessions : row \in ActiveSent(s)
      BY <1>4
    <2> QED BY <1>1, <1>3, <2>1, CleanFollowsCommit DEF SameTree
  <1> QED BY <1>2, <1>4

\* And the reason that is read back from the events is what happened.
LEMMA ReasonsFollow ==
    ASSUME LedgerInv, EventsTrue, InvalidatesEarlier
    PROVE  StaleReasonsAreTrue
  <1> SUFFICES ASSUME NEW s \in KnownSessions, NEW stale \in StaleItems(s)
               PROVE  LET n == stale.item.artifact
                          moved == \E m \in BuildBefore(n) :
                                      artifacts[m].shape.branch # artifacts[n].shape.branch IN
                      /\ stale.reason = "branch_changed" <=> moved
                      /\ stale.reason = "session_reset" <=> ~moved /\ artifacts[n].reset
    BY DEF StaleReasonsAreTrue
  <1>1. PICK p \in InvalidationsOf(s) :
            stale.item = p /\ stale.reason = StaleReasonForArtifact(p.artifact)
    BY DEF StaleItems
  <1>2. PICK n : n = p.artifact
    OBVIOUS
  <1>3. /\ n \in ArtifactIds /\ p.previous.artifact \in ArtifactIds
        /\ p.previous.artifact < n
        /\ artifacts[p.previous.artifact].session = artifacts[n].session
    BY <1>1, <1>2
       DEF InvalidationsOf, LedgerInv, TypeOK, PackItem, SentRow, InvalidationsStayInSession,
           InvalidatesEarlier, SessionOf, ArtifactOf
  <1>4. PICK before : before \in BuildBefore(n)
    <2>1. Len(artifacts) \in Nat
      BY DEF LedgerInv, TypeOK
    <2>2. PICK T : T = {m \in 1 .. n - 1 : artifacts[m].session = artifacts[n].session}
      OBVIOUS
    <2>3. T \subseteq 0 .. n /\ p.previous.artifact \in T /\ n \in Nat
      BY <1>3, <2>1, <2>2 DEF ArtifactIds
    <2>4. PICK x \in T : \A y \in T : y =< x
      BY <2>3, GreatestElement
    <2>5. \A k \in x + 1 .. n - 1 : k \in 1 .. n - 1 /\ ~(k =< x)
      BY <2>2, <2>3, <2>4
    <2>6. x \in BuildBefore(n)
      BY <2>2, <2>4, <2>5 DEF BuildBefore
    <2> QED BY <2>6
  <1>5. PICK moved \in BOOLEAN :
            moved = \E m \in BuildBefore(n) :
                        artifacts[m].shape.branch # artifacts[n].shape.branch
    BY Zenon
  <1>6. Event(n, "branch_changed") \in events <=> moved
    BY <1>3, <1>4, <1>5, Zenon DEF EventsTrue
  <1>7. Event(n, "session_reset") \in events <=> artifacts[n].reset
    BY <1>3, Zenon DEF EventsTrue
  <1>8. /\ stale.reason = "branch_changed" <=> Event(n, "branch_changed") \in events
        /\ stale.reason = "session_reset" <=> /\ Event(n, "branch_changed") \notin events
                                              /\ Event(n, "session_reset") \in events
    BY <1>1, <1>2 DEF StaleReasonForArtifact, Event
  <1>9. /\ stale.reason = "branch_changed" <=> moved
        /\ stale.reason = "session_reset" <=> ~moved /\ artifacts[n].reset
    BY <1>6, <1>7, <1>8, Zenon
  <1> QED BY <1>1, <1>2, <1>5, <1>9, Zenon

\* While compiles do not overlap, the commands tell the truth: what is called fresh is
\* current, and the reason of an invalidation is what happened, also after compiles that
\* failed halfway, died, or moved between branches and back.
THEOREM InspectionStaysTrue ==
    ASSUME OneProcess
    PROVE  CompileSpec => []InspectionIsTrue
  <1>1. CompileInit => InspectInv /\ RowsFollow /\ SessionTracksLastBuild /\ LastPackInv
    BY DEF CompileInit, LedgerInit, ArtifactIds, InspectInv, RowsKept, EventsTrue, RowsRead,
           InvalidatesEarlier, RowsFollow, LastBuildOf, SessionTracksLastBuild, LastPackInv,
           ClocksFollow, LedgerMatchesLastPack
  <1>2. TypedInv /\ LedgerInv /\ RowsFollow /\ SessionTracksLastBuild /\ LastPackInv
           /\ InspectInv /\ [CompileNext]_compileVars
           => InspectInv' /\ RowsFollow' /\ SessionTracksLastBuild' /\ LastPackInv'
    <2>1. ASSUME RowInv, LedgerInv, LastPackInv, InspectInv, CompileNext
          PROVE  InspectInv' /\ RowsFollow' /\ SessionTracksLastBuild' /\ LastPackInv'
      BY <2>1, RowsFollowStep, LastPackInvStep, InspectStep DEF RowInv, LastPackInv
    <2>2. ASSUME RowInv, LastPackInv, InspectInv, UNCHANGED compileVars
          PROVE  InspectInv' /\ RowsFollow' /\ SessionTracksLastBuild' /\ LastPackInv'
      <3>1. RowsFollow' /\ SessionTracksLastBuild'
        BY <2>2 DEF compileVars, RowInv, RowsFollow, SessionTracksLastBuild,
                    LastBuildOf, ArtifactIds, MySession, Existed
      <3>2. LastPackInv'
        BY <2>2, LastPackKept
           DEF compileVars, ledgerVars, LastPackInv, ClocksFollow, ArtifactIds
      <3>3. RowsKept'
        BY <2>2 DEF compileVars, InspectInv, RowsKept, InvalidationsOf, SessionOf, ArtifactOf,
                    ArtifactIds, SameHead
      <3>4. EventsTrue' /\ InvalidatesEarlier'
        BY <2>2 DEF compileVars, InspectInv, EventsTrue, BuildBefore, ArtifactIds,
                    InvalidatesEarlier
      <3>5. RowsRead'
        BY <2>2 DEF compileVars, InspectInv, RowsRead, Existed, LastBuildOf, ArtifactIds
      <3> QED BY <3>1, <3>2, <3>3, <3>4, <3>5 DEF InspectInv
    <2>3. LedgerInv => TypeOK
      BY DEF LedgerInv
    <2>4. TypedInv /\ LedgerInv /\ RowsFollow /\ SessionTracksLastBuild => RowInv
      BY <2>3 DEF RowInv
    <2> QED BY <2>1, <2>2, <2>4, Zenon
  <1>3. LedgerInv /\ TypedInv /\ RowsFollow /\ SessionTracksLastBuild /\ InspectInv
            => InspectionIsTrue
    BY FreshFollows, ReasonsFollow DEF RowInv, LedgerInv, InspectInv, InspectionIsTrue
  <1> QED BY <1>1, <1>2, <1>3, TypedInvariance, LedgerInvOfCompiles, PTL DEF CompileSpec
=============================================================================
