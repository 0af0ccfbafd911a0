----------------------------- MODULE McpServer -----------------------------
(***************************************************************************)
(* The MCP server on standard input and output (src/mcp) over the context  *)
(* ledger: a client writes JSON-RPC lines, the pipe delivers them in       *)
(* chunks cut anywhere, the server takes lines out of its buffer, handles  *)
(* them one after the other and writes replies.  The process may die       *)
(* between any two steps, also after a build has committed and before its  *)
(* reply is written, and the worktree may move between the snapshot a call *)
(* takes and the moment it reads the database.  The database also holds    *)
(* what other calls and other processes record: a compile reads it, and a  *)
(* restore does not look at it again.                                      *)
(*                                                                         *)
(* Handling is synchronous, so no data event interrupts a call; several    *)
(* data events may come before the queued calls run, because a stream that *)
(* has buffered chunks emits them in a row.                                *)
(***************************************************************************)
EXTENDS ContextLedger, SequencesExt, FiniteSetsExt

CONSTANTS
    Worktrees,   \* states of the repository
    FirstTree,   \* the one at the start
    Queries,     \* tasks a client asks context for
    Notes,       \* what can be recorded: claims, edges, runs, decisions, summaries
    Snapshots,   \* [worktree -> its branch, commit, worktree hash and files]
    FileDeps,    \* the dependencies listed as files: sources, configs, lockfiles, rules
    Compiled,    \* the shape of each worktree, session, set of notes and query
    Lines,       \* the lines a client may write, calls to restore excepted
    OddLines,    \* and those of other kinds, of which it writes MaxOdd at most
    None,
    MaxLines, MaxOdd, MaxMoves, MaxStarts   \* bounds

Forms == {"request", "notification", "invalid", "garbage", "blank", "large"}

ASSUME LinesHaveForms == \A line \in Lines \cup OddLines : line.form \in Forms

\* What a call asks for is compiled from the snapshot it took.  A shape lists the hash of
\* every file it names; a recorded source is listed like a file, and there is none.
ASSUME CompiledFromSnapshots ==
    /\ FirstTree \in Worktrees
    /\ \A tree \in Worktrees, s \in Sessions, known \in SUBSET Notes, q \in Queries :
          LET shape == Compiled[tree][s][known][q]
              snap  == Snapshots[tree]
          IN  /\ shape \in Shapes
              /\ shape.branch = snap.branch /\ shape.commit = snap.commit
              /\ "wt" \in DOMAIN shape.deps /\ shape.deps["wt"] = snap.wt
              /\ \A ref \in FileDeps \cap DOMAIN shape.deps \cap DOMAIN snap.files :
                    shape.deps[ref] = snap.files[ref]

\* The two worktrees differ as a restore can tell: in branch, commit or worktree hash.
Apart(tree, other) ==
    LET a == Snapshots[tree]  b == Snapshots[other]
    IN  a.branch # b.branch \/ a.commit # b.commit \/ a.wt # b.wt

\* The worktree hash covers all that a compile reads of a worktree: every visible file,
\* what is dirty and what is rejected.
ASSUME WorktreeHashCovers ==
    \A tree, other \in Worktrees : ~Apart(tree, other) =>
        Snapshots[tree] = Snapshots[other] /\ Compiled[tree] = Compiled[other]

VARIABLES
    written,    \* the lines the client wrote: a line's number is its id
    arrived,    \* how many pieces of them the pipe has delivered
    taken,      \* how many have left the buffer: #buffer is taken + 1 .. arrived
    queue,      \* the parsed messages whose promise has not run
    handling,   \* the call that is running, or None
    replies,    \* what the server wrote
    server,     \* "running", "draining" after the input ended, "exited" or "dead"
    starts,     \* how often a server was started
    work, moves,\* the repository now
    recorded    \* the notes in the database

streamVars == <<written, arrived, taken, queue>>
treeVars == <<work, moves>>
storeVars == <<recorded, ledgerVars>>
vars == <<streamVars, handling, replies, server, starts, treeVars, storeVars>>

ServerInit ==
    /\ LedgerInit
    /\ written = << >> /\ arrived = 0 /\ taken = 0 /\ queue = << >>
    /\ handling = None /\ replies = << >>
    /\ server = "running" /\ starts = 1
    /\ work = FirstTree /\ moves = 0 /\ recorded = {}

----------------------------------------------------------------------------
(* Lines on the wire.  A line is three pieces, two halves of its text and   *)
(* the newline, and a chunk may end after any of them.  Piece q is of line  *)
(* (q + 2) \div 3.  The buffer is always a stretch of what the client wrote. *)

Pieces(i) == 3 * i

\* What the pieces after a, up to b, hold besides newlines and blanks.
Text(a, b) == {q \in a + 1 .. b : q % 3 # 0 /\ written[(q + 2) \div 3].form # "blank"}

\* What #parseLine makes of these bytes: a message, or why it throws.  Half of a
\* message is not JSON; half of an oversized line is still too long.
ParseLine(a, b) ==
    LET text == Text(a, b) IN
    IF \E q \in text : written[(q + 2) \div 3].form = "large" THEN "large"
    ELSE IF text = {} THEN "blank"
    ELSE IF \E i \in DOMAIN written : text = {3 * i - 2, 3 * i - 1} /\ written[i].form # "garbage"
         THEN "message"
    ELSE "garbage"

LinesBetween(i, j) == [n \in 1 .. j - i |-> i + n]

\* Line i begins in the buffer, which holds what comes after piece a, or before it.
Start(a, i) == IF a > Pieces(i - 1) THEN a ELSE Pieces(i - 1)

Throwing(a, b) ==
    {i \in a \div 3 + 1 .. b \div 3 : ParseLine(Start(a, i), Pieces(i)) # "message"}

\* The first complete line that throws loses the messages parsed before it, and an
\* empty or oversized one also loses all that is buffered.
LoseMessages(a, b) ==
    LET i == Min(Throwing(a, b)) IN
    [messages |-> << >>, failed |-> TRUE,
     taken |-> IF ParseLine(Start(a, i), Pieces(i)) = "garbage" THEN Pieces(i) ELSE b]

\* Mutant: takes one line out of the buffer for every chunk.
DrainOneLine(a, b) ==
    LET i == a \div 3 + 1 IN
    IF Pieces(i) > b THEN [messages |-> << >>, taken |-> a, failed |-> FALSE]
    ELSE IF i \in Throwing(a, b) THEN LoseMessages(a, b)
    ELSE [messages |-> <<i>>, taken |-> Pieces(i), failed |-> FALSE]

\* Mutant: lines parsed before the one that throws are queued and left in the buffer.
DrainKeepingLines(a, b) ==
    IF Throwing(a, b) # {}
    THEN [messages |-> LinesBetween(a \div 3, Min(Throwing(a, b)) - 1),
          taken |-> a, failed |-> TRUE]
    ELSE [messages |-> LinesBetween(a \div 3, b \div 3),
          taken |-> Start(a, b \div 3 + 1), failed |-> FALSE]

\* All complete lines, in order, and then what is left must not be too long.
Drain(a, b) ==
    LET rest == Start(a, b \div 3 + 1) IN
    IF Throwing(a, b) # {} THEN LoseMessages(a, b)
    ELSE IF ParseLine(rest, b) = "large"
    THEN [messages |-> << >>, taken |-> b, failed |-> TRUE]
    ELSE [messages |-> LinesBetween(a \div 3, b \div 3), taken |-> rest, failed |-> FALSE]

\* At the end of input all that is left is taken for one line, newlines included.
Flush(a, b) ==
    IF a = b THEN [messages |-> << >>, failed |-> FALSE]
    ELSE IF ParseLine(a, b) = "message"
    THEN [messages |-> <<CHOOSE i \in DOMAIN written : 3 * i - 1 \in Text(a, b)>>,
          failed |-> FALSE]
    ELSE [messages |-> << >>, failed |-> TRUE]

----------------------------------------------------------------------------
(* The calls *)

Result(kind) == [kind |-> kind]
Reply(id, result) == [id |-> id, result |-> result]
NoId == 0

\* A client that names no session gets one of its agent session and its query.
ResolveMcpSessionId(args) ==
    IF args.session # None THEN args.session
    ELSE IF args.agent # None THEN <<args.agent, args.query>>
    ELSE None

RestoreOf(s, token) == {o \in omitted : o = token /\ SessionOf(o) = s}

\* Mutant: looks for every dependency among the files, relationships and claims included.
DependencyStaleReasonOfAll(shape, snap) ==
    \/ shape.branch # snap.branch \/ shape.commit # snap.commit
    \/ \E ref \in DOMAIN shape.deps \ {"wt"} :
          ref \notin DOMAIN snap.files \/ shape.deps[ref] # snap.files[ref]

\* Mutant: trusts the commit to say what is in the worktree.
DependencyStaleReasonOfCommit(shape, snap) ==
    shape.branch # snap.branch \/ shape.commit # snap.commit

\* Every dependency that is listed as a file must be one, with its hash.  Two comparisons
\* more find nothing: the omission has the manifest hash of its artifact, and a proof
\* stays as it was inserted.  Claims, edges and summaries are not compared.
DependencyStaleReason(shape, snap) ==
    \/ shape.branch # snap.branch \/ shape.commit # snap.commit \/ shape.deps["wt"] # snap.wt
    \/ \E ref \in FileDeps \cap DOMAIN shape.deps :
          ref \notin DOMAIN snap.files \/ shape.deps[ref] # snap.files[ref]

\* The section of the stored artifact file, its hashes and owner checked against
\* the rows; a file is written once, before its rows are committed (LocalProject).
LoadVerifiedOmittedArtifact(token) == SectionOf(token)

RestoreOmittedContext(s, token, seen) ==
    IF RestoreOf(s, token) = {} THEN Result("tool error")
    ELSE IF DependencyStaleReason(ArtifactOf(token).shape, Snapshots[seen])
    THEN [kind |-> "stale", token |-> token]
    ELSE [kind |-> "restored", token |-> token, seen |-> seen,
          content |-> LoadVerifiedOmittedArtifact(token).content]

\* Methods that are never answered, whether they carry an id or not.
Silent == {"notifications/initialized", "$/cancelRequest"}

\* A tool that only reads, or the name of no tool.
CallMcpTool(line, seen) ==
    IF line.tool = None THEN Result("invalid params")
    ELSE IF line.tool = "grape_get_omitted_item"
    THEN RestoreOmittedContext(line.args.session, line.args.token, seen)
    ELSE Result("result")

\* What a call gives that only reads.
Answer(line, seen) ==
    IF line.method = "tools/call" THEN CallMcpTool(line, seen)
    ELSE IF line.method \in {"initialize", "ping", "tools/list"} THEN Result("result")
    ELSE IF line.method \in Silent THEN Result("none")
    ELSE Result("method not found")

\* Mutant: a notification is answered like a request.
RespondIfNeededAlways(i, result) == <<Reply(i, result)>>

RespondIfNeeded(i, result) ==
    IF written[i].form = "notification" \/ result.kind = "none" THEN << >>
    ELSE <<Reply(i, result)>>

----------------------------------------------------------------------------
(* The client *)

Write(line) ==
    /\ server = "running" /\ Len(written) < MaxLines
    /\ written' = Append(written, line)
    /\ UNCHANGED <<arrived, taken, queue, handling, replies, server, starts, treeVars, storeVars>>

RestoreLine(s, token) ==
    [form |-> "request", method |-> "tools/call", tool |-> "grape_get_omitted_item",
     args |-> [session |-> s, token |-> token]]

WriteSome ==
    \/ \E line \in Lines : Write(line)
    \/ /\ Cardinality({i \in DOMAIN written : written[i] \in OddLines}) < MaxOdd
       /\ \E line \in OddLines : Write(line)
    \/ \E s \in Sessions, token \in omitted : Write(RestoreLine(s, token))

\* The client starts a new server when the old one is gone.
Restart ==
    /\ server \in {"exited", "dead"} /\ starts < MaxStarts
    /\ server' = "running" /\ starts' = starts + 1
    /\ UNCHANGED <<streamVars, handling, replies, treeVars, storeVars>>

Move ==
    /\ moves < MaxMoves
    /\ work' \in Worktrees \ {work}
    /\ moves' = moves + 1
    /\ UNCHANGED <<streamVars, handling, replies, server, starts, storeVars>>

\* What a database with these notes may hold later: notes are added and never removed.
Grown(notes) == {more \in SUBSET Notes : notes \subseteq more}

\* Another process records something: grape run, grape claims, a compile...
RecordElsewhere ==
    /\ recorded' \in Grown(recorded) \ {recorded}
    /\ UNCHANGED <<streamVars, handling, replies, server, starts, treeVars, ledgerVars>>

----------------------------------------------------------------------------
(* The server *)

Up == server \in {"running", "draining"}

ParseError == <<Reply(NoId, Result("parse error"))>>

\* All that the client has written has left the pipe and the buffer, or is lost.
NothingIsLeft ==
    arrived' = Pieces(Len(written)) /\ taken' = Pieces(Len(written))

\* input.on("data"): the reply to a chunk that does not parse is written at once.
Receive ==
    /\ server = "running" /\ handling = None
    /\ arrived' \in arrived + 1 .. Pieces(Len(written))
    /\ LET drained == Drain(taken, arrived') IN
       /\ taken' = drained.taken
       /\ queue' = queue \o drained.messages
       /\ replies' = IF drained.failed THEN replies \o ParseError ELSE replies
    /\ UNCHANGED <<written, handling, server, starts, treeVars, storeVars>>

\* input.on("end"): what is buffered is flushed, and the queue runs out.  A client
\* that ends may have left out its last newline.
End ==
    /\ server = "running" /\ handling = None
    /\ arrived >= Pieces(Len(written)) - 1
    /\ LET flushed == Flush(taken, arrived) IN
       /\ queue' = queue \o flushed.messages
       /\ replies' = IF flushed.failed THEN replies \o ParseError ELSE replies
    /\ NothingIsLeft
    /\ server' = "draining"
    /\ UNCHANGED <<written, handling, starts, treeVars, storeVars>>

\* handleParsedMessage: a message that is no JSON-RPC request is refused; a call
\* starts with its snapshot of the repository.
Begin ==
    /\ Up /\ handling = None /\ queue # << >>
    /\ queue' = Tail(queue)
    /\ IF written[Head(queue)].form = "invalid"
       THEN /\ replies' = replies \o <<Reply(NoId, Result("invalid request"))>>
            /\ UNCHANGED handling
       ELSE /\ handling' = [line |-> Head(queue), seen |-> work, result |-> None]
            /\ UNCHANGED replies
    /\ UNCHANGED <<written, arrived, taken, server, starts, treeVars, storeVars>>

Running == Up /\ handling # None /\ handling.result = None
Finish(result) ==
    /\ handling' = [handling EXCEPT !.result = result]
    /\ UNCHANGED <<streamVars, replies, server, starts, treeVars>>

GetsContext(line) == line.method = "tools/call" /\ line.tool = "grape_get_context"

\* A call for context names one of the sessions and one of the queries.
ASSUME CallsAreTyped ==
    \A line \in Lines \cup OddLines :
        GetsContext(line) /\ ResolveMcpSessionId(line.args) # None =>
            /\ ResolveMcpSessionId(line.args) \in Sessions
            /\ line.args.query \in Queries /\ line.args.reset \in BOOLEAN

\* grape_get_context: the compile records claims of its own, commits its build from all
\* it then knows, records a summary of what was sent, and the tool returns.  When writing
\* the summary fails the call fails, and the build stays.
GetContext ==
    /\ Running /\ GetsContext(written[handling.line])
    /\ \/ Finish([kind |-> "pack", artifact |-> Len(artifacts) + 1, seen |-> handling.seen])
       \/ Finish(Result("tool error"))
    /\ LET args == written[handling.line].args
           s    == ResolveMcpSessionId(args)
       IN  /\ s # None /\ Len(artifacts) + 1 \in Clocks
           /\ \E known \in Grown(recorded) :
                 /\ recorded' \in Grown(known)
                 /\ Build(s, Compiled[handling.seen][s][known][args.query],
                          Len(artifacts) + 1, args.reset)

\* No session, or a compile that fails before its build: session locked, storage
\* unavailable...  What it had recorded by then stays.
GetContextFails ==
    /\ Running /\ GetsContext(written[handling.line])
    /\ Finish(Result("tool error"))
    /\ recorded' \in Grown(recorded) /\ UNCHANGED ledgerVars

RecordingTools ==
    {"grape_record_candidate", "grape_record_command_result", "grape_record_test_result",
     "grape_record_user_decision", "grape_request_user_confirmation"}

Records(line) == line.method = "tools/call" /\ line.tool \in RecordingTools

\* A tool that records what the agent reports, or refuses to.
RecordCall ==
    /\ Running /\ Records(written[handling.line])
    /\ Finish(Result("result")) \/ Finish(Result("tool error"))
    /\ recorded' \in Grown(recorded) /\ UNCHANGED ledgerVars

AnswerCall ==
    /\ Running
    /\ ~GetsContext(written[handling.line]) /\ ~Records(written[handling.line])
    /\ Finish(Answer(written[handling.line], handling.seen))
    /\ UNCHANGED storeVars

Respond ==
    /\ Up /\ handling # None /\ handling.result # None
    /\ replies' = replies \o RespondIfNeeded(handling.line, handling.result)
    /\ handling' = None
    /\ UNCHANGED <<streamVars, server, starts, treeVars, storeVars>>

\* The process dies, or exits because its input ended and its queue ran out.
\* Whatever it had read is gone, and so is the pipe.
Stop(how) ==
    /\ NothingIsLeft /\ queue' = << >> /\ handling' = None
    /\ server' = how
    /\ UNCHANGED <<written, replies, starts, treeVars, storeVars>>

Exit == server = "draining" /\ handling = None /\ queue = << >> /\ Stop("exited")

Die == Up /\ starts < MaxStarts /\ Stop("dead")

ServerStep ==
    \/ Receive
    \/ Begin
    \/ Respond
    \/ GetContextFails
    \/ GetContext
    \/ RecordCall
    \/ AnswerCall

Next ==
    \/ WriteSome
    \/ Restart
    \/ Move
    \/ RecordElsewhere
    \/ ServerStep
    \/ End
    \/ Exit
    \/ Die

ServerSpec == ServerInit /\ [][Next]_vars

\* The event loop runs as long as the process lives: data that arrived is
\* delivered, queued promises run, and a call that started ends.
FairServerSpec == ServerSpec /\ WF_vars(ServerStep)

----------------------------------------------------------------------------
(* Properties *)

\* Messages wait in the order they were written, each once, and only lines that
\* have left the buffer: what is buffered and what the pipe has comes after them.
ServerTypeOK ==
    /\ \A i \in DOMAIN written : written[i].form \in Forms
    /\ taken \in 0 .. arrived /\ arrived \in 0 .. Pieces(Len(written))
    /\ \A j, k \in DOMAIN queue : j < k => queue[j] < queue[k]
    /\ \A k \in DOMAIN queue :
         /\ queue[k] \in DOMAIN written /\ Pieces(queue[k]) <= taken
         /\ written[queue[k]].form \in {"request", "notification", "invalid"}
         /\ handling # None => handling.line < queue[k]
    /\ work \in Worktrees /\ recorded \subseteq Notes /\ (Up \/ server \in {"exited", "dead"})

\* A client can match replies to its requests: only requests are answered,
\* each at most once and in the order they were written, whatever was lost
\* in between, to a line that did not parse or to a process that died.
AnswersInOrder ==
    \A k \in DOMAIN replies : replies[k].id # NoId =>
        /\ written[replies[k].id].form = "request"
        /\ \A j \in 1 .. k - 1 : replies[j].id < replies[k].id

\* A source that this artifact lists as a file is something that was recorded.
ListsRecords(shape, snap) ==
    \E ref \in FileDeps \cap DOMAIN shape.deps : ref \notin DOMAIN snap.files

\* A pack may leave out what the agent never received, because the reply that
\* delivered it was lost or nobody asked for one.  So the agent can restore all of it
\* with the tokens of the pack, whatever was asked, recorded and compiled since.  Only two
\* things take that away: a worktree whose branch, commit or hash is another than that of
\* the pack, and a recorded run, candidate or decision that the pack itself lists among
\* its sources, for which a restore looks in vain among the files.
OmittedIsRecoverable ==
    \A r \in ToSet(replies) : r.result.kind = "pack" =>
        \A o \in omitted : o.artifact = r.result.artifact =>
            LET again == RestoreOmittedContext(SessionOf(o), o, work)
            IN  \/ again.kind = "restored" /\ again.content = SectionOf(o).content
                \/ Apart(work, r.result.seen)
                \/ ListsRecords(ArtifactOf(o).shape, Snapshots[work])

\* What a restore hands out is for the session that asked, and is never older than the
\* worktree the call looked at: it is what a compile of that worktree for that session
\* makes of the section from some of the notes there are.  It may be older than others of
\* them, because claims, edges and summaries that came later are not looked at.
RestoredIsCurrent ==
    \A r \in ToSet(replies) : r.result.kind = "restored" =>
        LET token == r.result.token IN
        /\ SessionOf(token) = written[r.id].args.session
        /\ \E q \in Queries, known \in SUBSET recorded :
             LET sections == Compiled[r.result.seen][SessionOf(token)][known][q].sections IN
             /\ token.section \in DOMAIN sections
             /\ sections[token.section].content = r.result.content

\* Something that loses messages has happened.
Disturbed ==
    \/ server = "dead" \/ starts > 1
    \/ \E i \in DOMAIN written : written[i].form \in {"garbage", "blank", "large"}

Asked(i) ==
    i \in DOMAIN written /\ written[i].form = "request" /\ written[i].method \notin Silent

\* However the pipe cuts what the client writes, every request is answered, also
\* when the input ends, as long as all lines parse and the process is not killed.
EveryRequestAnswered ==
    \A i \in 1 .. MaxLines :
        Asked(i) ~> (Disturbed \/ \E r \in ToSet(replies) : r.id = i)
=============================================================================
