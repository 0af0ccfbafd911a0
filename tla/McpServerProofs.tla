--------------------------- MODULE McpServerProofs ---------------------------
(***************************************************************************)
(* Proofs about McpServer, for every set of lines, queries and worktrees,  *)
(* every way the pipe cuts what the client writes, and any number of       *)
(* starts: what waits in the queue, what replies answer, what a restore    *)
(* hands out, and that the server drives the ledger as ContextLedger says. *)
(***************************************************************************)
EXTENDS McpServer, ContextLedgerProofs, WellFoundedInduction

Methods == {"request", "notification", "invalid"}

\* What a line on the wire can be, and what a call can give.
Token == [artifact : Nat, section : Sections]
WireLines == Lines \cup OddLines \cup {RestoreLine(s, token) : s \in Sessions, token \in Token}
Contents == UNION {{shape.sections[x].content : x \in DOMAIN shape.sections} : shape \in Shapes}
ResultKinds == {"parse error", "invalid request", "invalid params", "method not found",
                "result", "tool error", "none"}
Results ==
    [kind : ResultKinds]
    \cup [kind : {"pack"}, artifact : Nat, seen : Worktrees]
    \cup [kind : {"stale"}, token : Token]
    \cup [kind : {"restored"}, token : Token, seen : Worktrees, content : Contents]

ServerTyped ==
    /\ written \in Seq(WireLines)
    /\ queue \in Seq(Nat)
    /\ replies \in Seq([id : Nat, result : Results])
    /\ handling # None => handling \in [line : Nat, seen : Worktrees, result : Results \cup {None}]

\* The call that runs is the last line that was taken from the queue, and every
\* reply is to an earlier one.
CallsInOrder ==
    /\ handling # None =>
         /\ handling.line \in DOMAIN written /\ Pieces(handling.line) <= taken
         /\ written[handling.line].form \in {"request", "notification"}
    /\ \A k \in DOMAIN replies : replies[k].id # NoId =>
         /\ replies[k].id \in DOMAIN written /\ Pieces(replies[k].id) <= taken
         /\ handling # None => replies[k].id < handling.line
         /\ \A j \in DOMAIN queue : replies[k].id < queue[j]

----------------------------------------------------------------------------
(* What leaves the buffer *)

\* A set of naturals that is not empty has a least element.
LEMMA LeastElement ==
    ASSUME NEW T, T \subseteq Nat, T # {}
    PROVE  Min(T) \in T /\ \A y \in T : Min(T) <= y
  <1>1. PICK x \in T : \A y \in T : <<y, x>> \notin OpToRel(<, Nat)
    BY WFMin, NatLessThanWellFounded, Zenon
  <1>2. \A y \in T : ~(y < x)
    BY <1>1, Zenon DEF OpToRel
  <1>3. x \in T
    BY <1>1, Zenon
  <1>4. \A y \in T : x <= y
    BY <1>2, <1>3
  <1> QED BY <1>3, <1>4 DEF Min

\* Where the lines of a stretch lie.
LEMMA Stretch ==
    ASSUME NEW a \in Nat, NEW b \in Nat, a <= b
    PROVE  /\ a \div 3 \in Nat /\ b \div 3 \in Nat /\ a \div 3 <= b \div 3
           /\ Pieces(a \div 3) <= a /\ a < Pieces(a \div 3 + 1)
           /\ Pieces(b \div 3) <= b /\ b < Pieces(b \div 3 + 1)
           /\ Start(a, b \div 3 + 1) \in a .. b
           /\ Pieces(b \div 3) <= Start(a, b \div 3 + 1)
           /\ \A i \in a \div 3 + 1 .. b \div 3 : i \in Nat /\ Pieces(i) \in a + 1 .. b
  BY DEF Pieces, Start

\* Where the pieces of a line end tells which line it is.
LEMMA SameLine ==
    ASSUME NEW i \in Nat, NEW l \in Nat, NEW x \in Nat,
           3 * (i - 1) <= x, x < 3 * l - 2, 3 * l - 1 <= 3 * i
    PROVE  l = i
  <1>1. 3 * (i - 1) < 3 * l /\ 3 * (l - 1) < 3 * i
    OBVIOUS
  <1> QED BY <1>1

\* A stretch that is a message is the whole text of a line that is one.
LEMMA MessageText ==
    ASSUME written \in Seq(WireLines), \A i \in DOMAIN written : written[i].form \in Forms,
           NEW a \in Nat, NEW b \in Nat, ParseLine(a, b) = "message"
    PROVE  \E i \in DOMAIN written :
              /\ Text(a, b) = {3 * i - 2, 3 * i - 1}
              /\ a < 3 * i - 2 /\ 3 * i - 1 <= b
              /\ written[i].form \in Methods
  <1>1. PICK i \in DOMAIN written :
            /\ Text(a, b) = {3 * i - 2, 3 * i - 1}
            /\ written[i].form # "garbage"
            /\ \A q \in Text(a, b) : written[(q + 2) \div 3].form # "large"
    BY DEF ParseLine
  <1>2. i \in Nat /\ (3 * i - 2 + 2) \div 3 = i
    OBVIOUS
  <1>3. 3 * i - 2 \in Text(a, b) /\ 3 * i - 1 \in Text(a, b)
    BY <1>1
  <1>4. 3 * i - 2 \in a + 1 .. b /\ 3 * i - 1 \in a + 1 .. b
    BY <1>3 DEF Text
  <1>5. written[i].form # "blank" /\ written[i].form # "large"
    <2>1. written[(3 * i - 2 + 2) \div 3].form # "blank"
      BY <1>3 DEF Text
    <2>2. written[(3 * i - 2 + 2) \div 3].form # "large"
      BY <1>1, <1>3
    <2> QED BY <1>2, <2>1, <2>2
  <1>6. written[i].form \in Methods
    BY <1>1, <1>5 DEF Methods, Forms
  <1>7. a < 3 * i - 2 /\ 3 * i - 1 <= b
    BY <1>2, <1>4
  <1> QED BY <1>1, <1>6, <1>7

\* What draining takes out of the buffer: the messages are whole lines, in order,
\* and lie in the part that is gone.
LEMMA DrainTakes ==
    ASSUME written \in Seq(WireLines), \A i \in DOMAIN written : written[i].form \in Forms,
           NEW a \in Nat, NEW b \in Nat, a <= b, b <= Pieces(Len(written)),
           NEW d, d = Drain(a, b)
    PROVE  /\ d.taken \in a .. b
           /\ d.messages \in Seq(Nat)
           /\ \A j, k \in DOMAIN d.messages : j < k => d.messages[j] < d.messages[k]
           /\ \A k \in DOMAIN d.messages :
                 /\ d.messages[k] \in DOMAIN written
                 /\ a < Pieces(d.messages[k]) /\ Pieces(d.messages[k]) <= d.taken
                 /\ written[d.messages[k]].form \in Methods
  <1> DEFINE T     == Throwing(a, b)
             first == Min(T)
             rest  == Start(a, b \div 3 + 1)
             lines == LinesBetween(a \div 3, b \div 3)
  <1>1. /\ a \div 3 \in Nat /\ b \div 3 \in Nat /\ a \div 3 <= b \div 3
        /\ rest \in a .. b /\ Pieces(b \div 3) <= rest
        /\ a < Pieces(a \div 3 + 1) /\ Pieces(b \div 3) <= b
        /\ \A i \in a \div 3 + 1 .. b \div 3 : i \in Nat /\ Pieces(i) \in a + 1 .. b
    BY Stretch
  <1>2. CASE T # {}
    <2>1. T \subseteq a \div 3 + 1 .. b \div 3 /\ T \subseteq Nat
      BY <1>1 DEF Throwing
    <2>2. first \in T
      BY <1>2, <2>1, LeastElement
    <2>3. Pieces(first) \in a .. b
      BY <1>1, <2>1, <2>2
    <2>4. d.messages = << >> /\ d.taken \in {Pieces(first), b}
      BY <1>2 DEF Drain, LoseMessages
    <2> QED BY <2>3, <2>4
  <1>3. CASE T = {} /\ ParseLine(rest, b) = "large"
    <2>1. d.messages = << >> /\ d.taken = b
      BY <1>3 DEF Drain
    <2> QED BY <2>1
  <1>4. CASE T = {} /\ ParseLine(rest, b) # "large"
    <2>1. d.messages = lines /\ d.taken = rest
      BY <1>4 DEF Drain
    <2>2. /\ lines \in Seq(Nat)
          /\ DOMAIN lines = 1 .. b \div 3 - a \div 3
          /\ \A k \in DOMAIN lines : lines[k] = a \div 3 + k
      BY <1>1 DEF LinesBetween
    <2>3. ASSUME NEW k \in DOMAIN lines
          PROVE  /\ lines[k] \in DOMAIN written
                 /\ a < Pieces(lines[k]) /\ Pieces(lines[k]) <= rest
                 /\ written[lines[k]].form \in Methods
      <3> DEFINE i == a \div 3 + k
      <3>1. lines[k] = i /\ i \in a \div 3 + 1 .. b \div 3 /\ i \in Nat
        <4>1. PICK m \in Nat : m = a \div 3
          BY <1>1
        <4>2. PICK n \in Nat : n = b \div 3
          BY <1>1
        <4>3. k \in 1 .. n - m /\ lines[k] = m + k
          BY <2>2, <4>1, <4>2
        <4>4. m + k \in m + 1 .. n /\ m + k \in Nat
          BY <4>1, <4>2, <4>3
        <4> QED BY <4>1, <4>2, <4>3, <4>4
      <3> HIDE DEF i
      <3>2. Pieces(i) \in a + 1 .. b /\ Pieces(i) <= rest
        BY <1>1, <3>1 DEF Pieces
      <3>3. ParseLine(Start(a, i), Pieces(i)) = "message"
        BY <1>4, <3>1 DEF Throwing
      <3>4. Start(a, i) \in Nat /\ Pieces(i) \in Nat /\ Pieces(i - 1) <= Start(a, i)
        BY <3>1 DEF Start, Pieces
      <3>5. PICK l \in DOMAIN written :
                /\ Start(a, i) < 3 * l - 2 /\ 3 * l - 1 <= Pieces(i)
                /\ written[l].form \in Methods
        BY <3>3, <3>4, MessageText
      <3>6. l = i
        <4>1. PICK x \in Nat : x = Start(a, i)
          BY <3>4
        <4>2. 3 * (i - 1) <= x /\ x < 3 * l - 2 /\ 3 * l - 1 <= 3 * i
          BY <3>4, <3>5, <4>1 DEF Pieces
        <4>3. l \in Nat /\ i \in Nat
          BY <3>1
        <4> QED BY <4>1, <4>2, <4>3, SameLine
      <3> QED BY <3>1, <3>2, <3>5, <3>6
    <2>4. \A j, k \in DOMAIN lines : j < k => lines[j] < lines[k]
      BY <1>1, <2>2
    <2> QED BY <1>1, <2>1, <2>2, <2>3, <2>4
  <1> QED BY <1>2, <1>3, <1>4

\* What the end of input takes out of the buffer: one whole line at most.
LEMMA FlushTakes ==
    ASSUME written \in Seq(WireLines), \A i \in DOMAIN written : written[i].form \in Forms,
           NEW a \in Nat, NEW b \in Nat, a <= b, b <= Pieces(Len(written)),
           NEW f, f = Flush(a, b)
    PROVE  /\ f.messages \in Seq(Nat)
           /\ \A j, k \in DOMAIN f.messages : j < k => f.messages[j] < f.messages[k]
           /\ \A k \in DOMAIN f.messages :
                 /\ f.messages[k] \in DOMAIN written
                 /\ a < Pieces(f.messages[k])
                 /\ written[f.messages[k]].form \in Methods
  <1>1. CASE a # b /\ ParseLine(a, b) = "message"
    <2>1. PICK i \in DOMAIN written :
              /\ Text(a, b) = {3 * i - 2, 3 * i - 1}
              /\ a < 3 * i - 2
              /\ written[i].form \in Methods
      BY <1>1, MessageText
    <2> DEFINE l == CHOOSE j \in DOMAIN written : 3 * j - 1 \in Text(a, b)
    <2>2. l \in DOMAIN written /\ 3 * l - 1 \in Text(a, b)
      BY <2>1
    <2>3. l = i
      BY <2>1, <2>2
    <2>4. f.messages = <<l>>
      BY <1>1 DEF Flush
    <2> HIDE DEF l
    <2> QED BY <2>1, <2>3, <2>4 DEF Pieces
  <1>2. CASE ~(a # b /\ ParseLine(a, b) = "message")
    <2>1. f.messages = << >>
      BY <1>2 DEF Flush
    <2> QED BY <2>1
  <1> QED BY <1>1, <1>2

----------------------------------------------------------------------------
(* The order of the calls *)

OrderInv == ServerTyped /\ ServerTypeOK /\ CallsInOrder /\ AnswersInOrder

\* Lines that leave the buffer wait behind all that was taken before.
LEMMA QueueGrows ==
    ASSUME OrderInv, NEW t \in Nat, taken <= t,
           NEW m \in Seq(Nat), \A j, k \in DOMAIN m : j < k => m[j] < m[k],
           \A k \in DOMAIN m : /\ m[k] \in DOMAIN written
                               /\ taken < Pieces(m[k]) /\ Pieces(m[k]) <= t
                               /\ written[m[k]].form \in Methods,
           NEW q, q = queue \o m
    PROVE  /\ q \in Seq(Nat)
           /\ \A j, k \in DOMAIN q : j < k => q[j] < q[k]
           /\ \A k \in DOMAIN q :
                 /\ q[k] \in DOMAIN written /\ Pieces(q[k]) <= t
                 /\ written[q[k]].form \in Methods
                 /\ handling # None => handling.line < q[k]
                 /\ \A r \in DOMAIN replies : replies[r].id # NoId => replies[r].id < q[k]
  <1>1. /\ queue \in Seq(Nat) /\ written \in Seq(WireLines) /\ taken \in Nat
        /\ \A j, k \in DOMAIN queue : j < k => queue[j] < queue[k]
        /\ \A k \in DOMAIN queue :
             /\ queue[k] \in DOMAIN written /\ Pieces(queue[k]) <= taken
             /\ written[queue[k]].form \in Methods
             /\ handling # None => handling.line < queue[k]
             /\ \A r \in DOMAIN replies : replies[r].id # NoId => replies[r].id < queue[k]
    BY DEF OrderInv, ServerTyped, ServerTypeOK, CallsInOrder, Methods, Pieces
  <1>2. /\ handling # None => handling.line \in Nat /\ Pieces(handling.line) <= taken
        /\ \A r \in DOMAIN replies : replies[r].id # NoId =>
             replies[r].id \in Nat /\ Pieces(replies[r].id) <= taken
    BY <1>1 DEF OrderInv, ServerTyped, CallsInOrder
  <1>3. q \in Seq(Nat) /\ Len(q) = Len(queue) + Len(m)
        /\ \A k \in DOMAIN q : \/ k \in DOMAIN queue /\ q[k] = queue[k]
                               \/ /\ k > Len(queue) /\ k - Len(queue) \in DOMAIN m
                                  /\ q[k] = m[k - Len(queue)]
    BY <1>1
  <1>4. \A n \in Nat, l \in Nat : Pieces(n) <= taken /\ taken < Pieces(l) => n < l
    BY <1>1 DEF Pieces
  <1>5. \A k \in DOMAIN q :
           /\ q[k] \in DOMAIN written /\ Pieces(q[k]) <= t
           /\ written[q[k]].form \in Methods
    <2> SUFFICES ASSUME NEW k \in DOMAIN q
                 PROVE  /\ q[k] \in DOMAIN written /\ Pieces(q[k]) <= t
                        /\ written[q[k]].form \in Methods
      OBVIOUS
    <2>1. CASE k \in DOMAIN queue /\ q[k] = queue[k]
      <3>1. /\ queue[k] \in DOMAIN written /\ Pieces(queue[k]) <= taken
            /\ written[queue[k]].form \in Methods
        BY <1>1, <2>1
      <3>2. Pieces(queue[k]) \in Nat
        BY <1>1, <3>1 DEF Pieces
      <3> QED BY <1>1, <2>1, <3>1, <3>2
    <2>2. CASE k - Len(queue) \in DOMAIN m /\ q[k] = m[k - Len(queue)]
      BY <2>2
    <2> QED BY <1>3, <2>1, <2>2
  <1>6. \A k \in DOMAIN q :
           /\ handling # None => handling.line < q[k]
           /\ \A r \in DOMAIN replies : replies[r].id # NoId => replies[r].id < q[k]
    <2> SUFFICES ASSUME NEW k \in DOMAIN q
                 PROVE  /\ handling # None => handling.line < q[k]
                        /\ \A r \in DOMAIN replies :
                              replies[r].id # NoId => replies[r].id < q[k]
      OBVIOUS
    <2>1. CASE k \in DOMAIN queue /\ q[k] = queue[k]
      BY <1>1, <2>1
    <2>2. CASE k - Len(queue) \in DOMAIN m /\ q[k] = m[k - Len(queue)]
      <3>1. PICK l \in Nat : l = q[k] /\ taken < Pieces(l)
        BY <2>2
      <3> QED BY <1>2, <1>4, <3>1
    <2> QED BY <1>3, <2>1, <2>2
  <1>7. ASSUME NEW j \in DOMAIN q, NEW k \in DOMAIN q, j < k
        PROVE  q[j] < q[k]
    <2>1. CASE k \in DOMAIN queue /\ q[k] = queue[k]
      BY <1>1, <1>3, <1>7, <2>1
    <2>2. CASE /\ k > Len(queue) /\ k - Len(queue) \in DOMAIN m
               /\ q[k] = m[k - Len(queue)]
      <3>1. CASE j \in DOMAIN queue /\ q[j] = queue[j]
        BY <1>1, <1>4, <2>2, <3>1
      <3>2. CASE /\ j > Len(queue) /\ j - Len(queue) \in DOMAIN m
                 /\ q[j] = m[j - Len(queue)]
        BY <1>1, <1>7, <2>2, <3>2
      <3> QED BY <1>3, <3>1, <3>2
    <2> QED BY <1>3, <2>1, <2>2
  <1> QED BY <1>3, <1>5, <1>6, <1>7

Replies == [id : Nat, result : Results]

\* A reply more.
LEMMA RepliesGrow ==
    ASSUME replies \in Seq(Replies), NEW reply \in Replies, NEW rs, rs = replies \o <<reply>>
    PROVE  /\ rs \in Seq(Replies) /\ Len(rs) = Len(replies) + 1
           /\ \A k \in DOMAIN rs : \/ k \in DOMAIN replies /\ rs[k] = replies[k]
                                   \/ k = Len(replies) + 1 /\ rs[k] = reply
  OBVIOUS

\* An error that answers no line leaves the order of the answers as it is.
LEMMA ErrorsKeepOrder ==
    ASSUME OrderInv, NEW kind \in ResultKinds,
           NEW rs, rs = replies \/ rs = replies \o <<Reply(NoId, Result(kind))>>
    PROVE  /\ rs \in Seq(Replies)
           /\ \A k \in DOMAIN rs : rs[k].id # NoId => k \in DOMAIN replies /\ rs[k] = replies[k]
           /\ \A k \in DOMAIN replies : k \in DOMAIN rs /\ rs[k] = replies[k]
  <1>1. replies \in Seq(Replies)
    BY DEF OrderInv, ServerTyped, Replies
  <1>2. CASE rs = replies
    BY <1>1, <1>2
  <1>3. CASE rs = replies \o <<Reply(NoId, Result(kind))>>
    <2>1. Result(kind) \in Results
      BY DEF Result, Results
    <2>2. Reply(NoId, Result(kind)) \in Replies /\ Reply(NoId, Result(kind)).id = NoId
      BY <2>1 DEF Reply, Replies, NoId
    <2> QED BY <1>1, <1>3, <2>2, RepliesGrow
  <1> QED BY <1>2, <1>3

\* A line that the client writes comes after all that it wrote before.
LEMMA WriteKeepsOrder ==
    ASSUME OrderInv, NEW line \in WireLines, line.form \in Forms, Write(line)
    PROVE  OrderInv'
  <1>1. /\ written \in Seq(WireLines) /\ written' = Append(written, line)
        /\ UNCHANGED <<arrived, taken, queue, handling, replies, work, recorded>>
        /\ server' = "running"
    BY DEF Write, OrderInv, ServerTyped, treeVars, storeVars
  <1>2. /\ written' \in Seq(WireLines) /\ Len(written') = Len(written) + 1
        /\ \A i \in DOMAIN written : i \in DOMAIN written' /\ written'[i] = written[i]
        /\ \A i \in DOMAIN written' : i \in DOMAIN written \/ written'[i] = line
    BY <1>1
  <1>3. ServerTyped'
    BY <1>1, <1>2 DEF OrderInv, ServerTyped
  <1>4. ServerTypeOK'
    <2>1. /\ \A i \in DOMAIN written : written[i].form \in Forms
          /\ taken \in 0 .. arrived /\ arrived \in 0 .. Pieces(Len(written))
          /\ Len(written) \in Nat
      BY <1>1 DEF OrderInv, ServerTypeOK
    <2>2. \A i \in DOMAIN written' : written'[i].form \in Forms
      BY <1>2, <2>1
    <2>3. arrived \in 0 .. Pieces(Len(written'))
      BY <1>2, <2>1 DEF Pieces
    <2> QED BY <1>1, <1>2, <2>1, <2>2, <2>3 DEF OrderInv, ServerTypeOK, Up, Pieces
  <1>5. CallsInOrder'
    BY <1>1, <1>2 DEF OrderInv, CallsInOrder, Pieces
  <1>6. AnswersInOrder'
    BY <1>1, <1>2 DEF OrderInv, AnswersInOrder, CallsInOrder
  <1> QED BY <1>3, <1>4, <1>5, <1>6 DEF OrderInv

\* Lines taken from the buffer go behind those that wait.
LEMMA TakingKeepsOrder ==
    ASSUME OrderInv, handling = None,
           NEW b \in Nat, arrived' = b, taken <= b, b <= Pieces(Len(written)),
           NEW d,
           d.taken \in taken .. b,
           d.messages \in Seq(Nat),
           \A j, k \in DOMAIN d.messages : j < k => d.messages[j] < d.messages[k],
           \A k \in DOMAIN d.messages :
              /\ d.messages[k] \in DOMAIN written
              /\ taken < Pieces(d.messages[k]) /\ Pieces(d.messages[k]) <= d.taken
              /\ written[d.messages[k]].form \in Methods,
           taken' = d.taken, queue' = queue \o d.messages,
           replies' = replies \/ replies' = replies \o ParseError,
           server' \in {"running", "draining"},
           UNCHANGED <<written, handling, work, recorded>>
    PROVE  OrderInv'
  <1>1. arrived' = b
    OBVIOUS
  <1>2. /\ written \in Seq(WireLines) /\ queue \in Seq(Nat)
        /\ taken \in Nat /\ arrived \in Nat /\ taken <= arrived
        /\ b \in Nat /\ taken <= b /\ b <= Pieces(Len(written))
        /\ \A i \in DOMAIN written : written[i].form \in Forms
        /\ handling = None
    BY DEF OrderInv, ServerTyped, ServerTypeOK, Pieces
  <1>4. /\ taken' = d.taken /\ queue' = queue \o d.messages
        /\ replies' = replies \/ replies' = replies \o <<Reply(NoId, Result("parse error"))>>
        /\ UNCHANGED <<written, handling, work, recorded>>
    BY DEF ParseError
  <1>5. /\ d.taken \in taken .. b
        /\ d.messages \in Seq(Nat)
        /\ \A j, k \in DOMAIN d.messages : j < k => d.messages[j] < d.messages[k]
        /\ \A k \in DOMAIN d.messages :
              /\ d.messages[k] \in DOMAIN written
              /\ taken < Pieces(d.messages[k]) /\ Pieces(d.messages[k]) <= d.taken
              /\ written[d.messages[k]].form \in Methods
    OBVIOUS
  <1>6. /\ queue' \in Seq(Nat)
        /\ \A j, k \in DOMAIN queue' : j < k => queue'[j] < queue'[k]
        /\ \A k \in DOMAIN queue' :
              /\ queue'[k] \in DOMAIN written /\ Pieces(queue'[k]) <= d.taken
              /\ written[queue'[k]].form \in Methods
              /\ \A r \in DOMAIN replies : replies[r].id # NoId => replies[r].id < queue'[k]
    <2>1. d.taken \in Nat /\ taken <= d.taken
      BY <1>2, <1>5
    <2> QED BY <1>4, <1>5, <2>1, QueueGrows
  <1>7. /\ replies' \in Seq(Replies)
        /\ \A k \in DOMAIN replies' :
             replies'[k].id # NoId => k \in DOMAIN replies /\ replies'[k] = replies[k]
        /\ \A k \in DOMAIN replies : k \in DOMAIN replies' /\ replies'[k] = replies[k]
    <2>1. "parse error" \in ResultKinds
      BY DEF ResultKinds
    <2> QED BY <1>4, <2>1, ErrorsKeepOrder
  <1>8. ServerTyped'
    BY <1>2, <1>4, <1>6, <1>7 DEF OrderInv, ServerTyped, Replies
  <1>9. ServerTypeOK'
    <2>1. taken' \in 0 .. arrived' /\ arrived' \in 0 .. Pieces(Len(written'))
      <3>1. Len(written') = Len(written) /\ Len(written) \in Nat
        <4>1. written' = written
          BY <1>4
        <4> QED BY <1>2, <4>1
      <3>2. taken' = d.taken /\ arrived' = b
        BY <1>1, <1>4
      <3> QED BY <1>2, <1>5, <3>1, <3>2 DEF Pieces
    <2>2. \A k \in DOMAIN queue' :
            /\ queue'[k] \in DOMAIN written' /\ Pieces(queue'[k]) <= taken'
            /\ written'[queue'[k]].form \in Methods /\ handling' = None
      BY <1>2, <1>4, <1>6
    <2> QED BY <1>2, <1>4, <1>6, <2>1, <2>2 DEF OrderInv, ServerTypeOK, Methods, Up, Pieces
  <1>10. CallsInOrder'
    <2>1. \A n \in Nat : Pieces(n) <= taken => Pieces(n) <= d.taken
      BY <1>2, <1>5 DEF Pieces
    <2>2. \A k \in DOMAIN replies' : replies'[k].id # NoId =>
             /\ replies'[k].id \in DOMAIN written' /\ Pieces(replies'[k].id) <= taken'
             /\ \A j \in DOMAIN queue' : replies'[k].id < queue'[j]
      <3>1. TAKE k \in DOMAIN replies'
      <3>2. HAVE replies'[k].id # NoId
      <3>3. k \in DOMAIN replies /\ replies'[k] = replies[k] /\ replies[k].id # NoId
        BY <1>7, <3>2
      <3>4. /\ replies[k].id \in DOMAIN written /\ Pieces(replies[k].id) <= taken
            /\ replies[k].id \in Nat
        BY <1>2, <3>3 DEF OrderInv, CallsInOrder
      <3> QED BY <1>4, <1>6, <2>1, <3>3, <3>4
    <2> QED BY <1>2, <1>4, <2>2 DEF CallsInOrder, Pieces, NoId
  <1>11. AnswersInOrder'
    <2>1. replies \in Seq(Replies) /\ replies' \in Seq(Replies)
      BY <1>7 DEF OrderInv, ServerTyped, Replies
    <2>2. \A k \in DOMAIN replies' : replies'[k].id # NoId =>
             /\ written'[replies'[k].id].form = "request"
             /\ \A j \in 1 .. k - 1 : replies'[j].id < replies'[k].id
      <3>1. TAKE k \in DOMAIN replies'
      <3>2. HAVE replies'[k].id # NoId
      <3>3. k \in DOMAIN replies /\ replies'[k] = replies[k] /\ replies[k].id # NoId
        BY <1>7, <3>2
      <3>4. \A j \in 1 .. k - 1 : j \in DOMAIN replies /\ replies'[j] = replies[j]
        BY <1>7, <2>1, <3>3
      <3> QED BY <1>4, <3>3, <3>4 DEF OrderInv, AnswersInOrder
    <2> QED BY <2>2 DEF AnswersInOrder, NoId
  <1> QED BY <1>8, <1>9, <1>10, <1>11 DEF OrderInv

\* A chunk: what it completes is taken from the buffer.
LEMMA ReceiveKeepsOrder == ASSUME OrderInv, Receive PROVE OrderInv'
  <1>1. PICK b : b = arrived'
    OBVIOUS
  <1>2. /\ written \in Seq(WireLines) /\ taken \in Nat /\ arrived \in Nat
        /\ taken <= arrived /\ \A i \in DOMAIN written : written[i].form \in Forms
        /\ b \in arrived + 1 .. Pieces(Len(written)) /\ handling = None
    BY <1>1 DEF OrderInv, ServerTyped, ServerTypeOK, Receive, Pieces
  <1>3. b \in Nat /\ taken <= b /\ b <= Pieces(Len(written))
    BY <1>2 DEF Pieces
  <1>4. PICK d : d = Drain(taken, b)
    OBVIOUS
  <1>5. /\ taken' = d.taken /\ queue' = queue \o d.messages
        /\ replies' = replies \/ replies' = replies \o ParseError
        /\ server' = "running" /\ UNCHANGED <<written, handling, work, recorded>>
    BY <1>1, <1>4 DEF Receive, treeVars, storeVars
  <1> QED BY <1>1, <1>2, <1>3, <1>4, <1>5, DrainTakes, TakingKeepsOrder

\* The end of the input: the last line is taken, and nothing is left.
LEMMA EndKeepsOrder == ASSUME OrderInv, End PROVE OrderInv'
  <1> DEFINE b == Pieces(Len(written))
  <1>1. /\ written \in Seq(WireLines) /\ taken \in Nat /\ arrived \in Nat
        /\ taken <= arrived /\ arrived <= b /\ b \in Nat
        /\ \A i \in DOMAIN written : written[i].form \in Forms
        /\ handling = None
    BY DEF OrderInv, ServerTyped, ServerTypeOK, End, Pieces
  <1>2. PICK f : f = Flush(taken, arrived)
    OBVIOUS
  <1> DEFINE d == [taken |-> b, messages |-> f.messages]
  <1>3. /\ taken' = b /\ arrived' = b /\ queue' = queue \o f.messages
        /\ replies' = replies \/ replies' = replies \o ParseError
        /\ server' = "draining" /\ UNCHANGED <<written, handling, work, recorded>>
    BY <1>2 DEF End, NothingIsLeft, treeVars, storeVars
  <1>4. /\ f.messages \in Seq(Nat)
        /\ \A j, k \in DOMAIN f.messages : j < k => f.messages[j] < f.messages[k]
        /\ \A k \in DOMAIN f.messages :
              /\ f.messages[k] \in DOMAIN written
              /\ taken < Pieces(f.messages[k])
              /\ written[f.messages[k]].form \in Methods
    BY <1>1, <1>2, FlushTakes
  <1>5. \A k \in DOMAIN f.messages : Pieces(f.messages[k]) <= b
    BY <1>1, <1>4 DEF Pieces
  <1>6. d.taken = b /\ d.messages = f.messages /\ b \in taken .. b
    BY <1>1
  <1>7. b <= Pieces(Len(written))
    BY <1>1
  <1> HIDE DEF d, b
  <1>8. /\ \A j, k \in DOMAIN d.messages : j < k => d.messages[j] < d.messages[k]
        /\ \A k \in DOMAIN d.messages :
              /\ d.messages[k] \in DOMAIN written
              /\ taken < Pieces(d.messages[k]) /\ Pieces(d.messages[k]) <= d.taken
              /\ written[d.messages[k]].form \in Methods
    BY <1>4, <1>5, <1>6
  <1>9. /\ arrived' = b /\ taken <= b /\ d.taken \in taken .. b /\ d.messages \in Seq(Nat)
        /\ taken' = d.taken /\ queue' = queue \o d.messages
        /\ server' \in {"running", "draining"}
    BY <1>1, <1>3, <1>4, <1>6
  <1> QED BY <1>1, <1>3, <1>7, <1>8, <1>9, TakingKeepsOrder

\* The head of the queue is the call that runs next.
LEMMA BeginKeepsOrder == ASSUME OrderInv, Begin PROVE OrderInv'
  <1> DEFINE i == queue[1]
  <1>1. /\ written \in Seq(WireLines) /\ queue \in Seq(Nat) /\ queue # << >>
        /\ handling = None /\ Head(queue) = i /\ i \in DOMAIN written
        /\ queue' = Tail(queue) /\ queue' \in Seq(Nat)
        /\ UNCHANGED <<written, arrived, taken, server, work, recorded>>
    <2>1. /\ written \in Seq(WireLines) /\ queue \in Seq(Nat) /\ queue # << >>
          /\ handling = None /\ queue' = Tail(queue)
      BY DEF Begin, OrderInv, ServerTyped
    <2>2. Head(queue) = i /\ 1 \in DOMAIN queue /\ queue' \in Seq(Nat)
      BY <2>1
    <2>3. i \in DOMAIN written
      BY <2>2 DEF OrderInv, ServerTypeOK
    <2>4. UNCHANGED <<written, arrived, taken, server, work, recorded>>
      BY DEF Begin, treeVars, storeVars
    <2> QED BY <2>1, <2>2, <2>3, <2>4
  <1>2. \A k \in DOMAIN queue' :
           k \in Nat /\ k + 1 \in DOMAIN queue /\ queue'[k] = queue[k + 1] /\ i < queue'[k]
    BY <1>1 DEF OrderInv, ServerTypeOK
  <1>3. /\ Pieces(i) <= taken
        /\ written[i].form \in Methods
        /\ \A k \in DOMAIN replies : replies[k].id # NoId => replies[k].id < i
    BY <1>1 DEF OrderInv, ServerTypeOK, CallsInOrder, Methods
  <1>4. /\ \A j, k \in DOMAIN queue' : j < k => queue'[j] < queue'[k]
        /\ \A k \in DOMAIN queue' : /\ queue'[k] \in DOMAIN written
                                    /\ Pieces(queue'[k]) <= taken
                                    /\ written[queue'[k]].form \in Methods
    <2>1. \A j, k \in DOMAIN queue : j < k => queue[j] < queue[k]
      BY DEF OrderInv, ServerTypeOK
    <2>2. \A k \in DOMAIN queue : /\ queue[k] \in DOMAIN written
                                  /\ Pieces(queue[k]) <= taken
                                  /\ written[queue[k]].form \in Methods
      BY DEF OrderInv, ServerTypeOK, Methods
    <2>3. \A j, k \in DOMAIN queue' : j < k => queue'[j] < queue'[k]
      BY <1>1, <1>2, <2>1
    <2> QED BY <1>1, <1>2, <2>2, <2>3
  <1>5. /\ replies \in Seq(Replies) /\ work \in Worktrees
        /\ \A k \in DOMAIN replies : replies[k].id # NoId =>
             /\ replies[k].id \in DOMAIN written /\ Pieces(replies[k].id) <= taken
             /\ \A j \in DOMAIN queue' : replies[k].id < queue'[j]
    BY <1>1, <1>2 DEF OrderInv, ServerTyped, ServerTypeOK, CallsInOrder, Replies
  <1>6. CASE written[i].form = "invalid"
    <2>1. /\ handling' = None
          /\ replies' = replies \o <<Reply(NoId, Result("invalid request"))>>
      BY <1>1, <1>5, <1>6 DEF Begin
    <2>2. "invalid request" \in ResultKinds
      BY DEF ResultKinds
    <2>3. /\ replies' \in Seq(Replies)
          /\ \A k \in DOMAIN replies' :
               replies'[k].id # NoId => k \in DOMAIN replies /\ replies'[k] = replies[k]
          /\ \A k \in DOMAIN replies : k \in DOMAIN replies' /\ replies'[k] = replies[k]
      BY <2>1, <2>2, ErrorsKeepOrder
    <2>4. ServerTyped'
      BY <1>1, <2>1, <2>3 DEF OrderInv, ServerTyped, Replies
    <2>5. ServerTypeOK'
      BY <1>1, <1>4, <1>5, <2>1 DEF OrderInv, ServerTypeOK, Methods, Up, Pieces
    <2>6. CallsInOrder'
      BY <1>1, <1>5, <2>1, <2>3 DEF CallsInOrder, Pieces, NoId
    <2>7. AnswersInOrder'
      <3>1. \A k \in DOMAIN replies' : replies'[k].id # NoId =>
               /\ written'[replies'[k].id].form = "request"
               /\ \A j \in 1 .. k - 1 : replies'[j].id < replies'[k].id
        <4>1. TAKE k \in DOMAIN replies'
        <4>2. HAVE replies'[k].id # NoId
        <4>3. k \in DOMAIN replies /\ replies'[k] = replies[k] /\ replies[k].id # NoId
          BY <2>3, <4>2
        <4>4. \A j \in 1 .. k - 1 : j \in DOMAIN replies /\ replies'[j] = replies[j]
          BY <1>5, <2>3, <4>3
        <4> QED BY <1>1, <4>3, <4>4 DEF OrderInv, AnswersInOrder
      <3> QED BY <3>1 DEF AnswersInOrder, NoId
    <2> QED BY <2>4, <2>5, <2>6, <2>7 DEF OrderInv
  <1>7. CASE written[i].form # "invalid"
    <2>1. handling' = [line |-> i, seen |-> work, result |-> None] /\ replies' = replies
      BY <1>1, <1>7 DEF Begin
    <2>2. /\ handling'.line = i /\ i \in Nat
          /\ handling' \in [line : Nat, seen : Worktrees, result : Results \cup {None}]
      BY <1>1, <1>5, <2>1
    <2>3. written[i].form \in {"request", "notification"}
      BY <1>3, <1>7 DEF Methods
    <2>4. ServerTyped'
      BY <1>1, <1>5, <2>1, <2>2 DEF OrderInv, ServerTyped, Replies
    <2>5. ServerTypeOK'
      BY <1>1, <1>2, <1>4, <1>5, <2>2 DEF OrderInv, ServerTypeOK, Methods, Up, Pieces
    <2>6. CallsInOrder'
      BY <1>1, <1>3, <1>5, <2>1, <2>2, <2>3 DEF CallsInOrder, Pieces, NoId
    <2>7. AnswersInOrder'
      BY <1>1, <2>1 DEF OrderInv, AnswersInOrder, NoId
    <2> QED BY <2>4, <2>5, <2>6, <2>7 DEF OrderInv
  <1> QED BY <1>6, <1>7

\* A call that ends keeps its place.
LEMMA FinishKeepsOrder ==
    ASSUME OrderInv, handling # None, NEW result \in Results, Finish(result),
           recorded' \subseteq Notes
    PROVE  OrderInv'
  <1>1. /\ handling \in [line : Nat, seen : Worktrees, result : Results \cup {None}]
        /\ handling' = [handling EXCEPT !.result = result]
        /\ UNCHANGED <<written, arrived, taken, queue, replies, server, work>>
    BY DEF Finish, OrderInv, ServerTyped, streamVars, treeVars, storeVars
  <1>2. /\ handling' \in [line : Nat, seen : Worktrees, result : Results \cup {None}]
        /\ handling'.line = handling.line
    BY <1>1
  <1>3. ServerTyped'
    BY <1>1, <1>2 DEF OrderInv, ServerTyped
  <1>4. ServerTypeOK'
    BY <1>1, <1>2 DEF OrderInv, ServerTypeOK, Up, Pieces
  <1>5. CallsInOrder'
    BY <1>1, <1>2 DEF OrderInv, CallsInOrder, Pieces, NoId
  <1>6. AnswersInOrder'
    BY <1>1 DEF OrderInv, AnswersInOrder, NoId
  <1> QED BY <1>3, <1>4, <1>5, <1>6 DEF OrderInv

\* The reply to the call that ran is the last one and answers a later line than any.
LEMMA RespondKeepsOrder == ASSUME OrderInv, Respond PROVE OrderInv'
  <1> DEFINE i == handling.line
             reply == Reply(i, handling.result)
  <1>1. /\ handling \in [line : Nat, seen : Worktrees, result : Results \cup {None}]
        /\ handling.result \in Results /\ replies \in Seq(Replies) /\ i \in DOMAIN written
        /\ handling' = None
        /\ UNCHANGED <<written, arrived, taken, queue, server, work, recorded>>
    BY DEF Respond, OrderInv, ServerTyped, CallsInOrder, streamVars, treeVars, storeVars, Replies
  <1>2. /\ written \in Seq(WireLines) /\ i \in Nat
        /\ reply \in Replies /\ reply.id = i
    BY <1>1 DEF Reply, Replies, OrderInv, ServerTyped
  <1>3. ServerTypeOK'
    BY <1>1 DEF OrderInv, ServerTypeOK, Up, Pieces
  <1>4. CASE replies' = replies
    <2>1. ServerTyped'
      BY <1>1, <1>4 DEF OrderInv, ServerTyped
    <2>2. CallsInOrder'
      BY <1>1, <1>4 DEF OrderInv, CallsInOrder, Pieces, NoId
    <2>3. AnswersInOrder'
      BY <1>1, <1>4 DEF OrderInv, AnswersInOrder, NoId
    <2> QED BY <1>3, <2>1, <2>2, <2>3 DEF OrderInv
  <1>5. CASE replies' = replies \o <<reply>> /\ written[i].form # "notification"
    <2>1. /\ replies' \in Seq(Replies) /\ Len(replies') = Len(replies) + 1
          /\ \A k \in DOMAIN replies' : \/ k \in DOMAIN replies /\ replies'[k] = replies[k]
                                        \/ k = Len(replies) + 1 /\ replies'[k] = reply
      BY <1>1, <1>2, <1>5, RepliesGrow
    <2>2. /\ Pieces(i) <= taken /\ written[i].form = "request"
          /\ \A j \in DOMAIN queue : i < queue[j]
          /\ \A k \in DOMAIN replies : replies[k].id \in Nat /\ (replies[k].id # NoId => replies[k].id < i)
          /\ i > 0
      <3>1. handling # None
        BY DEF Respond
      <3>2. /\ Pieces(i) <= taken /\ written[i].form = "request"
            /\ \A j \in DOMAIN queue : i < queue[j]
        BY <1>5, <3>1 DEF OrderInv, CallsInOrder, ServerTypeOK
      <3>3. \A k \in DOMAIN replies : replies[k] \in Replies
        BY <1>1
      <3>4. \A k \in DOMAIN replies : replies[k].id \in Nat
        BY <3>3 DEF Replies
      <3>5. \A k \in DOMAIN replies : replies[k].id # NoId => replies[k].id < i
        BY <3>1 DEF OrderInv, CallsInOrder
      <3>6. i > 0
        BY <1>1, <1>2
      <3> QED BY <3>2, <3>4, <3>5, <3>6
    <2>3. ServerTyped'
      BY <1>1, <2>1 DEF OrderInv, ServerTyped, Replies
    <2>4. CallsInOrder'
      <3>1. \A k \in DOMAIN replies' : replies'[k].id # NoId =>
               /\ replies'[k].id \in DOMAIN written /\ Pieces(replies'[k].id) <= taken
               /\ \A j \in DOMAIN queue : replies'[k].id < queue[j]
        BY <1>1, <1>2, <2>1, <2>2 DEF OrderInv, CallsInOrder
      <3> QED BY <1>1, <3>1 DEF CallsInOrder, Pieces, NoId
    <2>5. AnswersInOrder'
      <3>1. ASSUME NEW k \in DOMAIN replies', replies'[k].id # NoId
            PROVE  /\ written[replies'[k].id].form = "request"
                   /\ \A j \in 1 .. k - 1 : replies'[j].id < replies'[k].id
        <4>1. \A j \in 1 .. k - 1 : j \in DOMAIN replies /\ replies'[j] = replies[j]
          BY <1>1, <2>1, <3>1
        <4>2. CASE k \in DOMAIN replies /\ replies'[k] = replies[k]
          BY <3>1, <4>1, <4>2 DEF OrderInv, AnswersInOrder
        <4>3. CASE k = Len(replies) + 1 /\ replies'[k] = reply
          BY <1>2, <2>2, <4>1, <4>3 DEF NoId
        <4> QED BY <2>1, <4>2, <4>3
      <3> QED BY <1>1, <3>1 DEF AnswersInOrder, NoId
    <2> QED BY <1>3, <2>3, <2>4, <2>5 DEF OrderInv
  <1>6. \/ replies' = replies
        \/ replies' = replies \o <<reply>> /\ written[i].form # "notification"
    BY <1>1 DEF Respond, RespondIfNeeded
  <1> QED BY <1>4, <1>5, <1>6

\* A process that ends or dies takes the queue and the call with it, and nothing of
\* what it read will be read again.
LEMMA StopKeepsOrder ==
    ASSUME OrderInv, NEW how \in {"exited", "dead"}, Stop(how)
    PROVE  OrderInv'
  <1> DEFINE b == Pieces(Len(written))
  <1>1. /\ written \in Seq(WireLines) /\ taken \in Nat /\ taken <= b /\ b \in Nat
        /\ queue' = << >> /\ handling' = None /\ server' = how
        /\ arrived' = b /\ taken' = b
        /\ UNCHANGED <<written, replies, work, recorded>>
    BY DEF Stop, NothingIsLeft, OrderInv, ServerTyped, ServerTypeOK, treeVars, storeVars, Pieces
  <1>2. ServerTyped'
    BY <1>1 DEF OrderInv, ServerTyped
  <1>3. ServerTypeOK'
    BY <1>1 DEF OrderInv, ServerTypeOK, Up, Pieces
  <1>4. CallsInOrder'
    <2>1. \A n \in DOMAIN written : Pieces(n) <= taken => Pieces(n) <= b
      BY <1>1 DEF Pieces
    <2> QED BY <1>1, <2>1 DEF OrderInv, CallsInOrder, Pieces, NoId
  <1>5. AnswersInOrder'
    BY <1>1 DEF OrderInv, AnswersInOrder, NoId
  <1> QED BY <1>2, <1>3, <1>4, <1>5 DEF OrderInv

\* A new server, a worktree that moves and what others record disturb no call.
LEMMA OthersKeepOrder ==
    ASSUME OrderInv,
           UNCHANGED <<written, arrived, taken, queue, handling, replies>>,
           work' \in Worktrees, recorded' \subseteq Notes,
           server' = "running" \/ server' = server
    PROVE  OrderInv'
  <1>1. ServerTyped' /\ CallsInOrder' /\ AnswersInOrder'
    BY DEF OrderInv, ServerTyped, CallsInOrder, AnswersInOrder, Pieces, NoId
  <1>2. ServerTypeOK'
    BY DEF OrderInv, ServerTypeOK, Up, Pieces
  <1> QED BY <1>1, <1>2 DEF OrderInv

----------------------------------------------------------------------------
(* What the calls do to the ledger *)

\* Builds are of what the snapshot of their call saw and of some of the notes, and
\* omissions are of their sections.
CompiledFrom(n, tree) ==
    \E q \in Queries, known \in SUBSET recorded :
        artifacts[n].shape = Compiled[tree][artifacts[n].session][known][q]
BuildsAreCompiled ==
    /\ \A n \in ArtifactIds : \E tree \in Worktrees : CompiledFrom(n, tree)
    /\ \A o \in omitted : o.section \in DOMAIN ArtifactOf(o).shape.sections

LedgerPart == LedgerInv /\ BuildsAreCompiled

\* What the call that runs may ask for.
LEMMA CallIsTyped ==
    ASSUME OrderInv, handling # None, GetsContext(written[handling.line]),
           ResolveMcpSessionId(written[handling.line].args) # None
    PROVE  /\ ResolveMcpSessionId(written[handling.line].args) \in Sessions
           /\ written[handling.line].args.query \in Queries
           /\ written[handling.line].args.reset \in BOOLEAN
  <1>1. PICK line \in WireLines : line = written[handling.line]
    BY DEF OrderInv, ServerTyped, CallsInOrder
  <1>2. \A s, token : ~GetsContext(RestoreLine(s, token))
    BY DEF GetsContext, RestoreLine
  <1>3. line \in Lines \cup OddLines
    BY <1>1, <1>2 DEF WireLines
  <1> QED BY <1>1, <1>3, CallsAreTyped

\* A token of the ledger.
LEMMA TokensAreTyped ==
    ASSUME LedgerPart, NEW token \in omitted
    PROVE  /\ token \in Token /\ token.artifact \in ArtifactIds
           /\ token.section \in DOMAIN ArtifactOf(token).shape.sections
           /\ ArtifactOf(token).shape \in Shapes
           /\ SectionOf(token).content \in Contents
  <1>1. /\ token \in OmittedItem /\ token.artifact \in ArtifactIds
        /\ artifacts[token.artifact] \in Artifact
    BY StoredArtifacts DEF LedgerPart, LedgerInv, TypeOK, OmittedItem
  <1>2. token \in Token
    BY <1>1 DEF OmittedItem, Token, ArtifactIds
  <1>3. token.section \in DOMAIN ArtifactOf(token).shape.sections
    BY DEF LedgerPart, BuildsAreCompiled
  <1>4. ArtifactOf(token).shape \in Shapes
    BY <1>1 DEF ArtifactOf, Artifact
  <1>5. SectionOf(token).content \in Contents
    BY <1>3, <1>4 DEF Contents, SectionOf
  <1> QED BY <1>1, <1>2, <1>3, <1>4, <1>5

\* What a restore gives.
LEMMA RestoreGives ==
    ASSUME NEW s, NEW token, NEW seen
    PROVE  \/ RestoreOmittedContext(s, token, seen) = Result("tool error")
           \/ /\ token \in omitted /\ SessionOf(token) = s
              /\ \/ RestoreOmittedContext(s, token, seen) = [kind |-> "stale", token |-> token]
                 \/ /\ ~DependencyStaleReason(ArtifactOf(token).shape, Snapshots[seen])
                    /\ RestoreOmittedContext(s, token, seen)
                          = [kind |-> "restored", token |-> token, seen |-> seen,
                             content |-> SectionOf(token).content]
  <1>1. CASE RestoreOf(s, token) = {}
    BY <1>1 DEF RestoreOmittedContext
  <1>2. CASE RestoreOf(s, token) # {}
    <2>1. token \in omitted /\ SessionOf(token) = s
      BY <1>2 DEF RestoreOf
    <2> QED BY <1>2, <2>1 DEF RestoreOmittedContext, LoadVerifiedOmittedArtifact
  <1> QED BY <1>1, <1>2

\* What a call that only reads gives: a restore, or a fixed answer.
LEMMA AnswerGives ==
    ASSUME NEW line, NEW seen, NEW result, result = Answer(line, seen)
    PROVE  \/ /\ line.method = "tools/call" /\ line.tool = "grape_get_omitted_item"
              /\ result = RestoreOmittedContext(line.args.session, line.args.token, seen)
           \/ \E kind \in ResultKinds : result = Result(kind)
  <1> DEFINE call == line.method = "tools/call"
             restore == call /\ line.tool = "grape_get_omitted_item"
  <1>1. \/ /\ restore
           /\ result = RestoreOmittedContext(line.args.session, line.args.token, seen)
        \/ result = Result("result") \/ result = Result("invalid params")
        \/ result = Result("none") \/ result = Result("method not found")
    BY DEF Answer, CallMcpTool
  <1>2. /\ "result" \in ResultKinds /\ "invalid params" \in ResultKinds
        /\ "none" \in ResultKinds /\ "method not found" \in ResultKinds
    BY DEF ResultKinds
  <1> QED BY <1>1, <1>2

\* It is a result.
LEMMA AnswerIsResult ==
    ASSUME LedgerPart, NEW line, NEW seen \in Worktrees
    PROVE  Answer(line, seen) \in Results
  <1>1. \A kind \in ResultKinds : Result(kind) \in Results
    BY DEF Result, Results
  <1>2. "tool error" \in ResultKinds
    BY DEF ResultKinds
  <1>3. ASSUME NEW s, NEW token
        PROVE  RestoreOmittedContext(s, token, seen) \in Results
    <2>1. ASSUME token \in omitted
          PROVE  /\ [kind |-> "stale", token |-> token] \in Results
                 /\ [kind |-> "restored", token |-> token, seen |-> seen,
                     content |-> SectionOf(token).content] \in Results
      BY <2>1, TokensAreTyped DEF Results
    <2> QED BY <1>1, <1>2, <2>1, RestoreGives
  <1> QED BY <1>1, <1>3, AnswerGives

\* A call for context is of a session and a query of the model.
LEMMA GetContextCalls ==
    ASSUME OrderInv, GetContext
    PROVE  LET args == written[handling.line].args IN
           /\ handling # None /\ handling.seen \in Worktrees
           /\ ResolveMcpSessionId(args) \in Sessions /\ args.query \in Queries
           /\ args.reset \in BOOLEAN
  <1>1. handling # None /\ GetsContext(written[handling.line])
    BY DEF GetContext, Running
  <1>2. ResolveMcpSessionId(written[handling.line].args) # None
    BY DEF GetContext
  <1>3. handling.seen \in Worktrees
    BY <1>1 DEF OrderInv, ServerTyped
  <1> QED BY <1>1, <1>2, <1>3, CallIsTyped

\* Its build: with a shape of the model, one artifact behind those that are there.
LEMMA GetContextBuilds ==
    ASSUME OrderInv, GetContext
    PROVE  \E s \in Sessions, q \in Queries, known \in SUBSET Notes,
              reset \in BOOLEAN, at \in Clocks :
              /\ at = Len(artifacts) + 1
              /\ known \subseteq recorded'
              /\ Compiled[handling.seen][s][known][q] \in Shapes
              /\ Build(s, Compiled[handling.seen][s][known][q], at, reset)
  <1> DEFINE args == written[handling.line].args
             s    == ResolveMcpSessionId(args)
  <1>1. /\ handling.seen \in Worktrees /\ s \in Sessions /\ args.query \in Queries
        /\ args.reset \in BOOLEAN
    BY GetContextCalls
  <1>2. PICK known \in Grown(recorded) :
            /\ recorded' \in Grown(known)
            /\ Build(s, Compiled[handling.seen][s][known][args.query],
                     Len(artifacts) + 1, args.reset)
    BY DEF GetContext
  <1>3. known \in SUBSET Notes /\ known \subseteq recorded'
    BY <1>2 DEF Grown
  <1>4. Compiled[handling.seen][s][known][args.query] \in Shapes
    BY <1>1, <1>3, CompiledFromSnapshots
  <1>5. Len(artifacts) + 1 \in Clocks
    BY DEF GetContext
  <1> HIDE DEF s
  <1> QED BY <1>1, <1>2, <1>3, <1>4, <1>5

\* And its result.
LEMMA GetContextEnds ==
    ASSUME GetContext
    PROVE  \/ /\ Len(artifacts) + 1 \in Clocks
              /\ Finish([kind |-> "pack", artifact |-> Len(artifacts) + 1,
                         seen |-> handling.seen])
           \/ Finish(Result("tool error"))
  BY DEF GetContext

\* Notes are added by calls, and by others, and never removed.
LEMMA NotesGrow ==
    ASSUME OrderInv, [Next]_vars
    PROVE  recorded \subseteq recorded' /\ recorded' \subseteq Notes
  <1>1. recorded \subseteq Notes
    BY DEF OrderInv, ServerTypeOK
  <1>2. CASE GetContext
    <2>1. PICK known \in Grown(recorded) : recorded' \in Grown(known)
      BY <1>2 DEF GetContext
    <2> QED BY <2>1 DEF Grown
  <1>3. CASE GetContextFails \/ RecordCall \/ RecordElsewhere
    BY <1>3 DEF GetContextFails, RecordCall, RecordElsewhere, Grown
  <1>4. ASSUME ~GetContext, ~GetContextFails, ~RecordCall, ~RecordElsewhere
        PROVE  recorded' = recorded
    BY <1>4 DEF Next, WriteSome, Write, Restart, Move, ServerStep, Receive, Begin,
                AnswerCall, Respond, End, Exit, Die, Stop, vars, storeVars
  <1> QED BY <1>1, <1>2, <1>3, <1>4

\* No step of the server or the client does anything else to the ledger.
LEMMA LedgerSteps ==
    ASSUME LedgerPart, OrderInv, Next
    PROVE  GetContext \/ UNCHANGED ledgerVars
  BY DEF Next, WriteSome, Write, Restart, Move, RecordElsewhere, ServerStep, Receive, Begin,
         GetContextFails, RecordCall, AnswerCall, Respond, End, Exit, Die, Stop, storeVars

\* So every step of the server is a build of the ledger, in the order of the clock,
\* or leaves the ledger alone.
LEMMA StepsBuildInOrder ==
    ASSUME LedgerPart, OrderInv, [Next]_vars
    PROVE  [InOrderNext]_ledgerVars
  <1>1. CASE GetContext
    BY <1>1, GetContextBuilds DEF InOrderNext
  <1>2. CASE UNCHANGED vars
    BY <1>2 DEF vars, storeVars
  <1> QED BY <1>1, <1>2, LedgerSteps

\* Builds stay compiled from what their calls saw.
LEMMA LedgerPartStep ==
    ASSUME LedgerPart, OrderInv, [Next]_vars
    PROVE  /\ LedgerPart'
           /\ ArtifactIds \subseteq ArtifactIds'
           /\ \A n \in ArtifactIds : artifacts'[n] = artifacts[n]
  <1>1. [LedgerNext]_ledgerVars
    BY StepsBuildInOrder DEF InOrderNext, LedgerNext
  <1>2. LedgerInv'
    BY <1>1, LedgerInvStep DEF LedgerPart
  <1>3. CASE GetContext
    <2>1. PICK s \in Sessions, q \in Queries, known \in SUBSET Notes,
                reset \in BOOLEAN, at \in Clocks :
              /\ at = Len(artifacts) + 1
              /\ known \subseteq recorded'
              /\ Compiled[handling.seen][s][known][q] \in Shapes
              /\ Build(s, Compiled[handling.seen][s][known][q], at, reset)
      BY <1>3, GetContextBuilds
    <2> DEFINE shape == Compiled[handling.seen][s][known][q]
               diff  == DiffItems(at, shape, CurrentPrior(s, shape, reset))
    <2>0. handling.seen \in Worktrees
      BY <1>3, GetContextCalls
    <2>2. /\ \A k \in ArtifactIds : artifacts'[k] = artifacts[k]
          /\ ArtifactIds' = ArtifactIds \cup {at}
          /\ artifacts'[at].shape = shape /\ artifacts'[at].session = s
          /\ omitted' = omitted \cup OmittedRows(diff)
      BY <2>1, BuildEffect DEF LedgerPart, LedgerInv
    <2>3. \A n \in ArtifactIds' : \E tree \in Worktrees : CompiledFrom(n, tree)'
      <3>1. \E tree \in Worktrees : CompiledFrom(at, tree)'
        <4>1. PICK tree \in Worktrees : tree = handling.seen
          BY <2>0
        <4> QED BY <2>1, <2>2, <4>1 DEF CompiledFrom
      <3>2. ASSUME NEW n \in ArtifactIds
            PROVE  \E tree \in Worktrees : CompiledFrom(n, tree)'
        <4>1. PICK tree \in Worktrees : CompiledFrom(n, tree)
          BY DEF LedgerPart, BuildsAreCompiled
        <4> QED BY <2>2, <4>1, NotesGrow DEF CompiledFrom
      <3> QED BY <2>0, <2>2, <3>1, <3>2
    <2>4. ASSUME NEW o \in omitted'
          PROVE  o.section \in DOMAIN artifacts'[o.artifact].shape.sections
      <3>1. CASE o \in omitted
        <4>1. o.artifact \in ArtifactIds
          BY <3>1, TokensAreTyped
        <4> QED BY <2>2, <3>1, <4>1 DEF LedgerPart, BuildsAreCompiled, ArtifactOf
      <3>2. CASE o \in OmittedRows(diff)
        <4>1. PICK i \in diff : o.artifact = i.artifact /\ o.section = i.section
          BY <3>2 DEF OmittedRows
        <4>2. i.artifact = at /\ i.section \in DOMAIN shape.sections
          BY DiffItem
        <4> QED BY <2>2, <4>1, <4>2
      <3> QED BY <2>2, <3>1, <3>2
    <2>5. BuildsAreCompiled'
      BY <2>3, <2>4 DEF BuildsAreCompiled, ArtifactOf
    <2> QED BY <1>2, <2>2, <2>5 DEF LedgerPart
  <1>4. CASE UNCHANGED ledgerVars
    <2>1. BuildsAreCompiled'
      BY <1>4, NotesGrow DEF LedgerPart, BuildsAreCompiled, CompiledFrom, ArtifactOf,
                             ArtifactIds, ledgerVars
    <2> QED BY <1>2, <1>4, <2>1 DEF LedgerPart, ledgerVars, ArtifactIds
  <1> QED BY <1>3, <1>4, LedgerSteps DEF vars, storeVars

----------------------------------------------------------------------------
(* The theorems about order, and the ledger *)

\* Every step keeps the order of the calls.
LEMMA OrderStep == ASSUME LedgerPart, OrderInv, [Next]_vars PROVE OrderInv'
  <1>1. CASE WriteSome
    <2>1. PICK line : /\ Write(line)
                      /\ \/ line \in Lines \cup OddLines
                         \/ \E s \in Sessions, token \in omitted : line = RestoreLine(s, token)
      BY <1>1 DEF WriteSome
    <2>2. CASE line \in Lines \cup OddLines
      <3>1. line \in WireLines /\ line.form \in Forms
        BY <2>2, LinesHaveForms DEF WireLines
      <3> QED BY <2>1, <3>1, WriteKeepsOrder
    <2>3. CASE \E s \in Sessions, token \in omitted : line = RestoreLine(s, token)
      <3>1. line \in WireLines /\ line.form \in Forms
        BY <2>3, TokensAreTyped DEF WireLines, RestoreLine, Forms
      <3> QED BY <2>1, <3>1, WriteKeepsOrder
    <2> QED BY <2>1, <2>2, <2>3
  <1>2. CASE Receive
    BY <1>2, ReceiveKeepsOrder
  <1>3. CASE End
    BY <1>3, EndKeepsOrder
  <1>4. CASE Begin
    BY <1>4, BeginKeepsOrder
  <1>5. CASE GetContext
    <2>1. handling # None
      BY <1>5 DEF GetContext, Running
    <2>2. CASE Finish(Result("tool error"))
      <3>1. Result("tool error") \in Results
        BY DEF Result, Results, ResultKinds
      <3> QED BY <2>1, <2>2, <3>1, FinishKeepsOrder, NotesGrow
    <2>3. ASSUME NEW at \in Clocks,
                 Finish([kind |-> "pack", artifact |-> at, seen |-> handling.seen])
          PROVE  OrderInv'
      <3>1. handling.seen \in Worktrees
        BY <1>5, GetContextCalls
      <3>2. [kind |-> "pack", artifact |-> at, seen |-> handling.seen] \in Results
        BY <3>1, ClocksAreNaturals DEF Results
      <3> QED BY <2>1, <2>3, <3>2, FinishKeepsOrder, NotesGrow
    <2> QED BY <1>5, <2>2, <2>3, GetContextEnds
  <1>6. CASE GetContextFails \/ RecordCall
    <2>1. PICK kind \in {"result", "tool error"} : handling # None /\ Finish(Result(kind))
      BY <1>6 DEF GetContextFails, RecordCall, Running
    <2>2. Result(kind) \in Results
      BY DEF Result, Results, ResultKinds
    <2> QED BY <2>1, <2>2, FinishKeepsOrder, NotesGrow
  <1>7. CASE AnswerCall
    <2>1. /\ handling # None /\ handling.seen \in Worktrees
          /\ Finish(Answer(written[handling.line], handling.seen))
      BY <1>7 DEF AnswerCall, Running, OrderInv, ServerTyped
    <2>2. Answer(written[handling.line], handling.seen) \in Results
      BY <2>1, AnswerIsResult
    <2> QED BY <2>1, <2>2, FinishKeepsOrder, NotesGrow
  <1>8. CASE Respond
    BY <1>8, RespondKeepsOrder
  <1>9. CASE Exit \/ Die
    <2>1. PICK how \in {"exited", "dead"} : Stop(how)
      BY <1>9 DEF Exit, Die
    <2> QED BY <2>1, StopKeepsOrder
  <1>10. CASE Restart
    <2>1. /\ UNCHANGED <<written, arrived, taken, queue, handling, replies>>
          /\ work' \in Worktrees /\ server' = "running"
      BY <1>10 DEF Restart, streamVars, treeVars, OrderInv, ServerTypeOK
    <2> QED BY <2>1, OthersKeepOrder, NotesGrow
  <1>11. CASE Move \/ RecordElsewhere
    <2>1. /\ UNCHANGED <<written, arrived, taken, queue, handling, replies>>
          /\ work' \in Worktrees /\ server' = server
      BY <1>11 DEF Move, RecordElsewhere, streamVars, treeVars, OrderInv, ServerTypeOK
    <2> QED BY <2>1, OthersKeepOrder, NotesGrow
  <1>12. CASE UNCHANGED vars
    <2>1. /\ UNCHANGED <<written, arrived, taken, queue, handling, replies>>
          /\ work' \in Worktrees /\ server' = server
      BY <1>12 DEF vars, streamVars, treeVars, OrderInv, ServerTypeOK
    <2> QED BY <2>1, OthersKeepOrder, NotesGrow
  <1> QED BY <1>1, <1>2, <1>3, <1>4, <1>5, <1>6, <1>7, <1>8, <1>9, <1>10, <1>11, <1>12
          DEF Next, ServerStep

\* The first state.
LEMMA ServerStarts == ServerInit => LedgerPart /\ OrderInv
  <1> SUFFICES ASSUME ServerInit PROVE LedgerPart /\ OrderInv
    OBVIOUS
  <1>1. LedgerPart
    BY DEF ServerInit, LedgerInit, LedgerPart, LedgerInv, TypeOK, SentSectionsExist,
           InvalidationsStayInSession, OmitBacked, InvalidateOnce, BuildsAreCompiled,
           ArtifactIds
  <1>2. /\ written = << >> /\ queue = << >> /\ replies = << >> /\ handling = None
        /\ arrived = 0 /\ taken = 0 /\ work \in Worktrees /\ server = "running"
        /\ recorded = {}
    BY CompiledFromSnapshots DEF ServerInit
  <1>3. ServerTyped /\ CallsInOrder /\ AnswersInOrder
    BY <1>2 DEF ServerTyped, CallsInOrder, AnswersInOrder
  <1>4. ServerTypeOK
    BY <1>2 DEF ServerTypeOK, Up, Pieces
  <1> QED BY <1>1, <1>3, <1>4 DEF OrderInv

\* The queue, the call that runs and the replies follow the order of the lines, and
\* the ledger holds what ContextLedger's invariant says.
THEOREM ServerInvariance == ServerSpec => [](LedgerPart /\ OrderInv)
  <1>1. LedgerPart /\ OrderInv /\ [Next]_vars => (LedgerPart /\ OrderInv)'
    BY LedgerPartStep, OrderStep
  <1> QED BY <1>1, ServerStarts, PTL DEF ServerSpec

\* What waits to be handled are whole lines that have left the buffer, in the order
\* they were written and each once, however the pipe cuts them.
THEOREM ServerTypeCorrect == ServerSpec => []ServerTypeOK
  <1>1. LedgerPart /\ OrderInv => ServerTypeOK
    BY DEF OrderInv
  <1> QED BY <1>1, ServerInvariance, PTL

\* Replies answer requests only, each at most once, in the order they were written.
THEOREM AnswersStayInOrder == ServerSpec => []AnswersInOrder
  <1>1. LedgerPart /\ OrderInv => AnswersInOrder
    BY DEF OrderInv
  <1> QED BY <1>1, ServerInvariance, PTL

\* The server implements the ledger whose builds do not overlap: whatever is lost or
\* dies, every step is one build with the next clock, or leaves the ledger alone.
THEOREM ServerImplementsLedger == ServerSpec => InOrderSpec
  <1>1. ServerInit => LedgerInit
    BY DEF ServerInit
  <1>2. LedgerPart /\ OrderInv /\ [Next]_vars => [InOrderNext]_ledgerVars
    BY StepsBuildInOrder
  <1> QED BY <1>1, <1>2, ServerInvariance, PTL DEF ServerSpec, InOrderSpec

\* So what the last pack of a session left the agent with is what its next build starts
\* from, also when the process that built it died before it replied.
COROLLARY ServerHoldsLastPack == ServerSpec => []LedgerMatchesLastPack
  BY ServerImplementsLedger, LastPackIsHeld, PTL

----------------------------------------------------------------------------
(* What packs and restores put into the client's hands *)

\* A pack is a stored artifact that was compiled from what its call saw.
PackHolds(result) ==
    result.kind = "pack" =>
        /\ result.artifact \in ArtifactIds /\ result.seen \in Worktrees
        /\ CompiledFrom(result.artifact, result.seen)

\* A restored section is of the session that asked, and what a compile of the worktree
\* the call saw has for it, from some of the notes.
RestoreHolds(i, result) ==
    result.kind = "restored" =>
        /\ i \in DOMAIN written /\ result.token.artifact \in ArtifactIds
        /\ SessionOf(result.token) = written[i].args.session
        /\ \E q \in Queries, known \in SUBSET recorded :
             LET sections == Compiled[result.seen][SessionOf(result.token)][known][q].sections
             IN  /\ result.token.section \in DOMAIN sections
                 /\ sections[result.token.section].content = result.content

ResultHolds(i, result) == PackHolds(result) /\ RestoreHolds(i, result)

ResultsHold ==
    /\ handling # None /\ handling.result # None => ResultHolds(handling.line, handling.result)
    /\ \A k \in DOMAIN replies : ResultHolds(replies[k].id, replies[k].result)

\* A result that holds goes on holding: artifacts and lines stay.
LEMMA ResultStays ==
    ASSUME LedgerPart, OrderInv, [Next]_vars, NEW i, NEW result, ResultHolds(i, result)
    PROVE  ResultHolds(i, result)'
  <1>1. /\ ArtifactIds \subseteq ArtifactIds'
        /\ \A n \in ArtifactIds : artifacts'[n] = artifacts[n]
    BY LedgerPartStep
  <1>2. \/ UNCHANGED written
        \/ \E line : written' = Append(written, line)
    BY DEF Next, WriteSome, Write, Restart, Move, RecordElsewhere, ServerStep, Receive,
           Begin, GetContext, GetContextFails, RecordCall, AnswerCall, Respond, End, Exit,
           Die, Stop, Finish, streamVars, vars
  <1>3. \A l \in DOMAIN written : l \in DOMAIN written' /\ written'[l] = written[l]
    <2>1. CASE UNCHANGED written
      BY <2>1
    <2>2. ASSUME NEW line, written' = Append(written, line)
          PROVE  \A l \in DOMAIN written : l \in DOMAIN written' /\ written'[l] = written[l]
      <3>1. written \in Seq(WireLines \cup {line})
        BY DEF OrderInv, ServerTyped
      <3> QED BY <2>2, <3>1
    <2> QED BY <1>2, <2>1, <2>2
  <1>4. PackHolds(result)'
    BY <1>1, NotesGrow DEF ResultHolds, PackHolds, CompiledFrom
  <1>5. RestoreHolds(i, result)'
    BY <1>1, <1>3, NotesGrow DEF ResultHolds, RestoreHolds, SessionOf, ArtifactOf
  <1> QED BY <1>4, <1>5 DEF ResultHolds

\* Errors, and fixed answers, hand out nothing.
LEMMA PlainResults ==
    ASSUME NEW i, NEW result, result.kind \in ResultKinds
    PROVE  ResultHolds(i, result)
  BY DEF ResultHolds, PackHolds, RestoreHolds, ResultKinds

\* A reply is one that was there, an error, or the result of the call that ran.
LEMMA RepliesCome ==
    ASSUME OrderInv, [Next]_vars, NEW k \in DOMAIN replies'
    PROVE  \/ k \in DOMAIN replies /\ replies'[k] = replies[k]
           \/ replies'[k].result.kind \in ResultKinds
           \/ /\ handling # None /\ handling.result # None
              /\ replies'[k] = Reply(handling.line, handling.result)
  <1>1. replies \in Seq(Replies)
    BY DEF OrderInv, ServerTyped, Replies
  <1>2. \/ replies' = replies
        \/ \E kind \in ResultKinds : replies' = replies \o <<Reply(NoId, Result(kind))>>
        \/ /\ handling # None /\ handling.result # None
           /\ replies' = replies \o <<Reply(handling.line, handling.result)>>
    <2>1. "parse error" \in ResultKinds /\ "invalid request" \in ResultKinds
      BY DEF ResultKinds
    <2>2. Receive \/ End \/ Begin => \/ replies' = replies
            \/ \E kind \in ResultKinds : replies' = replies \o <<Reply(NoId, Result(kind))>>
      BY <2>1 DEF Receive, End, Begin, ParseError
    <2>3. Respond => \/ replies' = replies
            \/ /\ handling # None /\ handling.result # None
               /\ replies' = replies \o <<Reply(handling.line, handling.result)>>
      BY <1>1 DEF Respond, RespondIfNeeded
    <2> QED BY <2>2, <2>3
            DEF Next, WriteSome, Write, Restart, Move, RecordElsewhere, ServerStep,
                GetContext, GetContextFails, RecordCall, AnswerCall, Exit, Die, Stop,
                Finish, vars
  <1>3. ASSUME NEW reply, replies' = replies \o <<reply>>
        PROVE  (k \in DOMAIN replies /\ replies'[k] = replies[k]) \/ replies'[k] = reply
    BY <1>1, <1>3
  <1>4. \A kind \in ResultKinds : Reply(NoId, Result(kind)).result.kind \in ResultKinds
    BY DEF Reply, Result
  <1> QED BY <1>2, <1>3, <1>4

\* A result of the call that runs is one it had, or what the call gave just now.
LEMMA ResultsCome ==
    ASSUME LedgerPart, OrderInv, [Next]_vars, handling' # None, handling'.result # None
    PROVE  \/ handling' = handling
           \/ /\ handling # None /\ handling'.line = handling.line
              /\ \/ /\ GetContext
                    /\ handling'.result = [kind |-> "pack", artifact |-> Len(artifacts) + 1,
                                           seen |-> handling.seen]
                 \/ handling'.result.kind \in ResultKinds
                 \/ /\ ~GetsContext(written[handling.line])
                    /\ handling'.result = Answer(written[handling.line], handling.seen)
  <1>1. handling # None => handling \in [line : Nat, seen : Worktrees, result : Results \cup {None}]
    BY DEF OrderInv, ServerTyped
  <1>2. ASSUME NEW result, handling # None, Finish(result)
        PROVE  handling'.line = handling.line /\ handling'.result = result
    BY <1>1, <1>2 DEF Finish
  <1>3. CASE GetContext
    <2>1. handling # None
      BY <1>3 DEF GetContext, Running
    <2>2. Result("tool error").kind \in ResultKinds
      BY DEF Result, ResultKinds
    <2> QED BY <1>2, <1>3, <2>1, <2>2, GetContextEnds
  <1>4. CASE GetContextFails \/ RecordCall
    <2>1. PICK kind \in {"result", "tool error"} : handling # None /\ Finish(Result(kind))
      BY <1>4 DEF GetContextFails, RecordCall, Running
    <2>2. Result(kind).kind \in ResultKinds
      BY DEF Result, ResultKinds
    <2> QED BY <1>2, <2>1, <2>2
  <1>5. CASE AnswerCall
    <2>1. /\ handling # None /\ ~GetsContext(written[handling.line])
          /\ Finish(Answer(written[handling.line], handling.seen))
      BY <1>5 DEF AnswerCall, Running
    <2> QED BY <1>2, <2>1
  <1>6. CASE Begin
    <2>1. \/ handling' = handling
          \/ handling' = [line |-> Head(queue), seen |-> work, result |-> None]
      BY <1>6 DEF Begin
    <2> QED BY <2>1
  <1>7. CASE Respond \/ Exit \/ Die
    BY <1>7 DEF Respond, Exit, Die, Stop
  <1>8. CASE \/ WriteSome \/ Restart \/ Move \/ RecordElsewhere \/ Receive \/ End
             \/ UNCHANGED vars
    BY <1>8 DEF WriteSome, Write, Restart, Move, RecordElsewhere, Receive, End, vars
  <1> QED BY <1>3, <1>4, <1>5, <1>6, <1>7, <1>8 DEF Next, ServerStep

\* What an answer restores is current: the stored section is of a worktree with the
\* branch, commit and hash of the one the call saw.
LEMMA AnswersHold ==
    ASSUME LedgerPart, OrderInv, handling # None,
           NEW result, result = Answer(written[handling.line], handling.seen)
    PROVE  ResultHolds(handling.line, result)
  <1> DEFINE line == written[handling.line]
             seen == handling.seen
             s    == line.args.session
             token == line.args.token
  <1>1. seen \in Worktrees /\ handling.line \in DOMAIN written
    BY DEF OrderInv, ServerTyped, CallsInOrder
  <1>2. CASE \E kind \in ResultKinds : result = Result(kind)
    <2>1. result.kind \in ResultKinds
      BY <1>2 DEF Result
    <2> QED BY <2>1, PlainResults
  <1>3. CASE result = RestoreOmittedContext(s, token, seen)
    <2>1. CASE result = Result("tool error")
      <3>1. Result("tool error").kind \in ResultKinds
        BY DEF Result, ResultKinds
      <3> QED BY <2>1, <3>1, PlainResults
    <2>2. CASE result = [kind |-> "stale", token |-> token]
      <3>1. result.kind = "stale"
        BY <2>2
      <3> QED BY <3>1 DEF ResultHolds, PackHolds, RestoreHolds
    <2>3. CASE /\ token \in omitted /\ SessionOf(token) = s
               /\ ~DependencyStaleReason(ArtifactOf(token).shape, Snapshots[seen])
               /\ result = [kind |-> "restored", token |-> token, seen |-> seen,
                            content |-> SectionOf(token).content]
      <3>1. /\ token.artifact \in ArtifactIds
            /\ token.section \in DOMAIN ArtifactOf(token).shape.sections
        BY <2>3, TokensAreTyped
      <3>2. PICK tree \in Worktrees, q \in Queries, known \in SUBSET recorded :
               ArtifactOf(token).shape = Compiled[tree][SessionOf(token)][known][q]
        BY <3>1 DEF LedgerPart, BuildsAreCompiled, CompiledFrom, ArtifactOf, SessionOf
      <3> DEFINE shape == Compiled[tree][SessionOf(token)][known][q]
                 snap  == Snapshots[tree]
                 now   == Snapshots[seen]
      <3>3. /\ shape.branch = snap.branch /\ shape.commit = snap.commit
            /\ shape.deps["wt"] = snap.wt
        <4>1. SessionOf(token) \in Sessions
          BY <3>1, StoredArtifacts DEF LedgerPart, LedgerInv, SessionOf, ArtifactOf, Artifact
        <4>2. known \in SUBSET Notes
          BY DEF OrderInv, ServerTypeOK
        <4> QED BY <4>1, <4>2, CompiledFromSnapshots
      <3>4. /\ shape.branch = now.branch /\ shape.commit = now.commit
            /\ shape.deps["wt"] = now.wt
        BY <2>3, <3>2 DEF DependencyStaleReason
      <3>5. ~Apart(tree, seen)
        BY <3>3, <3>4 DEF Apart
      <3>6. Compiled[seen] = Compiled[tree]
        BY <1>1, <3>5, WorktreeHashCovers
      <3>7. SectionOf(token).content = shape.sections[token.section].content
        BY <3>2 DEF SectionOf
      <3>8. /\ result.kind = "restored" /\ result.token = token /\ result.seen = seen
            /\ result.content = shape.sections[token.section].content
        <4>1. /\ result.kind = "restored" /\ result.token = token /\ result.seen = seen
              /\ result.content = SectionOf(token).content
          BY <2>3
        <4> QED BY <3>7, <4>1
      <3>9. LET sections == Compiled[seen][SessionOf(token)][known][q].sections
            IN  /\ token.section \in DOMAIN sections
                /\ sections[token.section].content = result.content
        BY <3>1, <3>2, <3>6, <3>8
      <3> QED BY <1>1, <2>3, <3>1, <3>8, <3>9 DEF ResultHolds, PackHolds, RestoreHolds
    <2> QED BY <1>3, <2>1, <2>2, <2>3, RestoreGives
  <1> QED BY <1>2, <1>3, AnswerGives

\* The pack of a call is the artifact it has just built.
LEMMA PackIsBuilt ==
    ASSUME LedgerPart, OrderInv, GetContext, NEW result,
           result = [kind |-> "pack", artifact |-> Len(artifacts) + 1, seen |-> handling.seen]
    PROVE  ResultHolds(handling.line, result)'
  <1>1. PICK s \in Sessions, q \in Queries, known \in SUBSET Notes,
             reset \in BOOLEAN, at \in Clocks :
              /\ at = Len(artifacts) + 1
              /\ known \subseteq recorded'
              /\ Compiled[handling.seen][s][known][q] \in Shapes
              /\ Build(s, Compiled[handling.seen][s][known][q], at, reset)
    BY GetContextBuilds
  <1>2. /\ at \in ArtifactIds' /\ artifacts'[at].session = s
        /\ artifacts'[at].shape = Compiled[handling.seen][s][known][q]
    BY <1>1, BuildEffect DEF LedgerPart, LedgerInv
  <1>3. handling.seen \in Worktrees
    BY GetContextCalls
  <1>4. /\ result.kind = "pack" /\ result.artifact = at /\ result.seen = handling.seen
    BY <1>1
  <1>5. PackHolds(result)'
    BY <1>1, <1>2, <1>3, <1>4 DEF PackHolds, CompiledFrom
  <1>6. RestoreHolds(handling.line, result)'
    BY <1>4 DEF RestoreHolds
  <1> QED BY <1>5, <1>6 DEF ResultHolds

\* It holds in the first state.
LEMMA ResultsStart == ServerInit => ResultsHold
  BY DEF ServerInit, ResultsHold

\* Every step keeps it.
LEMMA ResultsStep ==
    ASSUME LedgerPart, OrderInv, ResultsHold, [Next]_vars
    PROVE  ResultsHold'
  <1>1. ASSUME NEW k \in DOMAIN replies'
        PROVE  ResultHolds(replies[k].id, replies[k].result)'
    <2>1. CASE k \in DOMAIN replies /\ replies'[k] = replies[k]
      <3>1. PICK i, result : i = replies[k].id /\ result = replies[k].result
        OBVIOUS
      <3>2. ResultHolds(i, result)
        BY <2>1, <3>1 DEF ResultsHold
      <3>3. ResultHolds(i, result)'
        BY <3>2, ResultStays
      <3> QED BY <2>1, <3>1, <3>3 DEF ResultHolds, PackHolds, RestoreHolds
    <2>2. CASE replies'[k].result.kind \in ResultKinds
      BY <2>2 DEF ResultHolds, PackHolds, RestoreHolds, ResultKinds
    <2>3. CASE /\ handling # None /\ handling.result # None
               /\ replies'[k] = Reply(handling.line, handling.result)
      <3>1. PICK i, result : i = handling.line /\ result = handling.result
        OBVIOUS
      <3>2. ResultHolds(i, result)
        BY <2>3, <3>1 DEF ResultsHold
      <3>3. ResultHolds(i, result)'
        BY <3>2, ResultStays
      <3>4. replies'[k].id = i /\ replies'[k].result = result
        BY <2>3, <3>1 DEF Reply
      <3> QED BY <3>3, <3>4 DEF ResultHolds, PackHolds, RestoreHolds
    <2> QED BY <2>1, <2>2, <2>3, RepliesCome
  <1>2. ASSUME handling' # None, handling'.result # None
        PROVE  ResultHolds(handling.line, handling.result)'
    <2>1. PICK i, result : i = handling'.line /\ result = handling'.result
      OBVIOUS
    <2>2. CASE handling' = handling
      <3>1. ResultHolds(i, result)
        BY <1>2, <2>1, <2>2 DEF ResultsHold
      <3>2. ResultHolds(i, result)'
        BY <3>1, ResultStays
      <3> QED BY <2>1, <3>2 DEF ResultHolds, PackHolds, RestoreHolds
    <2>3. CASE /\ GetContext /\ handling # None /\ handling'.line = handling.line
               /\ handling'.result = [kind |-> "pack", artifact |-> Len(artifacts) + 1,
                                      seen |-> handling.seen]
      <3>1. PackHolds(result)' /\ RestoreHolds(handling.line, result)'
        BY <2>1, <2>3, PackIsBuilt DEF ResultHolds
      <3> QED BY <2>1, <3>1 DEF ResultHolds, PackHolds, RestoreHolds
    <2>4. CASE handling'.result.kind \in ResultKinds
      BY <2>4 DEF ResultHolds, PackHolds, RestoreHolds, ResultKinds
    <2>5. CASE /\ handling # None /\ handling'.line = handling.line
               /\ handling'.result = Answer(written[handling.line], handling.seen)
      <3>1. ResultHolds(handling.line, result)
        BY <2>1, <2>5, AnswersHold
      <3>2. ResultHolds(i, result)
        BY <2>1, <2>5, <3>1
      <3>3. ResultHolds(i, result)'
        BY <3>2, ResultStays
      <3> QED BY <2>1, <3>3 DEF ResultHolds, PackHolds, RestoreHolds
    <2> QED BY <1>2, <2>2, <2>3, <2>4, <2>5, ResultsCome
  <1> QED BY <1>1, <1>2 DEF ResultsHold

\* Every result that the client has, or is about to get, is true of its call.
THEOREM ResultsAlwaysHold == ServerSpec => []ResultsHold
  <1>1. LedgerPart /\ OrderInv /\ ResultsHold /\ [Next]_vars => ResultsHold'
    BY ResultsStep
  <1> QED BY <1>1, ResultsStart, ServerInvariance, PTL DEF ServerSpec

\* What a restore hands out is for the session that asked, and is what a compile of the
\* worktree the call looked at makes of the section, from some of the notes there are.
THEOREM RestoresAreCurrent == ServerSpec => []RestoredIsCurrent
  <1>1. ResultsHold => RestoredIsCurrent
    <2> SUFFICES ASSUME ResultsHold, NEW k \in DOMAIN replies,
                        replies[k].result.kind = "restored"
                 PROVE  LET result == replies[k].result
                            s      == SessionOf(result.token)
                        IN  /\ s = written[replies[k].id].args.session
                            /\ \E q \in Queries, known \in SUBSET recorded :
                                 LET sections == Compiled[result.seen][s][known][q].sections
                                 IN  /\ result.token.section \in DOMAIN sections
                                     /\ sections[result.token.section].content = result.content
      BY DEF RestoredIsCurrent, ToSet
    <2> QED BY DEF ResultsHold, ResultHolds, RestoreHolds
  <1> QED BY <1>1, ResultsAlwaysHold, PTL

\* A section that a pack leaves out can be restored with the token of the pack, whatever
\* the client received of earlier packs and whatever was recorded since, unless a snapshot
\* tells the worktree from the one the pack was compiled from, or the pack lists a recorded
\* source.
THEOREM OmissionsAreRecoverable == ServerSpec => []OmittedIsRecoverable
  <1>1. LedgerPart /\ OrderInv /\ ResultsHold => OmittedIsRecoverable
    <2> SUFFICES ASSUME LedgerPart, OrderInv, ResultsHold, NEW k \in DOMAIN replies,
                        replies[k].result.kind = "pack",
                        NEW o \in omitted, o.artifact = replies[k].result.artifact,
                        ~Apart(work, replies[k].result.seen),
                        ~ListsRecords(ArtifactOf(o).shape, Snapshots[work])
                 PROVE  LET again == RestoreOmittedContext(SessionOf(o), o, work) IN
                        again.kind = "restored" /\ again.content = SectionOf(o).content
      BY DEF OmittedIsRecoverable, ToSet
    <2> DEFINE seen  == replies[k].result.seen
               shape == ArtifactOf(o).shape
               now   == Snapshots[work]
    <2>1. /\ seen \in Worktrees /\ CompiledFrom(o.artifact, seen)
          /\ o.artifact \in ArtifactIds
      BY DEF ResultsHold, ResultHolds, PackHolds
    <2>2. PICK q \in Queries, known \in SUBSET recorded :
             shape = Compiled[seen][SessionOf(o)][known][q]
      BY <2>1 DEF CompiledFrom, ArtifactOf, SessionOf
    <2>3. SessionOf(o) \in Sessions /\ known \in SUBSET Notes /\ work \in Worktrees
      <3>1. SessionOf(o) \in Sessions
        BY <2>1, StoredArtifacts DEF LedgerPart, LedgerInv, SessionOf, ArtifactOf, Artifact
      <3> QED BY <3>1 DEF OrderInv, ServerTypeOK
    <2>4. Snapshots[seen] = now
      BY <2>1, <2>3, WorktreeHashCovers DEF Apart
    <2>5. /\ shape.branch = now.branch /\ shape.commit = now.commit
          /\ shape.deps["wt"] = now.wt
          /\ \A ref \in FileDeps \cap DOMAIN shape.deps \cap DOMAIN now.files :
                shape.deps[ref] = now.files[ref]
      <3>1. PICK s \in Sessions, more \in SUBSET Notes :
               shape = Compiled[seen][s][more][q]
        BY <2>2, <2>3
      <3> HIDE DEF shape
      <3> QED BY <2>1, <2>4, <3>1, CompiledFromSnapshots
    <2>6. ~DependencyStaleReason(shape, now)
      BY <2>5 DEF DependencyStaleReason, ListsRecords
    <2>7. RestoreOf(SessionOf(o), o) # {}
      BY DEF RestoreOf
    <2> QED BY <2>6, <2>7 DEF RestoreOmittedContext, LoadVerifiedOmittedArtifact
  <1> QED BY <1>1, ResultsAlwaysHold, ServerInvariance, PTL
=============================================================================
