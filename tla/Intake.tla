------------------------------- MODULE Intake -------------------------------
(***************************************************************************)
(* What writeHandler does with one request before anything is stored: the  *)
(* body is read under a limit (readRequestBody), its Content-Encoding and  *)
(* its native blocks are undone (decompress.go), and the query decides     *)
(* which way it goes: opaque, batched, or proxied (opaque.go, ParseQuery), *)
(* and whether the client waits for ClickHouse (wantsSyncInsert).          *)
(*                                                                         *)
(* A body is its size, an int64 of fewer bits; a query is what the code    *)
(* looks at in it: where the statement and its format stand, for each of   *)
(* the searches that look for them.  The query is chosen when the code     *)
(* first looks at it, in Route.  The decoders are libraries.               *)
(***************************************************************************)
EXTENDS Integers

CONSTANTS
  MaxInt,      \* the largest integer of the width that sizes have
  Limits,      \* the values of max_request_bytes
  Sizes,       \* the sizes of bodies
  BatchLists   \* the values of batch_formats

ASSUME IntakeAssumption ==
  /\ MaxInt \in Nat /\ MaxInt % 2 = 1
  /\ Limits \subseteq -1 .. MaxInt
  /\ Sizes \subseteq 0 .. MaxInt

VARIABLES
  config,   \* max_request_bytes, opaque_insert, batch_formats, sync_insert
  wire,     \* the request on the wire, until its body is decoded
  stage,    \* where the handler is
  size,     \* the size of body in the handler
  marked,   \* whether the params say decompress=1
  query,    \* what the query and the headers say, once Route has looked
  answer    \* how the client is answered, and by which way

vars == <<config, wire, stage, size, marked, query, answer>>

\* binary: the seven names of opaqueFormatInQuery; foreign: every other binary
\* format, as RowBinaryWithNames or MsgPack, which it does not know; glued:
\* FORMAT VALUES(..) with no white space behind VALUES.
Formats == {"none", "Values", "text", "binary", "foreign", "glued"}

Configs == [max : Limits, force : BOOLEAN, batch : BatchLists, sync : BOOLEAN]

\* Two codings lie one over the other: "twice", of which the one named first is
\* undone, or "hidden", where the one named first is identity.
Layered(w) == w.encoding \in {"hidden", "twice"}

\* sent: the size on the wire; decoded: without the coding that the header names
\* first; plain: without any coding and without the native blocks.  The outer
\* layer or the blocks may be damaged, or the body ends within the header of a
\* block.  A coding that is left over native blocks is damage to the blocks.
Wires == {w \in [sent : Sizes, decoded : Sizes, plain : Sizes,
                 encoding : {"none", "known", "unknown", "hidden", "twice"},
                 native : BOOLEAN, damage : {"none", "encoding", "block", "header"}] :
            /\ (w.sent = 0 => w.decoded = 0) /\ (w.decoded = 0 => w.plain = 0)
            /\ w.encoding \in {"none", "hidden"} =>
                 w.decoded = w.sent /\ w.damage # "encoding"
            /\ ~w.native => w.damage \notin {"block", "header"}
            /\ ~w.native /\ ~Layered(w) => w.plain = w.decoded
            /\ Layered(w) => ~w.native}

Nothing == [is |-> "nothing"]

\* param: the statement that queryFromParams finds in the params; found: what
\* ParseQuery's own search for "query=" finds in them: nothing, the statement, the
\* statement behind escaped white space, a bad % escape in it, or something else,
\* as an empty query= or the end of another name (wait_end_of_query=1).  body: how
\* the body begins; far: with an INSERT behind 256 bytes of white space.  split:
\* FORMAT is not on the body's first line, or in the body behind a statement in the
\* params.  rows: rows follow VALUES or FORMAT in the text that has it.
Queries == {q \in [param : {"none", "insert", "other"},
                   found : {"nothing", "query", "lead", "bad", "else"},
                   body : {"none", "other", "insert", "far"},
                   format : Formats, split : BOOLEAN,
                   rows : BOOLEAN, octet : BOOLEAN, bulkSync : BOOLEAN] :
              /\ q.param = "none" => q.found \in {"nothing", "else"} /\ q.body # "none"
              /\ q.param # "none" => q.found # "nothing" /\ q.body # "far"
              /\ q.split => q.format # "none" /\ q.body # "none"
              /\ q.rows => q.format \notin {"none", "glued"}}

Unanswered == [status |-> "none", way |-> "none"]

Init ==
  /\ config \in Configs /\ wire \in Wires
  /\ stage = "read" /\ size = 0 /\ marked = wire.native
  /\ query = Nothing /\ answer = Unanswered
-----------------------------------------------------------------------------
(* The arithmetic of the limits.                                           *)

Wrap(n) == ((n + MaxInt + 1) % (2 * (MaxInt + 1))) - (MaxInt + 1)

\* How much io.ReadAll(io.LimitReader(r, limit)) reads of n bytes.
Limited(n, limit) == IF limit <= 0 THEN 0 ELSE IF n < limit THEN n ELSE limit

\* Mutant: four times the limit, without the test for an overflow.
FourTimes(max) == Wrap(4 * max)

CompressedLimit(max) == IF Wrap(4 * max) < max THEN max ELSE Wrap(4 * max)

TooLarge(n) == config.max > 0 /\ n > config.max

\* Mutant: no byte is read beyond the limit, which hides that there are more.
ReadToLimit(n) == IF config.max <= 0 THEN n ELSE Limited(n, config.max)

\* readAllLimited, up to its test for ErrRequestTooLarge.
ReadAllLimited(n) == IF config.max <= 0 THEN n ELSE Limited(n, Wrap(config.max + 1))
-----------------------------------------------------------------------------
(* The body.                                                               *)

\* needsDecompression and normalizeContentEncoding, which keeps what the header
\* names first.
NeedsDecompression == wire.encoding \notin {"none", "hidden"} \/ wire.native

Goes(to, n) == /\ stage' = to /\ size' = n
               /\ UNCHANGED <<config, wire, query, answer>>

Refuse(status) == /\ stage' = "answered"
                  /\ answer' = [status |-> status, way |-> "refused"]
                  /\ UNCHANGED <<config, wire, size, marked, query>>

\* Mutant: the smaller of the size and limit+1, though that may be negative.
ReadSmaller(n) ==
  LET limit == Wrap(CompressedLimit(config.max) + 1)
  IN IF config.max <= 0 \/ n < limit THEN n ELSE limit

\* How much of n bytes readRequestBody reads.
ReadAll(n) ==
  IF config.max <= 0 THEN n ELSE Limited(n, Wrap(CompressedLimit(config.max) + 1))

\* The read may fail at any byte.
ReadRequestBody ==
  LET n == ReadAll(wire.sent)
  IN /\ stage = "read"
     /\ \/ Refuse("400")
        \/ config.max > 0 /\ n > CompressedLimit(config.max) /\ Refuse("413")
        \/ /\ config.max <= 0 \/ n <= CompressedLimit(config.max)
           /\ Goes(IF NeedsDecompression THEN "encoding" ELSE "route", n)
           /\ UNCHANGED marked

\* The decoder gets n bytes out: too many, or the body of the next stage.
Decoded(n, to) ==
  \/ TooLarge(n) /\ Refuse("413")
  \/ ~TooLarge(n) /\ Goes(to, n) /\ marked' = (marked /\ to = "native")

\* decompressHTTPEncoding.  A decoder that finds nothing to read fails or
\* returns nothing; one that meets damage may have passed the limit before.
DecompressHTTPEncoding ==
  /\ stage = "encoding"
  /\ \/ wire.encoding = "none" /\ Goes("native", size) /\ UNCHANGED marked
     \/ wire.encoding = "unknown" /\ Refuse("400")
     \/ /\ wire.encoding \in {"known", "twice"}
        /\ \/ (size = 0 \/ wire.damage = "encoding") /\ Refuse("400")
           \/ size = 0 /\ Decoded(0, "native")
           \/ /\ size > 0
              /\ wire.damage = "encoding" => TooLarge(ReadAllLimited(wire.decoded))
              /\ Decoded(ReadAllLimited(wire.decoded), "native")

\* decompressNativeBlocks, stripQueryParam and checkRequestSize.  A body that
\* ends within the header of a block counts as ended before it.
DecompressNativeBlocks ==
  /\ stage = "native"
  /\ \/ ~wire.native /\ Decoded(size, "route")
     \/ wire.native /\ (size = 0 \/ wire.damage = "block") /\ Refuse("400")
     \/ wire.native /\ size = 0 /\ Decoded(0, "route")
     \/ /\ wire.native /\ size > 0 /\ wire.damage # "header"
        /\ wire.damage = "block" => TooLarge(wire.plain)
        /\ Decoded(wire.plain, "route")
     \/ /\ wire.native /\ size > 0 /\ wire.damage = "header"
        /\ \/ Refuse("400")
           \/ \E n \in Sizes : 0 < n /\ n < wire.plain /\ Decoded(n, "route")
-----------------------------------------------------------------------------
(* The way.                                                                *)

\* The headers are read, and the request itself is not looked at again.
ReadHeaders ==
  /\ stage = "route" /\ stage' = "parse" /\ wire' = Nothing
  /\ UNCHANGED <<config, size, marked, query, answer>>

\* What can be found in a body of this size.
Shows(q) == q.body = "none" <=> size = 0

\* isInsertParamsOrBody: an INSERT in the params, or in the body's first 256 bytes,
\* whatever the params hold.
IsInsertParamsOrBody(q) == q.param = "insert" \/ q.body = "insert"

\* insertFormatFromQuery and opaqueFormatInQuery look at the params' query, which
\* stays escaped when an escape in it is bad, or at the first line of the body.
InsertFormat(q) ==
  IF q.split \/ q.found = "bad" \/ q.format = "none" THEN "Values" ELSE q.format

\* Mutant: only the content type tells that an insert is binary.
ShouldOpaqueByType(q) ==
  \/ config.force /\ IsInsertParamsOrBody(q)
  \/ /\ ~config.force /\ config.batch # {}
     /\ IsInsertParamsOrBody(q) /\ InsertFormat(q) \notin config.batch
  \/ ~config.force /\ config.batch = {} /\ q.octet /\ IsInsertParamsOrBody(q)

\* shouldOpaqueInsert.  The last line of it looks for the format only.
ShouldOpaqueInsert(q) ==
  \/ config.force /\ IsInsertParamsOrBody(q)
  \/ /\ ~config.force /\ config.batch # {}
     /\ IsInsertParamsOrBody(q) /\ InsertFormat(q) \notin config.batch
  \/ /\ ~config.force /\ config.batch = {}
     /\ (q.octet /\ IsInsertParamsOrBody(q)) \/ InsertFormat(q) = "binary"

\* What ParseQuery takes for an INSERT: in the params the escaped text behind its
\* "query=", without a bad escape; else what Parse finds at the body's start.
ParsedInsert(q) ==
  \/ q.param = "insert" /\ q.found = "query"
  \/ q.found = "nothing" /\ q.body \in {"insert", "far"} /\ q.format # "glued"

\* Parse finds rows behind VALUES or FORMAT only: those of the statement, and the
\* body behind a statement in the params.
HasContent(q) ==
  /\ q.format # "none"
  /\ q.rows \/ (q.param # "none" /\ size > 0 /\ ~(q.split /\ q.format = "glued"))

WantsSyncInsert(q) == config.sync \/ q.bulkSync

\* The client waits for live, or has its 200 from the journal.
Inserted(q, way) ==
  [status |-> IF WantsSyncInsert(q) THEN "live" ELSE "200", way |-> way]

Proxied == [status |-> "live", way |-> "proxied"]

Routed(q) ==
  IF ShouldOpaqueInsert(q) THEN Inserted(q, "opaque")
  ELSE IF ~ParsedInsert(q) THEN Proxied
  ELSE IF ~HasContent(q) THEN [status |-> "500", way |-> "refused"]
  ELSE Inserted(q, "batched")

Answers(q, a) ==
  /\ stage' = "answered" /\ query' = q /\ answer' = a
  /\ UNCHANGED <<config, wire, size, marked>>

\* acceptOpaqueInsert's own test for an empty insert never holds: without a
\* body, what makes it an insert is the query in the params.
Route ==
  stage = "parse" /\ \E q \in {p \in Queries : Shows(p)} : Answers(q, Routed(q))

\* Neither a query in the params nor a body: an empty request to ClickHouse.
RouteEmpty == stage = "parse" /\ size = 0 /\ Answers(Nothing, Proxied)

Next == ReadRequestBody \/ DecompressHTTPEncoding \/ DecompressNativeBlocks
        \/ ReadHeaders \/ RouteEmpty \/ Route

Spec == Init /\ [][Next]_vars
-----------------------------------------------------------------------------
\* The types of the variables.
TypeOK ==
  /\ config \in Configs /\ wire \in Wires \cup {Nothing}
  /\ stage \in {"read", "encoding", "native", "route", "parse", "answered"}
  /\ size \in 0 .. MaxInt /\ marked \in BOOLEAN
  /\ query \in Queries \cup {Nothing}
  /\ answer \in [status : {"none", "200", "live", "400", "413", "500"},
                 way : {"none", "refused", "opaque", "batched", "proxied"}]

\* What goes on to ClickHouse is the whole plain body: no limit cuts it short
\* without a 413, and no compressed body is taken for a plain one or named so
\* in the params.  Three exceptions: blocks before a damaged header; the codings
\* behind the one that Content-Encoding names first, which stay (decompress.go:58);
\* and a limit of MaxInt, beside which one byte more is less than none.
BodyIsWhole ==
  stage = "route" /\ config.max < MaxInt =>
    /\ ~marked
    /\ \/ size = wire.plain
       \/ wire.damage = "header" /\ size < wire.plain
       \/ Layered(wire) /\ size = wire.decoded

\* What goes on is within max_request_bytes when the code undid a compression of
\* it, and within four times of it, or what CompressedLimit makes of that, when it was not
\* (CONFIG.md); and no request is refused for its size none of whose forms is
\* over max_request_bytes.
LimitHolds ==
  /\ stage = "route" /\ config.max > 0 =>
       size <= IF NeedsDecompression THEN config.max
               ELSE IF 4 * config.max <= MaxInt THEN 4 * config.max
               ELSE CompressedLimit(config.max)
  /\ answer.status = "413" =>
       config.max > 0 /\ \E n \in {wire.sent, wire.decoded, wire.plain} : n > config.max

\* What ClickHouse makes of the request: the params' query goes before the body.
IsInsert(q) == q.param = "insert" \/ (q.param = "none" /\ q.body \in {"insert", "far"})

\* A statement that is no INSERT is taken for one when it asks for one of the seven
\* formats, or when the body beside it begins with INSERT.
TakenForInsert(q) ==
  \/ InsertFormat(q) = "binary" /\ ~config.force /\ config.batch = {}
  \/ q.body = "insert" /\ (config.force \/ config.batch # {} \/ q.octet)

\* An INSERT is proxied when ParseQuery's "query=" is not its text, or when Parse
\* finds no end of its FORMAT.
NotSeen(q) ==
  q.found \in {"lead", "bad", "else"} \/ (q.param = "none" /\ q.format = "glued")

\* Rows that may be binary are joined and trimmed when batch_formats lists their
\* format; where FORMAT, or the INSERT itself, is not where the code looks; and
\* in the formats opaqueFormatInQuery does not know when nothing is listed.
MayBeJoined(q) ==
  /\ q.format \in {"binary", "foreign"} =>
       \/ q.format \in config.batch \/ q.split \/ q.body = "far"
       \/ q.format = "foreign" /\ config.batch = {}
  /\ q.octet => config.batch # {} \/ q.body = "far"

\* The statement and the headers decide what is proxied, what is batched, and what
\* is answered before ClickHouse has answered: inserts that do not ask to wait.
\* The searches of opaque.go and of ParseQuery look at different places, and
\* there are the exceptions named above, and no others.
StatementDecides ==
  query # Nothing =>
    /\ ~IsInsert(query) /\ answer.way # "proxied" => TakenForInsert(query)
    /\ IsInsert(query) /\ answer.way = "proxied" => NotSeen(query)
    /\ answer.way = "batched" => MayBeJoined(query)
    /\ answer.status = "200" => ~config.sync /\ ~query.bulkSync

\* What is no INSERT is proxied: the client has the answer of ClickHouse, and
\* backup does not see it (CLIENT_COMPATIBILITY.md, DUAL_WRITE.md).
QueriesAreProxied ==
  query # Nothing /\ ~IsInsert(query) => answer.way = "proxied"
=============================================================================
