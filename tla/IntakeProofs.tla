---------------------------- MODULE IntakeProofs ----------------------------
(***************************************************************************)
(* Proofs about Intake for integers of every width, every limit, every     *)
(* size and every batch_formats.                                           *)
(***************************************************************************)
EXTENDS Intake, TLAPS

-----------------------------------------------------------------------------
(* The inductive invariant, in named parts.                                *)

\* The request is there until the headers are read, and nothing has been decided
\* before the answer.
Undecided ==
  /\ stage \notin {"parse", "answered"} => wire \in Wires
  /\ stage # "answered" => query = Nothing /\ answer = Unanswered

\* What has been read is as much as there is, short of the largest limit.
ReadWhole ==
  /\ stage \in {"read", "encoding", "native"} => marked = wire.native
  /\ stage \in {"encoding", "native"} => NeedsDecompression
  /\ stage = "encoding" =>
       size <= wire.sent /\ (config.max < MaxInt => size = wire.sent)
  /\ stage = "native" =>
       size <= wire.decoded /\ (config.max < MaxInt => size = wire.decoded)

\* An answered query went the way it was routed.
RoutedAs ==
  /\ query = Nothing => answer.way \in {"none", "refused", "proxied"}
  /\ query # Nothing => query \in Queries /\ answer = Routed(query)

IInv == TypeOK /\ Undecided /\ ReadWhole /\ RoutedAs /\ BodyIsWhole /\ LimitHolds
-----------------------------------------------------------------------------
(* The arithmetic of the limits.                                           *)

LEMMA WrapRange == \A n \in Int : Wrap(n) \in Int /\ Wrap(n) <= MaxInt
  BY IntakeAssumption DEF Wrap

LEMMA WrapSmall == \A n \in 0 .. MaxInt : Wrap(n) = n
  BY IntakeAssumption DEF Wrap

\* Four times a limit is even however often it wraps, and so never the largest
\* integer.
LEMMA FourTimesIsLess == \A n \in 0 .. MaxInt : Wrap(4 * n) # MaxInt
  BY IntakeAssumption DEF Wrap

LEMMA Limits413 ==
  \A max \in 0 .. MaxInt : /\ CompressedLimit(max) \in max .. MaxInt
                           /\ max < MaxInt => CompressedLimit(max) < MaxInt
<1>1. \A max \in 0 .. MaxInt : 4 * max \in Int
  BY IntakeAssumption
<1>2. QED
  BY <1>1, WrapRange, FourTimesIsLess, IntakeAssumption DEF CompressedLimit

\* The code reads no more than there is; and one more than the limit, if there
\* is more, when the limit has a successor.
LEMMA ReadsAll ==
  ASSUME NEW n \in 0 .. MaxInt, config.max \in -1 .. MaxInt
  PROVE  /\ ReadAll(n) \in 0 .. n /\ ReadAllLimited(n) \in 0 .. n
         /\ config.max < MaxInt =>
              /\ config.max <= 0 => ReadAll(n) = n /\ ReadAllLimited(n) = n
              /\ ReadAll(n) <= CompressedLimit(config.max) => ReadAll(n) = n
              /\ ReadAllLimited(n) <= config.max => ReadAllLimited(n) = n
<1>1. \A k \in 0 .. MaxInt : Wrap(k + 1) \in Int /\ (k < MaxInt => Wrap(k + 1) = k + 1)
  BY WrapRange, WrapSmall, IntakeAssumption
<1>2. CASE config.max <= 0
  <2>1. config.max < MaxInt => ReadAllLimited(n) = n /\ ReadAll(n) = n
    BY <1>2 DEF ReadAll, ReadAllLimited
  <2>2. QED
    BY <1>2, <2>1, IntakeAssumption DEF ReadAll, ReadAllLimited
<1>3. CASE config.max > 0
  BY <1>1, <1>3, Limits413, IntakeAssumption DEF ReadAll, ReadAllLimited, Limited
<1>4. QED
  BY <1>2, <1>3, IntakeAssumption
-----------------------------------------------------------------------------
\* What the code knows of a request.
LEMMA WireType ==
  ASSUME NEW w \in Wires
  PROVE  /\ w.sent \in 0 .. MaxInt /\ w.decoded \in 0 .. MaxInt /\ w.plain \in 0 .. MaxInt
         /\ w.native \in BOOLEAN /\ w.encoding \in {"none", "known", "unknown", "hidden", "twice"}
         /\ w.encoding \in {"none", "hidden"} => w.decoded = w.sent
         /\ ~w.native => w.damage # "header"
         /\ ~w.native /\ ~Layered(w) => w.plain = w.decoded
         /\ w.sent = 0 => w.decoded = 0
         /\ w.decoded = 0 => w.plain = 0
  BY IntakeAssumption DEF Wires

LEMMA ConfigType ==
  ASSUME config \in Configs
  PROVE  config.max \in -1 .. MaxInt
  BY IntakeAssumption DEF Configs

LEMMA InitIInv == Init => IInv
<1> SUFFICES ASSUME Init PROVE IInv
  OBVIOUS
<1>1. wire.native \in BOOLEAN /\ config \in Configs /\ MaxInt \in Nat
  BY WireType, IntakeAssumption DEF Init
<1>2. QED
  BY <1>1 DEF Init, IInv, TypeOK, Undecided, ReadWhole, RoutedAs, BodyIsWhole, LimitHolds,
              Unanswered
-----------------------------------------------------------------------------
\* A refusal for the size must have a reason; others need none.
LEMMA RefuseStep ==
  ASSUME IInv, NEW status \in {"400", "413"}, Refuse(status), wire \in Wires,
         status = "413" =>
           config.max > 0 /\ \E n \in {wire.sent, wire.decoded, wire.plain} : n > config.max,
         query = Nothing
  PROVE  IInv'
  BY DEF Refuse, IInv, TypeOK, Undecided, ReadWhole, RoutedAs, BodyIsWhole, LimitHolds

LEMMA DecodedStep ==
  ASSUME IInv, stage \in {"encoding", "native"}, NEW n \in 0 .. MaxInt,
         NEW to \in {"native", "route"}, Decoded(n, to),
         \E m \in {wire.sent, wire.decoded, wire.plain} : n <= m,
         to = "native" =>
           n <= wire.decoded /\ (config.max < MaxInt /\ ~TooLarge(n) => n = wire.decoded),
         to = "route" /\ config.max < MaxInt /\ ~TooLarge(n) =>
           \/ n = wire.plain
           \/ wire.damage = "header" /\ n < wire.plain
           \/ Layered(wire) /\ n = wire.decoded
  PROVE  IInv'
<1>1. wire \in Wires /\ query = Nothing /\ answer = Unanswered /\ config \in Configs
  BY DEF IInv, Undecided, TypeOK
<1>2. config.max \in -1 .. MaxInt /\ NeedsDecompression
  BY <1>1, ConfigType DEF IInv, ReadWhole
<1>3. CASE TooLarge(n) /\ Refuse("413")
  <2>1. config.max > 0 /\ \E m \in {wire.sent, wire.decoded, wire.plain} : m > config.max
    BY <1>1, <1>2, <1>3, WireType DEF TooLarge
  <2>2. QED
    BY <1>1, <1>3, <2>1, RefuseStep
<1>4. CASE ~TooLarge(n) /\ Goes(to, n) /\ marked' = (marked /\ to = "native")
  <2>1. TypeOK' /\ Undecided' /\ RoutedAs'
    BY <1>1, <1>4 DEF Goes, IInv, TypeOK, Undecided, RoutedAs
  <2>2. ReadWhole'
    <3>1. CASE to = "route"
      BY <1>4, <3>1 DEF Goes, ReadWhole
    <3>2. CASE to = "native"
      <4>1. marked' = wire'.native
        BY <1>4, <3>2 DEF Goes, IInv, TypeOK, ReadWhole
      <4>2. NeedsDecompression' /\ size' = n /\ wire' = wire /\ config' = config /\ stage' = "native"
        BY <1>2, <1>4, <3>2 DEF Goes, NeedsDecompression
      <4>3. QED
        BY <1>4, <3>2, <4>1, <4>2 DEF ReadWhole
    <3>3. QED
      BY <3>1, <3>2
  <2>3. BodyIsWhole'
    BY <1>1, <1>4 DEF Goes, IInv, BodyIsWhole, Layered
  <2>4. LimitHolds'
    <3>1. config'.max > 0 => size' <= config'.max
      BY <1>1, <1>2, <1>4 DEF Goes, TooLarge
    <3>2. NeedsDecompression' /\ answer'.status = "none"
      BY <1>1, <1>2, <1>4 DEF Goes, NeedsDecompression, Unanswered
    <3>3. QED
      BY <3>1, <3>2 DEF LimitHolds
  <2>5. QED
    BY <2>1, <2>2, <2>3, <2>4 DEF IInv
<1>5. QED
  BY <1>3, <1>4 DEF Decoded

LEMMA ReadStep == IInv /\ ReadRequestBody => IInv'
<1> SUFFICES ASSUME IInv, ReadRequestBody PROVE IInv'
  OBVIOUS
<1> DEFINE n == ReadAll(wire.sent)
<1>1. /\ wire \in Wires /\ query = Nothing /\ answer = Unanswered /\ config \in Configs
      /\ marked = wire.native
  BY DEF IInv, Undecided, TypeOK, ReadWhole, ReadRequestBody
<1>2. /\ config.max \in -1 .. MaxInt /\ n \in 0 .. wire.sent
      /\ config.max < MaxInt /\ (config.max <= 0 \/ n <= CompressedLimit(config.max))
           => n = wire.sent
  <2>1. wire.sent \in 0 .. MaxInt
    BY <1>1, WireType
  <2>2. QED
    BY <1>1, <2>1, ConfigType, ReadsAll
<1>3. CASE config.max > 0 /\ n > CompressedLimit(config.max) /\ Refuse("413")
  <2>1. wire.sent > config.max
    <3>1. CompressedLimit(config.max) \in config.max .. MaxInt /\ wire.sent \in Nat
      BY <1>1, <1>2, <1>3, Limits413, WireType
    <3>2. QED
      BY <1>2, <1>3, <3>1
  <2>2. QED
    BY <1>1, <1>3, <2>1, RefuseStep
<1>4. CASE /\ config.max <= 0 \/ n <= CompressedLimit(config.max)
           /\ Goes(IF NeedsDecompression THEN "encoding" ELSE "route", n)
           /\ UNCHANGED marked
  <2>1. TypeOK' /\ Undecided' /\ RoutedAs'
    <3>1. n \in 0 .. MaxInt
      BY <1>1, <1>2, WireType, IntakeAssumption
    <3>2. QED
      BY <1>1, <1>4, <3>1 DEF Goes, IInv, TypeOK, Undecided, RoutedAs
  <2>2. ReadWhole'
    BY <1>1, <1>2, <1>4, WireType DEF Goes, ReadWhole, NeedsDecompression
  <2>3. BodyIsWhole'
    BY <1>1, <1>2, <1>4, WireType DEF Goes, BodyIsWhole, NeedsDecompression, Layered
  <2>4. LimitHolds'
    <3>1. /\ stage' = "route" => ~NeedsDecompression'
          /\ config.max > 0 => size' <= CompressedLimit(config.max)
      <4>1. stage' = "route" => ~NeedsDecompression
        BY <1>4 DEF Goes
      <4>2. NeedsDecompression' <=> NeedsDecompression
        BY <1>4 DEF Goes, NeedsDecompression
      <4>3. config.max > 0 => size' <= CompressedLimit(config.max)
        BY <1>2, <1>4 DEF Goes
      <4>4. QED
        BY <4>1, <4>2, <4>3
    <3>2. config.max > 0 /\ 4 * config.max <= MaxInt => CompressedLimit(config.max) = 4 * config.max
      BY <1>2, WrapSmall, IntakeAssumption DEF CompressedLimit
    <3>3. answer'.status = "none" /\ config' = config
      BY <1>1, <1>4 DEF Goes, Unanswered
    <3>4. QED
      BY <3>1, <3>2, <3>3 DEF LimitHolds
  <2>5. QED
    BY <2>1, <2>2, <2>3, <2>4 DEF IInv
<1>5. CASE Refuse("400")
  BY <1>1, <1>5, RefuseStep
<1>6. QED
  BY <1>3, <1>4, <1>5 DEF ReadRequestBody

LEMMA EncodingStep == IInv /\ DecompressHTTPEncoding => IInv'
<1> SUFFICES ASSUME IInv, DecompressHTTPEncoding PROVE IInv'
  OBVIOUS
<1>1. /\ stage = "encoding" /\ wire \in Wires /\ query = Nothing /\ answer = Unanswered
      /\ config \in Configs /\ marked = wire.native /\ NeedsDecompression
      /\ size \in 0 .. wire.sent /\ (config.max < MaxInt => size = wire.sent)
  BY WireType DEF IInv, Undecided, TypeOK, ReadWhole, DecompressHTTPEncoding
<1>2. /\ config.max \in -1 .. MaxInt /\ wire.decoded \in 0 .. MaxInt
      /\ wire.sent \in 0 .. MaxInt /\ wire.plain \in 0 .. MaxInt
      /\ (wire.sent = 0 => wire.decoded = 0)
      /\ (wire.encoding = "none" => wire.decoded = wire.sent)
  BY <1>1, ConfigType, WireType
<1>3. CASE wire.encoding = "none" /\ Goes("native", size) /\ UNCHANGED marked
  <2>1. TypeOK' /\ Undecided' /\ RoutedAs' /\ BodyIsWhole'
    BY <1>1, <1>2, <1>3 DEF Goes, IInv, TypeOK, Undecided, RoutedAs, BodyIsWhole
  <2>2. ReadWhole'
    BY <1>1, <1>2, <1>3 DEF Goes, ReadWhole, NeedsDecompression
  <2>3. LimitHolds'
    BY <1>1, <1>3 DEF Goes, LimitHolds, Unanswered
  <2>4. QED
    BY <2>1, <2>2, <2>3 DEF IInv
<1>4. CASE Refuse("400")
  BY <1>1, <1>4, RefuseStep
<1>5. CASE size = 0 /\ Decoded(0, "native")
  <2>1. config.max < MaxInt => wire.decoded = 0
    BY <1>1, <1>2, <1>5
  <2>2. QED
    BY <1>1, <1>2, <1>5, <2>1, DecodedStep, IntakeAssumption
<1>6. CASE Decoded(ReadAllLimited(wire.decoded), "native")
  <2> DEFINE n == ReadAllLimited(wire.decoded)
  <2>1. /\ n \in 0 .. wire.decoded
        /\ config.max < MaxInt /\ (config.max <= 0 \/ n <= config.max) => n = wire.decoded
    BY <1>2, ReadsAll
  <2>2. config.max < MaxInt /\ ~TooLarge(n) => n = wire.decoded
    BY <1>2, <2>1 DEF TooLarge
  <2>3. n \in 0 .. MaxInt /\ n <= wire.decoded
    BY <1>2, <2>1, IntakeAssumption
  <2> HIDE DEF n
  <2>4. QED
    BY <1>1, <1>6, <2>2, <2>3, DecodedStep DEF n
<1>7. QED
  BY <1>3, <1>4, <1>5, <1>6 DEF DecompressHTTPEncoding

LEMMA NativeStep == IInv /\ DecompressNativeBlocks => IInv'
<1> SUFFICES ASSUME IInv, DecompressNativeBlocks PROVE IInv'
  OBVIOUS
<1>1. /\ stage = "native" /\ wire \in Wires /\ query = Nothing
      /\ size \in 0 .. wire.decoded /\ (config.max < MaxInt => size = wire.decoded)
  BY WireType DEF IInv, Undecided, TypeOK, ReadWhole, DecompressNativeBlocks
<1>2. /\ wire.decoded \in 0 .. MaxInt /\ wire.plain \in 0 .. MaxInt
      /\ (wire.decoded = 0 => wire.plain = 0)
      /\ (~wire.native /\ ~Layered(wire) => wire.plain = wire.decoded)
  BY <1>1, WireType
<1>3. CASE ~wire.native /\ Decoded(size, "route")
  <2>1. size \in 0 .. MaxInt
    BY <1>1, <1>2, IntakeAssumption
  <2>2. QED
    BY <1>1, <1>2, <1>3, <2>1, DecodedStep
<1>4. CASE Refuse("400")
  BY <1>1, <1>4, RefuseStep
<1>5. CASE size = 0 /\ Decoded(0, "route")
  <2>1. config.max < MaxInt => wire.plain = 0
    BY <1>1, <1>2, <1>5
  <2>2. QED
    BY <1>1, <1>2, <1>5, <2>1, DecodedStep, IntakeAssumption
<1>6. CASE Decoded(wire.plain, "route")
  BY <1>1, <1>2, <1>6, DecodedStep
<1>7. ASSUME NEW n \in Sizes, wire.damage = "header", n < wire.plain, Decoded(n, "route")
      PROVE  IInv'
  <2>1. n \in 0 .. MaxInt
    BY IntakeAssumption
  <2>2. QED
    BY <1>1, <1>2, <1>7, <2>1, DecodedStep
<1>8. QED
  BY <1>3, <1>4, <1>5, <1>6, <1>7 DEF DecompressNativeBlocks

LEMMA HeadersStep == IInv /\ ReadHeaders => IInv'
  BY DEF ReadHeaders, IInv, TypeOK, Undecided, ReadWhole, RoutedAs, BodyIsWhole, LimitHolds,
         Unanswered

\* The ways a query can go.
LEMMA Ways ==
  ASSUME NEW q
  PROVE  /\ Routed(q).status \in {"200", "live", "500"}
         /\ Routed(q).way \in {"refused", "opaque", "batched", "proxied"}
         /\ Routed(q) \in [status : {"none", "200", "live", "400", "413", "500"},
                           way : {"none", "refused", "opaque", "batched", "proxied"}]
  BY DEF Routed, Inserted, Proxied

LEMMA AnswerStep ==
  ASSUME IInv, NEW q \in Queries \cup {Nothing},
         NEW a \in [status : {"none", "200", "live", "400", "413", "500"},
                   way : {"none", "refused", "opaque", "batched", "proxied"}],
         Answers(q, a), a.status # "413",
         q = Nothing => a.way = "proxied", q # Nothing => a = Routed(q)
  PROVE  IInv'
<1>1. /\ stage' = "answered" /\ wire' = wire /\ query' = q /\ answer' = a
      /\ config' = config /\ size' = size /\ marked' = marked
  BY DEF Answers
<1>2. TypeOK'
  BY <1>1 DEF IInv, TypeOK
<1>3. Undecided' /\ ReadWhole' /\ BodyIsWhole' /\ LimitHolds'
  BY <1>1 DEF Undecided, ReadWhole, BodyIsWhole, LimitHolds
<1>4. RoutedAs'
  <2>1. CASE q = Nothing
    BY <1>1, <2>1 DEF RoutedAs
  <2>2. CASE q # Nothing
    <3>1. Routed(query)' = Routed(q)
      BY <1>1 DEF Routed, ShouldOpaqueInsert, IsInsertParamsOrBody, InsertFormat,
                  ParsedInsert, HasContent, Inserted, WantsSyncInsert, Proxied
    <3>2. QED
      BY <1>1, <2>2, <3>1 DEF RoutedAs
  <2>3. QED
    BY <2>1, <2>2
<1>5. QED
  BY <1>2, <1>3, <1>4 DEF IInv

LEMMA IInvStep == IInv /\ [Next]_vars => IInv'
<1> SUFFICES ASSUME IInv, [Next]_vars PROVE IInv'
  OBVIOUS
<1>1. CASE ReadRequestBody
  BY <1>1, ReadStep
<1>2. CASE DecompressHTTPEncoding
  BY <1>2, EncodingStep
<1>3. CASE DecompressNativeBlocks
  BY <1>3, NativeStep
<1>4. CASE ReadHeaders
  BY <1>4, HeadersStep
<1>5. CASE RouteEmpty
  BY <1>5, AnswerStep DEF RouteEmpty, Proxied
<1>6. ASSUME NEW q \in Queries, Answers(q, Routed(q)) PROVE IInv'
  <2>1. q # Nothing
    BY DEF Queries, Nothing
  <2>2. Routed(q).status # "413"
    BY Ways
  <2>3. QED
    BY <1>6, <2>1, <2>2, Ways, AnswerStep
<1>7. CASE UNCHANGED vars
  BY <1>7 DEF vars, IInv, TypeOK, Undecided, ReadWhole, RoutedAs, BodyIsWhole, LimitHolds,
             NeedsDecompression, Layered, CompressedLimit, Wrap, Routed, ShouldOpaqueInsert,
             IsInsertParamsOrBody, InsertFormat, ParsedInsert, HasContent, Inserted, WantsSyncInsert, Proxied
<1>8. QED
  BY <1>1, <1>2, <1>3, <1>4, <1>5, <1>6, <1>7 DEF Next, Route

\* The inductive invariant holds in every reachable state.
THEOREM Invariance == Spec => []IInv
  BY InitIInv, IInvStep, PTL DEF Spec
-----------------------------------------------------------------------------
\* No size falls below zero, whatever the limits wrap to.
THEOREM TypeCorrect == Spec => []TypeOK
<1>1. IInv => TypeOK
  BY DEF IInv
<1>2. QED
  BY Invariance, <1>1, PTL

\* For every limit but the largest integer, what readRequestBody and
\* decompressRequestBody let through is the whole plain body, but for the codings
\* Content-Encoding names behind the first and for blocks before a damaged header.
THEOREM BodyStaysWhole == Spec => []BodyIsWhole
<1>1. IInv => BodyIsWhole
  BY DEF IInv
<1>2. QED
  BY Invariance, <1>1, PTL

\* max_request_bytes is kept, and no 413 is without a reason, at every width of
\* the integers in which four times the limit may overflow.
THEOREM LimitIsKept == Spec => []LimitHolds
<1>1. IInv => LimitHolds
  BY DEF IInv
<1>2. QED
  BY Invariance, <1>1, PTL

\* What writeHandler proxies, batches and answers early follows the statement as
\* ClickHouse reads it, except where the searches of opaque.go and of ParseQuery look
\* elsewhere: the exceptions are those StatementDecides names, for every configuration.
THEOREM StatementIsFollowed == Spec => []StatementDecides
<1>1. IInv => StatementDecides
  <2> SUFFICES ASSUME IInv, query # Nothing PROVE StatementDecides
    BY DEF StatementDecides
  <2> DEFINE q == query
  <2>1. q \in Queries /\ answer = Routed(q)
    BY DEF IInv, RoutedAs
  <2>2. ~IsInsert(q) /\ answer.way # "proxied" => TakenForInsert(q)
    BY <2>1 DEF Routed, ShouldOpaqueInsert, IsInsertParamsOrBody, ParsedInsert, Proxied,
                IsInsert, TakenForInsert, Queries
  <2>3. IsInsert(q) /\ answer.way = "proxied" => NotSeen(q)
    BY <2>1 DEF Routed, ParsedInsert, Inserted, IsInsert, NotSeen, Queries
  <2>4. answer.way = "batched" => MayBeJoined(q)
    <3>1. answer.way = "batched" => ~ShouldOpaqueInsert(q) /\ ParsedInsert(q)
      BY <2>1 DEF Routed, Inserted, Proxied
    <3>2. QED
      BY <2>1, <3>1 DEF ShouldOpaqueInsert, IsInsertParamsOrBody, InsertFormat, ParsedInsert,
                        MayBeJoined, Queries
  <2>5. answer.status = "200" => ~config.sync /\ ~q.bulkSync
    BY <2>1 DEF Routed, Inserted, WantsSyncInsert, Proxied
  <2>6. QED
    BY <2>2, <2>3, <2>4, <2>5 DEF StatementDecides
<1>2. QED
  BY Invariance, <1>1, PTL
=============================================================================
