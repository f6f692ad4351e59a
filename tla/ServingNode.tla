----------------------------- MODULE ServingNode -----------------------------
(***************************************************************************)
(* How a node answers a query from its own engines: the inference branch   *)
(* of the event loop and the local fallback of the gateway (src/main.rs),  *)
(* which run the same steps; the cache of detected engines and the task    *)
(* that scans for them every 60 seconds; the stream parser of InferenceProxy*)
(* (crates/itoken-inference/src/proxy.rs) and the probes of PortDetector   *)
(* (detector.rs).  The engines are external: they come, go, load another   *)
(* model, refuse a query, cut their answer into chunks anywhere, or break  *)
(* off.                                                                    *)
(*                                                                         *)
(* An answer is a sequence of symbols: "data" for `data: ` and the JSON    *)
(* around a content, the characters of a content as in TokenCount, "done"  *)
(* for [DONE], "nl" for a newline.  <<"hi", "lo">> are the bytes of one    *)
(* CJK character, which a chunk may end between: "?" is then what stands   *)
(* for either.                                                             *)
(***************************************************************************)
EXTENDS TokenCount, SequencesExt

CONSTANTS
    Targets,            \* where the detector looks, in this order
    Offers,             \* the weights of the models each engine may load
    DefaultWeight,      \* NANO_PER_ITOKEN / 100
    Bodies              \* what an engine may answer

ASSUME EnginesAssumption ==
    /\ Targets \in Seq(ToSet(Targets))
    /\ Offers \in [ToSet(Targets) -> SUBSET Nat]

Symbols == {"data", "nl", "done", "a", "x", "sp", "!", "hi", "lo"}

\* What is read of an answer: its symbols, and halves of characters replaced.
Text == Symbols \cup {"?"}

Before(body, i) == IF i = 1 THEN "nl" ELSE body[i - 1]

\* `data: ` starts a line and whitespace does not, only blank lines follow [DONE], and
\* characters are whole.
ASSUME BodiesAssumption ==
    \A body \in Bodies :
        /\ body \in Seq(Symbols)
        /\ \A i \in DOMAIN body :
              /\ body[i] = "data" => Before(body, i) = "nl"
              /\ body[i] = "sp" => Before(body, i) # "nl"
              /\ body[i] = "done" => Before(body, i) = "data"
              /\ body[i] = "lo" <=> Before(body, i) = "hi"
        /\ \A i, j \in DOMAIN body : i < j /\ body[i] = "done" => body[j] = "nl"

VARIABLES
    loaded,             \* the weight of the first model of each engine, 0 when it has none
    detected_engines,   \* the cache: engines with a model, with the weight of the first
    scan,               \* the periodic scan: the next target (0: asleep), and what it found
    closed,             \* the P2P node has shut down
    query               \* the query that is served

vars == <<loaded, detected_engines, scan, closed, query>>

MockWords == 10

NoQuery == [phase |-> "idle"]
Asleep  == [at |-> 0, found |-> << >>]

Engine(e) == [url |-> e, tqw |-> loaded[e]]

Loads == {f \in [ToSet(Targets) -> UNION Range(Offers) \cup {0}] :
              \A e \in ToSet(Targets) : f[e] \in Offers[e] \cup {0}}

\* The engines with a model, in the order of the targets.
Detected ==
    LET found[k \in 0..Len(Targets)] ==
            IF k = 0 THEN << >>
            ELSE IF loaded[Targets[k]] = 0 THEN found[k - 1]
            ELSE Append(found[k - 1], Engine(Targets[k]))
    IN found[Len(Targets)]

\* Boot has scanned once and advertised what it found; the tasks start.
Init ==
    /\ loaded \in Loads
    /\ detected_engines = Detected
    /\ scan = Asleep
    /\ closed = FALSE
    /\ query = NoQuery

\* An engine stops, starts or loads another model.
EngineMoves ==
    /\ loaded' \in Loads
    /\ \E e \in ToSet(Targets) : \A f \in ToSet(Targets) \ {e} : loaded'[f] = loaded[f]
    /\ UNCHANGED <<detected_engines, scan, closed, query>>

-----------------------------------------------------------------------------
(* The scan: one target after the other, then the cache as a whole.        *)

ScanStarts ==
    /\ scan.at = 0
    /\ ~closed
    /\ scan' = [scan EXCEPT !.at = 1]
    /\ UNCHANGED <<loaded, detected_engines, closed, query>>

\* The weight of the first model an engine lists.  It is 0 when the engine is down, lists
\* no model, or is late.
probe_engine(e) == {0, loaded[e]}

Probe ==
    /\ scan.at \in DOMAIN Targets
    /\ \E tqw \in probe_engine(Targets[scan.at]) :
          scan' = [at |-> scan.at + 1,
                   found |-> IF tqw = 0 THEN scan.found
                             ELSE Append(scan.found, [url |-> Targets[scan.at], tqw |-> tqw])]
    /\ UNCHANGED <<loaded, detected_engines, closed, query>>

\* Mutant: a scan that finds nothing leaves the cache alone.
ScanEndsIfAny ==
    /\ scan.at > Len(Targets)
    /\ detected_engines' = IF scan.found = << >> THEN detected_engines ELSE scan.found
    /\ scan' = Asleep
    /\ UNCHANGED <<loaded, closed, query>>

\* Mutant: the next scan goes on with the list of this one.
ScanEndsKeepingList ==
    /\ scan.at > Len(Targets)
    /\ detected_engines' = scan.found
    /\ scan' = [scan EXCEPT !.at = 0]
    /\ UNCHANGED <<loaded, closed, query>>

ScanEnds ==
    /\ scan.at > Len(Targets)
    /\ detected_engines' = scan.found
    /\ scan' = Asleep
    /\ UNCHANGED <<loaded, closed, query>>

Close ==
    /\ ~closed
    /\ closed' = TRUE
    /\ UNCHANGED <<loaded, detected_engines, scan, query>>

-----------------------------------------------------------------------------
(* A query.                                                                *)

\* A query that does not validate is answered with an error.
Invalid ==
    /\ query = NoQuery
    /\ query' = [phase |-> "refused"]
    /\ UNCHANGED <<loaded, detected_engines, scan, closed>>

\* The first engine of the cache serves, at the weight of its first model,
\* whatever model is asked for; without one a fixed text of MockWords words is sold.
Start ==
    /\ query = NoQuery
    /\ query' = IF detected_engines = << >>
                THEN [phase |-> "mocked", receipt |-> [tokens |-> MockWords, tqw |-> DefaultWeight]]
                ELSE [phase |-> "connecting", engine |-> Head(detected_engines)]
    /\ UNCHANGED <<loaded, detected_engines, scan, closed>>

Becomes(q) == query' = q /\ UNCHANGED <<loaded, detected_engines, scan, closed>>

Refuse ==
    /\ query.phase = "connecting"
    /\ Becomes([phase |-> "refused"])

Accept(body) ==
    /\ query.phase = "connecting"
    /\ loaded[query.engine.url] # 0
    /\ Becomes([phase |-> "reading", engine |-> query.engine, body |-> body, received |-> 0,
                split |-> {}, buffer |-> << >>, text |-> << >>, tokens |-> 0])

\* Where a chunk that ends with the n-th byte cuts a character.
Cut(body, n) == IF body[n] = "hi" THEN {n} ELSE {}

\* from_utf8_lossy, on one chunk: half a character is replaced.
Lossy(chunk) ==
    [i \in DOMAIN chunk |->
        IF \/ chunk[i] = "hi" /\ i = Len(chunk)
           \/ chunk[i] = "lo" /\ i = 1
        THEN "?" ELSE chunk[i]]

\* Mutant: a line that a chunk has begun is forgotten with the chunk.
ChunkAlone(n) ==
    /\ query.phase = "reading"
    /\ n \in (query.received + 1)..Len(query.body)
    /\ Becomes([query EXCEPT !.phase = "parsing", !.received = n,
                !.split = @ \cup Cut(query.body, n),
                !.buffer = Lossy(SubSeq(query.body, query.received + 1, n))])

\* The bytes up to the n-th arrive as one chunk.  `split` is history: which
\* characters have been cut.
Chunk(n) ==
    /\ query.phase = "reading"
    /\ n \in (query.received + 1)..Len(query.body)
    /\ Becomes([query EXCEPT !.phase = "parsing", !.received = n,
                !.split = @ \cup Cut(query.body, n),
                !.buffer = @ \o Lossy(SubSeq(query.body, query.received + 1, n))])

FirstLine(buffer) == SubSeq(buffer, 1, SelectInSeq(buffer, LAMBDA c : c = "nl") - 1)

Content(line) == IF line # << >> /\ Head(line) = "data" THEN Tail(line) ELSE << >>

\* Mutant: a line without a content is left in the buffer.
DrainContents(q) ==
    IF Content(FirstLine(q.buffer)) = << >> THEN q
    ELSE [q EXCEPT !.buffer = SubSeq(@, Len(FirstLine(@)) + 2, Len(@))]

\* The first line and its newline leave the buffer.
Drain(q) == [q EXCEPT !.buffer = SubSeq(@, Len(FirstLine(@)) + 2, Len(@))]

\* Mutant: a line without a content is billed, too.
DeliverAnything(q, content) ==
    [q EXCEPT !.tokens = @ + (IF content = << >> THEN 1 ELSE estimate_token_count(content)),
              !.text = IF content = << >> THEN @ ELSE Append(@, content)]

Deliver(q, content) ==
    IF content = << >> THEN q
    ELSE [q EXCEPT !.tokens = @ + estimate_token_count(content), !.text = Append(@, content)]

\* A turn of the inner loop: the next whole line.  [DONE] leaves the loop, and what
\* is behind it in the buffer waits for the next chunk.
Parse ==
    /\ query.phase = "parsing"
    /\ IF "nl" \in ToSet(query.buffer)
       THEN \E content \in {Content(FirstLine(query.buffer))} :
               Becomes(IF content = <<"done">>
                       THEN [Drain(query) EXCEPT !.phase = "reading"]
                       ELSE Deliver(Drain(query), content))
       ELSE Becomes([query EXCEPT !.phase = "reading"])

\* Mutant: the weight is looked up again when the receipt is written.
StreamEndsAtNewWeight ==
    /\ query.phase = "reading"
    /\ Becomes([phase |-> "answered", engine |-> query.engine, body |-> query.body,
                received |-> query.received, split |-> query.split, text |-> query.text,
                receipt |-> [tokens |-> query.tokens,
                             tqw |-> IF detected_engines = << >> THEN DefaultWeight
                                     ELSE Head(detected_engines).tqw]])

\* The stream ends or breaks off: the text so far is answered and billed, and a
\* line without its newline is dropped.
StreamEnds ==
    /\ query.phase = "reading"
    /\ Becomes([phase |-> "answered", engine |-> query.engine, body |-> query.body,
                received |-> query.received, split |-> query.split, text |-> query.text,
                receipt |-> [tokens |-> query.tokens, tqw |-> query.engine.tqw]])

\* The answer goes to the swarm loop, or to the HTTP client.
Respond ==
    /\ query.phase \in {"answered", "mocked", "refused"}
    /\ Becomes(NoQuery)

-----------------------------------------------------------------------------
Serving == Refuse \/ Parse \/ StreamEnds \/ Respond

Next ==
    \/ EngineMoves
    \/ ScanStarts \/ Probe \/ ScanEnds
    \/ Close
    \/ Invalid \/ Start
    \/ \E body \in Bodies : Accept(body)
    \/ \E body \in Bodies : \E n \in DOMAIN body : Chunk(n)
    \/ Serving

\* The tasks run, and an engine that is silent for ever does not exist: it refuses,
\* or its stream ends.
Fairness == WF_vars(Serving) /\ WF_vars(ScanStarts \/ Probe \/ ScanEnds)

Spec == Init /\ [][Next]_vars /\ Fairness

-----------------------------------------------------------------------------
\* A reader that takes one byte at a time holds the line it is in and the
\* contents of the lines before.
ReadByte(was, c) ==
    IF c # "nl" THEN [was EXCEPT !.line = Append(@, c)]
    ELSE [line  |-> << >>,
          found |-> IF Content(was.line) \in {<< >>, <<"done">>} THEN was.found
                    ELSE Append(was.found, Content(was.line))]

\* What it has read of the first i bytes: what the parser should find however
\* the bytes are cut into chunks.
Read(body) ==
    LET read[i \in 0..Len(body)] ==
            IF i = 0 THEN [line |-> << >>, found |-> << >>] ELSE ReadByte(read[i - 1], body[i])
    IN read

\* The answer with the halves of the characters that were cut replaced.
Decoded(body, split) ==
    [i \in DOMAIN body |-> IF i \in split \/ i - 1 \in split THEN "?" ELSE body[i]]

\* The contents of the whole lines that arrived.
Sent == Read(Decoded(query.body, query.split))[query.received].found

\* The same, had no character been cut.
Uncut == Read(query.body)[query.received].found

Bill(contents) ==
    LET bill[k \in 0..Len(contents)] ==
            IF k = 0 THEN 0 ELSE bill[k - 1] + estimate_token_count(contents[k])
    IN bill[Len(contents)]

TypeOK ==
    /\ loaded \in Loads
    /\ \A list \in {detected_engines, scan.found} :
          /\ Len(list) =< Len(Targets)
          /\ \A i \in DOMAIN list : list[i].url \in ToSet(Targets) /\ list[i].tqw \in Offers[list[i].url]
    /\ scan.at \in 0..(Len(Targets) + 1)
    /\ closed \in BOOLEAN
    /\ query.phase \in {"idle", "connecting", "reading", "parsing", "answered", "mocked", "refused"}

\* What is answered is every whole line of what the engine sent, once and in
\* order, wherever the chunks were cut and whether or not the stream broke off;
\* the halves of a character that was cut are replaced, and nothing else is.
TextIsWholeLines ==
    /\ query.phase \in {"reading", "parsing"} => IsPrefix(query.text, Sent)
    /\ query.phase = "answered" => query.text = Sent

\* The receipt bills the tokens of each content the engine sent on a whole line, as it
\* was read.  A cut through a character may make that less than the tokens of what was
\* sent, as the character no longer counts, and never more.
BilledIsSent ==
    query.phase = "answered" =>
        /\ query.receipt.tokens = Bill(Sent)
        /\ query.receipt.tokens =< Bill(Uncut)

\* A query is billed at a weight of the engine that served it, though the cache
\* may be replaced, emptied or reordered while its answer is streamed.
PricedByServingEngine ==
    query.phase = "answered" => query.receipt.tqw \in Offers[query.engine.url]

\* What a scan may report.
Known == {e \in [url : ToSet(Targets), tqw : Nat] : e.tqw \in Offers[e.url]}

\* What makes PricedByServingEngine inductive: an engine is known, at a weight of
\* one of its models, wherever it stands, and a scan finds one at each target at most.
EnginesKnown ==
    /\ detected_engines \in Seq(Known)
    /\ Len(detected_engines) =< Len(Targets)
    /\ scan = [at |-> scan.at, found |-> scan.found]
    /\ scan.found \in Seq(Known)
    /\ scan = Asleep \/ Len(scan.found) < scan.at
    /\ query.phase \in {"connecting", "reading", "parsing", "answered"} => query.engine \in Known
    /\ query.phase = "answered" => query.receipt.tqw = query.engine.tqw

\* Where the chunks have cut a character: the last one has if its last byte begins one.
IsSplit(body, received, split) ==
    /\ split \subseteq {i \in 1..received : body[i] = "hi"}
    /\ received \in split <=> received # 0 /\ body[received] = "hi"

\* The buffer of query q holds what arrived after the end of a line, and its text
\* and tokens are what a reader has found up to there.
Parsed(q) ==
    LET seen   == Decoded(q.body, q.split)
        parsed == q.received - Len(q.buffer)
    IN  /\ q = [phase |-> q.phase, engine |-> q.engine, body |-> q.body, received |-> q.received,
                split |-> q.split, buffer |-> q.buffer, text |-> q.text, tokens |-> q.tokens]
        /\ q.body \in Bodies
        /\ q.received \in 0..Len(q.body)
        /\ IsSplit(q.body, q.received, q.split)
        /\ parsed \in 0..q.received
        /\ Read(seen)[parsed].line = << >>
        /\ q.buffer = SubSeq(seen, parsed + 1, q.received)
        /\ q.text = Read(seen)[parsed].found
        /\ q.tokens = Bill(q.text)

\* What makes TextIsWholeLines and BilledIsSent inductive.  Before the next chunk no
\* whole line is left in the buffer, but for blank ones that follow [DONE].
ParsedSoFar ==
    /\ query.phase \in {"reading", "parsing"} => Parsed(query)
    /\ query.phase = "reading" =>
          "nl" \notin ToSet(query.buffer) \/ ToSet(query.buffer) \subseteq {"nl"}
    /\ query.phase = "answered" =>
          /\ query.body \in Bodies
          /\ query.received \in 0..Len(query.body)
          /\ IsSplit(query.body, query.received, query.split)
          /\ query.text = Sent
          /\ query.receipt.tokens = Bill(query.text)

\* A query ends, whatever the engine sends.
EveryStreamEnds == query # NoQuery ~> query = NoQuery

\* An engine that is gone for good is not asked for ever.
GoneEngineLeaves ==
    \A e \in ToSet(Targets) :
        <>[](loaded[e] = 0 /\ ~closed)
            => <>[](\A i \in DOMAIN detected_engines : detected_engines[i].url # e)
=============================================================================
