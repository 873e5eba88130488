----------------------------- MODULE StreamRelay -----------------------------
(***************************************************************************)
(* The relay of a streamed completion: streamSSE in routes/v1.ts and         *)
(* normalizeStreamChunk of the two adapters (lib/adapters).  The upstream    *)
(* writes lines, the network cuts them anywhere, the relay puts them         *)
(* together again, translates them, and in the end gives the slot of the key *)
(* back and logs the tokens.  A client may stop reading, and Redis refuse.    *)
(*                                                                         *)
(* A line is two pieces, the second with its "\n": a chunk that ends inside  *)
(* a line ends between them.                                                *)
(***************************************************************************)
EXTENDS Naturals, SequencesExt

CONSTANTS
    Tokens,     \* token counts an upstream reports
    MaxLines    \* bound on the lines of a stream

ASSUME RelayAssumption == Tokens \subseteq Nat /\ MaxLines \in Nat

Adapters == {"openai", "anthropic"}
Done == "[DONE]"

VARIABLES
    adapter,  \* getAdapter(provider.type)
    lines,    \* lines the upstream has written whole
    half,     \* the line it has begun, if any
    wire,     \* pieces written and not yet read
    closed,   \* whether the upstream has ended its body
    broken,   \* whether the body fails: a reset, or the signal of 120 s
    reading,  \* whether the client reads what is written to it
    at,       \* the await the relay stands at
    buffer,   \* pieces of a line that is not whole yet
    todo,     \* lines of the chunk read, not yet translated
    outs,     \* messages of the line translated, not yet written
    tokens,   \* inputTokens and outputTokens
    out,      \* messages the client has
    slot,     \* whether the stream counts in its key's requests in flight
    logged    \* rows handed to the usage log

upstreamVars == <<lines, half, wire, closed>>
relayVars == <<at, buffer, todo, outs, tokens, out, slot, logged>>
vars == <<adapter, upstreamVars, broken, reading, relayVars>>

-----------------------------------------------------------------------------
(* Lines and their translation. *)

(* Lines with data that is no JSON ("junk") or JSON of another shape ("odd"), lines *)
(* without data ("blank"), events that say nothing to a client of OpenAI ("ping"),   *)
(* and the events below.                                                            *)
Plain(kind) == [kind |-> kind, input |-> 0, output |-> 0]
NoLine == Plain("none")
Line == [kind : {"text", "ping", "junk", "odd", "blank", "start", "usage", "stop", "done"},
         input : Tokens \cup {0}, output : Tokens \cup {0}]

(* usage of message_start and of message_delta; of an OpenAI chunk.  Mutant: counts *)
(* that an event does not carry are reset.                                         *)
Counts == {"input", "output"}
Counted_Reset(line) == [k \in Counts |-> line[k]]
Counted(line) == [k \in Counts |-> IF line[k] = 0 THEN tokens[k] ELSE line[k]]

(* OpenAI chunks pass as they are, [DONE] once as an output and once as done. *)
OpenAIOutputs(line) == IF line.kind = "done" THEN <<Done, Done>> ELSE <<line.kind>>

(* Every event is translated; a role chunk opens, a finish_reason comes with the usage. *)
AnthropicOutputs(line) ==
    CASE line.kind \in {"start", "text", "usage"} -> <<line.kind>>
      [] line.kind = "stop" -> <<Done>>
      [] line.kind = "done" -> <<Done, Done>>
      [] OTHER -> <<>>

(* Events are read field by field outside any try: message_start without its message, *)
(* a delta missing, null.  OpenAI chunks are parsed inside one.                        *)
Throws(line) == adapter = "anthropic" /\ line.kind = "odd"

(* Lines that do not start with "data: " are skipped. *)
Outputs(line) ==
    IF line.kind = "blank" THEN <<>>
    ELSE IF adapter = "openai" THEN OpenAIOutputs(line) ELSE AnthropicOutputs(line)

(* buffer.split("\n"), lines.pop(): lines whose two pieces are there, and the rest.  *)
(* Pieces come by turns; a tail without its head does not start with "data: ".        *)
(* Mutant: the rest is forgotten.                                                     *)
WholeLines(pieces) ==
    LET first == IF pieces # <<>> /\ pieces[1].tail THEN 1 ELSE 0
    IN  [i \in 1..((Len(pieces) - first) \div 2) |-> pieces[first + 2 * i].line]
Rest_Dropped(pieces) == <<>>
Rest(pieces) == IF pieces # <<>> /\ ~ Last(pieces).tail THEN <<Last(pieces)>> ELSE <<>>

(* The finally block, and where it may stand: before decrInflight, after its DECR, and *)
(* at its end or where it threw.                                                      *)
FinallyBlock == {"settle", "given", "settled", "failed"}

(* Type invariant. *)
TypeOK ==
    /\ adapter \in Adapters
    /\ lines \in Seq(Line) /\ half \in Line \cup {NoLine}
    /\ closed \in BOOLEAN /\ broken \in BOOLEAN
    /\ reading \in BOOLEAN /\ slot \in BOOLEAN
    /\ at \in {"read", "lines"} \cup FinallyBlock
    /\ Len(buffer) <= 1
    /\ todo \in Seq(Line)
    /\ tokens \in [Counts -> Nat]
    /\ logged \in Seq([Counts -> Nat])

Init ==
    /\ adapter \in Adapters
    /\ lines = <<>> /\ half = NoLine /\ wire = <<>> /\ closed = FALSE
    /\ broken = FALSE /\ reading = TRUE
    /\ at = "read"
    /\ buffer = <<>> /\ todo = <<>> /\ outs = <<>>
    /\ tokens = [k \in Counts |-> 0]
    /\ out = <<>>
    /\ slot = TRUE /\ logged = <<>>

-----------------------------------------------------------------------------
(* The upstream, which keeps to its protocol but for junk and odd lines; the network; *)
(* the client.                                                                        *)

Wrote(kind) == \E i \in 1..Len(lines) : lines[i].kind = kind
Ended == Wrote("stop") \/ Wrote("done")

NextLines ==
    IF Ended THEN {Plain("blank")}
    ELSE {Plain("blank"), Plain("junk")} \cup
         IF adapter = "openai" THEN
             {Plain("text"), Plain("done")}
             \cup {[kind |-> "usage", input |-> i, output |-> o] : i \in Tokens, o \in Tokens}
         ELSE {Plain("odd")} \cup
             IF ~ Wrote("start") THEN {[kind |-> "start", input |-> i, output |-> 0] : i \in Tokens}
             ELSE IF ~ Wrote("usage") THEN
                 {Plain("text"), Plain("ping")}
                 \cup {[kind |-> "usage", input |-> 0, output |-> o] : o \in Tokens}
             ELSE {Plain("stop")}

BeginLine ==
    /\ ~ closed /\ half = NoLine /\ Len(lines) < MaxLines
    /\ \E line \in NextLines :
          half' = line /\ wire' = Append(wire, [line |-> line, tail |-> FALSE])
    /\ UNCHANGED <<adapter, lines, closed, broken, reading, relayVars>>

EndLine ==
    /\ ~ closed /\ half # NoLine
    /\ lines' = Append(lines, half)
    /\ wire' = Append(wire, [line |-> half, tail |-> TRUE])
    /\ half' = NoLine
    /\ UNCHANGED <<adapter, closed, broken, reading, relayVars>>

Close ==
    /\ ~ closed
    /\ closed' = TRUE
    /\ UNCHANGED <<adapter, lines, half, wire, broken, reading, relayVars>>

(* A reset, or the signal of the fetch, which covers the body until it is read. *)
Break ==
    /\ ~ broken /\ at \in {"read", "lines"}
    /\ ~ closed \/ wire # <<>>
    /\ broken' = TRUE
    /\ UNCHANGED <<adapter, upstreamVars, reading, relayVars>>

(* A client stops reading: a write to it finds no room.  It reads on, or goes. *)
Stall ==
    /\ reading /\ at = "lines" /\ outs # <<>>
    /\ reading' = FALSE
    /\ UNCHANGED <<adapter, upstreamVars, broken, relayVars>>

Resume ==
    /\ ~ reading
    /\ reading' = TRUE
    /\ UNCHANGED <<adapter, upstreamVars, broken, relayVars>>

-----------------------------------------------------------------------------
(* The relay. *)

(* reader.read() gives any number of the pieces written. *)
Read ==
    /\ at = "read" /\ ~ broken
    /\ \E n \in 1..Len(wire) :
          LET pieces == buffer \o SubSeq(wire, 1, n)
          IN  /\ todo' = WholeLines(pieces)
              /\ buffer' = Rest(pieces)
              /\ wire' = SubSeq(wire, n + 1, Len(wire))
    /\ at' = "lines"
    /\ UNCHANGED <<adapter, lines, half, closed, broken, reading, outs, tokens, out, slot, logged>>

(* normalizeStreamChunk of the next line; its tokens are taken at once. *)
Translate ==
    /\ at = "lines" /\ outs = <<>> /\ todo # <<>> /\ ~ Throws(Head(todo))
    /\ LET line == Head(todo)
       IN  /\ outs' = Outputs(line)
           /\ tokens' = IF line.kind \in {"start", "usage"} THEN Counted(line) ELSE tokens
    /\ todo' = Tail(todo)
    /\ UNCHANGED <<adapter, upstreamVars, broken, reading, at, buffer, out, slot, logged>>

(* The write is awaited, and done when the client has room for it: no signal ends it. *)
WriteSSE ==
    /\ at = "lines" /\ outs # <<>> /\ reading
    /\ out' = Append(out, Head(outs))
    /\ outs' = Tail(outs)
    /\ UNCHANGED <<adapter, upstreamVars, broken, reading, at, buffer, todo, tokens, slot, logged>>

(* Steps that move the relay alone. *)
Goto(where) ==
    /\ at' = where
    /\ UNCHANGED <<adapter, upstreamVars, broken, reading, buffer, todo, outs, tokens, out>>

ReadMore ==
    /\ at = "lines" /\ outs = <<>> /\ todo = <<>>
    /\ Goto("read")
    /\ UNCHANGED <<slot, logged>>

(* done: what is left in the buffer is dropped. *)
ReadDone ==
    /\ at = "read" /\ ~ broken /\ closed /\ wire = <<>>
    /\ Goto("settle")
    /\ UNCHANGED <<slot, logged>>

(* read() throws, or normalizeStreamChunk does, and the lines left are dropped; the *)
(* finally block runs all the same.  Mutant: there is none.                          *)
AfterFailure_None == "dead"
AfterFailure == "settle"
RelayFails ==
    /\ \/ at = "read" /\ broken
       \/ at = "lines" /\ outs = <<>> /\ todo # <<>> /\ Throws(Head(todo))
    /\ Goto(AfterFailure)
    /\ UNCHANGED <<slot, logged>>

(* The DECR of decrInflight. *)
GiveSlotBack ==
    /\ at = "settle"
    /\ slot' = FALSE
    /\ Goto("given")
    /\ UNCHANGED logged

(* logUsage with status 200, incrementDailyCounters. *)
LogUsage ==
    /\ at = "given"
    /\ logged' = Append(logged, tokens)
    /\ Goto("settled")
    /\ UNCHANGED slot

(* decrInflight rejects, before its DECR is done or after it (its answer lost, or the *)
(* SET that mends a count below 0 refused): the finally block ends there.              *)
RedisRefuses ==
    /\ at \in {"settle", "given"}
    /\ Goto("failed")
    /\ UNCHANGED <<slot, logged>>

RelayStep ==
    \/ Read \/ Translate \/ WriteSSE \/ ReadMore \/ ReadDone \/ RelayFails
    \/ GiveSlotBack \/ LogUsage \/ RedisRefuses

Next == BeginLine \/ EndLine \/ Close \/ Break \/ Stall \/ Resume \/ RelayStep

(* The event loop runs, Redis answers or refuses, the signal of the fetch fires.  The *)
(* upstream need do nothing, nor the client: a write waits for it as long as it likes. *)
Fairness == WF_vars(RelayStep) /\ WF_vars(Break)

Spec == Init /\ [][Next]_vars /\ Fairness

-----------------------------------------------------------------------------
(* Properties. *)

(* However the network cuts the lines, the client gets the translation of the upstream's *)
(* lines in order, each once, from the first on.                                         *)
Messages == FlattenSeq([i \in 1..Len(lines) |-> Outputs(lines[i])])
Over == at \in FinallyBlock
Channel == INSTANCE EventStream WITH sent <- Messages, seen <- out, ended <- Over
ImplementsEventStream == Channel!StreamSpec

(* A body that ends with a whole line and throws at none arrives whole, and the tokens   *)
(* logged for it are the last its lines reported, those of message_start and              *)
(* message_delta together.                                                               *)
Reported(k) ==
    LET reports == {i \in 1..Len(lines) : lines[i].kind \in {"start", "usage"} /\ lines[i][k] # 0}
    IN  IF reports = {} THEN 0 ELSE lines[Max(reports)][k]
Intact == closed /\ ~ broken /\ half = NoLine /\ ~ Wrote("odd")
IntactStreamsAreAccounted ==
    at = "settled" /\ Intact => out = Messages /\ logged = <<[k \in Counts |-> Reported(k)]>>

(* A stream whose client reads on gives its slot back and is logged, once, however the    *)
(* upstream, the network or a line ends it, unless Redis refuses decrInflight: the slot    *)
(* may then stay counted and the row is lost.  A client that stops reading keeps the slot. *)
StreamsAreSettled ==
    <>[]reading => <>[](\/ at = "settled" /\ ~ slot /\ Len(logged) = 1
                        \/ at = "failed" /\ logged = <<>>)
=============================================================================
