------------------------------ MODULE ChatStream ------------------------------
(***************************************************************************)
(* One streaming upstream call of the chat relay, inside the connectors:   *)
(* consumeSSE cuts the response into events, and the connector of the      *)
(* account's platform turns each into what the client reads, and the end   *)
(* of the stream into the outcome of the call.  OpenAI events are handed   *)
(* on as they are; those of Anthropic and Gemini are translated.           *)
(***************************************************************************)
EXTENDS Naturals, Sequences, SequencesExt, Selection

CONSTANT MaxEvents   \* bound on the events of the upstream

ASSUME StreamAssumption == MaxEvents \in Nat

Dialect == {"openai", "anthropic", "gemini"}

(* What upstream may send.  The kinds that matter are: some text; a text    *)
(* that happens to contain the characters [DONE]; the platform's end marker *)
(* ([DONE], a message_delta with a stop_reason, a finishReason), which with *)
(* Gemini comes together with text; Anthropic's message_stop; and events    *)
(* that carry nothing for the client (pings, starts, what does not parse).  *)
EventKind == {"text", "mention", "marker", "stop", "noise"}

VARIABLES
    dialect,    \* the platform of the account
    received,   \* history: the events upstream has sent
    wire,       \* what was written to the client: chunks and blank lines
    finished,   \* the flag done or finished of the connector
    ending,     \* how the stream ended, "none" while it runs
    outcome     \* the result of ForwardStream

streamVars == <<dialect, received, wire, finished, ending, outcome>>

Blank == [kind |-> "blank", of |-> 0]
Chunk(kind, n) == [kind |-> kind, of |-> n]

StreamInit ==
    /\ dialect \in Dialect
    /\ received = <<>>
    /\ wire = <<>>
    /\ finished = FALSE
    /\ ending = "none"
    /\ outcome = "none"

-----------------------------------------------------------------------------
(* One event.  n is its number, which stands for its content.               *)

Marks(kind) ==
    \/ kind = "marker"
    \/ dialect = "openai" /\ kind = "mention"

\* The connector for OpenAI-compatible platforms hands on what it gets.
OpenAIChunks(kind, n) == <<Chunk(kind, n), Blank>>

\* Seeded fault: message_stop always closes the reply, also a second time.
AnthropicChunksClosingAgain(kind, n) ==
    CASE kind \in {"text", "mention"} -> <<Chunk("text", n), Blank>>
      [] kind \in {"marker", "stop"} -> <<Chunk("finish", n), Blank>>
      [] OTHER -> <<>>

\* Anthropic's message_stop closes a reply for which no stop_reason came.
AnthropicChunks(kind, n) ==
    CASE kind \in {"text", "mention"} -> <<Chunk("text", n), Blank>>
      [] kind = "marker" \/ (kind = "stop" /\ ~finished) -> <<Chunk("finish", n), Blank>>
      [] OTHER -> <<>>

\* Gemini's finishReason is noted, but no chunk tells the client of it.
GeminiChunks(kind, n) ==
    IF kind \in {"text", "mention", "marker"} THEN <<Chunk("text", n), Blank>> ELSE <<>>

\* The chunks that an event amounts to.
Translation(kind, n) ==
    CASE dialect = "openai" -> OpenAIChunks(kind, n)
      [] dialect = "anthropic" -> AnthropicChunks(kind, n)
      [] dialect = "gemini" -> GeminiChunks(kind, n)

\* What the platforms send, in which order: nothing but message_stop follows
\* the end marker.
MaySend(kind) ==
    /\ Len(received) < MaxEvents
    /\ kind = "stop" => dialect = "anthropic"
    /\ kind \in {"text", "mention", "marker"} => "marker" \notin Range(received)
    /\ "stop" \notin Range(received)

\* An event arrives whole, and its chunks reach the client.
Event(kind) ==
    /\ ending = "none"
    /\ MaySend(kind)
    /\ received' = Append(received, kind)
    /\ wire' = wire \o Translation(kind, Len(received) + 1)
    /\ finished' = (finished \/ Marks(kind))
    /\ UNCHANGED <<dialect, ending, outcome>>

\* The OpenAI connector looks at the error first, and classifies it.
OpenAIOutcome(how, done) ==
    IF how # "eof" THEN "classified" ELSE IF done THEN "ok" ELSE "truncated"

\* Seeded fault: a stream that ends without its marker counts as complete.
TranslatorOutcomeLenient(how, done) ==
    IF how = "eof" THEN "ok" ELSE IF done THEN "raw" ELSE "truncated"

\* The translators look at the flag first, and hand errors on as they are.
TranslatorOutcome(how, done) ==
    IF ~done THEN "truncated" ELSE IF how = "eof" THEN "ok" ELSE "raw"

Outcome(how, done) ==
    IF dialect = "openai" THEN OpenAIOutcome(how, done) ELSE TranslatorOutcome(how, done)

End(how, done) ==
    /\ ending' = how
    /\ finished' = done
    /\ outcome' = Outcome(how, done)
    /\ UNCHANGED dialect

\* The client does not take a chunk: the callback's error ends the stream.
\* Anthropic's flag is set after the write, the others' before it.
WriteFails(kind) ==
    /\ ending = "none"
    /\ MaySend(kind)
    /\ Translation(kind, Len(received) + 1) # <<>>
    /\ received' = Append(received, kind)
    /\ UNCHANGED wire
    /\ End("write", finished \/ (Marks(kind) /\ dialect # "anthropic"))

\* httpDo gets no answer: every connector returns its error as it is.
Unreachable ==
    /\ ending = "none"
    /\ received = <<>>
    /\ ending' = "unreachable"
    /\ outcome' = "raw"
    /\ UNCHANGED <<dialect, received, wire, finished>>

\* The upstream refuses the call: the status is only looked at by consumeSSE.
Refused ==
    /\ ending = "none"
    /\ received = <<>>
    /\ End("status", finished)
    /\ UNCHANGED <<received, wire>>

\* The stream ends between events, or it breaks off - by an error of the
\* connection, or because the client has left - inside a line: what has
\* arrived of the event is dropped.
StreamEnds(how) ==
    /\ ending = "none"
    /\ End(how, finished)
    /\ UNCHANGED <<received, wire>>

\* It ends inside an event: regularly, or, at the end of a line, by an error
\* that consumeSSE meets together with an empty line.  It hands on what there
\* is: without its blank line the event may still be readable, or be a
\* fragment, which OpenAI's clients get to see and the translators skip.
EndsInsideReadable(kind, how) ==
    /\ ending = "none"
    /\ MaySend(kind)
    /\ received' = Append(received, kind)
    /\ wire' = IF dialect = "openai"
               THEN Append(wire, Chunk(kind, Len(received) + 1))
               ELSE wire \o Translation(kind, Len(received) + 1)
    /\ End(how, finished \/ Marks(kind))

EndsInsideFragment(how) ==
    /\ ending = "none"
    /\ \/ /\ wire' = (IF dialect = "openai" THEN Append(wire, Chunk("fragment", 0)) ELSE wire)
          /\ End(how, finished)
       \/ dialect = "openai" /\ UNCHANGED wire /\ End("write", finished)
    /\ UNCHANGED received

StreamNext ==
    \/ \E kind \in EventKind :
          \/ Event(kind)
          \/ WriteFails(kind)
    \/ Unreachable
    \/ Refused
    \/ \E how \in {"eof", "broken", "canceled"} :
          \/ StreamEnds(how)
          \/ EndsInsideFragment(how)
          \/ \E kind \in EventKind : EndsInsideReadable(kind, how)

StreamSpec == StreamInit /\ [][StreamNext]_streamVars

-----------------------------------------------------------------------------
(* Properties.                                                              *)

StreamTypeOK ==
    /\ dialect \in Dialect
    /\ received \in Seq(EventKind)
    /\ wire \in Seq([kind : EventKind \cup {"finish", "fragment", "blank"},
                     of : 0..MaxEvents])
    /\ finished \in BOOLEAN
    /\ ending \in {"none", "eof", "broken", "canceled", "status", "write", "unreachable"}
    /\ outcome \in {"none", "ok", "truncated", "classified", "raw"}

\* A call counts as a success exactly if the stream ended regularly and the
\* end marker was in it - or, with OpenAI, a text that contains the marker's
\* characters, which the connector takes for it.
SuccessMeansComplete ==
    ending # "none" =>
        (outcome = "ok" <=> /\ ending = "eof"
                            /\ \E i \in DOMAIN received : Marks(received[i]))

\* What the client reads is the upstream's content: its texts in their order,
\* none left out or repeated, and every chunk closed by a blank line before
\* the next one; with Anthropic at most one chunk says that the reply ends.
Carries(kind) ==
    \/ kind \in {"text", "mention"}
    \/ kind = "marker" /\ dialect = "gemini"

IsText(chunk) == chunk.kind \in {"text", "mention"}

TextsOf(events) == InOrder({i \in DOMAIN events : Carries(events[i])})

ReadFrom(chunks) ==
    LET place == InOrder({j \in DOMAIN chunks : IsText(chunks[j])})
    IN  [k \in DOMAIN place |-> chunks[place[k]].of]

ClientReadsUpstream ==
    /\ IF ending = "write"
       THEN IsPrefix(ReadFrom(wire), TextsOf(received))
       ELSE ReadFrom(wire) = TextsOf(received)
    /\ \A i \in 1..(Len(wire) - 1) : wire[i] = Blank \/ wire[i + 1] = Blank
    /\ \A i, j \in DOMAIN wire :
          wire[i].kind = "finish" /\ wire[j].kind = "finish" => i = j
=============================================================================
