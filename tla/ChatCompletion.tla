--------------------------- MODULE ChatCompletion ---------------------------
(***************************************************************************)
(* One chat completion, from the scheduler's tokens to the client's text:  *)
(* publish of src/generation-scheduler.ts puts tokens on the request's     *)
(* queue, several at a time when drafts are accepted; the handler of       *)
(* src/openai-server.ts takes them one by one, feeds the output parser     *)
(* (src/chat-model-parser.ts, with GlmParser's tool calls), looks for stop *)
(* sequences and writes what the parser lets go; the client may leave at   *)
(* any time.  Streamed and whole answers are fed by the same events, so    *)
(* one run of the handler stands for both: sent is what the stream has     *)
(* been written, answer the message of the answer that is not streamed.    *)
(*                                                                         *)
(* A token is the bytes it stands for.  "L" and "C" are the lead and the   *)
(* continuation byte of one character, "M" the byte order mark a decoder   *)
(* drops at its start (and trim() drops as white space), "R" a replacement *)
(* character the model has written; another byte is a character.           *)
(***************************************************************************)
EXTENDS Integers, Sequences, SequencesExt

CONSTANTS Text,          \* ordinary tokens, by their bytes
          Prefix,        \* continue_final_message: tokens the answer continues
          Stops,         \* stopSequences, by their characters
          MaxTokens      \* maxTokens

\* Assumed by the module that gives the constants their values.
CompletionAssumption == MaxTokens \in Nat \ {0}

VARIABLES
  tokens,       \* createAsyncQueue: [items, ended \in {"open", "done", "error"}]
  count,        \* generatedTokenCount
  reason,       \* finishReason
  parser,       \* ChatModelParser with its IncrementalTokenDecoder
  ids,          \* generatedIds
  message,      \* generatedText, reasoningText and toolCalls
  sent,         \* the same, as the stream has been told
  destroyed,    \* res.destroyed
  pc,           \* handler: "submit", "loop", "done"
  answer,       \* how the response was ended
  start         \* history: the parser's state before the first token

scheduling == <<tokens, count, reason>>
output == <<parser, message, sent>>
vars == <<tokens, count, reason, parser, ids, message, sent, destroyed, pc, answer, start>>

ThinkStart == "<think>"
ThinkEnd == "</think>"
ToolStart == "<tool_call>"
ToolEnd == "</tool_call>"
Control == {ThinkStart, ThinkEnd, ToolStart, ToolEnd}
EOS == "<eos>"

\* A marker outside its place is text like any other.
Token == {[kind |-> marker, bytes |-> <<marker>>] : marker \in Control \cup {EOS}}
           \cup [kind : {"text"}, bytes : Text]

Silent == [reasoning |-> <<>>, content |-> <<>>, calls |-> <<>>]
Add(said, channel, text) == [said EXCEPT ![channel] = @ \o text]
-----------------------------------------------------------------------------
(* The tokenizer                                                         *)

\* decode: the bytes of the tokens together, up to a marker and after it, then
\* UTF-8.  A byte that is no part of a character becomes a replacement
\* character, shown as "?".
Decode(run) ==
  LET bytes == FlattenSeq([i \in DOMAIN run |-> run[i].bytes])
      Char(i) ==
        CASE bytes[i] = "M" /\ (i = 1 \/ bytes[i - 1] \in Control) -> <<>>
          [] bytes[i] = "L" -> IF i < Len(bytes) /\ bytes[i + 1] = "C" THEN <<"e">> ELSE <<"?">>
          [] bytes[i] = "C" -> IF i > 1 /\ bytes[i - 1] = "L" THEN <<>> ELSE <<"?">>
          [] bytes[i] = "R" -> <<"?">>
          [] OTHER -> <<bytes[i]>>
  IN FlattenSeq([i \in DOMAIN bytes |-> Char(i)])

\* What push lets go of a text: all but the replacement characters at its
\* end, which the next token may turn into a character.
Safe(text) ==
  LET kept == {n \in DOMAIN text : text[n] # "?"}
  IN SubSeq(text, 1, IF kept = {} THEN 0 ELSE CHOOSE n \in kept : \A m \in kept : m <= n)
-----------------------------------------------------------------------------
(* IncrementalTokenDecoder: the tokens it keeps, and what of their text has *)
(* been let go                                                              *)

Empty == [history |-> <<>>, emitted |-> <<>>]

Delta(decoder, text) == SubSeq(text, Len(LongestCommonPrefix({decoder.emitted, text})) + 1, Len(text))

\* Mutant: nothing is kept once a token has ended on a character.
CompactedToNothing(history, text) ==
  IF Safe(text) = text THEN Empty ELSE [history |-> history, emitted |-> Safe(text)]

\* canCompactHistory: the last token alone is kept, when its text is the end
\* of the text.  The other tokenizers keep all of it (Compacts in parser).
Compacted(history, text) ==
  LET last == Decode(<<Last(history)>>)
  IN IF Safe(text) = text /\ last # <<>> /\ ~Contains(last, "?") /\ IsSuffix(last, text)
     THEN [history |-> <<Last(history)>>, emitted |-> last]
     ELSE [history |-> history, emitted |-> Safe(text)]

Push(decoder, token, compacts) ==
  LET history == Append(decoder.history, token)
      text == Decode(history)
  IN [delta |-> Delta(decoder, Safe(text)),
      decoder |-> IF compacts THEN Compacted(history, text)
                  ELSE [history |-> history, emitted |-> Safe(text)]]

Flush(decoder) == Delta(decoder, Decode(decoder.history))
-----------------------------------------------------------------------------
(* ChatModelParser: a step is the parser after it and the event, if any  *)

NewParser(state, compacts) ==
  [state |-> state, decoder |-> Empty, tool |-> <<>>, compacts |-> compacts]

Event(type, text) == IF text = <<>> THEN <<>> ELSE <<[type |-> type, text |-> text]>>

\* parseToolCall of GlmParser: there is a name left when the text is trimmed.
ToolCall(raw) ==
  IF \E i \in DOMAIN raw : raw[i] # "M"
  THEN <<[type |-> "calls", text |-> raw]>>
  ELSE <<[type |-> "parse_error", text |-> raw]>>

FlushText(p, state) ==
  [parser |-> [p EXCEPT !.decoder = Empty, !.state = state], events |-> Event(p.state, Flush(p.decoder))]

After(marker) == CASE marker = ThinkStart -> "reasoning"
                   [] marker = ThinkEnd -> "content"
                   [] marker = ToolStart -> "tool"

OnToken(p, token) ==
  IF p.state = "tool"
  THEN IF token.kind = ToolEnd
       THEN [parser |-> [p EXCEPT !.tool = <<>>, !.state = "content"], events |-> ToolCall(Decode(p.tool))]
       ELSE [parser |-> [p EXCEPT !.tool = Append(@, token)], events |-> <<>>]
  ELSE IF token.kind \in Control \ {ToolEnd} THEN FlushText(p, After(token.kind))
  ELSE LET pushed == Push(p.decoder, token, p.compacts)
       IN [parser |-> [p EXCEPT !.decoder = pushed.decoder], events |-> Event(p.state, pushed.delta)]

Finish(p) ==
  IF p.state = "tool"
  THEN [parser |-> [p EXCEPT !.tool = <<>>, !.state = "content"],
        events |-> <<[type |-> "parse_error", text |-> Decode(p.tool)]>>]
  ELSE FlushText(p, p.state)

\* continueFrom: the events of the prefix are dropped.
ContinueFrom(p, prefix) ==
  LET Step(q, token) == OnToken(q, token).parser
      read == FoldLeft(Step, p, prefix)
  IN [read EXCEPT !.decoder = Empty]

\* processOutputEvents, and what writeEvents makes of the same events.
Said(said, events) ==
  LET Say(so, event) ==
        CASE event.type = "calls" -> [so EXCEPT !.calls = Append(@, event.text)]
          [] event.type = "parse_error" -> Add(so, "content", event.text)
          [] OTHER -> Add(so, event.type, event.text)
  IN FoldLeft(Say, said, events)
-----------------------------------------------------------------------------
(* The history the response is measured by: tokens split at the markers, *)
(* every run of text decoded as a whole                                  *)

Heard == [state |-> "content", run |-> <<>>, said |-> Silent]

\* The text of a run, its trailing fragments with it or not.
Voice(heard, text) ==
  IF heard.state = "tool" THEN heard.said ELSE Add(heard.said, heard.state, text)

Hear(heard, token) ==
  CASE heard.state = "tool" /\ token.kind = ToolEnd ->
         [state |-> "content", run |-> <<>>, said |-> Said(heard.said, ToolCall(Decode(heard.run)))]
    [] heard.state # "tool" /\ token.kind \in Control \ {ToolEnd} ->
         [state |-> After(token.kind), run |-> <<>>, said |-> Voice(heard, Decode(heard.run))]
    [] OTHER -> [heard EXCEPT !.run = Append(@, token)]

Hearing(generated) ==
  FoldLeft(Hear, [Heard EXCEPT !.state = start.state, !.run = start.tool],
           SelectSeq(generated, LAMBDA token : token.kind # EOS))

\* What may be said after these tokens while there may be more of them, and
\* what is said when there are no more.
Shown(generated) == LET heard == Hearing(generated) IN Voice(heard, Safe(Decode(heard.run)))
Whole(generated) ==
  LET heard == Hearing(generated)
  IN IF heard.state = "tool" THEN Add(heard.said, "content", Decode(heard.run))
     ELSE Voice(heard, Decode(heard.run))
-----------------------------------------------------------------------------
NoAnswer == [kind |-> "none", reason |-> "", said |-> Silent]

Init ==
  /\ tokens = [items |-> <<>>, ended |-> "open"]
  /\ count = 0
  /\ reason = "stop"
  /\ \E compacts \in BOOLEAN :
       \/ \E state \in {"reasoning", "content"} : parser = NewParser(state, compacts)
       \/ \E prefix \in Prefix : parser = ContinueFrom(NewParser("content", compacts), prefix)
  /\ ids = <<>>
  /\ message = Silent
  /\ sent = Silent
  /\ destroyed = FALSE
  /\ pc = "submit"
  /\ answer = NoAnswer
  /\ start = parser
-----------------------------------------------------------------------------
(* The scheduler                                                         *)

Ended(queue, how) == IF queue.ended = "open" THEN [queue EXCEPT !.ended = how] ELSE queue
Closed(queue) == [Ended(queue, "done") EXCEPT !.items = <<>>]

Verdict(token) == IF token.kind = EOS THEN "stop" ELSE "length"
Final(token, n) == token.kind = EOS \/ n >= MaxTokens

\* Mutant: the verdict is set before the token is offered.
OfferedVerdictFirst(request, token) ==
  LET n == request.count + 1
      queued == [request.tokens EXCEPT !.items = Append(@, token)]
      verdict == IF Final(token, n) THEN Verdict(token) ELSE request.reason
  IN IF request.tokens.ended # "open" THEN [request EXCEPT !.reason = verdict]
     ELSE [tokens |-> IF Final(token, n) THEN Ended(queued, "done") ELSE queued, count |-> n, reason |-> verdict]

\* One turn of publish's loop.
Offered(request, token) ==
  LET n == request.count + 1
      queued == [request.tokens EXCEPT !.items = Append(@, token)]
  IN IF request.tokens.ended # "open" THEN request
     ELSE IF Final(token, n) THEN [tokens |-> Ended(queued, "done"), count |-> n, reason |-> Verdict(token)]
     ELSE [tokens |-> queued, count |-> n, reason |-> request.reason]

\* A token of a step, also of one that was launched before the request was
\* ended.  The several tokens of a step are as many turns with nothing between.
Publish ==
  /\ pc # "submit"
  /\ \E token \in Token :
       LET request == Offered([tokens |-> tokens, count |-> count, reason |-> reason], token)
       IN tokens' = request.tokens /\ count' = request.count /\ reason' = request.reason
  /\ UNCHANGED <<output, ids, destroyed, pc, answer, start>>

\* A batch error, or shutdown.
Fail ==
  /\ pc # "submit"
  /\ tokens' = Ended(tokens, "error")
  /\ UNCHANGED <<output, count, reason, ids, destroyed, pc, answer, start>>
-----------------------------------------------------------------------------
(* The handler                                                           *)

\* The end of the handler: the answer, and closeTokens of the finally block.
Answer(kind, why, said) ==
  /\ answer' = IF destroyed THEN NoAnswer ELSE [kind |-> kind, reason |-> why, said |-> said]
  /\ pc' = "done"

Submit ==
  /\ pc = "submit"
  /\ \/ ~destroyed /\ pc' = "loop" /\ UNCHANGED <<tokens, answer>>
     \/ Answer("error", "", Silent) /\ tokens' = Closed(tokens)   \* destroyed, or the queue has ended
  /\ UNCHANGED <<output, count, reason, ids, destroyed, start>>

\* checkStopSequences: those of the list that are in the text.
StopFound(before, text) == SelectSeq(Stops, LAMBDA stop : stop \in SubSeqs(text))

CutAt(text, stop) ==
  LET found == {i \in 1..(Len(text) - Len(stop) + 1) : SubSeq(text, i, i + Len(stop) - 1) = stop}
  IN SubSeq(text, 1, (CHOOSE i \in found : \A j \in found : i <= j) - 1)

Read(token) ==
  LET step == OnToken(parser, token)
      events == IF token.kind = EOS THEN <<>> ELSE step.events
      said == Said(message, events)
      stops == StopFound(message.content, said.content)
  IN /\ ids' = Append(ids, token)
     /\ parser' = IF token.kind = EOS THEN parser ELSE step.parser
     /\ sent' = Said(sent, events)
     /\ IF stops = <<>>
        THEN message' = said /\ tokens' = [tokens EXCEPT !.items = Tail(@)] /\ UNCHANGED <<reason, pc>>
        ELSE /\ message' = [said EXCEPT !.content = CutAt(@, Head(stops))]
             /\ tokens' = Ended([tokens EXCEPT !.items = Tail(@)], "done")
             /\ reason' = "stop"
             /\ pc' = "leaving"

\* for await: what is queued comes first, also from a queue that has ended.
TakeToken ==
  /\ pc = "loop" /\ tokens.items # <<>>
  /\ IF destroyed
     THEN pc' = "leaving" /\ UNCHANGED <<tokens, reason, ids, output>>
     ELSE Read(Head(tokens.items))
  /\ UNCHANGED <<count, destroyed, answer, start>>

EndOfTokens ==
  /\ pc = "loop" /\ tokens.items = <<>> /\ tokens.ended # "open"
  /\ IF tokens.ended = "error"
     THEN Answer("error", "", Silent) /\ tokens' = Closed(tokens)
     ELSE pc' = "leaving" /\ UNCHANGED <<tokens, answer>>
  /\ UNCHANGED <<output, count, reason, ids, destroyed, start>>

\* finishResponse with finishOutput, once the iteration has been closed.
FinishResponse ==
  /\ pc = "leaving"
  /\ LET last == Finish(parser)
         said == Said(message, last.events)
         why == IF said.calls # <<>> THEN "tool_calls" ELSE reason
     IN IF destroyed
        THEN Answer("none", "", Silent) /\ UNCHANGED <<output, reason>>
        ELSE /\ Answer("ok", why, said)
             /\ parser' = last.parser
             /\ message' = said
             /\ sent' = Said(sent, last.events)
             /\ reason' = why
  /\ tokens' = Closed(tokens)
  /\ UNCHANGED <<count, ids, destroyed, start>>
-----------------------------------------------------------------------------
(* The client                                                            *)

Disconnect ==
  /\ pc # "done" /\ ~destroyed
  /\ destroyed' = TRUE
  /\ UNCHANGED <<scheduling, output, ids, pc, answer, start>>

\* res.once("close", closeTokens)
CloseEvent ==
  /\ destroyed /\ pc # "done"
  /\ tokens' = Closed(tokens)
  /\ UNCHANGED <<output, count, reason, ids, destroyed, pc, answer, start>>

Next == Publish \/ Fail \/ Submit \/ TakeToken \/ EndOfTokens \/ FinishResponse \/ Disconnect \/ CloseEvent

Spec == Init /\ [][Next]_vars
-----------------------------------------------------------------------------
\* The client hears the text of the tokens, and all of it but the fragments of
\* a character that may yet be completed: as if each run between two markers
\* had been decoded in one piece, although the decoder keeps one token of it;
\* and the answer that is not streamed is what the stream was told, up to the
\* stop sequence that was found (push, flush, onToken, finish, writeEvents).
TextWhole ==
  /\ sent = IF answer.kind = "ok" THEN Whole(ids) ELSE Shown(ids)
  /\ pc \in {"loop", "leaving"} =>
       \/ message = sent
       \/ \E k \in DOMAIN Stops : /\ Stops[k] \in SubSeqs(sent.content)
                                 /\ message = [sent EXCEPT !.content = CutAt(@, Stops[k])]

\* The handler asks for another token only while the text it has been given
\* holds no stop sequence, one that several tokens or a flushed fragment have
\* completed among them (checkStopSequences).
StopsInTime == pc = "loop" => \A k \in DOMAIN Stops : Stops[k] \notin SubSeqs(Shown(ids).content)

\* finish_reason tells why the text ended, whatever the scheduler publishes
\* while the handler is behind it: "length" only for an answer of maxTokens
\* tokens with no EOS and no stop sequence, "stop" only after one of them
\* (publish against checkStopSequences and finishOutput).
ReasonTrue ==
  answer.kind = "ok" =>
    LET stopped == \E k \in DOMAIN Stops : Stops[k] \in SubSeqs(Shown(ids).content)
        eos == ids # <<>> /\ Last(ids).kind = EOS
        whole == Len(ids) = MaxTokens /\ ~eos /\ ~stopped
    IN /\ (answer.reason = "tool_calls") <=> (answer.said.calls # <<>>)
       /\ answer.reason = "length" => whole
       /\ answer.reason = "stop" => eos \/ stopped
=============================================================================
