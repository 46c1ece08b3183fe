-------------------------------- MODULE Stream --------------------------------
(***************************************************************************)
(* One streamed call: from the upstream's lines, through an adapter, the   *)
(* failover loop of RelayStream and one of three writers, to the client and*)
(* to the bill.                                                            *)
(*                                                                         *)
(* The adapters differ.  OpenAI passes lines on as they arrive.  Claude,   *)
(* Codex and Antigravity read the whole answer first and then write it as  *)
(* one frame and [DONE]; the mock writes three frames.  The writers differ *)
(* too: a chat client gets the adapter's bytes, while the Anthropic and the*)
(* Responses writers translate whole lines into events of their protocol,  *)
(* and say that they wrote a line even when it became no event.            *)
(*                                                                         *)
(* A line is known by what the readers and writers look for in it.  Which  *)
(* account and which model an attempt takes is the subject of Relay.       *)
(***************************************************************************)
EXTENDS Integers, Sequences, FiniteSets

CONSTANTS
    Formats,       \* what clients ask for, among AllFormats
    Adapters,      \* the providers of the pool, among AllAdapters
    MaxAttempts,
    MaxText,       \* bound: frames with text in one answer
    MaxOther,      \* bound: frames of each kind without text that a client gets
    Usage,         \* the token count a provider reports
    Broken         \* the nominal cost of a broken stream

AllFormats  == {"chat", "anthropic", "responses"}
AllAdapters == {"openai", "claude", "codex", "antigravity", "mock"}

ASSUME StreamAssumption ==
    /\ Formats \subseteq AllFormats /\ Adapters \subseteq AllAdapters
    /\ {MaxAttempts, MaxText, MaxOther, Broken} \subseteq Nat /\ Usage \in Nat \ {0}

VARIABLES
    format,     \* chat completions, or one of the two translated protocols
    pc,
    attempt,    \* attempts that found an account
    adapter,    \* the provider of this attempt's account
    text,       \* text read in this attempt, in frames
    usage,      \* tokens reported in this attempt
    ended,      \* the upstream said in this attempt that its answer is complete
    firstByte,  \* firstByte of the adapter
    todo,       \* frames an adapter that has the whole answer still writes
    writer,     \* the writer: started, closed, and an unfinished line in its way
    sent,       \* what the client got: a sequence of Event
    gone,       \* the client's connection is broken
    outcome,    \* what RelayStream returned
    cost,       \* what is billed, in tokens or as the nominal cost
    torn,       \* history: a line was cut in the middle
    faulted     \* history: the upstream reported an error in a line of its answer

vars == <<format, pc, attempt, adapter, text, usage, ended, firstByte, todo,
          writer, sent, gone, outcome, cost, torn, faulted>>

Event == [ev : {"start", "text", "other", "done", "error", "garbage"}, by : 0..MaxAttempts]

Count(ev) == Cardinality({i \in DOMAIN sent : sent[i].ev = ev})

Whole == {"claude", "codex", "antigravity"}

\* A frame with text, one without (usage, a comment, a blank line), [DONE], and
\* a frame with an error object.
Lines == {"text", "other", "done", "error"}

-----------------------------------------------------------------------------
\* The writers

\* What one complete line becomes at the client.
Events(line) ==
    LET open == IF writer.started THEN <<>> ELSE <<"start">>
    IN  CASE format = "chat" -> IF writer.torn THEN <<"garbage">> ELSE <<line>>
          [] format # "chat" /\ (writer.torn \/ writer.closed)  -> <<>>
          [] OTHER -> CASE line = "text"  -> open \o <<"text">>
                        [] line = "done"  -> open \o <<"done">>
                        [] line = "error" -> <<"error">>
                        [] OTHER          -> <<>>

\* started and closed are marks of the translating writers.
WriterAfter(line) ==
    LET seen == format # "chat" /\ ~ writer.torn /\ ~ writer.closed
    IN  [started |-> writer.started \/ (seen /\ line \in {"text", "done", "error"}),
         closed  |-> writer.closed \/ (seen /\ line \in {"done", "error"}),
         torn    |-> FALSE]

Stamped(evs) == [i \in DOMAIN evs |-> [ev |-> evs[i], by |-> attempt]]

\* A complete line is written and reaches the client, unless it is gone.
\* A write that makes no event cannot fail.
WriteOK(line) ==
    /\ ~ gone \/ Events(line) = <<>>
    /\ sent' = sent \o Stamped(Events(line))
    /\ writer' = WriterAfter(line)
    /\ UNCHANGED gone

WriteFails(line) ==
    /\ Events(line) # <<>>
    /\ gone' = TRUE
    /\ writer' = WriterAfter(line)
    /\ UNCHANGED sent

\* writeStreamError: the error of the write is ignored.  The line it writes
\* begins where the last one ended, even in the middle.
WriteErrorClosed ==
    /\ sent' = IF gone THEN sent ELSE sent \o Stamped(<<"error">> \o <<"done">>)
    /\ writer' = WriterAfter("error")
    /\ UNCHANGED gone

WriteError ==
    /\ sent' = IF gone THEN sent ELSE sent \o Stamped(Events("error"))
    /\ writer' = WriterAfter("error")
    /\ UNCHANGED gone

-----------------------------------------------------------------------------
\* RelayStream

PickOneMore(a) ==
    /\ pc = "pick" /\ attempt <= MaxAttempts
    /\ attempt' = attempt + 1
    /\ adapter' = a
    /\ pc' = "connect"
    /\ text' = 0 /\ usage' = 0 /\ ended' = FALSE /\ firstByte' = FALSE /\ todo' = 0
    /\ UNCHANGED <<format, writer, sent, gone, outcome, cost, torn, faulted>>

\* StreamUpstream on the account of the next attempt.
Pick(a) ==
    /\ pc = "pick" /\ attempt < MaxAttempts
    /\ attempt' = attempt + 1
    /\ adapter' = a
    /\ pc' = "connect"
    /\ text' = 0 /\ usage' = 0 /\ ended' = FALSE /\ firstByte' = FALSE /\ todo' = 0
    /\ UNCHANGED <<format, writer, sent, gone, outcome, cost, torn, faulted>>

\* No attempt is left, or no account for those that are.  The handler answers
\* 503 and bills nothing.
GiveUp ==
    /\ pc = "pick"
    /\ pc' = "end" /\ outcome' = "failed"
    /\ UNCHANGED <<format, attempt, adapter, text, usage, ended, firstByte, todo,
                   writer, sent, gone, cost, torn, faulted>>

\* The adapter returns an error before the first byte: the next account.
NextAttempt ==
    /\ pc' = "pick"
    /\ UNCHANGED <<outcome, cost>>

\* The adapter returns an error after it: the client is told, and the call is
\* settled as broken at the nominal cost.
CutOff ==
    /\ pc' = "cut"
    /\ UNCHANGED <<outcome, cost>>

ReturnsToRetry(sentFirst) == NextAttempt

Returns(sentFirst) == IF sentFirst THEN CutOff ELSE NextAttempt

ReportCut ==
    /\ pc = "cut"
    /\ WriteError
    /\ pc' = "end" /\ outcome' = "broken" /\ cost' = Broken
    /\ UNCHANGED <<format, attempt, adapter, text, usage, ended, firstByte, todo, torn, faulted>>

\* The adapter returns tokens: the handler bills them.  A Result of a stream
\* has no Text to fall back on.
Succeed(tokens) ==
    /\ pc' = "end" /\ outcome' = "ok" /\ cost' = tokens

-----------------------------------------------------------------------------
\* The upstream answers

\* An error of the connection, a status of 300 or more, no credentials, ...
Refused ==
    /\ pc = "connect"
    /\ NextAttempt
    /\ UNCHANGED <<format, attempt, adapter, text, usage, ended, firstByte, todo,
                   writer, sent, gone, torn, faulted>>

Connected ==
    /\ pc = "connect"
    /\ pc' = IF adapter \in {"claude", "mock"} THEN "answer" ELSE "read"
    /\ UNCHANGED <<format, attempt, adapter, text, usage, ended, firstByte, todo,
                   writer, sent, gone, outcome, cost, torn, faulted>>

BillableTokensWithoutText == usage
BillableTokens == IF usage > 0 THEN usage ELSE text

\* openAIProvider.Stream: a line is passed on, then looked at, for text, usage
\* and [DONE].  An error in it is the upstream's own; it goes unnoticed here,
\* while a translating writer closes on it.
Line(line) ==
    /\ pc = "read" /\ adapter = "openai" /\ ~ ended
    /\ text < MaxText \/ line # "text"
    /\ Count(line) < MaxOther \/ line \notin {"other", "error"}
    /\ text'  = IF line = "text" THEN text + 1 ELSE text
    /\ usage' \in IF line = "other" THEN {usage, Usage} ELSE {usage}
    /\ ended' = (line = "done")
    /\ firstByte' = TRUE
    /\ faulted' = (faulted \/ line = "error")
    /\ WriteOK(line)
    /\ UNCHANGED <<format, pc, attempt, adapter, todo, outcome, cost, torn>>

\* The line cannot be written.  A chat connection may have taken a part of
\* it; a translating writer always claims the whole line.
LineFails(line) ==
    /\ pc = "read" /\ adapter = "openai" /\ ~ ended
    /\ WriteFails(line)
    /\ firstByte' \in IF format = "chat" THEN {firstByte, TRUE} ELSE {TRUE}
    /\ Returns(firstByte')
    /\ UNCHANGED <<format, attempt, adapter, text, usage, ended, todo, torn, faulted>>

\* The answer's last piece has no newline: it is written like a line, and
\* [DONE] is recognised in it.
Piece(piece) ==
    IF piece = "none" THEN UNCHANGED <<sent, writer, torn, ended>>
    ELSE /\ ~ ended
         /\ ~ gone
         /\ writer' = [writer EXCEPT !.torn = TRUE]
         /\ ended' = (piece = "done")
         /\ torn' = TRUE
         /\ UNCHANGED sent

EndOfAnswerUnchecked(piece, reset) ==
    /\ pc = "read" /\ adapter = "openai"
    /\ Piece(piece)
    /\ firstByte' = (firstByte \/ piece # "none")
    /\ IF firstByte' /\ ~ reset THEN Succeed(BillableTokens) ELSE Returns(firstByte')
    /\ UNCHANGED <<format, attempt, adapter, text, usage, todo, gone, faulted>>

\* The connection ends.  Only an end after [DONE] is a success; a reset never
\* is, not even then.
EndOfAnswer(piece, reset) ==
    /\ pc = "read" /\ adapter = "openai"
    /\ Piece(piece)
    /\ firstByte' = (firstByte \/ piece # "none")
    /\ IF firstByte' /\ ended' /\ ~ reset THEN Succeed(BillableTokens)
       ELSE Returns(firstByte')
    /\ UNCHANGED <<format, attempt, adapter, text, usage, todo, gone, faulted>>

\* readCodexSSE and readAntigravitySSE collect text and usage.  The text of
\* response.completed counts when no delta came.
Collect(what) ==
    /\ pc = "read" /\ adapter \in {"codex", "antigravity"} /\ ~ ended
    /\ \/ what = "text" /\ text < MaxText /\ text' = text + 1 /\ UNCHANGED <<usage, ended>>
       \/ what = "usage" /\ adapter = "antigravity" /\ usage' = Usage /\ UNCHANGED <<text, ended>>
       \/ /\ what = "completed" /\ adapter = "codex"
          /\ ended' = TRUE /\ usage' \in {usage, Usage}
          /\ text' \in IF text = 0 THEN {0, 1} ELSE {text}
    /\ UNCHANGED <<format, pc, attempt, adapter, firstByte, todo, writer, sent, gone,
                   outcome, cost, torn, faulted>>

\* Its end: a clean one is a success when there is text, an error event or a
\* reset counts as an error after the first byte when there is.
Collected(clean) ==
    /\ pc = "read" /\ adapter \in {"codex", "antigravity"}
    /\ IF clean /\ text > 0 THEN pc' = "write" /\ todo' = 1 /\ UNCHANGED <<outcome, cost>>
       ELSE todo' = todo /\ Returns(~ clean /\ text > 0)
    /\ UNCHANGED <<format, attempt, adapter, text, usage, ended, firstByte, writer,
                   sent, gone, torn, faulted>>

\* claudeProvider.Call and mockProvider.Call decode one document.  Cut short,
\* it counts as an error after the first byte; empty, as one before.
Answer(kind) ==
    /\ pc = "answer"
    /\ CASE kind = "good" ->
              /\ pc' = "write" /\ todo' = (IF adapter = "mock" THEN 3 ELSE 1)
              /\ text' = todo' /\ ended' = TRUE
              /\ usage' \in IF adapter = "mock" THEN {0} ELSE {0, Usage}
              /\ UNCHANGED <<outcome, cost>>
         [] kind = "cut"   -> CutOff /\ UNCHANGED <<todo, text, ended, usage>>
         [] kind = "empty" -> /\ adapter # "mock"
                              /\ NextAttempt /\ UNCHANGED <<todo, text, ended, usage>>
    /\ UNCHANGED <<format, attempt, adapter, firstByte, writer, sent, gone, torn, faulted>>

\* The frames of a whole answer, then [DONE], then success.
WriteFrame ==
    /\ pc = "write" /\ todo > 0
    /\ todo' = todo - 1 /\ firstByte' = TRUE
    /\ WriteOK("text")
    /\ UNCHANGED <<format, pc, attempt, adapter, text, usage, ended, outcome, cost, torn, faulted>>

\* The mock knows whether a frame went out before; the others say no.
WriteFrameFails ==
    /\ pc = "write" /\ todo > 0
    /\ WriteFails("text")
    /\ Returns(adapter = "mock" /\ firstByte)
    /\ UNCHANGED <<format, attempt, adapter, text, usage, ended, firstByte, todo, torn, faulted>>

WriteDone ==
    /\ pc = "write" /\ todo = 0
    /\ \/ WriteOK("done") /\ Succeed(usage)
       \/ /\ WriteFails("done")
          /\ IF adapter = "mock" THEN Succeed(usage) ELSE CutOff
    /\ UNCHANGED <<format, attempt, adapter, text, usage, ended, firstByte, todo, torn, faulted>>

ClientLeaves ==
    /\ pc # "end" /\ ~ gone
    /\ gone' = TRUE
    /\ UNCHANGED <<format, pc, attempt, adapter, text, usage, ended, firstByte, todo,
                   writer, sent, outcome, cost, torn, faulted>>

-----------------------------------------------------------------------------
Init ==
    /\ format \in Formats
    /\ pc = "pick" /\ attempt = 0 /\ adapter \in Adapters
    /\ text = 0 /\ usage = 0 /\ ended = FALSE /\ firstByte = FALSE /\ todo = 0
    /\ writer = [started |-> FALSE, closed |-> FALSE, torn |-> FALSE]
    /\ sent = <<>> /\ gone = FALSE
    /\ outcome = "none" /\ cost = 0 /\ torn = FALSE /\ faulted = FALSE

Next ==
    \/ \E a \in Adapters : Pick(a)
    \/ GiveUp \/ Refused \/ Connected \/ ReportCut \/ ClientLeaves
    \/ \E line \in Lines : Line(line) \/ LineFails(line)
    \/ \E piece \in {"none", "text", "done"}, reset \in BOOLEAN : EndOfAnswer(piece, reset)
    \/ \E what \in {"text", "usage", "completed"} : Collect(what)
    \/ \E clean \in BOOLEAN : Collected(clean)
    \/ \E kind \in {"good", "cut", "empty"} : Answer(kind)
    \/ WriteFrame \/ WriteFrameFails \/ WriteDone

Spec == Init /\ [][Next]_vars

-----------------------------------------------------------------------------
\* Every variable is of its type; an answer is billed only once it ended.
TypeOK ==
    /\ format \in Formats /\ adapter \in Adapters
    /\ pc \in {"pick", "connect", "read", "answer", "write", "cut", "end"}
    /\ attempt \in 0..MaxAttempts /\ text \in 0..(MaxText + 3) /\ todo \in 0..3
    /\ usage \in {0, Usage} /\ cost \in Nat
    /\ {ended, firstByte, gone, torn, faulted} \subseteq BOOLEAN
    /\ writer \in [started : BOOLEAN, closed : BOOLEAN, torn : BOOLEAN]
    /\ sent \in Seq(Event)
    /\ outcome \in {"none", "ok", "broken", "failed"}
    /\ outcome \in {"none", "failed"} => cost = 0

LastEvent == sent[Len(sent)].ev

\* First-byte failover: whatever reached the client came from one account.
\* Once something did, no other account is asked on behalf of this client,
\* and a call answered 503 has shown it nothing.
OneSource ==
    /\ \A i, j \in DOMAIN sent : sent[i].by = sent[j].by
    /\ sent # <<>> => pc # "pick" /\ sent[1].by = attempt
    /\ outcome = "failed" => sent = <<>>

\* A call billed as a success has shown the client all the text that was
\* read and then, once and last, the mark of completion, and an error if and
\* only if the upstream put one into its answer.  In that case a translating
\* writer has closed and the rest, the mark included, is lost to the client:
\* see UnfinishedIsBroken.
SuccessIsWhole ==
    outcome = "ok" /\ ~ gone /\ ~ torn =>
        /\ Count("error") > 0 <=> faulted
        /\ format = "chat" \/ ~ faulted =>
              /\ Count("text") = IF adapter \in Whole THEN 1 ELSE text
              /\ Count("done") = 1 /\ LastEvent = "done"

\* A cut stream is "frames, then an error frame, then nothing": the client of
\* a broken stream sees the error last and no mark of completion, if the
\* upstream was cut between two lines and before its own [DONE].  It sees one
\* error; only a chat client also gets those the upstream put into its answer.
CutIsShown ==
    outcome = "broken" /\ ~ gone /\ ~ torn /\ ~ ended =>
        /\ LastEvent = "error" /\ Count("done") = 0
        /\ Count("error") = 1 \/ (format = "chat" /\ faulted)

\* Text that was delivered is billed, also when the provider reported no
\* usage: by its length.  For the adapters that read the whole answer this
\* holds only if usage was reported.
DeliveredIsBilled ==
    outcome = "ok" /\ Count("text") > 0 /\ (adapter = "openai" \/ usage > 0) => cost > 0

\* The comment of writeStreamError: what a client of a broken stream gets is
\* a well-formed error frame, and not [DONE].
BrokenIsShown ==
    outcome = "broken" /\ ~ gone => LastEvent = "error" /\ Count("done") = 0

\* The README on broken streams: the missing mark of completion is the sign
\* that a stream did not finish.  So a client that was shown something, but not
\* the mark, is not billed for a success; lines cut in the middle are left out.
UnfinishedIsBroken ==
    outcome # "none" /\ sent # <<>> /\ Count("done") = 0 /\ ~ gone /\ ~ torn =>
        outcome = "broken"
=============================================================================
