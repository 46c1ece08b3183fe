---------------------------- MODULE StreamProofs ----------------------------
(* Theorems about one streamed call, for any formats and adapters of the     *)
(* program, any number of attempts and any length of the upstream's answers. *)
EXTENDS Stream, SequenceTheorems, FiniteSetTheorems, TLAPS

-----------------------------------------------------------------------------
\* The inductive invariant

Reading == pc = "read" /\ adapter = "openai"

Typed == TypeOK /\ (pc = "end" <=> outcome # "none")

\* Output is of the attempt at work.  Where the next account may still be
\* asked, there is none: the OpenAI adapter has its first byte, and the others
\* write when they have the whole answer.
SourceInv ==
    /\ \A i \in DOMAIN sent : sent[i].by = attempt
    /\ sent # <<>> => \/ Reading /\ firstByte
                      \/ pc = "write" /\ (firstByte \/ todo = 0)
                      \/ pc = "cut"
                      \/ pc = "end" /\ outcome \in {"ok", "broken"}
    /\ pc = "answer" => adapter # "openai"
    /\ pc = "write" => adapter # "openai" /\ (adapter = "mock" => text = 3)
    /\ pc = "write" /\ adapter # "mock" => todo <= 1 /\ (todo = 1 => sent = <<>>)

\* As long as the client is there and no line was cut, it has seen what was
\* read and no more, and the writer is where the client believes it is.  After
\* an error of the upstream a translating writer shows it nothing else.
Cropped == faulted /\ format # "chat"

Orderly ==
    /\ ~ writer.torn
    /\ sent = <<>> => ~ writer.started /\ ~ writer.closed /\ ~ faulted
    /\ Cropped => /\ writer.closed /\ LastEvent = "error"
                  /\ Count("error") = 1 /\ Count("done") = 0

Clean ==
    /\ Orderly
    /\ pc = "connect" => text = 0 /\ ~ ended
    /\ Reading =>
          /\ Count("error") > 0 <=> faulted
          /\ ~ Cropped => /\ Count("text") = text
                          /\ Count("done") = IF ended THEN 1 ELSE 0
                          /\ ended => sent # <<>> /\ LastEvent = "done"
          /\ writer.closed <=> (ended \/ faulted) /\ format # "chat"
    /\ pc = "write" =>
          /\ Count("text") = (IF adapter = "mock" THEN 3 ELSE 1) - todo
          /\ Count("done") = 0 /\ Count("error") = 0 /\ ~ writer.closed /\ ~ faulted
    /\ pc = "cut" /\ ~ ended =>
          /\ Count("done") = 0 /\ (writer.closed <=> Cropped)
          /\ ~ faulted => Count("error") = 0
    /\ SuccessIsWhole /\ CutIsShown

CleanInv == ~ gone /\ ~ torn => Clean

\* Text that reached the client was read in this attempt.
BillInv ==
    /\ Reading => Count("text") <= text
    /\ DeliveredIsBilled

Inv == Typed /\ SourceInv /\ CleanInv /\ BillInv

-----------------------------------------------------------------------------
\* What one line adds to what the client got

Kinds == {"start", "text", "other", "done", "error", "garbage"}

\* Count(ev) is Many(sent, ev).
Places(s, ev) == {i \in DOMAIN s : s[i].ev = ev}
Many(s, ev)   == Cardinality(Places(s, ev))
One(b)        == IF b THEN 1 ELSE 0

LEMMA ManyType ==
  ASSUME NEW s \in Seq(Event), NEW ev
  PROVE  IsFiniteSet(Places(s, ev)) /\ Many(s, ev) \in Nat
<1>1. Len(s) \in Nat /\ DOMAIN s = 1 .. Len(s)
  BY LenProperties
<1>2. IsFiniteSet(1 .. Len(s)) /\ Places(s, ev) \subseteq 1 .. Len(s)
  BY <1>1, FS_Interval DEF Places
<1> QED  BY <1>2, FS_Subset, FS_CardinalityType DEF Many

LEMMA ManyEmpty == \A ev : Many(<<>>, ev) = 0
<1>1. \A ev : Places(<<>>, ev) = {}
  BY DEF Places
<1> QED  BY <1>1, FS_EmptySet DEF Many

\* One more event counts for its kind and for no other.
LEMMA ManyAppend ==
  ASSUME NEW s \in Seq(Event), NEW e \in Event, NEW ev
  PROVE  Many(Append(s, e), ev) = Many(s, ev) + One(e.ev = ev)
<1> DEFINE t == Append(s, e)
           n == Len(s) + 1
<1>1. /\ t \in Seq(Event) /\ Len(t) = n /\ t[n] = e
      /\ \A i \in 1 .. Len(s) : t[i] = s[i]
  BY AppendProperties
<1>2. /\ DOMAIN s = 1 .. Len(s) /\ DOMAIN t = 1 .. n /\ Len(s) \in Nat
  BY <1>1, LenProperties
<1> HIDE DEF t
<1>3. n \notin Places(s, ev)
  BY <1>2 DEF Places
<1>4. IsFiniteSet(Places(s, ev)) /\ Many(s, ev) \in Nat
  BY ManyType
<1>5. CASE e.ev = ev
  <2>1. Places(t, ev) = Places(s, ev) \cup {n}
    BY <1>1, <1>2, <1>5 DEF Places
  <2>2. Many(t, ev) = Many(s, ev) + 1
    BY <1>3, <1>4, <2>1, FS_AddElement DEF Many
  <2> QED  BY <1>5, <2>2 DEF One, t
<1>6. CASE e.ev # ev
  <2>1. Places(t, ev) = Places(s, ev)
    BY <1>1, <1>2, <1>6 DEF Places
  <2> QED  BY <1>4, <1>6, <2>1 DEF One, t, Many
<1> QED  BY <1>5, <1>6

\* Two sequences of one element each make one of two.
LEMMA PairOf ==
  ASSUME NEW S, NEW a \in S, NEW b \in S
  PROVE  <<a>> \o <<b>> = <<a, b>>
<1>1. <<a>> \in Seq(S) /\ <<b>> \in Seq(S) /\ <<a, b>> \in Seq(S)
  OBVIOUS
<1>2. /\ Len(<<a>>) = 1 /\ Len(<<b>>) = 1 /\ Len(<<a, b>>) = 2
      /\ <<a>>[1] = a /\ <<b>>[1] = b /\ <<a, b>>[1] = a /\ <<a, b>>[2] = b
  OBVIOUS
<1>3. /\ <<a>> \o <<b>> \in Seq(S) /\ Len(<<a>> \o <<b>>) = 2
      /\ (<<a>> \o <<b>>)[1] = a /\ (<<a>> \o <<b>>)[2] = b
  BY <1>1, <1>2, ConcatProperties
<1>4. \A i \in 1 .. 2 : (<<a>> \o <<b>>)[i] = <<a, b>>[i]
  <2> SUFFICES ASSUME NEW i \in 1 .. 2 PROVE (<<a>> \o <<b>>)[i] = <<a, b>>[i]
    OBVIOUS
  <2>1. i = 1 \/ i = 2
    OBVIOUS
  <2> QED  BY <1>2, <1>3, <2>1
<1> QED  BY <1>1, <1>2, <1>3, <1>4, SeqEqual

By(e) == [ev |-> e, by |-> attempt]

\* Events are stamped with the attempt and put after what was sent before.
LEMMA StampedEvents ==
  ASSUME sent \in Seq(Event), attempt \in 0 .. MaxAttempts, NEW e \in Kinds, NEW f \in Kinds
  PROVE  /\ By(e) \in Event
         /\ sent \o Stamped(<<>>) = sent
         /\ sent \o Stamped(<<e>>) = Append(sent, By(e))
         /\ sent \o Stamped(<<e, f>>) = Append(Append(sent, By(e)), By(f))
<1>1. By(e) \in Event /\ By(f) \in Event
  BY DEF By, Event, Kinds
<1>2. Stamped(<<>>) = <<>> /\ Stamped(<<e>>) = <<By(e)>> /\ Stamped(<<e, f>>) = <<By(e), By(f)>>
  BY DEF Stamped, By
<1>3. sent \o <<>> = sent
  BY ConcatEmptySeq
<1>4. Append(sent, By(e)) = sent \o <<By(e)>> /\ Append(sent, By(e)) \in Seq(Event)
  BY <1>1, AppendIsConcat, AppendProperties
<1>5. Append(Append(sent, By(e)), By(f)) = (sent \o <<By(e)>>) \o <<By(f)>>
  BY <1>1, <1>4, AppendIsConcat
<1>6. <<By(e)>> \o <<By(f)>> = <<By(e), By(f)>>
  BY <1>1, PairOf
<1>7. (sent \o <<By(e)>>) \o <<By(f)>> = sent \o <<By(e), By(f)>>
  BY <1>1, <1>6, ConcatAssociative
<1> QED  BY <1>1, <1>2, <1>3, <1>4, <1>5, <1>7

\* What a line becomes: nothing, an event, or the first event and its own.
LEMMA EventsOfLine ==
  ASSUME NEW line \in Lines
  PROVE  /\ format = "chat" => Events(line) = IF writer.torn THEN <<"garbage">> ELSE <<line>>
         /\ format # "chat" /\ (writer.torn \/ writer.closed \/ line = "other") => Events(line) = <<>>
         /\ format # "chat" /\ ~ writer.torn /\ ~ writer.closed /\ line # "other" =>
               Events(line) = IF writer.started \/ line = "error" THEN <<line>> ELSE <<"start", line>>
<1>1. <<>> \o <<"text">> = <<"text">> /\ <<>> \o <<"done">> = <<"done">>
  BY ConcatEmptySeq
<1>2. "start" \in Kinds /\ "text" \in Kinds /\ "done" \in Kinds
  BY DEF Kinds
<1>3. <<"start">> \o <<"text">> = <<"start", "text">>
  BY <1>2, PairOf
<1>4. <<"start">> \o <<"done">> = <<"start", "done">>
  BY <1>2, PairOf
<1> QED  BY <1>1, <1>3, <1>4 DEF Events, Lines

\* One more event of this attempt.
LEMMA OneMore ==
  ASSUME NEW s \in Seq(Event), NEW n \in 0 .. MaxAttempts, NEW e \in Kinds
  PROVE  LET t == Append(s, [ev |-> e, by |-> n])
         IN  /\ t \in Seq(Event) /\ t # <<>> /\ t[Len(t)].ev = e
             /\ (\A i \in DOMAIN s : s[i].by = n) => \A i \in DOMAIN t : t[i].by = n
             /\ \A ev : Many(t, ev) = Many(s, ev) + One(ev = e)
<1> DEFINE r == [ev |-> e, by |-> n]
           t == Append(s, r)
<1>1. r \in Event
  BY DEF Event, Kinds
<1>2. /\ t \in Seq(Event) /\ t # <<>> /\ Len(t) = Len(s) + 1
      /\ \A i \in 1 .. Len(s) : t[i] = s[i]
      /\ t[Len(s) + 1] = r
  BY <1>1, AppendProperties
<1>3. DOMAIN s = 1 .. Len(s) /\ DOMAIN t = 1 .. Len(t) /\ Len(s) \in Nat
  BY <1>2, LenProperties
<1>4. \A ev : Many(t, ev) = Many(s, ev) + One(ev = e)
  BY <1>1, ManyAppend DEF One
<1> HIDE DEF t
<1>5. ASSUME \A i \in DOMAIN s : s[i].by = n PROVE \A i \in DOMAIN t : t[i].by = n
  BY <1>2, <1>3, <1>5
<1>6. t[Len(t)].ev = e
  BY <1>2
<1> QED  BY <1>2, <1>4, <1>5, <1>6 DEF t

\* What the client has after a line was written.
LEMMA Written ==
  ASSUME TypeOK, NEW line \in Lines, sent' = sent \o Stamped(Events(line))
  PROVE  /\ sent' \in Seq(Event)
         /\ (\A i \in DOMAIN sent : sent[i].by = attempt) => \A i \in DOMAIN sent' : sent'[i].by = attempt
         /\ Events(line) = <<>> => sent' = sent
         /\ Events(line) # <<>> =>
               sent' # <<>> /\ (~ writer.torn => sent'[Len(sent')].ev = line)
         /\ \A ev \in {"text", "done", "error"} :
               Many(sent', ev) = Many(sent, ev)
                                   + One(ev = line /\ ~ writer.torn /\ Events(line) # <<>>)
<1>1. /\ sent \in Seq(Event) /\ attempt \in 0 .. MaxAttempts
      /\ line \in Kinds /\ "garbage" \in Kinds /\ "start" \in Kinds
  BY DEF TypeOK, Kinds, Lines
<1>2. \A ev : Many(sent, ev) \in Nat
  BY <1>1, ManyType
<1> DEFINE shown == ~ writer.torn /\ Events(line) # <<>>
           ours(s)  == \A i \in DOMAIN s : s[i].by = attempt
<1>3. CASE Events(line) = <<>>
  <2>1. sent' = sent
    BY <1>1, <1>3, StampedEvents
  <2>2. \A ev : Many(sent, ev) = Many(sent, ev) + One(ev = line /\ shown)
    BY <1>2, <1>3 DEF One
  <2> QED  BY <1>1, <1>3, <2>1, <2>2
<1>4. CASE format = "chat" /\ writer.torn
  <2>1. Events(line) = <<"garbage">>
    BY <1>4, EventsOfLine
  <2>2. sent' = Append(sent, By("garbage"))
    BY <1>1, <2>1, StampedEvents
  <2>3. /\ sent' \in Seq(Event) /\ sent' # <<>> /\ (ours(sent) => ours(sent'))
        /\ \A ev : Many(sent', ev) = Many(sent, ev) + One(ev = "garbage")
    BY <1>1, <2>2, OneMore DEF By
  <2>4. \A ev \in {"text", "done", "error"} : One(ev = "garbage") = One(ev = line /\ shown)
    BY <1>4 DEF One
  <2>5. Events(line) # <<>>
    BY <2>1
  <2> QED  BY <1>4, <2>3, <2>4, <2>5
<1>5. CASE ~ writer.torn /\ Events(line) = <<line>>
  <2>1. sent' = Append(sent, By(line))
    BY <1>1, <1>5, StampedEvents
  <2>2. /\ sent' \in Seq(Event) /\ sent' # <<>> /\ (ours(sent) => ours(sent'))
        /\ sent'[Len(sent')].ev = line
        /\ \A ev : Many(sent', ev) = Many(sent, ev) + One(ev = line)
    BY <1>1, <2>1, OneMore DEF By
  <2>3. Events(line) # <<>>
    BY <1>5
  <2>4. \A ev : One(ev = line) = One(ev = line /\ shown)
    BY <1>5, <2>3
  <2> QED  BY <2>2, <2>3, <2>4
<1>6. CASE ~ writer.torn /\ Events(line) = <<"start", line>>
  <2> DEFINE t == Append(sent, By("start"))
  <2>1. sent' = Append(t, By(line))
    BY <1>1, <1>6, StampedEvents
  <2>2. /\ t \in Seq(Event) /\ (ours(sent) => ours(t))
        /\ \A ev : Many(t, ev) = Many(sent, ev) + One(ev = "start")
    BY <1>1, OneMore DEF By
  <2> HIDE DEF t
  <2>3. /\ sent' \in Seq(Event) /\ sent' # <<>> /\ sent'[Len(sent')].ev = line
        /\ (ours(t) => ours(sent'))
        /\ \A ev : Many(sent', ev) = Many(t, ev) + One(ev = line)
    BY <1>1, <2>1, <2>2, OneMore DEF By
  <2>4. Events(line) # <<>>
    BY <1>6
  <2>5. \A ev \in {"text", "done", "error"} : Many(sent', ev) = Many(sent, ev) + One(ev = line /\ shown)
    <3> SUFFICES ASSUME NEW ev \in {"text", "done", "error"}
                 PROVE  Many(sent', ev) = Many(sent, ev) + One(ev = line /\ shown)
      OBVIOUS
    <3>1. One(ev = "start") = 0 /\ One(ev = line) \in Nat /\ Many(sent, ev) \in Nat
      BY <1>2 DEF One
    <3>2. One(ev = line /\ shown) = One(ev = line)
      BY <1>6, <2>4
    <3>3. Many(t, ev) = Many(sent, ev) + One(ev = "start") /\ Many(sent', ev) = Many(t, ev) + One(ev = line)
      BY <2>2, <2>3
    <3> HIDE DEF shown
    <3> QED  BY <3>1, <3>2, <3>3
  <2> QED  BY <2>2, <2>3, <2>4, <2>5
<1>7. Events(line) = <<>> \/ writer.torn \/ Events(line) \in {<<line>>, <<"start", line>>}
  BY EventsOfLine
<1>8. format # "chat" /\ writer.torn => Events(line) = <<>>
  BY EventsOfLine
<1> QED  BY <1>3, <1>4, <1>5, <1>6, <1>7, <1>8

-----------------------------------------------------------------------------
\* Types

LEMMA Constants ==
  /\ MaxAttempts \in Nat /\ MaxText \in Nat /\ Broken \in Nat /\ Usage \in Nat /\ Usage > 0
  /\ Adapters \subseteq AllAdapters /\ Formats \subseteq AllFormats
  BY StreamAssumption

LEMMA InitTyped == Init => Typed
<1> SUFFICES ASSUME Init PROVE Typed
  OBVIOUS
<1>1. sent \in Seq(Event)
  BY EmptySeq DEF Init
<1>2. {ended, firstByte, gone, torn, faulted} \subseteq BOOLEAN
  BY DEF Init
<1>3. /\ attempt \in 0..MaxAttempts /\ text \in 0..(MaxText + 3) /\ todo \in 0..3
      /\ usage \in {0, Usage} /\ cost \in Nat
  BY Constants DEF Init
<1> QED  BY <1>1, <1>2, <1>3 DEF Init, Typed, TypeOK

WriterType == [started : BOOLEAN, closed : BOOLEAN, torn : BOOLEAN]

LEMMA WritesTyped ==
  ASSUME TypeOK, NEW line \in Lines,
         WriteOK(line) \/ WriteFails(line) \/ (line = "error" /\ WriteError)
  PROVE  sent' \in Seq(Event) /\ writer' \in WriterType /\ gone' \in BOOLEAN
<1>1. WriterAfter(line) \in WriterType
  BY DEF TypeOK, WriterAfter, WriterType
<1>2. sent' = sent \/ sent' = sent \o Stamped(Events(line))
  BY DEF WriteOK, WriteFails, WriteError
<1>3. sent' \in Seq(Event)
  BY <1>2, Written DEF TypeOK
<1>4. writer' = WriterAfter(line) /\ gone' \in BOOLEAN
  BY DEF WriteOK, WriteFails, WriteError, TypeOK
<1> QED  BY <1>1, <1>3, <1>4

LEMMA PieceTyped ==
  ASSUME TypeOK, NEW piece, Piece(piece)
  PROVE  /\ sent' = sent /\ writer' \in WriterType /\ torn' \in BOOLEAN /\ ended' \in BOOLEAN
         /\ piece = "none" => writer' = writer /\ torn' = torn /\ ended' = ended
         /\ piece # "none" => torn' = TRUE /\ ended = FALSE
<1>1. CASE piece = "none"
  BY <1>1 DEF Piece, TypeOK, WriterType
<1>2. CASE piece # "none"
  BY <1>2 DEF Piece, TypeOK, WriterType
<1> QED  BY <1>1, <1>2

\* The upstream read so far, the adapter at work and the writer.
Steady == <<format, attempt, adapter, text, usage, ended, firstByte, todo>>

LEMMA TypedStep == Typed /\ [Next]_vars => Typed'
<1> SUFFICES ASSUME Typed, [Next]_vars PROVE Typed'
  OBVIOUS
<1> USE Constants DEF Typed, TypeOK
<1>1. ASSUME NEW a \in Adapters, Pick(a) PROVE Typed'
  <2>1. {ended', firstByte', gone', torn', faulted'} \subseteq BOOLEAN
    BY <1>1 DEF Pick
  <2>2. text' \in 0..(MaxText + 3) /\ todo' \in 0..3 /\ usage' \in {0, Usage} /\ cost' \in Nat
    BY <1>1 DEF Pick
  <2> QED  BY <1>1, <2>1, <2>2 DEF Pick
<1>2. CASE GiveUp \/ Refused \/ Connected \/ ClientLeaves
  BY <1>2 DEF GiveUp, Refused, NextAttempt, Connected, ClientLeaves
<1>3. CASE ReportCut
  <2>1. WriteError /\ "error" \in Lines
    BY <1>3 DEF ReportCut, Lines
  <2>2. sent' \in Seq(Event) /\ writer' \in WriterType /\ gone' \in BOOLEAN
    BY <2>1, WritesTyped
  <2> QED  BY <1>3, <2>2 DEF ReportCut, WriterType
<1>4. ASSUME NEW line \in Lines, Line(line) PROVE Typed'
  <2>1. WriteOK(line) /\ line \in Lines
    BY <1>4 DEF Line, Lines
  <2>2. sent' \in Seq(Event) /\ writer' \in WriterType /\ gone' \in BOOLEAN
    BY <2>1, WritesTyped
  <2> QED  BY <1>4, <2>2 DEF Line, WriterType
<1>5. ASSUME NEW line \in Lines, LineFails(line) PROVE Typed'
  <2>1. WriteFails(line) /\ line \in Lines
    BY <1>5 DEF LineFails, Lines
  <2>2. sent' \in Seq(Event) /\ writer' \in WriterType /\ gone' \in BOOLEAN
    BY <2>1, WritesTyped
  <2> QED  BY <1>5, <2>2 DEF LineFails, WriterType, Returns, CutOff, NextAttempt
<1>6. ASSUME NEW piece \in {"none", "text", "done"}, NEW reset \in BOOLEAN, EndOfAnswer(piece, reset)
      PROVE  Typed'
  <2>1. sent' = sent /\ writer' \in WriterType /\ torn' \in BOOLEAN /\ ended' \in BOOLEAN
    BY <1>6, PieceTyped DEF EndOfAnswer
  <2>2. BillableTokens \in Nat
    BY DEF BillableTokens
  <2> QED  BY <1>6, <2>1, <2>2 DEF EndOfAnswer, WriterType, Returns, CutOff, NextAttempt, Succeed
<1>7. ASSUME NEW what \in {"text", "usage", "completed"}, Collect(what) PROVE Typed'
  <2>1. {ended', firstByte', gone', torn', faulted'} \subseteq BOOLEAN
    BY <1>7 DEF Collect
  <2>2. text' \in 0..(MaxText + 3) /\ todo' \in 0..3 /\ usage' \in {0, Usage} /\ cost' \in Nat
    BY <1>7 DEF Collect
  <2> QED  BY <1>7, <2>1, <2>2 DEF Collect
<1>8. ASSUME NEW clean \in BOOLEAN, Collected(clean) PROVE Typed'
  BY <1>8 DEF Collected, Returns, CutOff, NextAttempt
<1>9. ASSUME NEW kind \in {"good", "cut", "empty"}, Answer(kind) PROVE Typed'
  <2>1. CASE kind = "good"
    <3>1. todo' \in 1..3 /\ text' = todo' /\ usage' \in {0, Usage}
      BY <1>9, <2>1 DEF Answer
    <3> QED  BY <1>9, <2>1, <3>1 DEF Answer
  <2>2. CASE kind # "good"
    BY <1>9, <2>2 DEF Answer, CutOff, NextAttempt
  <2> QED  BY <2>1, <2>2
<1>10. CASE WriteFrame
  <2>1. WriteOK("text") /\ "text" \in Lines
    BY <1>10 DEF WriteFrame, Lines
  <2>2. sent' \in Seq(Event) /\ writer' \in WriterType /\ gone' \in BOOLEAN
    BY <2>1, WritesTyped
  <2> QED  BY <1>10, <2>2 DEF WriteFrame, WriterType
<1>11. CASE WriteFrameFails
  <2>1. WriteFails("text") /\ "text" \in Lines
    BY <1>11 DEF WriteFrameFails, Lines
  <2>2. sent' \in Seq(Event) /\ writer' \in WriterType /\ gone' \in BOOLEAN
    BY <2>1, WritesTyped
  <2> QED  BY <1>11, <2>2 DEF WriteFrameFails, WriterType, Returns, CutOff, NextAttempt
<1>12. CASE WriteDone
  <2>1. (WriteOK("done") \/ WriteFails("done")) /\ "done" \in Lines
    BY <1>12 DEF WriteDone, Lines
  <2>2. sent' \in Seq(Event) /\ writer' \in WriterType /\ gone' \in BOOLEAN
    BY <2>1, WritesTyped
  <2> QED  BY <1>12, <2>2 DEF WriteDone, WriterType, Succeed, CutOff
<1>13. CASE UNCHANGED vars
  BY <1>13 DEF vars
<1> QED
  BY <1>1, <1>2, <1>3, <1>4, <1>5, <1>6, <1>7, <1>8, <1>9, <1>10, <1>11, <1>12, <1>13 DEF Next

-----------------------------------------------------------------------------
\* Output of one attempt only

LEMMA InitSource == Init => SourceInv
  BY DEF Init, SourceInv, Reading

\* After a line was written, all output is still of this attempt; a write that
\* fails adds nothing.
LEMMA WritesStamped ==
  ASSUME Typed, SourceInv, NEW line \in Lines, UNCHANGED attempt,
         WriteOK(line) \/ WriteFails(line) \/ (line = "error" /\ WriteError)
  PROVE  /\ \A i \in DOMAIN sent' : sent'[i].by = attempt'
         /\ sent' = <<>> => sent = <<>>
<1>1. sent' = sent \/ sent' = sent \o Stamped(Events(line))
  BY DEF WriteOK, WriteFails, WriteError
<1>2. CASE sent' = sent
  BY <1>2 DEF SourceInv
<1>3. CASE sent' = sent \o Stamped(Events(line))
  BY <1>3, Written DEF Typed, SourceInv
<1> QED  BY <1>1, <1>2, <1>3

LEMMA SourceStep == Typed /\ SourceInv /\ [Next]_vars => SourceInv'
<1> SUFFICES ASSUME Typed, SourceInv, [Next]_vars PROVE SourceInv'
  OBVIOUS
<1>1. ASSUME NEW a \in Adapters, Pick(a) PROVE SourceInv'
  BY <1>1 DEF Pick, SourceInv, Reading
<1>2. CASE GiveUp \/ Refused \/ Connected \/ ClientLeaves
  BY <1>2 DEF GiveUp, Refused, NextAttempt, Connected, ClientLeaves, SourceInv, Reading, Typed, TypeOK
<1>3. CASE ReportCut
  <2>1. WriteError /\ "error" \in Lines /\ attempt' = attempt
    BY <1>3 DEF ReportCut, Lines
  <2>2. \A i \in DOMAIN sent' : sent'[i].by = attempt'
    BY <2>1, WritesStamped
  <2> QED  BY <1>3, <2>2 DEF ReportCut, SourceInv, Reading
<1>4. ASSUME NEW line \in Lines, Line(line) PROVE SourceInv'
  <2>1. WriteOK(line) /\ line \in Lines /\ attempt' = attempt
    BY <1>4 DEF Line, Lines
  <2>2. \A i \in DOMAIN sent' : sent'[i].by = attempt'
    BY <2>1, WritesStamped
  <2> QED  BY <1>4, <2>2 DEF Line, SourceInv, Reading
<1>5. ASSUME NEW line \in Lines, LineFails(line) PROVE SourceInv'
  <2>1. sent' = sent /\ attempt' = attempt /\ adapter' = "openai" /\ Reading
    BY <1>5 DEF LineFails, WriteFails, Reading
  <2>2. sent # <<>> => firstByte /\ firstByte'
    BY <1>5, <2>1 DEF LineFails, SourceInv, Reading
  <2>3. pc' = "cut" \/ (pc' = "pick" /\ ~ firstByte')
    BY <1>5 DEF LineFails, Returns, CutOff, NextAttempt
  <2> QED  BY <2>1, <2>2, <2>3 DEF SourceInv, Reading
<1>6. ASSUME NEW piece \in {"none", "text", "done"}, NEW reset \in BOOLEAN, EndOfAnswer(piece, reset)
      PROVE  SourceInv'
  <2>1. sent' = sent /\ attempt' = attempt /\ Reading
    BY <1>6, PieceTyped DEF EndOfAnswer, Reading, Typed
  <2>2. sent # <<>> => firstByte'
    BY <1>6, <2>1 DEF EndOfAnswer, SourceInv, Reading
  <2>3. \/ pc' = "cut" \/ (pc' = "pick" /\ ~ firstByte')
        \/ pc' = "end" /\ outcome' = "ok"
    BY <1>6 DEF EndOfAnswer, Returns, CutOff, NextAttempt, Succeed
  <2> QED  BY <2>1, <2>2, <2>3 DEF SourceInv, Reading
<1>7. ASSUME NEW what \in {"text", "usage", "completed"}, Collect(what) PROVE SourceInv'
  BY <1>7 DEF Collect, SourceInv, Reading
<1>8. ASSUME NEW clean \in BOOLEAN, Collected(clean) PROVE SourceInv'
  <2>1. sent = <<>> /\ sent' = sent /\ attempt' = attempt /\ adapter' = adapter
    BY <1>8 DEF Collected, SourceInv, Reading
  <2>2. adapter \in {"codex", "antigravity"} /\ (pc' = "write" => todo' = 1)
    BY <1>8 DEF Collected, Returns, CutOff, NextAttempt
  <2> QED  BY <2>1, <2>2 DEF SourceInv, Reading
<1>9. ASSUME NEW kind \in {"good", "cut", "empty"}, Answer(kind) PROVE SourceInv'
  <2>1. pc = "answer" /\ sent = <<>> /\ sent' = sent /\ attempt' = attempt /\ adapter' = adapter
    BY <1>9 DEF Answer, SourceInv, Reading
  <2>2. /\ pc' \in {"write", "cut", "pick"}
        /\ pc' = "write" => /\ kind = "good" /\ text' = todo'
                            /\ todo' = IF adapter = "mock" THEN 3 ELSE 1
    BY <1>9 DEF Answer, CutOff, NextAttempt
  <2> QED  BY <2>1, <2>2 DEF SourceInv, Reading
<1>10. CASE WriteFrame
  <2>1. WriteOK("text") /\ "text" \in Lines /\ attempt' = attempt
    BY <1>10 DEF WriteFrame, Lines
  <2>2. \A i \in DOMAIN sent' : sent'[i].by = attempt'
    BY <2>1, WritesStamped
  <2> QED  BY <1>10, <2>2 DEF WriteFrame, SourceInv, Reading, Typed, TypeOK
<1>11. CASE WriteFrameFails
  <2>1. sent' = sent /\ attempt' = attempt /\ pc = "write" /\ todo > 0
    BY <1>11 DEF WriteFrameFails, WriteFails
  <2>2. pc' = "cut" \/ (pc' = "pick" /\ ~ (adapter = "mock" /\ firstByte))
    BY <1>11 DEF WriteFrameFails, Returns, CutOff, NextAttempt
  <2>3. pc' = "pick" => sent = <<>>
    BY <2>1, <2>2 DEF SourceInv, Reading, Typed, TypeOK
  <2> QED  BY <2>1, <2>2, <2>3 DEF SourceInv, Reading
<1>12. CASE WriteDone
  <2>1. WriteOK("done") \/ WriteFails("done")
    BY <1>12 DEF WriteDone
  <2>2. "done" \in Lines /\ attempt' = attempt
    BY <1>12 DEF WriteDone, Lines
  <2>3. \A i \in DOMAIN sent' : sent'[i].by = attempt'
    BY <2>1, <2>2, WritesStamped
  <2>4. pc' = "cut" \/ (pc' = "end" /\ outcome' = "ok")
    BY <1>12 DEF WriteDone, Succeed, CutOff
  <2> QED  BY <2>3, <2>4 DEF SourceInv, Reading
<1>13. CASE UNCHANGED vars
  BY <1>13 DEF vars, SourceInv, Reading
<1> QED
  BY <1>1, <1>2, <1>3, <1>4, <1>5, <1>6, <1>7, <1>8, <1>9, <1>10, <1>11, <1>12, <1>13 DEF Next

-----------------------------------------------------------------------------
\* A client that stays sees what was read

LEMMA CountIsMany == \A ev : Count(ev) = Many(sent, ev) /\ Count(ev)' = Many(sent', ev)
  BY DEF Count, Many, Places

LEMMA CountType == TypeOK => \A ev : Count(ev) \in Nat
  BY CountIsMany, ManyType DEF TypeOK

LEMMA NothingSent ==
  ASSUME sent = <<>>
  PROVE  Count("text") = 0 /\ Count("done") = 0 /\ Count("error") = 0
  BY CountIsMany, ManyEmpty

\* Before a call ends there is nothing to say about its result.
LEMMA NoResultYet ==
  ASSUME Typed', pc' # "end" PROVE SuccessIsWhole' /\ CutIsShown'
  BY DEF Typed, SuccessIsWhole, CutIsShown

LEMMA InitClean == Init => CleanInv
<1> SUFFICES ASSUME Init PROVE Clean
  BY DEF CleanInv
<1>1. Count("text") = 0 /\ Count("done") = 0 /\ Count("error") = 0
  BY NothingSent DEF Init
<1> QED  BY <1>1 DEF Init, Clean, Orderly, Cropped, Reading, SuccessIsWhole, CutIsShown

\* What a step leaves alone as long as the client gets nothing more.
LEMMA OrderlyKept ==
  ASSUME Orderly, UNCHANGED <<format, sent, writer, faulted>>
  PROVE  /\ Orderly' /\ (Cropped' <=> Cropped) /\ LastEvent' = LastEvent
         /\ \A ev : Count(ev)' = Count(ev)
<1>1. \A ev : Count(ev)' = Count(ev)
  BY CountIsMany
<1>2. LastEvent' = LastEvent /\ (Cropped' <=> Cropped)
  BY DEF LastEvent, Cropped
<1> QED  BY <1>1, <1>2 DEF Orderly

\* A line to a client that is there, through a writer in good order.
Shown(line) == format = "chat" \/ (~ writer.closed /\ line # "other")

LEMMA CleanWrite ==
  ASSUME Typed, Clean, NEW line \in Lines,
         sent' = sent \o Stamped(Events(line)), writer' = WriterAfter(line)
  PROVE  /\ ~ writer'.torn
         /\ writer'.closed <=> writer.closed \/ (format # "chat" /\ line \in {"done", "error"})
         /\ sent' = <<>> => ~ writer'.started /\ ~ writer'.closed
         /\ \A ev \in {"text", "done", "error"} :
               Count(ev)' = Count(ev) + One(ev = line /\ Shown(line))
         /\ Shown(line) => sent' # <<>> /\ LastEvent' = line
         /\ ~ Shown(line) => sent' = sent
<1>1. ~ writer.torn /\ writer \in WriterType
  BY DEF Clean, Orderly, Typed, TypeOK, WriterType
<1>2. Events(line) # <<>> <=> Shown(line)
  <2>1. CASE Shown(line)
    <3>1. Events(line) = <<line>> \/ Events(line) = <<"start", line>>
      BY <1>1, <2>1, EventsOfLine DEF Shown
    <3>2. <<line>> # <<>> /\ <<"start", line>> # <<>>
      OBVIOUS
    <3> QED  BY <2>1, <3>1, <3>2
  <2>2. CASE ~ Shown(line)
    BY <1>1, <2>2, EventsOfLine DEF Shown
  <2> QED  BY <2>1, <2>2
<1>3. /\ Events(line) = <<>> => sent' = sent
      /\ Events(line) # <<>> => sent' # <<>> /\ sent'[Len(sent')].ev = line
      /\ \A ev \in {"text", "done", "error"} :
            Many(sent', ev) = Many(sent, ev) + One(ev = line /\ ~ writer.torn /\ Events(line) # <<>>)
  BY <1>1, Written DEF Typed
<1>4. /\ ~ writer'.torn
      /\ writer'.closed <=> writer.closed \/ (format # "chat" /\ line \in {"done", "error"})
      /\ writer'.started => writer.started \/ (format # "chat" /\ ~ writer.closed /\ line # "other")
  BY <1>1 DEF WriterAfter, WriterType
<1>5. \A ev \in {"text", "done", "error"} : Count(ev)' = Count(ev) + One(ev = line /\ Shown(line))
  <2> SUFFICES ASSUME NEW ev \in {"text", "done", "error"}
               PROVE  Count(ev)' = Count(ev) + One(ev = line /\ Shown(line))
    OBVIOUS
  <2>1. Count(ev) = Many(sent, ev) /\ Count(ev)' = Many(sent', ev)
    BY CountIsMany
  <2>2. (ev = line /\ ~ writer.torn /\ Events(line) # <<>>) <=> (ev = line /\ Shown(line))
    BY <1>1, <1>2
  <2>3. One(ev = line /\ ~ writer.torn /\ Events(line) # <<>>) = One(ev = line /\ Shown(line))
    BY <2>2 DEF One
  <2> QED  BY <1>3, <2>1, <2>3
<1>6. sent' = <<>> => ~ writer'.started /\ ~ writer'.closed
  <2> SUFFICES ASSUME sent' = <<>> PROVE ~ writer'.started /\ ~ writer'.closed
    OBVIOUS
  <2>1. ~ Shown(line) /\ sent = <<>>
    BY <1>2, <1>3
  <2>2. ~ writer.started /\ ~ writer.closed
    BY <2>1 DEF Clean, Orderly
  <2> QED  BY <1>4, <2>1, <2>2 DEF Shown, Lines
<1> QED  BY <1>2, <1>3, <1>4, <1>5, <1>6 DEF LastEvent

LEMMA CleanStep == Typed /\ Typed' /\ SourceInv /\ CleanInv /\ [Next]_vars => CleanInv'
<1> SUFFICES ASSUME Typed, Typed', SourceInv, CleanInv, [Next]_vars, ~ gone', ~ torn' PROVE Clean'
  BY DEF CleanInv
<1>0. ASSUME ~ gone, ~ torn PROVE Clean /\ Orderly
  BY <1>0 DEF CleanInv, Clean
<1>a. \A ev : Count(ev) \in Nat
  BY CountType DEF Typed
<1>1. ASSUME NEW a \in Adapters, Pick(a) PROVE Clean'
  <2>1. Orderly /\ UNCHANGED <<format, sent, writer, faulted>>
    BY <1>0, <1>1 DEF Pick
  <2>2. Orderly'
    BY <2>1, OrderlyKept
  <2> QED  BY <1>1, <2>2, NoResultYet DEF Pick, Clean, Reading
<1>2. CASE GiveUp
  <2>1. Orderly /\ UNCHANGED <<format, sent, writer, faulted>>
    BY <1>0, <1>2 DEF GiveUp
  <2>2. Orderly'
    BY <2>1, OrderlyKept
  <2> QED  BY <1>2, <2>2 DEF GiveUp, Clean, Reading, SuccessIsWhole, CutIsShown
<1>3. CASE Refused
  <2>1. Orderly /\ UNCHANGED <<format, sent, writer, faulted>>
    BY <1>0, <1>3 DEF Refused
  <2>2. Orderly'
    BY <2>1, OrderlyKept
  <2> QED  BY <1>3, <2>2, NoResultYet DEF Refused, NextAttempt, Clean, Reading
<1>4. CASE Connected
  <2>1. Clean /\ Orderly /\ UNCHANGED <<format, sent, writer, faulted>> /\ pc' \in {"answer", "read"}
    BY <1>0, <1>4 DEF Connected
  <2>2. sent = <<>> /\ text' = 0 /\ ~ ended'
    BY <1>4, <2>1 DEF Connected, SourceInv, Reading, Clean
  <2>3. Orderly' /\ Count("text")' = 0 /\ Count("done")' = 0 /\ Count("error")' = 0
    BY <2>1, <2>2, NothingSent, OrderlyKept
  <2>4. ~ writer'.closed /\ ~ faulted'
    BY <2>1, <2>2 DEF Orderly
  <2> QED  BY <2>1, <2>2, <2>3, <2>4, NoResultYet DEF Clean, Reading
<1>5. CASE ClientLeaves
  BY <1>5 DEF ClientLeaves
<1>6. CASE ReportCut
  <2>1. /\ Clean /\ Orderly /\ "error" \in Lines
        /\ sent' = sent \o Stamped(Events("error")) /\ writer' = WriterAfter("error")
    BY <1>0, <1>6 DEF ReportCut, WriteError, Lines
  <2>2. /\ ~ writer'.torn /\ (sent' = <<>> => ~ writer'.started /\ ~ writer'.closed)
        /\ writer.closed => writer'.closed
        /\ \A ev \in {"text", "done", "error"} :
              Count(ev)' = Count(ev) + One(ev = "error" /\ Shown("error"))
        /\ Shown("error") => sent' # <<>> /\ LastEvent' = "error"
        /\ ~ Shown("error") => sent' = sent
    BY <2>1, CleanWrite
  <2>3. pc' = "end" /\ outcome' = "broken" /\ UNCHANGED <<format, ended, faulted>> /\ pc = "cut"
    BY <1>6 DEF ReportCut
  <2>4. Shown("error") <=> format = "chat" \/ ~ writer.closed
    BY DEF Shown
  <2>5. Count("error")' = Count("error") + One(Shown("error")) /\ Count("done")' = Count("done")
    BY <1>a, <2>2 DEF One
  <2>6. sent' = sent => LastEvent' = LastEvent
    BY DEF LastEvent
  <2>7. CutIsShown'
    <3> SUFFICES ASSUME ~ ended
                 PROVE  /\ LastEvent' = "error" /\ Count("done")' = 0
                        /\ Count("error")' = 1 \/ (format = "chat" /\ faulted)
      BY <2>3 DEF CutIsShown
    <3>1. /\ Count("done") = 0 /\ (writer.closed <=> Cropped)
          /\ ~ faulted => Count("error") = 0
          /\ Cropped => LastEvent = "error" /\ Count("error") = 1
      BY <2>1, <2>3 DEF Clean, Orderly
    <3>2. CASE Cropped
      <4>1. ~ Shown("error")
        BY <2>4, <3>1, <3>2 DEF Cropped
      <4> QED  BY <2>2, <2>5, <2>6, <3>1, <3>2, <4>1 DEF One
    <3>3. CASE ~ Cropped
      <4>1. Shown("error")
        BY <2>4, <3>1, <3>3
      <4> QED  BY <2>2, <2>5, <3>1, <3>3, <4>1 DEF One, Cropped
    <3> QED  BY <3>2, <3>3
  <2>8. Orderly'
    <3>1. sent' = <<>> => ~ faulted'
      <4> SUFFICES ASSUME sent' = <<>> PROVE ~ faulted
        BY <2>3
      <4>1. sent = <<>>
        BY <2>2
      <4> QED  BY <2>1, <4>1 DEF Orderly
    <3>2. ASSUME Cropped'
          PROVE  writer'.closed /\ LastEvent' = "error" /\ Count("error")' = 1 /\ Count("done")' = 0
      <4>1. /\ writer.closed /\ format # "chat" /\ LastEvent = "error"
            /\ Count("error") = 1 /\ Count("done") = 0
        BY <2>1, <2>3, <3>2 DEF Cropped, Orderly
      <4>2. ~ Shown("error")
        BY <2>4, <4>1
      <4> QED  BY <2>2, <2>5, <2>6, <4>1, <4>2 DEF One
    <3> QED  BY <2>2, <3>1, <3>2 DEF Orderly
  <2> QED  BY <2>3, <2>7, <2>8 DEF Clean, Reading, SuccessIsWhole
<1>7. ASSUME NEW line \in Lines, Line(line) PROVE Clean'
  <2>1. /\ Clean /\ Orderly /\ line \in Lines /\ Reading /\ ~ ended
        /\ sent' = sent \o Stamped(Events(line)) /\ writer' = WriterAfter(line)
    BY <1>0, <1>7 DEF Line, WriteOK, Reading
  <2>2. /\ ~ writer'.torn
        /\ writer'.closed <=> writer.closed \/ (format # "chat" /\ line \in {"done", "error"})
        /\ sent' = <<>> => ~ writer'.started /\ ~ writer'.closed
        /\ \A ev \in {"text", "done", "error"} :
              Count(ev)' = Count(ev) + One(ev = line /\ Shown(line))
        /\ Shown(line) => sent' # <<>> /\ LastEvent' = line
        /\ ~ Shown(line) => sent' = sent
    BY <2>1, CleanWrite
  <2>3. /\ Count("error") > 0 <=> faulted
        /\ ~ Cropped => Count("text") = text /\ Count("done") = 0
        /\ writer.closed <=> Cropped
        /\ text \in Nat
    BY <2>1 DEF Clean, Cropped, Typed, TypeOK
  <2>4. /\ pc' = "read" /\ adapter' = adapter /\ format' = format
        /\ text' = (IF line = "text" THEN text + 1 ELSE text) /\ ended' = (line = "done")
        /\ faulted' = (faulted \/ line = "error")
    BY <1>7 DEF Line
  <2>5. Cropped' <=> Cropped \/ (format # "chat" /\ line = "error")
    BY <2>4 DEF Cropped
  <2>6. CASE Cropped
    <3>1. ~ Shown(line) /\ writer.closed /\ format # "chat" /\ faulted
      BY <2>3, <2>6 DEF Shown, Cropped
    <3>2. sent' = sent /\ LastEvent' = LastEvent /\ \A ev : Count(ev)' = Count(ev)
      BY <2>2, <3>1, CountIsMany DEF LastEvent
    <3>3. Cropped' /\ faulted' /\ writer'.closed
      BY <2>2, <2>4, <2>5, <2>6, <3>1
    <3>4. sent # <<>> /\ LastEvent = "error" /\ Count("error") = 1 /\ Count("done") = 0
      BY <2>1, <2>6, <3>1 DEF Orderly
    <3>5. Orderly'
      BY <2>2, <3>2, <3>3, <3>4 DEF Orderly
    <3> QED  BY <2>4, <3>1, <3>2, <3>3, <3>4, <3>5, NoResultYet DEF Clean, Reading
  <2>7. CASE ~ Cropped
    <3>1. ~ writer.closed /\ Count("text") = text /\ Count("done") = 0
      BY <2>3, <2>7
    <3>2. line # "other" => Shown(line)
      BY <3>1 DEF Shown
    <3>3. Count("text")' = text' /\ Count("done")' = IF ended' THEN 1 ELSE 0
      <4>1. Count("text")' = text + One(line = "text") /\ Count("done")' = One(line = "done")
        BY <2>2, <3>1, <3>2 DEF One
      <4>2. text' = text + One(line = "text")
        BY <2>3, <2>4 DEF One
      <4>3. One(line = "done") = IF ended' THEN 1 ELSE 0
        BY <2>4 DEF One
      <4> QED  BY <4>1, <4>2, <4>3
    <3>4. Count("error")' = Count("error") + One(line = "error")
      BY <2>2, <3>2 DEF One
    <3>5. Count("error")' > 0 <=> faulted'
      <4>1. CASE line = "error"
        <5>1. Count("error")' = Count("error") + 1 /\ faulted'
          BY <2>4, <3>4, <4>1 DEF One
        <5> QED  BY <1>a, <5>1
      <4>2. CASE line # "error"
        <5>1. Count("error")' = Count("error") + 0 /\ (faulted' <=> faulted)
          BY <2>4, <3>4, <4>2 DEF One
        <5> QED  BY <1>a, <2>3, <5>1
      <4> QED  BY <4>1, <4>2
    <3>6. ended' => sent' # <<>> /\ LastEvent' = "done"
      BY <2>2, <2>4, <3>2
    <3>7. writer'.closed <=> (ended' \/ faulted') /\ format' # "chat"
      BY <2>2, <2>4, <2>7, <3>1 DEF Cropped
    <3>8. sent' = <<>> => ~ faulted'
      <4> SUFFICES ASSUME sent' = <<>> PROVE ~ faulted'
        OBVIOUS
      <4>1. line = "other" /\ sent = <<>>
        BY <2>2, <3>2
      <4> QED  BY <2>1, <2>4, <4>1 DEF Orderly
    <3>9. ASSUME Cropped'
          PROVE  writer'.closed /\ LastEvent' = "error" /\ Count("error")' = 1 /\ Count("done")' = 0
      <4>1. format # "chat" /\ line = "error" /\ ~ faulted /\ ~ ended'
        BY <2>4, <2>5, <2>7, <3>9 DEF Cropped
      <4>2. Count("error") = 0
        BY <1>a, <2>3, <4>1
      <4> QED  BY <2>2, <3>2, <3>3, <3>4, <4>1, <4>2 DEF One
    <3>10. Orderly'
      BY <2>2, <3>8, <3>9 DEF Orderly
    <3> QED  BY <2>4, <3>3, <3>5, <3>6, <3>7, <3>10, NoResultYet DEF Clean, Reading
  <2> QED  BY <2>6, <2>7
<1>8. ASSUME NEW line \in Lines, LineFails(line) PROVE Clean'
  BY <1>8 DEF LineFails, WriteFails
<1>9. ASSUME NEW piece \in {"none", "text", "done"}, NEW reset \in BOOLEAN, EndOfAnswer(piece, reset)
      PROVE  Clean'
  <2>1. piece = "none" /\ sent' = sent /\ writer' = writer /\ torn' = torn /\ ended' = ended
    BY <1>9, PieceTyped DEF EndOfAnswer, Typed
  <2>2. Clean /\ Orderly /\ Reading /\ UNCHANGED <<format, adapter, text, faulted>>
    BY <1>0, <1>9, <2>1 DEF EndOfAnswer, Reading
  <2>3. /\ Orderly' /\ (Cropped' <=> Cropped) /\ LastEvent' = LastEvent
        /\ \A ev : Count(ev)' = Count(ev)
    BY <2>1, <2>2, OrderlyKept
  <2>4. CASE pc' = "end"
    <3>1. outcome' = "ok" /\ ended
      BY <1>9, <2>1, <2>4 DEF EndOfAnswer, Succeed, Returns, CutOff, NextAttempt
    <3>2. adapter' \notin Whole
      BY <2>2 DEF Reading, Whole
    <3>3. SuccessIsWhole' /\ CutIsShown'
      BY <2>1, <2>2, <2>3, <3>1, <3>2 DEF Clean, Cropped, SuccessIsWhole, CutIsShown
    <3> QED  BY <2>1, <2>2, <2>3, <2>4, <3>3 DEF Clean, Reading
  <2>5. CASE pc' # "end"
    <3>1. pc' \in {"cut", "pick"}
      BY <1>9, <2>5 DEF EndOfAnswer, Succeed, Returns, CutOff, NextAttempt
    <3>2. SuccessIsWhole' /\ CutIsShown'
      BY <2>5, NoResultYet
    <3>3. ~ ended => /\ writer.closed <=> Cropped
                     /\ ~ Cropped => Count("done") = 0
                     /\ ~ faulted => Count("error") = 0
      BY <1>a, <2>2 DEF Clean, Cropped
    <3>4. Cropped => Count("done") = 0
      BY <2>2 DEF Orderly
    <3> QED  BY <2>1, <2>2, <2>3, <3>1, <3>2, <3>3, <3>4 DEF Clean, Reading
  <2> QED  BY <2>4, <2>5
<1>10. ASSUME NEW what \in {"text", "usage", "completed"}, Collect(what) PROVE Clean'
  <2>1. /\ Orderly /\ UNCHANGED <<format, sent, writer, faulted>>
        /\ pc' = "read" /\ adapter' # "openai"
    BY <1>0, <1>10 DEF Collect
  <2>2. Orderly'
    BY <2>1, OrderlyKept
  <2> QED  BY <2>1, <2>2, NoResultYet DEF Clean, Reading
<1>11. ASSUME NEW clean \in BOOLEAN, Collected(clean) PROVE Clean'
  <2>1. /\ Orderly /\ sent = <<>> /\ UNCHANGED <<format, sent, writer, faulted>>
        /\ adapter' = adapter /\ adapter # "mock"
    BY <1>0, <1>11 DEF Collected, SourceInv, Reading
  <2>2. (pc' = "write" /\ todo' = 1) \/ pc' \in {"cut", "pick"}
    BY <1>11 DEF Collected, Returns, CutOff, NextAttempt
  <2>3. Orderly' /\ Count("text")' = 0 /\ Count("done")' = 0 /\ Count("error")' = 0
    BY <2>1, NothingSent, OrderlyKept
  <2>4. ~ writer'.closed /\ ~ faulted' /\ ~ Cropped'
    BY <2>1 DEF Orderly, Cropped
  <2> QED  BY <2>1, <2>2, <2>3, <2>4, NoResultYet DEF Clean, Reading
<1>12. ASSUME NEW kind \in {"good", "cut", "empty"}, Answer(kind) PROVE Clean'
  <2>1. Orderly /\ sent = <<>> /\ UNCHANGED <<format, sent, writer, faulted>> /\ adapter' = adapter
    BY <1>0, <1>12 DEF Answer, SourceInv, Reading
  <2>2. \/ pc' = "write" /\ todo' = (IF adapter = "mock" THEN 3 ELSE 1)
        \/ pc' \in {"cut", "pick"}
    BY <1>12 DEF Answer, CutOff, NextAttempt
  <2>3. Orderly' /\ Count("text")' = 0 /\ Count("done")' = 0 /\ Count("error")' = 0
    BY <2>1, NothingSent, OrderlyKept
  <2>4. ~ writer'.closed /\ ~ faulted' /\ ~ Cropped'
    BY <2>1 DEF Orderly, Cropped
  <2> QED  BY <2>1, <2>2, <2>3, <2>4, NoResultYet DEF Clean, Reading
<1>13. CASE WriteFrame
  <2>1. /\ Clean /\ "text" \in Lines /\ pc = "write"
        /\ sent' = sent \o Stamped(Events("text")) /\ writer' = WriterAfter("text")
    BY <1>0, <1>13 DEF WriteFrame, WriteOK, Lines
  <2>2. /\ ~ writer'.torn
        /\ writer'.closed <=> writer.closed
        /\ sent' = <<>> => ~ writer'.started /\ ~ writer'.closed
        /\ \A ev \in {"text", "done", "error"} :
              Count(ev)' = Count(ev) + One(ev = "text" /\ Shown("text"))
    BY <2>1, CleanWrite
  <2>3. /\ Count("text") = (IF adapter = "mock" THEN 3 ELSE 1) - todo
        /\ Count("done") = 0 /\ Count("error") = 0 /\ ~ writer.closed /\ ~ faulted /\ todo \in Nat
    BY <2>1 DEF Clean, Typed, TypeOK
  <2>4. Shown("text")
    BY <2>3 DEF Shown
  <2>5. pc' = "write" /\ adapter' = adapter /\ todo' = todo - 1 /\ faulted' = faulted
    BY <1>13 DEF WriteFrame
  <2>6. /\ Count("text")' = (IF adapter' = "mock" THEN 3 ELSE 1) - todo'
        /\ Count("done")' = 0 /\ Count("error")' = 0
    BY <2>2, <2>3, <2>4, <2>5 DEF One
  <2>7. Orderly' /\ ~ faulted'
    BY <2>2, <2>3, <2>5 DEF Orderly, Cropped
  <2> QED  BY <2>2, <2>3, <2>5, <2>6, <2>7, NoResultYet DEF Clean, Reading
<1>14. CASE WriteFrameFails
  BY <1>14 DEF WriteFrameFails, WriteFails
<1>15. CASE WriteDone
  <2>1. /\ Clean /\ "done" \in Lines /\ pc = "write" /\ todo = 0
        /\ sent' = sent \o Stamped(Events("done")) /\ writer' = WriterAfter("done")
        /\ pc' = "end" /\ outcome' = "ok" /\ adapter' = adapter /\ text' = text /\ faulted' = faulted
    BY <1>0, <1>15 DEF WriteDone, WriteOK, WriteFails, Succeed, Lines
  <2>2. /\ ~ writer'.torn
        /\ sent' = <<>> => ~ writer'.started /\ ~ writer'.closed
        /\ \A ev \in {"text", "done", "error"} :
              Count(ev)' = Count(ev) + One(ev = "done" /\ Shown("done"))
        /\ Shown("done") => sent' # <<>> /\ LastEvent' = "done"
    BY <2>1, CleanWrite
  <2>3. /\ Count("text") = (IF adapter = "mock" THEN 3 ELSE 1)
        /\ Count("done") = 0 /\ Count("error") = 0 /\ ~ writer.closed /\ ~ faulted
    BY <2>1 DEF Clean
  <2>4. Shown("done")
    BY <2>3 DEF Shown
  <2>5. Count("text")' = Count("text") /\ Count("done")' = 1 /\ Count("error")' = 0
    BY <2>2, <2>3, <2>4 DEF One
  <2>6. Count("text") = IF adapter \in Whole THEN 1 ELSE text
    BY <2>1, <2>3, Constants DEF SourceInv, Typed, TypeOK, Whole, AllAdapters
  <2>7. SuccessIsWhole'
    BY <2>1, <2>2, <2>3, <2>4, <2>5, <2>6 DEF SuccessIsWhole
  <2>8. Orderly'
    BY <2>1, <2>2, <2>3 DEF Orderly, Cropped
  <2> QED  BY <2>1, <2>7, <2>8 DEF Clean, Reading, CutIsShown
<1>16. CASE UNCHANGED vars
  <2>1. Clean /\ Orderly /\ UNCHANGED <<format, sent, writer, faulted>>
    BY <1>0, <1>16 DEF vars
  <2>2. /\ Orderly' /\ (Cropped' <=> Cropped) /\ LastEvent' = LastEvent
        /\ \A ev : Count(ev)' = Count(ev)
    BY <2>1, OrderlyKept
  <2> QED  BY <1>16, <2>1, <2>2 DEF vars, Clean, Reading, SuccessIsWhole, CutIsShown
<1> QED
  BY <1>1, <1>2, <1>3, <1>4, <1>5, <1>6, <1>7, <1>8, <1>9, <1>10, <1>11, <1>12, <1>13, <1>14, <1>15, <1>16
  DEF Next

-----------------------------------------------------------------------------
\* What was delivered is billed

LEMMA InitBill == Init => BillInv
  BY NothingSent DEF Init, BillInv, Reading, DeliveredIsBilled

LEMMA BillStep == Typed /\ Typed' /\ SourceInv /\ BillInv /\ [Next]_vars => BillInv'
<1> SUFFICES ASSUME Typed, Typed', SourceInv, BillInv, [Next]_vars PROVE BillInv'
  OBVIOUS
<1>a. sent' = sent => \A ev : Count(ev)' = Count(ev)
  BY CountIsMany
<1>b. outcome' # "ok" => DeliveredIsBilled'
  BY DEF DeliveredIsBilled
<1>c. ASSUME ~ Reading', outcome' # "ok" PROVE BillInv'
  BY <1>b, <1>c DEF BillInv
<1>d. pc' # "end" => outcome' # "ok"
  BY DEF Typed
<1>1. ASSUME NEW a \in Adapters, Pick(a) PROVE BillInv'
  BY <1>1, <1>c, <1>d DEF Pick, Reading
<1>2. CASE GiveUp \/ Refused \/ ReportCut
  BY <1>2, <1>c, <1>d DEF GiveUp, Refused, NextAttempt, ReportCut, Reading
<1>3. CASE Connected
  <2>1. sent = <<>> /\ sent' = sent /\ text' = text /\ text \in Nat /\ outcome' # "ok"
    BY <1>3, <1>d DEF Connected, SourceInv, Reading, Typed, TypeOK
  <2>2. Count("text")' = 0
    BY <1>a, <2>1, NothingSent
  <2> QED  BY <1>b, <2>1, <2>2 DEF BillInv
<1>4. CASE ClientLeaves
  <2>1. Count("text")' = Count("text") /\ outcome' = outcome
    BY <1>4, <1>a DEF ClientLeaves
  <2> QED  BY <1>4, <2>1 DEF ClientLeaves, BillInv, Reading, DeliveredIsBilled
<1>5. ASSUME NEW line \in Lines, Line(line) PROVE BillInv'
  <2>1. /\ Reading /\ line \in Lines /\ sent' = sent \o Stamped(Events(line))
        /\ text' = (IF line = "text" THEN text + 1 ELSE text) /\ pc' = pc
    BY <1>5 DEF Line, WriteOK, Lines, Reading
  <2>2. Many(sent', "text") = Many(sent, "text") + One("text" = line /\ ~ writer.torn /\ Events(line) # <<>>)
    BY <2>1, Written DEF Typed
  <2>3. Count("text") <= text /\ Count("text") \in Nat /\ text \in Nat
    BY <2>1, CountType DEF BillInv, Typed, TypeOK
  <2>4. Count("text")' <= text'
    BY <2>1, <2>2, <2>3, CountIsMany DEF One
  <2>5. outcome' # "ok"
    BY <1>d, <2>1 DEF Reading
  <2> QED  BY <1>b, <2>4, <2>5 DEF BillInv
<1>6. ASSUME NEW line \in Lines, LineFails(line) PROVE BillInv'
  BY <1>6, <1>c, <1>d DEF LineFails, Returns, CutOff, NextAttempt, Reading
<1>7. ASSUME NEW piece \in {"none", "text", "done"}, NEW reset \in BOOLEAN, EndOfAnswer(piece, reset)
      PROVE  BillInv'
  <2>1. sent' = sent /\ Reading /\ UNCHANGED <<adapter, text, usage>>
    BY <1>7, PieceTyped DEF EndOfAnswer, Reading, Typed
  <2>2. Count("text")' = Count("text") /\ Count("text") <= text /\ Count("text") \in Nat
    BY <1>a, <2>1, CountType DEF BillInv, Typed
  <2>3. CASE pc' = "end"
    <3>1. cost' = BillableTokens
      BY <1>7, <2>3 DEF EndOfAnswer, Succeed, Returns, CutOff, NextAttempt
    <3>2. text \in Nat /\ usage \in Nat
      BY Constants DEF Typed, TypeOK
    <3>3. Count("text")' > 0 => cost' > 0
      BY <2>2, <3>1, <3>2 DEF BillableTokens
    <3> QED  BY <2>3, <3>3 DEF BillInv, Reading, DeliveredIsBilled
  <2>4. CASE pc' # "end"
    BY <1>7, <1>c, <1>d, <2>4 DEF EndOfAnswer, Succeed, Returns, CutOff, NextAttempt, Reading
  <2> QED  BY <2>3, <2>4
<1>8. ASSUME NEW what \in {"text", "usage", "completed"}, Collect(what) PROVE BillInv'
  BY <1>8, <1>c, <1>d DEF Collect, Reading
<1>9. ASSUME NEW clean \in BOOLEAN, Collected(clean) PROVE BillInv'
  BY <1>9, <1>c, <1>d DEF Collected, Returns, CutOff, NextAttempt, Reading
<1>10. ASSUME NEW kind \in {"good", "cut", "empty"}, Answer(kind) PROVE BillInv'
  BY <1>10, <1>c, <1>d DEF Answer, CutOff, NextAttempt, Reading
<1>11. CASE WriteFrame \/ WriteFrameFails
  BY <1>11, <1>c, <1>d DEF WriteFrame, WriteFrameFails, Returns, CutOff, NextAttempt, Reading
<1>12. CASE WriteDone
  <2>1. adapter' # "openai" /\ usage' = usage /\ pc' \in {"cut", "end"}
    BY <1>12 DEF WriteDone, Succeed, CutOff, SourceInv
  <2>2. outcome' = "ok" => cost' = usage'
    BY <1>12, <1>d, <2>1 DEF WriteDone, Succeed, CutOff
  <2> QED  BY <2>1, <2>2 DEF BillInv, Reading, DeliveredIsBilled
<1>13. CASE UNCHANGED vars
  <2>1. Count("text")' = Count("text")
    BY <1>13, <1>a DEF vars
  <2> QED  BY <1>13, <2>1 DEF vars, BillInv, Reading, DeliveredIsBilled
<1> QED
  BY <1>1, <1>2, <1>3, <1>4, <1>5, <1>6, <1>7, <1>8, <1>9, <1>10, <1>11, <1>12, <1>13 DEF Next

-----------------------------------------------------------------------------
LEMMA InvAlways == Spec => []Inv
<1>1. Init => Inv
  BY InitTyped, InitSource, InitClean, InitBill DEF Inv
<1>2. Inv /\ [Next]_vars => Inv'
  BY TypedStep, SourceStep, CleanStep, BillStep DEF Inv
<1> QED  BY <1>1, <1>2, PTL DEF Spec

\* The variables of loop, adapter, writer and client keep their types, and
\* nothing is billed before RelayStream returned.
THEOREM TypeCorrect == Spec => []TypeOK
<1>1. Inv => TypeOK
  BY DEF Inv, Typed
<1> QED  BY <1>1, InvAlways, PTL

\* First-byte failover (RelayStream): for any number of attempts over any
\* adapters, the client never gets output of two accounts, no account is asked
\* after the first byte, and a call answered 503 has shown nothing.
THEOREM OutputHasOneSource == Spec => []OneSource
<1>1. Inv => OneSource
  <2> SUFFICES ASSUME Inv PROVE OneSource
    OBVIOUS
  <2>1. \A i \in DOMAIN sent : sent[i].by = attempt
    BY DEF Inv, SourceInv
  <2>2. sent # <<>> => 1 \in DOMAIN sent
    <3>1. sent \in Seq(Event)
      BY DEF Inv, Typed, TypeOK
    <3> QED  BY <3>1, EmptySeq, LenProperties
  <2>3. sent # <<>> => pc # "pick" /\ outcome # "failed"
    BY DEF Inv, SourceInv, Typed, Reading
  <2> QED  BY <2>1, <2>2, <2>3 DEF OneSource
<1> QED  BY <1>1, InvAlways, PTL

\* A client that stays and whose call is a success has all text that was read
\* and then the mark of completion, however long the answer and whoever
\* answered, and an error only if the upstream put one into its answer.  Only
\* such an error can cost the client of a translating writer the rest.
THEOREM SuccessesAreWhole == Spec => []SuccessIsWhole
<1>1. Inv => SuccessIsWhole
  BY DEF Inv, CleanInv, Clean, SuccessIsWhole
<1> QED  BY <1>1, InvAlways, PTL

\* A stream cut between two lines ends, for a client that stays, in an error
\* frame and without the mark of completion (writeStreamError), also when the
\* upstream put an error into its answer before.
THEOREM CutsAreShown == Spec => []CutIsShown
<1>1. Inv => CutIsShown
  BY DEF Inv, CleanInv, Clean, CutIsShown
<1> QED  BY <1>1, InvAlways, PTL

\* A success that delivered text costs something (billableTokens), although
\* cuts, failing writes and clients that leave come in between.
THEOREM DeliveredIsAlwaysBilled == Spec => []DeliveredIsBilled
<1>1. Inv => DeliveredIsBilled
  BY DEF Inv, BillInv
<1> QED  BY <1>1, InvAlways, PTL
=============================================================================
