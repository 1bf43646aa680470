----------------------------- MODULE ToolStream -----------------------------
(***************************************************************************)
(* zaya_tool_parser.py: tool calls are picked out of the text of a model   *)
(* while it is streamed, in chunks that may cut it anywhere.               *)
(*                                                                         *)
(* A text is a sequence of atoms.  A tag is two atoms, "<fn" and "f>" for  *)
(* <function=f>, so that a chunk can end inside of it; "<b" is a "<" that  *)
(* begins no tag.  The parser is a record that its methods transform, in   *)
(* the order of the calls in the code; expat is part of it.                *)
(***************************************************************************)
EXTENDS Integers, FiniteSets, SequencesExt

CONSTANTS
  Texts,      \* texts of the model, see Render
  TypeOf,     \* type of each parameter: "string", "integer", "boolean" or "array"
  MaxChunk,   \* bound: atoms of a chunk
  MaxStreams  \* bound: streams one parser is used for

VARIABLES
  text, at,       \* the text of the current stream and how much of it was fed
  p,              \* the StreamingXMLToolCallParser
  content, calls, \* what the client has put together
  streams

vars == <<text, at, p, content, calls, streams>>

\* Tags and text.
Opens  == {"<call", "</call", "<fn", "</fn", "<par", "</par", "<b"}
Starts == {"<call", "<fn", "<par"}
Closes == {"call>", "/call>", "/fn>", "/par>"} \cup {"f>", "g>"} \cup DOMAIN TypeOf
NL == "nl"
IsTag(e) == Len(e) = 2 /\ e[1] \in Opens \ {"<b"} /\ e[2] \in Closes
Holds(chunk, e) == \E i \in 1 .. Len(chunk) - 1 : SubSeq(chunk, i, i + 1) = e
FnEnd == <<"</fn", "/fn>">>
CallEnd == <<"</call", "/call>">>

----------------------------------------------------------------------------
\* State and deltas.

Fresh(ids) ==
  [call |-> 0, ids |-> ids, fn |-> "", fopen |-> FALSE, params |-> {},
   par |-> "", val |-> <<>>, conv |-> <<>>, endnl |-> FALSE, quote |-> FALSE,
   txt |-> <<>>, pre |-> FALSE, prebuf |-> <<>>, prepar |-> "", defer |-> FALSE, raw |-> <<>>,
   stack |-> <<>>, over |-> FALSE, dead |-> FALSE,
   idx |-> 0, last |-> 0, buf |-> <<>>, deltas |-> <<>>, found |-> FALSE]

\* _reset_xml_parser_after_tool_call: everything but the buffer and the deltas.
ResetBug(q) == [q EXCEPT !.call = 0, !.stack = <<>>, !.over = FALSE, !.dead = FALSE, !.txt = <<>>, !.last = q.call]
Reset(q) == [Fresh(q.ids) EXCEPT !.idx = q.idx, !.buf = q.buf, !.deltas = q.deltas, !.found = q.found,
                                 !.last = IF q.call # 0 THEN q.call ELSE q.last]

EmitText(q, t) == [q EXCEPT !.deltas = Append(@, [id |-> -1, content |-> t])]
EmitCall(q, name, args) ==
  [q EXCEPT !.deltas = Append(@, [id |-> q.call, idx |-> q.idx, name |-> name, args |-> args, content |-> <<>>])]
Blank(t) == Range(t) \subseteq {NL}

\* The deltas of one chunk are merged by call id, in order.
MergeCalls(ds) ==
  FoldLeft(LAMBDA acc, d :
             IF d.id = -1 THEN acc
             ELSE IF \E i \in DOMAIN acc : acc[i].id = d.id
             THEN LET i == CHOOSE i \in DOMAIN acc : acc[i].id = d.id IN
                  [acc EXCEPT ![i].name = IF d.name # "" THEN d.name ELSE @, ![i].args = @ \o d.args]
             ELSE Append(acc, d), <<>>, ds)
Response(ds) ==
  [content |-> FoldLeft(LAMBDA acc, d : acc \o d.content, <<>>, ds), calls |-> MergeCalls(ds)]

----------------------------------------------------------------------------
\* Values.

\* Type of a parameter of the function that is open; without one, a string.
Type(fn, par) == IF fn # "" THEN TypeOf[par] ELSE "string"
IsString(q) == Type(q.fn, q.par) = "string"

\* What a value looks like in the streamed JSON.
Converted(type, v) ==
  CASE v = <<>> -> <<>>
    [] type = "boolean" -> IF v = <<"true">> THEN <<"true">> ELSE <<"false">>
    [] type = "integer" /\ Range(v) \subseteq {"1", "2", NL} -> SelectSeq(v, LAMBDA a : a # NL)
    [] OTHER -> v

\* literal_eval does not care for newlines; what it cannot read is a string.
Literal(raw) ==
  LET v == SelectSeq(raw, LAMBDA a : a # NL) IN
  IF v # <<>> /\ v[1] = "[" /\ v[Len(v)] = "]" /\ Range(v) \cap Opens = {} THEN v ELSE <<"q">> \o raw \o <<"q">>

----------------------------------------------------------------------------
\* Handlers of XML events.

ClearPar(q) == [q EXCEPT !.params = @ \cup {q.par}, !.par = "", !.val = <<>>, !.conv = <<>>,
                         !.quote = FALSE, !.endnl = FALSE, !.defer = FALSE, !.raw = <<>>]
EndPar(q) ==
  ClearPar(IF q.defer THEN EmitCall(q, "", Literal(IF q.raw # <<>> THEN q.raw ELSE q.val))
           ELSE IF ~IsString(q) THEN q
           ELSE EmitCall(q, "", IF q.val = <<>> /\ ~q.quote THEN <<"q", "q">> ELSE <<"q">>))
ClosePar(q) == IF q.par # "" THEN EndPar(q) ELSE q

EndArgs(q) == [EmitCall(q, "", IF q.params # {} THEN <<"}">> ELSE <<"{", "}">>) EXCEPT !.fopen = FALSE]
EndFn(q) == EndArgs(ClosePar(q))
CloseFn(q) == IF q.fn # "" THEN EndFn(q) ELSE q

EndOpenFn(q) == IF q.fopen THEN EndFn(q) ELSE q
TellText(q) == IF ~Blank(q.txt) THEN EmitText(q, q.txt) ELSE q
EndCall(q) == Reset(TellText(EmitCall(EndOpenFn(ClosePar(q)), "", <<>>)))

EndOpenCall(q) == IF q.call # 0 THEN EndCall(q) ELSE q
NewCall(q) == [q EXCEPT !.params = {}, !.call = q.ids + 1, !.ids = @ + 1, !.idx = @ + 1]
StartCall(q) == NewCall(EndOpenCall(CloseFn(ClosePar(q))))

InCall(q) == IF q.call = 0 THEN StartCall(q) ELSE q
NewFn(q, name) == EmitCall([q EXCEPT !.fn = name, !.fopen = TRUE], name, <<>>)
StartFn(q, name) == NewFn(CloseFn(ClosePar(InCall(q))), name)

NewPar(q, name) ==
  EmitCall([q EXCEPT !.par = name, !.val = <<>>, !.conv = <<>>, !.quote = FALSE],
           "", IF q.params = {} THEN <<"{", name>> ELSE <<",", name>>)
StartPar(q, name) == NewPar(ClosePar(q), name)

\* Character data: a leading newline is dropped, a trailing one held back, and
\* what the converted value has grown by is emitted.
HeldBug(q, d) == [q EXCEPT !.val = @ \o d]
Held(q, d) ==
  LET o == IF q.endnl THEN <<NL>> \o d ELSE d
      nl == o[Len(o)] = NL
  IN [q EXCEPT !.endnl = nl, !.val = @ \o IF nl THEN Front(o) ELSE o]

Quoted(q) == IF IsString(q) /\ ~q.quote THEN [EmitCall(q, "", <<"q">>) EXCEPT !.quote = TRUE] ELSE q
Grown(q, out) == EmitCall([q EXCEPT !.conv = out], "", SubSeq(out, Len(q.conv) + 1, Len(out)))
Streamed(q) == Grown(q, Converted(Type(q.fn, q.par), q.val))
CharData(q, data) ==
  LET d == IF q.val = <<>> /\ data[1] = NL THEN Tail(data) ELSE data
  IN IF data = <<>> \/ q.par = "" THEN q
     ELSE IF q.defer THEN Held(q, data)
     ELSE IF d = <<>> THEN Quoted(q) ELSE Streamed(Held(Quoted(q), d))

\* expat: one root, balanced tags, no text beside the root; dead after an error.
Error(q) == [q EXCEPT !.dead = TRUE]
ParseText(q, t) ==
  IF q.dead \/ (q.stack = <<>> /\ ~Blank(t)) THEN Error(q)
  ELSE IF q.stack = <<>> THEN q ELSE CharData(q, t)
ParseTag(q, e) ==
  IF q.dead \/ q.over THEN Error(q)
  ELSE IF e[1] \in Starts THEN
    LET r == [q EXCEPT !.stack = Append(@, e[1])] IN
    CASE e[1] = "<call" -> StartCall(r) [] e[1] = "<fn" -> StartFn(r, e[2]) [] OTHER -> StartPar(r, e[2])
  ELSE LET open == CASE e[1] = "</call" -> "<call" [] e[1] = "</fn" -> "<fn" [] OTHER -> "<par" IN
    IF q.stack = <<>> THEN Error(q) ELSE
    IF q.stack[Len(q.stack)] # open THEN Error(q)
    ELSE LET r == [q EXCEPT !.stack = Front(@), !.over = Len(q.stack) = 1] IN
         CASE e[1] = "</call" -> EndCall(r) [] e[1] = "</fn" -> EndFn(r) [] OTHER -> ClosePar(r)

----------------------------------------------------------------------------
\* The next element of the buffer: its length, 0 to wait for more.
First(b, S) == LET I == {i \in 2 .. Len(b) : b[i] \in S} IN IF I = {} THEN 0 ELSE Min(I)

ElementLenBug(q) ==   \* does not wait for the end of a tag
  LET lt == First(q.buf, Opens)
      gt == First(q.buf, Closes)
  IN CASE q.buf = <<>> -> 0
       [] q.buf[1] \notin Opens -> IF lt # 0 THEN lt - 1 ELSE Len(q.buf)
       [] lt # 0 /\ (gt = 0 \/ lt < gt) -> lt - 1
       [] OTHER -> IF gt # 0 THEN gt ELSE Len(q.buf)
ElementLen(q) ==
  LET lt == First(q.buf, Opens)
      gt == First(q.buf, Closes)
  IN CASE q.buf = <<>> -> 0
       [] q.buf[1] \notin Opens -> IF lt # 0 THEN lt - 1 ELSE Len(q.buf)
       [] lt # 0 /\ (gt = 0 \/ lt < gt) -> lt - 1
       [] gt # 0 -> gt
       [] q.call = 0 /\ q.buf # <<"<call">> -> Len(q.buf)
       [] OTHER -> 0

\* Outside of a call everything but a start tag is text for the user.
Skipped(q, e) == ~(IsTag(e) /\ e[1] \in Starts) /\ q.call = 0

\* Whether a value is collected to be parsed at its end: decided at its first piece.
CollectedBug(q) == q.prebuf # <<>>
Collected(q) == q.prebuf # <<>> \/ Type(q.fn, q.prepar) = "array"

\* A parameter of a complex type is collected and parsed as a whole at its end.
EndCollected(q) == [q EXCEPT !.defer = TRUE, !.raw = q.prebuf, !.pre = FALSE, !.prebuf = <<>>, !.prepar = ""]
ParseRaw(q) == IF q.raw = <<>> THEN q ELSE ParseText(q, q.raw)
ParsePre(q, e) ==
  LET tag(name) == IsTag(e) /\ e[1] = name
  IN IF q.pre /\ ~tag("</par") /\ Collected(q) THEN [q EXCEPT !.prebuf = @ \o e]
     ELSE IF q.pre /\ ~tag("</par") THEN ParseText([q EXCEPT !.pre = FALSE], e)
     ELSE IF ~IsTag(e) THEN ParseText(q, e)
     ELSE ParseTag(IF q.pre THEN ParseRaw(EndCollected(q))
                   ELSE IF tag("<par") THEN [q EXCEPT !.pre = TRUE, !.prepar = e[2], !.prebuf = <<>>]
                   ELSE q, e)

\* The text before the first call goes out first; a call that was left open is
\* ended when the next one starts.
SayText(q) == [EmitText(q, q.txt) EXCEPT !.txt = <<>>]
BeforeCall(q, e) ==
  LET starts(S) == IsTag(e) /\ e[1] \in S /\ ~q.pre
  IN IF starts({"<call", "<fn"}) /\ q.idx = 0 /\ q.txt # <<>> THEN SayText(q)
     ELSE IF starts({"<call"}) /\ q.idx > 0 /\ q.call # 0
     THEN Reset(EmitCall(CloseFn(ClosePar(q)), "", <<>>))
     ELSE q

Parsed(q) == IF q.dead THEN q ELSE [q EXCEPT !.found = TRUE]
Element(q, e) ==
  IF Skipped(q, e) THEN [q EXCEPT !.txt = @ \o e] ELSE Parsed(ParsePre(BeforeCall(q, e), e))

RECURSIVE Process(_)
Process(q) ==
  LET n == ElementLen(q)
  IN IF n = 0 THEN q
     ELSE Process(Element([q EXCEPT !.buf = SubSeq(@, n + 1, Len(@))], SubSeq(q.buf, 1, n)))

\* End tags the XML parser has not answered are made up for.
HasClose(q, shut) == \E i \in DOMAIN q.deltas : q.deltas[i].id = q.call /\ q.deltas[i].args \in shut
AfterFound(q, chunk) ==
  LET r == IF q.call # 0 /\ Holds(chunk, FnEnd) /\ ~HasClose(q, {<<"}">>, <<"{", "}">>})
           THEN CloseFn(ClosePar(q)) ELSE q
  IN IF q.call # 0 /\ Holds(chunk, CallEnd) /\ ~HasClose(q, {<<>>})
     THEN EndCall(CloseFn(ClosePar(r))) ELSE r

AfterNone(q, chunk) ==
  IF q.txt # <<>> /\ q.idx = 0 THEN SayText(q)
  ELSE IF q.call = 0 THEN q
  ELSE LET f == Holds(chunk, FnEnd)
           c == Holds(chunk, CallEnd)
           r == IF f \/ c THEN ClosePar(q) ELSE q
           s == IF f THEN CloseFn(r) ELSE r
       IN IF c THEN EndCall(s) ELSE s

\* parse_single_streaming_chunks: the parser after a chunk; its deltas answer it.
Missed(q, chunk) == IF q.found THEN AfterFound(q, chunk) ELSE AfterNone(q, chunk)
Chunk(q, chunk) == Missed(Process([q EXCEPT !.buf = @ \o chunk, !.deltas = <<>>, !.found = FALSE]), chunk)

----------------------------------------------------------------------------
\* The text of a sequence of items: <<"text", atoms>>, or <<"call", function,
\* parameters>> with a pair of name and value per parameter.
RenderItem(i) ==
  IF i[1] = "text" THEN i[2]
  ELSE <<"<call", "call>", "<fn", i[2]>>
       \o FlattenSeq([k \in DOMAIN i[3] |-> <<"<par", i[3][k][1]>> \o i[3][k][2] \o <<"</par", "/par>">>])
       \o FnEnd \o CallEnd
Render(t) == FlattenSeq([k \in DOMAIN t |-> RenderItem(t[k])])

\* extract_tool_calls: the whole text as one chunk; calls without a name are dropped.
Calls(cs) == [k \in DOMAIN cs |-> [name |-> cs[k].name, args |-> cs[k].args]]
Named(r) == [content |-> r.content, calls |-> Calls(SelectSeq(r.calls, LAMBDA c : c.name # ""))]
OneShot(t) == Named(Response(Chunk(Fresh(0), Render(t)).deltas))

\* The client appends by index.
Receive(r) ==
  /\ content' = content \o r.content
  /\ calls' = FoldLeft(LAMBDA acc, c :
       IF c.idx > Len(acc) THEN Append(acc, [name |-> c.name, args |-> c.args])
       ELSE [acc EXCEPT ![c.idx].name = IF c.name # "" THEN c.name ELSE @, ![c.idx].args = @ \o c.args],
       calls, r.calls)

Init ==
  /\ text \in Texts /\ at = 0 /\ p = Fresh(0)
  /\ content = <<>> /\ calls = <<>> /\ streams = 1

\* extract_tool_calls_streaming: the next n atoms of the text.
Feed(n) ==
  /\ at + n <= Len(Render(text))
  /\ p' = Chunk(IF at = 0 THEN Fresh(p.ids) ELSE p, SubSeq(Render(text), at + 1, at + n))
  /\ Receive(Response(p'.deltas))
  /\ at' = at + n
  /\ UNCHANGED <<text, streams>>

\* Tokens without text: an empty delta for the last call when all calls have ended.
FeedNothing ==
  LET q == IF at = 0 THEN Fresh(p.ids) ELSE p
      fed == SubSeq(Render(text), 1, at)
      count(e) == Cardinality({i \in 1 .. at - 1 : SubSeq(fed, i, i + 1) = e})
      open == count(<<"<call", "call>">>) - count(CallEnd)
  IN /\ IF open = 0 /\ q.idx > 0
        THEN /\ p' = q
             /\ Receive(Response(<<[id |-> IF q.call # 0 THEN q.call ELSE q.last, idx |-> q.idx,
                                    name |-> "", args |-> <<>>, content |-> <<>>]>>))
        ELSE /\ p' = Chunk(q, <<>>)
             /\ Receive(Response(p'.deltas))
     /\ UNCHANGED <<text, at, streams>>

\* The stream ends or is given up; the parser is used for the next one.
NewStream ==
  /\ streams < MaxStreams
  /\ text' \in Texts /\ at' = 0 /\ content' = <<>> /\ calls' = <<>>
  /\ streams' = streams + 1
  /\ UNCHANGED p

Next == (\E n \in 1 .. MaxChunk : Feed(n)) \/ FeedNothing \/ NewStream

Spec == Init /\ [][Next]_vars

----------------------------------------------------------------------------
\* What the calls of a text say: one newline on each side of a value is layout.
Strip(v) ==
  LET w == IF v # <<>> /\ v[1] = NL THEN Tail(v) ELSE v IN
  IF w # <<>> /\ w[Len(w)] = NL THEN Front(w) ELSE w
Meant(type, v) ==
  CASE type = "array" -> Literal(v)
    [] type = "string" -> <<"q">> \o Strip(v) \o <<"q">>
    [] OTHER -> Converted(type, Strip(v))
MeantCall(i) ==
  [name |-> i[2],
   args |-> (IF i[3] = <<>> THEN <<"{">> ELSE <<>>)
            \o FlattenSeq([k \in DOMAIN i[3] |->
                 <<IF k = 1 THEN "{" ELSE ",", i[3][k][1]>> \o Meant(TypeOf[i[3][k][1]], i[3][k][2])])
            \o <<"}">>]
MeantCalls(t) ==
  LET cs == SelectSeq(t, LAMBDA i : i[1] = "call") IN [k \in DOMAIN cs |-> MeantCall(cs[k])]

\* Types of the variables and of the fields that steer the parser.
TypeOK ==
  /\ text \in Texts /\ at \in 0 .. Len(Render(text)) /\ streams \in 1 .. MaxStreams
  /\ {p.fopen, p.endnl, p.quote, p.pre, p.defer, p.over, p.dead} \subseteq BOOLEAN
  /\ p.call \in 0 .. p.ids /\ p.idx <= p.ids /\ p.last \in 0 .. p.ids
  /\ p.stack \in Seq({"<call", "<fn", "<par"}) /\ (p.call = 0 => p.par = "" /\ p.fn = "" /\ p.stack = <<>>)
  /\ Len(calls) = IF at = 0 THEN 0 ELSE Cardinality({k \in DOMAIN calls : calls[k].name # ""})

Fed == at = Len(Render(text))

\* extract_tool_calls_streaming, over all cuts of a text into chunks, adds up
\* to the content and the calls extract_tool_calls finds in the whole text.
StreamedAsOneShot ==
  Fed => [content |-> content, calls |-> calls] = OneShot(text)

\* And those are the calls the model wrote, each with one JSON object.
CallsMeant == Fed => calls = MeantCalls(text)

\* Nothing half known is streamed: at any time the calls are a prefix of the
\* calls of the text, their arguments a prefix of the arguments.
NoFalseStart ==
  LET m == MeantCalls(text) IN
  \A k \in DOMAIN calls : /\ k <= Len(m) /\ calls[k].name = m[k].name /\ IsPrefix(calls[k].args, m[k].args)
                          /\ k < Len(calls) => calls[k] = m[k]
=============================================================================
