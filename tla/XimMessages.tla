---------------------------- MODULE XimMessages ----------------------------
(***************************************************************************)
(* The messages of the XIM server and how its handlers read and write      *)
(* them: a handler is the sequence of calls it makes to the frame manager, *)
(* one call a step.  What is written must be what the template says, with  *)
(* every field where a client looks for it; what a client has laid out     *)
(* must be read as it was meant.  All messages, in both byte orders, are   *)
(* gone through with strings and lists of every length up to the bounds.   *)
(***************************************************************************)
EXTENDS XimValues

CONSTANTS
    MaxLen,         \* bound: bytes of a string
    MaxList         \* bound: elements of a list

VARIABLES
    msg,        \* the message: its calls, and what they should come to
    pc,         \* the next call
    fm,         \* the frame manager of the message
    asked,      \* the size last asked for, or the token last read
    got         \* the tokens read

vars == <<msg, pc, fm, asked, got>>

---------------------------------------------------------------------------
(* Calls. *)

Call(op, v) == [op |-> op, v |-> v]
Put(v) == Call("put", v)
Puts(vs) == [i \in DOMAIN vs |-> Put(vs[i])]
Count(els) == <<Call("count", Len(els))>>
Sizes(strings) == [i \in DOMAIN strings |-> Call("size", Len(strings[i]))]
AllocOnly == <<Call("alloc", Junk)>>
Alloc == <<Call("alloc", 0)>>       \* malloc, filled with zeros
Each(els, Calls(_)) == FlattenSeq([i \in DOMAIN els |-> Calls(els[i])])

Get == Call("get", 0)
GetSized == <<Get, Call("sizeAsked", 0), Get>>

\* while (FrameMgrIsIterLoopEnd (..) == False) body
Loop(body) == <<Call("until", Len(body) + 1)>> \o body \o <<Call("again", Len(body) + 1)>>

\* if (byte_length > 0) body
IfAny(body) == <<Call("ifAny", Len(body))>> \o body

Writes(frame, calls, values, byte_swap) ==
    [frame |-> frame, calls |-> calls, byte_swap |-> byte_swap, reads |-> FALSE,
     wire |-> Layout(frame, values, byte_swap), tokens |-> <<>>]
Reads(frame, calls, values, tokens, byte_swap) ==
    [frame |-> frame, calls |-> calls, byte_swap |-> byte_swap, reads |-> TRUE,
     wire |-> Layout(frame, values, byte_swap), tokens |-> tokens]

\* Messages without lists or arrays.
PlainWrites(frame, vs, sw) == Writes(frame, Alloc \o Puts(vs), vs, sw)
Tokens(vs) == [i \in DOMAIN vs |-> <<vs[i]>>]
PlainReads(frame, vs, sw) == Reads(frame, [i \in DOMAIN vs |-> Get], vs, Tokens(vs), sw)

---------------------------------------------------------------------------
(* Values to tell apart: identities, words, and strings of n bytes. *)

Im == 258
Ic == 772
Word(i) == 65536 * i + 256 * (i + 1) + i + 2
String(n) == [i \in 1 .. n |-> 100 + i]
Attr(n) == <<n + 513, 2, n, String(n)>>         \* identity, type, length, name
Value(n) == <<n + 769, n, String(n)>>           \* identity, length, value
Map(ns, Op(_)) == [i \in DOMAIN ns |-> Op(ns[i])]
Last4(e) == e[4]
Last3(e) == e[3]

---------------------------------------------------------------------------
(* What the server writes. *)

\* _Xi18nSendMessage: the length is told in units of four bytes.
SendMessage(n, sw) ==
    Writes(packet_header_fr, AllocOnly \o Puts(<<7, 0, n \div 4>>), <<7, 0, n \div 4>>, sw)

ConnectReply(sw) == PlainWrites(connect_reply_fr, <<1, 0>>, sw)

\* OpenMessageProc: lists of attributes, written with the sizes asked back.
PutAttr(e) == <<Call("ask", 0), Put(e[1]), Put(e[2]), Call("putAsked", 0), Put(e[4])>>
OpenReply(im, ic, sw) ==
    LET ims == Map(im, Attr)
        ics == Map(ic, Attr)
    IN  Writes(open_reply_fr,
               Count(ims) \o Sizes(Map(ims, Last4)) \o Count(ics) \o Sizes(Map(ics, Last4))
                 \o Alloc \o <<Put(Im)>> \o Each(ims, PutAttr) \o Each(ics, PutAttr),
               <<Im, ListBytes(POINTER(ximattr_fr), ims), ims,
                 ListBytes(POINTER(xicattr_fr), ics), ics>>, sw)

CloseReply(sw) == PlainWrites(close_reply_fr, <<Im>>, sw)

\* _Xi18nSendTriggerKey, for n keys that turn on and m keys that turn off.
TriggerKeys(n, m, sw) ==
    LET keys(k) == [i \in 1 .. k |-> <<Word(i), 1, Word(k)>>]
        length(k) == ListBytes(POINTER(ximtriggerkey_fr), keys(k))
    IN  Writes(register_triggerkeys_fr,
               Count(keys(n)) \o Count(keys(m)) \o Alloc \o <<Put(0)>>
                 \o Each(keys(n), Puts) \o Each(keys(m), Puts),
               <<0, length(n), keys(n), length(m), keys(m)>>, sw)

SetEventMask(sw) == PlainWrites(set_event_mask_fr, <<Im, Ic, Word(1), Word(2)>>, sw)
EncodingNegotiationReply(sw) == PlainWrites(encoding_negotiation_reply_fr, <<Im, 0, 1>>, sw)

PutExt(e) == <<Call("ask", 0), Put(e[1]), Put(e[2]), Call("putAsked", 0), Put(e[4])>>
QueryExtensionReply(ns, sw) ==
    LET exts == Map(ns, LAMBDA n: <<128 + n, n, n, String(n)>>)
    IN  Writes(query_extension_reply_fr,
               Count(exts) \o Sizes(Map(exts, Last4)) \o Alloc \o <<Put(Im)>> \o Each(exts, PutExt),
               <<Im, ListBytes(POINTER(ext_fr), exts), exts>>, sw)

\* GetIMValueFromName: the input styles, a value in a format of its own.
InputStyles(k, sw) ==
    LET styles == [i \in 1 .. k |-> <<Word(i)>>]
    IN  Writes(input_styles_fr, Count(styles) \o Alloc \o <<Put(k)>> \o Each(styles, Puts),
               <<k, styles>>, sw)

GetImValuesReply(ns, sw) ==
    LET attrs == Map(ns, Value)
    IN  Writes(get_im_values_reply_fr,
               Count(attrs) \o Sizes(Map(attrs, Last3)) \o Alloc \o <<Put(Im)>> \o Each(attrs, Puts),
               <<Im, ListBytes(POINTER(ximattribute_fr), attrs), attrs>>, sw)

\* _Xi18nGetIC: an answer for each identity, then the nested lists.
Asked(asks) == FlattenSeq(asks)
Heads(ids, sw) == Layout(<<ITER(POINTER(attr_head_fr))>>, <<Map(ids, LAMBDA id: <<id, 0>>)>>, sw)
Nested(asks, id, sw) ==
    LET nested == FlattenSeq([i \in DOMAIN asks |->
                                IF asks[i][1] = id THEN SubSeq(asks[i], 2, Len(asks[i]) - 1) ELSE <<>>])
    IN  IF nested = <<>> THEN <<>> ELSE <<<<id, 4 * Len(nested), Heads(nested, sw)>>>>
TopLevel(asks, sw) ==
    Each(asks, LAMBDA ask: CASE ask[1] = FilterEvents   -> <<<<FilterEvents, 4, Bytes(KeyPressMask, 4, sw)>>>>
                             [] IsNestedList(ask[1])    -> <<<<SeparatorofNestedList, 0, <<>>>>>>
                             [] OTHER                   -> <<<<ask[1], 0, <<>>>>>>)
GetIcValuesReply(asks, sw) ==
    LET attrs == Map(IcAnswers(Asked(asks), sw), LAMBDA e: <<e[1], Len(e[2]), e[2]>>)
        meant == TopLevel(asks, sw) \o Nested(asks, PreeditAttributes, sw)
                   \o Nested(asks, StatusAttributes, sw)
    IN  Writes(get_ic_values_reply_fr,
               Count(attrs) \o Sizes(Map(attrs, Last3)) \o Alloc \o <<Put(Im), Put(Ic)>>
                 \o Each(attrs, Puts),
               <<Im, Ic, ListBytes(POINTER(xicattribute_fr), meant), meant>>, sw)

CreateIcReply(sw) == PlainWrites(ids_fr, <<Im, Ic>>, sw)
DestroyIcReply(sw) == PlainWrites(ids_fr, <<Im, Ic>>, sw)
TriggerNotifyReply(sw) == PlainWrites(ids_fr, <<Im, Ic>>, sw)
SyncXlib(sw) == PlainWrites(ids_fr, <<Im, Ic>>, sw)
GeometryCallback(sw) == PlainWrites(ids_fr, <<Im, Ic>>, sw)
PreeditStartCallback(sw) == PlainWrites(ids_fr, <<Im, Ic>>, sw)
PreeditDoneCallback(sw) == PlainWrites(ids_fr, <<Im, Ic>>, sw)
StatusStartCallback(sw) == PlainWrites(ids_fr, <<Im, Ic>>, sw)
StatusDoneCallback(sw) == PlainWrites(ids_fr, <<Im, Ic>>, sw)

\* xi18n_forwardEvent and the event that follows it.
ForwardEvent(sw) == PlainWrites(forward_event_fr, <<Im, Ic, 1, 513>>, sw)
EventToWireEvent(sw) ==
    PlainWrites(wire_keyevent_fr,
                <<2, 38, 513, Word(1), Word(2), Word(3), Word(4), 11, 12, 13, 14, 4, 1>>, sw)

\* Mutant: the buffer is allocated before the length of the text is set.
CommitCharsEarly(n, sw) ==
    Writes(commit_chars_fr,
           Alloc \o <<Call("size", n), Call("ask", 0)>> \o Puts(<<Im, Ic, 3>>)
             \o <<Call("putAsked", 0), Put(String(n))>>,
           <<Im, Ic, 3, n, String(n)>>, sw)

\* xi18n_commit, of text alone and of a key symbol with text.
CommitChars(n, sw) ==
    Writes(commit_chars_fr,
           <<Call("size", n)>> \o Alloc \o <<Call("ask", 0)>> \o Puts(<<Im, Ic, 3>>)
             \o <<Call("putAsked", 0), Put(String(n))>>,
           <<Im, Ic, 3, n, String(n)>>, sw)
CommitBoth(n, sw) ==
    Writes(commit_both_fr,
           <<Call("size", n)>> \o AllocOnly \o Puts(<<Im, Ic, 7, Word(1)>>)
             \o <<Call("ask", 0), Call("putAsked", 0), Put(String(n))>>,
           <<Im, Ic, 7, Word(1), n, String(n)>>, sw)

ResetIcReply(n, sw) ==
    Writes(reset_ic_reply_fr, <<Call("size", n)>> \o Alloc \o Puts(<<Im, Ic, n, String(n)>>),
           <<Im, Ic, n, String(n)>>, sw)

\* The text of a preedit or status area, with a feedback for some of it.
PreeditDrawCallback(n, k, sw) ==
    LET feedback == [i \in 1 .. k |-> Word(i)]
        head == <<Im, Ic, Word(5), 0, n, IF n = 0 THEN 1 ELSE IF k = 0 THEN 2 ELSE 0, n, String(n)>>
    IN  Writes(preedit_draw_fr,
               <<Call("size", n)>> \o Count(feedback) \o Alloc \o Puts(head) \o Puts(feedback),
               head \o <<4 * k, feedback>>, sw)
StatusDrawText(n, k, sw) ==
    LET feedback == [i \in 1 .. k |-> Word(i)]
        head == <<Im, Ic, 0, IF n = 0 THEN 1 ELSE IF k = 0 THEN 2 ELSE 0, n, String(n)>>
    IN  Writes(status_draw_text_fr,
               <<Call("size", n)>> \o Count(feedback) \o Alloc \o Puts(head) \o Puts(feedback),
               head \o <<4 * k, feedback>>, sw)
\* The type of the bitmap is not written.
StatusDrawBitmap(sw) ==
    Writes(status_draw_bitmap_fr, Alloc \o Puts(<<Im, Ic, Word(1)>>), <<Im, Ic, 1, Word(1)>>, sw)

PreeditCaretCallback(sw) == PlainWrites(preedit_caret_fr, <<Im, Ic, Word(1), 2, 1>>, sw)

\* The lengths at the end of the template stay zero.
StrConversionCallback(sw) ==
    Writes(str_conversion_fr, Alloc \o Puts(<<Im, Ic, Word(1), 2, 1>>),
           <<Im, Ic, Word(1), 2, 1, 0, 0>>, sw)

---------------------------------------------------------------------------
(* What the server reads. *)

\* Only what comes before the names is read.
Connect(sw) ==
    LET names == <<<<2, String(2)>>>>
    IN  Reads(connect_fr, <<Get, Get, Get>>,
              <<66, 1, 0, ListBytes(POINTER(xpcs_fr), names), names>>, Tokens(<<66, 1, 0>>), sw)

\* The tokens of a string with its length.
Sized(n) == <<<<n>>, String(n)>>

Open(n, sw) == Reads(open_fr, GetSized, <<<<n, String(n)>>>>, Sized(n), sw)
Close(sw) == PlainReads(close_fr, <<Im>>, sw)

Strings(ns) == Map(ns, LAMBDA n: <<n, String(n)>>)
QueryExtension(ns, sw) ==
    LET names == Strings(ns)
        length == ListBytes(POINTER(str_fr), names)
    IN  Reads(query_extension_fr, <<Get, Get>> \o Loop(GetSized), <<Im, length, names>>,
              Tokens(<<Im, length>>) \o Each(ns, Sized), sw)

\* EncodingNegotiatonMessageProc: neither list is gone into when it is empty.
EncodingNegotiation(ns, ms, sw) ==
    LET names == Strings(ns)
        infos == Strings(ms)
        length == ListBytes(POINTER(str_fr), names)
        info_length == ListBytes(POINTER(encodinginfo_fr), infos)
    IN  Reads(encoding_negotiation_fr,
              <<Get, Get>> \o IfAny(Loop(GetSized)) \o <<Get>> \o IfAny(Loop(GetSized)),
              <<Im, length, names, info_length, infos>>,
              Tokens(<<Im, length>>) \o Each(ns, Sized) \o Tokens(<<info_length>>)
                \o Each(ms, Sized), sw)

GetImValues(ids, sw) ==
    Reads(get_im_values_fr, <<Get, Get>> \o Loop(<<Get>>),
          <<Im, 2 * Len(ids), ids>>, Tokens(<<Im, 2 * Len(ids)>> \o ids), sw)
GetIcValues(ids, sw) ==
    Reads(get_ic_values_fr, <<Get, Get, Get>> \o Loop(<<Get>>),
          <<Im, Ic, 2 * Len(ids), ids>>, Tokens(<<Im, Ic, 2 * Len(ids)>> \o ids), sw)

\* Values by their types, as a client lays them out.
TypeOf(id) == CASE id = InputStyle -> long_fr [] id = FontSet -> fontset_fr
                [] id = Area -> xrectangle_fr [] id = SpotLocation -> xpoint_fr
FontName(n) == [id |-> FontSet, v |-> <<n, String(n)>>]
Card == [id |-> InputStyle, v |-> <<Word(9)>>]
Rectangle == [id |-> Area, v |-> <<257, 2, 770, 40>>]
Point == [id |-> SpotLocation, v |-> <<300, 4>>]

ValueIn(a, sw) == Layout(TypeOf(a.id), a.v, sw)
Laid(a, sw) == <<a.id, Len(ValueIn(a, sw)), ValueIn(a, sw)>>
LaidNested(id, as, sw) ==
    LET list == Layout(<<ITER(POINTER(xicattribute_fr))>>, <<Map(as, LAMBDA a: Laid(a, sw))>>, sw)
    IN  <<id, Len(list), list>>
TokensIn(a) == <<a.id, [i \in DOMAIN a.v |-> IF a.id = FontSet /\ i = 2 THEN a.v[i] ELSE <<a.v[i]>>]>>

\* _Xi18nChangeIC, which serves two messages: the values are read once all
\* attributes have been taken out of the message.
ChangedIc(as, nested, sw) ==
    Map(as, LAMBDA a: Laid(a, sw))
      \o (IF nested = <<>> THEN <<>> ELSE <<LaidNested(PreeditAttributes, nested, sw)>>)
CreateIc(as, nested, sw) ==
    LET attrs == ChangedIc(as, nested, sw)
        length == ListBytes(POINTER(xicattribute_fr), attrs)
    IN  Reads(create_ic_fr, <<Get, Get>> \o Loop(<<Get>> \o GetSized) \o <<Call("values", 2)>>,
              <<Im, length, attrs>>, Tokens(<<Im, length>>) \o Map(as \o nested, TokensIn), sw)
SetIcValues(as, nested, sw) ==
    LET attrs == ChangedIc(as, nested, sw)
        length == ListBytes(POINTER(xicattribute_fr), attrs)
    IN  Reads(set_ic_values_fr, <<Get, Get, Get>> \o Loop(<<Get>> \o GetSized) \o <<Call("values", 3)>>,
              <<Im, Ic, length, attrs>>,
              Tokens(<<Im, Ic, length>>) \o Map(as \o nested, TokensIn), sw)

SetIcFocus(sw) == PlainReads(ids_fr, <<Im, Ic>>, sw)
UnsetIcFocus(sw) == PlainReads(ids_fr, <<Im, Ic>>, sw)
DestroyIc(sw) == PlainReads(ids_fr, <<Im, Ic>>, sw)
ResetIc(sw) == PlainReads(ids_fr, <<Im, Ic>>, sw)
SyncReply(sw) == PlainReads(ids_fr, <<Im, Ic>>, sw)
TriggerNotify(sw) == PlainReads(trigger_notify_fr, <<Im, Ic, 0, 1, Word(1)>>, sw)
ForwardedEvent(sw) == PlainReads(forward_event_fr, <<Im, Ic, 1, 513>>, sw)
WireEventToEvent(sw) ==
    PlainReads(wire_keyevent_fr,
               <<2, 38, 513, Word(1), Word(2), Word(3), Word(4), 11, 12, 13, 14, 4, 1>>, sw)
ExtForwardKeyEvent(sw) ==
    PlainReads(ext_forward_keyevent_fr, <<Im, Ic, 1, 513, 2, 38, 4, Word(1), Word(2)>>, sw)
ExtMove(sw) == PlainReads(ext_move_fr, <<Im, Ic, 300, 400>>, sw)
PreeditStartReply(sw) == PlainReads(preedit_start_reply_fr, <<Im, Ic, Word(1)>>, sw)
PreeditCaretReply(sw) == PlainReads(preedit_caret_reply_fr, <<Im, Ic, Word(1)>>, sw)

---------------------------------------------------------------------------
(* Running a handler. *)

Length == 0 .. MaxLen
Lists == BoundedSeq(Length, MaxList)
NonEmpty == Lists \ {<<>>}
Few == BoundedSeq({0, 1, 3}, MaxList)       \* for messages with two lists
Ids(ns) == [i \in DOMAIN ns |-> 513 + ns[i]]
Values == {Card, Rectangle, Point} \cup {FontName(n): n \in {0, 2, 3}}
\* What a client asks for: a nested list ends with a separator.
Asks == {<<FilterEvents>>, <<InputStyle>>}
          \cup {<<id>> \o s \o <<SeparatorofNestedList>>: id \in {PreeditAttributes, StatusAttributes},
                                                        s \in {<<Area>>, <<InputStyle, Area>>}}

\* The messages the server writes, without and with strings or lists.
WritesPlain(sw) ==
    \/ msg = ConnectReply(sw) \/ msg = CloseReply(sw) \/ msg = SetEventMask(sw)
    \/ msg = EncodingNegotiationReply(sw) \/ msg = CreateIcReply(sw)
    \/ msg = DestroyIcReply(sw) \/ msg = TriggerNotifyReply(sw) \/ msg = SyncXlib(sw)
    \/ msg = GeometryCallback(sw) \/ msg = PreeditStartCallback(sw)
    \/ msg = PreeditDoneCallback(sw) \/ msg = StatusStartCallback(sw)
    \/ msg = StatusDoneCallback(sw) \/ msg = ForwardEvent(sw) \/ msg = EventToWireEvent(sw)
    \/ msg = StatusDrawBitmap(sw) \/ msg = PreeditCaretCallback(sw)
    \/ msg = StrConversionCallback(sw)
    \/ \E n \in {0, 4, 1024, 2052}: msg = SendMessage(n, sw)

WritesMore(sw) ==
    \/ \E im, ic \in Few: msg = OpenReply(im, ic, sw)
    \/ \E n \in 1 .. MaxList, m \in 0 .. MaxList: msg = TriggerKeys(n, m, sw)
    \/ \E k \in 0 .. MaxList: msg = InputStyles(k, sw)
    \/ \E ns \in Lists: \/ msg = QueryExtensionReply(ns, sw)
                        \/ msg = GetImValuesReply(ns, sw)
    \/ \E asks \in BoundedSeq(Asks, MaxList): asks # <<>> /\ msg = GetIcValuesReply(asks, sw)
    \/ \E n \in Length: \/ msg = CommitChars(n, sw)
                        \/ n > 0 /\ msg = CommitBoth(n, sw)
                        \/ msg = ResetIcReply(n, sw)
    \/ \E n \in Length, k \in 0 .. MaxList: \/ msg = PreeditDrawCallback(n, k, sw)
                                            \/ msg = StatusDrawText(n, k, sw)

\* The messages the clients write.  Xlib leaves no list empty but the second
\* one of encodings.
ReadsPlain(sw) ==
    \/ msg = Connect(sw) \/ msg = Close(sw) \/ msg = SetIcFocus(sw) \/ msg = UnsetIcFocus(sw)
    \/ msg = DestroyIc(sw) \/ msg = ResetIc(sw) \/ msg = SyncReply(sw)
    \/ msg = TriggerNotify(sw) \/ msg = ForwardedEvent(sw) \/ msg = WireEventToEvent(sw)
    \/ msg = ExtForwardKeyEvent(sw) \/ msg = ExtMove(sw) \/ msg = PreeditStartReply(sw)
    \/ msg = PreeditCaretReply(sw)

ReadsMore(sw) ==
    \/ \E n \in Length: msg = Open(n, sw)
    \/ \E ns \in NonEmpty: \/ msg = QueryExtension(ns, sw)
                           \/ msg = GetImValues(Ids(ns), sw)
                           \/ msg = GetIcValues(Ids(ns), sw)
    \/ \E as, nested \in BoundedSeq(Values, 2):
          as # <<>> /\ (msg = CreateIc(as, nested, sw) \/ msg = SetIcValues(as, nested, sw))
    \/ \E ns, ms \in Few: ns # <<>> /\ msg = EncodingNegotiation(ns, ms, sw)

Init ==
    /\ \E sw \in BOOLEAN: WritesPlain(sw) \/ WritesMore(sw) \/ ReadsPlain(sw) \/ ReadsMore(sw)
    /\ pc = 1
    /\ fm = FrameMgrInit(msg.frame, IF msg.reads THEN msg.wire ELSE <<>>, msg.byte_swap)
    /\ asked = NO_VALUE
    /\ got = <<>>

Calls(op) ==
    /\ pc \in DOMAIN msg.calls
    /\ msg.calls[pc].op = op
    /\ UNCHANGED msg

Arg == msg.calls[pc].v

Went(by) == pc' = pc + by

SetIterCount ==
    /\ Calls("count")
    /\ LET r == FrameInstSetIterCount(fm.fi, Arg)
       IN  fm' = [fm EXCEPT !.fi = r.x, !.status = IF r.ok THEN @ ELSE "FmNoMoreData"]
    /\ Went(1)
    /\ UNCHANGED <<asked, got>>

SetSizeTo(n) ==
    LET r == FrameInstSetSize(fm.fi, n)
    IN  fm' = [fm EXCEPT !.fi = r.x, !.status = IF r.ok THEN @ ELSE "FmNoMoreData"]

SetSize ==
    /\ \/ Calls("size") /\ SetSizeTo(Arg)
       \/ Calls("sizeAsked") /\ SetSizeTo(asked)
    /\ Went(1)
    /\ UNCHANGED <<asked, got>>

\* FrameMgrGetTotalSize, malloc and FrameMgrSetBuffer.
Allocate ==
    /\ Calls("alloc")
    /\ fm' = [fm EXCEPT !.area = [i \in 1 .. FrameInstGetTotalSize(fm.fi) |-> Arg]]
    /\ Went(1)
    /\ UNCHANGED <<asked, got>>

AskSize ==
    /\ Calls("ask")
    /\ asked' = FrameMgrGetSize(fm)
    /\ Went(1)
    /\ UNCHANGED <<fm, got>>

PutToken ==
    /\ \/ Calls("put") /\ fm' = FrameMgrPutToken(fm, Arg)
       \/ Calls("putAsked") /\ fm' = FrameMgrPutToken(fm, asked)
    /\ Went(1)
    /\ UNCHANGED <<asked, got>>

GetToken ==
    /\ Calls("get")
    /\ LET r == FrameMgrGetToken(fm)
       IN  /\ fm' = r.fm
           /\ asked' = IF r.token = <<>> THEN 0 ELSE r.token[1]
           /\ got' = Append(got, r.token)
    /\ Went(1)

\* The values of the attributes, three tokens each, that follow the first n.
ReadValues ==
    /\ Calls("values")
    /\ LET attr(i) == SubSeq(got, Arg + 3 * i - 2, Arg + 3 * i)
           values(a) == ReadICValue(a[1][1], a[2][1], a[3], msg.byte_swap)
       IN  got' = SubSeq(got, 1, Arg) \o FlattenSeq([i \in 1 .. (Len(got) - Arg) \div 3 |-> values(attr(i))])
    /\ Went(1)
    /\ UNCHANGED <<fm, asked>>

\* The head of a loop over the elements of a list.
LoopHead ==
    /\ Calls("until")
    /\ LET r == FrameMgrIsIterLoopEnd(fm)
       IN  /\ fm' = r.fm
           /\ Went(IF r.end THEN Arg + 1 ELSE 1)
    /\ UNCHANGED <<asked, got>>

LoopBack ==
    /\ Calls("again")
    /\ Went(-Arg)
    /\ UNCHANGED <<fm, asked, got>>

Guarded ==
    /\ Calls("ifAny")
    /\ Went(IF asked > 0 THEN 1 ELSE Arg + 1)
    /\ UNCHANGED <<fm, asked, got>>

Finished == pc > Len(msg.calls)

\* The message is sent, or handed on; what was read is used elsewhere.
Done == Finished /\ UNCHANGED vars

Next ==
    \/ SetIterCount \/ SetSize \/ Allocate \/ AskSize \/ PutToken
    \/ GetToken \/ ReadValues \/ LoopHead \/ LoopBack \/ Guarded \/ Done

Spec == Init /\ [][Next]_vars

---------------------------------------------------------------------------
(* Properties. *)

\* The sizes a handler announces leave room for all it then writes, and no
\* message is read past its end: FrameMgr checks neither.  Every call finds a
\* field that takes it: none of the statuses the handlers ignore is an error.
\* And a header counts in units of four bytes: no message has a rest.
WithinBuffer ==
    /\ fm.area # <<>> => fm.idx <= Len(fm.area)
    /\ fm.status = "FmSuccess"
    /\ Finished /\ ~msg.reads /\ msg.frame # wire_keyevent_fr => Len(fm.area) % 4 = 0

Meant(area) == \A i \in DOMAIN msg.wire: msg.wire[i] # Junk => area[i] = msg.wire[i]

\* A message has the length and the bytes its template lays down, whatever
\* the lengths of strings and lists, the counters of lists included that
\* are empty and so never written.
WrittenAsFramed ==
    Finished /\ ~msg.reads /\ msg.frame # status_draw_bitmap_fr
        => Len(fm.area) = Len(msg.wire) /\ Meant(fm.area)

\* A message is read token by token as the client meant it: lists end with
\* their last element, wherever padding lies, and what follows is found.
ReadAsMeant == Finished /\ msg.reads => got = msg.tokens
=============================================================================
