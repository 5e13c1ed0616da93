----------------------------- MODULE XimValues -----------------------------
(***************************************************************************)
(* The values of input contexts inside messages (i18nIc.c): a value has    *)
(* the type of its attribute, and the preedit and status areas are lists   *)
(* of attributes nested in a value, each gone through with a frame manager *)
(* of its own.                                                             *)
(***************************************************************************)
EXTENDS FrameMgr

(***************************************************************************)
(* The templates of the messages the server reads and writes               *)
(* (i18nIMProto.c), field by field, and what a message laid out by a       *)
(* template looks like: Layout puts the fields one after the other without *)
(* cursors, sizes set beforehand or counters watched.                      *)
(***************************************************************************)
PAD4(number) == PAD(4, number)
PAD2(number) == PAD(2, number)

ximattr_fr == <<BIT(2), BIT(2), BIT(2), BARRAY, PAD4(2)>>
xicattr_fr == <<BIT(2), BIT(2), BIT(2), BARRAY, PAD4(2)>>
ximattribute_fr == <<BIT(2), BIT(2), BARRAY, PAD4(1)>>
xicattribute_fr == <<BIT(2), BIT(2), BARRAY, PAD4(1)>>
ximtriggerkey_fr == <<BIT(4), BIT(4), BIT(4)>>
encodinginfo_fr == <<BIT(2), BARRAY, PAD4(2)>>
str_fr == <<BIT(1), BARRAY>>
ext_fr == <<BIT(1), BIT(1), BIT(2), BARRAY, PAD4(1)>>
inputstyle_fr == <<BIT(4)>>
\* The template of the names in a connection request has no EOL: the server
\* reads none of them.
xpcs_fr == <<BIT(2), BARRAY, PAD4(2)>>

input_styles_fr == <<BIT(2), PAD4(1), ITER(POINTER(inputstyle_fr))>>
packet_header_fr == <<BIT(1), BIT(1), BIT(2)>>
connect_fr ==
    <<BIT(1), PAD2(1), BIT(2), BIT(2), BYTE_COUNTER(2, 1), ITER(POINTER(xpcs_fr))>>
connect_reply_fr == <<BIT(2), BIT(2)>>
open_fr == <<POINTER(str_fr), PAD4(1)>>
open_reply_fr ==
    <<BIT(2), BYTE_COUNTER(2, 1), ITER(POINTER(ximattr_fr)),
      BYTE_COUNTER(2, 2), PAD4(1), ITER(POINTER(xicattr_fr))>>
close_fr == <<BIT(2), PAD4(1)>>
close_reply_fr == <<BIT(2), PAD4(1)>>
register_triggerkeys_fr ==
    <<BIT(2), PAD4(1), BYTE_COUNTER(4, 1), ITER(POINTER(ximtriggerkey_fr)),
      BYTE_COUNTER(4, 1), ITER(POINTER(ximtriggerkey_fr))>>
trigger_notify_fr == <<BIT(2), BIT(2), BIT(4), BIT(4), BIT(4)>>
set_event_mask_fr == <<BIT(2), BIT(2), BIT(4), BIT(4)>>
encoding_negotiation_fr ==
    <<BIT(2), BYTE_COUNTER(2, 1), ITER(POINTER(str_fr)), PAD4(1),
      BYTE_COUNTER(2, 2), PAD4(1), ITER(POINTER(encodinginfo_fr))>>
encoding_negotiation_reply_fr == <<BIT(2), BIT(2), BIT(2), PAD4(1)>>
query_extension_fr == <<BIT(2), BYTE_COUNTER(2, 1), ITER(POINTER(str_fr)), PAD4(1)>>
query_extension_reply_fr == <<BIT(2), BYTE_COUNTER(2, 1), ITER(POINTER(ext_fr))>>
get_im_values_fr == <<BIT(2), BYTE_COUNTER(2, 1), ITER(BIT(2)), PAD4(1)>>
get_im_values_reply_fr == <<BIT(2), BYTE_COUNTER(2, 1), ITER(POINTER(ximattribute_fr))>>
create_ic_fr == <<BIT(2), BYTE_COUNTER(2, 1), ITER(POINTER(xicattribute_fr))>>
set_ic_values_fr ==
    <<BIT(2), BIT(2), BYTE_COUNTER(2, 2), PAD4(1), ITER(POINTER(xicattribute_fr))>>
get_ic_values_fr == <<BIT(2), BIT(2), BYTE_COUNTER(2, 1), ITER(BIT(2)), PAD4(2)>>
get_ic_values_reply_fr ==
    <<BIT(2), BIT(2), BYTE_COUNTER(2, 2), PAD4(1), ITER(POINTER(xicattribute_fr))>>
forward_event_fr == <<BIT(2), BIT(2), BIT(2), BIT(2)>>
wire_keyevent_fr ==
    <<BIT(1), BIT(1), BIT(2), BIT(4), BIT(4), BIT(4), BIT(4),
      BIT(2), BIT(2), BIT(2), BIT(2), BIT(2), BIT(1)>>
commit_chars_fr == <<BIT(2), BIT(2), BIT(2), BIT(2), BARRAY, PAD4(1)>>
commit_both_fr == <<BIT(2), BIT(2), BIT(2), PAD4(1), BIT(4), BIT(2), BARRAY, PAD4(2)>>
reset_ic_reply_fr == <<BIT(2), BIT(2), BIT(2), BARRAY, PAD4(2)>>
str_conversion_fr == <<BIT(2), BIT(2), BIT(4), BIT(4), BIT(4), BIT(2), BIT(2)>>
preedit_start_reply_fr == <<BIT(2), BIT(2), BIT(4)>>
preedit_draw_fr ==
    <<BIT(2), BIT(2), BIT(4), BIT(4), BIT(4), BIT(4), BIT(2), BARRAY, PAD4(2),
      BYTE_COUNTER(2, 2), PAD4(1), ITER(BIT(4))>>
preedit_caret_fr == <<BIT(2), BIT(2), BIT(4), BIT(4), BIT(4)>>
preedit_caret_reply_fr == <<BIT(2), BIT(2), BIT(4)>>
status_draw_text_fr ==
    <<BIT(2), BIT(2), BIT(4), BIT(4), BIT(2), BARRAY, PAD4(2),
      BYTE_COUNTER(2, 2), PAD4(1), ITER(BIT(4))>>
status_draw_bitmap_fr == <<BIT(2), BIT(2), BIT(4), BIT(4)>>
ext_forward_keyevent_fr ==
    <<BIT(2), BIT(2), BIT(2), BIT(2), BIT(1), BIT(1), BIT(2), BIT(4), BIT(4)>>
ext_move_fr == <<BIT(2), BIT(2), BIT(2), BIT(2)>>
xrectangle_fr == <<BIT(2), BIT(2), BIT(2), BIT(2)>>
xpoint_fr == <<BIT(2), BIT(2)>>
fontset_fr == <<BIT(2), BARRAY, PAD4(2)>>
attr_head_fr == <<BIT(2), BIT(2)>>
short_fr == <<BIT(2)>>
long_fr == <<BIT(4)>>
\* Sixteen of the templates are the two identities and nothing else.
ids_fr == <<BIT(2), BIT(2)>>

---------------------------------------------------------------------------
(* Layout: v has the value of every field that is not padding: a number,   *)
(* bytes, the values of a nested frame, or of the elements of a list.  A   *)
(* counter has the length of its list, in bytes.  Padding goes up to a     *)
(* multiple of its unit from the start of the message, and is Junk.        *)

RECURSIVE LayField(_, _, _, _), LayFrame(_, _, _, _)

LayField(laid, f, v, byte_swap) ==
    CASE f.k \in {"bit", "counter"} -> laid \o Bytes(v, f.w, byte_swap)
      [] f.k = "barray"  -> laid \o v
      [] f.k = "pad"     -> laid \o [i \in 1 .. ((f.unit - (Len(laid) % f.unit)) % f.unit) |-> Junk]
      [] f.k = "pointer" -> LayFrame(laid, f.frame, v, byte_swap)
      [] f.k = "iter"    -> FoldLeft(LAMBDA acc, e: LayField(acc, f.of, e, byte_swap), laid, v)

\* Which value is for the field i of a frame.
ValueOf(frame, i, v) ==
    IF frame[i].k = "pad" THEN 0
    ELSE v[Cardinality({j \in 1 .. i: frame[j].k # "pad"})]

LayFrame(laid, frame, v, byte_swap) ==
    FoldLeftDomain(LAMBDA acc, i: LayField(acc, frame[i], ValueOf(frame, i, v), byte_swap),
                   laid, frame)

Layout(frame, v, byte_swap) == LayFrame(<<>>, frame, v, byte_swap)

\* The bytes a list of these elements takes.
ListBytes(field, els) == Len(LayField(<<>>, ITER(field), els, FALSE))

-----------------------------------------------------------------------------
\* The attributes to tell apart (their identities are quarks).
InputStyle == 513
FilterEvents == 514
FontSet == 515
Area == 516
SpotLocation == 517
PreeditAttributes == 518
StatusAttributes == 519
SeparatorofNestedList == 520

IsNestedList(id) == id \in {PreeditAttributes, StatusAttributes}

IMPAD(length) == (4 - (length % 4)) % 4

\* The first n tokens of a frame manager.
TokensOf(fm, n) ==
    FoldLeftDomain(LAMBDA acc, i: LET r == FrameMgrGetToken(acc.fm)
                                  IN  [fm |-> r.fm, got |-> Append(acc.got, r.token)],
                   [fm |-> fm, got |-> <<>>], [i \in 1 .. n |-> i]).got
GetTokens(frame, p, n, need_swap) == TokensOf(FrameMgrInit(frame, p, need_swap), n)

\* The frame manager after the tokens vs were written from place at on.
PutTokens(frame, area, at, vs, need_swap) ==
    FoldLeft(FrameMgrPutToken, [FrameMgrInit(frame, area, need_swap) EXCEPT !.idx = at], vs).area

---------------------------------------------------------------------------
(* Setting. *)

Read1(id, tokens) == <<<<id, tokens>>>>

SetCardAttribute(id, p, length, need_swap) ==
    Read1(id, CASE length = 1 -> <<<<p[1]>>>>
                [] length \in {2, 4} -> GetTokens(IF length = 2 THEN short_fr ELSE long_fr, p, 1, need_swap))
SetRectAttribute(id, p, need_swap) == Read1(id, GetTokens(xrectangle_fr, p, 4, need_swap))
SetPointAttribute(id, p, need_swap) == Read1(id, GetTokens(xpoint_fr, p, 2, need_swap))

\* The length comes first, then as many bytes of the name.
NameAfter(r) == <<r.token>> \o TokensOf([r.fm EXCEPT !.fi = FrameInstSetSize(@, r.token[1]).x], 1)
SetFontAttribute(id, p, need_swap) ==
    Read1(id, NameAfter(FrameMgrGetToken(FrameMgrInit(fontset_fr, p, need_swap))))

Rest(p, n) == SubSeq(p, n + 1, Len(p))

RECURSIVE ReadICValue(_, _, _, _), ReadNested(_, _, _)

\* The attributes of a nested list, each behind its head.
ReadHeaded(p, value_length, need_swap, head) ==
    LET length == head[2][1]
        skip == 4 + length + IMPAD(length)
    IN  ReadICValue(head[1][1], length, Rest(p, 4), need_swap)
          \o ReadNested(Rest(p, skip), value_length - skip, need_swap)
ReadNested(p, value_length, need_swap) ==
    IF value_length <= 0 THEN <<>>
    ELSE ReadHeaded(p, value_length, need_swap, GetTokens(attr_head_fr, p, 2, need_swap))

ReadICValue(id, value_length, p, need_swap) ==
    CASE IsNestedList(id)              -> ReadNested(p, value_length, need_swap)
      [] id \in {InputStyle, FilterEvents} -> SetCardAttribute(id, p, value_length, need_swap)
      [] id = FontSet                  -> SetFontAttribute(id, p, need_swap)
      [] id = Area                     -> SetRectAttribute(id, p, need_swap)
      [] id = SpotLocation             -> SetPointAttribute(id, p, need_swap)
      [] OTHER                         -> <<>>

---------------------------------------------------------------------------
(* Getting: the answer to a list of identities.  The input method gives a  *)
(* value to the events it filters, at the top, and to nothing else.        *)

KeyPressMask == 3           \* KeyPressMask | KeyPress

\* GetICValue: what is asked of a nested list ends at the separator, which is
\* then taken for an attribute like any other.
NestedIds(ids, i) ==
    LET end == Min({j \in i + 1 .. Len(ids): ids[j] = SeparatorofNestedList} \cup {Len(ids) + 1})
    IN  SubSeq(ids, i + 1, end - 1)

RECURSIVE AskedFor(_, _, _)
AskedFor(ids, i, asked) ==
    LET of == CASE ids[i] = PreeditAttributes -> "preedit"
                [] ids[i] = StatusAttributes  -> "status"
        nested == NestedIds(ids, i)
    IN  IF i > Len(ids) THEN asked
        ELSE IF IsNestedList(ids[i])
        THEN AskedFor(ids, i + Len(nested) + 1, [asked EXCEPT ![of] = @ \o nested])
        ELSE AskedFor(ids, i + 1, [asked EXCEPT !.ic = Append(@, ids[i])])

\* SwapAttributes turns the value round for a client of the other order.
SwapAttributes(value, need_swap) ==
    IF need_swap THEN Bytes(GetTokens(long_fr, value, 1, TRUE)[1][1], 4, FALSE) ELSE value

IcAnswer(id, need_swap) ==
    <<id, IF id = FilterEvents THEN SwapAttributes(Bytes(KeyPressMask, 4, FALSE), need_swap)
          ELSE <<>>>>

\* CreateNestedList, of attributes that have no value: their heads.
CreateNestedList(nested, need_swap) ==
    FoldLeftDomain(LAMBDA area, i: PutTokens(attr_head_fr, area, 4 * (i - 1), <<nested[i], 0>>, need_swap),
                   [i \in 1 .. 4 * Len(nested) |-> 0], nested)

NestedAnswer(id, nested, need_swap) ==
    IF nested = <<>> THEN <<>> ELSE <<<<id, CreateNestedList(nested, need_swap)>>>>

\* _Xi18nGetIC: the attributes, then the nested lists there are.
IcAnswers(ids, need_swap) ==
    LET asked == AskedFor(ids, 1, [ic |-> <<>>, preedit |-> <<>>, status |-> <<>>])
    IN  [i \in DOMAIN asked.ic |-> IcAnswer(asked.ic[i], need_swap)]
          \o NestedAnswer(PreeditAttributes, asked.preedit, need_swap)
          \o NestedAnswer(StatusAttributes, asked.status, need_swap)
=============================================================================
