------------------------------ MODULE FrameMgr ------------------------------
(***************************************************************************)
(* The frame manager of IMdkit (FrameMgr.c): a template lists the fields   *)
(* of a message, and a cursor walks it while tokens are written to or read *)
(* from the message.  Lists and nested frames have cursors of their own.   *)
(* A pointer to a list is its place in the outermost template, where all   *)
(* counters are; what the code creates when it is first looked at is here  *)
(* from the start.  No template has 64 bit fields, lists of lists, lists   *)
(* of byte arrays or counters of items.                                    *)
(***************************************************************************)
EXTENDS Integers, SequencesExt, FiniteSetsExt

CONSTANT Junk           \* the content of memory nobody has written

NO_VALUE == -1
NO_VALID_FIELD == -2

---------------------------------------------------------------------------
(* Templates: a sequence of fields, ended by EOL. *)

BIT(w) == [k |-> "bit", w |-> w]                        \* w bytes
BYTE_COUNTER(w, offset) == [k |-> "counter", w |-> w, offset |-> offset]
BARRAY == [k |-> "barray"]
PAD(unit, number) == [k |-> "pad", unit |-> unit, number |-> number]
POINTER(frame) == [k |-> "pointer", frame |-> frame]
ITER(field) == [k |-> "iter", of |-> field]

Fields(fi, K) == {i \in DOMAIN fi.t: fi.t[i].k \in K}

---------------------------------------------------------------------------
(* Instances of templates and of lists. *)

IterInit(field) ==
    [of |-> field, els |-> <<>>, expands |-> TRUE, cur |-> 0,
     starter |-> FALSE, counting |-> FALSE]

RECURSIVE FrameInstInit(_)
FrameInstInit(frame) ==
    [t |-> frame, cur |-> 1,
     d |-> [i \in DOMAIN frame |->
               CASE frame[i].k = "barray"  -> NO_VALUE
                 [] frame[i].k = "iter"    -> IterInit(frame[i].of)
                 [] frame[i].k = "pointer" -> FrameInstInit(frame[i].frame)
                 [] OTHER                  -> NO_VALID_FIELD]]

\* What an element of a list starts as.
Element(field) ==
    IF field.k = "pointer" THEN FrameInstInit(field.frame) ELSE NO_VALID_FIELD

FrameInstIsEnd(fi) == fi.cur = Len(fi.t) + 1
IterIsFull(it) == ~it.expands /\ it.cur >= Len(it.els)

Step(fi) == [fi EXCEPT !.cur = @ + 1]           \* _FrameInstIncrement
StepIter(it) == [it EXCEPT !.cur = @ + 1]

---------------------------------------------------------------------------
(* Sizes. *)

RECURSIVE ItemSize(_, _), IterGetTotalSize(_), FrameInstGetTotalSize(_)

\* What fills the fields before i up to a multiple of the unit.
Padding(fi, i) ==
    LET f == fi.t[i]
        size == MapThenSumSet(LAMBDA j: ItemSize(fi, j), (i - f.number) .. (i - 1))
    IN  (f.unit - (size % f.unit)) % f.unit

\* _FrameInstGetItemSize.
ItemSize(fi, i) ==
    LET f == fi.t[i]
    IN  CASE f.k \in {"bit", "counter"} -> f.w
          [] f.k = "barray"             -> fi.d[i]
          [] f.k = "pad"                -> Padding(fi, i)
          [] f.k = "iter"               -> IterGetTotalSize(fi.d[i])
          [] f.k = "pointer"            -> FrameInstGetTotalSize(fi.d[i])

IterGetTotalSize(it) ==
    LET size(e) == IF it.of.k = "bit" THEN it.of.w ELSE FrameInstGetTotalSize(e)
        sizes == [i \in DOMAIN it.els |-> size(it.els[i])]
    IN  IF it.expands \/ NO_VALUE \in Range(sizes) THEN NO_VALUE
        ELSE FoldSeq(+, 0, sizes)

\* A field without size takes one byte off.
FrameInstGetTotalSize(fi) == MapThenSumSet(LAMBDA i: ItemSize(fi, i), DOMAIN fi.t)

RECURSIVE FrameInstGetSize(_)

\* The size of the array that comes next: the first valid answer counts.
IterGetSize(it) ==
    LET size(i) == IF it.of.k = "pointer" THEN FrameInstGetSize(it.els[i]) ELSE NO_VALID_FIELD
        valid == {i \in it.cur + 1 .. Len(it.els): size(i) # NO_VALID_FIELD}
    IN  IF valid = {} THEN NO_VALID_FIELD ELSE size(Min(valid))

FrameInstGetSize(fi) ==
    LET size(i) == CASE fi.t[i].k = "barray"  -> fi.d[i]
                     [] fi.t[i].k = "iter"    -> IterGetSize(fi.d[i])
                     [] fi.t[i].k = "pointer" -> FrameInstGetSize(fi.d[i])
                     [] OTHER                 -> NO_VALID_FIELD
        valid == {i \in fi.cur .. Len(fi.t): size(i) # NO_VALID_FIELD}
    IN  IF valid = {} THEN NO_VALID_FIELD ELSE size(Min(valid))

FrameMgrGetSize(fm) ==
    IF FrameInstGetSize(fm.fi) = NO_VALID_FIELD THEN NO_VALUE ELSE FrameInstGetSize(fm.fi)

---------------------------------------------------------------------------
(* Setting sizes and counts: the first place that has none takes it. *)

Taken(x) == [ok |-> TRUE, x |-> x]
NoMoreData(x) == [ok |-> FALSE, x |-> x]

RECURSIVE FrameInstSetSize(_, _)

IterSetSize(it, num) ==
    LET more == IF it.expands THEN Append(it.els, Element(it.of)) ELSE it.els
        tried == [i \in DOMAIN more |-> FrameInstSetSize(more[i], num)]
        takers == {i \in DOMAIN more: tried[i].ok}
        first == Min(takers)
    IN  IF it.of.k # "pointer" \/ takers = {} THEN NoMoreData(it)
        ELSE Taken([it EXCEPT !.els = [SubSeq(more, 1, Max({first, Len(it.els)}))
                                          EXCEPT ![first] = tried[first].x]])

FrameInstSetSize(fi, num) ==
    LET tried == [i \in Fields(fi, {"barray", "iter", "pointer"}) |->
                     CASE fi.t[i].k = "barray"  -> IF fi.d[i] = NO_VALUE THEN Taken(num)
                                                   ELSE NoMoreData(fi.d[i])
                       [] fi.t[i].k = "iter"    -> IterSetSize(fi.d[i], num)
                       [] fi.t[i].k = "pointer" -> FrameInstSetSize(fi.d[i], num)]
        takers == {i \in DOMAIN tried: tried[i].ok}
    IN  IF takers = {} THEN NoMoreData(fi)
        ELSE Taken([fi EXCEPT !.d[Min(takers)] = tried[Min(takers)].x])

RECURSIVE FrameInstSetIterCount(_, _)

IterSetIterCount(it, num) ==
    LET tried == [i \in DOMAIN it.els |-> FrameInstSetIterCount(it.els[i], num)]
        takers == {i \in DOMAIN tried: tried[i].ok}
    IN  IF it.expands
        THEN Taken([it EXCEPT !.els = [i \in 1 .. num |-> Element(it.of)], !.expands = FALSE])
        ELSE IF it.of.k # "pointer" \/ takers = {} THEN NoMoreData(it)
        ELSE Taken([it EXCEPT !.els[Min(takers)] = tried[Min(takers)].x])

FrameInstSetIterCount(fi, num) ==
    LET tried == [i \in Fields(fi, {"iter", "pointer"}) |->
                     IF fi.t[i].k = "iter" THEN IterSetIterCount(fi.d[i], num)
                     ELSE FrameInstSetIterCount(fi.d[i], num)]
        takers == {i \in DOMAIN tried: tried[i].ok}
    IN  IF takers = {} THEN NoMoreData(fi)
        ELSE Taken([fi EXCEPT !.d[Min(takers)] = tried[Min(takers)].x])

---------------------------------------------------------------------------
(* The cursor: ty is the kind of the next field, num its width, size or    *)
(* padding, at the list a counter is for.                                  *)

Found(ty, num, x) == [ty |-> ty, num |-> num, at |-> 0, x |-> x]

\* What a simple field tells of itself.
Simple(fi) ==
    LET i == fi.cur
        f == fi.t[i]
    IN  CASE f.k = "bit"     -> Found("bit", f.w, fi)
          [] f.k = "counter" -> [Found("counter", f.w, fi) EXCEPT !.at = i + f.offset]
          [] f.k = "barray"  -> Found("barray", fi.d[i], fi)
          [] f.k = "pad"     -> Found("pad", Padding(fi, i), fi)

RECURSIVE FrameInstGetNextType(_), NextInFrame(_, _), IterGetNextType(_), NextInIter(_, _)

\* After what comes next in the nested frame or list at the cursor.
NextInFrame(fi, sub) ==
    LET on == [fi EXCEPT !.d[fi.cur] = sub.x]
    IN  IF sub.ty = "eol" THEN FrameInstGetNextType(Step(on)) ELSE [sub EXCEPT !.x = on]

FrameInstGetNextType(fi) ==
    IF FrameInstIsEnd(fi) THEN Found("eol", 0, [fi EXCEPT !.cur = NO_VALUE])
    ELSE IF fi.t[fi.cur].k \notin {"iter", "pointer"}
    THEN [Simple(fi) EXCEPT !.x = Step(fi)]
    ELSE NextInFrame(fi, IF fi.t[fi.cur].k = "iter" THEN IterGetNextType(fi.d[fi.cur])
                         ELSE FrameInstGetNextType(fi.d[fi.cur]))

\* A list that is gone into starts to be counted, one that expands has an
\* element at its cursor.
Started(it) == IF it.starter THEN [it EXCEPT !.starter = FALSE, !.counting = TRUE] ELSE it
Expanded(it) ==
    IF it.expands /\ it.cur >= Len(it.els) THEN [it EXCEPT !.els = Append(@, Element(it.of))] ELSE it

NextInIter(it, sub) ==
    LET on == [it EXCEPT !.els[it.cur + 1] = sub.x]
    IN  IF sub.ty = "eol" THEN IterGetNextType(StepIter(on)) ELSE [sub EXCEPT !.x = on]

NextOfIter(it) ==
    IF IterIsFull(it) THEN Found("eol", 0, it)
    ELSE IF it.of.k = "bit" THEN Found("bit", it.of.w, StepIter(it))
    ELSE NextInIter(it, FrameInstGetNextType(it.els[it.cur + 1]))

IterGetNextType(it) == NextOfIter(Expanded(Started(it)))

\* What comes next, without going there.  The code calls itself for ever
\* where a nested frame has ended.
RECURSIVE FrameInstPeekNextType(_)

IterPeekNextType(it) ==
    IF IterIsFull(it) THEN Found("eol", 0, it)
    ELSE IF it.of.k = "bit" THEN Found("bit", it.of.w, it)
    ELSE FrameInstPeekNextType(IF it.cur < Len(it.els) THEN it.els[it.cur + 1]
                               ELSE Element(it.of))

FrameInstPeekNextType(fi) ==
    IF FrameInstIsEnd(fi) THEN Found("eol", 0, fi)
    ELSE IF fi.t[fi.cur].k \notin {"iter", "pointer"} THEN Simple(fi)
    ELSE LET sub == IF fi.t[fi.cur].k = "iter" THEN IterPeekNextType(fi.d[fi.cur])
                    ELSE FrameInstPeekNextType(fi.d[fi.cur])
         IN  IF sub.ty = "eol" THEN Found("forever", 0, fi) ELSE sub

---------------------------------------------------------------------------
(* The end of a list. *)

RECURSIVE FrameInstIsIterLoopEnd(_)

Ended(end, myself, it) == [end |-> end, myself |-> myself, x |-> it]

IterIsLoopEnd(it) ==
    LET inner == FrameInstIsIterLoopEnd(it.els[it.cur + 1])
        kept == [it EXCEPT !.els[it.cur + 1] = inner.x]
        full(i) == ~i.expands /\ i.cur = Len(i.els)
    IN  IF full(it) THEN Ended(TRUE, TRUE, it)
        ELSE IF it.of.k # "pointer" \/ it.cur >= Len(it.els) THEN Ended(FALSE, FALSE, it)
        ELSE IF inner.end THEN Ended(TRUE, FALSE, kept)
        ELSE IF ~FrameInstIsEnd(inner.x) THEN Ended(FALSE, FALSE, kept)
        ELSE Ended(full(StepIter(kept)), full(StepIter(kept)), StepIter(kept))

FrameInstIsIterLoopEnd(fi) ==
    IF FrameInstIsEnd(fi) \/ fi.t[fi.cur].k # "iter" THEN Ended(FALSE, FALSE, fi)
    ELSE LET r == IterIsLoopEnd(fi.d[fi.cur])
             kept == [fi EXCEPT !.d[fi.cur] = r.x]
         IN  Ended(r.end, FALSE, IF r.end /\ r.myself THEN Step(kept) ELSE kept)

---------------------------------------------------------------------------
(* The manager of one message. *)

FrameMgrInit(frame, area, byte_swap) ==
    [fi |-> FrameInstInit(frame), area |-> area, idx |-> 0, byte_swap |-> byte_swap,
     iters |-> <<>>, status |-> "FmSuccess"]

\* A number in w bytes, in the order of the peer.
Bytes(n, w, byte_swap) ==
    [i \in 1 .. w |-> (n \div 256 ^ (IF byte_swap THEN w - i ELSE i - 1)) % 256]
Number(bs, byte_swap) ==
    FoldLeft(LAMBDA n, b: n * 256 + b, 0, IF byte_swap THEN bs ELSE Reverse(bs))

\* Writing past the end of the buffer spoils memory that is not the message's.
Write(fm, bs) ==
    [fm EXCEPT !.area = [i \in DOMAIN @ |-> IF i - fm.idx \in DOMAIN bs THEN bs[i - fm.idx]
                                            ELSE @[i]],
               !.idx = @ + Len(bs)]

\* Reading past the end finds anything.
Read(fm, n) ==
    [i \in 1 .. n |-> IF fm.idx + i \in DOMAIN fm.area THEN fm.area[fm.idx + i] ELSE Junk]

Status(fm, s) == [fm EXCEPT !.status = s]

RECURSIVE FrameMgrPutToken(_, _)
PutAt(fm, data, next) ==
    LET on == [fm EXCEPT !.fi = next.x]
        length == IterGetTotalSize(next.x.d[next.at])
    IN  CASE next.ty = "counter" ->
                IF length = NO_VALUE THEN Status(on, "FmCannotCalc")
                ELSE FrameMgrPutToken(Write(on, Bytes(length, next.num, fm.byte_swap)), data)
          [] next.ty = "bit"     -> Write(on, Bytes(data, next.num, fm.byte_swap))
          [] next.ty = "barray"  -> IF next.num = NO_VALUE THEN Status(on, "FmInvalidCall")
                                    ELSE Write(on, SubSeq(data, 1, next.num))
          [] next.ty = "pad"     -> FrameMgrPutToken([on EXCEPT !.idx = @ + next.num], data)
          [] next.ty = "eol"     -> Status(on, "FmEOD")
FrameMgrPutToken(fm, data) == PutAt(fm, data, FrameInstGetNextType(fm.fi))

\* Mutant: a list is watched from its counter on, so that the padding in
\* between is counted as well.
CounterIncrEarly(fm, n) ==
    LET counted == [p \in DOMAIN fm.iters |-> [fm.iters[p] EXCEPT !.counter = @ + n]]
        full == {p \in DOMAIN counted: counted[p].counter >= counted[p].end}
    IN  IF full = {} THEN [fm EXCEPT !.iters = counted]
        ELSE [fm EXCEPT !.iters = RemoveAt(counted, Min(full)),
                        !.fi.d[fm.iters[Min(full)].at].expands = FALSE]

\* _FrameIterCounterIncr: the first list that has had all its bytes grows no
\* more, and is watched no more.
CounterIncr(fm, n) ==
    LET watched(p) == fm.fi.d[fm.iters[p].at].counting
        counted == [p \in DOMAIN fm.iters |->
                       [fm.iters[p] EXCEPT !.counter = IF watched(p) THEN @ + n ELSE @]]
        full == {p \in DOMAIN counted: watched(p) /\ counted[p].counter >= counted[p].end}
        first == Min(full)
        seen == [p \in DOMAIN counted |-> IF p <= first THEN counted[p] ELSE fm.iters[p]]
    IN  IF full = {} THEN [fm EXCEPT !.iters = counted]
        ELSE [fm EXCEPT !.iters = RemoveAt(seen, first),
                        !.fi.d[fm.iters[first].at].expands = FALSE]

\* Nothing is counted for an array without bytes.
Advance(fm, n, token) ==
    LET on == [fm EXCEPT !.idx = @ + n]
    IN  [fm |-> IF n = 0 THEN on ELSE CounterIncr(on, n), token |-> token]

\* _FrameMgrAppendIter: the list of this counter starts to be watched when
\* it is first gone into.
AppendIter(fm, at, end) ==
    [fm EXCEPT !.iters = Append(@, [at |-> at, counter |-> 0, end |-> end]),
               !.fi.d[at].starter = TRUE]

\* A token is its bytes, or one number.
RECURSIVE FrameMgrGetToken(_)
GetAt(fm, next) ==
    LET on == [fm EXCEPT !.fi = next.x]
        number == Number(Read(fm, next.num), fm.byte_swap)
    IN  CASE next.ty = "counter" -> Advance(AppendIter(on, next.at, number), next.num, <<number>>)
          [] next.ty = "bit"     -> Advance(on, next.num, <<number>>)
          [] next.ty = "barray"  -> IF next.num = NO_VALUE
                                    THEN [fm |-> Status(on, "FmInvalidCall"), token |-> <<>>]
                                    ELSE Advance(on, next.num, Read(fm, next.num))
          [] next.ty = "pad"     -> FrameMgrGetToken(CounterIncr([on EXCEPT !.idx = @ + next.num],
                                                                 next.num))
          [] next.ty = "eol"     -> [fm |-> Status(on, "FmEOD"), token |-> <<>>]
FrameMgrGetToken(fm) == GetAt(fm, FrameInstGetNextType(fm.fi))

\* The padding after an element belongs to it: it is gone over before the end
\* of the list is looked for again.
RECURSIVE FrameMgrIsIterLoopEnd(_)
FrameMgrIsIterLoopEnd(fm) ==
    LET r == FrameInstIsIterLoopEnd(fm.fi)
        looked == [fm EXCEPT !.fi = r.x]
        peek == FrameInstPeekNextType(r.x)
        padding == FrameInstGetNextType(r.x)
    IN  IF r.end THEN [end |-> TRUE, fm |-> looked]
        ELSE IF peek.ty = "pad"
        THEN FrameMgrIsIterLoopEnd(CounterIncr([looked EXCEPT !.fi = padding.x, !.idx = @ + padding.num],
                                               padding.num))
        ELSE [end |-> FALSE, fm |-> IF peek.ty = "forever" THEN Status(looked, "forever") ELSE looked]
=============================================================================
