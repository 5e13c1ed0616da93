------------------------------ MODULE MCXhInput -----------------------------
(***************************************************************************)
(* XhInput over two patterns and six strokes of xh_data.cpp, two of which  *)
(* share a key, and a dictionary of a few made-up characters and words     *)
(* that begin alike.                                                       *)
(***************************************************************************)
EXTENDS XhInput

Entry(key, kind, name, first) == [key |-> key, kind |-> kind, name |-> name, first |-> first]
MCXhDataMaps ==
  <<Entry("a", "P", "P004", FALSE), Entry("d", "P", "P201", FALSE),
    Entry("g", "S", "S01", TRUE), Entry("h", "S", "S03", TRUE),
    Entry("s", "S", "S11", FALSE), Entry("s", "S", "S13", FALSE), Entry("i", "S", "S09", FALSE),
    Entry("L", "B", "B00", FALSE), Entry("B", "B", "B01", FALSE)>>

yi  == <<"P201", "B00", "S01">>
shi == <<"P201", "B00", "S01", "S03">>
tu  == <<"P201", "B00", "S01", "S03", "S01">>
pin == <<"P201", "B01", "S03", "S11", "S01", "B01", "S11", "S09", "B00", "S03", "S03", "S11">>
lin == <<"P201", "B01", "S03", "S13", "B00", "S01", "S13", "S13", "S01">>
san == <<"P004", "B00", "S01", "S01", "S01">>
xiu == <<"P004", "B01", "S11", "S01", "B01", "S01", "P99", "S03", "B00", "S03", "S01">>

MCLexicon ==
  [ch \in {"yi", "shi", "tu", "pin", "lin", "san", "xiu"} |->
     CASE ch = "yi" -> yi [] ch = "shi" -> shi [] ch = "tu" -> tu [] ch = "pin" -> pin
       [] ch = "lin" -> lin [] ch = "san" -> san [] ch = "xiu" -> xiu]
MCWords ==
  <<<<"yi">>, <<"lin", "none">>, <<"shi">>, <<"tu">>, <<"pin">>, <<"lin">>, <<"san">>, <<"xiu">>,
    <<"yi", "san">>, <<"tu", "san">>, <<"pin", "san">>, <<"lin", "xiu">>, <<"san", "yi">>,
    <<"yi", "san", "shi">>, <<"none">>>>

MCSetups ==
  {[typed |-> {"a", "d", "g", "h", "s"}, keys |-> 6, edits |-> FALSE],
   [typed |-> {"d", "g", "h", "s", "2", "3"}, keys |-> 6, edits |-> FALSE],
   [typed |-> {"a", "g", "i", "2"}, keys |-> 7, edits |-> FALSE],
   [typed |-> {"a", "d", "g", "2"}, keys |-> 5, edits |-> TRUE]}
=============================================================================
