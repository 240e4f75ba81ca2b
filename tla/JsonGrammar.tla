----------------------------- MODULE JsonGrammar -----------------------------
(***************************************************************************)
(* Which sequences of tokens are a JSON text (RFC 8259).  This is the      *)
(* reference jsense is compared with; it says nothing of the library.      *)
(***************************************************************************)
EXTENDS JsonNesting

ScalarTypes == {"string", "number", "literal"}
Closing(kind) == IF kind = "openObj" THEN "closeObj" ELSE "closeArray"

\* Where a token of a type stands right after one of the places js, after i.
RightAfter(s, i, js, type) == {j \in i + 1 .. Len(s) : j - 1 \in js /\ s[j].type = type}

\* In an object a name and a colon stand before a value.
Named(s, i) == i + 2 <= Len(s) /\ s[i].type = "string" /\ s[i + 1].type = "colon"

\* A value at i ends there, or at the bracket that closes it behind its opening
\* one or behind a list.  A list is a value, and perhaps a comma and a list.
ValueEnds(s, End, i) ==
  IF s[i].type \in Opens
  THEN RightAfter(s, i, {i} \cup End[<<s[i].type, i + 1>>], Closing(s[i].type))
  ELSE {j \in {i} : s[i].type \in ScalarTypes}

ListEnds(s, End, kind, i, first) ==
  first \cup UNION {End[<<kind, j + 1>>] : j \in RightAfter(s, i, first, "comma")}

EndsAfter(s, End, what, i) ==
  IF i > Len(s) \/ (what = "openObj" /\ ~Named(s, i)) THEN {}
  ELSE CASE what = "value"     -> ValueEnds(s, End, i)
         [] what = "openArray" -> ListEnds(s, End, what, i, End[<<"value", i>>])
         [] what = "openObj"   -> ListEnds(s, End, what, i, End[<<"value", i + 2>>])

\* The places where a value that begins at i may end, or the list of values in
\* a container of a kind.
Whats == {"value"} \cup Opens
Ends(s) ==
  LET End[p \in Whats \X (1 .. Len(s) + 1)] == EndsAfter(s, End, p[1], p[2])
  IN  End

IsText(s) == Len(s) \in Ends(s)[<<"value", 1>>]

NestsWithin(s, depth) == \A i \in 1 .. Len(s) + 1 : Levels(s)[i] <= depth
=============================================================================
