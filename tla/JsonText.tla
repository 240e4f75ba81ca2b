------------------------------ MODULE JsonText ------------------------------
(***************************************************************************)
(* Which value of a JSON text a path of names and indices leads to: the    *)
(* reference for the answers of jsense.                                    *)
(***************************************************************************)
EXTENDS JsonGrammar, SequencesExt

\* Where the values of the container that opens at p begin, in order.
ElementsOf(s, p) ==
  LET Level == Levels(s)
      end   == SelectInSubSeq(Level, p + 1, Len(Level), LAMBDA l : l <= Level[p])
      begins(q) == /\ s[q].type \in ScalarTypes \cup Opens
                   /\ Level[q] = Level[p] + 1
                   /\ s[p].type = "openObj" => s[q - 1].type = "colon"
  IN  SetToSortSeq({q \in p + 1 .. end - 1 : begins(q)}, <)

(* Where a path leads from the value at p.  A step is a name, an index or  *)
(* both.  The answer is a position, Absent when a container has no such    *)
(* element, Beyond when a scalar is asked for elements; Ordinal tells      *)
(* apart which of its siblings each named value is.                        *)
Absent == 0
Beyond == -1
NoIndex == -1

NamedIn(s, p, name) ==
  LET es == ElementsOf(s, p)
      hits == {i \in DOMAIN es : s[p].type = "openObj" /\ s[es[i] - 2].text = name}
  IN  IF hits = {} THEN 0 ELSE CHOOSE i \in hits : \A k \in hits : i <= k

AfterName(s, p, name) ==
  CASE name = ""                   -> p
    [] s[p].type \in ScalarTypes   -> Beyond
    [] NamedIn(s, p, name) = 0     -> Absent
    [] OTHER                       -> ElementsOf(s, p)[NamedIn(s, p, name)]

AfterIndex(s, p, index) ==
  CASE p <= 0 \/ index = NoIndex         -> p
    [] s[p].type \in ScalarTypes         -> Beyond
    [] index >= Len(ElementsOf(s, p))    -> Absent
    [] OTHER                             -> ElementsOf(s, p)[index + 1]

RECURSIVE Address(_, _, _)
Address(s, p, steps) ==
  IF steps = <<>> \/ p <= 0 THEN p
  ELSE LET named == AfterName(s, p, Head(steps).name)
       IN  Address(s, AfterIndex(s, named, Head(steps).index), Tail(steps))
=============================================================================
