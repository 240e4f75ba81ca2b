----------------------------- MODULE JsonNesting -----------------------------
(***************************************************************************)
(* Brackets in a sequence of JSON tokens: how deep each token stands, and  *)
(* when every bracket is closed by one of its own kind.                    *)
(***************************************************************************)
EXTENDS Integers, Sequences, FiniteSets

Opens == {"openObj", "openArray"}
Closes == {"closeObj", "closeArray"}

\* How many containers are open before each token, and after the last.
Before(s, i, types) == {k \in 1 .. i - 1 : s[k].type \in types}
Levels(s) == [i \in 1 .. Len(s) + 1 |->
                Cardinality(Before(s, i, Opens)) - Cardinality(Before(s, i, Closes))]

\* The container that opens at i is closed at j.
Matches(s, i, j) ==
  LET Level == Levels(s)
  IN  /\ Level[j + 1] = Level[i]
      /\ \A k \in i + 1 .. j : Level[k] > Level[i]

Paired(s) ==
  \A i \in 1 .. Len(s) : \A j \in i + 1 .. Len(s) :
    s[i].type \in Opens /\ Matches(s, i, j)
      => s[j].type = (IF s[i].type = "openObj" THEN "closeObj" ELSE "closeArray")

\* Every bracket is closed by one of its own kind, and nothing is left open.
IsNested(s) ==
  LET Level == Levels(s)
  IN  /\ Level[Len(s) + 1] = 0
      /\ \A i \in 1 .. Len(s) : Level[i] >= 0
      /\ Paired(s)
=============================================================================
