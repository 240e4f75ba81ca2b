------------------------------- MODULE MCJson -------------------------------
(* Documents and labels for TLC: a chunk holds two slots, so a container   *)
(* of five values has three chunks.                                        *)
EXTENDS JsonAnswers

MCLabels == {"a", "b", "c", "d", "e"}
MCFree == {t \in Tokens : t.text \in {NoLabel, "a", "true"}}
MCEscaped == {"e"}

Mark(m) == [type |-> m, text |-> NoLabel]
Str(l) == [type |-> "string", text |-> l]
Num == <<Mark("number")>>
Esc == <<Str("e")>>
Lit == <<[type |-> "literal", text |-> "true"]>>

RECURSIVE Joined(_)
Joined(parts) ==
  IF Len(parts) < 2 THEN FlattenSeq(parts)
  ELSE Head(parts) \o <<Mark("comma")>> \o Joined(Tail(parts))
Array(elements) == <<Mark("openArray")>> \o Joined(elements) \o <<Mark("closeArray")>>
Names == <<"a", "b", "c", "d", "e">>
Object(values) ==
  <<Mark("openObj")>>
    \o Joined([i \in DOMAIN values |-> <<Str(Names[i]), Mark("colon")>> \o values[i]])
    \o <<Mark("closeObj")>>
Both(S) == {Array(s) : s \in S} \cup {Object(s) : s \in S}

Flat == Both({[i \in 1 .. n |-> IF i = k THEN Esc ELSE Num] : n \in 0 .. 5, k \in 1 .. 5})
Small == {Num, Lit, Array(<<>>), Array(<<Num, Esc, Num>>), Object(<<Num>>),
          Object(<<Esc, Num, Num>>)}
Deep == Both(UNION {[1 .. n -> Small] : n \in 1 .. 2})
          \cup Both({<<Num, x, y>> : x \in Small, y \in Small})
Third == {Array(<<Array(<<x>>)>>) : x \in Small}
           \cup {Object(<<Num, Num, x, Num>>) : x \in Small}
MCDocuments == Flat \cup Deep \cup Third

Step(name, index) == [name |-> name, index |-> index]
MCQueries ==
  {<<Step(n, i)>> : n \in {"a", "b"}, i \in {-1, 1}}
    \cup {<<Step("", i)>> : i \in {0, 1, 2, 4}}
    \cup {<<Step("d", -1)>>, <<Step("e", -1)>>, <<Step("a", 0)>>, <<Step("c", -1), Step("a", -1)>>}
    \cup {<<Step("a", -1), Step(m, j)>> : m \in {"a", "c"}, j \in {-1}}
    \cup {<<Step("", 0), Step("", 1)>>, <<Step("", 0), Step("a", -1)>>}
=============================================================================
