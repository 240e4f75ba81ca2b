----------------------------- MODULE JsonAnswers -----------------------------
(***************************************************************************)
(* What jsense promises whoever asks it for a document: that a label gets  *)
(* the value it leads to.                                                  *)
(***************************************************************************)
EXTENDS JsonDocument

Text == INSTANCE JsonText

\* Some name on the way stands in the last place of a chunk and holds a container.
RECURSIVE Skewed(_, _, _)
Skewed(s, p, steps) ==
  /\ steps # <<>> /\ p > 0
  /\ LET q == Text!AfterName(s, p, Head(steps).name)
     IN  \/ /\ q > 0 /\ q # p
            /\ s[q].type \in Opens
            /\ Text!NamedIn(s, p, Head(steps).name) % ChunkSize = 0
         \/ Skewed(s, Text!AfterIndex(s, q, Head(steps).index), Tail(steps))

Answered == gets > 0 /\ asked # NoQuery /\ IsText(input) /\ ~Skewed(input, 1, asked)

(* A label that leads to a scalar gets that scalar, cut off or unescaped   *)
(* exactly once however often it is asked for, as is every key on the way; *)
(* a label that leads nowhere gets NULL (jse_get over the chunks; names in *)
(* the last place of a chunk are left out, because there the code loses    *)
(* its way).                                                               *)
GetExact ==
  /\ IsInjective(unescaped) /\ IsInjective(keyRuns)
  /\ nexts = 0 /\ Answered =>
       LET a == Text!Address(input, 1, asked)
       IN  /\ a = Text!Absent => answer = Answer("null", 0)
           /\ a > 0 /\ input[a].type \in ScalarTypes =>
                /\ answer = Answer("value", a)
                /\ input[a].type = "number" => a \in ended
                /\ input[a].text \in Escaped => a \in ToSet(unescaped)

\* The container that is walked after a get of it or of its first element.
WalkedFrom ==
  LET a     == Text!Address(input, 1, asked)
      final == asked[Len(asked)]
      above == Append(Front(asked), [final EXCEPT !.index = NoIndex])
  IN  CASE a <= 0                         -> 0
        [] input[a].type \in Opens        -> a
        [] final.index = 0                -> Text!Address(input, 1, above)
        [] OTHER                          -> 0

(* From the first element of a container jse_get_next goes to each of the  *)
(* next ones in turn, over the end of the first chunk and no further.      *)
NextExact ==
  gets = 1 /\ nexts \in 1 .. ChunkSize /\ Answered /\ WalkedFrom > 0 =>
    LET es == Text!ElementsOf(input, WalkedFrom)
    IN  es # <<>> =>
          answer = IF nexts < Len(es) /\ input[es[nexts + 1]].type \in ScalarTypes
                   THEN Answer("value", es[nexts + 1]) ELSE Answer("null", 0)
=============================================================================
