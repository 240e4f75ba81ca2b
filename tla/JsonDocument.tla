---------------------------- MODULE JsonDocument ----------------------------
(***************************************************************************)
(* What jsense promises whoever gives it a document: that JSON is accepted,*)
(* and that the chunks of JsonQuery, read as its caller sees them,         *)
(* implement the containers of JsonTree.                                   *)
(***************************************************************************)
EXTENDS JsonQuery, JsonGrammar

CONSTANT MaxSize   \* JSE_MAX_SIZE: a document has no more tokens than bytes

ASSUME SizeAssumption ==
  /\ MaxSize \in Nat
  /\ FreeLength <= MaxSize /\ \A d \in Documents : Len(d) <= MaxSize

Readable(s) == IsText(s) /\ NestsWithin(s, StackSize)
ReadableBeginnings ==
  UNION {{SubSeq(d, 1, k) : k \in 1 .. Len(d)} : d \in {d \in Documents : Readable(d)}}

(* A document that is JSON and nests no deeper than the stack is never     *)
(* refused: not at a token that may stand there, and not at its end        *)
(* (j_parse's checks of the previous token and of next_key_value).         *)
RefusesOnlyErrors ==
  [][phase' = "refused" =>
       IF input' # input THEN input' \notin ReadableBeginnings ELSE ~Readable(input)]_vars

\* The element in a slot; a container is known by its first chunk.
Held(slot) ==
  [key   |-> slot.key,
   has   |-> CASE slot.value # 0 -> "value" [] slot.sub # 0 -> "container" [] OTHER -> "nothing",
   value |-> IF slot.value # 0 THEN slot.value ELSE slot.sub]

\* The elements in a chunk, up to the first slot that is not used.
Filling(slots) ==
  CHOOSE n \in 0 .. ChunkSize :
    /\ \A m \in 0 .. n - 1 : Used(slots[m])
    /\ n # ChunkSize => ~Used(slots[n])
InChunkOf(slots) == [i \in 1 .. Filling(slots) |-> Held(slots[i - 1])]

\* By chunk the elements in it and in the chunks behind it.
From(cs) ==
  LET Rest[c \in DOMAIN cs] ==
        InChunkOf(cs[c].slots) \o (IF cs[c].next # 0 THEN Rest[cs[c].next] ELSE <<>>)
  IN  Rest

\* A container begins at a chunk that is no other's next.
Firsts(cs) == {c \in DOMAIN cs : \A d \in DOMAIN cs : cs[d].next # c}
Contents(cs) == [c \in Firsts(cs) |-> From(cs)[c]]

\* The open containers: the root, and each time what hangs in the last slot
\* that was filled.
OpenIn(cs, s, i) == IF i = 1 THEN 1 ELSE cs[s[i - 1].at].slots[s[i - 1].pos - 1].sub
OpenOf(cs, s) == [i \in 1 .. Len(s) |-> OpenIn(cs, s, i)]

\* After an error there is no document.
Refused == phase = "refused"
TreePhase == IF phase = "closed" THEN "accepted" ELSE phase
TreeRoot == IF Refused \/ chunks = <<>> THEN 0 ELSE 1
TreeOpen == IF Refused THEN <<>> ELSE OpenOf(chunks, stack)
TreeElements == Contents(IF Refused THEN <<>> ELSE chunks)

Tree == INSTANCE JsonTree WITH
  Keys     <- Labels \cup {"true"},
  NoKey    <- NoLabel,
  Values   <- 1 .. MaxSize,
  Ids      <- 1 .. 2 * MaxSize,
  NoId     <- 0,
  phase    <- TreePhase,
  root     <- TreeRoot,
  open     <- TreeOpen,
  elements <- TreeElements

(* The chunks are invisible: jsense builds the document as if containers   *)
(* were sequences of any length, and hands it over complete or not at all  *)
(* (j_parse, in particular its three copies of the code that gives a full  *)
(* chunk a next one, and j_from_buffer).                                   *)
BuildsTree == Tree!Spec
=============================================================================
