----------------------------- MODULE JsonParser -----------------------------
(***************************************************************************)
(* jsense, the JSON library cmd-pamodoro reads its answers with:           *)
(* cmd-pamodoro/jsense/jsense.h, from jse_from_file to the end of j_parse. *)
(*                                                                         *)
(* The parser reads one token after the other and builds the document in   *)
(* chunks of slots.  A container is a list of chunks; each chunk has one   *)
(* slot more than it can hold, whose sub is the next chunk and whose       *)
(* settings count the values.  A stack holds the open containers with the  *)
(* chunk and the position where the next value goes.                       *)
(*                                                                         *)
(* A value is the number of its token in the input.                        *)
(***************************************************************************)
EXTENDS Integers, Sequences, SequencesExt, JsonNesting

CONSTANTS
  ChunkSize,    \* JSE_CHUNK_SIZE: the slots of a chunk
  StackSize,    \* JSE_STACK_SIZE: how deep containers nest
  Labels,       \* the texts of string tokens
  Escaped,      \* those that contain a backslash
  Documents,    \* token sequences a file may hold
  FreeTokens,   \* the tokens of which any sequence
  FreeLength    \* of so many (a bound) may be read as well

NoLabel == ""   \* a key that is NULL
Marks == Opens \cup Closes \cup {"colon", "comma"}
Tokens == [type : Marks \cup {"number", "bad"}, text : {NoLabel}]
            \cup [type : {"literal"}, text : {"true"}]
            \cup [type : {"string"}, text : Labels]

ASSUME ConstantsAssumption ==
  /\ ChunkSize \in Nat \ {0}
  /\ StackSize \in Nat \ {0}
  /\ NoLabel \notin Labels
  /\ Escaped \subseteq Labels
  /\ Documents \subseteq Seq(Tokens)
  /\ FreeTokens \subseteq Tokens
  /\ FreeLength \in Nat

VARIABLES
  phase,      \* "parsing", "refused" (NULL was returned), "accepted" or "closed"
  input,      \* the tokens read so far
  chunks,     \* the memory j_new_stuff gave out, by pointer; the first is the root
  st,         \* the chunk being filled; 0 is NULL
  stack,      \* stack, stack_pointers and stack_positions, from the outside in
  prevType,   \* prev_token_type
  expect,     \* next_key_value: "key", "value" or "none"
  freed       \* the chunks j_free gave back, in order

parserVars == <<phase, input, chunks, st, stack, prevType, expect, freed>>

EmptySlot == [key |-> NoLabel, value |-> 0, sub |-> 0, raw |-> FALSE]
NewChunk == [slots |-> [k \in 0 .. ChunkSize - 1 |-> EmptySlot], next |-> 0, count |-> 0]

Used(slot) == slot.key # NoLabel \/ slot.value # 0 \/ slot.sub # 0

Init ==
  /\ phase = "parsing" /\ input = <<>> /\ chunks = <<>> /\ st = 0
  /\ stack = <<>> /\ prevType = "none" /\ expect = "none" /\ freed = <<>>

-----------------------------------------------------------------------------
(* The chunks j_free gives back when it is called on the root, in order:   *)
(* in each chunk first what hangs off its slots, up to the first unused.   *)
Freed(cs) ==
  LET Under[c \in DOMAIN cs] ==
        LET slots == cs[c].slots
            sub(k) == IF slots[k].sub # 0 /\ \A m \in 0 .. k : Used(slots[m])
                      THEN Under[slots[k].sub] ELSE <<>>
        IN  FlattenSeq([k \in 1 .. ChunkSize |-> sub(k - 1)])
              \o <<c>> \o (IF cs[c].next # 0 THEN Under[cs[c].next] ELSE <<>>)
  IN  IF cs = <<>> THEN <<>> ELSE Under[1]

Top == stack[Len(stack)]

\* Mutant: the next chunk is not linked to the full one.
Grown_NotLinked(cs) ==
  IF Top.pos # ChunkSize
  THEN [chunks |-> cs, at |-> st, pos |-> Top.pos]
  ELSE [chunks |-> Append(cs, NewChunk), at |-> Len(cs) + 1, pos |-> 0]

\* The memory, the chunk and the position for one more value of the innermost
\* container: a full chunk gets a next one.
Grown(cs) ==
  IF Top.pos # ChunkSize
  THEN [chunks |-> cs, at |-> st, pos |-> Top.pos]
  ELSE [chunks |-> Append([cs EXCEPT ![st].next = Len(cs) + 1], NewChunk),
        at |-> Len(cs) + 1, pos |-> 0]

Position(kind, at, pos) == [kind |-> kind, at |-> at, pos |-> pos]
SetTop(at, pos) == [stack EXCEPT ![Len(stack)] = Position(@.kind, at, pos)]

\* Mutant: the error path returns without freeing.
Refuse_Leaks(t, cs) ==
  /\ phase' = "refused"
  /\ input' = Append(input, t)
  /\ chunks' = cs
  /\ UNCHANGED <<st, stack, prevType, expect, freed>>

\* An error: j_from_buffer frees what was built and returns NULL.
Refuse(t, cs) ==
  /\ phase' = "refused"
  /\ input' = Append(input, t)
  /\ chunks' = cs
  /\ freed' = Freed(cs)
  /\ UNCHANGED <<st, stack, prevType, expect>>

GoOn(t) ==
  /\ input' = Append(input, t)
  /\ prevType' = t.type
  /\ UNCHANGED <<phase, freed>>

-----------------------------------------------------------------------------
(* { and [: allocate, hang the container into the innermost one, push.     *)
Push(t, cs, below) ==
  /\ GoOn(t)
  /\ chunks' = cs
  /\ st' = Len(chunks) + 1
  /\ stack' = Append(below, Position(t.type, Len(chunks) + 1, 0))
  /\ expect' = IF t.type = "openObj" THEN "key" ELSE "value"

StackFull_OffByOne == Len(stack) > StackSize   \* mutant
StackFull == Len(stack) = StackSize

OpenFirst(t) ==
  /\ prevType = "none"
  /\ Push(t, Append(chunks, NewChunk), stack)

OpenNested(t) ==
  /\ prevType \in {"comma", "colon", "openArray"}
  /\ stack # <<>>
  /\ LET new == Len(chunks) + 1
         g   == Grown(Append(chunks, NewChunk))
         cs  == [g.chunks EXCEPT ![g.at].slots[g.pos].sub = new]
     IN  IF StackFull
         THEN Refuse(t, cs)
         ELSE Push(t, [cs EXCEPT ![g.at].count = @ + 1], SetTop(g.at, g.pos + 1))

OpenMisplaced(t) ==
  /\ \/ prevType \in {"comma", "colon", "openArray"} /\ stack = <<>>
     \/ prevType \in {"openObj", "closeObj", "closeArray", "string", "number", "literal"}
  /\ Refuse(t, Append(chunks, NewChunk))

OpenContainer(t) ==
  /\ t.type \in Opens
  /\ OpenFirst(t) \/ OpenNested(t) \/ OpenMisplaced(t)

(* } and ]: pop, unless something is missing or the other kind is open.    *)
Opening(type) == IF type = "closeObj" THEN "openObj" ELSE "openArray"
\* Mutants: the kind of the open container is not compared; {} is refused.
CloseMisplaced_AnyKind(type) ==
  \/ st = 0 \/ stack = <<>>
  \/ prevType \in {"comma", "colon"} \cup (Opens \ {Opening(type)})
CloseMisplaced_NoEmpty(type) ==
  \/ st = 0 \/ stack = <<>> \/ Top.kind # Opening(type)
  \/ prevType \in {"comma", "colon"} \cup Opens
CloseMisplaced(type) ==
  \/ st = 0
  \/ prevType \in {"comma", "colon"} \cup (Opens \ {Opening(type)})
  \/ stack = <<>>
  \/ Top.kind # Opening(type)

CloseContainer(t) ==
  /\ t.type \in Closes
  /\ IF CloseMisplaced(t.type)
     THEN Refuse(t, chunks)
     ELSE /\ GoOn(t)
          /\ stack' = Front(stack)
          /\ st' = IF Len(stack) > 1 THEN stack[Len(stack) - 1].at ELSE st
          /\ expect' = "none"
          /\ UNCHANGED chunks

-----------------------------------------------------------------------------
(* A string or a literal is a key or a value; a number is a value.         *)
\* With nothing open the token must be the whole document: checked at the end.
Alone(t) ==
  /\ st = 0
  /\ GoOn(t)
  /\ UNCHANGED <<chunks, st, stack, expect>>

PutKey(t) ==
  LET g == Grown(chunks)
  IN  /\ GoOn(t)
      /\ chunks' = [g.chunks EXCEPT ![g.at].slots[g.pos].key = t.text,
                                    ![g.at].count = @ + 1]
      /\ st' = g.at
      /\ stack' = SetTop(g.at, g.pos)
      /\ expect' = "none"

\* needs_escaping, which j_get_token leaves as the last string set it: a literal
\* that follows one with escapes is marked, too.
NeedsEscaping(tokens) ==
  \E i \in DOMAIN tokens :
    /\ tokens[i].text \in Escaped
    /\ \A k \in i + 1 .. Len(tokens) : tokens[k].type # "string"

\* A number is counted in an object too, where its key was counted before.
WithValue(chunk, pos, t) ==
  LET new == IF t.type = "number" \/ Top.kind = "openArray" THEN 1 ELSE 0
  IN  [chunk EXCEPT !.slots[pos].value = Len(input) + 1,
                    !.slots[pos].raw = t.type # "number" /\ NeedsEscaping(Append(input, t)),
                    !.count = @ + new]

PutValue(t) ==
  LET g == Grown(chunks)
  IN  /\ GoOn(t)
      /\ chunks' = [g.chunks EXCEPT ![g.at] = WithValue(@, g.pos, t)]
      /\ st' = g.at
      /\ stack' = SetTop(g.at, g.pos + 1)
      /\ expect' = "none"

PutScalar(t) ==
  /\ t.type \in {"string", "literal", "number"}
  /\ \/ Alone(t)
     \/ /\ st # 0
        /\ CASE expect = "value"                         -> PutValue(t)
             [] expect = "key" /\ t.type # "number"      -> PutKey(t)
             [] OTHER                                    -> Refuse(t, chunks)

-----------------------------------------------------------------------------
\* With nothing open the code reads stack[-1], which may hold any byte.
TopKind == IF stack = <<>> THEN "any" ELSE Top.kind

ColonAccepted(t) ==
  /\ TopKind \in {"openObj", "any"}
  /\ prevType \notin {"closeObj", "closeArray", "comma", "colon", "number", "literal"}
  /\ GoOn(t)
  /\ expect' = "value"
  /\ UNCHANGED <<chunks, st, stack>>

ColonRefused(t) ==
  /\ \/ TopKind # "openObj"
     \/ prevType \in {"closeObj", "closeArray", "comma", "colon", "number", "literal"}
  /\ Refuse(t, chunks)

Colon(t) ==
  /\ t.type = "colon"
  /\ ColonAccepted(t) \/ ColonRefused(t)

Comma(t) ==
  /\ t.type = "comma"
  /\ IF prevType \in {"openObj", "openArray", "comma", "colon"} \/ stack = <<>>
     THEN Refuse(t, chunks)
     ELSE /\ GoOn(t)
          /\ expect' = IF Top.kind = "openObj" THEN "key" ELSE "value"
          /\ UNCHANGED <<chunks, st, stack>>

\* A token j_get_token does not know, or a string, number or literal that is wrong.
BadToken(t) ==
  /\ t.type = "bad"
  /\ Refuse(t, chunks)

-----------------------------------------------------------------------------
(* A document of one token must be a scalar; otherwise all must be closed. *)
SingleToken == Len(input) = 1
Scalars == {"string", "number", "literal"}

EndOfInput ==
  /\ phase = "parsing"
  /\ LET good == IF SingleToken THEN input[1].type \in Scalars ELSE stack = <<>>
     IN  /\ phase' = IF good THEN "accepted" ELSE "refused"
         /\ freed' = IF good THEN freed ELSE Freed(chunks)
  /\ UNCHANGED <<input, chunks, st, stack, prevType, expect>>

\* jse_from_file: there is no such file, it is a directory, too large or unreadable.
LoadFails ==
  /\ phase = "parsing" /\ input = <<>>
  /\ phase' = "refused"
  /\ UNCHANGED <<input, chunks, st, stack, prevType, expect, freed>>

Beginnings == UNION {{SubSeq(d, 1, k) : k \in 1 .. Len(d)} : d \in Documents}
IsFree(i) == Len(i) <= FreeLength /\ ToSet(i) \subseteq FreeTokens
MayRead(t) == IsFree(Append(input, t)) \/ Append(input, t) \in Beginnings

ReadToken ==
  /\ phase = "parsing"
  /\ \E t \in Tokens :
       /\ MayRead(t)
       /\ \/ OpenContainer(t)
          \/ CloseContainer(t)
          \/ PutScalar(t)
          \/ Colon(t)
          \/ Comma(t)
          \/ BadToken(t)

ParserNext == ReadToken \/ EndOfInput \/ LoadFails

\* The parser without its callers.
ParserSpec == Init /\ [][ParserNext]_parserVars

-----------------------------------------------------------------------------
(* Type correctness: every index the parser writes with is inside its      *)
(* array (stack, chunk and position), what hangs in the document was       *)
(* allocated, and st is the chunk of the innermost container whenever a    *)
(* key or a value is expected (j_parse indexes st by its position).        *)
Slot == [key : Labels \cup {NoLabel, "true"}, value : Nat, sub : Nat, raw : BOOLEAN]
Place == [kind : Opens, at : Nat, pos : 0 .. ChunkSize]
Chunk == [slots : [0 .. ChunkSize - 1 -> Slot], next : Nat, count : Nat]

StackOK ==
  /\ Len(stack) <= StackSize
  /\ \A i \in 1 .. Len(stack) : stack[i].at \in 1 .. Len(chunks)
  /\ stack # <<>> => st = Top.at
  /\ st # 0 /\ expect # "none" => stack # <<>>

ParserTypeOK ==
  /\ phase \in {"parsing", "refused", "accepted", "closed"}
  /\ input \in Seq(Tokens)
  /\ chunks \in Seq(Chunk)
  /\ st \in 0 .. Len(chunks)
  /\ stack \in Seq(Place)
  /\ prevType \in {"none"} \cup {t.type : t \in Tokens}
  /\ expect \in {"none", "key", "value"}
  /\ StackOK

(* Whatever is accepted, and more than JSON is, has its brackets in order: *)
(* each is closed by its own kind, and nothing is left open (j_parse's     *)
(* stack).                                                                 *)
AcceptedIsNested == phase = "accepted" => IsNested(input)
=============================================================================
