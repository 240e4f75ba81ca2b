------------------------------ MODULE JsonQuery -----------------------------
(***************************************************************************)
(* The rest of jsense: jse_get, jse_get_next and jse_free on a document    *)
(* that JsonParser built.                                                  *)
(*                                                                         *)
(* A label such as "a[2].b" is a sequence of steps, each a name, an index  *)
(* or both.  A pointer to a slot is a chunk and an offset, so that what    *)
(* the code reads from there may be past the chunk: such a read is wild.   *)
(***************************************************************************)
EXTENDS JsonParser

CONSTANTS
  Queries,   \* the labels asked for
  MaxGets,   \* bound: calls of jse_get
  MaxNexts   \* bound: calls of jse_get_next after one of jse_get

ASSUME QueryAssumption ==
  /\ Queries \subseteq Seq([name : Labels \cup {NoLabel}, index : Int]) \ {<<>>}
  /\ MaxGets \in Nat /\ MaxNexts \in Nat

VARIABLES
  last,        \* last_returned, a pointer; chunk 0 is NULL
  lastIndex,   \* last_returned_index
  answer,      \* what the last call returned
  asked,       \* the label of the last jse_get
  gets, nexts, \* how many calls were made
  unescaped,   \* the values j_unescape_string ran over, in order
  plainKeys,   \* the slots whose JSE_KEY_NEEDS_ESCAPING was cleared
  keyRuns,     \* the slots whose keys j_unescape_string ran over, in order
  ended        \* the numbers that were given their final zero

queryVars == <<last, lastIndex, answer, asked, gets, nexts, unescaped, plainKeys, keyRuns, ended>>
vars == <<phase, input, chunks, st, stack, prevType, expect, freed,
          last, lastIndex, answer, asked, gets, nexts, unescaped, plainKeys, keyRuns, ended>>

Pointer(c, o) == [chunk |-> c, offset |-> o]
Null == Pointer(0, 0)
NoIndex == -1   \* a step without an index
Answer(kind, token) == [kind |-> kind, token |-> token]
NullOr(token) == IF token = 0 THEN Answer("null", 0) ELSE Answer("value", token)

-----------------------------------------------------------------------------
(* The walk of jse_get.  It ends in a slot with a value ("slot"), at a     *)
(* pointer it goes on from ("here"), or with NULL: "missing" also resets   *)
(* last_returned, "nothing" does not.                                      *)
InChunk(p, k) == p.offset + k <= ChunkSize
At(p, k) ==
  IF p.offset + k < ChunkSize THEN chunks[p.chunk].slots[p.offset + k]
  ELSE [EmptySlot EXCEPT !.sub = chunks[p.chunk].next]

Outcome(kind, p, k, index) == [kind |-> kind, at |-> p, k |-> k, index |-> index]
Fails(kind) == Outcome(kind, Null, 0, 0)

NextChunk(p) ==
  CASE ~InChunk(p, ChunkSize)       -> Fails("wild")
    [] At(p, ChunkSize).sub = 0     -> Fails("missing")
    [] OTHER -> Outcome("here", Pointer(At(p, ChunkSize).sub, 0), 0, NoIndex)

\* The key loop increments k once more after a match: the slot in the last
\* place of a chunk sends the walk on to the next chunk of what it found.
AfterMatch(p, k) ==
  LET slot == At(p, k)
      q    == IF slot.sub # 0 THEN Pointer(slot.sub, 0) ELSE p
  IN  CASE slot.value # 0        -> Outcome("slot", p, k, k)
        [] k + 1 < ChunkSize     -> Outcome("here", q, 0, NoIndex)
        [] OTHER                 -> NextChunk(q)

Pointers == [chunk : 1 .. Len(chunks), offset : 0 .. ChunkSize - 1]

\* Where the loop over the keys stands each time it compares one: up to the first
\* that is the name, through the chunks of the container.
Compared(p, name) ==
  LET from[q \in Pointers, k \in 0 .. ChunkSize - 1] ==
        LET next == NextChunk(q)
        IN  <<Outcome("key", q, k, k)>>
              \o CASE ~InChunk(q, k) \/ At(q, k).key = name  -> <<>>
                   [] k + 1 < ChunkSize                      -> from[q, k + 1]
                   [] next.kind = "here"                     -> from[next.at, 0]
                   [] OTHER                                  -> <<>>
  IN  from[p, 0]

FoundAt(o, name) ==
  CASE ~InChunk(o.at, o.k)        -> Fails("wild")
    [] At(o.at, o.k).key = name   -> AfterMatch(o.at, o.k)
    [] OTHER                      -> NextChunk(o.at)
Find(p, name) == FoundAt(Last(Compared(p, name)), name)

Indexed(p, index) ==
  LET from[q \in Pointers, i \in Int] ==
        LET slot == At(q, i)
        IN  CASE i >= ChunkSize ->
                   LET n == NextChunk(q)
                   IN  IF n.kind = "here" THEN from[n.at, i - ChunkSize] ELSE n
              [] ~InChunk(q, ChunkSize)           -> Fails("wild")
              [] chunks[q.chunk].count <= i       -> Fails("nothing")
              [] slot.sub # 0     -> Outcome("here", Pointer(slot.sub, 0), 0, 0)
              [] slot.value # 0   -> Outcome("slot", Pointer(q.chunk, i), 0, i)
              [] OTHER            -> Outcome("here", Pointer(q.chunk, i), 0, i)
  IN  from[p, index]

Then(named, index) ==
  IF named.kind = "here" /\ index # NoIndex THEN Indexed(named.at, index) ELSE named
OneStep(p, step) ==
  Then(IF step.name = NoLabel THEN Outcome("here", p, 0, NoIndex) ELSE Find(p, step.name),
       step.index)
GoesOn(there) == there.kind = "here" /\ Used(At(there.at, 0))

\* The pointers from which the steps of a label are taken, as far as the walk gets.
Stations(p, steps) ==
  LET from[q \in Pointers, i \in DOMAIN steps] ==
        LET Rest(there) == IF GoesOn(there) /\ i < Len(steps)
                           THEN from[there.at, i + 1] ELSE <<>>
        IN  <<q>> \o Rest(OneStep(q, steps[i]))
  IN  IF p = Null THEN <<>> ELSE from[p, 1]

Arrived(there) ==
  CASE there.kind # "here"   -> there
    [] GoesOn(there)         -> [there EXCEPT !.kind = "end"]
    [] OTHER                 -> Fails("nothing")
Walk(p, steps) ==
  LET path == Stations(p, steps)
  IN  IF p = Null THEN Fails("wild") ELSE Arrived(OneStep(Last(path), steps[Len(path)]))

-----------------------------------------------------------------------------
ClearRaw_Kept(p, k) == chunks   \* mutant: unescaped again at the next call
ClearRaw(p, k) == [chunks EXCEPT ![p.chunk].slots[p.offset + k].raw = FALSE]

\* A value is made ready where it is: a number is cut off, a string unescaped
\* unless it was before.  A container's first value is not cut off.
Ready(p, k, cut) ==
  LET token == At(p, k).value
  IN  /\ ended' = IF cut /\ input[token].type = "number" THEN ended \cup {token} ELSE ended
      /\ unescaped' = IF At(p, k).raw THEN Append(unescaped, token) ELSE unescaped
      /\ chunks' = IF At(p, k).raw THEN ClearRaw(p, k) ELSE chunks

GetSlot(o) ==
  /\ o.kind = "slot"
  /\ Ready(o.at, o.k, TRUE)
  /\ answer' = NullOr(At(o.at, o.k).value)
  /\ last' = o.at
  /\ lastIndex' = o.index

GetEnd(o) ==
  /\ o.kind = "end"
  /\ Ready(o.at, 0, FALSE)
  /\ answer' = NullOr(At(o.at, 0).value)
  /\ last' = o.at
  /\ lastIndex' = IF o.index = NoIndex THEN lastIndex ELSE o.index

GetNothing(o) ==
  /\ o.kind \in {"missing", "nothing", "wild"}
  /\ answer' = Answer(IF o.kind = "wild" THEN "wild" ELSE "null", 0)
  /\ last' = IF o.kind = "missing" THEN Null ELSE last
  /\ UNCHANGED <<chunks, lastIndex, unescaped, ended>>

\* A key that has escapes and was not unescaped before is, before it is compared.
ComparedOn(path, steps) ==
  UNION {IF steps[i].name = NoLabel THEN {} ELSE ToSet(Compared(path[i], steps[i].name)) :
           i \in DOMAIN path}
SlotOf(o) == Pointer(o.at.chunk, o.at.offset + o.k)
MakePlain(slots) ==
  /\ plainKeys' = plainKeys \cup slots
  /\ keyRuns' = keyRuns \o SetToSeq(slots)
KeysReady(p, steps) ==
  MakePlain({SlotOf(o) : o \in {x \in ComparedOn(Stations(p, steps), steps) :
                                  /\ InChunk(x.at, x.k) /\ At(x.at, x.k).key \in Escaped
                                  /\ SlotOf(x) \notin plainKeys}})

\* A document of one token has no chunk: the token is the answer to any label.
GetSingle ==
  /\ SingleToken
  /\ answer' = Answer("value", 1)
  /\ ended' = IF input[1].type = "number" THEN {1} ELSE ended
  /\ unescaped' = IF input[1].text \in Escaped /\ unescaped = <<>> THEN <<1>> ELSE unescaped
  /\ UNCHANGED <<chunks, last, lastIndex, plainKeys, keyRuns>>

\* A null pointer for a label, or one that does not fit JSE_MAX_LABEL_SIZE.
NoQuery == <<>>
GetUnasked ==
  /\ answer' = Answer("null", 0)
  /\ last' = Null
  /\ UNCHANGED <<chunks, lastIndex, unescaped, plainKeys, keyRuns, ended>>

Callable == phase = "accepted" /\ answer.kind # "wild"
Root == IF chunks = <<>> THEN Null ELSE Pointer(1, 0)

Get ==
  /\ Callable /\ gets < MaxGets
  /\ \E q \in Queries \cup {NoQuery} :
       /\ asked' = q
       /\ \/ GetSingle
          \/ ~SingleToken /\ q = NoQuery /\ GetUnasked
          \/ /\ ~SingleToken /\ q # NoQuery
             /\ KeysReady(Root, q)
             /\ \E o \in {Walk(Root, q)} : GetSlot(o) \/ GetEnd(o) \/ GetNothing(o)
  /\ gets' = gets + 1
  /\ nexts' = 0
  /\ UNCHANGED <<phase, input, st, stack, prevType, expect, freed>>

\* Mutant: the new index is not stored.
NextAt_IndexKept(p, i) ==
  /\ UNCHANGED lastIndex
  /\ answer' = IF InChunk(p, i) THEN NullOr(At(p, i).value) ELSE Answer("wild", 0)

\* The step to the next chunk is not remembered: last_returned stays.
NextAt(p, i) ==
  /\ lastIndex' = i
  /\ answer' = IF InChunk(p, i) THEN NullOr(At(p, i).value) ELSE Answer("wild", 0)
NextNull == answer' = Answer("null", 0) /\ UNCHANGED lastIndex

GetNext ==
  /\ Callable /\ gets > 0 /\ nexts < MaxNexts
  /\ LET i == lastIndex + 1
     IN  CASE SingleToken \/ last = Null  -> NextNull
           [] i # ChunkSize               -> NextAt(last, i)
           [] ~InChunk(last, i)           -> NextAt(last, i)
           [] At(last, i).sub = 0         -> NextNull
           [] OTHER                       -> NextAt(Pointer(At(last, i).sub, 0), 0)
  /\ nexts' = nexts + 1
  /\ UNCHANGED <<phase, input, chunks, st, stack, prevType, expect, freed,
                 last, asked, gets, unescaped, plainKeys, keyRuns, ended>>

Free ==
  /\ Callable
  /\ phase' = "closed"
  /\ freed' = Freed(chunks)
  /\ UNCHANGED <<input, chunks, st, stack, prevType, expect, queryVars>>

Parse == ParserNext /\ UNCHANGED queryVars

Next == Parse \/ Get \/ GetNext \/ Free

QueryInit ==
  /\ Init
  /\ last = Null /\ lastIndex = 0 /\ answer = Answer("none", 0) /\ asked = <<>>
  /\ gets = 0 /\ nexts = 0 /\ unescaped = <<>> /\ plainKeys = {} /\ keyRuns = <<>> /\ ended = {}

Spec == QueryInit /\ [][Next]_vars

-----------------------------------------------------------------------------
(* jse_free gives every chunk back once.  After an error at most the       *)
(* container that was just opened, and hangs nowhere, is lost.             *)
FreedOnce ==
  /\ IsInjective(freed)
  /\ phase = "closed" => ToSet(freed) = DOMAIN chunks
  /\ phase = "refused" =>
       \A c \in DOMAIN chunks \ ToSet(freed) : chunks[c] = NewChunk /\ c = Len(chunks)
=============================================================================
