-------------------------- MODULE JsonQueryProofs ---------------------------
(***************************************************************************)
(* jsense stays inside its arrays, accepts only nested brackets and gives  *)
(* every chunk back once, for any size of chunk and stack, any input and   *)
(* any calls of jse_get in between: ParserTypeOK, AcceptedIsNested and     *)
(* FreedOnce.                                                              *)
(*                                                                         *)
(* First the bounds and the brackets of the parser by itself.  Then the    *)
(* memory: the chunks form a tree whatever the parser was about to do when *)
(* it stopped, and j_free visits every node of such a tree once.           *)
(***************************************************************************)
EXTENDS JsonQuery, SequenceTheorems, FiniteSetTheorems, TLAPS

(* Before the first token nothing is open, and a document whose outermost  *)
(* container is closed ended with its bracket (so no colon may follow, and *)
(* expect stays "none": j_parse's checks of the previous token).           *)
Bare ==
  /\ prevType = "none" => stack = <<>>
  /\ st # 0 /\ stack = <<>> => prevType \in {"closeObj", "closeArray"}

ParserInv == ParserTypeOK /\ Bare

(* A sequence that is not empty has a last element.                        *)
LEMMA HasLast ==
  ASSUME NEW S, NEW s \in Seq(S), s # <<>>
  PROVE  Len(s) \in Nat \ {0} /\ s[Len(s)] \in S
<1>1. Len(s) # 0
  BY EmptySeq
<1> QED
  BY <1>1

(* The first n elements of a sequence.                                     *)
LEMMA WithoutLast ==
  ASSUME NEW S, NEW s \in Seq(S), NEW n \in Nat, n <= Len(s)
  PROVE  /\ SubSeq(s, 1, n) \in Seq(S)
         /\ Len(SubSeq(s, 1, n)) = n
         /\ \A i \in 1 .. n : SubSeq(s, 1, n)[i] = s[i]
<1>1. \A i \in 1 .. n : s[i] \in S
  OBVIOUS
<1>2. /\ SubSeq(s, 1, n) \in Seq(S)
      /\ Len(SubSeq(s, 1, n)) = (IF 1 <= n THEN n - 1 + 1 ELSE 0)
      /\ \A i \in 1 .. n - 1 + 1 : SubSeq(s, 1, n)[i] = s[1 + i - 1]
  BY <1>1, SubSeqProperties
<1>3. n - 1 + 1 = n /\ \A i \in 1 .. n : 1 + i - 1 = i
  OBVIOUS
<1>4. Len(SubSeq(s, 1, n)) = n
  BY <1>2
<1>5. \A i \in 1 .. n : SubSeq(s, 1, n)[i] = s[i]
  BY <1>2, <1>3
<1> QED
  BY <1>2, <1>4, <1>5

(* What a new chunk looks like is a chunk.                                 *)
LEMMA NewChunkType == NewChunk \in Chunk
BY ConstantsAssumption DEF NewChunk, Chunk, EmptySlot, Slot

(* Whatever is written into one chunk, the memory keeps its length.        *)
LEMMA SetChunk ==
  ASSUME NEW cs \in Seq(Chunk), NEW c \in 1 .. Len(cs), NEW x \in Chunk
  PROVE  [cs EXCEPT ![c] = x] \in Seq(Chunk) /\ Len([cs EXCEPT ![c] = x]) = Len(cs)
OBVIOUS

(* The writes of j_parse into a chunk: the container in a slot, the count  *)
(* of the values, a key with the count, a value with the count.            *)
LEMMA ChunkWrites ==
  ASSUME NEW x \in Chunk, NEW k \in 0 .. ChunkSize - 1, NEW n \in Nat,
         NEW key \in Labels \cup {NoLabel, "true"}, NEW raw \in BOOLEAN
  PROVE  /\ [x EXCEPT !.slots[k].sub = n] \in Chunk
         /\ [x EXCEPT !.count = @ + 1] \in Chunk
         /\ [x EXCEPT !.slots[k].key = key, !.count = @ + 1] \in Chunk
         /\ \A new \in {0, 1} :
              [x EXCEPT !.slots[k].value = n, !.slots[k].raw = raw, !.count = @ + new] \in Chunk
<1>1. /\ x.slots \in [0 .. ChunkSize - 1 -> Slot]
      /\ x.slots[k] \in Slot /\ x.count \in Nat
  BY DEF Chunk
<1>2. /\ [x.slots[k] EXCEPT !.sub = n] \in Slot
      /\ [x.slots[k] EXCEPT !.key = key] \in Slot
      /\ [[x.slots[k] EXCEPT !.value = n] EXCEPT !.raw = raw] \in Slot
  BY <1>1 DEF Slot
<1>3. ASSUME NEW slot \in Slot, NEW m \in Nat
      PROVE  /\ [x EXCEPT !.slots[k] = slot] \in Chunk
             /\ [x EXCEPT !.count = m] \in Chunk
             /\ [x EXCEPT !.slots[k] = slot, !.count = m] \in Chunk
  BY <1>1 DEF Chunk
<1>4. x.count + 1 \in Nat /\ \A new \in {0, 1} : x.count + new \in Nat
  BY <1>1
<1>5. [x EXCEPT !.slots[k].sub = n] \in Chunk
  BY <1>2, <1>3
<1>6. [x EXCEPT !.count = @ + 1] \in Chunk
  BY <1>1, <1>4 DEF Chunk
<1>7. [x EXCEPT !.slots[k].key = key, !.count = @ + 1] \in Chunk
  BY <1>1, <1>2, <1>4 DEF Chunk
<1>8. ASSUME NEW new \in {0, 1}
      PROVE  [x EXCEPT !.slots[k].value = n, !.slots[k].raw = raw, !.count = @ + new] \in Chunk
  BY <1>1, <1>2, <1>4 DEF Chunk, Slot
<1> QED
  BY <1>5, <1>6, <1>7, <1>8

(* The place for one more value exists: Grown answers with a chunk of the  *)
(* memory and a position inside it.                                        *)
LEMMA GrownType ==
  ASSUME ParserTypeOK, stack # <<>>,
         NEW cs \in Seq(Chunk), Len(cs) >= Len(chunks)
  PROVE  /\ Grown(cs).chunks \in Seq(Chunk)
         /\ Len(Grown(cs).chunks) >= Len(cs)
         /\ Grown(cs).at \in 1 .. Len(Grown(cs).chunks)
         /\ Grown(cs).pos \in 0 .. ChunkSize - 1
<1>1. /\ Top \in Place
      /\ st = Top.at /\ st \in 1 .. Len(chunks)
  <2>1. Len(stack) \in Nat \ {0} /\ Top \in Place
    BY HasLast DEF ParserTypeOK, Top
  <2>. QED
    BY <2>1 DEF ParserTypeOK, StackOK, Top
<1>2. ChunkSize \in Nat \ {0}
  BY ConstantsAssumption
<1>3. CASE Top.pos # ChunkSize
  BY <1>1, <1>2, <1>3 DEF Grown, Place
<1>4. CASE Top.pos = ChunkSize
  <2>1. cs[st] \in Chunk
    BY <1>1
  <2>2. [cs[st] EXCEPT !.next = Len(cs) + 1] \in Chunk
    <3>1. Len(cs) + 1 \in Nat
      OBVIOUS
    <3>2. ASSUME NEW c \in Chunk, NEW k \in Nat PROVE [c EXCEPT !.next = k] \in Chunk
      BY DEF Chunk
    <3>. QED
      BY <2>1, <3>1, <3>2
  <2>3. /\ [cs EXCEPT ![st].next = Len(cs) + 1] \in Seq(Chunk)
        /\ Len([cs EXCEPT ![st].next = Len(cs) + 1]) = Len(cs)
    BY <2>2, <1>1
  <2>. QED
    BY <2>3, <1>1, <1>2, <1>4, NewChunkType DEF Grown
<1> QED
  BY <1>3, <1>4

(* Replacing the position on top of the stack keeps the stack's shape.     *)
LEMMA SetTopType ==
  ASSUME ParserTypeOK, stack # <<>>, NEW at \in Nat, NEW pos \in 0 .. ChunkSize
  PROVE  /\ SetTop(at, pos) \in Seq(Place)
         /\ Len(SetTop(at, pos)) = Len(stack)
         /\ SetTop(at, pos)[Len(stack)].at = at
         /\ \A i \in 1 .. Len(stack) - 1 : SetTop(at, pos)[i] = stack[i]
<1>1. Len(stack) \in Nat \ {0} /\ stack[Len(stack)] \in Place /\ stack \in Seq(Place)
  BY HasLast DEF ParserTypeOK
<1>2. Position(Top.kind, at, pos) \in Place
  BY <1>1 DEF Top, Place, Position
<1>3. SetTop(at, pos) = [stack EXCEPT ![Len(stack)] = Position(Top.kind, at, pos)]
  BY <1>1 DEF SetTop, Top
<1>4. Position(Top.kind, at, pos).at = at
  BY DEF Position
<1> QED
  BY <1>1, <1>2, <1>3, <1>4

(* A refusal changes neither the stack nor what the invariant says of it.  *)
LEMMA RefuseType ==
  ASSUME ParserInv, NEW t \in Tokens, NEW cs \in Seq(Chunk), Len(cs) >= Len(chunks),
         Refuse(t, cs)
  PROVE  ParserInv'
BY DEF ParserInv, Bare, Refuse, ParserTypeOK, StackOK, Top

(* The types of the tokens, and that none of them is "none".               *)
LEMMA TokenTypes ==
  ASSUME NEW t \in Tokens
  PROVE  /\ t.type \in Marks \cup {"number", "bad", "literal", "string"}
         /\ t.text \in Labels \cup {NoLabel, "true"}
BY DEF Tokens

(* Opening a container: the chunk it gets is the last of the memory.       *)
LEMMA PushType ==
  ASSUME ParserInv, NEW t \in Tokens, t.type \in Opens,
         NEW cs \in Seq(Chunk), Len(cs) > Len(chunks),
         NEW below \in Seq(Place),
         Len(below) < StackSize,
         \A i \in 1 .. Len(below) : below[i].at \in 1 .. Len(cs),
         Push(t, cs, below)
  PROVE  ParserInv'
<1> DEFINE new == Position(t.type, Len(chunks) + 1, 0)
<1>1. ChunkSize \in Nat \ {0} /\ StackSize \in Nat \ {0} /\ Len(chunks) \in Nat
  BY ConstantsAssumption DEF ParserInv, ParserTypeOK
<1>2. new \in Place
  BY <1>1 DEF Position, Place
<1>3. /\ stack' = Append(below, new)
      /\ stack' \in Seq(Place)
      /\ Len(stack') = Len(below) + 1
      /\ stack'[Len(stack')] = new
      /\ \A i \in 1 .. Len(below) : stack'[i] = below[i]
  BY <1>2 DEF Push
<1>4. st' = Len(chunks) + 1 /\ chunks' = cs /\ new.at = Len(chunks) + 1
  BY DEF Push, Position
<1>5. input' \in Seq(Tokens) /\ phase' = phase /\ prevType' = t.type
  BY DEF Push, GoOn, ParserInv, ParserTypeOK
<1>6. StackOK'
  <2>1. \A i \in 1 .. Len(stack') : stack'[i].at \in 1 .. Len(chunks')
    BY <1>1, <1>3, <1>4
  <2>. QED
    BY <2>1, <1>1, <1>3, <1>4 DEF StackOK, Top
<1>7. expect' \in {"none", "key", "value"}
  BY DEF Push
<1>8. ParserTypeOK'
  BY <1>1, <1>3, <1>4, <1>5, <1>6, <1>7 DEF ParserInv, ParserTypeOK
<1>9. Bare'
  <2>1. stack' # <<>>
    BY <1>3
  <2>. QED
    BY <2>1, <1>5 DEF Bare, Opens
<1> QED
  BY <1>8, <1>9 DEF ParserInv

(* { and [ keep the invariant: the stack takes no more than its size.      *)
LEMMA OpenContainerType ==
  ASSUME ParserInv, NEW t \in Tokens, OpenContainer(t)
  PROVE  ParserInv'
<1>1. Append(chunks, NewChunk) \in Seq(Chunk) /\ Len(Append(chunks, NewChunk)) = Len(chunks) + 1
  BY NewChunkType DEF ParserInv, ParserTypeOK
<1>2. Len(chunks) \in Nat /\ StackSize \in Nat \ {0} /\ ChunkSize \in Nat \ {0}
  BY ConstantsAssumption DEF ParserInv, ParserTypeOK
<1>3. CASE OpenFirst(t)
  <2>1. stack = <<>>
    BY <1>3 DEF OpenFirst, ParserInv, Bare
  <2>2. Push(t, Append(chunks, NewChunk), stack)
    BY <1>3 DEF OpenFirst
  <2>3. stack \in Seq(Place) /\ Len(stack) = 0
    BY <2>1, EmptySeq DEF ParserInv, ParserTypeOK
  <2>4. /\ Len(stack) < StackSize /\ Len(Append(chunks, NewChunk)) > Len(chunks)
        /\ \A i \in 1 .. Len(stack) : stack[i].at \in 1 .. Len(Append(chunks, NewChunk))
    BY <1>1, <1>2, <2>3
  <2>. QED
    BY <1>1, <2>2, <2>3, <2>4, PushType DEF OpenContainer
<1>4. CASE OpenNested(t)
  <2> DEFINE more == Append(chunks, NewChunk)
             g == Grown(more)
             cs == [g.chunks EXCEPT ![g.at].slots[g.pos].sub = Len(chunks) + 1]
             all == [cs EXCEPT ![g.at].count = @ + 1]
             below == SetTop(g.at, g.pos + 1)
  <2>1. stack # <<>> /\ ParserTypeOK
    BY <1>4 DEF OpenNested, ParserInv
  <2>2. IF StackFull THEN Refuse(t, cs) ELSE Push(t, all, below)
    BY <1>4 DEF OpenNested
  <2>3. more \in Seq(Chunk) /\ Len(more) >= Len(chunks)
    BY <1>1, <1>2
  <2>4. /\ g.chunks \in Seq(Chunk) /\ g.at \in 1 .. Len(g.chunks)
        /\ g.pos \in 0 .. ChunkSize - 1 /\ Len(g.chunks) >= Len(more)
    BY <2>1, <2>3, GrownType
  <2> HIDE DEF g
  <2>5. cs \in Seq(Chunk) /\ Len(cs) = Len(g.chunks)
    <3>1. g.chunks[g.at] \in Chunk
      BY <2>4
    <3>2. Len(chunks) + 1 \in Nat
      BY <1>2
    <3>3. [g.chunks[g.at] EXCEPT !.slots[g.pos].sub = Len(chunks) + 1] \in Chunk
      BY <2>4, <3>1, <3>2, ChunkWrites
    <3>. QED
      BY <2>4, <3>3, SetChunk
  <2> HIDE DEF cs
  <2>6. all \in Seq(Chunk) /\ Len(all) = Len(g.chunks)
    <3>1. cs[g.at] \in Chunk
      BY <2>4, <2>5
    <3>2. [cs[g.at] EXCEPT !.count = @ + 1] \in Chunk
      BY <2>4, <3>1, ChunkWrites
    <3>. QED
      BY <2>4, <2>5, <3>2, SetChunk
  <2>7. Len(cs) >= Len(chunks) /\ Len(all) > Len(chunks)
    BY <1>1, <1>2, <2>4, <2>5, <2>6
  <2> HIDE DEF all
  <2>8. CASE StackFull
    BY <2>2, <2>5, <2>7, <2>8, RefuseType
  <2>9. CASE ~StackFull
    <3>1. g.at \in Nat /\ g.pos + 1 \in 0 .. ChunkSize
      BY <2>4, <1>2
    <3>2. /\ below \in Seq(Place)
          /\ Len(below) = Len(stack)
          /\ below[Len(stack)].at = g.at
          /\ \A i \in 1 .. Len(stack) - 1 : below[i] = stack[i]
      BY <2>1, <3>1, SetTopType
    <3> HIDE DEF below
    <3>3. Len(stack) \in Nat \ {0} /\ Len(below) < StackSize
      BY <2>1, <2>9, <1>2, <3>2, HasLast DEF StackFull, ParserTypeOK, StackOK
    <3>4. ASSUME NEW i \in 1 .. Len(below) PROVE below[i].at \in 1 .. Len(all)
      <4>1. CASE i = Len(stack)
        BY <4>1, <2>4, <2>6, <3>2
      <4>2. CASE i # Len(stack)
        <5>1. i \in 1 .. Len(stack) - 1 /\ i \in 1 .. Len(stack)
          BY <4>2, <3>2, <3>3
        <5>2. below[i].at \in 1 .. Len(chunks)
          BY <5>1, <2>1, <3>2 DEF ParserTypeOK, StackOK
        <5>. QED
          BY <5>2, <1>2, <2>6, <2>7
      <4>. QED
        BY <4>1, <4>2
    <3>. QED
      BY <2>2, <2>6, <2>7, <2>9, <3>2, <3>3, <3>4, PushType DEF OpenContainer
  <2>. QED
    BY <2>8, <2>9
<1>5. CASE OpenMisplaced(t)
  <2>1. Len(Append(chunks, NewChunk)) >= Len(chunks)
    BY <1>1, <1>2
  <2>. QED
    BY <1>1, <1>5, <2>1, RefuseType DEF OpenMisplaced
<1> QED
  BY <1>3, <1>4, <1>5 DEF OpenContainer

(* } and ] keep it: what is popped leaves st at the chunk below.           *)
LEMMA CloseContainerType ==
  ASSUME ParserInv, NEW t \in Tokens, CloseContainer(t)
  PROVE  ParserInv'
<1>1. CASE CloseMisplaced(t.type)
  <2>1. Refuse(t, chunks)
    BY <1>1 DEF CloseContainer
  <2>. QED
    BY <2>1, RefuseType DEF ParserInv, ParserTypeOK
<1>2. CASE ~CloseMisplaced(t.type)
  <2>1. stack # <<>>
    BY <1>2 DEF CloseMisplaced
  <2>2. /\ stack' = Front(stack)
        /\ st' = IF Len(stack) > 1 THEN stack[Len(stack) - 1].at ELSE st
        /\ expect' = "none" /\ chunks' = chunks /\ GoOn(t)
    BY <1>2 DEF CloseContainer
  <2>3. /\ stack' \in Seq(Place)
        /\ Len(stack') = Len(stack) - 1
        /\ \A i \in 1 .. Len(stack') : stack'[i] = stack[i]
    <3>1. Len(stack) \in Nat \ {0} /\ Len(stack) - 1 \in Nat /\ stack \in Seq(Place)
      BY <2>1, HasLast DEF ParserInv, ParserTypeOK
    <3>2. /\ SubSeq(stack, 1, Len(stack) - 1) \in Seq(Place)
          /\ Len(SubSeq(stack, 1, Len(stack) - 1)) = Len(stack) - 1
          /\ \A i \in 1 .. Len(stack) - 1 : SubSeq(stack, 1, Len(stack) - 1)[i] = stack[i]
      <4>1. \A n \in Nat : n <= Len(stack) =>
              /\ SubSeq(stack, 1, n) \in Seq(Place)
              /\ Len(SubSeq(stack, 1, n)) = n
              /\ \A i \in 1 .. n : SubSeq(stack, 1, n)[i] = stack[i]
        BY <3>1, WithoutLast
      <4>2. Len(stack) - 1 <= Len(stack)
        BY <3>1
      <4>. QED
        BY <3>1, <4>1, <4>2
    <3>. QED
      BY <2>2, <3>1, <3>2 DEF Front
  <2>4. StackOK'
    <3>1. /\ Len(stack) \in Nat \ {0} /\ Len(stack) <= StackSize /\ StackSize \in Nat
          /\ \A i \in 1 .. Len(stack) : stack[i].at \in 1 .. Len(chunks)
      BY <2>1, HasLast, ConstantsAssumption DEF StackOK, ParserInv, ParserTypeOK
    <3>2. \A i \in 1 .. Len(stack') : stack'[i].at \in 1 .. Len(chunks')
      <4>1. \A i \in 1 .. Len(stack') : i \in 1 .. Len(stack) /\ stack'[i] = stack[i]
        BY <2>3, <3>1
      <4>2. chunks' = chunks
        BY <2>2
      <4>. QED
        BY <3>1, <4>1, <4>2, Zenon
    <3>3. stack' # <<>> => st' = stack'[Len(stack')].at
      <4> SUFFICES ASSUME stack' # <<>> PROVE st' = stack'[Len(stack')].at
        OBVIOUS
      <4>1. Len(stack') \in Nat \ {0}
        BY <2>3, HasLast
      <4>2. Len(stack) > 1 /\ Len(stack') \in 1 .. Len(stack')
        BY <2>3, <3>1, <4>1
      <4>. QED
        BY <2>2, <2>3, <4>2
    <3>. QED
      BY <2>2, <2>3, <3>1, <3>2, <3>3 DEF StackOK, Top
  <2>5. st' \in 0 .. Len(chunks')
    BY <2>1, <2>2 DEF ParserInv, ParserTypeOK, StackOK
  <2>6. ParserTypeOK'
    BY <2>2, <2>3, <2>4, <2>5 DEF GoOn, ParserInv, ParserTypeOK
  <2>7. Bare'
    BY <2>2 DEF Bare, GoOn, CloseContainer, Closes
  <2>. QED
    BY <2>6, <2>7 DEF ParserInv
<1> QED
  BY <1>1, <1>2

(* A key or a value keeps it: both go where Grown found room.              *)
LEMMA PutType ==
  ASSUME ParserInv, NEW t \in Tokens, st # 0, expect # "none", PutKey(t) \/ PutValue(t)
  PROVE  ParserInv'
<1> DEFINE g == Grown(chunks)
<1>1. ParserTypeOK /\ stack # <<>> /\ chunks \in Seq(Chunk) /\ Len(chunks) \in Nat
  BY DEF ParserInv, ParserTypeOK, StackOK
<1>2. ChunkSize \in Nat \ {0} /\ StackSize \in Nat
  BY ConstantsAssumption
<1>3. /\ g.chunks \in Seq(Chunk) /\ g.at \in 1 .. Len(g.chunks)
      /\ g.pos \in 0 .. ChunkSize - 1 /\ Len(g.chunks) >= Len(chunks)
  BY <1>1, <1>2, GrownType
<1>4. PICK x \in Chunk, pos \in 0 .. ChunkSize :
        /\ chunks' = [g.chunks EXCEPT ![g.at] = x]
        /\ st' = g.at /\ stack' = SetTop(g.at, pos)
        /\ expect' = "none" /\ GoOn(t)
  <2>1. g.chunks[g.at] \in Chunk
    BY <1>3
  <2>2. CASE PutKey(t)
    <3> DEFINE x == [g.chunks[g.at] EXCEPT !.slots[g.pos].key = t.text, !.count = @ + 1]
    <3>1. x \in Chunk
      BY <2>1, <1>3, TokenTypes, ChunkWrites
    <3>2. chunks' = [g.chunks EXCEPT ![g.at] = x]
      BY <2>2, <1>3 DEF PutKey
    <3>3. st' = g.at /\ stack' = SetTop(g.at, g.pos) /\ expect' = "none" /\ GoOn(t)
      BY <2>2 DEF PutKey
    <3>4. g.pos \in 0 .. ChunkSize
      BY <1>2, <1>3
    <3> HIDE DEF x, g
    <3>. QED
      BY <3>1, <3>2, <3>3, <3>4
  <2>3. CASE PutValue(t)
    <3> DEFINE x == WithValue(g.chunks[g.at], g.pos, t)
               new == IF t.type = "number" \/ Top.kind = "openArray" THEN 1 ELSE 0
               raw == t.type # "number" /\ NeedsEscaping(Append(input, t))
    <3>1. Len(input) + 1 \in Nat /\ new \in {0, 1}
      BY <1>1 DEF ParserTypeOK
    <3>2. raw \in BOOLEAN
      OBVIOUS
    <3>3. x = [g.chunks[g.at] EXCEPT !.slots[g.pos].value = Len(input) + 1,
                                     !.slots[g.pos].raw = raw, !.count = @ + new]
      BY Zenon DEF WithValue
    <3>4. x \in Chunk
      <4> HIDE DEF g, raw, new
      <4>. QED
        <5>1. g.chunks[g.at] \in Chunk /\ g.pos \in 0 .. ChunkSize - 1
          BY <2>1, <1>3
        <5>2. \A m \in {0, 1} : [g.chunks[g.at] EXCEPT !.slots[g.pos].value = Len(input) + 1,
                                   !.slots[g.pos].raw = raw, !.count = @ + m] \in Chunk
          BY <5>1, <3>1, <3>2, ChunkWrites
        <5>. QED
          BY <5>2, <3>1, <3>3, Zenon
    <3>5. /\ chunks' = [g.chunks EXCEPT ![g.at] = x] /\ st' = g.at
          /\ stack' = SetTop(g.at, g.pos + 1) /\ expect' = "none" /\ GoOn(t)
      BY <2>3 DEF PutValue
    <3>6. g.pos + 1 \in 0 .. ChunkSize
      BY <1>2, <1>3
    <3> HIDE DEF x, g
    <3>. QED
      BY <3>4, <3>5, <3>6
  <2>. QED
    BY <2>2, <2>3
<1> HIDE DEF g
<1>5. chunks' \in Seq(Chunk) /\ Len(chunks') = Len(g.chunks)
  BY <1>3, <1>4, SetChunk
<1>6. /\ stack' \in Seq(Place) /\ Len(stack') = Len(stack)
      /\ stack'[Len(stack)].at = g.at
      /\ \A i \in 1 .. Len(stack) - 1 : stack'[i] = stack[i]
  <2>1. g.at \in Nat
    BY <1>3
  <2>. QED
    BY <2>1, <1>1, <1>4, SetTopType
<1>7. Len(stack) \in Nat \ {0} /\ stack' # <<>>
  BY <1>1, <1>6, HasLast DEF ParserTypeOK
<1>8. \A i \in 1 .. Len(stack') : stack'[i].at \in 1 .. Len(chunks')
  <2> TAKE i \in 1 .. Len(stack')
  <2>1. CASE i = Len(stack)
    BY <2>1, <1>3, <1>5, <1>6
  <2>2. CASE i # Len(stack)
    <3>1. i \in 1 .. Len(stack) - 1 /\ i \in 1 .. Len(stack)
      BY <2>2, <1>6, <1>7
    <3>2. stack'[i].at \in 1 .. Len(chunks)
      BY <3>1, <1>1, <1>6 DEF ParserTypeOK, StackOK
    <3>. QED
      BY <3>2, <1>1, <1>3, <1>5
  <2>. QED
    BY <2>1, <2>2
<1>9. StackOK'
  BY <1>1, <1>4, <1>6, <1>7, <1>8 DEF StackOK, Top, ParserTypeOK
<1>10. ParserTypeOK'
  BY <1>1, <1>3, <1>4, <1>5, <1>6, <1>9 DEF ParserTypeOK, GoOn
<1>11. Bare'
  <2>1. prevType' = t.type /\ t.type # "none"
    BY <1>4, TokenTypes DEF GoOn, Marks, Opens, Closes
  <2>. QED
    BY <2>1, <1>7 DEF Bare
<1> QED
  BY <1>10, <1>11 DEF ParserInv

(* Scalars, colons and commas keep it.                                     *)
LEMMA ScalarType ==
  ASSUME ParserInv, NEW t \in Tokens, PutScalar(t)
  PROVE  ParserInv'
<1>1. CASE Alone(t)
  BY <1>1, TokenTypes DEF Alone, GoOn, ParserInv, ParserTypeOK, StackOK, Top, Bare, PutScalar
<1>2. CASE Refuse(t, chunks)
  BY <1>2, RefuseType DEF ParserInv, ParserTypeOK
<1>3. CASE st # 0 /\ expect # "none" /\ (PutKey(t) \/ PutValue(t))
  BY <1>3, PutType
<1> QED
  BY <1>1, <1>2, <1>3 DEF PutScalar

LEMMA MarkType ==
  ASSUME ParserInv, NEW t \in Tokens, Colon(t) \/ Comma(t) \/ BadToken(t)
  PROVE  ParserInv'
<1>1. CASE Refuse(t, chunks)
  BY <1>1, RefuseType DEF ParserInv, ParserTypeOK
<1>2. ASSUME GoOn(t), t.type \in {"colon", "comma"}, UNCHANGED <<chunks, st, stack>>,
             expect' \in {"key", "value"}, st # 0 => stack # <<>>
      PROVE  ParserInv'
  BY <1>2 DEF GoOn, ParserInv, ParserTypeOK, StackOK, Top, Bare
<1>3. CASE t.type = "colon" /\ ColonAccepted(t)
  <2>1. st # 0 => stack # <<>>
    BY <1>3 DEF ColonAccepted, ParserInv, Bare
  <2>. QED
    BY <2>1, <1>2, <1>3 DEF ColonAccepted
<1>4. CASE t.type = "comma" /\ ~Refuse(t, chunks) /\ Comma(t)
  BY <1>2, <1>4 DEF Comma
<1> QED
  BY <1>1, <1>3, <1>4 DEF Colon, ColonRefused, Comma, BadToken

(* Every step of the parser keeps the invariant, and so does stuttering.   *)
LEMMA ParserStep == ParserInv /\ [ParserNext]_parserVars => ParserInv'
<1> SUFFICES ASSUME ParserInv, [ParserNext]_parserVars PROVE ParserInv'
  OBVIOUS
<1>1. CASE ReadToken
  BY <1>1, OpenContainerType, CloseContainerType, ScalarType, MarkType DEF ReadToken
<1>2. CASE EndOfInput
  BY <1>2 DEF EndOfInput, ParserInv, ParserTypeOK, StackOK, Top, Bare
<1>3. CASE LoadFails
  BY <1>3 DEF LoadFails, ParserInv, ParserTypeOK, StackOK, Top, Bare
<1>4. CASE UNCHANGED parserVars
  BY <1>4 DEF parserVars, ParserInv, ParserTypeOK, StackOK, Top, Bare
<1> QED
  BY <1>1, <1>2, <1>3, <1>4 DEF ParserNext

(* Before the first token there is nothing in memory and nothing open.     *)
LEMMA ParserInit == Init => ParserInv
<1> SUFFICES ASSUME Init PROVE ParserInv
  OBVIOUS
<1>1. /\ input \in Seq(Tokens) /\ chunks \in Seq(Chunk) /\ stack \in Seq(Place)
      /\ Len(stack) = 0 /\ Len(chunks) = 0
  BY EmptySeq DEF Init
<1> QED
  BY <1>1, ConstantsAssumption DEF Init, ParserInv, ParserTypeOK, StackOK, Top, Bare

(* For every size of chunk and stack and every sequence of tokens: no      *)
(* position of j_parse leaves its chunk, the stack of open containers      *)
(* never outgrows JSE_STACK_SIZE, and st is the chunk that is being filled *)
(* whenever something is put there.                                        *)
THEOREM ParserStaysInside == ParserSpec => []ParserTypeOK
<1>1. Init => ParserInv
  BY ParserInit
<1>2. ParserInv => ParserTypeOK
  BY DEF ParserInv
<1> QED
  BY <1>1, <1>2, ParserStep, PTL DEF ParserSpec

-----------------------------------------------------------------------------
(* What is accepted is nested: the stack is what is open.                  *)

\* How the depth changes over a token.
Change(t) == IF t.type \in Opens THEN 1 ELSE IF t.type \in Closes THEN -1 ELSE 0

(* There are so many brackets of a kind before a place, and one more after *)
(* one of them.                                                            *)
LEMMA BracketsBefore ==
  ASSUME NEW s \in Seq(Tokens), NEW types, NEW i \in 1 .. Len(s)
  PROVE  /\ Cardinality(Before(s, i, types)) \in Nat
         /\ Cardinality(Before(s, i + 1, types)) \in Nat
         /\ Cardinality(Before(s, i + 1, types)) =
              Cardinality(Before(s, i, types)) + (IF s[i].type \in types THEN 1 ELSE 0)
<1>1. IsFiniteSet(1 .. i - 1)
  BY FS_Interval
<1>2. IsFiniteSet(Before(s, i, types))
  <2>1. Before(s, i, types) \subseteq 1 .. i - 1
    BY DEF Before
  <2>. QED
    BY <1>1, <2>1, FS_Subset
<1>3. i \notin Before(s, i, types)
  BY DEF Before
<1>4. CASE s[i].type \in types
  <2>1. Before(s, i + 1, types) = Before(s, i, types) \cup {i}
    BY <1>4 DEF Before
  <2>2. /\ IsFiniteSet(Before(s, i, types) \cup {i})
        /\ Cardinality(Before(s, i, types) \cup {i}) = Cardinality(Before(s, i, types)) + 1
    BY <1>2, <1>3, FS_AddElement
  <2>3. Cardinality(Before(s, i, types)) \in Nat
    BY <1>2, FS_CardinalityType
  <2>4. Cardinality(Before(s, i + 1, types)) = Cardinality(Before(s, i, types)) + 1
    BY <2>1, <2>2
  <2> DEFINE n == Cardinality(Before(s, i, types))
             m == Cardinality(Before(s, i + 1, types))
  <2>5. n \in Nat /\ m = n + 1
    BY <2>3, <2>4
  <2> HIDE DEF n, m
  <2>6. n \in Nat /\ m \in Nat /\ m = n + (IF s[i].type \in types THEN 1 ELSE 0)
    BY <1>4, <2>5
  <2>. QED
    BY <2>6 DEF n, m
<1>5. CASE s[i].type \notin types
  <2>1. Before(s, i + 1, types) = Before(s, i, types)
    BY <1>5 DEF Before
  <2>2. Cardinality(Before(s, i, types)) \in Nat
    BY <1>2, FS_CardinalityType
  <2>. QED
    BY <1>5, <2>1, <2>2
<1> QED
  BY <1>4, <1>5

(* The depth starts at zero and changes by one over each bracket.          *)
LEMMA LevelsSteps ==
  ASSUME NEW s \in Seq(Tokens)
  PROVE  /\ Levels(s) \in [1 .. Len(s) + 1 -> Int]
         /\ Levels(s)[1] = 0
         /\ \A i \in 1 .. Len(s) : Levels(s)[i + 1] = Levels(s)[i] + Change(s[i])
<1>1. Len(s) \in Nat
  OBVIOUS
<1>2. /\ Before(s, 1, Opens) = {} /\ Before(s, 1, Closes) = {}
  BY DEF Before
<1>3. Cardinality({}) = 0
  BY FS_EmptySet
<1>4. Levels(s)[1] = 0
  <2>1. 1 \in 1 .. Len(s) + 1
    BY <1>1
  <2>2. Levels(s)[1] = Cardinality(Before(s, 1, Opens)) - Cardinality(Before(s, 1, Closes))
    BY <2>1 DEF Levels
  <2>3. 0 - 0 = 0
    OBVIOUS
  <2>. QED
    BY <1>2, <1>3, <2>2, <2>3
<1>5. ASSUME NEW i \in 1 .. Len(s)
      PROVE  /\ Levels(s)[i] \in Int /\ Levels(s)[i + 1] \in Int
             /\ Levels(s)[i + 1] = Levels(s)[i] + Change(s[i])
  <2> DEFINE o == Cardinality(Before(s, i, Opens))
             c == Cardinality(Before(s, i, Closes))
             oo == Cardinality(Before(s, i + 1, Opens))
             cc == Cardinality(Before(s, i + 1, Closes))
  <2>1. i \in 1 .. Len(s) + 1 /\ i + 1 \in 1 .. Len(s) + 1
    BY <1>1
  <2>2. Levels(s)[i] = o - c /\ Levels(s)[i + 1] = oo - cc
    BY <2>1 DEF Levels
  <2>3. /\ o \in Nat /\ oo \in Nat
        /\ oo = o + (IF s[i].type \in Opens THEN 1 ELSE 0)
    BY BracketsBefore
  <2>4. /\ c \in Nat /\ cc \in Nat
        /\ cc = c + (IF s[i].type \in Closes THEN 1 ELSE 0)
    BY BracketsBefore
  <2> HIDE DEF o, c, oo, cc
  <2>5. ~(s[i].type \in Opens /\ s[i].type \in Closes)
    BY DEF Opens, Closes
  <2>. QED
    BY <2>2, <2>3, <2>4, <2>5 DEF Change
<1>6. \A i \in 1 .. Len(s) + 1 : Levels(s)[i] \in Int
  <2> TAKE i \in 1 .. Len(s) + 1
  <2>1. CASE i = 1
    BY <2>1, <1>4
  <2>2. CASE i # 1
    <3>1. i - 1 \in 1 .. Len(s) /\ (i - 1) + 1 = i
      BY <2>2, <1>1
    <3>. QED
      BY <3>1, <1>5
  <2>. QED
    BY <2>1, <2>2
<1>7. Levels(s) \in [1 .. Len(s) + 1 -> Int]
  BY <1>6 DEF Levels
<1> QED
  BY <1>4, <1>5, <1>7

(* One more token leaves the depths before it as they are.                 *)
LEMMA LevelsAppend ==
  ASSUME NEW s \in Seq(Tokens), NEW t \in Tokens
  PROVE  /\ Append(s, t) \in Seq(Tokens) /\ Len(Append(s, t)) = Len(s) + 1
         /\ Append(s, t)[Len(s) + 1] = t
         /\ \A i \in 1 .. Len(s) : Append(s, t)[i] = s[i]
         /\ \A i \in 1 .. Len(s) + 1 : Levels(Append(s, t))[i] = Levels(s)[i]
         /\ Levels(Append(s, t))[Len(s) + 2] = Levels(s)[Len(s) + 1] + Change(t)
<1> DEFINE a == Append(s, t)
<1>1. /\ a \in Seq(Tokens) /\ Len(a) = Len(s) + 1 /\ a[Len(s) + 1] = t
      /\ \A i \in 1 .. Len(s) : a[i] = s[i]
      /\ Len(s) \in Nat
  OBVIOUS
<1> HIDE DEF a
<1>2. ASSUME NEW i \in 1 .. Len(s) + 1 PROVE Levels(a)[i] = Levels(s)[i]
  <2>1. ASSUME NEW types PROVE Before(a, i, types) = Before(s, i, types)
    BY <1>1 DEF Before
  <2>2. Before(a, i, Opens) = Before(s, i, Opens) /\ Before(a, i, Closes) = Before(s, i, Closes)
    BY <2>1
  <2>3. i \in 1 .. Len(a) + 1
    BY <1>1
  <2>. QED
    BY <2>2, <2>3 DEF Levels
<1>3. Levels(a)[Len(s) + 2] = Levels(s)[Len(s) + 1] + Change(t)
  <2>1. Len(s) + 1 \in 1 .. Len(a) /\ Len(s) + 1 + 1 = Len(s) + 2 /\ Len(s) + 1 \in 1 .. Len(s) + 1
    BY <1>1
  <2>2. Levels(a)[Len(s) + 1 + 1] = Levels(a)[Len(s) + 1] + Change(a[Len(s) + 1])
    BY <1>1, <2>1, LevelsSteps
  <2>. QED
    BY <1>1, <1>2, <2>1, <2>2
<1> QED
  BY <1>1, <1>2, <1>3 DEF a

(* Each place of the stack has its bracket: it stands so deep, and all     *)
(* that was read after it stands deeper.                                   *)
OpenAt(s, d, kind, p) ==
  /\ s[p].type = kind /\ Levels(s)[p] = d - 1
  /\ \A k \in p + 1 .. Len(s) + 1 : Levels(s)[k] >= d

Nests(s, open) ==
  /\ Levels(s)[Len(s) + 1] = Len(open)
  /\ \A i \in 1 .. Len(s) + 1 : Levels(s)[i] >= 0
  /\ \A d \in 1 .. Len(open) : \E p \in 1 .. Len(s) : OpenAt(s, d, open[d].kind, p)
  /\ Paired(s)

(* The facts of a nested beginning that is followed by one more token.     *)
LEMMA PairedAppend ==
  ASSUME NEW s \in Seq(Tokens), NEW t \in Tokens, Paired(s),
         \A i \in 1 .. Len(s) :
           s[i].type \in Opens /\ Matches(Append(s, t), i, Len(s) + 1)
             => t.type = (IF s[i].type = "openObj" THEN "closeObj" ELSE "closeArray")
  PROVE  Paired(Append(s, t))
<1> DEFINE a == Append(s, t)
           n == Len(s)
<1>1. /\ Len(a) = n + 1 /\ a[n + 1] = t /\ n \in Nat
      /\ \A i \in 1 .. n : a[i] = s[i]
      /\ \A i \in 1 .. n + 1 : Levels(a)[i] = Levels(s)[i]
  BY LevelsAppend
<1> HIDE DEF a, n
<1> SUFFICES ASSUME NEW i \in 1 .. n + 1, NEW j \in i + 1 .. n + 1,
                    a[i].type \in Opens, Matches(a, i, j)
             PROVE  a[j].type = (IF a[i].type = "openObj" THEN "closeObj" ELSE "closeArray")
  BY <1>1 DEF Paired, a, n
<1>2. i \in 1 .. n /\ a[i] = s[i]
  BY <1>1
<1>3. CASE j = n + 1
  BY <1>1, <1>2, <1>3 DEF a, n
<1>4. CASE j # n + 1
  <2>1. j \in i + 1 .. n /\ j \in 1 .. n /\ j + 1 \in 1 .. n + 1 /\ i \in 1 .. n + 1
    BY <1>1, <1>4
  <2>2. \A k \in i + 1 .. j : k \in 1 .. n + 1
    BY <2>1, <1>1
  <2>3. Matches(s, i, j)
    BY <1>1, <2>1, <2>2 DEF Matches
  <2>4. s[j].type = (IF s[i].type = "openObj" THEN "closeObj" ELSE "closeArray")
    BY <1>2, <2>1, <2>3 DEF Paired, n
  <2>. QED
    BY <1>1, <1>2, <2>1, <2>4
<1> QED
  BY <1>3, <1>4

(* What is open at a place stays open over a token that leaves the depth   *)
(* at least there.                                                         *)
LEMMA OpenAtAppend ==
  ASSUME NEW s \in Seq(Tokens), NEW t \in Tokens, NEW d \in Nat, NEW kind,
         NEW p \in 1 .. Len(s), OpenAt(s, d, kind, p),
         Levels(s)[Len(s) + 1] + Change(t) >= d
  PROVE  p \in 1 .. Len(Append(s, t)) /\ OpenAt(Append(s, t), d, kind, p)
<1> DEFINE a == Append(s, t)
           n == Len(s)
<1>1. /\ Len(a) = n + 1 /\ n \in Nat
      /\ \A i \in 1 .. n : a[i] = s[i]
      /\ \A i \in 1 .. n + 1 : Levels(a)[i] = Levels(s)[i]
      /\ Levels(a)[n + 2] = Levels(s)[n + 1] + Change(t)
  BY LevelsAppend
<1>2. /\ s[p].type = kind /\ Levels(s)[p] = d - 1
      /\ \A k \in p + 1 .. n + 1 : Levels(s)[k] >= d
  BY DEF OpenAt
<1>3. p \in 1 .. n /\ p \in 1 .. n + 1 /\ Levels(s)[n + 1] + Change(t) >= d
  BY <1>1
<1> HIDE DEF a, n
<1>4. a[p].type = kind /\ Levels(a)[p] = d - 1
  BY <1>1, <1>2, <1>3
<1>5. \A k \in p + 1 .. (n + 1) + 1 : Levels(a)[k] >= d
  <2> TAKE k \in p + 1 .. (n + 1) + 1
  <2>1. CASE k = n + 2
    BY <2>1, <1>1, <1>3
  <2>2. CASE k # n + 2
    <3>1. k \in p + 1 .. n + 1 /\ k \in 1 .. n + 1
      BY <2>2, <1>1, <1>3
    <3>. QED
      BY <3>1, <1>1, <1>2
  <2>. QED
    BY <2>1, <2>2
<1>6. p \in 1 .. Len(a)
  BY <1>1, <1>3
<1> QED
  BY <1>1, <1>4, <1>5, <1>6 DEF OpenAt, a

(* A token that opens and closes nothing.                                  *)
LEMMA NestsOther ==
  ASSUME NEW s \in Seq(Tokens), NEW t \in Tokens, t.type \notin Opens \cup Closes,
         NEW open \in Seq(Place), Nests(s, open),
         NEW now \in Seq(Place), Len(now) = Len(open),
         \A d \in 1 .. Len(open) : now[d].kind = open[d].kind
  PROVE  Nests(Append(s, t), now)
<1> DEFINE a == Append(s, t)
           n == Len(s)
<1>1. /\ Len(a) = n + 1 /\ n \in Nat
      /\ \A i \in 1 .. n + 1 : Levels(a)[i] = Levels(s)[i]
      /\ Levels(a)[n + 2] = Levels(s)[n + 1] + Change(t)
  <2>1. Len(a) = n + 1 /\ n \in Nat
    BY LevelsAppend, LenProperties
  <2>2. \A i \in 1 .. n + 1 : Levels(a)[i] = Levels(s)[i]
    BY LevelsAppend
  <2>3. Levels(a)[n + 2] = Levels(s)[n + 1] + Change(t)
    BY LevelsAppend
  <2> QED
    BY <2>1, <2>2, <2>3
<1>2. Levels(s)[n + 1] = Len(open) /\ Change(t) = 0 /\ Len(open) \in Nat
  BY DEF Nests, Change
<1>3. Levels(a)[n + 2] = Len(now)
  BY <1>1, <1>2
<1>4. \A i \in 1 .. n + 2 : Levels(a)[i] >= 0
  <2> TAKE i \in 1 .. n + 2
  <2>1. CASE i = n + 2
    BY <2>1, <1>2, <1>3
  <2>2. CASE i # n + 2
    <3>1. i \in 1 .. n + 1
      BY <2>2, <1>1
    <3>2. Levels(s)[i] >= 0
      BY <3>1 DEF Nests
    <3>. QED
      BY <1>1, <3>1, <3>2
  <2>. QED
    BY <2>1, <2>2
<1>5. ASSUME NEW d \in 1 .. Len(now)
      PROVE  \E p \in 1 .. Len(a) : OpenAt(a, d, now[d].kind, p)
  <2>1. d \in 1 .. Len(open) /\ d \in Nat /\ now[d].kind = open[d].kind
    BY <1>2
  <2>2. PICK p \in 1 .. n : OpenAt(s, d, open[d].kind, p)
    BY <2>1 DEF Nests
  <2>3. Levels(s)[n + 1] + Change(t) >= d
    BY <1>2, <2>1
  <2>4. p \in 1 .. Len(a) /\ OpenAt(a, d, open[d].kind, p)
    BY <2>1, <2>2, <2>3, OpenAtAppend
  <2>. QED
    BY <2>1, <2>4
<1>6. Paired(a)
  <2>1. ASSUME NEW i \in 1 .. n, s[i].type \in Opens, Matches(a, i, n + 1)
        PROVE  FALSE
    <3>1. /\ i \in 1 .. n + 1 /\ n + 1 \in i + 1 .. n + 1 /\ n + 1 \in 1 .. n + 1
          /\ (n + 1) + 1 = n + 2
      BY <1>1
    <3>2. Levels(a)[n + 2] = Levels(a)[i] /\ Levels(a)[n + 1] > Levels(a)[i]
      BY <2>1, <3>1 DEF Matches
    <3>. QED
      BY <1>1, <1>2, <1>3, <3>1, <3>2
  <2>. QED
    BY <2>1, PairedAppend DEF Nests
<1> QED
  <2>1. (n + 1) + 1 = n + 2
    BY <1>1
  <2> HIDE DEF a, n
  <2>2. Levels(a)[Len(a) + 1] = Len(now) /\ (\A i \in 1 .. Len(a) + 1 : Levels(a)[i] >= 0)
    BY <1>1, <1>3, <1>4, <2>1
  <2>3. Nests(a, now)
    BY <1>5, <1>6, <2>2 DEF Nests
  <2>. QED
    BY <2>3 DEF a

(* A bracket that opens: it stands as deep as the stack was high.          *)
LEMMA NestsOpen ==
  ASSUME NEW s \in Seq(Tokens), NEW t \in Tokens, t.type \in Opens,
         NEW open \in Seq(Place), Nests(s, open),
         NEW below \in Seq(Place), Len(below) = Len(open),
         \A d \in 1 .. Len(open) : below[d].kind = open[d].kind,
         NEW place \in Place, place.kind = t.type
  PROVE  Nests(Append(s, t), Append(below, place))
<1> DEFINE a == Append(s, t)
           n == Len(s)
           now == Append(below, place)
           h == Len(open)
<1>1. /\ Len(a) = n + 1 /\ n \in Nat /\ a[n + 1] = t
      /\ \A i \in 1 .. n + 1 : Levels(a)[i] = Levels(s)[i]
      /\ Levels(a)[n + 2] = Levels(s)[n + 1] + Change(t)
  <2>1. Len(a) = n + 1 /\ n \in Nat /\ a[n + 1] = t
    BY LevelsAppend, LenProperties
  <2>2. \A i \in 1 .. n + 1 : Levels(a)[i] = Levels(s)[i]
    BY LevelsAppend
  <2>3. Levels(a)[n + 2] = Levels(s)[n + 1] + Change(t)
    BY LevelsAppend
  <2> QED
    BY <2>1, <2>2, <2>3
<1>2. Levels(s)[n + 1] = h /\ Change(t) = 1 /\ h \in Nat
  BY DEF Nests, Change
<1>3. /\ Len(now) = h + 1 /\ now[h + 1] = place
      /\ \A d \in 1 .. h : now[d] = below[d]
  OBVIOUS
<1>4. Levels(a)[n + 2] = h + 1
  BY <1>1, <1>2
<1>5. \A i \in 1 .. n + 2 : Levels(a)[i] >= 0
  <2> TAKE i \in 1 .. n + 2
  <2>1. CASE i = n + 2
    BY <2>1, <1>2, <1>4
  <2>2. CASE i # n + 2
    <3>1. i \in 1 .. n + 1
      BY <2>2, <1>1
    <3>2. Levels(s)[i] >= 0
      BY <3>1 DEF Nests
    <3>. QED
      BY <1>1, <3>1, <3>2
  <2>. QED
    BY <2>1, <2>2
<1>6. ASSUME NEW d \in 1 .. h + 1
      PROVE  \E p \in 1 .. Len(a) : OpenAt(a, d, now[d].kind, p)
  <2>1. CASE d = h + 1
    <3>1. n + 1 \in 1 .. Len(a) /\ n + 1 \in 1 .. n + 1 /\ d - 1 = h
      BY <1>1, <1>2, <2>1
    <3>2. a[n + 1].type = now[d].kind /\ Levels(a)[n + 1] = d - 1
      BY <1>1, <1>2, <1>3, <2>1, <3>1
    <3>3. \A k \in (n + 1) + 1 .. Len(a) + 1 : k = n + 2
      BY <1>1
    <3>4. \A k \in (n + 1) + 1 .. Len(a) + 1 : Levels(a)[k] >= d
      BY <1>2, <1>4, <2>1, <3>3
    <3>. QED
      BY <3>1, <3>2, <3>4 DEF OpenAt
  <2>2. CASE d # h + 1
    <3>1. d \in 1 .. h /\ d \in Nat /\ now[d].kind = open[d].kind
      BY <1>2, <1>3, <2>2
    <3>2. PICK p \in 1 .. n : OpenAt(s, d, open[d].kind, p)
      BY <3>1 DEF Nests
    <3>3. Levels(s)[n + 1] + Change(t) >= d
      BY <1>2, <3>1
    <3>4. p \in 1 .. Len(a) /\ OpenAt(a, d, open[d].kind, p)
      BY <3>1, <3>2, <3>3, OpenAtAppend
    <3>. QED
      BY <3>1, <3>4
  <2>. QED
    BY <2>1, <2>2
<1>7. Paired(a)
  <2>1. ASSUME NEW i \in 1 .. n, s[i].type \in Opens, Matches(a, i, n + 1)
        PROVE  FALSE
    <3>1. /\ i \in 1 .. n + 1 /\ n + 1 \in i + 1 .. n + 1 /\ n + 1 \in 1 .. n + 1
          /\ (n + 1) + 1 = n + 2
      BY <1>1
    <3>2. Levels(a)[n + 2] = Levels(a)[i] /\ Levels(a)[n + 1] > Levels(a)[i]
      BY <2>1, <3>1 DEF Matches
    <3>. QED
      BY <1>1, <1>2, <1>4, <3>1, <3>2
  <2>. QED
    BY <2>1, PairedAppend DEF Nests
<1> QED
  <2>1. (n + 1) + 1 = n + 2
    BY <1>1
  <2> HIDE DEF a, n, now, h
  <2>2. Levels(a)[Len(a) + 1] = Len(now) /\ (\A i \in 1 .. Len(a) + 1 : Levels(a)[i] >= 0)
    BY <1>1, <1>3, <1>4, <1>5, <2>1
  <2>3. Nests(a, now)
    BY <1>3, <1>6, <1>7, <2>2 DEF Nests
  <2>. QED
    BY <2>3 DEF a, now

(* A bracket that closes: it closes the one on top of the stack, for all   *)
(* that was read after that one stands deeper.                             *)
LEMMA NestsClose ==
  ASSUME NEW s \in Seq(Tokens), NEW t \in Tokens, t.type \in Closes,
         NEW open \in Seq(Place), Nests(s, open),
         Len(open) > 0, open[Len(open)].kind = Opening(t.type),
         NEW now \in Seq(Place), Len(now) = Len(open) - 1,
         \A d \in 1 .. Len(open) - 1 : now[d].kind = open[d].kind
  PROVE  Nests(Append(s, t), now)
<1> DEFINE a == Append(s, t)
           n == Len(s)
           h == Len(open)
<1>1. /\ Len(a) = n + 1 /\ n \in Nat /\ a[n + 1] = t
      /\ \A i \in 1 .. n + 1 : Levels(a)[i] = Levels(s)[i]
      /\ Levels(a)[n + 2] = Levels(s)[n + 1] + Change(t)
  <2>1. Len(a) = n + 1 /\ n \in Nat /\ a[n + 1] = t
    BY LevelsAppend, LenProperties
  <2>2. \A i \in 1 .. n + 1 : Levels(a)[i] = Levels(s)[i]
    BY LevelsAppend
  <2>3. Levels(a)[n + 2] = Levels(s)[n + 1] + Change(t)
    BY LevelsAppend
  <2> QED
    BY <2>1, <2>2, <2>3
<1>2. Levels(s)[n + 1] = h /\ Change(t) = -1 /\ h \in Nat \ {0}
  BY DEF Nests, Change, Opens, Closes
<1>3. Levels(a)[n + 2] = h - 1 /\ h - 1 \in Nat
  BY <1>1, <1>2
<1>4. \A i \in 1 .. n + 2 : Levels(a)[i] >= 0
  <2> TAKE i \in 1 .. n + 2
  <2>1. CASE i = n + 2
    BY <2>1, <1>3
  <2>2. CASE i # n + 2
    <3>1. i \in 1 .. n + 1
      BY <2>2, <1>1
    <3>2. Levels(s)[i] >= 0
      BY <3>1 DEF Nests
    <3>. QED
      BY <1>1, <3>1, <3>2
  <2>. QED
    BY <2>1, <2>2
<1>5. ASSUME NEW d \in 1 .. Len(now)
      PROVE  \E p \in 1 .. Len(a) : OpenAt(a, d, now[d].kind, p)
  <2>1. d \in 1 .. h /\ d \in 1 .. h - 1 /\ d \in Nat /\ now[d].kind = open[d].kind
    <3>1. d \in 1 .. h - 1
      OBVIOUS
    <3>2. now[d].kind = open[d].kind
      BY <3>1
    <3> HIDE DEF h
    <3>3. d \in 1 .. h /\ d \in Nat
      BY <1>2, <3>1
    <3>. QED
      BY <3>1, <3>2, <3>3
  <2>2. PICK p \in 1 .. n : OpenAt(s, d, open[d].kind, p)
    BY <2>1 DEF Nests
  <2>3. Levels(s)[n + 1] + Change(t) >= d
    BY <1>2, <2>1
  <2>4. p \in 1 .. Len(a) /\ OpenAt(a, d, open[d].kind, p)
    BY <2>1, <2>2, <2>3, OpenAtAppend
  <2>. QED
    BY <2>1, <2>4
<1>6. Paired(a)
  <2>1. ASSUME NEW i \in 1 .. n, s[i].type \in Opens, Matches(a, i, n + 1)
        PROVE  t.type = (IF s[i].type = "openObj" THEN "closeObj" ELSE "closeArray")
    <3>1. PICK p \in 1 .. n : OpenAt(s, h, open[h].kind, p)
      BY <1>2 DEF Nests
    <3>2. /\ s[p].type = Opening(t.type) /\ Levels(s)[p] = h - 1
          /\ \A k \in p + 1 .. n + 1 : Levels(s)[k] >= h
      BY <3>1 DEF OpenAt
    <3>3. (n + 1) + 1 = n + 2 /\ i \in 1 .. n + 1 /\ p \in 1 .. n + 1
      BY <1>1
    <3>4. Levels(s)[i] = h - 1 /\ \A k \in i + 1 .. n + 1 : Levels(a)[k] > Levels(s)[i]
      BY <1>1, <1>3, <2>1, <3>3 DEF Matches
    <3>5. ~(i < p)
      <4> SUFFICES ASSUME i < p PROVE FALSE
        OBVIOUS
      <4>1. p \in i + 1 .. n + 1
        BY <3>3, <1>1
      <4>2. Levels(a)[p] > Levels(s)[i]
        BY <3>4, <4>1
      <4>. QED
        BY <1>1, <1>3, <3>2, <3>3, <3>4, <4>2
    <3>6. ~(p < i)
      <4> SUFFICES ASSUME p < i PROVE FALSE
        OBVIOUS
      <4>1. i \in p + 1 .. n + 1
        BY <3>3, <1>1
      <4>. QED
        BY <1>2, <3>2, <3>4, <4>1
    <3>7. i = p
      BY <3>5, <3>6
    <3>. QED
      BY <3>2, <3>7 DEF Opening, Closes
  <2>. QED
    BY <2>1, PairedAppend DEF Nests
<1> QED
  <2>1. (n + 1) + 1 = n + 2
    BY <1>1
  <2> HIDE DEF a, n
  <2>2. Levels(a)[Len(a) + 1] = Len(now) /\ (\A i \in 1 .. Len(a) + 1 : Levels(a)[i] >= 0)
    BY <1>1, <1>3, <1>4, <2>1
  <2>3. Nests(a, now)
    BY <1>5, <1>6, <2>2 DEF Nests
  <2>. QED
    BY <2>3 DEF a

(* While the parser reads, the stack says what is open; what it accepted   *)
(* is nested.                                                              *)
NestingInv ==
  /\ phase = "parsing" => Nests(input, stack)
  /\ AcceptedIsNested

(* A new position on top of the stack is of the kind that was there.       *)
LEMMA SetTopKinds ==
  ASSUME ParserTypeOK, stack # <<>>, NEW at \in Nat, NEW pos \in 0 .. ChunkSize
  PROVE  /\ SetTop(at, pos) \in Seq(Place) /\ Len(SetTop(at, pos)) = Len(stack)
         /\ \A d \in 1 .. Len(stack) : SetTop(at, pos)[d].kind = stack[d].kind
<1>1. /\ SetTop(at, pos) \in Seq(Place)
      /\ Len(SetTop(at, pos)) = Len(stack)
      /\ \A i \in 1 .. Len(stack) - 1 : SetTop(at, pos)[i] = stack[i]
  BY SetTopType
<1>2. Len(stack) \in Nat \ {0} /\ stack \in Seq(Place)
  BY HasLast DEF ParserTypeOK
<1>3. SetTop(at, pos)[Len(stack)].kind = stack[Len(stack)].kind
  BY <1>2 DEF SetTop, Position
<1>4. ASSUME NEW d \in 1 .. Len(stack) PROVE SetTop(at, pos)[d].kind = stack[d].kind
  <2>1. d = Len(stack) \/ d \in 1 .. Len(stack) - 1
    BY <1>2
  <2>. QED
    BY <1>1, <1>3, <2>1
<1> QED
  BY <1>1, <1>4

(* After a refusal there is nothing to say.                                *)
LEMMA RefuseNests ==
  ASSUME NEW t, NEW cs, Refuse(t, cs)
  PROVE  NestingInv'
BY DEF Refuse, NestingInv, AcceptedIsNested

(* Nor has it to be said again after a token that leaves the stack's kinds *)
(* as they are.                                                            *)
LEMMA OtherNests ==
  ASSUME ParserTypeOK, NestingInv, phase = "parsing",
         NEW t \in Tokens, t.type \notin Opens \cup Closes, GoOn(t),
         stack' \in Seq(Place), Len(stack') = Len(stack),
         \A d \in 1 .. Len(stack) : stack'[d].kind = stack[d].kind
  PROVE  NestingInv'
<1>1. input \in Seq(Tokens) /\ stack \in Seq(Place) /\ Nests(input, stack)
  BY DEF ParserTypeOK, NestingInv
<1>2. \A now \in Seq(Place) :
        Len(now) = Len(stack) /\ (\A d \in 1 .. Len(stack) : now[d].kind = stack[d].kind)
          => Nests(Append(input, t), now)
  BY <1>1, NestsOther
<1>3. Nests(Append(input, t), stack')
  BY <1>2
<1>4. input' = Append(input, t) /\ phase' = "parsing"
  BY DEF GoOn
<1>5. Nests(input', stack')
  BY <1>3, <1>4
<1> QED
  BY <1>4, <1>5 DEF NestingInv, AcceptedIsNested

(* A container is opened.                                                  *)
LEMMA PushNests ==
  ASSUME ParserTypeOK, NestingInv, phase = "parsing",
         NEW t \in Tokens, t.type \in Opens, NEW cs,
         NEW below \in Seq(Place), Len(below) = Len(stack),
         \A d \in 1 .. Len(stack) : below[d].kind = stack[d].kind,
         Push(t, cs, below)
  PROVE  NestingInv'
<1> DEFINE place == Position(t.type, Len(chunks) + 1, 0)
<1>1. input \in Seq(Tokens) /\ stack \in Seq(Place) /\ Nests(input, stack)
  BY DEF ParserTypeOK, NestingInv
<1>2. place \in Place /\ place.kind = t.type
  BY ConstantsAssumption DEF Position, Place, ParserTypeOK
<1>3. stack' = Append(below, place) /\ input' = Append(input, t) /\ phase' = "parsing"
  BY DEF Push, GoOn
<1> HIDE DEF place
<1>4. Nests(Append(input, t), Append(below, place))
  BY <1>1, <1>2, NestsOpen
<1> QED
  BY <1>3, <1>4 DEF NestingInv, AcceptedIsNested

LEMMA OpenContainerNests ==
  ASSUME ParserInv, NestingInv, phase = "parsing", NEW t \in Tokens, OpenContainer(t)
  PROVE  NestingInv'
<1>1. ParserTypeOK /\ t.type \in Opens /\ stack \in Seq(Place)
  BY DEF ParserInv, ParserTypeOK, OpenContainer
<1>2. CASE OpenFirst(t)
  BY <1>1, <1>2, PushNests DEF OpenFirst
<1>3. CASE OpenNested(t)
  <2> DEFINE more == Append(chunks, NewChunk)
             g == Grown(more)
             below == SetTop(g.at, g.pos + 1)
  <2>1. more \in Seq(Chunk) /\ Len(more) >= Len(chunks) /\ stack # <<>>
    <3>1. chunks \in Seq(Chunk) /\ NewChunk \in Chunk
      BY <1>1, NewChunkType DEF ParserTypeOK
    <3>2. more \in Seq(Chunk) /\ Len(more) = Len(chunks) + 1 /\ Len(chunks) \in Nat
      BY <3>1
    <3>3. Len(more) >= Len(chunks)
      BY <3>2
    <3>4. stack # <<>>
      BY <1>3 DEF OpenNested
    <3>. QED
      BY <3>2, <3>3, <3>4
  <2>2. g.at \in 1 .. Len(g.chunks) /\ g.pos \in 0 .. ChunkSize - 1
    BY <1>1, <2>1, GrownType
  <2>3. \E cs : Refuse(t, cs) \/ Push(t, cs, below)
    BY <1>3 DEF OpenNested
  <2> HIDE DEF g
  <2>4. g.at \in Nat /\ g.pos + 1 \in 0 .. ChunkSize
    BY <2>2, ConstantsAssumption
  <2>5. /\ below \in Seq(Place) /\ Len(below) = Len(stack)
        /\ \A d \in 1 .. Len(stack) : below[d].kind = stack[d].kind
    BY <1>1, <2>1, <2>4, SetTopKinds
  <2> HIDE DEF below
  <2>. QED
    BY <1>1, <2>3, <2>5, RefuseNests, PushNests
<1>4. CASE OpenMisplaced(t)
  BY <1>4, RefuseNests DEF OpenMisplaced
<1> QED
  BY <1>2, <1>3, <1>4 DEF OpenContainer

LEMMA CloseContainerNests ==
  ASSUME ParserInv, NestingInv, phase = "parsing", NEW t \in Tokens, CloseContainer(t)
  PROVE  NestingInv'
<1>1. CASE CloseMisplaced(t.type)
  BY <1>1, RefuseNests DEF CloseContainer
<1>2. CASE ~CloseMisplaced(t.type)
  <2>1. input \in Seq(Tokens) /\ stack \in Seq(Place) /\ Nests(input, stack)
    BY DEF ParserInv, ParserTypeOK, NestingInv
  <2>2. stack # <<>> /\ Top.kind = Opening(t.type)
    BY <1>2 DEF CloseMisplaced
  <2>3. /\ stack' = SubSeq(stack, 1, Len(stack) - 1) /\ t.type \in Closes
        /\ input' = Append(input, t) /\ phase' = "parsing"
    BY <1>2 DEF CloseContainer, GoOn, Front
  <2>4. Len(stack) \in Nat \ {0}
    BY <2>1, <2>2, HasLast
  <2>5. Len(stack) - 1 \in Nat /\ Len(stack) - 1 <= Len(stack)
    BY <2>4
  <2>6. PICK now : now = SubSeq(stack, 1, Len(stack) - 1)
    OBVIOUS
  <2>7. /\ now \in Seq(Place) /\ Len(now) = Len(stack) - 1
        /\ \A d \in 1 .. Len(stack) - 1 : now[d] = stack[d]
    BY <2>1, <2>5, <2>6, WithoutLast
  <2>8. Len(stack) > 0 /\ stack[Len(stack)].kind = Opening(t.type) /\ t.type \in Closes
    BY <2>2, <2>3, <2>4 DEF Top
  <2>9. \A d \in 1 .. Len(stack) - 1 : now[d].kind = stack[d].kind
    BY <2>7
  <2>10. Nests(Append(input, t), now)
    BY <2>1, <2>7, <2>8, <2>9, NestsClose
  <2>. QED
    BY <2>3, <2>6, <2>10 DEF NestingInv, AcceptedIsNested
<1> QED
  BY <1>1, <1>2

LEMMA ScalarNests ==
  ASSUME ParserInv, NestingInv, phase = "parsing", NEW t \in Tokens, PutScalar(t)
  PROVE  NestingInv'
<1>1. /\ ParserTypeOK /\ t.type \notin Opens \cup Closes
      /\ stack \in Seq(Place) /\ chunks \in Seq(Chunk)
  BY DEF ParserInv, ParserTypeOK, PutScalar, Opens, Closes
<1>2. CASE Alone(t)
  BY <1>1, <1>2, OtherNests DEF Alone
<1>3. CASE Refuse(t, chunks)
  BY <1>3, RefuseNests
<1>4. CASE st # 0 /\ expect # "none" /\ (PutKey(t) \/ PutValue(t))
  <2> DEFINE g == Grown(chunks)
  <2>1. stack # <<>> /\ Len(chunks) >= Len(chunks)
    BY <1>1, <1>4 DEF ParserTypeOK, StackOK
  <2>2. g.at \in 1 .. Len(g.chunks) /\ g.pos \in 0 .. ChunkSize - 1
    BY <1>1, <2>1, GrownType
  <2>3. PICK pos \in {g.pos, g.pos + 1} : GoOn(t) /\ stack' = SetTop(g.at, pos)
    BY <1>4 DEF PutKey, PutValue
  <2> HIDE DEF g
  <2>4. g.at \in Nat /\ pos \in 0 .. ChunkSize
    BY <2>2, <2>3, ConstantsAssumption
  <2>5. /\ stack' \in Seq(Place) /\ Len(stack') = Len(stack)
        /\ \A d \in 1 .. Len(stack) : stack'[d].kind = stack[d].kind
    BY <1>1, <2>1, <2>3, <2>4, SetTopKinds
  <2>. QED
    BY <1>1, <2>3, <2>5, OtherNests
<1> QED
  BY <1>2, <1>3, <1>4 DEF PutScalar

LEMMA MarkNests ==
  ASSUME ParserInv, NestingInv, phase = "parsing", NEW t \in Tokens,
         Colon(t) \/ Comma(t) \/ BadToken(t)
  PROVE  NestingInv'
<1>1. ParserTypeOK /\ stack \in Seq(Place)
  BY DEF ParserInv, ParserTypeOK
<1>2. Refuse(t, chunks) \/ (t.type \in {"colon", "comma"} /\ GoOn(t) /\ stack' = stack)
  BY DEF Colon, ColonAccepted, ColonRefused, Comma, BadToken
<1>3. CASE Refuse(t, chunks)
  BY <1>3, RefuseNests
<1>4. CASE t.type \in {"colon", "comma"} /\ GoOn(t) /\ stack' = stack
  <2>1. t.type \notin Opens \cup Closes
    BY <1>4 DEF Opens, Closes
  <2>. QED
    BY <1>1, <1>4, <2>1, OtherNests
<1> QED
  BY <1>2, <1>3, <1>4

(* At the end nothing is open: the stack is empty, or there is one scalar. *)
LEMMA EndNests ==
  ASSUME ParserInv, NestingInv, EndOfInput
  PROVE  NestingInv'
<1>1. input \in Seq(Tokens) /\ stack \in Seq(Place) /\ Nests(input, stack)
  BY DEF EndOfInput, ParserInv, ParserTypeOK, NestingInv
<1>2. /\ input' = input /\ phase' \in {"accepted", "refused"}
      /\ phase' = "accepted" =>
           IF SingleToken THEN input[1].type \in Scalars ELSE stack = <<>>
  BY DEF EndOfInput
<1>3. ASSUME phase' = "accepted" PROVE Levels(input)[Len(input) + 1] = 0
  <2>1. CASE SingleToken
    <3>1. Change(input[1]) = 0
      BY <1>2, <1>3, <2>1 DEF Change, Opens, Closes, Scalars
    <3>2. Len(input) = 1 /\ 1 \in 1 .. Len(input)
      BY <2>1 DEF SingleToken
    <3>3. /\ Levels(input)[1] = 0
          /\ \A i \in 1 .. Len(input) : Levels(input)[i + 1] = Levels(input)[i] + Change(input[i])
      BY <1>1, LevelsSteps
    <3>. QED
      BY <3>1, <3>2, <3>3
  <2>2. CASE ~SingleToken
    <3>1. Len(stack) = 0
      BY <1>2, <1>3, <2>2, EmptySeq
    <3>. QED
      BY <1>1, <3>1 DEF Nests
  <2>. QED
    BY <2>1, <2>2
<1>4. ASSUME phase' = "accepted" PROVE IsNested(input)
  <2>1. /\ Paired(input)
        /\ \A i \in 1 .. Len(input) : Levels(input)[i] >= 0
    BY <1>1 DEF Nests
  <2>. QED
    BY <1>3, <1>4, <2>1 DEF IsNested
<1> QED
  BY <1>2, <1>4 DEF NestingInv, AcceptedIsNested

(* Every step of the parser keeps the stack in step with the brackets.     *)
LEMMA NestingStep == ParserInv /\ NestingInv /\ [ParserNext]_parserVars => NestingInv'
<1> SUFFICES ASSUME ParserInv, NestingInv, [ParserNext]_parserVars PROVE NestingInv'
  OBVIOUS
<1>1. CASE ReadToken
  BY <1>1, OpenContainerNests, CloseContainerNests, ScalarNests, MarkNests DEF ReadToken
<1>2. CASE EndOfInput
  BY <1>2, EndNests
<1>3. CASE LoadFails
  BY <1>3 DEF LoadFails, NestingInv, AcceptedIsNested
<1>4. CASE UNCHANGED parserVars
  BY <1>4 DEF parserVars, NestingInv, AcceptedIsNested
<1> QED
  BY <1>1, <1>2, <1>3, <1>4 DEF ParserNext

(* Before the first token nothing is open, and the empty input is nested.  *)
LEMMA NestingInit == Init => ParserInv /\ NestingInv
<1> SUFFICES ASSUME Init PROVE ParserInv /\ NestingInv
  OBVIOUS
<1>1. /\ input = <<>> /\ stack = <<>> /\ Len(stack) = 0 /\ Len(input) = 0
      /\ input \in Seq(Tokens) /\ phase = "parsing"
  BY EmptySeq DEF Init
<1>2. Levels(input)[1] = 0
  BY <1>1, LevelsSteps
<1>3. Nests(input, stack)
  <2>1. 1 .. Len(input) + 1 = {1} /\ 1 .. Len(input) = {} /\ 1 .. Len(stack) = {}
    BY <1>1
  <2>2. Len(input) + 1 = 1
    BY <1>1
  <2>. QED
    BY <1>1, <1>2, <2>1, <2>2 DEF Nests, Paired
<1>4. NestingInv
  BY <1>1, <1>3 DEF NestingInv, AcceptedIsNested
<1>. QED
  BY <1>4, ParserInit

(* For every size of chunk and stack and every sequence of tokens, JSON or *)
(* not: what j_parse accepts has each bracket closed by one of its kind    *)
(* and nothing left open.                                                  *)
THEOREM AcceptsOnlyNested == ParserSpec => []AcceptedIsNested
<1>1. Init => ParserInv /\ NestingInv
  BY NestingInit
<1>2. ParserInv /\ NestingInv /\ [ParserNext]_parserVars => (ParserInv /\ NestingInv)'
  BY ParserStep, NestingStep
<1>3. NestingInv => AcceptedIsNested
  BY DEF NestingInv
<1> QED
  BY <1>1, <1>2, <1>3, PTL DEF ParserSpec

-----------------------------------------------------------------------------
(* Counting up, minimal sets, and sequences put one behind the other.      *)

(* A set of numbers that holds 1, and with each number the next, holds all *)
(* up to n.                                                                *)
LEMMA CountingUp ==
  ASSUME NEW n \in Nat, NEW G,
         1 <= n => 1 \in G,
         \A i \in 1 .. n - 1 : i \in G => i + 1 \in G
  PROVE  \A i \in 1 .. n : i \in G
<1> DEFINE Bad == {i \in 1 .. n : i \notin G}
           Below == {1 .. i : i \in Bad}
<1> SUFFICES ASSUME Bad # {} PROVE FALSE
  OBVIOUS
<1>1. Below \subseteq FiniteSubsetsOf(1 .. n) /\ Below # {}
  <2>1. IsFiniteSet(1 .. n)
    BY FS_Interval
  <2>2. \A i \in Bad : 1 .. i \subseteq 1 .. n
    OBVIOUS
  <2>3. \A i \in Bad : 1 .. i \in FiniteSubsetsOf(1 .. n)
    BY <2>1, <2>2, FS_Subset DEF FiniteSubsetsOf
  <2> QED
    BY <2>3
<1>2. PICK I \in Below : \A J \in Below : ~(<<J, I>> \in StrictSubsetOrdering(1 .. n))
  BY <1>1, FS_StrictSubsetOrderingWellFounded, WFMin
<1>3. PICK i \in Bad : I = 1 .. i
  OBVIOUS
<1>4. i \in 2 .. n /\ i - 1 \in 1 .. n - 1 /\ i - 1 + 1 = i
  <2>1. i \in 1 .. n /\ i # 1
    BY <1>3
  <2> QED
    BY <2>1
<1>5. i - 1 \in Bad
  BY <1>3, <1>4
<1>6. 1 .. i - 1 \in Below
  BY <1>5
<1>7. <<1 .. i - 1, I>> \in StrictSubsetOrdering(1 .. n)
  <2>1. 1 .. i - 1 \subseteq 1 .. i /\ 1 .. i \subseteq 1 .. n
    BY <1>4
  <2>2. i \in 1 .. i /\ i \notin 1 .. i - 1
    BY <1>4
  <2> QED
    BY <2>1, <2>2, <1>3 DEF StrictSubsetOrdering
<1> QED
  BY <1>2, <1>6, <1>7

(* Of a set of finite sets that is not empty, one has no smaller one in it.*)
LEMMA SmallestSet ==
  ASSUME NEW S, IsFiniteSet(S), NEW F \in SUBSET (SUBSET S), F # {}
  PROVE  \E T \in F : \A U \in F : U \subseteq T => U = T
<1>1. F \subseteq FiniteSubsetsOf(S)
  BY FS_FiniteSubsetsOfFinite
<1>2. PICK T \in F : \A U \in F : ~(<<U, T>> \in StrictSubsetOrdering(S))
  BY <1>1, FS_StrictSubsetOrderingWellFounded, WFMin
<1> QED
  BY <1>2 DEF StrictSubsetOrdering

(* Two sequences one behind the other: what they hold, and that nothing is *)
(* in them twice.                                                          *)
LEMMA ConcatOnce ==
  ASSUME NEW S, NEW a \in Seq(S), NEW b \in Seq(S)
  PROVE  /\ a \o b \in Seq(S)
         /\ ToSet(a \o b) = ToSet(a) \cup ToSet(b)
         /\ IsInjective(a) /\ IsInjective(b) /\ ToSet(a) \cap ToSet(b) = {}
              => IsInjective(a \o b)
<1>1. /\ a \o b \in Seq(S)
      /\ Len(a \o b) = Len(a) + Len(b)
      /\ \A i \in 1 .. Len(a) + Len(b) :
           (a \o b)[i] = IF i <= Len(a) THEN a[i] ELSE b[i - Len(a)]
  BY ConcatProperties
<1>2. PICK m, n, ab : m = Len(a) /\ n = Len(b) /\ ab = a \o b
  OBVIOUS
<1>3. /\ m \in Nat /\ n \in Nat
      /\ DOMAIN a = 1 .. m /\ DOMAIN b = 1 .. n /\ DOMAIN ab = 1 .. m + n
  BY <1>1, <1>2, LenProperties
<1>4. /\ \A i \in 1 .. m : i \in 1 .. m + n /\ ab[i] = a[i]
      /\ \A i \in 1 .. n : i + m \in 1 .. m + n /\ ab[i + m] = b[i]
      /\ \A i \in 1 .. m + n : i \in 1 .. m \/ (i - m \in 1 .. n /\ ab[i] = b[i - m])
  <2>1. \A i \in 1 .. m + n : ab[i] = IF i <= m THEN a[i] ELSE b[i - m]
    BY <1>1, <1>2
  <2> QED
    BY <1>3, <2>1
<1>5. ToSet(ab) = ToSet(a) \cup ToSet(b)
  <2>1. /\ ToSet(ab) = {ab[i] : i \in 1 .. m + n}
        /\ ToSet(a) = {a[i] : i \in 1 .. m}
        /\ ToSet(b) = {b[i] : i \in 1 .. n}
    BY <1>3 DEF ToSet
  <2>2. \A i \in 1 .. m : ab[i] = a[i] /\ i \in 1 .. m + n
    BY <1>4
  <2>3. \A i \in 1 .. n : ab[i + m] = b[i] /\ i + m \in 1 .. m + n
    BY <1>4
  <2>4. \A i \in 1 .. m + n : (i \in 1 .. m /\ ab[i] = a[i]) \/ (i - m \in 1 .. n /\ ab[i] = b[i - m])
    BY <1>4
  <2>5. ToSet(ab) \subseteq ToSet(a) \cup ToSet(b)
    BY <2>1, <2>4, Zenon
  <2>6. ToSet(a) \subseteq ToSet(ab)
    BY <2>1, <2>2, Zenon
  <2>7. ToSet(b) \subseteq ToSet(ab)
    BY <2>1, <2>3, Zenon
  <2> QED
    BY <2>5, <2>6, <2>7, Zenon
<1>6. ASSUME IsInjective(a), IsInjective(b), ToSet(a) \cap ToSet(b) = {}
      PROVE  IsInjective(ab)
  <2>1. \A i \in 1 .. m : ab[i] \in ToSet(a)
    BY <1>3, <1>4 DEF ToSet
  <2>2. \A i \in 1 .. m + n : i \notin 1 .. m => i - m \in 1 .. n /\ ab[i] = b[i - m] /\ ab[i] \in ToSet(b)
    BY <1>3, <1>4 DEF ToSet
  <2> SUFFICES ASSUME NEW i \in 1 .. m + n, NEW j \in 1 .. m + n, ab[i] = ab[j]
               PROVE  i = j
    BY <1>3 DEF IsInjective
  <2>3. CASE i \in 1 .. m /\ j \in 1 .. m
    BY <2>3, <1>3, <1>4, <1>6 DEF IsInjective
  <2>4. CASE i \notin 1 .. m /\ j \notin 1 .. m
    <3>1. i - m = j - m
      BY <2>2, <2>4, <1>3, <1>6 DEF IsInjective
    <3> QED
      BY <3>1, <1>3
  <2>5. CASE i \in 1 .. m /\ j \notin 1 .. m
    BY <2>1, <2>2, <2>5, <1>6
  <2>6. CASE i \notin 1 .. m /\ j \in 1 .. m
    BY <2>1, <2>2, <2>6, <1>6
  <2> QED
    BY <2>3, <2>4, <2>5, <2>6
<1> QED
  BY <1>1, <1>2, <1>5, <1>6

(* f[i] is the first i sequences of s put one behind the other.            *)
Prolonged(f, s, n) ==
  /\ f[1] = s[1]
  /\ \A i \in 1 .. n - 1 : f[i + 1] = f[i] \o s[i + 1]

(* FlattenSeq satisfies its definition: it puts the sequences one behind   *)
(* the other, from the first to the last.                                  *)
LEMMA FlattenDef ==
  ASSUME NEW n \in Nat \ {0}, NEW S, NEW s \in [1 .. n -> Seq(S)]
  PROVE  \E f : FlattenSeq(s) = f[n] /\ Prolonged(f, s, n)
<1> DEFINE Step(f, i) == IF i = 1 THEN s[i] ELSE f[i - 1] \o s[i]
           Is(f, j) == f = [i \in 1 .. j |-> Step(f, i)]
           G == {j \in 1 .. n : \E f : Is(f, j)}
<1>1. \A f, j : Is(f, j) => \A i \in 1 .. j : f[i] = Step(f, i)
  <2> HIDE DEF Step
  <2> QED
    OBVIOUS
<1>2. \A f, i : Step(f, 1) = s[1] /\ (i \in 1 .. n - 1 => Step(f, i + 1) = f[i] \o s[i + 1])
  <2> TAKE f, i
  <2>1. Step(f, 1) = s[1]
    OBVIOUS
  <2>2. ASSUME i \in 1 .. n - 1
        PROVE  Step(f, i + 1) = f[i] \o s[i + 1]
    <3>1. PICK k : k = i + 1
      OBVIOUS
    <3>2. k # 1 /\ k - 1 = i
      BY <2>2, <3>1
    <3>3. Step(f, k) = f[k - 1] \o s[k]
      BY <3>2, Zenon
    <3> QED
      BY <3>1, <3>2, <3>3, Zenon
  <2> QED
    BY <2>1, <2>2
<1>3. ASSUME NEW f, NEW g, NEW j \in 1 .. n - 1, \A k \in 1 .. j : g[k] = f[k],
             NEW i \in 1 .. j + 1
      PROVE  Step(g, i) = Step(f, i)
  <2>1. i = 1 \/ i - 1 \in 1 .. j
    OBVIOUS
  <2>2. i = 1 \/ g[i - 1] = f[i - 1]
    BY <1>3, <2>1, Zenon
  <2> QED
    BY <2>2, Zenon
<1> HIDE DEF Step
<1>4. 1 \in G
  <2>1. PICK f : f = [i \in 1 .. 1 |-> s[1]]
    OBVIOUS
  <2>2. \A i \in 1 .. 1 : i = 1 /\ s[1] = Step(f, i)
    BY <1>2
  <2>3. [i \in 1 .. 1 |-> s[1]] = [i \in 1 .. 1 |-> Step(f, i)]
    BY <2>2
  <2>4. Is(f, 1)
    BY <2>1, <2>3, Zenon
  <2>5. 1 \in 1 .. n
    OBVIOUS
  <2> HIDE DEF Is
  <2> QED
    BY <2>4, <2>5
<1>5. ASSUME NEW j \in 1 .. n - 1, j \in G
      PROVE  j + 1 \in G
  <2>1. PICK f : Is(f, j)
    BY <1>5
  <2>2. PICK g : g = [i \in 1 .. j + 1 |-> IF i \in 1 .. j THEN f[i] ELSE Step(f, i)]
    OBVIOUS
  <2>3. \A i \in 1 .. j : i \in 1 .. j + 1 /\ g[i] = f[i]
    BY <2>2
  <2>4. \A i \in 1 .. j + 1 : g[i] = Step(f, i)
    <3>1. \A i \in 1 .. j : f[i] = Step(f, i)
      BY <1>1, <2>1, Zenon
    <3> QED
      BY <2>2, <3>1, Zenon
  <2>5. \A i \in 1 .. j + 1 : g[i] = Step(g, i)
    <3>1. \A k \in 1 .. j : g[k] = f[k]
      BY <2>3
    <3>2. j \in 1 .. n - 1
      OBVIOUS
    <3> HIDE DEF G
    <3>3. \A i \in 1 .. j + 1 : Step(g, i) = Step(f, i)
      BY <1>3, <3>1, <3>2, Zenon
    <3> QED
      BY <2>4, <3>3, Zenon
  <2>6. g = [i \in 1 .. j + 1 |-> g[i]]
    BY <2>2
  <2>7. Is(g, j + 1)
    BY <2>5, <2>6
  <2>8. j + 1 \in 1 .. n
    OBVIOUS
  <2> HIDE DEF Is
  <2> QED
    BY <2>7, <2>8
<1>6. n \in G
  <2> HIDE DEF G
  <2>1. n \in Nat /\ n \in 1 .. n
    OBVIOUS
  <2>2. \A i \in 1 .. n - 1 : i \in G => i + 1 \in G
    BY <1>5
  <2>3. \A i \in 1 .. n : i \in G
    BY <1>4, <2>1, <2>2, CountingUp, Zenon
  <2> QED
    BY <2>1, <2>3
<1>7. PICK f : f = CHOOSE h : Is(h, n)
  OBVIOUS
<1>8. Is(f, n)
  <2> HIDE DEF Is
  <2>1. \E h : Is(h, n)
    BY <1>6
  <2> QED
    BY <1>7, <2>1, Zenon
<1>9. FlattenSeq(s) = f[n]
  <2>1. Len(s) = n /\ n # 0
    OBVIOUS
  <2>2. FlattenSeq(s) = (CHOOSE h : Is(h, n))[n]
    BY <2>1 DEF FlattenSeq, Step
  <2> QED
    BY <2>2, <1>7
<1>10. \A i \in 1 .. n : f[i] = Step(f, i)
  BY <1>1, <1>8, Zenon
<1>11. Prolonged(f, s, n)
  <2>1. \A i \in 1 .. n - 1 : i + 1 \in 1 .. n
    OBVIOUS
  <2>2. 1 \in 1 .. n
    OBVIOUS
  <2> QED
    BY <1>2, <1>10, <2>1, <2>2, Zenon DEF Prolonged
<1> QED
  BY <1>9, <1>11

(* What FlattenSeq returns holds what its pieces hold, and nothing twice   *)
(* when no piece holds anything twice or anything another one holds.       *)
LEMMA FlattenOnce ==
  ASSUME NEW n \in Nat \ {0}, NEW S, NEW s \in [1 .. n -> Seq(S)]
  PROVE  /\ FlattenSeq(s) \in Seq(S)
         /\ ToSet(FlattenSeq(s)) = UNION {ToSet(s[i]) : i \in 1 .. n}
         /\ /\ \A i \in 1 .. n : IsInjective(s[i])
            /\ \A i, j \in 1 .. n : i # j => ToSet(s[i]) \cap ToSet(s[j]) = {}
            => IsInjective(FlattenSeq(s))
<1>1. PICK f : FlattenSeq(s) = f[n] /\ Prolonged(f, s, n)
  BY FlattenDef
<1> DEFINE Once == /\ \A i \in 1 .. n : IsInjective(s[i])
                   /\ \A i, j \in 1 .. n : i # j => ToSet(s[i]) \cap ToSet(s[j]) = {}
           Upto(i) == UNION {ToSet(s[j]) : j \in 1 .. i}
           Good(i) == /\ f[i] \in Seq(S)
                      /\ ToSet(f[i]) = Upto(i)
                      /\ Once => IsInjective(f[i])
           G == {i \in 1 .. n : Good(i)}
<1>2. 1 \in G
  <2>1. Upto(1) = ToSet(s[1])
    <3>1. 1 .. 1 = {1}
      OBVIOUS
    <3> QED
      BY <3>1
  <2>2. f[1] = s[1] /\ 1 \in 1 .. n
    <3>1. f[1] = s[1]
      BY <1>1, Zenon DEF Prolonged
    <3>2. 1 \in 1 .. n
      OBVIOUS
    <3> QED
      BY <3>1, <3>2
  <2>3. Good(1)
    BY <2>1, <2>2
  <2> QED
    BY <2>2, <2>3
<1>3. ASSUME NEW i \in 1 .. n - 1, i \in G
      PROVE  i + 1 \in G
  <2>1. Good(i) /\ i + 1 \in 1 .. n /\ s[i + 1] \in Seq(S)
    BY <1>3
  <2>2. f[i + 1] = f[i] \o s[i + 1]
    <3> HIDE DEF G
    <3> QED
      BY <1>1, Zenon DEF Prolonged
  <2>3. /\ f[i + 1] \in Seq(S)
        /\ ToSet(f[i + 1]) = ToSet(f[i]) \cup ToSet(s[i + 1])
        /\ IsInjective(f[i]) /\ IsInjective(s[i + 1]) /\ ToSet(f[i]) \cap ToSet(s[i + 1]) = {}
              => IsInjective(f[i + 1])
    <3>1. f[i] \in Seq(S) /\ s[i + 1] \in Seq(S)
      BY <2>1
    <3> HIDE DEF Good, G
    <3>2. PICK a, b : a = f[i] /\ b = s[i + 1]
      OBVIOUS
    <3>3. /\ a \o b \in Seq(S)
          /\ ToSet(a \o b) = ToSet(a) \cup ToSet(b)
          /\ IsInjective(a) /\ IsInjective(b) /\ ToSet(a) \cap ToSet(b) = {}
              => IsInjective(a \o b)
      BY <3>1, <3>2, ConcatOnce
    <3>4. f[i + 1] = a \o b
      BY <2>2, <3>2
    <3> QED
      BY <3>2, <3>3, <3>4, Zenon
  <2>4. Upto(i + 1) = Upto(i) \cup ToSet(s[i + 1])
    <3>1. 1 .. i + 1 = (1 .. i) \cup {i + 1}
      OBVIOUS
    <3> QED
      BY <3>1
  <2>5. Once => Upto(i) \cap ToSet(s[i + 1]) = {}
    <3>1. \A j \in 1 .. i : j \in 1 .. n /\ j # i + 1
      OBVIOUS
    <3> QED
      BY <3>1, <2>1
  <2>6. Once => IsInjective(s[i + 1])
    BY <2>1
  <2> HIDE DEF Once, Upto
  <2>7. Good(i + 1)
    BY <2>1, <2>3, <2>4, <2>5, <2>6
  <2> QED
    BY <2>1, <2>7
<1> HIDE DEF G
<1>4. n \in G
  <2>1. n \in Nat /\ n \in 1 .. n
    OBVIOUS
  <2>2. \A i \in 1 .. n - 1 : i \in G => i + 1 \in G
    BY <1>3
  <2>3. \A i \in 1 .. n : i \in G
    BY <1>2, <2>1, <2>2, CountingUp, Zenon
  <2> QED
    BY <2>1, <2>3
<1> QED
  BY <1>1, <1>4 DEF G

-----------------------------------------------------------------------------
(* The chunks as a forest.                                                 *)

\* Where a chunk points to: what hangs off its slots, and the next chunk.
Places == 0 .. ChunkSize
Points(cs, c, k) == IF k < ChunkSize THEN cs[c].slots[k].sub ELSE cs[c].next

\* A pointer leads to a chunk of the memory, each to one of its own, and never
\* in a circle: in any set of chunks one points to none of the set.
PointsInto(cs) ==
  \A c \in DOMAIN cs : \A k \in Places : Points(cs, c, k) \in {0} \cup DOMAIN cs
Sole(cs) ==
  \A c, d \in DOMAIN cs : \A k, m \in Places :
    Points(cs, c, k) = Points(cs, d, m) /\ Points(cs, c, k) # 0 => c = d /\ k = m
Acyclic(cs) ==
  \A T \in SUBSET DOMAIN cs :
    T # {} => \E c \in T : \A k \in Places : Points(cs, c, k) \notin T

\* Every chunk but the root hangs somewhere; those in loose are not yet hung up.
Hung(cs, loose) ==
  \A d \in DOMAIN cs \ ({1} \cup loose) :
    \E c \in DOMAIN cs : \E k \in Places : Points(cs, c, k) = d
Loose(cs, loose) ==
  \A l \in loose :
    /\ l \in DOMAIN cs /\ cs[l] = NewChunk
    /\ \A c \in DOMAIN cs : \A k \in Places : Points(cs, c, k) # l

\* j_free stops at the first unused slot: behind it nothing may hang.
Filled(cs) ==
  \A c \in DOMAIN cs : \A k \in 0 .. ChunkSize - 1 :
    cs[c].slots[k].sub # 0 => \A m \in 0 .. k : Used(cs[c].slots[m])

Forest(cs, loose) ==
  /\ PointsInto(cs) /\ Sole(cs) /\ Acyclic(cs)
  /\ Hung(cs, loose) /\ Loose(cs, loose) /\ Filled(cs)

(* In any set of chunks there is also one to which none of the set points. *)
LEMMA Topmost ==
  ASSUME NEW cs \in Seq(Chunk), Acyclic(cs), NEW S \in SUBSET DOMAIN cs, S # {}
  PROVE  \E c \in S : \A d \in S : \A k \in Places : Points(cs, d, k) # c
<1> DEFINE Has(T) == \E c \in T : \A d \in T : \A k \in Places : Points(cs, d, k) # c
           F == {T \in SUBSET DOMAIN cs : T # {} /\ ~Has(T)}
<1> SUFFICES ASSUME ~Has(S) PROVE FALSE
  OBVIOUS
<1>1. IsFiniteSet(DOMAIN cs)
  <2>1. Len(cs) \in Nat /\ DOMAIN cs = 1 .. Len(cs)
    BY LenProperties
  <2> QED
    BY <2>1, FS_Interval
<1>2. S \in F
  OBVIOUS
<1>3. PICK T \in F : \A U \in F : U \subseteq T => U = T
  <2> HIDE DEF Has
  <2>1. F \in SUBSET (SUBSET DOMAIN cs) /\ F # {}
    BY <1>2
  <2> HIDE DEF F
  <2> QED
    BY <1>1, <2>1, SmallestSet
<1>4. T \in SUBSET DOMAIN cs /\ T # {} /\ ~Has(T)
  BY <1>3
<1>5. PICK c \in T : \A k \in Places : Points(cs, c, k) \notin T
  BY <1>4 DEF Acyclic
<1>6. PICK d \in T, k \in Places : Points(cs, d, k) = c
  BY <1>4
<1>7. d # c
  BY <1>5, <1>6
<1>8. T \ {c} \in SUBSET DOMAIN cs /\ T \ {c} # {} /\ T \ {c} \subseteq T /\ T \ {c} # T
  BY <1>4, <1>7
<1>9. Has(T \ {c})
  <2> HIDE DEF Has
  <2> QED
    BY <1>3, <1>8
<1>10. PICK e \in T \ {c} : \A x \in T \ {c} : \A m \in Places : Points(cs, x, m) # e
  BY <1>9
<1>11. \A m \in Places : Points(cs, c, m) # e
  BY <1>5
<1>12. Has(T)
  BY <1>10, <1>11
<1> QED
  BY <1>4, <1>12

-----------------------------------------------------------------------------
(* What is reached from a chunk, when each reaches itself and what the     *)
(* chunks it points to reach: the parent of what is reached is reached     *)
(* too, a chunk is not reached from below, and what hangs off two places   *)
(* of a chunk reaches nothing in common.                                   *)
LEMMA Reached ==
  ASSUME NEW cs \in Seq(Chunk), PointsInto(cs), Sole(cs), Acyclic(cs),
         NEW R \in [DOMAIN cs -> SUBSET DOMAIN cs],
         \A c \in DOMAIN cs : c \in R[c],
         \A c \in DOMAIN cs : \A k \in Places :
           Points(cs, c, k) # 0 => R[Points(cs, c, k)] \subseteq R[c],
         \A c \in DOMAIN cs : \A x \in R[c] :
           x = c \/ \E k \in Places : Points(cs, c, k) # 0 /\ x \in R[Points(cs, c, k)]
  PROVE  /\ \A c, d \in DOMAIN cs : \A k \in Places :
              d \in R[c] /\ Points(cs, d, k) # 0 => Points(cs, d, k) \in R[c]
         /\ \A c \in DOMAIN cs : \A k \in Places :
              Points(cs, c, k) # 0 => c \notin R[Points(cs, c, k)]
         /\ \A c \in DOMAIN cs : \A k, m \in Places :
              k # m /\ Points(cs, c, k) # 0 /\ Points(cs, c, m) # 0
                => R[Points(cs, c, k)] \cap R[Points(cs, c, m)] = {}
<1> DEFINE D == DOMAIN cs
           P(c, k) == Points(cs, c, k)
           Down(c) == \A d \in D : \A k \in Places : d \in R[c] /\ P(d, k) # 0 => P(d, k) \in R[c]
           Up(c) == \A d \in D : \A k \in Places :
                      P(d, k) # 0 /\ P(d, k) \in R[c] /\ P(d, k) # c => d \in R[c]
           Meets(p, q) == R[p] \cap R[q] # {} => p \in R[q] \/ q \in R[p]
<1>1. \A c \in D : \A k \in Places : P(c, k) # 0 => P(c, k) \in D /\ R[P(c, k)] \subseteq R[c]
  BY DEF PointsInto
<1>2. \A c, d \in D : \A k, m \in Places : P(c, k) = P(d, m) /\ P(c, k) # 0 => c = d /\ k = m
  BY DEF Sole
<1>3. \A T \in SUBSET D : T # {} => \E c \in T : \A k \in Places : P(c, k) \notin T
  BY DEF Acyclic
<1>4. \A c \in D : c \in R[c] /\ R[c] \in SUBSET D
  OBVIOUS
<1>5. \A c \in D : \A x \in R[c] : x = c \/ \E k \in Places : P(c, k) # 0 /\ x \in R[P(c, k)]
  OBVIOUS
<1> HIDE DEF D, P
<1>6. \A c \in D : Down(c)
  <2> DEFINE Bad == {c \in D : ~Down(c)}
  <2> SUFFICES ASSUME Bad # {} PROVE FALSE
    OBVIOUS
  <2>1. PICK c \in Bad : \A k \in Places : P(c, k) \notin Bad
    BY <1>3
  <2>2. PICK d \in D, k \in Places : d \in R[c] /\ P(d, k) # 0 /\ P(d, k) \notin R[c]
    BY <2>1
  <2>3. d # c
    BY <1>1, <1>4, <2>2
  <2>4. PICK m \in Places : P(c, m) # 0 /\ d \in R[P(c, m)]
    BY <1>5, <2>1, <2>2, <2>3
  <2>5. P(c, m) \in D /\ R[P(c, m)] \subseteq R[c] /\ Down(P(c, m))
    BY <1>1, <2>1, <2>4
  <2> QED
    BY <2>2, <2>4, <2>5
<1>7. \A c \in D : Up(c)
  <2> DEFINE Bad == {c \in D : ~Up(c)}
  <2> SUFFICES ASSUME Bad # {} PROVE FALSE
    OBVIOUS
  <2>1. PICK c \in Bad : \A k \in Places : P(c, k) \notin Bad
    BY <1>3
  <2>2. PICK d \in D, k \in Places : P(d, k) # 0 /\ P(d, k) \in R[c] /\ P(d, k) # c /\ d \notin R[c]
    BY <2>1
  <2>3. PICK m \in Places : P(c, m) # 0 /\ P(d, k) \in R[P(c, m)]
    BY <1>5, <2>1, <2>2
  <2>4. P(c, m) \in D /\ R[P(c, m)] \subseteq R[c] /\ Up(P(c, m))
    BY <1>1, <2>1, <2>3
  <2>5. P(d, k) = P(c, m)
    BY <2>2, <2>3, <2>4
  <2>6. d = c
    BY <1>2, <2>1, <2>2, <2>5
  <2> QED
    BY <1>4, <2>1, <2>2, <2>6
<1>8. ASSUME NEW c \in D, NEW k \in Places, P(c, k) # 0
      PROVE  c \notin R[P(c, k)]
  <2> SUFFICES ASSUME c \in R[P(c, k)] PROVE FALSE
    OBVIOUS
  <2> DEFINE T == {x \in D : c \in R[x]}
  <2>1. c \in T /\ P(c, k) \in T
    BY <1>1, <1>4, <1>8
  <2>2. PICK x \in T : \A m \in Places : P(x, m) \notin T
    BY <1>3, <2>1
  <2>3. x # c
    BY <2>1, <2>2
  <2>4. PICK m \in Places : P(x, m) # 0 /\ c \in R[P(x, m)]
    BY <1>5, <2>2, <2>3
  <2> QED
    BY <1>1, <2>2, <2>4
<1>9. \A q \in D : \A p \in D : Meets(p, q)
  <2> TAKE q \in D
  <2> DEFINE Bad == {p \in D : ~Meets(p, q)}
  <2> SUFFICES ASSUME Bad # {} PROVE FALSE
    OBVIOUS
  <2>1. PICK p \in Bad : \A k \in Places : P(p, k) \notin Bad
    BY <1>3
  <2>2. PICK e : e \in R[p] /\ e \in R[q] /\ p \notin R[q] /\ q \notin R[p]
    BY <2>1
  <2>3. PICK k \in Places : P(p, k) # 0 /\ e \in R[P(p, k)]
    BY <1>5, <2>1, <2>2
  <2>4. P(p, k) \in D /\ R[P(p, k)] \subseteq R[p] /\ Meets(P(p, k), q)
    BY <1>1, <2>1, <2>3
  <2>5. P(p, k) \in R[q]
    BY <2>2, <2>3, <2>4
  <2>6. P(p, k) # q
    BY <1>4, <2>2, <2>4
  <2>7. p \in R[q]
    BY <1>7, <2>1, <2>3, <2>5, <2>6
  <2> QED
    BY <2>2, <2>7
<1>10. ASSUME NEW c \in D, NEW k \in Places, NEW m \in Places, k # m, P(c, k) # 0, P(c, m) # 0
       PROVE  R[P(c, k)] \cap R[P(c, m)] = {}
  <2> SUFFICES ASSUME R[P(c, k)] \cap R[P(c, m)] # {} PROVE FALSE
    OBVIOUS
  <2>1. P(c, k) # P(c, m) /\ P(c, k) \in D /\ P(c, m) \in D
    BY <1>1, <1>2, <1>10
  <2>2. P(c, k) \in R[P(c, m)] \/ P(c, m) \in R[P(c, k)]
    BY <1>9, <2>1
  <2>3. c \in R[P(c, m)] \/ c \in R[P(c, k)]
    BY <1>7, <1>10, <2>1, <2>2
  <2> QED
    BY <1>8, <1>10, <2>3
<1> USE DEF D, P
<1>11. \A c, d \in DOMAIN cs : \A k \in Places :
         d \in R[c] /\ Points(cs, d, k) # 0 => Points(cs, d, k) \in R[c]
  BY <1>6
<1>12. \A c \in DOMAIN cs : \A k \in Places :
         Points(cs, c, k) # 0 => c \notin R[Points(cs, c, k)]
  BY <1>8
<1>13. \A c \in DOMAIN cs : \A k, m \in Places :
         k # m /\ Points(cs, c, k) # 0 /\ Points(cs, c, m) # 0
           => R[Points(cs, c, k)] \cap R[Points(cs, c, m)] = {}
  BY <1>10
<1> QED
  BY <1>11, <1>12, <1>13

-----------------------------------------------------------------------------
(* j_free on a forest.                                                     *)

\* The body of Freed, for a function f that says what is freed below.
BodyOfFreed(cs, c, f) ==
  LET slots == cs[c].slots
      sub(k) == IF slots[k].sub # 0 /\ \A m \in 0 .. k : Used(slots[m])
                THEN f[slots[k].sub] ELSE <<>>
  IN  FlattenSeq([k \in 1 .. ChunkSize |-> sub(k - 1)])
        \o <<c>> \o (IF cs[c].next # 0 THEN f[cs[c].next] ELSE <<>>)

\* The same on a forest: what hangs at each place, with the chunk itself before
\* the next one.
Hanging(cs, c, k, f) == IF Points(cs, c, k) # 0 THEN f[Points(cs, c, k)] ELSE <<>>
FreedFrom(cs, c, f) ==
  FlattenSeq([k \in 1 .. ChunkSize |-> Hanging(cs, c, k - 1, f)])
    \o <<c>> \o Hanging(cs, c, ChunkSize, f)

LEMMA BodyIs ==
  ASSUME NEW cs \in Seq(Chunk), Filled(cs), NEW c \in DOMAIN cs, NEW f
  PROVE  BodyOfFreed(cs, c, f) = FreedFrom(cs, c, f)
<1>1. ChunkSize \in Nat \ {0}
  BY ConstantsAssumption
<1> DEFINE sub(k) == IF cs[c].slots[k].sub # 0 /\ \A m \in 0 .. k : Used(cs[c].slots[m])
                     THEN f[cs[c].slots[k].sub] ELSE <<>>
<1>2. \A k \in 1 .. ChunkSize : k - 1 \in 0 .. ChunkSize - 1 /\ k - 1 < ChunkSize
  BY <1>1
<1>3. \A k \in 0 .. ChunkSize - 1 : sub(k) = Hanging(cs, c, k, f)
  <2> TAKE k \in 0 .. ChunkSize - 1
  <2>1. Points(cs, c, k) = cs[c].slots[k].sub
    BY <1>1 DEF Points
  <2>2. cs[c].slots[k].sub # 0 => \A m \in 0 .. k : Used(cs[c].slots[m])
    BY DEF Filled
  <2> QED
    BY <2>1, <2>2, Zenon DEF Hanging
<1>4. Hanging(cs, c, ChunkSize, f) = (IF cs[c].next # 0 THEN f[cs[c].next] ELSE <<>>)
  BY <1>1 DEF Hanging, Points
<1>5. BodyOfFreed(cs, c, f) = FlattenSeq([k \in 1 .. ChunkSize |-> sub(k - 1)])
        \o <<c>> \o (IF cs[c].next # 0 THEN f[cs[c].next] ELSE <<>>)
  BY DEF BodyOfFreed
<1> HIDE DEF sub
<1>6. [k \in 1 .. ChunkSize |-> sub(k - 1)] = [k \in 1 .. ChunkSize |-> Hanging(cs, c, k - 1, f)]
  BY <1>2, <1>3
<1> QED
  BY <1>4, <1>5, <1>6, Zenon DEF FreedFrom

(* What is freed from a chunk depends only on what is freed from the       *)
(* chunks it points to.                                                    *)
LEMMA FreedFromBelow ==
  ASSUME NEW cs, NEW c, NEW f, NEW g,
         \A k \in Places : Points(cs, c, k) # 0 => f[Points(cs, c, k)] = g[Points(cs, c, k)]
  PROVE  FreedFrom(cs, c, f) = FreedFrom(cs, c, g)
<1>1. ChunkSize \in Nat \ {0}
  BY ConstantsAssumption
<1>2. \A k \in Places : Hanging(cs, c, k, f) = Hanging(cs, c, k, g)
  BY Zenon DEF Hanging
<1>3. ChunkSize \in Places /\ \A k \in 1 .. ChunkSize : k - 1 \in Places
  BY <1>1 DEF Places
<1>4. [k \in 1 .. ChunkSize |-> Hanging(cs, c, k - 1, f)]
        = [k \in 1 .. ChunkSize |-> Hanging(cs, c, k - 1, g)]
  BY <1>2, <1>3
<1> QED
  BY <1>2, <1>3, <1>4, Zenon DEF FreedFrom

(* Freed satisfies its definition: there is a function of all chunks that  *)
(* takes from each what it takes from those below, and Freed is its value  *)
(* at the root.                                                            *)
LEMMA FreedDef ==
  ASSUME NEW cs \in Seq(Chunk), cs # <<>>, PointsInto(cs), Acyclic(cs), Filled(cs)
  PROVE  \E f : Freed(cs) = f[1] /\ \A c \in DOMAIN cs : f[c] = FreedFrom(cs, c, f)
<1> DEFINE D == DOMAIN cs
           Is(f, C) == f = [c \in C |-> BodyOfFreed(cs, c, f)]
           Closed(C) == \A c \in C : \A k \in Places : Points(cs, c, k) \in {0} \cup C
           F == {T \in SUBSET D : Closed(D \ T) /\ \E f : Is(f, D \ T)}
<1>1. IsFiniteSet(D)
  <2>1. Len(cs) \in Nat /\ DOMAIN cs = 1 .. Len(cs)
    BY LenProperties
  <2> QED
    BY <2>1, FS_Interval
<1>2. D \in F
  <2>1. D \ D = {}
    OBVIOUS
  <2>2. Closed({})
    OBVIOUS
  <2>3. PICK f : f = [c \in {} |-> 0]
    OBVIOUS
  <2>4. Is(f, {})
    BY <2>3
  <2> HIDE DEF Is, Closed, D
  <2> QED
    BY <2>1, <2>2, <2>4
<1>3. PICK T \in F : \A U \in F : U \subseteq T => U = T
  <2>1. F \in SUBSET (SUBSET D) /\ F # {}
    <3> HIDE DEF Is, Closed, D
    <3> QED
      BY <1>2
  <2> HIDE DEF F, D
  <2> QED
    BY <1>1, <2>1, SmallestSet
<1>4. PICK f : T \in SUBSET D /\ Closed(D \ T) /\ Is(f, D \ T)
  <2> HIDE DEF Is, Closed, D
  <2> QED
    BY <1>3
<1>5. \A c \in D \ T : f[c] = BodyOfFreed(cs, c, f)
  BY <1>4
<1>6. ASSUME T # {}
      PROVE  FALSE
  <2>1. PICK c \in T : \A k \in Places : Points(cs, c, k) \notin T
    BY <1>4, <1>6 DEF Acyclic
  <2>2. \A k \in Places : Points(cs, c, k) \in {0} \cup (D \ T)
    BY <1>4, <2>1 DEF PointsInto
  <2> DEFINE U == T \ {c}
  <2>3. U \in SUBSET D /\ U \subseteq T /\ U # T /\ D \ U = (D \ T) \cup {c} /\ c \notin D \ T
    BY <1>4, <2>1
  <2>4. Closed(D \ U)
    BY <1>4, <2>2, <2>3
  <2>5. PICK g : g = [x \in D \ U |-> IF x = c THEN BodyOfFreed(cs, x, f) ELSE f[x]]
    OBVIOUS
  <2>6. \A x \in D \ T : g[x] = f[x]
    BY <2>3, <2>5
  <2>7. \A x \in D \ U : BodyOfFreed(cs, x, f) = BodyOfFreed(cs, x, g)
    <3> TAKE x \in D \ U
    <3>1. \A k \in Places : Points(cs, x, k) # 0 => f[Points(cs, x, k)] = g[Points(cs, x, k)]
      BY <1>4, <2>2, <2>3, <2>6
    <3>2. FreedFrom(cs, x, f) = FreedFrom(cs, x, g)
      BY <3>1, FreedFromBelow
    <3> QED
      BY <3>2, BodyIs
  <2>8. \A x \in D \ U : g[x] = BodyOfFreed(cs, x, f)
    BY <1>5, <2>3, <2>5
  <2>9. g = [x \in D \ U |-> g[x]]
    BY <2>5
  <2>10. Is(g, D \ U)
    BY <2>7, <2>8, <2>9
  <2>11. U \in F
    <3> HIDE DEF Is, Closed, D, U
    <3> QED
      BY <2>3, <2>4, <2>10
  <2> QED
    <3> HIDE DEF F, U
    <3> QED
      BY <1>3, <2>3, <2>11
<1>7. \E h : Is(h, D)
  <2>1. D \ T = D
    BY <1>6
  <2> QED
    BY <1>4, <2>1
<1>8. PICK h : h = CHOOSE e : Is(e, D)
  OBVIOUS
<1>9. Is(h, D)
  <2> HIDE DEF Is
  <2> QED
    BY <1>7, <1>8, Zenon
<1>10. Freed(cs) = h[1]
  BY <1>8 DEF Freed, BodyOfFreed
<1>11. \A c \in D : h[c] = FreedFrom(cs, c, h)
  <2>1. \A c \in D : h[c] = BodyOfFreed(cs, c, h)
    BY <1>9
  <2> QED
    BY <2>1, BodyIs
<1> QED
  BY <1>10, <1>11

(* What is freed from one chunk: itself and what is freed below, and       *)
(* nothing twice when that is so below and nothing comes from two places.  *)
LEMMA FreedFromOnce ==
  ASSUME NEW cs \in Seq(Chunk), NEW c \in DOMAIN cs, NEW f,
         \A k \in Places : Points(cs, c, k) # 0 => f[Points(cs, c, k)] \in Seq(DOMAIN cs)
  PROVE  /\ FreedFrom(cs, c, f) \in Seq(DOMAIN cs)
         /\ ToSet(FreedFrom(cs, c, f)) =
              {c} \cup UNION {ToSet(Hanging(cs, c, k, f)) : k \in Places}
         /\ /\ \A k \in Places : IsInjective(Hanging(cs, c, k, f))
            /\ \A k \in Places : c \notin ToSet(Hanging(cs, c, k, f))
            /\ \A k, m \in Places : k # m =>
                 ToSet(Hanging(cs, c, k, f)) \cap ToSet(Hanging(cs, c, m, f)) = {}
            => IsInjective(FreedFrom(cs, c, f))
<1>1. PICK n : n = ChunkSize
  OBVIOUS
<1>2. n \in Nat \ {0} /\ Places = 0 .. n
  BY <1>1, ConstantsAssumption DEF Places
<1> DEFINE D == DOMAIN cs
           H(k) == Hanging(cs, c, k, f)
           s == [k \in 1 .. n |-> H(k - 1)]
           Once == /\ \A k \in Places : IsInjective(H(k))
                   /\ \A k \in Places : c \notin ToSet(H(k))
                   /\ \A k, m \in Places : k # m => ToSet(H(k)) \cap ToSet(H(m)) = {}
<1>3. \A k \in Places : H(k) \in Seq(D)
  <2>1. <<>> \in Seq(D)
    BY EmptySeq
  <2> QED
    BY <2>1, Zenon DEF Hanging
<1>4. \A k \in 1 .. n : k - 1 \in Places
  BY <1>2
<1>5. s \in [1 .. n -> Seq(D)]
  BY <1>3, <1>4
<1>6. \A k \in 1 .. n : s[k] = H(k - 1)
  OBVIOUS
<1>7. FreedFrom(cs, c, f) = FlattenSeq(s) \o <<c>> \o H(n)
  BY <1>1 DEF FreedFrom
<1> HIDE DEF D, H, s
<1>8. PICK a : a = FlattenSeq(s)
  OBVIOUS
<1>9. /\ a \in Seq(D)
      /\ ToSet(a) = UNION {ToSet(s[i]) : i \in 1 .. n}
      /\ /\ \A i \in 1 .. n : IsInjective(s[i])
         /\ \A i, j \in 1 .. n : i # j => ToSet(s[i]) \cap ToSet(s[j]) = {}
         => IsInjective(a)
  BY <1>2, <1>5, <1>8, FlattenOnce
<1>10. PICK one : one = <<c>>
  OBVIOUS
<1>11. one \in Seq(D) /\ ToSet(one) = {c} /\ IsInjective(one)
  BY <1>10 DEF D, ToSet, IsInjective
<1>12. PICK b : b = a \o one
  OBVIOUS
<1>13. /\ b \in Seq(D)
       /\ ToSet(b) = ToSet(a) \cup {c}
       /\ IsInjective(a) /\ ToSet(a) \cap {c} = {} => IsInjective(b)
  <2>1. /\ b \in Seq(D)
        /\ ToSet(b) = ToSet(a) \cup ToSet(one)
        /\ IsInjective(a) /\ IsInjective(one) /\ ToSet(a) \cap ToSet(one) = {} => IsInjective(b)
    <3>1. a \in Seq(D) /\ one \in Seq(D)
      BY <1>9, <1>11
    <3> HIDE DEF D
    <3>2. a \o one \in Seq(D) /\ ToSet(a \o one) = ToSet(a) \cup ToSet(one)
      BY <3>1, ConcatOnce
    <3>3. IsInjective(a) /\ IsInjective(one) /\ ToSet(a) \cap ToSet(one) = {}
            => IsInjective(a \o one)
      BY <3>1, ConcatOnce
    <3> QED
      BY <1>12, <3>2, <3>3, Zenon
  <2> QED
    BY <1>11, <2>1
<1>14. H(n) \in Seq(D)
  BY <1>2, <1>3
<1>15. PICK z : z = b \o H(n)
  OBVIOUS
<1>16. /\ z \in Seq(D)
       /\ ToSet(z) = ToSet(b) \cup ToSet(H(n))
       /\ IsInjective(b) /\ IsInjective(H(n)) /\ ToSet(b) \cap ToSet(H(n)) = {} => IsInjective(z)
  BY <1>13, <1>14, <1>15, ConcatOnce
<1>17. z = FreedFrom(cs, c, f)
  BY <1>7, <1>8, <1>10, <1>12, <1>15
<1>18. \A x : x \in ToSet(a) <=> \E k \in 0 .. n - 1 : x \in ToSet(H(k))
  <2>1. \A k \in 0 .. n - 1 : k + 1 \in 1 .. n /\ s[k + 1] = H(k)
    BY <1>2, <1>6
  <2>2. \A k \in 1 .. n : k - 1 \in 0 .. n - 1 /\ s[k] = H(k - 1)
    BY <1>2, <1>6
  <2>3. \A x : x \in ToSet(a) <=> \E k \in 1 .. n : x \in ToSet(s[k])
    BY <1>9
  <2> QED
    BY <2>1, <2>2, <2>3, Zenon
<1>19. ToSet(z) = {c} \cup UNION {ToSet(H(k)) : k \in Places}
  <2>1. \A k : k \in Places <=> k \in 0 .. n - 1 \/ k = n
    BY <1>2
  <2>2. \A x : x \in ToSet(z) <=> x \in ToSet(a) \/ x = c \/ x \in ToSet(H(n))
    BY <1>13, <1>16
  <2> QED
    BY <1>18, <2>1, <2>2
<1>20. ASSUME Once
       PROVE  IsInjective(z)
  <2>1. \A k \in 0 .. n - 1 : k \in Places /\ k # n
    BY <1>2
  <2>2. n \in Places
    BY <1>2
  <2>3. \A i \in 1 .. n : IsInjective(s[i])
    BY <1>4, <1>6, <1>20
  <2>4. \A i, j \in 1 .. n : i # j => ToSet(s[i]) \cap ToSet(s[j]) = {}
    <3> TAKE i, j \in 1 .. n
    <3> HAVE i # j
    <3>1. i - 1 # j - 1 /\ i - 1 \in Places /\ j - 1 \in Places
      BY <1>2, <1>4
    <3> QED
      BY <1>6, <1>20, <3>1
  <2>5. ToSet(a) \cap {c} = {}
    BY <1>18, <1>20, <2>1
  <2>6. ToSet(b) \cap ToSet(H(n)) = {}
    BY <1>13, <1>18, <1>20, <2>1, <2>2
  <2> QED
    BY <1>9, <1>13, <1>16, <1>20, <2>2, <2>3, <2>4, <2>5, <2>6
<1> QED
  BY <1>16, <1>17, <1>19, <1>20 DEF D, H

(* j_free on the root of a forest: every chunk at most once, and all but   *)
(* those that hang nowhere.                                                *)
LEMMA FreesAll ==
  ASSUME NEW cs \in Seq(Chunk), cs # <<>>, NEW loose, Forest(cs, loose)
  PROVE  /\ Freed(cs) \in Seq(DOMAIN cs)
         /\ IsInjective(Freed(cs))
         /\ DOMAIN cs \ loose \subseteq ToSet(Freed(cs))
<1> DEFINE D == DOMAIN cs
           P(c, k) == Points(cs, c, k)
<1>1. PICK f : Freed(cs) = f[1] /\ \A c \in D : f[c] = FreedFrom(cs, c, f)
  BY FreedDef DEF Forest
<1>2. \A c \in D : \A k \in Places : P(c, k) \in {0} \cup D
  BY DEF Forest, PointsInto
<1>3. \A c \in D : \A k \in Places :
        Hanging(cs, c, k, f) = IF P(c, k) # 0 THEN f[P(c, k)] ELSE <<>>
  BY DEF Hanging
<1>4. D = 1 .. Len(cs) /\ Len(cs) \in Nat \ {0} /\ 1 \in D /\ 0 \notin D
  <2>1. D = 1 .. Len(cs) /\ Len(cs) \in Nat
    BY LenProperties
  <2>2. Len(cs) # 0
    BY EmptySeq
  <2> QED
    BY <2>1, <2>2
<1>5. \A c \in D : f[c] \in Seq(D)
  <2> DEFINE Bad == {c \in D : f[c] \notin Seq(D)}
  <2> SUFFICES ASSUME Bad # {} PROVE FALSE
    OBVIOUS
  <2>1. PICK c \in Bad : \A k \in Places : P(c, k) \notin Bad
    BY DEF Forest, Acyclic
  <2>2. \A k \in Places : P(c, k) # 0 => f[P(c, k)] \in Seq(D)
    BY <1>2, <2>1
  <2>3. FreedFrom(cs, c, f) \in Seq(D)
    BY <2>1, <2>2, FreedFromOnce
  <2> QED
    BY <1>1, <2>1, <2>3
<1>6. ASSUME NEW c \in D
      PROVE  /\ ToSet(f[c]) = {c} \cup UNION {ToSet(Hanging(cs, c, k, f)) : k \in Places}
             /\ /\ \A k \in Places : IsInjective(Hanging(cs, c, k, f))
                /\ \A k \in Places : c \notin ToSet(Hanging(cs, c, k, f))
                /\ \A k, m \in Places : k # m =>
                     ToSet(Hanging(cs, c, k, f)) \cap ToSet(Hanging(cs, c, m, f)) = {}
                => IsInjective(f[c])
  <2>1. \A k \in Places : P(c, k) # 0 => f[P(c, k)] \in Seq(D)
    BY <1>2, <1>5
  <2>2. f[c] = FreedFrom(cs, c, f)
    BY <1>1
  <2> QED
    BY <2>1, <2>2, FreedFromOnce
<1>7. ToSet(<<>>) = {} /\ IsInjective(<<>>)
  BY DEF ToSet, IsInjective
<1> DEFINE R == [c \in D |-> ToSet(f[c])]
<1>8. R \in [D -> SUBSET D]
  <2>1. \A c \in D : ToSet(f[c]) \in SUBSET D
    <3> TAKE c \in D
    <3>1. PICK s \in Seq(D) : s = f[c]
      BY <1>5
    <3>2. ToSet(s) \subseteq D
      BY LenProperties, ElementOfSeq DEF ToSet
    <3> QED
      BY <3>1, <3>2
  <2> QED
    BY <2>1
<1>9. \A c \in D : R[c] = ToSet(f[c])
  OBVIOUS
<1> HIDE DEF R
<1>10. \A c \in D : c \in R[c]
  BY <1>6, <1>9
<1>11. \A c \in D : \A k \in Places :
         ToSet(Hanging(cs, c, k, f)) = IF P(c, k) # 0 THEN R[P(c, k)] ELSE {}
  BY <1>2, <1>3, <1>7, <1>9
<1>12. \A c \in D : \A k \in Places : P(c, k) # 0 => R[P(c, k)] \subseteq R[c]
  BY <1>6, <1>9, <1>11
<1>13. \A c \in D : \A x \in R[c] :
         x = c \/ \E k \in Places : P(c, k) # 0 /\ x \in R[P(c, k)]
  BY <1>6, <1>9, <1>11
<1>14. PointsInto(cs) /\ Sole(cs) /\ Acyclic(cs) /\ Hung(cs, loose) /\ Loose(cs, loose)
  BY DEF Forest
<1>15. /\ \A c, d \in D : \A k \in Places : d \in R[c] /\ P(d, k) # 0 => P(d, k) \in R[c]
       /\ \A c \in D : \A k \in Places : P(c, k) # 0 => c \notin R[P(c, k)]
       /\ \A c \in D : \A k, m \in Places :
            k # m /\ P(c, k) # 0 /\ P(c, m) # 0 => R[P(c, k)] \cap R[P(c, m)] = {}
  BY <1>8, <1>10, <1>12, <1>13, <1>14, Reached
<1>16. \A c \in D : IsInjective(f[c])
  <2> DEFINE Bad == {c \in D : ~IsInjective(f[c])}
  <2> SUFFICES ASSUME Bad # {} PROVE FALSE
    OBVIOUS
  <2>1. PICK c \in Bad : \A k \in Places : P(c, k) \notin Bad
    BY <1>14 DEF Acyclic
  <2>2. \A k \in Places : IsInjective(Hanging(cs, c, k, f))
    BY <1>2, <1>3, <1>7, <2>1
  <2>3. \A k \in Places : c \notin ToSet(Hanging(cs, c, k, f))
    BY <1>11, <1>15, <2>1
  <2>4. \A k, m \in Places : k # m =>
          ToSet(Hanging(cs, c, k, f)) \cap ToSet(Hanging(cs, c, m, f)) = {}
    BY <1>11, <1>15, <2>1
  <2> QED
    BY <1>6, <2>1, <2>2, <2>3, <2>4
<1>17. D \ loose \subseteq R[1]
  <2> DEFINE X == D \ (loose \cup R[1])
  <2> SUFFICES ASSUME X # {} PROVE FALSE
    OBVIOUS
  <2>1. PICK x \in X : \A d \in X : \A k \in Places : P(d, k) # x
    <3>1. X \in SUBSET DOMAIN cs
      OBVIOUS
    <3> HIDE DEF X
    <3> QED
      BY <1>14, <3>1, Topmost
  <2>2. x \in D \ ({1} \cup loose)
    BY <1>4, <1>10
  <2>3. PICK e \in D, k \in Places : P(e, k) = x
    BY <1>14, <2>2 DEF Hung
  <2>4. P(e, k) # 0
    BY <1>4, <2>2, <2>3
  <2>5. e \notin R[1]
    BY <1>4, <1>15, <2>1, <2>3, <2>4
  <2>6. e \in loose
    BY <2>1, <2>3, <2>5
  <2>7. cs[e] = NewChunk
    BY <1>14, <2>6 DEF Loose
  <2>8. Points(cs, e, k) = 0
    BY <2>7, ConstantsAssumption DEF Points, NewChunk, EmptySlot, Places
  <2> QED
    BY <2>4, <2>8
<1> QED
  BY <1>1, <1>4, <1>5, <1>9, <1>16, <1>17

(* A forest in which every chunk but the root hangs is freed whole, and the *)
(* empty memory, the document of one token, with it.                       *)
LEMMA AllFreed ==
  ASSUME NEW cs \in Seq(Chunk), Forest(cs, {})
  PROVE  IsInjective(Freed(cs)) /\ ToSet(Freed(cs)) = DOMAIN cs
<1>1. CASE cs = <<>>
  <2>1. DOMAIN cs = {} /\ Freed(cs) = <<>>
    BY <1>1 DEF Freed
  <2> QED
    BY <2>1 DEF IsInjective, ToSet
<1>2. CASE cs # <<>>
  <2>1. PICK loose, s : loose = {} /\ s = Freed(cs)
    OBVIOUS
  <2>2. Forest(cs, loose)
    BY <2>1
  <2>3. s \in Seq(DOMAIN cs) /\ IsInjective(s) /\ DOMAIN cs \ loose \subseteq ToSet(s)
    BY <1>2, <2>1, <2>2, FreesAll
  <2>4. ToSet(s) \subseteq DOMAIN cs
    BY <2>3, LenProperties, ElementOfSeq DEF ToSet
  <2> QED
    BY <2>1, <2>3, <2>4
<1> QED
  BY <1>1, <1>2

-----------------------------------------------------------------------------
(* What j_parse does to the forest.                                        *)

(* A new chunk points nowhere, and it is an unused one.                    *)
LEMMA NewPointsNowhere ==
  ASSUME NEW cs, NEW c, cs[c] = NewChunk
  PROVE  /\ \A k \in Places : Points(cs, c, k) = 0
         /\ cs[c].next = 0
         /\ \A k \in 0 .. ChunkSize - 1 : cs[c].slots[k].sub = 0
BY ConstantsAssumption DEF NewChunk, EmptySlot, Points, Places

(* A slot is a place, its pointer is its sub; the last place is next.      *)
LEMMA SlotPoints ==
  ASSUME NEW cs, NEW c
  PROVE  /\ \A k \in 0 .. ChunkSize - 1 : k \in Places /\ Points(cs, c, k) = cs[c].slots[k].sub
         /\ ChunkSize \in Places /\ Points(cs, c, ChunkSize) = cs[c].next
         /\ \A k \in Places : k \in 0 .. ChunkSize - 1 \/ k = ChunkSize
         /\ ChunkSize \notin 0 .. ChunkSize - 1
BY ConstantsAssumption DEF Points, Places

(* j_new_stuff: one more chunk, which hangs nowhere.                       *)
LEMMA Allocated ==
  ASSUME NEW cs \in Seq(Chunk), NEW loose, Forest(cs, loose)
  PROVE  /\ Append(cs, NewChunk) \in Seq(Chunk)
         /\ Len(Append(cs, NewChunk)) = Len(cs) + 1
         /\ \A d \in 1 .. Len(cs) : Append(cs, NewChunk)[d] = cs[d]
         /\ Append(cs, NewChunk)[Len(cs) + 1] = NewChunk
         /\ Forest(Append(cs, NewChunk), loose \cup {Len(cs) + 1})
<1> DEFINE n == Len(cs)
<1>1. PICK es : es = Append(cs, NewChunk)
  OBVIOUS
<1>2. /\ es \in Seq(Chunk) /\ Len(es) = n + 1
      /\ \A d \in 1 .. n : es[d] = cs[d]
      /\ es[n + 1] = NewChunk
  BY <1>1, NewChunkType, AppendProperties
<1>3. /\ n \in Nat /\ DOMAIN cs = 1 .. n /\ DOMAIN es = 1 .. n + 1
      /\ \A d : d \in 1 .. n + 1 <=> d \in 1 .. n \/ d = n + 1
      /\ n + 1 \notin 1 .. n /\ 0 \notin 1 .. n + 1 /\ n + 1 # 0
  BY <1>2, LenProperties
<1> HIDE DEF n
<1>4. \A d \in 1 .. n : \A k \in Places : Points(es, d, k) = Points(cs, d, k)
  BY <1>2 DEF Points
<1>5. \A k \in Places : Points(es, n + 1, k) = 0
  BY <1>2, NewPointsNowhere
<1>6. PointsInto(es)
  BY <1>3, <1>4, <1>5 DEF PointsInto, Forest
<1>7. Sole(es)
  BY <1>3, <1>4, <1>5 DEF Sole, Forest
<1>8. Acyclic(es)
  <2> SUFFICES ASSUME NEW T \in SUBSET DOMAIN es, T # {}
               PROVE  \E c \in T : \A k \in Places : Points(es, c, k) \notin T
    BY DEF Acyclic
  <2>1. 0 \notin T
    BY <1>3
  <2>2. CASE n + 1 \in T
    BY <1>5, <2>1, <2>2
  <2>3. CASE n + 1 \notin T
    <3>1. T \in SUBSET DOMAIN cs
      BY <1>3, <2>3
    <3>2. PICK c \in T : \A k \in Places : Points(cs, c, k) \notin T
      BY <3>1 DEF Acyclic, Forest
    <3> QED
      BY <1>3, <1>4, <3>1, <3>2
  <2> QED
    BY <2>2, <2>3
<1>9. Hung(es, loose \cup {n + 1})
  BY <1>3, <1>4 DEF Hung, Forest
<1>10. Loose(es, loose \cup {n + 1})
  <2>1. \A l \in loose : l \in 1 .. n /\ cs[l] = NewChunk
          /\ \A c \in 1 .. n : \A k \in Places : Points(cs, c, k) # l
    BY <1>3 DEF Loose, Forest
  <2>2. \A l \in loose : l # 0
    BY <2>1, <1>3
  <2>3. \A c \in 1 .. n : \A k \in Places : Points(cs, c, k) # n + 1
    BY <1>3 DEF PointsInto, Forest
  <2> QED
    BY <1>2, <1>3, <1>4, <1>5, <2>1, <2>2, <2>3 DEF Loose
<1>11. Filled(es)
  <2>1. \A k \in 0 .. ChunkSize - 1 : es[n + 1].slots[k].sub = 0
    BY <1>2, NewPointsNowhere
  <2> QED
    BY <1>2, <1>3, <2>1 DEF Filled, Forest
<1> QED
  BY <1>1, <1>2, <1>6, <1>7, <1>8, <1>9, <1>10, <1>11 DEF Forest, n

(* The outermost container hangs nowhere, and need not.                    *)
LEMMA RootAllocated ==
  ASSUME NEW cs \in Seq(Chunk), Forest(cs, {1})
  PROVE  Forest(cs, {})
BY DEF Forest, Hung, Loose

(* A loose chunk is hung up at a place that pointed nowhere, behind slots  *)
(* that are all used.  Whatever else is written, no other pointer changes  *)
(* and no slot becomes unused.                                             *)
LEMMA HungUp ==
  ASSUME NEW cs \in Seq(Chunk), NEW es \in Seq(Chunk), DOMAIN es = DOMAIN cs,
         NEW loose, Forest(cs, loose),
         NEW c \in DOMAIN cs \ loose, NEW k \in Places, NEW n \in loose,
         Points(cs, c, k) = 0,
         k \in 0 .. ChunkSize - 1 => \A m \in 0 .. k - 1 : Used(cs[c].slots[m]),
         \A d \in DOMAIN cs : \A m \in Places :
           Points(es, d, m) = IF d = c /\ m = k THEN n ELSE Points(cs, d, m),
         \A d \in DOMAIN cs : \A m \in 0 .. ChunkSize - 1 :
           Used(cs[d].slots[m]) => Used(es[d].slots[m]),
         \A l \in loose : es[l] = cs[l]
  PROVE  Forest(es, loose \ {n})
<1> DEFINE D == DOMAIN cs
<1>1. /\ n \in D /\ n # 0 /\ 0 \notin D /\ n # c
      /\ \A m \in Places : Points(es, n, m) = 0
      /\ \A d \in D : \A m \in Places : Points(cs, d, m) # n
  <2>1. n \in D /\ cs[n] = NewChunk /\ \A d \in D : \A m \in Places : Points(cs, d, m) # n
    BY DEF Forest, Loose
  <2>2. 0 \notin D
    BY LenProperties
  <2>3. \A m \in Places : Points(cs, n, m) = 0
    BY <2>1, NewPointsNowhere
  <2> QED
    BY <2>1, <2>2, <2>3
<1>2. \A d \in D : \A m \in Places :
        Points(es, d, m) = IF d = c /\ m = k THEN n ELSE Points(cs, d, m)
  OBVIOUS
<1> HIDE DEF D
<1>3. PointsInto(es)
  BY <1>1, <1>2 DEF PointsInto, Forest, D
<1>4. Sole(es)
  <2> SUFFICES ASSUME NEW a \in D, NEW b \in D, NEW i \in Places, NEW j \in Places,
                      Points(es, a, i) = Points(es, b, j), Points(es, a, i) # 0
               PROVE  a = b /\ i = j
    BY DEF Sole, D
  <2>1. CASE a = c /\ i = k
    BY <1>1, <1>2, <2>1
  <2>2. CASE b = c /\ j = k
    BY <1>1, <1>2, <2>2
  <2>3. CASE ~(a = c /\ i = k) /\ ~(b = c /\ j = k)
    <3>1. Points(cs, a, i) = Points(cs, b, j) /\ Points(cs, a, i) # 0
      BY <1>2, <2>3
    <3> QED
      BY <3>1 DEF Sole, Forest, D
  <2> QED
    BY <2>1, <2>2, <2>3
<1>5. Acyclic(es)
  <2> SUFFICES ASSUME NEW T \in SUBSET D, T # {}
               PROVE  \E x \in T : \A m \in Places : Points(es, x, m) \notin T
    BY DEF Acyclic, D
  <2>1. CASE n \in T
    BY <1>1, <2>1
  <2>2. CASE n \notin T
    <3>1. PICK x \in T : \A m \in Places : Points(cs, x, m) \notin T
      BY DEF Acyclic, Forest, D
    <3> QED
      BY <1>2, <2>2, <3>1
  <2> QED
    BY <2>1, <2>2
<1>6. Hung(es, loose \ {n})
  <2> SUFFICES ASSUME NEW d \in D \ ({1} \cup (loose \ {n}))
               PROVE  \E x \in D : \E m \in Places : Points(es, x, m) = d
    BY DEF Hung, D
  <2>1. CASE d = n
    BY <1>2, <2>1 DEF D
  <2>2. CASE d # n
    <3>1. PICK x \in D, m \in Places : Points(cs, x, m) = d
      BY <2>2 DEF Hung, Forest, D
    <3>2. ~(x = c /\ m = k)
      BY <1>1, <3>1
    <3> QED
      BY <1>2, <3>1, <3>2
  <2> QED
    BY <2>1, <2>2
<1>7. Loose(es, loose \ {n})
  BY <1>2 DEF Loose, Forest, D
<1>8. Filled(es)
  <2> SUFFICES ASSUME NEW d \in D, NEW m \in 0 .. ChunkSize - 1, es[d].slots[m].sub # 0,
                      NEW i \in 0 .. m
               PROVE  Used(es[d].slots[i])
    BY DEF Filled, D
  <2>1. i \in 0 .. ChunkSize - 1 /\ (i = m \/ i \in 0 .. m - 1)
    BY ConstantsAssumption
  <2>2. CASE i = m
    BY <2>2 DEF Used
  <2>3. CASE i \in 0 .. m - 1 /\ d = c /\ m = k
    BY <2>1, <2>3 DEF D
  <2>4. CASE ~(d = c /\ m = k)
    <3>1. m \in Places /\ Points(es, d, m) = es[d].slots[m].sub /\ Points(cs, d, m) = cs[d].slots[m].sub
      BY SlotPoints
    <3>2. cs[d].slots[m].sub # 0
      BY <1>2, <2>4, <3>1
    <3>3. Used(cs[d].slots[i])
      BY <3>2 DEF Filled, Forest, D
    <3> QED
      BY <2>1, <3>3 DEF D
  <2> QED
    BY <2>1, <2>2, <2>3, <2>4
<1> QED
  BY <1>3, <1>4, <1>5, <1>6, <1>7, <1>8 DEF Forest

(* Keys, values, counts and marks may be written anywhere, as long as no   *)
(* pointer changes and no slot becomes unused.                             *)
LEMMA Written ==
  ASSUME NEW cs \in Seq(Chunk), NEW es \in Seq(Chunk), DOMAIN es = DOMAIN cs,
         Forest(cs, {}),
         \A d \in DOMAIN cs : \A m \in Places : Points(es, d, m) = Points(cs, d, m),
         \A d \in DOMAIN cs : \A m \in 0 .. ChunkSize - 1 :
           Used(cs[d].slots[m]) => Used(es[d].slots[m])
  PROVE  Forest(es, {})
<1>1. PointsInto(es) /\ Sole(es)
  BY DEF PointsInto, Sole, Forest
<1>2. Acyclic(es)
  <2> SUFFICES ASSUME NEW T \in SUBSET DOMAIN cs, T # {}
               PROVE  \E x \in T : \A m \in Places : Points(es, x, m) \notin T
    BY DEF Acyclic
  <2>1. PICK x \in T : \A m \in Places : Points(cs, x, m) \notin T
    BY DEF Acyclic, Forest
  <2> QED
    BY <2>1
<1>3. Hung(es, {}) /\ Loose(es, {})
  BY DEF Hung, Loose, Forest
<1>4. Filled(es)
  <2> SUFFICES ASSUME NEW d \in DOMAIN cs, NEW m \in 0 .. ChunkSize - 1, es[d].slots[m].sub # 0,
                      NEW i \in 0 .. m
               PROVE  Used(es[d].slots[i])
    BY DEF Filled
  <2>1. m \in Places /\ Points(es, d, m) = es[d].slots[m].sub /\ Points(cs, d, m) = cs[d].slots[m].sub
    BY SlotPoints
  <2>2. Used(cs[d].slots[i])
    BY <2>1 DEF Filled, Forest
  <2>3. i \in 0 .. ChunkSize - 1
    BY ConstantsAssumption
  <2> QED
    BY <2>2, <2>3
<1> QED
  BY <1>1, <1>2, <1>3, <1>4 DEF Forest

-----------------------------------------------------------------------------
(* The places on the stack.                                                *)

\* Where the next value of a container goes: behind slots that are all used, in
\* a chunk in which nothing hangs from there on.
Spot(cs, at, pos) ==
  /\ cs[at].next = 0
  /\ \A m \in 0 .. pos - 1 : Used(cs[at].slots[m])
  /\ \A m \in pos .. ChunkSize - 1 : cs[at].slots[m].sub = 0

\* Each open container has a chunk of its own.
Spots(cs, open) ==
  /\ \A i \in 1 .. Len(open) : Spot(cs, open[i].at, open[i].pos)
  /\ \A i, j \in 1 .. Len(open) : open[i].at = open[j].at => i = j

(* One chunk is replaced by one that differs in one slot at most (and in   *)
(* its count): no other pointer changes, no other slot becomes unused, and *)
(* the place stays one or moves behind the slot.                           *)
LEMMA SlotWritten ==
  ASSUME NEW cs \in Seq(Chunk), NEW at \in 1 .. Len(cs), NEW pos \in 0 .. ChunkSize - 1,
         NEW es \in Seq(Chunk), Len(es) = Len(cs),
         \A d \in 1 .. Len(cs) : d # at => es[d] = cs[d],
         es[at].next = cs[at].next,
         \A m \in 0 .. ChunkSize - 1 : m # pos => es[at].slots[m] = cs[at].slots[m]
  PROVE  /\ DOMAIN es = DOMAIN cs
         /\ \A d \in DOMAIN cs : \A m \in Places :
              ~(d = at /\ m = pos) => Points(es, d, m) = Points(cs, d, m)
         /\ \A d \in DOMAIN cs : \A m \in 0 .. ChunkSize - 1 :
              ~(d = at /\ m = pos) => es[d].slots[m] = cs[d].slots[m]
         /\ Spot(cs, at, pos) /\ es[at].slots[pos].sub = 0 => Spot(es, at, pos)
         /\ Spot(cs, at, pos) /\ Used(es[at].slots[pos]) => Spot(es, at, pos + 1)
<1>1. /\ \A d \in 1 .. Len(cs) : d # at => es[d] = cs[d]
      /\ es[at].next = cs[at].next
      /\ \A m \in 0 .. ChunkSize - 1 : m # pos => es[at].slots[m] = cs[at].slots[m]
  OBVIOUS
<1>2. DOMAIN es = 1 .. Len(cs) /\ DOMAIN cs = 1 .. Len(cs)
  BY LenProperties
<1>3. \A d \in 1 .. Len(cs) : \A m \in 0 .. ChunkSize - 1 :
        ~(d = at /\ m = pos) => es[d].slots[m] = cs[d].slots[m]
  BY <1>1
<1>4. \A d \in 1 .. Len(cs) : es[d].next = cs[d].next
  BY <1>1
<1>5. \A d \in 1 .. Len(cs) : \A m \in Places :
        ~(d = at /\ m = pos) => Points(es, d, m) = Points(cs, d, m)
  <2> TAKE d \in 1 .. Len(cs)
  <2> TAKE m \in Places
  <2> HAVE ~(d = at /\ m = pos)
  <2>1. CASE m \in 0 .. ChunkSize - 1
    <3>1. es[d].slots[m] = cs[d].slots[m]
      BY <2>1, <1>3
    <3>2. Points(es, d, m) = es[d].slots[m].sub /\ Points(cs, d, m) = cs[d].slots[m].sub
      BY <2>1, SlotPoints
    <3> QED
      BY <3>1, <3>2, Zenon
  <2>2. CASE m = ChunkSize
    <3>1. es[d].next = cs[d].next
      BY <1>4
    <3>2. Points(es, d, m) = es[d].next /\ Points(cs, d, m) = cs[d].next
      BY <2>2, SlotPoints
    <3> QED
      BY <3>1, <3>2, Zenon
  <2> QED
    BY <2>1, <2>2, SlotPoints
<1>6. ASSUME Spot(cs, at, pos)
      PROVE  /\ es[at].next = 0
             /\ \A m \in 0 .. pos - 1 : Used(es[at].slots[m])
             /\ \A m \in pos + 1 .. ChunkSize - 1 : es[at].slots[m].sub = 0
  <2>1. \A m \in 0 .. pos - 1 : m \in 0 .. ChunkSize - 1 /\ m # pos
    BY ConstantsAssumption
  <2>2. \A m \in pos + 1 .. ChunkSize - 1 : m \in 0 .. ChunkSize - 1 /\ m # pos /\ m \in pos .. ChunkSize - 1
    BY ConstantsAssumption
  <2> QED
    BY <1>3, <1>4, <1>6, <2>1, <2>2 DEF Spot
<1>7. ASSUME Spot(cs, at, pos), es[at].slots[pos].sub = 0
      PROVE  Spot(es, at, pos)
  <2>1. \A m \in pos .. ChunkSize - 1 : m = pos \/ m \in pos + 1 .. ChunkSize - 1
    BY ConstantsAssumption
  <2> QED
    BY <1>1, <1>6, <1>7, <2>1 DEF Spot
<1>8. ASSUME Spot(cs, at, pos), Used(es[at].slots[pos])
      PROVE  Spot(es, at, pos + 1)
  <2>1. \A m \in 0 .. pos + 1 - 1 : m = pos \/ m \in 0 .. pos - 1
    BY ConstantsAssumption
  <2> QED
    BY <1>1, <1>6, <1>8, <2>1 DEF Spot
<1> QED
  BY <1>1, <1>2, <1>3, <1>5, <1>7, <1>8

(* The memory with a place for one more value is a forest still, and the   *)
(* place is one.                                                           *)
LEMMA GrownForest ==
  ASSUME ParserTypeOK, stack # <<>>, Spots(chunks, stack),
         NEW cs \in Seq(Chunk), Len(cs) >= Len(chunks),
         \A d \in 1 .. Len(chunks) : cs[d] = chunks[d],
         NEW loose, Forest(cs, loose), \A l \in loose : l \notin 1 .. Len(chunks)
  PROVE  /\ Forest(Grown(cs).chunks, loose)
         /\ Grown(cs).at \notin loose
         /\ Spot(Grown(cs).chunks, Grown(cs).at, Grown(cs).pos)
         /\ \A i \in 1 .. Len(stack) - 1 :
              /\ Grown(cs).chunks[stack[i].at] = chunks[stack[i].at]
              /\ stack[i].at # Grown(cs).at
<1>1. /\ Len(stack) \in Nat \ {0} /\ Top = stack[Len(stack)] /\ Top \in Place
      /\ st = Top.at /\ st \in 1 .. Len(chunks) /\ Len(chunks) \in Nat
  <2>1. Len(stack) \in Nat \ {0} /\ Top \in Place
    BY HasLast DEF ParserTypeOK, Top
  <2> QED
    BY <2>1 DEF ParserTypeOK, StackOK, Top
<1>2. \A i \in 1 .. Len(stack) - 1 : stack[i].at \in 1 .. Len(chunks) /\ stack[i].at # st
  <2> TAKE i \in 1 .. Len(stack) - 1
  <2>1. i \in 1 .. Len(stack) /\ Len(stack) \in 1 .. Len(stack) /\ i # Len(stack)
    BY <1>1
  <2> QED
    BY <1>1, <2>1 DEF Spots, ParserTypeOK, StackOK
<1>3. Spot(cs, st, Top.pos)
  <2>1. Len(stack) \in 1 .. Len(stack)
    BY <1>1
  <2> QED
    BY <1>1, <2>1 DEF Spots, Spot
<1>4. /\ Len(cs) \in Nat /\ DOMAIN cs = 1 .. Len(cs)
      /\ \A d \in 1 .. Len(chunks) : d \in 1 .. Len(cs)
  BY <1>1, LenProperties
<1>5. CASE Top.pos # ChunkSize
  BY <1>1, <1>2, <1>3, <1>4, <1>5 DEF Grown
<1>6. CASE Top.pos = ChunkSize
  <2>1. PICK n, as, bs, es :
          /\ n = Len(cs) + 1 /\ as = [cs EXCEPT ![st].next = n]
          /\ bs = Append(cs, NewChunk) /\ es = Append(as, NewChunk)
    OBVIOUS
  <2>2. Grown(cs).chunks = es /\ Grown(cs).at = n /\ Grown(cs).pos = 0
    BY <1>6, <2>1 DEF Grown
  <2>3. /\ bs \in Seq(Chunk) /\ Len(bs) = n /\ bs[n] = NewChunk
        /\ \A d \in 1 .. Len(cs) : bs[d] = cs[d]
        /\ Forest(bs, loose \cup {n})
    BY <2>1, Allocated
  <2>4. PICK y : y = [cs[st] EXCEPT !.next = n]
    OBVIOUS
  <2>5. y \in Chunk /\ y.next = n /\ y.slots = cs[st].slots
    <3>1. cs[st] \in Chunk /\ n \in Nat
      BY <1>1, <1>4, <2>1
    <3> QED
      BY <3>1, <2>4 DEF Chunk
  <2>6. as \in Seq(Chunk) /\ Len(as) = Len(cs) /\ as[st] = y /\ \A d \in 1 .. Len(cs) : d # st => as[d] = cs[d]
    <3>1. as = [cs EXCEPT ![st] = y]
      BY <1>1, <1>4, <2>1, <2>4
    <3>2. st \in 1 .. Len(cs)
      BY <1>1, <1>4
    <3>3. as \in Seq(Chunk) /\ Len(as) = Len(cs)
      BY <2>5, <3>1, <3>2, SetChunk
    <3>4. as[st] = y /\ \A d \in 1 .. Len(cs) : d # st => as[d] = cs[d]
      BY <1>4, <3>1, <3>2
    <3> QED
      BY <3>3, <3>4
  <2>7. /\ es \in Seq(Chunk) /\ Len(es) = n /\ es[n] = NewChunk
        /\ \A d \in 1 .. Len(cs) : es[d] = as[d]
    BY <2>1, <2>6, NewChunkType, AppendProperties
  <2>8. /\ DOMAIN bs = 1 .. n /\ DOMAIN es = 1 .. n /\ n \in Nat \ {0}
        /\ \A d : d \in 1 .. n <=> d \in 1 .. Len(cs) \/ d = n
        /\ n \notin 1 .. Len(cs) /\ n \notin 1 .. Len(chunks)
        /\ st \in 1 .. Len(cs) /\ st # n
    BY <1>1, <1>4, <2>1, <2>3, <2>7, LenProperties
  <2>9. \A d \in 1 .. n : es[d].slots = bs[d].slots /\ (d # st => es[d] = bs[d])
    BY <2>3, <2>5, <2>6, <2>7, <2>8
  <2>10. es[st].next = n /\ bs[st].next = 0
    BY <1>3, <2>3, <2>5, <2>6, <2>7, <2>8 DEF Spot
  <2>11. \A d \in 1 .. n : \A m \in Places :
           Points(es, d, m) = IF d = st /\ m = ChunkSize THEN n ELSE Points(bs, d, m)
    <3> TAKE d \in 1 .. n
    <3> TAKE m \in Places
    <3>1. CASE m \in 0 .. ChunkSize - 1
      <4>1. es[d].slots = bs[d].slots
        BY <2>9
      <4>2. /\ Points(es, d, m) = es[d].slots[m].sub /\ Points(bs, d, m) = bs[d].slots[m].sub
            /\ m # ChunkSize
        BY <3>1, SlotPoints
      <4> QED
        BY <4>1, <4>2
    <3>2. CASE m = ChunkSize
      <4>1. Points(es, d, m) = es[d].next /\ Points(bs, d, m) = bs[d].next
        BY <3>2, SlotPoints
      <4>2. d # st => es[d].next = bs[d].next
        BY <2>9
      <4> QED
        BY <3>2, <4>1, <4>2, <2>10
    <3> QED
      BY <3>1, <3>2, SlotPoints
  <2>12. /\ st \in DOMAIN bs \ (loose \cup {n}) /\ ChunkSize \in Places
         /\ Points(bs, st, ChunkSize) = 0
         /\ ChunkSize \notin 0 .. ChunkSize - 1
    BY <1>1, <2>8, <2>10, SlotPoints
  <2>13. \A d \in DOMAIN bs : \A m \in 0 .. ChunkSize - 1 :
           Used(bs[d].slots[m]) => Used(es[d].slots[m])
    BY <2>8, <2>9
  <2>14. \A l \in loose \cup {n} : es[l] = bs[l]
    <3>1. \A l \in loose \cup {n} : l \in DOMAIN bs
      BY <2>3 DEF Forest, Loose
    <3> QED
      BY <1>1, <2>8, <2>9, <3>1
  <2>15. Forest(es, (loose \cup {n}) \ {n})
    <3>1. /\ DOMAIN es = DOMAIN bs /\ n \in loose \cup {n}
          /\ ChunkSize \in 0 .. ChunkSize - 1 =>
               \A m \in 0 .. ChunkSize - 1 : Used(bs[st].slots[m])
      BY <2>8, <2>12
    <3>2. \A d \in DOMAIN bs : \A m \in Places :
            Points(es, d, m) = IF d = st /\ m = ChunkSize THEN n ELSE Points(bs, d, m)
      BY <2>8, <2>11
    <3>3. PICK all : all = loose \cup {n}
      OBVIOUS
    <3>4. /\ Forest(bs, all) /\ st \in DOMAIN bs \ all /\ n \in all
          /\ \A l \in all : es[l] = bs[l]
      BY <2>3, <2>12, <2>14, <3>1, <3>3
    <3>5. PICK k : k = ChunkSize
      OBVIOUS
    <3>6. /\ bs \in Seq(Chunk) /\ es \in Seq(Chunk) /\ DOMAIN es = DOMAIN bs
          /\ k \in Places /\ Points(bs, st, k) = 0
          /\ k \in 0 .. ChunkSize - 1 => \A m \in 0 .. k - 1 : Used(bs[st].slots[m])
          /\ \A d \in DOMAIN bs : \A m \in Places :
               Points(es, d, m) = IF d = st /\ m = k THEN n ELSE Points(bs, d, m)
      BY <2>3, <2>7, <2>12, <3>1, <3>2, <3>5
    <3>7. Forest(es, all \ {n})
      BY <2>13, <3>4, <3>6, HungUp
    <3> QED
      BY <3>3, <3>7
  <2>16. n \notin loose
    BY <1>4, <2>8 DEF Forest, Loose
  <2>17. (loose \cup {n}) \ {n} = loose
    BY <2>16
  <2>18. Spot(es, n, 0)
    BY <2>7, NewPointsNowhere, ConstantsAssumption DEF Spot
  <2>19. \A i \in 1 .. Len(stack) - 1 : es[stack[i].at] = chunks[stack[i].at] /\ stack[i].at # n
    BY <1>2, <1>4, <2>6, <2>7, <2>8
  <2> QED
    BY <2>2, <2>15, <2>16, <2>17, <2>18, <2>19
<1> QED
  BY <1>5, <1>6

(* The places after something was put into the innermost container.        *)
LEMMA SpotsAfter ==
  ASSUME ParserTypeOK, stack # <<>>, Spots(chunks, stack),
         NEW es, NEW at \in Nat, NEW pos \in 0 .. ChunkSize, Spot(es, at, pos),
         \A i \in 1 .. Len(stack) - 1 :
           es[stack[i].at] = chunks[stack[i].at] /\ stack[i].at # at
  PROVE  Spots(es, SetTop(at, pos))
<1> DEFINE n == Len(stack)
           s == SetTop(at, pos)
<1>1. /\ s \in Seq(Place) /\ Len(s) = n
      /\ s[n].at = at
      /\ \A i \in 1 .. n - 1 : s[i] = stack[i]
  BY SetTopType
<1>2. n \in Nat \ {0} /\ n \in 1 .. n
  BY HasLast DEF ParserTypeOK
<1>3. s[n].pos = pos
  BY <1>2 DEF SetTop, Position, ParserTypeOK
<1>4. \A i \in 1 .. n : i = n \/ i \in 1 .. n - 1
  BY <1>2
<1>5. \A i \in 1 .. n - 1 : i \in 1 .. n
  BY <1>2
<1> HIDE DEF n, s
<1>6. \A i \in 1 .. n - 1 : Spot(es, s[i].at, s[i].pos)
  <2> TAKE i \in 1 .. n - 1
  <2>1. Spot(chunks, stack[i].at, stack[i].pos)
    BY <1>5 DEF Spots, n
  <2>2. es[stack[i].at] = chunks[stack[i].at]
    BY DEF n
  <2>3. s[i].at = stack[i].at /\ s[i].pos = stack[i].pos
    BY <1>1
  <2> QED
    BY <2>1, <2>2, <2>3, Zenon DEF Spot
<1>7. \A i \in 1 .. n - 1 : s[i].at = stack[i].at /\ s[i].at # at
  BY <1>1 DEF n
<1>8. \A i, j \in 1 .. n : s[i].at = s[j].at => i = j
  <2> TAKE i, j \in 1 .. n
  <2> HAVE s[i].at = s[j].at
  <2>1. CASE i = n
    BY <2>1, <1>1, <1>4, <1>7
  <2>2. CASE j = n
    BY <2>2, <1>1, <1>4, <1>7
  <2>3. CASE i # n /\ j # n
    <3>1. i \in 1 .. n - 1 /\ j \in 1 .. n - 1
      BY <2>3, <1>4
    <3>2. stack[i].at = stack[j].at
      BY <1>7, <3>1
    <3> QED
      BY <3>2 DEF Spots, n
  <2> QED
    BY <2>1, <2>2, <2>3
<1> QED
  BY <1>1, <1>3, <1>4, <1>6, <1>8 DEF Spots, s

-----------------------------------------------------------------------------
(* One more place, in a chunk of its own.                                  *)
LEMMA SpotsPushed ==
  ASSUME NEW cs, NEW open \in Seq(Place), NEW p \in Place,
         Spots(cs, open), Spot(cs, p.at, p.pos),
         \A i \in 1 .. Len(open) : open[i].at # p.at
  PROVE  Spots(cs, Append(open, p))
<1> DEFINE n == Len(open)
<1>1. PICK more : more = Append(open, p)
  OBVIOUS
<1>2. /\ n \in Nat /\ Len(more) = n + 1 /\ more[n + 1] = p
      /\ \A i \in 1 .. n : more[i] = open[i]
  BY <1>1, AppendProperties, LenProperties
<1>3. \A i \in 1 .. n + 1 : i \in 1 .. n \/ i = n + 1
  BY <1>2
<1> HIDE DEF n
<1>4. \A i \in 1 .. n + 1 : Spot(cs, more[i].at, more[i].pos)
  <2>1. \A i \in 1 .. n : Spot(cs, open[i].at, open[i].pos)
    BY DEF Spots, n
  <2> QED
    BY <1>2, <1>3, <2>1
<1>5. \A i, j \in 1 .. n + 1 : more[i].at = more[j].at => i = j
  <2>1. \A i \in 1 .. n : more[i].at # p.at
    BY <1>2 DEF n
  <2>2. \A i, j \in 1 .. n : more[i].at = more[j].at => i = j
    BY <1>2 DEF Spots, n
  <2> QED
    BY <1>2, <1>3, <2>1, <2>2
<1> QED
  BY <1>1, <1>2, <1>4, <1>5 DEF Spots

(* The invariant: the memory is a forest as long as it may be used or      *)
(* freed, nothing was freed before, and the stack holds the places where   *)
(* the next value goes.                                                    *)
MemoryInv ==
  /\ phase \in {"parsing", "accepted"} => Forest(chunks, {}) /\ freed = <<>>
  /\ phase = "parsing" =>
       /\ Spots(chunks, stack)
       /\ input = <<>> \/ prevType = "none" => chunks = <<>>
  /\ FreedOnce

(* An error frees the forest, but for the last chunk when that hangs       *)
(* nowhere yet.                                                            *)
LEMMA RefuseFrees ==
  ASSUME NEW t, NEW cs \in Seq(Chunk), NEW loose \in SUBSET {Len(cs)}, Forest(cs, loose),
         Refuse(t, cs)
  PROVE  MemoryInv'
<1>1. phase' = "refused" /\ chunks' = cs /\ freed' = Freed(cs)
  BY DEF Refuse
<1>2. CASE cs = <<>>
  <2>1. DOMAIN cs = {} /\ Freed(cs) = <<>>
    BY <1>2 DEF Freed
  <2> QED
    BY <1>1, <2>1 DEF MemoryInv, FreedOnce, IsInjective
<1>3. CASE cs # <<>>
  <2>1. IsInjective(Freed(cs)) /\ DOMAIN cs \ loose \subseteq ToSet(Freed(cs))
    BY <1>3, FreesAll
  <2>2. \A c \in loose : cs[c] = NewChunk /\ c = Len(cs)
    BY DEF Forest, Loose
  <2>3. \A c \in DOMAIN cs \ ToSet(Freed(cs)) : cs[c] = NewChunk /\ c = Len(cs)
    BY <2>1, <2>2
  <2>4. FreedOnce'
    BY <1>1, <2>1, <2>3 DEF FreedOnce
  <2> QED
    BY <1>1, <2>4 DEF MemoryInv
<1> QED
  BY <1>2, <1>3

(* While the parser goes on, a forest and places are all there is to show. *)
LEMMA GoOnKeeps ==
  ASSUME ParserInv, MemoryInv, phase = "parsing", NEW t \in Tokens, GoOn(t),
         Forest(chunks', {}), Spots(chunks', stack')
  PROVE  MemoryInv'
<1>1. phase' = "parsing" /\ freed' = <<>> /\ input' # <<>> /\ prevType' # "none"
  <2>1. phase' = phase /\ freed' = freed /\ freed = <<>> /\ prevType' = t.type /\ input' = Append(input, t)
    BY DEF GoOn, MemoryInv
  <2>2. input \in Seq(Tokens)
    BY DEF ParserInv, ParserTypeOK
  <2>3. input' # <<>>
    BY <2>1, <2>2, AppendProperties
  <2>4. prevType' # "none"
    BY <2>1, TokenTypes DEF Marks, Opens, Closes
  <2> QED
    BY <2>1, <2>3, <2>4
<1>2. FreedOnce'
  BY <1>1 DEF FreedOnce, IsInjective
<1> QED
  BY <1>1, <1>2 DEF MemoryInv

(* An opening bracket.                                                     *)
LEMMA OpenFirstFrees ==
  ASSUME ParserInv, MemoryInv, phase = "parsing", NEW t \in Tokens, OpenFirst(t)
  PROVE  MemoryInv'
<1>1. /\ chunks = <<>> /\ stack = <<>> /\ Forest(chunks, {})
      /\ Push(t, Append(chunks, NewChunk), stack)
  BY DEF OpenFirst, MemoryInv, ParserInv, Bare
<1>2. chunks \in Seq(Chunk) /\ Len(chunks) = 0
  BY <1>1, EmptySeq
<1>3. /\ GoOn(t) /\ chunks' = Append(chunks, NewChunk)
      /\ stack' = Append(stack, Position(t.type, Len(chunks) + 1, 0))
  BY <1>1 DEF Push
<1>4. PICK cs, n, loose : cs = Append(chunks, NewChunk) /\ n = Len(chunks) /\ loose = {} \cup {n + 1}
  OBVIOUS
<1>10. cs \in Seq(Chunk) /\ cs[n + 1] = NewChunk /\ Forest(cs, loose)
  BY <1>1, <1>2, <1>4, Allocated
<1>11. n + 1 = 1 /\ loose = {1}
  BY <1>2, <1>4
<1>12. chunks' \in Seq(Chunk) /\ chunks'[1] = NewChunk /\ Forest(chunks', {1})
  BY <1>3, <1>4, <1>10, <1>11
<1>5. Forest(chunks', {})
  BY <1>12, RootAllocated
<1>6. PICK p : p = Position(t.type, 1, 0)
  OBVIOUS
<1>7. stack' = <<p>>
  BY <1>1, <1>2, <1>3, <1>6
<1>8. Spot(chunks', 1, 0)
  BY <1>12, NewPointsNowhere, ConstantsAssumption DEF Spot
<1>9. Spots(chunks', <<p>>)
  <2>1. Len(<<p>>) = 1 /\ <<p>>[1] = p /\ p.at = 1 /\ p.pos = 0
    BY <1>6 DEF Position
  <2>2. \A i \in 1 .. 1 : i = 1
    OBVIOUS
  <2> QED
    BY <1>8, <2>1, <2>2 DEF Spots
<1> QED
  BY <1>3, <1>5, <1>7, <1>9, GoOnKeeps

LEMMA OpenMisplacedFrees ==
  ASSUME ParserInv, MemoryInv, phase = "parsing", NEW t \in Tokens, OpenMisplaced(t)
  PROVE  MemoryInv'
<1>1. chunks \in Seq(Chunk) /\ Forest(chunks, {}) /\ Refuse(t, Append(chunks, NewChunk))
  BY DEF OpenMisplaced, MemoryInv, ParserInv, ParserTypeOK
<1>2. PICK cs : cs = Append(chunks, NewChunk)
  OBVIOUS
<1>3. cs \in Seq(Chunk) /\ Len(cs) = Len(chunks) + 1 /\ Forest(cs, {} \cup {Len(chunks) + 1})
  BY <1>1, <1>2, Allocated
<1>4. {Len(cs)} \in SUBSET {Len(cs)} /\ Forest(cs, {Len(cs)}) /\ Refuse(t, cs)
  BY <1>1, <1>2, <1>3
<1> QED
  BY <1>3, <1>4, RefuseFrees

LEMMA OpenNestedFrees ==
  ASSUME ParserInv, MemoryInv, phase = "parsing", NEW t \in Tokens, t.type \in Opens, OpenNested(t)
  PROVE  MemoryInv'
<1>1. /\ ParserTypeOK /\ stack # <<>> /\ chunks \in Seq(Chunk) /\ Len(chunks) \in Nat
      /\ Forest(chunks, {}) /\ Spots(chunks, stack) /\ ChunkSize \in Nat \ {0}
  <2>1. ParserTypeOK /\ stack # <<>>
    BY DEF OpenNested, ParserInv
  <2>2. chunks \in Seq(Chunk) /\ Len(chunks) \in Nat
    BY <2>1, LenProperties DEF ParserTypeOK
  <2>3. Forest(chunks, {}) /\ Spots(chunks, stack)
    BY DEF MemoryInv
  <2> QED
    BY <2>1, <2>2, <2>3, ConstantsAssumption
<1>2. PICK new, more : new = Len(chunks) + 1 /\ more = Append(chunks, NewChunk)
  OBVIOUS
<1>3. /\ more \in Seq(Chunk) /\ Len(more) = new /\ more[new] = NewChunk
      /\ \A d \in 1 .. Len(chunks) : more[d] = chunks[d]
      /\ Forest(more, {new})
  <2>1. Forest(more, {} \cup {new})
    BY <1>1, <1>2, Allocated
  <2>2. {} \cup {new} = {new}
    OBVIOUS
  <2> QED
    BY <1>1, <1>2, <2>1, <2>2, Allocated
<1>4. new \in Nat \ {0} /\ Len(more) >= Len(chunks) /\ \A l \in {new} : l \notin 1 .. Len(chunks)
  BY <1>1, <1>2, <1>3
<1>5. PICK g, gs, at, pos : g = Grown(more) /\ gs = g.chunks /\ at = g.at /\ pos = g.pos
  OBVIOUS
<1>6. /\ gs \in Seq(Chunk) /\ Len(gs) >= Len(more) /\ at \in 1 .. Len(gs) /\ pos \in 0 .. ChunkSize - 1
  BY <1>1, <1>3, <1>4, <1>5, GrownType
<1>7. /\ Forest(gs, {new}) /\ at \notin {new} /\ Spot(gs, at, pos)
      /\ \A i \in 1 .. Len(stack) - 1 : gs[stack[i].at] = chunks[stack[i].at] /\ stack[i].at # at
  BY <1>1, <1>3, <1>4, <1>5, GrownForest
<1>8. PICK cs, all : /\ cs = [gs EXCEPT ![at].slots[pos].sub = new]
                     /\ all = [cs EXCEPT ![at].count = @ + 1]
  OBVIOUS
<1>9. IF StackFull THEN Refuse(t, cs) ELSE Push(t, all, SetTop(at, pos + 1))
  BY <1>2, <1>5, <1>8 DEF OpenNested
<1>10. PICK x, y : /\ x = [gs[at] EXCEPT !.slots[pos].sub = new]
                   /\ y = [x EXCEPT !.count = @ + 1]
  OBVIOUS
<1>11. /\ x \in Chunk /\ y \in Chunk
       /\ x.next = gs[at].next /\ y.next = gs[at].next
       /\ y.slots = x.slots /\ x.slots[pos].sub = new
       /\ \A m \in 0 .. ChunkSize - 1 : m # pos => x.slots[m] = gs[at].slots[m]
  <2>1. gs[at] \in Chunk
    BY <1>6
  <2>2. x \in Chunk
    BY <1>4, <1>6, <1>10, <2>1, ChunkWrites
  <2>3. y \in Chunk
    BY <1>6, <1>10, <2>2, ChunkWrites
  <2>4. /\ x.next = gs[at].next /\ x.slots[pos].sub = new
        /\ \A m \in 0 .. ChunkSize - 1 : m # pos => x.slots[m] = gs[at].slots[m]
    BY <1>6, <1>10, <2>1 DEF Chunk, Slot
  <2>5. y.next = x.next /\ y.slots = x.slots
    BY <1>10, <2>2 DEF Chunk
  <2> QED
    BY <2>2, <2>3, <2>4, <2>5
<1>12. cs = [gs EXCEPT ![at] = x] /\ all = [gs EXCEPT ![at] = y]
  BY <1>6, <1>8, <1>10
<1>13. /\ cs \in Seq(Chunk) /\ Len(cs) = Len(gs) /\ cs[at] = x
       /\ \A d \in 1 .. Len(gs) : d # at => cs[d] = gs[d]
       /\ all \in Seq(Chunk) /\ Len(all) = Len(gs) /\ all[at] = y
       /\ \A d \in 1 .. Len(gs) : d # at => all[d] = gs[d]
  BY <1>6, <1>11, <1>12, ExceptSeq
<1>14. /\ new \in DOMAIN gs /\ gs[new] = NewChunk /\ DOMAIN gs = 1 .. Len(gs)
       /\ at \in DOMAIN gs \ {new} /\ pos \in Places
       /\ Points(gs, at, pos) = 0
       /\ pos \in 0 .. ChunkSize - 1 => \A m \in 0 .. pos - 1 : Used(gs[at].slots[m])
  <2>1. DOMAIN gs = 1 .. Len(gs)
    BY <1>6, LenProperties
  <2>2. new \in DOMAIN gs /\ gs[new] = NewChunk
    BY <1>7 DEF Forest, Loose
  <2>3. pos \in Places /\ Points(gs, at, pos) = gs[at].slots[pos].sub
    BY <1>6, SlotPoints
  <2>4. pos \in pos .. ChunkSize - 1
    BY <1>1, <1>6
  <2> QED
    BY <1>6, <1>7, <2>1, <2>2, <2>3, <2>4 DEF Spot
<1>15. ASSUME NEW z \in {x, y}, NEW es \in Seq(Chunk), Len(es) = Len(gs), es[at] = z,
              \A d \in 1 .. Len(gs) : d # at => es[d] = gs[d]
       PROVE  Forest(es, {}) /\ Spot(es, at, pos + 1) /\ es[new] = NewChunk
  <2>1. /\ z \in Chunk /\ z.next = gs[at].next /\ z.slots[pos].sub = new
        /\ \A m \in 0 .. ChunkSize - 1 : m # pos => z.slots[m] = gs[at].slots[m]
    BY <1>11
  <2>2. Used(z.slots[pos])
    BY <1>4, <2>1 DEF Used
  <2>3. /\ DOMAIN es = DOMAIN gs
        /\ \A d \in DOMAIN gs : \A m \in Places :
             ~(d = at /\ m = pos) => Points(es, d, m) = Points(gs, d, m)
        /\ \A d \in DOMAIN gs : \A m \in 0 .. ChunkSize - 1 :
             ~(d = at /\ m = pos) => es[d].slots[m] = gs[d].slots[m]
        /\ Spot(es, at, pos + 1)
    <3>1. /\ gs \in Seq(Chunk) /\ at \in 1 .. Len(gs) /\ pos \in 0 .. ChunkSize - 1
          /\ Spot(gs, at, pos) /\ es[at] = z
          /\ es \in Seq(Chunk) /\ Len(es) = Len(gs)
          /\ \A d \in 1 .. Len(gs) : d # at => es[d] = gs[d]
      BY <1>6, <1>7, <1>15
    <3>2. /\ es[at].next = gs[at].next /\ Used(es[at].slots[pos])
          /\ \A m \in 0 .. ChunkSize - 1 : m # pos => es[at].slots[m] = gs[at].slots[m]
      BY <2>1, <2>2, <3>1
    <3>3. PICK a, b : a = gs /\ b = es
      OBVIOUS
    <3>4. /\ a \in Seq(Chunk) /\ at \in 1 .. Len(a) /\ pos \in 0 .. ChunkSize - 1
          /\ b \in Seq(Chunk) /\ Len(b) = Len(a)
          /\ \A d \in 1 .. Len(a) : d # at => b[d] = a[d]
          /\ b[at].next = a[at].next
          /\ \A m \in 0 .. ChunkSize - 1 : m # pos => b[at].slots[m] = a[at].slots[m]
      BY <3>1, <3>2, <3>3
    <3>5. DOMAIN b = DOMAIN a
      BY <3>4, SlotWritten
    <3>6. \A d \in DOMAIN a : \A m \in Places :
            ~(d = at /\ m = pos) => Points(b, d, m) = Points(a, d, m)
      BY <3>4, SlotWritten
    <3>7. \A d \in DOMAIN a : \A m \in 0 .. ChunkSize - 1 :
            ~(d = at /\ m = pos) => b[d].slots[m] = a[d].slots[m]
      BY <3>4, SlotWritten
    <3>8. Spot(a, at, pos) /\ Used(b[at].slots[pos]) => Spot(b, at, pos + 1)
      BY <3>4, SlotWritten
    <3> QED
      BY <3>1, <3>2, <3>3, <3>5, <3>6, <3>7, <3>8
  <2>4. Points(es, at, pos) = new
    BY <1>6, <1>15, <2>1, SlotPoints
  <2>5. \A d \in DOMAIN gs : \A m \in Places :
          Points(es, d, m) = IF d = at /\ m = pos THEN new ELSE Points(gs, d, m)
    BY <2>3, <2>4
  <2>6. \A d \in DOMAIN gs : \A m \in 0 .. ChunkSize - 1 :
          Used(gs[d].slots[m]) => Used(es[d].slots[m])
    <3> TAKE d \in DOMAIN gs
    <3> TAKE m \in 0 .. ChunkSize - 1
    <3>1. CASE d = at /\ m = pos
      BY <3>1, <1>15, <2>2
    <3>2. CASE ~(d = at /\ m = pos)
      BY <3>2, <2>3
    <3> QED
      BY <3>1, <3>2
  <2>7. es[new] = NewChunk /\ \A l \in {new} : es[l] = gs[l]
    BY <1>14, <1>15
  <2>8. PICK loose : loose = {new}
    OBVIOUS
  <2>9. /\ Forest(gs, loose) /\ at \in DOMAIN gs \ loose /\ new \in loose
        /\ \A l \in loose : es[l] = gs[l]
    BY <1>7, <1>14, <2>7, <2>8
  <2>10. Forest(es, loose \ {new})
    <3>1. PICK k : k = pos
      OBVIOUS
    <3>2. /\ gs \in Seq(Chunk) /\ es \in Seq(Chunk) /\ DOMAIN es = DOMAIN gs
          /\ k \in Places /\ Points(gs, at, k) = 0
          /\ k \in 0 .. ChunkSize - 1 => \A m \in 0 .. k - 1 : Used(gs[at].slots[m])
          /\ \A d \in DOMAIN gs : \A m \in Places :
               Points(es, d, m) = IF d = at /\ m = k THEN new ELSE Points(gs, d, m)
      BY <1>6, <1>14, <1>15, <2>3, <2>5, <3>1
    <3> QED
      BY <2>6, <2>9, <3>2, HungUp
  <2> QED
    BY <2>3, <2>7, <2>8, <2>10
<1>16. Forest(cs, {})
  BY <1>13, <1>15
<1>17. Forest(all, {}) /\ Spot(all, at, pos + 1) /\ all[new] = NewChunk
  BY <1>13, <1>15
<1>18. CASE StackFull
  <2>1. Refuse(t, cs) /\ {} \in SUBSET {Len(cs)}
    BY <1>9, <1>18
  <2> QED
    BY <1>13, <1>16, <2>1, RefuseFrees
<1>19. CASE ~StackFull
  <2>1. PICK below, p : below = SetTop(at, pos + 1) /\ p = Position(t.type, new, 0)
    OBVIOUS
  <2>2. GoOn(t) /\ chunks' = all /\ stack' = Append(below, p)
    BY <1>2, <1>9, <1>19, <2>1 DEF Push
  <2>3. at \in Nat /\ pos + 1 \in 0 .. ChunkSize
    BY <1>1, <1>6
  <2>4. \A i \in 1 .. Len(stack) - 1 : all[stack[i].at] = chunks[stack[i].at] /\ stack[i].at # at
    <3> TAKE i \in 1 .. Len(stack) - 1
    <3>1. stack[i].at \in 1 .. Len(gs)
      <4>1. Len(stack) \in Nat /\ i \in 1 .. Len(stack)
        BY <1>1, LenProperties DEF ParserTypeOK
      <4>2. stack[i].at \in 1 .. Len(chunks)
        BY <1>1, <4>1 DEF ParserTypeOK, StackOK
      <4> QED
        BY <1>1, <1>4, <1>6, <4>2, LenProperties
    <3> QED
      BY <1>7, <1>13, <3>1
  <2>5. Spots(all, below)
    BY <1>1, <1>17, <2>1, <2>3, <2>4, SpotsAfter
  <2>6. /\ below \in Seq(Place) /\ Len(below) = Len(stack) /\ Len(stack) \in Nat \ {0}
        /\ below[Len(stack)].at = at
        /\ \A i \in 1 .. Len(stack) - 1 : below[i] = stack[i]
    <3>1. Len(stack) \in Nat \ {0}
      BY <1>1, HasLast DEF ParserTypeOK
    <3>2. PICK to : to = pos + 1
      OBVIOUS
    <3>3. to \in 0 .. ChunkSize /\ at \in Nat /\ below = SetTop(at, to)
      BY <2>1, <2>3, <3>2
    <3>4. /\ SetTop(at, to) \in Seq(Place) /\ Len(SetTop(at, to)) = Len(stack)
          /\ SetTop(at, to)[Len(stack)].at = at
          /\ \A i \in 1 .. Len(stack) - 1 : SetTop(at, to)[i] = stack[i]
      BY <1>1, <3>3, SetTopType
    <3> QED
      BY <3>1, <3>3, <3>4
  <2>7. p \in Place /\ p.at = new /\ p.pos = 0
    BY <1>1, <1>4, <2>1 DEF Position, Place
  <2>8. \A i \in 1 .. Len(below) : below[i].at # new
    <3> TAKE i \in 1 .. Len(below)
    <3>1. CASE i = Len(stack)
      BY <3>1, <1>7, <2>6
    <3>2. CASE i # Len(stack)
      <4>1. i \in 1 .. Len(stack) - 1 /\ i \in 1 .. Len(stack)
        BY <3>2, <2>6
      <4>2. below[i].at \in 1 .. Len(chunks)
        BY <1>1, <2>6, <4>1 DEF ParserTypeOK, StackOK
      <4> QED
        BY <1>4, <4>2
    <3> QED
      BY <3>1, <3>2
  <2>9. Spot(all, new, 0)
    BY <1>1, <1>17, NewPointsNowhere DEF Spot
  <2>10. Spots(all, Append(below, p))
    BY <2>5, <2>6, <2>7, <2>8, <2>9, SpotsPushed
  <2> QED
    BY <1>17, <2>2, <2>10, GoOnKeeps
<1> QED
  BY <1>18, <1>19

(* A key or a value is written into the slot of the innermost place: no    *)
(* pointer changes, and the slot is used from then on.                     *)
PutWritten(t, gs, at, pos) ==
  \E x \in Chunk, to \in {pos, pos + 1} :
    /\ chunks' = [gs EXCEPT ![at] = x] /\ stack' = SetTop(at, to) /\ GoOn(t)
    /\ x.next = gs[at].next /\ x.slots[pos].sub = gs[at].slots[pos].sub
    /\ Used(x.slots[pos])
    /\ \A m \in 0 .. ChunkSize - 1 : m # pos => x.slots[m] = gs[at].slots[m]
    /\ \/ /\ to = pos /\ t.text \in (Labels \cup {"true"}) \ {NoLabel}
          /\ x.slots[pos].key = t.text /\ x.slots[pos].value = gs[at].slots[pos].value
       \/ /\ to = pos + 1
          /\ x.slots[pos].key = gs[at].slots[pos].key /\ x.slots[pos].value = Len(input) + 1

LEMMA PutWrites ==
  ASSUME ParserInv, NEW t \in Tokens, PutValue(t) \/ (t.type \in {"string", "literal"} /\ PutKey(t)),
         NEW gs \in Seq(Chunk), NEW at \in 1 .. Len(gs), NEW pos \in 0 .. ChunkSize - 1,
         Grown(chunks).chunks = gs, Grown(chunks).at = at, Grown(chunks).pos = pos
  PROVE  PutWritten(t, gs, at, pos)
<1> USE DEF PutWritten
<1>1. PICK c \in Chunk : c = gs[at]
  OBVIOUS
<1>2. CASE t.type \in {"string", "literal"} /\ PutKey(t)
  <2>1. PICK x : x = [c EXCEPT !.slots[pos].key = t.text, !.count = @ + 1]
    OBVIOUS
  <2>2. x \in Chunk
    BY <2>1, TokenTypes, ChunkWrites
  <2>3. chunks' = [gs EXCEPT ![at] = x]
    BY <1>1, <1>2, <2>1 DEF PutKey
  <2>4. stack' = SetTop(at, pos) /\ GoOn(t)
    BY <1>2 DEF PutKey
  <2>5. t.text \in (Labels \cup {"true"}) \ {NoLabel}
    <3>1. t.type \in {"string", "literal"}
      BY <1>2
    <3> QED
      BY <3>1, ConstantsAssumption DEF Tokens, Marks, Opens, Closes, NoLabel
  <2>6. /\ x.next = c.next /\ x.slots[pos].sub = c.slots[pos].sub
        /\ x.slots[pos].key = t.text /\ x.slots[pos].value = c.slots[pos].value
        /\ \A m \in 0 .. ChunkSize - 1 : m # pos => x.slots[m] = c.slots[m]
    <3>1. c.slots \in [0 .. ChunkSize - 1 -> Slot] /\ c.slots[pos] \in Slot
      BY DEF Chunk
    <3>2. x.next = c.next
      BY <2>1 DEF Chunk
    <3>3. \A m \in 0 .. ChunkSize - 1 : m # pos => x.slots[m] = c.slots[m]
      BY <2>1, <3>1 DEF Chunk
    <3>4. x.slots[pos] = [c.slots[pos] EXCEPT !.key = t.text]
      BY <2>1, <3>1 DEF Chunk
    <3>5. /\ x.slots[pos].sub = c.slots[pos].sub /\ x.slots[pos].key = t.text
          /\ x.slots[pos].value = c.slots[pos].value
      BY <3>1, <3>4 DEF Slot
    <3> QED
      BY <3>2, <3>3, <3>5
  <2>7. Used(x.slots[pos])
    BY <2>5, <2>6 DEF Used
  <2> QED
    BY <1>1, <2>2, <2>3, <2>4, <2>5, <2>6, <2>7
<1>3. CASE PutValue(t)
  <2> DEFINE new == IF t.type = "number" \/ Top.kind = "openArray" THEN 1 ELSE 0
             raw == t.type # "number" /\ NeedsEscaping(Append(input, t))
  <2>1. PICK v, n, r : v = Len(input) + 1 /\ n = new /\ r = raw
    OBVIOUS
  <2>2. v \in Nat \ {0} /\ n \in {0, 1} /\ r \in BOOLEAN
    <3>1. Len(input) \in Nat
      BY LenProperties DEF ParserInv, ParserTypeOK
    <3> QED
      BY <2>1, <3>1
  <2>3. PICK x : x = [c EXCEPT !.slots[pos].value = v, !.slots[pos].raw = r, !.count = @ + n]
    OBVIOUS
  <2>4. x = WithValue(c, pos, t)
    BY <2>1, <2>3, Zenon DEF WithValue
  <2>5. x \in Chunk
    BY <2>2, <2>3, ChunkWrites
  <2>6. /\ chunks' = [gs EXCEPT ![at] = x]
        /\ stack' = SetTop(at, pos + 1) /\ GoOn(t)
    <3> HIDE DEF new, raw
    <3> QED
      BY <1>1, <1>3, <2>4 DEF PutValue
  <2>7. /\ x.next = c.next /\ x.slots[pos].sub = c.slots[pos].sub
        /\ x.slots[pos].value = v /\ x.slots[pos].key = c.slots[pos].key
        /\ \A m \in 0 .. ChunkSize - 1 : m # pos => x.slots[m] = c.slots[m]
    <3> HIDE DEF new, raw
    <3>1. c.slots \in [0 .. ChunkSize - 1 -> Slot] /\ c.slots[pos] \in Slot
      BY DEF Chunk
    <3>2. x.next = c.next
      BY <2>3 DEF Chunk
    <3>3. \A m \in 0 .. ChunkSize - 1 : m # pos => x.slots[m] = c.slots[m]
      BY <2>3, <3>1 DEF Chunk
    <3>4. x.slots[pos] = [[c.slots[pos] EXCEPT !.value = v] EXCEPT !.raw = r]
      BY <2>3, <3>1 DEF Chunk
    <3>5. /\ x.slots[pos].sub = c.slots[pos].sub /\ x.slots[pos].value = v
          /\ x.slots[pos].key = c.slots[pos].key
      BY <3>1, <3>4 DEF Slot
    <3> QED
      BY <3>2, <3>3, <3>5
  <2>8. Used(x.slots[pos])
    BY <2>2, <2>7 DEF Used
  <2>9. PICK to : to = pos + 1
    OBVIOUS
  <2>10. /\ chunks' = [gs EXCEPT ![at] = x] /\ stack' = SetTop(at, to) /\ GoOn(t)
         /\ x.next = gs[at].next /\ x.slots[pos].sub = gs[at].slots[pos].sub
         /\ \A m \in 0 .. ChunkSize - 1 : m # pos => x.slots[m] = gs[at].slots[m]
         /\ x.slots[pos].key = gs[at].slots[pos].key /\ x.slots[pos].value = Len(input) + 1
    BY <1>1, <2>1, <2>6, <2>7, <2>9, Zenon
  <2> QED
    BY <2>5, <2>8, <2>9, <2>10
<1> QED
  BY <1>2, <1>3

LEMMA PutFrees ==
  ASSUME ParserInv, MemoryInv, phase = "parsing", NEW t \in Tokens, st # 0, expect # "none",
         PutValue(t) \/ (t.type \in {"string", "literal"} /\ PutKey(t))
  PROVE  MemoryInv'
<1>1. /\ ParserTypeOK /\ stack # <<>> /\ chunks \in Seq(Chunk) /\ Len(chunks) \in Nat
      /\ Forest(chunks, {}) /\ Spots(chunks, stack) /\ ChunkSize \in Nat \ {0}
  <2>1. ParserTypeOK /\ stack # <<>>
    BY DEF ParserInv, ParserTypeOK, StackOK
  <2>2. chunks \in Seq(Chunk) /\ Len(chunks) \in Nat
    BY <2>1, LenProperties DEF ParserTypeOK
  <2>3. Forest(chunks, {}) /\ Spots(chunks, stack)
    BY DEF MemoryInv
  <2> QED
    BY <2>1, <2>2, <2>3, ConstantsAssumption
<1>2. PICK gs, at, pos :
        gs = Grown(chunks).chunks /\ at = Grown(chunks).at /\ pos = Grown(chunks).pos
  OBVIOUS
<1>3. /\ gs \in Seq(Chunk) /\ at \in 1 .. Len(gs) /\ pos \in 0 .. ChunkSize - 1
      /\ Len(gs) >= Len(chunks)
  BY <1>1, <1>2, GrownType
<1>4. /\ Forest(gs, {}) /\ Spot(gs, at, pos)
      /\ \A i \in 1 .. Len(stack) - 1 : gs[stack[i].at] = chunks[stack[i].at] /\ stack[i].at # at
  <2>1. PICK cs, loose : cs = chunks /\ loose = {}
    OBVIOUS
  <2>2. /\ cs \in Seq(Chunk) /\ Len(cs) >= Len(chunks)
        /\ \A d \in 1 .. Len(chunks) : cs[d] = chunks[d]
        /\ Forest(cs, loose) /\ \A l \in loose : l \notin 1 .. Len(chunks)
    BY <1>1, <2>1
  <2>3. /\ Forest(Grown(cs).chunks, loose)
        /\ Spot(Grown(cs).chunks, Grown(cs).at, Grown(cs).pos)
        /\ \A i \in 1 .. Len(stack) - 1 :
             /\ Grown(cs).chunks[stack[i].at] = chunks[stack[i].at]
             /\ stack[i].at # Grown(cs).at
    BY <1>1, <2>2, GrownForest
  <2> QED
    BY <1>2, <2>1, <2>3
<1>5. PICK x \in Chunk, to \in {pos, pos + 1} :
        /\ chunks' = [gs EXCEPT ![at] = x] /\ stack' = SetTop(at, to) /\ GoOn(t)
        /\ x.next = gs[at].next /\ x.slots[pos].sub = gs[at].slots[pos].sub
        /\ Used(x.slots[pos])
        /\ \A m \in 0 .. ChunkSize - 1 : m # pos => x.slots[m] = gs[at].slots[m]
  <2>1. Grown(chunks).chunks = gs /\ Grown(chunks).at = at /\ Grown(chunks).pos = pos
    BY <1>2
  <2>2. PutWritten(t, gs, at, pos)
    BY <1>3, <2>1, PutWrites
  <2> QED
    BY <2>2, Zenon DEF PutWritten
<1>6. PICK es : es = [gs EXCEPT ![at] = x]
  OBVIOUS
<1>7. /\ es \in Seq(Chunk) /\ Len(es) = Len(gs) /\ es[at] = x
      /\ \A d \in 1 .. Len(gs) : d # at => es[d] = gs[d]
  BY <1>3, <1>6, ExceptSeq
<1>8. chunks' = es /\ stack' = SetTop(at, to) /\ GoOn(t)
  BY <1>5, <1>6
<1>9. /\ es[at].next = gs[at].next /\ es[at].slots[pos].sub = gs[at].slots[pos].sub
      /\ Used(es[at].slots[pos])
      /\ \A m \in 0 .. ChunkSize - 1 : m # pos => es[at].slots[m] = gs[at].slots[m]
  BY <1>5, <1>7
<1>10. DOMAIN es = DOMAIN gs
  BY <1>3, <1>7, <1>9, SlotWritten
<1>11. \A d \in DOMAIN gs : \A m \in Places :
         ~(d = at /\ m = pos) => Points(es, d, m) = Points(gs, d, m)
  BY <1>3, <1>7, <1>9, SlotWritten
<1>12. \A d \in DOMAIN gs : \A m \in 0 .. ChunkSize - 1 :
         ~(d = at /\ m = pos) => es[d].slots[m] = gs[d].slots[m]
  BY <1>3, <1>7, <1>9, SlotWritten
<1>13. Spot(es, at, pos + 1)
  BY <1>3, <1>4, <1>7, <1>9, SlotWritten
<1>14. Spot(es, at, pos)
  <2>1. es[at].slots[pos].sub = 0
    BY <1>1, <1>3, <1>4, <1>9 DEF Spot
  <2> QED
    BY <1>3, <1>4, <1>7, <1>9, <2>1, SlotWritten
<1>15. Forest(es, {})
  <2>1. Points(es, at, pos) = Points(gs, at, pos)
    BY <1>3, <1>9, SlotPoints
  <2>2. \A d \in DOMAIN gs : \A m \in Places : Points(es, d, m) = Points(gs, d, m)
    BY <1>11, <2>1
  <2>3. \A d \in DOMAIN gs : \A m \in 0 .. ChunkSize - 1 :
          Used(gs[d].slots[m]) => Used(es[d].slots[m])
    BY <1>9, <1>12
  <2> QED
    BY <1>3, <1>4, <1>7, <1>10, <2>2, <2>3, Written
<1>16. Spots(es, SetTop(at, to))
  <2>1. at \in Nat /\ to \in 0 .. ChunkSize /\ Spot(es, at, to)
    BY <1>1, <1>3, <1>13, <1>14
  <2>2. \A i \in 1 .. Len(stack) - 1 : es[stack[i].at] = chunks[stack[i].at] /\ stack[i].at # at
    <3> TAKE i \in 1 .. Len(stack) - 1
    <3>1. stack[i].at \in 1 .. Len(gs)
      <4>1. Len(stack) \in Nat /\ i \in 1 .. Len(stack)
        BY <1>1, LenProperties DEF ParserTypeOK
      <4>2. stack[i].at \in 1 .. Len(chunks)
        BY <1>1, <4>1 DEF ParserTypeOK, StackOK
      <4> QED
        BY <1>1, <1>3, <4>2, LenProperties
    <3> QED
      BY <1>4, <1>7, <3>1
  <2> QED
    BY <1>1, <2>1, <2>2, SpotsAfter
<1> QED
  BY <1>8, <1>15, <1>16, GoOnKeeps

(* A refusal of a token that allocates nothing frees what there is.        *)
LEMMA RefuseKept ==
  ASSUME ParserInv, MemoryInv, phase = "parsing", NEW t, Refuse(t, chunks)
  PROVE  MemoryInv'
<1>1. chunks \in Seq(Chunk) /\ Forest(chunks, {})
  BY DEF ParserInv, ParserTypeOK, MemoryInv
<1>2. PICK loose : loose = {}
  OBVIOUS
<1>3. loose \in SUBSET {Len(chunks)} /\ Forest(chunks, loose)
  BY <1>1, <1>2
<1> QED
  BY <1>1, <1>3, RefuseFrees

(* A token that only goes on keeps the places.                             *)
LEMMA OtherFrees ==
  ASSUME ParserInv, MemoryInv, phase = "parsing", NEW t \in Tokens, GoOn(t),
         chunks' = chunks, stack' = stack
  PROVE  MemoryInv'
<1>1. Forest(chunks', {}) /\ Spots(chunks', stack')
  BY DEF MemoryInv
<1> QED
  BY <1>1, GoOnKeeps

LEMMA OpenContainerFrees ==
  ASSUME ParserInv, MemoryInv, phase = "parsing", NEW t \in Tokens, OpenContainer(t)
  PROVE  MemoryInv'
<1>1. t.type \in Opens
  BY DEF OpenContainer
<1>2. CASE OpenFirst(t)
  BY <1>2, OpenFirstFrees
<1>3. CASE OpenNested(t)
  BY <1>1, <1>3, OpenNestedFrees
<1>4. CASE OpenMisplaced(t)
  BY <1>4, OpenMisplacedFrees
<1> QED
  BY <1>2, <1>3, <1>4 DEF OpenContainer

(* A closing bracket takes one place away.                                 *)
LEMMA CloseContainerFrees ==
  ASSUME ParserInv, MemoryInv, phase = "parsing", NEW t \in Tokens, CloseContainer(t)
  PROVE  MemoryInv'
<1>1. CASE CloseMisplaced(t.type)
  BY <1>1, RefuseKept DEF CloseContainer
<1>2. CASE ~CloseMisplaced(t.type)
  <2>1. stack # <<>> /\ stack \in Seq(Place)
    BY <1>2 DEF CloseMisplaced, ParserInv, ParserTypeOK
  <2>2. GoOn(t) /\ stack' = Front(stack) /\ chunks' = chunks
    BY <1>2 DEF CloseContainer
  <2>3. PICK n : n = Len(stack) - 1
    OBVIOUS
  <2>4. n \in Nat /\ n <= Len(stack) /\ Len(stack) \in Nat
    BY <2>1, <2>3, HasLast
  <2>5. stack' = SubSeq(stack, 1, n)
    BY <2>2, <2>3 DEF Front
  <2>6. Len(stack') = n /\ \A i \in 1 .. n : stack'[i] = stack[i]
    BY <2>1, <2>4, <2>5, WithoutLast
  <2>7. \A i \in 1 .. n : i \in 1 .. Len(stack)
    BY <2>4
  <2>8. Forest(chunks', {}) /\ Spots(chunks, stack)
    BY <2>2 DEF MemoryInv
  <2>9. Spots(chunks, stack')
    BY <2>6, <2>7, <2>8 DEF Spots
  <2> QED
    BY <2>2, <2>8, <2>9, GoOnKeeps
<1> QED
  BY <1>1, <1>2

LEMMA ScalarFrees ==
  ASSUME ParserInv, MemoryInv, phase = "parsing", NEW t \in Tokens, PutScalar(t)
  PROVE  MemoryInv'
<1>1. CASE Alone(t)
  BY <1>1, OtherFrees DEF Alone
<1>2. CASE Refuse(t, chunks)
  BY <1>2, RefuseKept
<1>3. CASE st # 0 /\ expect = "value" /\ PutValue(t)
  BY <1>3, PutFrees
<1>4. CASE st # 0 /\ expect = "key" /\ t.type # "number" /\ PutKey(t)
  <2>1. t.type \in {"string", "literal"}
    BY <1>4 DEF PutScalar
  <2> QED
    BY <1>4, <2>1, PutFrees
<1> QED
  BY <1>1, <1>2, <1>3, <1>4 DEF PutScalar

LEMMA MarkFrees ==
  ASSUME ParserInv, MemoryInv, phase = "parsing", NEW t \in Tokens,
         Colon(t) \/ Comma(t) \/ BadToken(t)
  PROVE  MemoryInv'
<1>1. Refuse(t, chunks) \/ (GoOn(t) /\ chunks' = chunks /\ stack' = stack)
  BY DEF Colon, ColonAccepted, ColonRefused, Comma, BadToken
<1> QED
  BY <1>1, RefuseKept, OtherFrees

(* At the end of the input all is kept, or all is freed.                   *)
LEMMA EndFrees ==
  ASSUME ParserInv, MemoryInv, EndOfInput
  PROVE  MemoryInv'
<1>1. /\ phase = "parsing" /\ chunks' = chunks
      /\ \/ phase' = "accepted" /\ freed' = freed
         \/ phase' = "refused" /\ freed' = Freed(chunks)
  BY DEF EndOfInput
<1>2. chunks \in Seq(Chunk) /\ Forest(chunks, {}) /\ freed = <<>>
  BY <1>1 DEF ParserInv, ParserTypeOK, MemoryInv
<1>3. CASE phase' = "accepted" /\ freed' = freed
  BY <1>1, <1>2, <1>3 DEF MemoryInv, FreedOnce, IsInjective
<1>4. CASE phase' = "refused" /\ freed' = Freed(chunks)
  <2>1. IsInjective(Freed(chunks)) /\ DOMAIN chunks \subseteq ToSet(Freed(chunks))
    BY <1>2, AllFreed
  <2> QED
    BY <1>1, <1>4, <2>1 DEF MemoryInv, FreedOnce
<1> QED
  BY <1>1, <1>3, <1>4

(* A file that could not be loaded left no memory behind.                  *)
LEMMA LoadFrees ==
  ASSUME ParserInv, MemoryInv, LoadFails
  PROVE  MemoryInv'
<1>1. phase = "parsing" /\ input = <<>> /\ phase' = "refused" /\ chunks' = chunks /\ freed' = freed
  BY DEF LoadFails
<1>2. chunks = <<>> /\ freed = <<>>
  BY <1>1 DEF MemoryInv
<1>3. DOMAIN chunks = {}
  BY <1>2
<1> QED
  BY <1>1, <1>2, <1>3 DEF MemoryInv, FreedOnce, IsInjective

(* Every step of the parser.                                               *)
LEMMA ParserFrees ==
  ASSUME ParserInv, MemoryInv, ParserNext
  PROVE  MemoryInv'
<1>1. CASE ReadToken
  <2>1. phase = "parsing"
    BY <1>1 DEF ReadToken
  <2>2. PICK t \in Tokens : \/ OpenContainer(t) \/ CloseContainer(t) \/ PutScalar(t)
                            \/ Colon(t) \/ Comma(t) \/ BadToken(t)
    BY <1>1 DEF ReadToken
  <2> QED
    BY <2>1, <2>2, OpenContainerFrees, CloseContainerFrees, ScalarFrees, MarkFrees
<1>2. CASE EndOfInput
  BY <1>2, EndFrees
<1>3. CASE LoadFails
  BY <1>3, LoadFrees
<1> QED
  BY <1>1, <1>2, <1>3 DEF ParserNext

-----------------------------------------------------------------------------
(* What the calls on an accepted document do to it.                        *)

\* The same pointers and the same elements in the slots; marks may differ.
SameTree(es, cs) ==
  /\ es \in Seq(Chunk) /\ Len(es) = Len(cs)
  /\ \A d \in 1 .. Len(cs) : es[d].next = cs[d].next
  /\ \A d \in 1 .. Len(cs) : \A m \in 0 .. ChunkSize - 1 :
       /\ es[d].slots[m].key = cs[d].slots[m].key
       /\ es[d].slots[m].value = cs[d].slots[m].value
       /\ es[d].slots[m].sub = cs[d].slots[m].sub

(* A string is unescaped where it is: the mark is all that is cleared,     *)
(* wherever the pointer of the walk leads.                                 *)
LEMMA ClearRawKeeps ==
  ASSUME chunks \in Seq(Chunk), NEW p, NEW k
  PROVE  SameTree(ClearRaw(p, k), chunks)
<1>1. PICK cs, c, o : cs = chunks /\ c = p.chunk /\ o = p.offset + k
  OBVIOUS
<1>2. PICK es : es = [cs EXCEPT ![c].slots[o].raw = FALSE]
  OBVIOUS
<1>3. ClearRaw(p, k) = es
  BY <1>1, <1>2 DEF ClearRaw
<1>4. cs \in Seq(Chunk) /\ DOMAIN cs = 1 .. Len(cs)
  BY <1>1, LenProperties
<1>5. CASE c \notin 1 .. Len(cs)
  <2>1. es = cs
    BY <1>2, <1>4, <1>5
  <2> QED
    BY <1>1, <1>3, <1>4, <2>1 DEF SameTree
<1>6. CASE c \in 1 .. Len(cs)
  <2>1. PICK x \in Chunk : x = cs[c]
    BY <1>4, <1>6
  <2>2. x.slots \in [0 .. ChunkSize - 1 -> Slot]
    BY DEF Chunk
  <2>3. PICK y : y = [x EXCEPT !.slots[o].raw = FALSE]
    OBVIOUS
  <2>4. es = [cs EXCEPT ![c] = y]
    BY <1>2, <1>6, <2>1, <2>3
  <2>5. y.next = x.next
    BY <2>3 DEF Chunk
  <2>6. CASE o \notin 0 .. ChunkSize - 1
    <3>1. y = x
      <4>1. [x.slots EXCEPT ![o].raw = FALSE] = x.slots
        BY <2>2, <2>6
      <4>2. y = [x EXCEPT !.slots = [x.slots EXCEPT ![o].raw = FALSE]]
        BY <2>3
      <4> QED
        BY <4>1, <4>2 DEF Chunk
    <3>2. es = cs
      BY <1>4, <1>6, <2>1, <2>4, <3>1
    <3> QED
      BY <1>1, <1>3, <1>4, <3>2 DEF SameTree
  <2>7. CASE o \in 0 .. ChunkSize - 1
    <3>1. PICK u \in Slot : u = x.slots[o]
      BY <2>2, <2>7
    <3>2. PICK v : v = [u EXCEPT !.raw = FALSE]
      OBVIOUS
    <3>3. v \in Slot /\ v.sub = u.sub /\ v.key = u.key /\ v.value = u.value
      BY <3>2 DEF Slot
    <3>4. y = [x EXCEPT !.slots = [@ EXCEPT ![o] = v]]
      BY <2>2, <2>3, <2>7, <3>1, <3>2 DEF Chunk
    <3>5. y \in Chunk
      BY <2>2, <3>3, <3>4 DEF Chunk
    <3>6. \A m \in 0 .. ChunkSize - 1 : y.slots[m] = IF m = o THEN v ELSE x.slots[m]
      BY <2>2, <3>4 DEF Chunk
    <3>7. \A m \in 0 .. ChunkSize - 1 :
            /\ y.slots[m].key = x.slots[m].key /\ y.slots[m].value = x.slots[m].value
            /\ y.slots[m].sub = x.slots[m].sub
      BY <3>1, <3>3, <3>6
    <3>8. /\ es \in Seq(Chunk) /\ Len(es) = Len(cs) /\ es[c] = y
          /\ \A d \in 1 .. Len(cs) : d # c => es[d] = cs[d]
      BY <1>4, <1>6, <2>4, <3>5, ExceptSeq
    <3>9. \A d \in 1 .. Len(cs) : es[d].next = cs[d].next
      BY <2>1, <2>5, <3>8
    <3>10. \A d \in 1 .. Len(cs) : \A m \in 0 .. ChunkSize - 1 :
             /\ es[d].slots[m].key = cs[d].slots[m].key
             /\ es[d].slots[m].value = cs[d].slots[m].value
             /\ es[d].slots[m].sub = cs[d].slots[m].sub
      <4> TAKE d \in 1 .. Len(cs)
      <4>1. CASE d = c
        BY <4>1, <2>1, <3>7, <3>8
      <4>2. CASE d # c
        BY <4>2, <3>8
      <4> QED
        BY <4>1, <4>2
    <3> QED
      BY <1>1, <1>3, <3>8, <3>9, <3>10 DEF SameTree
  <2> QED
    BY <2>6, <2>7
<1> QED
  BY <1>5, <1>6

(* A forest stays one when only marks change.                              *)
LEMMA SameForest ==
  ASSUME NEW cs \in Seq(Chunk), Forest(cs, {}), NEW es, SameTree(es, cs)
  PROVE  Forest(es, {})
<1>1. es \in Seq(Chunk) /\ Len(es) = Len(cs)
  BY DEF SameTree
<1>2. DOMAIN es = DOMAIN cs /\ DOMAIN cs = 1 .. Len(cs)
  BY <1>1, LenProperties
<1>3. \A d \in DOMAIN cs : \A m \in Places : Points(es, d, m) = Points(cs, d, m)
  <2> TAKE d \in DOMAIN cs
  <2> TAKE m \in Places
  <2>1. CASE m \in 0 .. ChunkSize - 1
    BY <2>1, <1>2, SlotPoints DEF SameTree
  <2>2. CASE m = ChunkSize
    BY <2>2, <1>2, SlotPoints DEF SameTree
  <2> QED
    BY <2>1, <2>2, SlotPoints
<1>4. \A d \in DOMAIN cs : \A m \in 0 .. ChunkSize - 1 :
        Used(cs[d].slots[m]) => Used(es[d].slots[m])
  BY <1>2 DEF SameTree, Used
<1> QED
  BY <1>1, <1>2, <1>3, <1>4, Written

(* jse_get changes no more of the memory than marks, jse_get_next nothing. *)
LEMMA GetKeepsTree ==
  ASSUME chunks \in Seq(Chunk), Get \/ GetNext
  PROVE  /\ SameTree(chunks', chunks)
         /\ phase = "accepted"
         /\ UNCHANGED <<phase, input, st, stack, prevType, expect, freed>>
<1>1. phase = "accepted" /\ UNCHANGED <<phase, input, st, stack, prevType, expect, freed>>
  BY DEF Get, GetNext, Callable
<1>2. SameTree(chunks, chunks)
  BY DEF SameTree
<1>3. ASSUME NEW p, NEW k, NEW cut, Ready(p, k, cut)
      PROVE  SameTree(chunks', chunks)
  BY <1>2, <1>3, ClearRawKeeps DEF Ready
<1>4. CASE GetNext
  <2>1. chunks' = chunks
    BY <1>4, Zenon DEF GetNext
  <2> QED
    BY <1>1, <1>2, <2>1
<1>5. CASE Get
  <2>1. CASE GetSingle
    <3>1. chunks' = chunks
      BY <2>1, Zenon DEF GetSingle
    <3> QED
      BY <1>1, <1>2, <3>1
  <2>2. ASSUME NEW q, LET o == Walk(Root, q) IN GetSlot(o) \/ GetEnd(o) \/ GetNothing(o)
        PROVE  SameTree(chunks', chunks)
    <3>1. PICK o : GetSlot(o) \/ GetEnd(o) \/ GetNothing(o)
      BY <2>2
    <3>2. CASE GetSlot(o)
      BY <1>3, <3>2 DEF GetSlot
    <3>3. CASE GetEnd(o)
      BY <1>3, <3>3 DEF GetEnd
    <3>4. CASE GetNothing(o)
      BY <1>2, <3>4 DEF GetNothing
    <3> QED
      BY <3>1, <3>2, <3>3, <3>4
  <2>3. CASE GetUnasked
    <3>1. chunks' = chunks
      BY <2>3, Zenon DEF GetUnasked
    <3> QED
      BY <1>1, <1>2, <3>1
  <2>4. PICK q :
          \/ GetSingle \/ GetUnasked
          \/ LET o == Walk(Root, q) IN GetSlot(o) \/ GetEnd(o) \/ GetNothing(o)
    BY <1>5, Zenon DEF Get
  <2> QED
    BY <1>1, <2>1, <2>2, <2>3, <2>4
<1> QED
  BY <1>1, <1>4, <1>5

\* All that is known of the parser and its memory, in any state of the program.
DocumentInv == ParserInv /\ NestingInv /\ MemoryInv

LEMMA DocumentInit == QueryInit => DocumentInv
<1> SUFFICES ASSUME QueryInit PROVE DocumentInv
  OBVIOUS
<1>1. Init
  BY DEF QueryInit
<1>2. ParserInv /\ NestingInv
  BY <1>1, ParserInit, NestingInit
<1>3. phase = "parsing" /\ chunks = <<>> /\ stack = <<>> /\ freed = <<>>
  BY <1>1 DEF Init
<1>4. DOMAIN chunks = {} /\ Len(stack) = 0
  BY <1>3
<1>5. PICK cs, loose : cs = chunks /\ loose = {}
  OBVIOUS
<1>6. Forest(cs, loose)
  <2>1. DOMAIN cs = {}
    BY <1>4, <1>5
  <2> QED
    BY <1>5, <2>1 DEF Forest, PointsInto, Sole, Acyclic, Hung, Loose, Filled
<1>7. Spots(chunks, stack)
  BY <1>4 DEF Spots
<1>8. FreedOnce
  BY <1>3 DEF FreedOnce, IsInjective
<1> QED
  BY <1>2, <1>3, <1>5, <1>6, <1>7, <1>8 DEF DocumentInv, MemoryInv

(* Every step of the program keeps it: the parser's, a call of jse_get or  *)
(* jse_get_next, and jse_free.                                             *)
LEMMA DocumentStep == DocumentInv /\ [Next]_vars => DocumentInv'
<1> SUFFICES ASSUME DocumentInv, [Next]_vars PROVE DocumentInv'
  OBVIOUS
<1>1. ParserInv /\ NestingInv /\ MemoryInv
  BY DEF DocumentInv
<1>2. chunks \in Seq(Chunk)
  BY <1>1 DEF ParserInv, ParserTypeOK
<1>3. CASE Parse
  <2>1. ParserNext
    BY <1>3 DEF Parse
  <2> QED
    BY <1>1, <2>1, ParserStep, NestingStep, ParserFrees DEF DocumentInv
<1>4. CASE Get \/ GetNext
  <2>1. /\ SameTree(chunks', chunks) /\ phase = "accepted"
        /\ UNCHANGED <<phase, input, st, stack, prevType, expect, freed>>
    BY <1>2, <1>4, GetKeepsTree
  <2>2. chunks' \in Seq(Chunk) /\ Len(chunks') = Len(chunks)
    BY <2>1 DEF SameTree
  <2>3. ParserInv'
    BY <1>1, <2>1, <2>2 DEF ParserInv, ParserTypeOK, StackOK, Top, Bare
  <2>4. NestingInv'
    BY <1>1, <2>1 DEF NestingInv, AcceptedIsNested
  <2>5. Forest(chunks', {})
    <3>1. Forest(chunks, {})
      BY <1>1, <2>1 DEF MemoryInv
    <3> QED
      BY <1>2, <2>1, <3>1, SameForest
  <2>6. MemoryInv'
    BY <1>1, <2>1, <2>5 DEF MemoryInv, FreedOnce
  <2> QED
    BY <2>3, <2>4, <2>6 DEF DocumentInv
<1>5. CASE Free
  <2>1. /\ phase = "accepted" /\ phase' = "closed" /\ freed' = Freed(chunks)
        /\ UNCHANGED <<input, chunks, st, stack, prevType, expect>>
    BY <1>5 DEF Free, Callable
  <2>2. ParserInv'
    BY <1>1, <2>1 DEF ParserInv, ParserTypeOK, StackOK, Top, Bare
  <2>3. NestingInv'
    BY <1>1, <2>1 DEF NestingInv, AcceptedIsNested
  <2>4. IsInjective(Freed(chunks)) /\ ToSet(Freed(chunks)) = DOMAIN chunks
    BY <1>1, <1>2, <2>1, AllFreed DEF MemoryInv
  <2>5. MemoryInv'
    BY <2>1, <2>4 DEF MemoryInv, FreedOnce
  <2> QED
    BY <2>2, <2>3, <2>5 DEF DocumentInv
<1>6. CASE UNCHANGED vars
  <2>1. UNCHANGED <<phase, input, chunks, st, stack, prevType, expect, freed>>
    BY <1>6 DEF vars
  <2>2. ParserInv'
    BY <1>1, <2>1 DEF ParserInv, ParserTypeOK, StackOK, Top, Bare
  <2>3. NestingInv'
    BY <1>1, <2>1 DEF NestingInv, AcceptedIsNested
  <2>4. MemoryInv'
    BY <1>1, <2>1 DEF MemoryInv, FreedOnce
  <2> QED
    BY <2>2, <2>3, <2>4 DEF DocumentInv
<1> QED
  BY <1>3, <1>4, <1>5, <1>6 DEF Next

(* Every chunk j_new_stuff gave out is given back at most once, whatever   *)
(* the file holds and whatever was asked of the document: all of them by   *)
(* jse_free, and after an error all but the container just opened.         *)
THEOREM FreesEachOnce == Spec => []FreedOnce
<1>1. DocumentInv => FreedOnce
  BY DEF DocumentInv, MemoryInv
<1> QED
  BY <1>1, DocumentInit, DocumentStep, PTL DEF Spec

(* Nor do the calls on the document move anything of the parser out of its *)
(* bounds: the memory keeps its size and its shape.                        *)
THEOREM CallsStayInside == Spec => []ParserTypeOK
<1>1. DocumentInv => ParserTypeOK
  BY DEF DocumentInv, ParserInv
<1> QED
  BY <1>1, DocumentInit, DocumentStep, PTL DEF Spec

(* A document that may be asked and closed is nested, in the whole program.*)
THEOREM AnswersOnlyNested == Spec => []AcceptedIsNested
<1>1. DocumentInv => AcceptedIsNested
  BY DEF DocumentInv, NestingInv
<1> QED
  BY <1>1, DocumentInit, DocumentStep, PTL DEF Spec

(* What j_free walks is a forest as long as it may be called: each pointer *)
(* leads to a chunk of the memory, no two to the same, none in a circle,   *)
(* and nothing hangs behind an unused slot, where j_free would not look.   *)
THEOREM MemoryIsForest == Spec => [](phase \in {"parsing", "accepted"} => Forest(chunks, {}))
<1>1. DocumentInv => (phase \in {"parsing", "accepted"} => Forest(chunks, {}))
  BY DEF DocumentInv, MemoryInv
<1> QED
  BY <1>1, DocumentInit, DocumentStep, PTL DEF Spec
=============================================================================
