------------------------- MODULE JsonDocumentProofs -------------------------
(***************************************************************************)
(* What jsense promises whoever gives it a document, for any size of chunk *)
(* and stack, any document and any calls of jse_get in between.            *)
(*                                                                         *)
(* BuildsTree: jsense implements the containers of JsonTree.  These append *)
(* to sequences; the code writes into the last chunk of a container and    *)
(* links a new one behind it when that is full.  So the proof follows the  *)
(* chunks of each container: own maps every chunk to the first one of its  *)
(* container, a chunk with a next one is full of complete elements, and    *)
(* each place on the stack is the end of an open container.  Then what a   *)
(* step writes is seen at the end of one container only, and it is what    *)
(* JsonTree appends there.                                                 *)
(*                                                                         *)
(* RefusesOnlyErrors: no JSON text is refused.  ReadingInv says it of each *)
(* text that begins with the input: its brackets close the containers on   *)
(* the stack, innermost first, and what comes next in the innermost one is *)
(* what prevType and expect admit.  Every token unfolds the grammar once,  *)
(* so no induction over texts is needed but the one that says that Ends,   *)
(* a recursive function, satisfies its own definition.                     *)
(***************************************************************************)
EXTENDS JsonDocument, JsonQueryProofs

-----------------------------------------------------------------------------
(* What is in a chunk.                                                     *)

\* The elements a slot may hold, and whether one is more than a waiting key.
Things == [key : Labels \cup {NoLabel, "true"}, has : {"nothing", "value", "container"}, value : Nat]
Done(slot) == slot.value # 0 \/ slot.sub # 0

\* The first n slots are used, and no more follow at once.
FilledTo(slots, n) ==
  /\ n \in 0 .. ChunkSize
  /\ \A m \in 0 .. n - 1 : Used(slots[m])
  /\ n # ChunkSize => ~Used(slots[n])

(* Some number of slots is used, up to the first that is not.              *)
LEMMA SomeFilled ==
  ASSUME NEW slots
  PROVE  \E n : FilledTo(slots, n)
<1>1. ChunkSize \in Nat \ {0}
  BY ConstantsAssumption
<1> SUFFICES ASSUME \A n : ~FilledTo(slots, n) PROVE FALSE
  OBVIOUS
<1>2. PICK top : top = ChunkSize
  OBVIOUS
<1> DEFINE G == {i \in 1 .. top : \A m \in 0 .. i - 1 : Used(slots[m])}
<1>3. 1 \in G
  <2>1. Used(slots[0])
    <3>1. ~FilledTo(slots, 0)
      OBVIOUS
    <3> QED
      BY <1>1, <3>1 DEF FilledTo
  <2> QED
    BY <1>1, <1>2, <2>1
<1>4. ASSUME NEW i \in 1 .. top - 1, i \in G
      PROVE  i + 1 \in G
  <2>1. ~FilledTo(slots, i)
    OBVIOUS
  <2>2. i \in 0 .. ChunkSize /\ i # ChunkSize /\ i + 1 \in 1 .. top
    BY <1>1, <1>2
  <2>3. Used(slots[i])
    BY <1>4, <2>1, <2>2 DEF FilledTo
  <2>4. \A m \in 0 .. i + 1 - 1 : m = i \/ m \in 0 .. i - 1
    BY <2>2
  <2>5. \A m \in 0 .. i - 1 : Used(slots[m])
    BY <1>4
  <2> QED
    BY <2>2, <2>3, <2>4, <2>5
<1>5. top \in G
  <2> HIDE DEF G
  <2>1. top \in Nat /\ top \in 1 .. top
    BY <1>1, <1>2
  <2>2. \A i \in 1 .. top - 1 : i \in G => i + 1 \in G
    BY <1>4
  <2>3. \A i \in 1 .. top : i \in G
    BY <1>3, <2>1, <2>2, CountingUp, Zenon
  <2> QED
    BY <2>1, <2>3
<1>6. FilledTo(slots, top)
  BY <1>1, <1>2, <1>5 DEF FilledTo
<1> QED
  BY <1>6

(* Filling counts them.                                                    *)
LEMMA FillingIs ==
  ASSUME NEW slots, NEW n, FilledTo(slots, n)
  PROVE  Filling(slots) = n
<1>1. n \in 0 .. ChunkSize /\ FilledTo(slots, n) /\ ChunkSize \in Nat \ {0}
  BY ConstantsAssumption DEF FilledTo
<1>2. ASSUME NEW k, FilledTo(slots, k)
      PROVE  k = n
  <2>1. k \in 0 .. ChunkSize
    BY <1>2 DEF FilledTo
  <2>2. CASE k < n
    <3>1. k \in 0 .. n - 1 /\ k # ChunkSize
      BY <1>1, <2>1, <2>2
    <3> QED
      BY <1>1, <1>2, <3>1 DEF FilledTo
  <2>3. CASE n < k
    <3>1. n \in 0 .. k - 1 /\ n # ChunkSize
      BY <1>1, <2>1, <2>3
    <3> QED
      BY <1>1, <1>2, <3>1 DEF FilledTo
  <2> QED
    BY <1>1, <2>1, <2>2, <2>3
<1>3. PICK k : k = Filling(slots)
  OBVIOUS
<1>4. FilledTo(slots, k)
  <2>1. /\ k \in 0 .. ChunkSize
        /\ \A m \in 0 .. k - 1 : Used(slots[m])
        /\ k # ChunkSize => ~Used(slots[k])
    BY <1>1, <1>3, Zenon DEF Filling, FilledTo
  <2> QED
    BY <2>1 DEF FilledTo
<1> QED
  BY <1>2, <1>3, <1>4

LEMMA HeldType ==
  ASSUME NEW slot \in Slot
  PROVE  /\ Held(slot) \in Things
         /\ Held(slot).key = slot.key
         /\ Held(slot).has = "nothing" <=> ~Done(slot)
<1>1. slot.key \in Labels \cup {NoLabel, "true"} /\ slot.value \in Nat /\ slot.sub \in Nat
  BY DEF Slot
<1>2. CASE slot.value # 0
  BY <1>1, <1>2 DEF Held, Things, Done
<1>3. CASE slot.value = 0 /\ slot.sub # 0
  BY <1>1, <1>3 DEF Held, Things, Done
<1>4. CASE slot.value = 0 /\ slot.sub = 0
  BY <1>1, <1>4 DEF Held, Things, Done
<1> QED
  BY <1>2, <1>3, <1>4

LEMMA InChunkIs ==
  ASSUME NEW slots \in [0 .. ChunkSize - 1 -> Slot], NEW n, FilledTo(slots, n)
  PROVE  /\ InChunkOf(slots) \in Seq(Things) /\ Len(InChunkOf(slots)) = n /\ n \in Nat
         /\ \A i \in 1 .. n : InChunkOf(slots)[i] = Held(slots[i - 1])
<1>1. n \in Nat /\ n <= ChunkSize /\ ChunkSize \in Nat
  BY ConstantsAssumption DEF FilledTo
<1>2. InChunkOf(slots) = [i \in 1 .. n |-> Held(slots[i - 1])]
  BY FillingIs DEF InChunkOf
<1>3. \A i \in 1 .. n : i - 1 \in 0 .. ChunkSize - 1
  BY <1>1
<1>4. \A i \in 1 .. n : Held(slots[i - 1]) \in Things
  <2> TAKE i \in 1 .. n
  <2>1. slots[i - 1] \in Slot
    BY <1>3
  <2> QED
    BY <2>1, HeldType
<1>5. PICK s : s = [i \in 1 .. n |-> Held(slots[i - 1])]
  OBVIOUS
<1>6. s \in [1 .. n -> Things] /\ \A i \in 1 .. n : s[i] = Held(slots[i - 1])
  BY <1>4, <1>5
<1>7. s \in Seq(Things) /\ Len(s) = n
  BY <1>1, <1>6
<1> QED
  BY <1>1, <1>2, <1>5, <1>6, <1>7

LEMMA InChunkType ==
  ASSUME NEW slots \in [0 .. ChunkSize - 1 -> Slot]
  PROVE  InChunkOf(slots) \in Seq(Things)
<1>1. PICK n : FilledTo(slots, n)
  BY SomeFilled
<1> QED
  BY <1>1, InChunkIs

-----------------------------------------------------------------------------
(* What is in a container.                                                 *)

\* The body of From, for a function f that says what is in the chunks behind.
StepFrom(cs, c, f) ==
  InChunkOf(cs[c].slots) \o (IF cs[c].next # 0 THEN f[cs[c].next] ELSE <<>>)

\* The next chunk, in a memory without circles.
Chained(cs) ==
  /\ \A c \in DOMAIN cs : cs[c].next \in {0} \cup DOMAIN cs
  /\ \A T \in SUBSET DOMAIN cs : T # {} => \E c \in T : cs[c].next \notin T

LEMMA ForestChained ==
  ASSUME NEW cs, NEW loose, Forest(cs, loose)
  PROVE  Chained(cs)
<1>1. \A c : ChunkSize \in Places /\ Points(cs, c, ChunkSize) = cs[c].next
  BY SlotPoints
<1>2. \A c \in DOMAIN cs : cs[c].next \in {0} \cup DOMAIN cs
  BY <1>1 DEF Forest, PointsInto
<1>3. \A T \in SUBSET DOMAIN cs : T # {} => \E c \in T : cs[c].next \notin T
  BY <1>1 DEF Forest, Acyclic
<1> QED
  BY <1>2, <1>3 DEF Chained

(* From satisfies its definition.                                          *)
LEMMA FromDef ==
  ASSUME NEW cs \in Seq(Chunk), Chained(cs)
  PROVE  \A c \in DOMAIN cs : From(cs)[c] = StepFrom(cs, c, From(cs))
<1> DEFINE D == DOMAIN cs
           Is(f, C) == f = [c \in C |-> StepFrom(cs, c, f)]
           Closed(C) == \A c \in C : cs[c].next \in {0} \cup C
           F == {T \in SUBSET D : Closed(D \ T) /\ \E f : Is(f, D \ T)}
<1>1. IsFiniteSet(D)
  <2>1. Len(cs) \in Nat /\ DOMAIN cs = 1 .. Len(cs)
    BY LenProperties
  <2> QED
    BY <2>1, FS_Interval
<1>2. D \in F
  <2>1. D \ D = {}
    OBVIOUS
  <2>2. Closed({})
    OBVIOUS
  <2>3. PICK f : f = [c \in {} |-> 0]
    OBVIOUS
  <2>4. Is(f, {})
    BY <2>3
  <2> HIDE DEF Is, Closed, D
  <2> QED
    BY <2>1, <2>2, <2>4
<1>3. PICK T \in F : \A U \in F : U \subseteq T => U = T
  <2>1. F \in SUBSET (SUBSET D) /\ F # {}
    <3> HIDE DEF Is, Closed, D
    <3> QED
      BY <1>2
  <2> HIDE DEF F, D
  <2> QED
    BY <1>1, <2>1, SmallestSet
<1>4. PICK f : T \in SUBSET D /\ Closed(D \ T) /\ Is(f, D \ T)
  <2> HIDE DEF Is, Closed, D
  <2> QED
    BY <1>3
<1>5. \A c \in D \ T : f[c] = StepFrom(cs, c, f)
  BY <1>4
<1>6. ASSUME T # {}
      PROVE  FALSE
  <2>1. PICK c \in T : cs[c].next \notin T
    BY <1>4, <1>6 DEF Chained
  <2>2. cs[c].next \in {0} \cup (D \ T)
    BY <1>4, <2>1 DEF Chained
  <2> DEFINE U == T \ {c}
  <2>3. U \in SUBSET D /\ U \subseteq T /\ U # T /\ D \ U = (D \ T) \cup {c} /\ c \notin D \ T
    BY <1>4, <2>1
  <2>4. Closed(D \ U)
    BY <1>4, <2>2, <2>3
  <2>5. PICK g : g = [x \in D \ U |-> IF x = c THEN StepFrom(cs, x, f) ELSE f[x]]
    OBVIOUS
  <2>6. \A x \in D \ T : g[x] = f[x]
    BY <2>3, <2>5
  <2>7. \A x \in D \ U : StepFrom(cs, x, f) = StepFrom(cs, x, g)
    <3> TAKE x \in D \ U
    <3>1. cs[x].next # 0 => f[cs[x].next] = g[cs[x].next]
      BY <1>4, <2>2, <2>3, <2>6
    <3> QED
      BY <3>1, Zenon DEF StepFrom
  <2>8. \A x \in D \ U : g[x] = StepFrom(cs, x, f)
    BY <1>5, <2>3, <2>5
  <2>9. g = [x \in D \ U |-> g[x]]
    BY <2>5
  <2>10. Is(g, D \ U)
    BY <2>7, <2>8, <2>9
  <2>11. U \in F
    <3> HIDE DEF Is, Closed, D, U
    <3> QED
      BY <2>3, <2>4, <2>10
  <2> QED
    <3> HIDE DEF F, U
    <3> QED
      BY <1>3, <2>3, <2>11
<1>7. \E h : Is(h, D)
  <2>1. D \ T = D
    BY <1>6
  <2> QED
    BY <1>4, <2>1
<1>8. PICK h : h = CHOOSE e : Is(e, D)
  OBVIOUS
<1>9. Is(h, D)
  <2> HIDE DEF Is
  <2> QED
    BY <1>7, <1>8, Zenon
<1>10. From(cs) = h
  BY <1>8 DEF From, StepFrom
<1> QED
  BY <1>9, <1>10

LEMMA FromType ==
  ASSUME NEW cs \in Seq(Chunk), Chained(cs)
  PROVE  \A c \in DOMAIN cs : From(cs)[c] \in Seq(Things)
<1> DEFINE f == From(cs)
           Bad == {c \in DOMAIN cs : f[c] \notin Seq(Things)}
<1> SUFFICES ASSUME Bad # {} PROVE FALSE
  OBVIOUS
<1>1. PICK c \in Bad : cs[c].next \notin Bad
  BY DEF Chained
<1>2. f[c] = StepFrom(cs, c, f)
  BY <1>1, FromDef
<1>3. PICK a, b : a = InChunkOf(cs[c].slots) /\ b = IF cs[c].next # 0 THEN f[cs[c].next] ELSE <<>>
  OBVIOUS
<1>4. a \in Seq(Things)
  <2>1. cs[c] \in Chunk
    BY <1>1, LenProperties, ElementOfSeq
  <2>2. cs[c].slots \in [0 .. ChunkSize - 1 -> Slot]
    BY <2>1 DEF Chunk
  <2> QED
    BY <1>3, <2>2, InChunkType
<1>5. b \in Seq(Things)
  BY <1>1, <1>3 DEF Chained
<1>6. f[c] = a \o b
  BY <1>2, <1>3 DEF StepFrom
<1>7. a \o b \in Seq(Things)
  BY <1>4, <1>5, ConcatProperties
<1> QED
  BY <1>1, <1>6, <1>7

-----------------------------------------------------------------------------
(* What is put into a container.                                           *)

\* The elements q but for a key that waits for its value, and that key.
WithoutKey(q) == Tree!Settled(q)
KeyOf(q) == IF Tree!Waiting(q) THEN q[Len(q)].key ELSE NoLabel

\* Elements of which the last does not wait for anything.
Whole(p) == p # <<>> => p[Len(p)].has # "nothing"

\* Behind the complete elements of x the next slot is written in y.
NextWritten(x, y, pos) ==
  /\ \A m \in 0 .. pos - 1 : Done(x[m])
  /\ ~Done(x[pos])
  /\ \A m \in pos + 1 .. ChunkSize - 1 : ~Used(x[m])
  /\ \A m \in 0 .. ChunkSize - 1 : m # pos => y[m] = x[m]
  /\ Used(y[pos])

\* With y instead of x behind the elements p, one more is there.
OneMoreBehind(p, x, y, pos) ==
  /\ p \o InChunkOf(y) = Append(WithoutKey(p \o InChunkOf(x)), Held(y[pos]))
  /\ KeyOf(p \o InChunkOf(x)) = x[pos].key

(* The last chunk of a container, behind elements that are complete, has   *)
(* pos complete ones and perhaps a waiting key; when the slot behind them  *)
(* is written, the key that waits there is replaced or completed.          *)
LEMMA SlotSettled ==
  ASSUME NEW p \in Seq(Things), Whole(p),
         NEW x \in [0 .. ChunkSize - 1 -> Slot], NEW y \in [0 .. ChunkSize - 1 -> Slot],
         NEW pos \in 0 .. ChunkSize - 1, NextWritten(x, y, pos)
  PROVE  OneMoreBehind(p, x, y, pos)
<1>0. /\ \A m \in 0 .. pos - 1 : Done(x[m])
      /\ ~Done(x[pos])
      /\ \A m \in pos + 1 .. ChunkSize - 1 : ~Used(x[m])
      /\ \A m \in 0 .. ChunkSize - 1 : m # pos => y[m] = x[m]
      /\ Used(y[pos])
      /\ p # <<>> => p[Len(p)].has # "nothing"
  BY DEF NextWritten, Whole
<1>1. PICK size, l : size = ChunkSize /\ l = Len(p)
  OBVIOUS
<1>2. size \in Nat \ {0} /\ l \in Nat /\ pos \in 0 .. size - 1 /\ pos \in Nat
  BY <1>1, ConstantsAssumption, LenProperties
<1>3. PICK n : n = IF Used(x[pos]) THEN pos + 1 ELSE pos
  OBVIOUS
<1>4. n \in {pos, pos + 1} /\ n \in Nat
  BY <1>2, <1>3
<1>5. FilledTo(x, n)
  <2>1. n \in 0 .. ChunkSize
    BY <1>1, <1>2, <1>4
  <2>2. \A m \in 0 .. n - 1 : Used(x[m])
    <3>1. \A m \in 0 .. n - 1 : m \in 0 .. pos - 1 \/ (m = pos /\ n = pos + 1)
      BY <1>2, <1>4
    <3>2. n = pos + 1 => Used(x[pos])
      BY <1>2, <1>3
    <3> QED
      BY <1>0, <3>1, <3>2 DEF Done, Used
  <2>3. n # ChunkSize => ~Used(x[n])
    <3>1. CASE n = pos
      BY <1>2, <1>3, <3>1
    <3>2. CASE n = pos + 1
      <4>1. n # ChunkSize => n \in pos + 1 .. ChunkSize - 1
        BY <1>1, <1>2, <3>2
      <4> QED
        BY <1>0, <4>1
    <3> QED
      BY <1>4, <3>1, <3>2
  <2> QED
    BY <2>1, <2>2, <2>3 DEF FilledTo
<1>6. FilledTo(y, pos + 1)
  <2>1. pos + 1 \in 0 .. ChunkSize
    BY <1>1, <1>2
  <2>2. \A m \in 0 .. pos + 1 - 1 : Used(y[m])
    <3>1. \A m \in 0 .. pos + 1 - 1 : m = pos \/ (m \in 0 .. pos - 1 /\ m \in 0 .. ChunkSize - 1 /\ m # pos)
      BY <1>1, <1>2
    <3> QED
      BY <1>0, <3>1 DEF Done, Used
  <2>3. pos + 1 # ChunkSize => ~Used(y[pos + 1])
    <3>1. pos + 1 # ChunkSize =>
            pos + 1 \in pos + 1 .. ChunkSize - 1 /\ pos + 1 \in 0 .. ChunkSize - 1 /\ pos + 1 # pos
      BY <1>1, <1>2
    <3> QED
      BY <1>0, <3>1
  <2> QED
    BY <2>1, <2>2, <2>3 DEF FilledTo
<1>7. PICK a, b : a = InChunkOf(x) /\ b = InChunkOf(y)
  OBVIOUS
<1>8. a \in Seq(Things) /\ Len(a) = n /\ \A i \in 1 .. n : a[i] = Held(x[i - 1])
  BY <1>5, <1>7, InChunkIs
<1>22. PICK k : k = pos + 1
  OBVIOUS
<1>23. k \in Nat \ {0} /\ k - 1 = pos /\ l + k \in Nat /\ l + k - l = k /\ l + k = l + pos + 1
  BY <1>2, <1>22
<1>9. b \in Seq(Things) /\ Len(b) = k /\ \A i \in 1 .. k : b[i] = Held(y[i - 1])
  BY <1>6, <1>7, <1>22, InChunkIs
<1>10. PICK q, r : q = p \o a /\ r = p \o b
  OBVIOUS
<1>11. /\ q \in Seq(Things) /\ Len(q) = l + n
       /\ \A i \in 1 .. l + n : q[i] = IF i <= l THEN p[i] ELSE a[i - l]
  BY <1>1, <1>8, <1>10, ConcatProperties
<1>12. /\ r \in Seq(Things) /\ Len(r) = l + k
       /\ \A i \in 1 .. l + k : r[i] = IF i <= l THEN p[i] ELSE b[i - l]
  BY <1>1, <1>9, <1>10, ConcatProperties
<1>13. \A i \in 1 .. pos : a[i] = b[i]
  <2> TAKE i \in 1 .. pos
  <2>1. i \in 1 .. n /\ i \in 1 .. k /\ i - 1 \in 0 .. ChunkSize - 1 /\ i - 1 # pos
    BY <1>1, <1>2, <1>4, <1>22
  <2>2. y[i - 1] = x[i - 1]
    BY <1>0, <2>1
  <2> QED
    BY <1>8, <1>9, <2>1, <2>2
<1>14. \A i \in 1 .. l + pos : q[i] = r[i]
  <2> TAKE i \in 1 .. l + pos
  <2>1. i \in 1 .. l + n /\ i \in 1 .. l + k
    BY <1>2, <1>4, <1>22
  <2>2. i <= l \/ i - l \in 1 .. pos
    BY <1>2
  <2> QED
    BY <1>11, <1>12, <1>13, <2>1, <2>2
<1>15. r[l + k] = Held(y[pos])
  <2>1. l + k \in 1 .. l + k /\ ~(l + k <= l) /\ k \in 1 .. k
    BY <1>2, <1>23
  <2>2. r[l + k] = b[k]
    <3>1. PICK j : j = l + k
      OBVIOUS
    <3>2. j \in 1 .. l + k /\ ~(j <= l) /\ j - l = k
      BY <1>2, <1>23, <2>1, <3>1
    <3>3. r[j] = b[j - l]
      BY <1>12, <3>2
    <3> QED
      BY <3>1, <3>2, <3>3
  <2>3. b[k] = Held(y[k - 1])
    BY <1>9, <2>1
  <2> QED
    BY <1>23, <2>2, <2>3
<1>16. /\ Held(x[pos]).has = "nothing" /\ Held(x[pos]).key = x[pos].key
       /\ \A m \in 0 .. pos - 1 : Held(x[m]).has # "nothing"
  <2>1. \A m \in 0 .. pos - 1 : m \in 0 .. ChunkSize - 1
    BY <1>1, <1>2
  <2>2. x[pos] \in Slot /\ \A m \in 0 .. pos - 1 : x[m] \in Slot
    BY <2>1
  <2> QED
    BY <1>0, <2>2, HeldType
<1>17. PICK w : w = WithoutKey(q)
  OBVIOUS
<1>18. /\ w \in Seq(Things) /\ Len(w) = l + pos
       /\ \A i \in 1 .. l + pos : w[i] = q[i]
       /\ (IF Tree!Waiting(q) THEN q[Len(q)].key ELSE NoLabel) = x[pos].key
  <2>1. CASE Used(x[pos])
    <3>1. n = k /\ Len(q) = l + k
      BY <1>3, <1>11, <1>22, <2>1
    <3>2. q[Len(q)] = Held(x[pos])
      <4>1. l + k \in 1 .. l + k /\ ~(l + k <= l) /\ k \in 1 .. k
        BY <1>2, <1>23
      <4>2. q[l + k] = a[k]
        <5>1. PICK j : j = l + k
          OBVIOUS
        <5>2. j \in 1 .. l + n /\ ~(j <= l) /\ j - l = k
          BY <1>2, <1>23, <3>1, <4>1, <5>1
        <5>3. q[j] = a[j - l]
          BY <1>11, <5>2
        <5> QED
          BY <5>1, <5>2, <5>3
      <4>3. a[k] = Held(x[k - 1])
        BY <1>8, <3>1, <4>1
      <4> QED
        BY <1>23, <3>1, <4>2, <4>3
    <3>3. q # <<>>
      <4>1. Len(q) # 0
        BY <1>2, <1>23, <3>1
      <4> QED
        BY <4>1
    <3>4. Tree!Waiting(q)
      BY <1>16, <3>2, <3>3 DEF Tree!Waiting
    <3>5. w = SubSeq(q, 1, Len(q) - 1)
      BY <1>17, <3>4 DEF WithoutKey, Tree!Settled
    <3>6. Len(q) - 1 = l + pos /\ l + pos \in Nat /\ l + pos <= Len(q)
      BY <1>2, <1>23, <3>1
    <3>7. /\ SubSeq(q, 1, l + pos) \in Seq(Things) /\ Len(SubSeq(q, 1, l + pos)) = l + pos
          /\ \A i \in 1 .. l + pos : SubSeq(q, 1, l + pos)[i] = q[i]
      BY <1>11, <3>6, WithoutLast
    <3> QED
      BY <1>16, <3>2, <3>4, <3>5, <3>6, <3>7
  <2>2. CASE ~Used(x[pos])
    <3>1. n = pos /\ Len(q) = l + pos
      BY <1>3, <1>11, <2>2
    <3>2. ASSUME q # <<>>
          PROVE  q[Len(q)].has # "nothing"
      <4>1. Len(q) # 0
        BY <1>11, <3>2, EmptySeq
      <4>2. CASE pos = 0
        <5>1. p # <<>> /\ l \in 1 .. l + n /\ l <= l /\ Len(q) = l
          BY <1>1, <1>2, <3>1, <4>1, <4>2
        <5>2. q[l] = p[l]
          BY <1>11, <5>1
        <5> QED
          BY <1>0, <1>1, <5>1, <5>2
      <4>3. CASE pos # 0
        <5>1. /\ l + n \in 1 .. l + n /\ ~(l + n <= l) /\ l + n - l = pos
              /\ pos \in 1 .. n /\ pos - 1 \in 0 .. pos - 1
          BY <1>2, <3>1, <4>3
        <5>2. q[l + n] = a[pos]
          <6>1. PICK j : j = l + n
            OBVIOUS
          <6>2. j \in 1 .. l + n /\ ~(j <= l) /\ j - l = pos
            BY <1>2, <1>4, <5>1, <6>1
          <6>3. q[j] = a[j - l]
            BY <1>11, <6>2
          <6> QED
            BY <6>1, <6>2, <6>3
        <5>3. a[pos] = Held(x[pos - 1])
          BY <1>8, <5>1
        <5> QED
          BY <1>11, <1>16, <5>1, <5>2, <5>3
      <4> QED
        BY <4>2, <4>3
    <3>3. ~Tree!Waiting(q)
      BY <3>2 DEF Tree!Waiting
    <3>4. w = q
      BY <1>17, <3>3 DEF WithoutKey, Tree!Settled
    <3>5. x[pos].key = NoLabel
      BY <2>2 DEF Used
    <3> QED
      BY <1>11, <3>1, <3>3, <3>4, <3>5
  <2> QED
    BY <2>1, <2>2
<1>19. PICK e, v : e = Held(y[pos]) /\ v = Append(w, e)
  OBVIOUS
<1>20. /\ v \in Seq(Things) /\ Len(v) = l + pos + 1
       /\ \A i \in 1 .. l + pos : v[i] = w[i]
       /\ v[l + pos + 1] = e
  <2>1. e \in Things
    <3>1. y[pos] \in Slot
      OBVIOUS
    <3> QED
      BY <1>19, <3>1, HeldType
  <2> QED
    BY <1>18, <1>19, <2>1, AppendProperties
<1>21. r = v
  <2>1. Len(r) = Len(v) /\ Len(r) \in Nat /\ Len(r) = l + k
    BY <1>12, <1>20, <1>23
  <2>2. \A i \in 1 .. Len(r) : r[i] = v[i]
    <3>1. \A i \in 1 .. Len(r) : i \in 1 .. l + pos \/ i = l + pos + 1
      BY <1>2, <1>23, <2>1
    <3>2. r[l + pos + 1] = v[l + pos + 1]
      BY <1>15, <1>19, <1>20, <1>23
    <3>3. \A i \in 1 .. l + pos : r[i] = v[i]
      BY <1>14, <1>18, <1>20
    <3> QED
      BY <3>1, <3>2, <3>3
  <2> QED
    BY <1>12, <1>20, <2>1, <2>2, SeqEqual
<1>24. p \o InChunkOf(y) = Append(WithoutKey(p \o InChunkOf(x)), Held(y[pos]))
  BY <1>7, <1>10, <1>17, <1>19, <1>21
<1>25. KeyOf(p \o InChunkOf(x)) = x[pos].key
  BY <1>7, <1>10, <1>18, Zenon DEF KeyOf
<1> QED
  BY <1>24, <1>25, Zenon DEF OneMoreBehind

-----------------------------------------------------------------------------
(* Containers in the memory.                                               *)

\* A chunk that has a next one is full of complete elements.
Full(cs) ==
  \A c \in DOMAIN cs : cs[c].next # 0 => \A m \in 0 .. ChunkSize - 1 : Done(cs[c].slots[m])

\* own says for each chunk in which container it is; each container ends once.
Owned(cs, own) ==
  /\ own \in [DOMAIN cs -> Firsts(cs)]
  /\ \A f \in Firsts(cs) : own[f] = f
  /\ \A c \in DOMAIN cs : cs[c].next # 0 => own[cs[c].next] = own[c]
  /\ \A c, d \in DOMAIN cs : cs[c].next = 0 /\ cs[d].next = 0 /\ own[c] = own[d] => c = d

\* Where the next value of a container goes: behind complete elements, with no
\* more than a key there and nothing after it.
Tidy(cs, at, pos) ==
  /\ \A m \in 0 .. pos - 1 : Done(cs[at].slots[m])
  /\ pos < ChunkSize => ~Done(cs[at].slots[pos])
  /\ \A m \in pos + 1 .. ChunkSize - 1 : ~Used(cs[at].slots[m])

\* es is cs but for the last chunk of one container.
OnlyEnd(es, cs, at) ==
  /\ DOMAIN es = DOMAIN cs /\ at \in DOMAIN cs
  /\ cs[at].next = 0 /\ es[at].next = 0
  /\ \A d \in DOMAIN cs : d # at => es[d] = cs[d]

\* From c the end of the container at at is seen, behind complete elements.
SeesEnd(cs, es, c, at) ==
  \E p \in Seq(Things) :
    /\ p # <<>> => p[Len(p)].has # "nothing"
    /\ From(cs)[c] = p \o InChunkOf(cs[at].slots)
    /\ From(es)[c] = p \o InChunkOf(es[at].slots)

\* es is cs and behind it a new chunk n.
Lengthened(es, cs, n) ==
  /\ n = Len(cs) + 1 /\ Len(es) = n /\ es[n] = NewChunk
  /\ \A d \in 1 .. Len(cs) : es[d] = cs[d]

\* n is a container with nothing in it, and the others are as they were.
EmptyAlso(es, cs, n) ==
  /\ Firsts(es) = Firsts(cs) \cup {n} /\ n \notin Firsts(cs)
  /\ \A f \in Firsts(cs) : Contents(es)[f] = Contents(cs)[f]
  /\ Contents(es)[n] = <<>>

\* A new chunk n became the next one of the chunk at.
Linked(es, cs, at, n) ==
  /\ at \in 1 .. Len(cs) /\ cs[at].next = 0
  /\ n = Len(cs) + 1 /\ Len(es) = n
  /\ es[n] = NewChunk /\ es[at].next = n /\ es[at].slots = cs[at].slots
  /\ \A d \in 1 .. Len(cs) : d # at => es[d] = cs[d]

\* The chunks of cs stay in their containers, and chunk n is in container f.
OwnedAlso(es, cs, own, n, f) ==
  \E more : Owned(es, more) /\ more[n] = f /\ \A c \in DOMAIN cs : more[c] = own[c]

(* A full chunk of complete elements ends with one.                        *)
LEMMA FullEnds ==
  ASSUME NEW slots \in [0 .. ChunkSize - 1 -> Slot],
         \A m \in 0 .. ChunkSize - 1 : Done(slots[m])
  PROVE  LET a == InChunkOf(slots)
         IN  a \in Seq(Things) /\ Len(a) \in Nat \ {0} /\ a[Len(a)].has # "nothing"
<1>1. PICK n : n = ChunkSize
  OBVIOUS
<1>2. n \in Nat \ {0} /\ n \in 1 .. n /\ n - 1 \in 0 .. n - 1
  BY <1>1, ConstantsAssumption
<1>3. FilledTo(slots, n)
  BY <1>1, <1>2 DEF FilledTo, Done, Used
<1>4. PICK a : a = InChunkOf(slots)
  OBVIOUS
<1>5. a \in Seq(Things) /\ Len(a) = n /\ \A i \in 1 .. n : a[i] = Held(slots[i - 1])
  BY <1>3, <1>4, InChunkIs
<1>6. a[n] = Held(slots[n - 1])
  BY <1>2, <1>5
<1>7. slots[n - 1] \in Slot /\ Done(slots[n - 1])
  BY <1>1, <1>2
<1>8. Held(slots[n - 1]).has # "nothing"
  BY <1>7, HeldType
<1> QED
  BY <1>2, <1>4, <1>5, <1>6, <1>8

(* Nothing is in a new chunk.                                              *)
LEMMA NothingInNew == InChunkOf(NewChunk.slots) = <<>>
<1>1. ChunkSize \in Nat \ {0}
  BY ConstantsAssumption
<1>2. NewChunk.slots \in [0 .. ChunkSize - 1 -> Slot]
  BY NewChunkType DEF Chunk
<1>3. NewChunk.slots[0] = EmptySlot
  BY <1>1 DEF NewChunk
<1>4. FilledTo(NewChunk.slots, 0)
  BY <1>1, <1>3 DEF FilledTo, Used, EmptySlot
<1>5. InChunkOf(NewChunk.slots) \in Seq(Things) /\ Len(InChunkOf(NewChunk.slots)) = 0
  BY <1>2, <1>4, InChunkIs
<1> QED
  BY <1>5, EmptySeq

(* When the last chunk of a container changes, every chunk of the          *)
(* container sees it at its end, behind complete elements, and no other    *)
(* chunk does.                                                             *)
LEMMA ChangedAtEnd ==
  ASSUME NEW cs \in Seq(Chunk), Chained(cs), Full(cs), NEW own, Owned(cs, own),
         NEW es \in Seq(Chunk), Chained(es), NEW at, OnlyEnd(es, cs, at)
  PROVE  \A c \in DOMAIN cs :
           /\ own[c] = own[at] => SeesEnd(cs, es, c, at)
           /\ own[c] # own[at] => From(es)[c] = From(cs)[c]
<1>7. /\ DOMAIN es = DOMAIN cs /\ at \in DOMAIN cs
      /\ cs[at].next = 0 /\ es[at].next = 0
      /\ \A d \in DOMAIN cs : d # at => es[d] = cs[d]
  BY DEF OnlyEnd
<1>1. PICK f, g, x, y : /\ f = From(cs) /\ g = From(es)
                        /\ x = InChunkOf(cs[at].slots) /\ y = InChunkOf(es[at].slots)
  OBVIOUS
<1>2. \A c \in DOMAIN cs : f[c] = StepFrom(cs, c, f) /\ g[c] = StepFrom(es, c, g)
  BY <1>1, <1>7, FromDef
<1>3. \A c \in DOMAIN cs : cs[c] \in Chunk /\ es[c] \in Chunk
  BY <1>7, LenProperties, ElementOfSeq
<1>4. x \in Seq(Things) /\ y \in Seq(Things)
  <2>1. cs[at] \in Chunk /\ es[at] \in Chunk
    BY <1>3, <1>7
  <2>2. cs[at].slots \in [0 .. ChunkSize - 1 -> Slot] /\ es[at].slots \in [0 .. ChunkSize - 1 -> Slot]
    BY <2>1 DEF Chunk
  <2> QED
    BY <1>1, <2>2, InChunkType
<1> DEFINE Grows(c) == \E p \in Seq(Things) :
                        /\ p # <<>> => p[Len(p)].has # "nothing"
                        /\ f[c] = p \o x /\ g[c] = p \o y
           Good(c) == (own[c] = own[at] => Grows(c)) /\ (own[c] # own[at] => g[c] = f[c])
           Bad == {c \in DOMAIN cs : ~Good(c)}
<1>5. ASSUME Bad # {}
      PROVE  FALSE
  <2>1. PICK c \in Bad : cs[c].next \notin Bad
    BY <1>5 DEF Chained
  <2>2. c \in DOMAIN cs /\ ~Good(c)
    BY <2>1
  <2>3. PICK n : n = cs[c].next
    OBVIOUS
  <2>4. n # 0 => n \in DOMAIN cs /\ Good(n) /\ own[n] = own[c]
    BY <2>1, <2>2, <2>3 DEF Chained, Owned
  <2>5. CASE c = at
    <3>1. f[at] = x \o <<>> /\ g[at] = y \o <<>>
      BY <1>1, <1>2, <1>7 DEF StepFrom
    <3>2. f[at] = <<>> \o x /\ g[at] = <<>> \o y
      BY <1>4, <3>1, ConcatEmptySeq
    <3>3. <<>> \in Seq(Things)
      BY EmptySeq
    <3>4. Grows(at)
      BY <3>2, <3>3
    <3> QED
      BY <2>2, <2>5, <3>4
  <2>6. CASE c # at
    <3>1. es[c] = cs[c]
      BY <1>7, <2>2, <2>6
    <3>2. PICK a : a = InChunkOf(cs[c].slots)
      OBVIOUS
    <3>3. a \in Seq(Things)
      <4>1. cs[c] \in Chunk
        BY <1>3, <2>2
      <4>2. cs[c].slots \in [0 .. ChunkSize - 1 -> Slot]
        BY <4>1 DEF Chunk
      <4> QED
        BY <3>2, <4>2, InChunkType
    <3>4. CASE n = 0
      <4>1. f[c] = a \o <<>> /\ g[c] = a \o <<>>
        BY <1>2, <2>2, <2>3, <3>1, <3>2, <3>4 DEF StepFrom
      <4>2. own[c] # own[at]
        BY <1>7, <2>2, <2>3, <2>6, <3>4 DEF Owned
      <4> QED
        BY <2>2, <4>1, <4>2
    <3>5. CASE n # 0
      <4>1. f[c] = a \o f[n] /\ g[c] = a \o g[n]
        BY <1>2, <2>2, <2>3, <3>1, <3>2, <3>5 DEF StepFrom
      <4>2. CASE own[c] # own[at]
        BY <2>2, <2>4, <3>5, <4>1, <4>2
      <4>3. CASE own[c] = own[at]
        <5>1. Grows(n)
          BY <2>4, <3>5, <4>3
        <5>2. PICK p \in Seq(Things) : /\ p # <<>> => p[Len(p)].has # "nothing"
                                       /\ f[n] = p \o x /\ g[n] = p \o y
          BY <5>1
        <5>3. PICK q : q = a \o p
          OBVIOUS
        <5>4. q \in Seq(Things) /\ f[c] = q \o x /\ g[c] = q \o y
          <6>5. a \in Seq(Things) /\ p \in Seq(Things)
            BY <3>3
          <6>4. ASSUME NEW z \in Seq(Things)
                PROVE  (a \o p) \o z = a \o (p \o z)
            BY <6>5, ConcatAssociative, SMTT(20)
          <6>1. (a \o p) \o x = a \o (p \o x)
            BY <1>4, <6>4
          <6>3. (a \o p) \o y = a \o (p \o y)
            BY <1>4, <6>4
          <6>2. a \o p \in Seq(Things)
            BY <3>3, ConcatProperties
          <6> QED
            BY <4>1, <5>2, <5>3, <6>1, <6>2, <6>3
        <5>5. Len(a) \in Nat \ {0} /\ a[Len(a)].has # "nothing"
          <6>1. cs[c] \in Chunk
            BY <1>3, <2>2
          <6>2. cs[c].slots \in [0 .. ChunkSize - 1 -> Slot]
            BY <6>1 DEF Chunk
          <6>3. \A m \in 0 .. ChunkSize - 1 : Done(cs[c].slots[m])
            BY <2>2, <2>3, <3>5 DEF Full
          <6> QED
            BY <3>2, <6>2, <6>3, FullEnds
        <5>6. q # <<>> => q[Len(q)].has # "nothing"
          <6>1. PICK k, l : k = Len(a) /\ l = Len(p)
            OBVIOUS
          <6>2. k \in Nat \ {0} /\ l \in Nat
            BY <5>5, <6>1, LenProperties
          <6>3. /\ Len(q) = k + l
                /\ \A i \in 1 .. k + l : q[i] = IF i <= k THEN a[i] ELSE p[i - k]
            BY <3>3, <5>3, <6>1, ConcatProperties
          <6>4. CASE l = 0
            <7>1. k + l = k /\ k \in 1 .. k + l /\ k <= k
              BY <6>2, <6>4
            <7> QED
              BY <5>5, <6>1, <6>3, <7>1
          <6>5. CASE l # 0
            <7>1. p # <<>>
              BY <6>1, <6>5
            <7>2. PICK j : j = k + l
              OBVIOUS
            <7>3. j \in 1 .. k + l /\ ~(j <= k) /\ j - k = l
              BY <6>2, <6>5, <7>2
            <7>4. q[j] = p[j - k]
              BY <6>3, <7>3
            <7> QED
              BY <5>2, <6>1, <6>3, <7>1, <7>2, <7>3, <7>4
          <6> QED
            BY <6>4, <6>5
        <5>7. Grows(c)
          BY <5>4, <5>6
        <5> QED
          BY <2>2, <4>3, <5>7
      <4> QED
        BY <4>2, <4>3
    <3> QED
      BY <3>4, <3>5
  <2> QED
    BY <2>5, <2>6
<1>6. \A c \in DOMAIN cs : Good(c)
  BY <1>5
<1> QED
  BY <1>1, <1>6 DEF SeesEnd

(* As long as the next chunks stay the same, so do the containers.         *)
LEMMA SameChains ==
  ASSUME NEW cs, NEW es, DOMAIN es = DOMAIN cs, \A d \in DOMAIN cs : es[d].next = cs[d].next
  PROVE  /\ Firsts(es) = Firsts(cs)
         /\ Chained(cs) => Chained(es)
         /\ \A own : Owned(cs, own) => Owned(es, own)
<1>1. Firsts(es) = Firsts(cs)
  BY DEF Firsts
<1>2. Chained(cs) => Chained(es)
  BY DEF Chained
<1>3. \A own : Owned(cs, own) => Owned(es, own)
  BY <1>1 DEF Owned
<1> QED
  BY <1>1, <1>2, <1>3

\* es is gs, but for one slot of a chunk, which is used (and for its count).
PutIn(es, gs, at, pos) ==
  /\ Len(es) = Len(gs) /\ es[at].next = gs[at].next
  /\ \A d \in 1 .. Len(gs) : d # at => es[d] = gs[d]
  /\ \A m \in 0 .. ChunkSize - 1 : m # pos => es[at].slots[m] = gs[at].slots[m]
  /\ Used(es[at].slots[pos])

\* The elements by container, when one more is put into container f.
PutInto(all, f, element) ==
  [c \in DOMAIN all |-> IF c = f THEN Append(WithoutKey(all[c]), element) ELSE all[c]]

(* A key, a value or a container is put into the last chunk of a container *)
(* at its place: the container gets that element, the others stay.         *)
LEMMA FilledIn ==
  ASSUME NEW cs \in Seq(Chunk), Chained(cs), Full(cs), NEW own, Owned(cs, own),
         NEW at \in DOMAIN cs, cs[at].next = 0, NEW pos \in 0 .. ChunkSize - 1, Tidy(cs, at, pos),
         NEW es \in Seq(Chunk), PutIn(es, cs, at, pos)
  PROVE  /\ Full(es) /\ Owned(es, own)
         /\ own[at] \in Firsts(cs)
         /\ Contents(es) = PutInto(Contents(cs), own[at], Held(es[at].slots[pos]))
         /\ KeyOf(Contents(cs)[own[at]]) = cs[at].slots[pos].key
<1>0. /\ DOMAIN es = DOMAIN cs /\ es[at].next = 0
      /\ \A d \in DOMAIN cs : d # at => es[d] = cs[d]
      /\ \A m \in 0 .. ChunkSize - 1 : m # pos => es[at].slots[m] = cs[at].slots[m]
      /\ Used(es[at].slots[pos])
  BY LenProperties DEF PutIn
<1>1. \A d \in DOMAIN cs : es[d].next = cs[d].next
  BY <1>0
<1>2. Firsts(es) = Firsts(cs) /\ Chained(es) /\ Owned(es, own)
  BY <1>0, <1>1, SameChains
<1>3. Full(es)
  BY <1>0 DEF Full
<1>4. own[at] \in Firsts(cs) /\ \A f \in Firsts(cs) : f \in DOMAIN cs /\ own[f] = f
  BY DEF Owned, Firsts
<1>5. \A f \in Firsts(cs) : Contents(cs)[f] = From(cs)[f] /\ Contents(es)[f] = From(es)[f]
  BY <1>2 DEF Contents
<1>18. OnlyEnd(es, cs, at)
  BY <1>0 DEF OnlyEnd
<1>6. \A c \in DOMAIN cs :
        /\ own[c] = own[at] => SeesEnd(cs, es, c, at)
        /\ own[c] # own[at] => From(es)[c] = From(cs)[c]
  BY <1>2, <1>18, ChangedAtEnd
<1>7. PICK f : f = own[at]
  OBVIOUS
<1>8. f \in Firsts(cs) /\ f \in DOMAIN cs /\ own[f] = own[at]
  BY <1>4, <1>7
<1>9. PICK p \in Seq(Things) :
        /\ p # <<>> => p[Len(p)].has # "nothing"
        /\ From(cs)[f] = p \o InChunkOf(cs[at].slots)
        /\ From(es)[f] = p \o InChunkOf(es[at].slots)
  BY <1>6, <1>8 DEF SeesEnd
<1>10. PICK x, y : x = cs[at].slots /\ y = es[at].slots
  OBVIOUS
<1>11. x \in [0 .. ChunkSize - 1 -> Slot] /\ y \in [0 .. ChunkSize - 1 -> Slot]
  <2>1. cs[at] \in Chunk /\ es[at] \in Chunk
    BY <1>0, LenProperties, ElementOfSeq
  <2> QED
    BY <1>10, <2>1 DEF Chunk
<1>12. PICK q : q = p \o InChunkOf(x)
  OBVIOUS
<1>13. /\ p \o InChunkOf(y) = Append(WithoutKey(q), Held(y[pos]))
       /\ KeyOf(q) = x[pos].key
  <2>1. NextWritten(x, y, pos)
    <3>1. pos < ChunkSize
      BY ConstantsAssumption
    <3> QED
      BY <1>0, <1>10, <3>1 DEF Tidy, NextWritten
  <2>2. Whole(p)
    BY <1>9 DEF Whole
  <2>3. OneMoreBehind(p, x, y, pos)
    BY <1>11, <2>1, <2>2, SlotSettled
  <2> QED
    BY <1>12, <2>3 DEF OneMoreBehind
<1>14. Contents(cs)[f] = q /\ Contents(es)[f] = Append(WithoutKey(q), Held(y[pos]))
  BY <1>5, <1>8, <1>9, <1>10, <1>12, <1>13
<1>15. \A e \in Firsts(cs) : e # f => Contents(es)[e] = Contents(cs)[e]
  BY <1>4, <1>5, <1>6, <1>7
<1>16. Contents(es) = PutInto(Contents(cs), own[at], Held(es[at].slots[pos]))
  <2>1. \A e \in Firsts(cs) :
          Contents(es)[e] = IF e = own[at]
                            THEN Append(WithoutKey(Contents(cs)[e]), Held(es[at].slots[pos]))
                            ELSE Contents(cs)[e]
    BY <1>7, <1>10, <1>14, <1>15
  <2>2. Contents(es) = [e \in Firsts(cs) |-> Contents(es)[e]] /\ DOMAIN Contents(cs) = Firsts(cs)
    BY <1>2 DEF Contents
  <2> QED
    BY <2>1, <2>2 DEF PutInto
<1>17. KeyOf(Contents(cs)[own[at]]) = cs[at].slots[pos].key
  BY <1>7, <1>10, <1>13, <1>14
<1> QED
  BY <1>2, <1>3, <1>4, <1>16, <1>17

(* A new chunk is a container of its own, with nothing in it.              *)
LEMMA OneMoreContainer ==
  ASSUME NEW cs \in Seq(Chunk), Chained(cs), Full(cs), NEW own, Owned(cs, own),
         NEW es \in Seq(Chunk), Chained(es), NEW n, Lengthened(es, cs, n)
  PROVE  Full(es) /\ EmptyAlso(es, cs, n) /\ OwnedAlso(es, cs, own, n, n)
<1>0. /\ n = Len(cs) + 1 /\ Len(es) = n /\ es[n] = NewChunk
      /\ \A d \in 1 .. Len(cs) : es[d] = cs[d]
  BY DEF Lengthened
<1>1. /\ DOMAIN cs = 1 .. Len(cs) /\ DOMAIN es = 1 .. n /\ Len(cs) \in Nat /\ n \in Nat \ {0}
      /\ n \notin 1 .. Len(cs) /\ \A d : d \in 1 .. n <=> d \in 1 .. Len(cs) \/ d = n
  BY <1>0, LenProperties
<1>2. es[n].next = 0
  BY <1>0, NewPointsNowhere
<1>3. \A d \in DOMAIN cs : es[d] = cs[d] /\ d \in DOMAIN es /\ d # n /\ cs[d].next # n
  BY <1>0, <1>1 DEF Chained
<1>4. DOMAIN es = DOMAIN cs \cup {n} /\ n \notin DOMAIN cs /\ n # 0
  BY <1>1
<1>5. Full(es)
  BY <1>2, <1>3, <1>4 DEF Full
<1>6. Firsts(es) = Firsts(cs) \cup {n} /\ n \notin Firsts(cs)
  <2>1. \A c \in DOMAIN cs : c # 0
    BY <1>1
  <2> QED
    BY <1>2, <1>3, <1>4, <2>1 DEF Firsts
<1>7. \A c \in DOMAIN cs : From(es)[c] = From(cs)[c]
  <2> DEFINE Bad == {c \in DOMAIN cs : From(es)[c] # From(cs)[c]}
  <2> SUFFICES ASSUME Bad # {} PROVE FALSE
    OBVIOUS
  <2>1. PICK c \in Bad : cs[c].next \notin Bad
    BY DEF Chained
  <2>2. From(cs)[c] = StepFrom(cs, c, From(cs)) /\ From(es)[c] = StepFrom(es, c, From(es))
    BY <1>3, <2>1, FromDef
  <2>3. cs[c].next # 0 => From(es)[cs[c].next] = From(cs)[cs[c].next]
    BY <2>1 DEF Chained
  <2>4. es[c] = cs[c]
    BY <1>3, <2>1
  <2>5. StepFrom(es, c, From(es)) = StepFrom(cs, c, From(cs))
    BY <2>3, <2>4, Zenon DEF StepFrom
  <2> QED
    BY <2>1, <2>2, <2>5
<1>8. From(es)[n] = <<>>
  <2>1. From(es)[n] = InChunkOf(NewChunk.slots) \o <<>>
    BY <1>0, <1>2, <1>4, FromDef DEF StepFrom
  <2>2. <<>> \o <<>> = <<>>
    OBVIOUS
  <2> QED
    BY <2>1, <2>2, NothingInNew
<1>9. /\ \A f \in Firsts(cs) : Contents(es)[f] = Contents(cs)[f]
      /\ Contents(es)[n] = <<>>
  BY <1>6, <1>7, <1>8 DEF Contents, Firsts
<1>10. PICK more : more = [c \in DOMAIN es |-> IF c = n THEN n ELSE own[c]]
  OBVIOUS
<1>11. more[n] = n /\ \A c \in DOMAIN cs : more[c] = own[c]
  BY <1>3, <1>4, <1>10
<1>12. Owned(es, more)
  <2>1. more \in [DOMAIN es -> Firsts(es)]
    BY <1>4, <1>6, <1>10 DEF Owned
  <2>2. \A f \in Firsts(es) : more[f] = f
    BY <1>6, <1>11 DEF Owned, Firsts
  <2>3. \A c \in DOMAIN es : es[c].next # 0 => more[es[c].next] = more[c]
    <3> SUFFICES ASSUME NEW c \in DOMAIN cs, cs[c].next # 0
                 PROVE  more[cs[c].next] = more[c]
      BY <1>2, <1>3, <1>4
    <3>1. cs[c].next \in DOMAIN cs
      BY DEF Chained
    <3> QED
      BY <1>11, <3>1 DEF Owned
  <2>4. \A c, d \in DOMAIN es : es[c].next = 0 /\ es[d].next = 0 /\ more[c] = more[d] => c = d
    <3>1. \A c \in DOMAIN cs : more[c] # n
      BY <1>6, <1>11 DEF Owned
    <3> QED
      BY <1>3, <1>4, <1>11, <3>1 DEF Owned
  <2> QED
    BY <2>1, <2>2, <2>3, <2>4 DEF Owned
<1>13. EmptyAlso(es, cs, n)
  BY <1>6, <1>9 DEF EmptyAlso
<1>14. OwnedAlso(es, cs, own, n, n)
  BY <1>11, <1>12 DEF OwnedAlso
<1> QED
  BY <1>5, <1>13, <1>14

(* A full chunk gets an empty next one: nothing changes in the containers, *)
(* and the new chunk belongs to the container of the full one.             *)
LEMMA OneMoreChunk ==
  ASSUME NEW cs \in Seq(Chunk), Chained(cs), Full(cs), NEW own, Owned(cs, own),
         NEW es \in Seq(Chunk), Chained(es), NEW at, NEW n, Linked(es, cs, at, n),
         \A m \in 0 .. ChunkSize - 1 : Done(cs[at].slots[m])
  PROVE  /\ Full(es)
         /\ Firsts(es) = Firsts(cs)
         /\ Contents(es) = Contents(cs)
         /\ OwnedAlso(es, cs, own, n, own[at])
<1>0. /\ at \in 1 .. Len(cs) /\ cs[at].next = 0
      /\ n = Len(cs) + 1 /\ Len(es) = n
      /\ es[n] = NewChunk /\ es[at].next = n /\ es[at].slots = cs[at].slots
      /\ \A d \in 1 .. Len(cs) : d # at => es[d] = cs[d]
  BY DEF Linked
<1>1. /\ DOMAIN cs = 1 .. Len(cs) /\ DOMAIN es = 1 .. n /\ Len(cs) \in Nat /\ n \in Nat \ {0}
      /\ n \notin 1 .. Len(cs) /\ \A d : d \in 1 .. n <=> d \in 1 .. Len(cs) \/ d = n
  BY <1>0, LenProperties
<1>2. es[n].next = 0
  BY <1>0, NewPointsNowhere
<1>3. /\ \A d \in DOMAIN cs : d # at => es[d] = cs[d]
      /\ \A d \in DOMAIN cs : d \in DOMAIN es /\ d # n /\ d # 0 /\ cs[d].next # n
      /\ at \in DOMAIN cs /\ es[at].next = n /\ es[at].slots = cs[at].slots
  BY <1>0, <1>1 DEF Chained
<1>4. DOMAIN es = DOMAIN cs \cup {n} /\ n \notin DOMAIN cs /\ n # 0
  BY <1>1
<1>5. Full(es)
  BY <1>2, <1>3, <1>4 DEF Full
<1>6. Firsts(es) = Firsts(cs)
  <2>1. \A c \in DOMAIN cs : (\A d \in DOMAIN es : es[d].next # c) <=> (\A d \in DOMAIN cs : cs[d].next # c)
    BY <1>0, <1>2, <1>3, <1>4
  <2>2. ~\A d \in DOMAIN es : es[d].next # n
    BY <1>3, <1>4
  <2> QED
    BY <1>4, <2>1, <2>2 DEF Firsts
<1>7. From(es)[n] = <<>>
  <2>1. From(es)[n] = InChunkOf(NewChunk.slots) \o <<>>
    BY <1>0, <1>2, <1>4, FromDef DEF StepFrom
  <2>2. <<>> \o <<>> = <<>>
    OBVIOUS
  <2> QED
    BY <2>1, <2>2, NothingInNew
<1>8. \A c \in DOMAIN cs : From(es)[c] = From(cs)[c]
  <2> DEFINE Bad == {c \in DOMAIN cs : From(es)[c] # From(cs)[c]}
  <2> SUFFICES ASSUME Bad # {} PROVE FALSE
    OBVIOUS
  <2>1. PICK c \in Bad : cs[c].next \notin Bad
    BY DEF Chained
  <2>2. From(cs)[c] = StepFrom(cs, c, From(cs)) /\ From(es)[c] = StepFrom(es, c, From(es))
    BY <1>3, <2>1, FromDef
  <2>3. CASE c # at
    <3>1. cs[c].next # 0 => From(es)[cs[c].next] = From(cs)[cs[c].next]
      BY <2>1 DEF Chained
    <3>2. es[c] = cs[c]
      BY <1>3, <2>1, <2>3
    <3>3. StepFrom(es, c, From(es)) = StepFrom(cs, c, From(cs))
      BY <3>1, <3>2, Zenon DEF StepFrom
    <3> QED
      BY <2>1, <2>2, <3>3
  <2>4. CASE c = at
    <3>1. StepFrom(es, c, From(es)) = InChunkOf(cs[c].slots) \o From(es)[n]
      BY <1>3, <1>4, <2>4 DEF StepFrom
    <3>2. StepFrom(cs, c, From(cs)) = InChunkOf(cs[c].slots) \o <<>>
      BY <1>0, <2>4 DEF StepFrom
    <3> QED
      BY <1>7, <2>1, <2>2, <3>1, <3>2
  <2> QED
    BY <2>3, <2>4
<1>9. Contents(es) = Contents(cs)
  <2>1. \A f \in Firsts(cs) : From(es)[f] = From(cs)[f]
    BY <1>8 DEF Firsts
  <2> QED
    BY <1>6, <2>1, Zenon DEF Contents
<1>10. PICK more : more = [c \in DOMAIN es |-> IF c = n THEN own[at] ELSE own[c]]
  OBVIOUS
<1>11. more[n] = own[at] /\ \A c \in DOMAIN cs : more[c] = own[c]
  BY <1>3, <1>4, <1>10
<1>12. Owned(es, more)
  <2>1. more \in [DOMAIN es -> Firsts(es)]
    BY <1>3, <1>4, <1>6, <1>10 DEF Owned
  <2>2. \A f \in Firsts(es) : more[f] = f
    BY <1>6, <1>11 DEF Owned, Firsts
  <2>3. \A c \in DOMAIN es : es[c].next # 0 => more[es[c].next] = more[c]
    <3>1. \A c \in DOMAIN cs : cs[c].next # 0 => more[cs[c].next] = more[c]
      BY <1>11 DEF Owned, Chained
    <3> QED
      BY <1>2, <1>3, <1>4, <1>11, <3>1
  <2>4. \A c, d \in DOMAIN es : es[c].next = 0 /\ es[d].next = 0 /\ more[c] = more[d] => c = d
    <3>1. \A c, d \in DOMAIN cs : cs[c].next = 0 /\ cs[d].next = 0 /\ own[c] = own[d] => c = d
      BY DEF Owned
    <3>2. \A c \in DOMAIN cs : es[c].next = 0 => c # at /\ cs[c].next = 0
      BY <1>3, <1>4
    <3>3. \A c \in DOMAIN cs : es[c].next = 0 => more[c] # more[n]
      BY <1>0, <1>3, <1>11, <3>1, <3>2
    <3> QED
      BY <1>4, <1>11, <3>1, <3>2, <3>3
  <2> QED
    BY <2>1, <2>2, <2>3, <2>4 DEF Owned
<1> QED
  BY <1>5, <1>6, <1>9, <1>11, <1>12 DEF OwnedAlso

(* j_new_stuff, as it is used there.                                       *)
LEMMA NewAppended ==
  ASSUME NEW cs \in Seq(Chunk)
  PROVE  /\ Append(cs, NewChunk) \in Seq(Chunk)
         /\ Len(Append(cs, NewChunk)) = Len(cs) + 1
         /\ Append(cs, NewChunk)[Len(cs) + 1] = NewChunk
         /\ \A d \in 1 .. Len(cs) : Append(cs, NewChunk)[d] = cs[d]
BY NewChunkType, AppendProperties

(* Grown finds the place for one more element of the innermost container   *)
(* and changes nothing in any container.                                   *)
LEMMA GrownContents ==
  ASSUME ParserTypeOK, stack # <<>>, Spots(chunks, stack), Tidy(chunks, Top.at, Top.pos),
         NEW cs \in Seq(Chunk), Len(cs) >= Len(chunks),
         \A d \in 1 .. Len(chunks) : cs[d] = chunks[d],
         NEW loose, Forest(cs, loose), \A l \in loose : l \notin 1 .. Len(chunks),
         Full(cs), NEW own, Owned(cs, own)
  PROVE  /\ Full(Grown(cs).chunks)
         /\ Firsts(Grown(cs).chunks) = Firsts(cs)
         /\ Contents(Grown(cs).chunks) = Contents(cs)
         /\ Tidy(Grown(cs).chunks, Grown(cs).at, Grown(cs).pos)
         /\ OwnedAlso(Grown(cs).chunks, cs, own, Grown(cs).at, own[st])
<1>1. /\ Len(stack) \in Nat \ {0} /\ Top = stack[Len(stack)] /\ Top \in Place
      /\ st = Top.at /\ st \in 1 .. Len(chunks) /\ Len(chunks) \in Nat
  <2>1. Len(stack) \in Nat \ {0} /\ Top \in Place
    BY HasLast DEF ParserTypeOK, Top
  <2> QED
    BY <2>1 DEF ParserTypeOK, StackOK, Top
<1>2. Len(cs) \in Nat /\ DOMAIN cs = 1 .. Len(cs) /\ st \in 1 .. Len(cs)
  BY <1>1, LenProperties
<1>3. cs[st] = chunks[st] /\ cs[st].next = 0
  <2>1. Len(stack) \in 1 .. Len(stack)
    BY <1>1
  <2> QED
    BY <1>1, <2>1 DEF Spots, Spot
<1>4. Tidy(cs, st, Top.pos)
  BY <1>1, <1>3 DEF Tidy
<1>5. Chained(cs)
  BY ForestChained
<1>6. CASE Top.pos # ChunkSize
  <2>1. Grown(cs).chunks = cs /\ Grown(cs).at = st /\ Grown(cs).pos = Top.pos
    BY <1>6 DEF Grown
  <2>2. OwnedAlso(cs, cs, own, st, own[st])
    BY DEF OwnedAlso
  <2> QED
    BY <1>4, <2>1, <2>2
<1>7. CASE Top.pos = ChunkSize
  <2>1. PICK n, es : n = Len(cs) + 1 /\ es = Append([cs EXCEPT ![st].next = n], NewChunk)
    OBVIOUS
  <2>2. Grown(cs).chunks = es /\ Grown(cs).at = n /\ Grown(cs).pos = 0
    BY <1>7, <2>1 DEF Grown
  <2>3. Forest(es, loose)
    BY <2>2, GrownForest
  <2>4. PICK y : y = [cs[st] EXCEPT !.next = n]
    OBVIOUS
  <2>5. y \in Chunk /\ y.next = n /\ y.slots = cs[st].slots
    <3>1. cs[st] \in Chunk /\ n \in Nat
      BY <1>2, <2>1
    <3> QED
      BY <3>1, <2>4 DEF Chunk
  <2>6. PICK as : as = [cs EXCEPT ![st] = y]
    OBVIOUS
  <2>7. /\ as \in Seq(Chunk) /\ Len(as) = Len(cs) /\ as[st] = y
        /\ \A d \in 1 .. Len(cs) : d # st => as[d] = cs[d]
    <3>1. as \in Seq(Chunk) /\ Len(as) = Len(cs)
      BY <1>2, <2>5, <2>6, SetChunk
    <3>2. as[st] = y /\ \A d \in 1 .. Len(cs) : d # st => as[d] = cs[d]
      BY <1>2, <2>6
    <3> QED
      BY <3>1, <3>2
  <2>8. es = Append(as, NewChunk)
    BY <1>2, <2>1, <2>4, <2>6
  <2>9. /\ es \in Seq(Chunk) /\ Len(es) = n /\ es[n] = NewChunk
        /\ \A d \in 1 .. Len(cs) : es[d] = as[d]
    <3>1. /\ es \in Seq(Chunk) /\ Len(es) = Len(as) + 1 /\ es[Len(as) + 1] = NewChunk
          /\ \A d \in 1 .. Len(as) : es[d] = as[d]
      BY <2>7, <2>8, NewAppended
    <3>2. Len(as) + 1 = n
      BY <2>1, <2>7
    <3> QED
      BY <2>7, <2>8, <3>1, <3>2
  <2>10. Linked(es, cs, st, n)
    <3>1. st \in 1 .. Len(cs) /\ cs[st].next = 0 /\ n = Len(cs) + 1 /\ Len(es) = n /\ es[n] = NewChunk
      BY <1>2, <1>3, <2>1, <2>9
    <3>2. es[st] = y /\ \A d \in 1 .. Len(cs) : d # st => es[d] = cs[d]
      BY <1>2, <2>7, <2>9
    <3>3. es[st].next = n /\ es[st].slots = cs[st].slots
      BY <2>5, <3>2
    <3> QED
      BY <3>1, <3>2, <3>3 DEF Linked
  <2>11. \A m \in 0 .. ChunkSize - 1 : Done(cs[st].slots[m])
    BY <1>4, <1>7 DEF Tidy
  <2>12. Chained(es)
    BY <2>3, ForestChained
  <2>13. /\ Full(es) /\ Firsts(es) = Firsts(cs) /\ Contents(es) = Contents(cs)
         /\ OwnedAlso(es, cs, own, n, own[st])
    <3>1. es \in Seq(Chunk)
      BY <2>9
    <3> QED
      BY <1>5, <2>10, <2>11, <2>12, <3>1, OneMoreChunk
  <2>14. Tidy(es, n, 0)
    <3>1. ChunkSize \in Nat \ {0}
      BY ConstantsAssumption
    <3>2. \A m \in 0 .. ChunkSize - 1 : es[n].slots[m] = EmptySlot
      BY <2>9 DEF NewChunk
    <3>3. ~Done(EmptySlot) /\ ~Used(EmptySlot)
      BY DEF Done, Used, EmptySlot
    <3> QED
      BY <3>1, <3>2, <3>3 DEF Tidy
  <2> QED
    BY <2>2, <2>13, <2>14
<1> QED
  BY <1>6, <1>7

\* cs is the memory, and perhaps chunks behind it that hang nowhere.
Beyond(cs, loose) ==
  /\ Len(cs) >= Len(chunks) /\ \A d \in 1 .. Len(chunks) : cs[d] = chunks[d]
  /\ Forest(cs, loose) /\ \A l \in loose : l \notin 1 .. Len(chunks)

GrownIs(cs, gs, at, pos) ==
  Grown(cs).chunks = gs /\ Grown(cs).at = at /\ Grown(cs).pos = pos

(* Something is put where Grown found room: the innermost container gets   *)
(* that element, in the place of a key that waits there.                   *)
LEMMA PutContents ==
  ASSUME ParserTypeOK, stack # <<>>, Spots(chunks, stack), Tidy(chunks, Top.at, Top.pos),
         NEW cs \in Seq(Chunk), NEW loose, Beyond(cs, loose),
         Full(cs), NEW own, Owned(cs, own),
         NEW gs \in Seq(Chunk), NEW at \in 1 .. Len(gs), NEW pos \in 0 .. ChunkSize - 1,
         GrownIs(cs, gs, at, pos),
         NEW es \in Seq(Chunk), PutIn(es, gs, at, pos)
  PROVE  /\ Full(es) /\ Tidy(gs, at, pos)
         /\ own[st] \in Firsts(cs)
         /\ Contents(es) = PutInto(Contents(cs), own[st], Held(es[at].slots[pos]))
         /\ KeyOf(Contents(cs)[own[st]]) = gs[at].slots[pos].key
         /\ OwnedAlso(es, cs, own, at, own[st])
<1>0. /\ Len(cs) >= Len(chunks) /\ \A d \in 1 .. Len(chunks) : cs[d] = chunks[d]
      /\ Forest(cs, loose) /\ \A l \in loose : l \notin 1 .. Len(chunks)
      /\ Grown(cs).chunks = gs /\ Grown(cs).at = at /\ Grown(cs).pos = pos
  BY DEF Beyond, GrownIs
<1>1. /\ Full(gs) /\ Firsts(gs) = Firsts(cs) /\ Contents(gs) = Contents(cs)
      /\ Tidy(gs, at, pos) /\ OwnedAlso(gs, cs, own, at, own[st])
  <2>1. /\ Full(Grown(cs).chunks) /\ Firsts(Grown(cs).chunks) = Firsts(cs)
        /\ Contents(Grown(cs).chunks) = Contents(cs)
        /\ Tidy(Grown(cs).chunks, Grown(cs).at, Grown(cs).pos)
        /\ OwnedAlso(Grown(cs).chunks, cs, own, Grown(cs).at, own[st])
    BY <1>0, GrownContents
  <2> QED
    BY <1>0, <2>1
<1>2. Forest(gs, loose) /\ Spot(gs, at, pos)
  <2>1. Forest(Grown(cs).chunks, loose) /\ Spot(Grown(cs).chunks, Grown(cs).at, Grown(cs).pos)
    BY <1>0, GrownForest
  <2> QED
    BY <1>0, <2>1
<1>3. PICK more : Owned(gs, more) /\ more[at] = own[st] /\ \A c \in DOMAIN cs : more[c] = own[c]
  BY <1>1 DEF OwnedAlso
<1>4. Chained(gs) /\ at \in DOMAIN gs /\ gs[at].next = 0
  BY <1>2, ForestChained, LenProperties DEF Spot
<1>5. /\ Full(es) /\ Owned(es, more)
      /\ more[at] \in Firsts(gs)
      /\ Contents(es) = PutInto(Contents(gs), more[at], Held(es[at].slots[pos]))
      /\ KeyOf(Contents(gs)[more[at]]) = gs[at].slots[pos].key
  BY <1>1, <1>3, <1>4, FilledIn
<1>6. OwnedAlso(es, cs, own, at, own[st])
  BY <1>3, <1>5 DEF OwnedAlso
<1> QED
  BY <1>1, <1>3, <1>5, <1>6

-----------------------------------------------------------------------------
(* The open containers.                                                    *)

\* At each place on the stack the next element may be put, and below the top
\* one was put.
Tidies(cs, s) ==
  /\ \A i \in 1 .. Len(s) : Tidy(cs, s[i].at, s[i].pos)
  /\ \A i \in 1 .. Len(s) - 1 : s[i].pos >= 1

\* The stack holds the ends of the open containers.
OwnsOpen(cs, s, own) ==
  /\ Owned(cs, own)
  /\ \A i \in 1 .. Len(s) : own[s[i].at] = OpenIn(cs, s, i)

Placed(cs, s) == Tidies(cs, s) /\ \E own : OwnsOpen(cs, s, own)

\* Nothing changed in the chunks of the open containers around the innermost.
SameBelow(es) == \A i \in 1 .. Len(stack) - 1 : es[stack[i].at] = chunks[stack[i].at]

\* The owners of es are those of the chunks, and at is in the innermost container.
StillOwned(es, more, own, at) ==
  /\ Owned(es, more) /\ more[at] = own[st]
  /\ \A c \in DOMAIN chunks : more[c] = own[c]

(* After something was put into the innermost container, the open ones are *)
(* the same.                                                               *)
LEMMA PlacesAfter ==
  ASSUME ParserTypeOK, stack # <<>>, Tidies(chunks, stack), NEW own, OwnsOpen(chunks, stack, own),
         NEW es, NEW at \in Nat, NEW to \in 0 .. ChunkSize, Tidy(es, at, to),
         SameBelow(es), NEW more, StillOwned(es, more, own, at)
  PROVE  /\ Tidies(es, SetTop(at, to)) /\ OwnsOpen(es, SetTop(at, to), more)
         /\ OpenOf(es, SetTop(at, to)) = OpenOf(chunks, stack)
<1>0. /\ \A i \in 1 .. Len(stack) - 1 : es[stack[i].at] = chunks[stack[i].at]
      /\ Owned(es, more) /\ more[at] = own[st] /\ \A c \in DOMAIN chunks : more[c] = own[c]
  BY DEF SameBelow, StillOwned
<1>1. PICK n, s : n = Len(stack) /\ s = SetTop(at, to)
  OBVIOUS
<1>2. /\ Len(s) = n /\ n \in Nat \ {0} /\ n \in 1 .. n
      /\ s[n].at = at /\ s[n].pos = to
      /\ \A i \in 1 .. n - 1 : s[i] = stack[i]
  <2>1. /\ SetTop(at, to) \in Seq(Place) /\ Len(SetTop(at, to)) = Len(stack)
        /\ SetTop(at, to)[Len(stack)].at = at
        /\ \A i \in 1 .. Len(stack) - 1 : SetTop(at, to)[i] = stack[i]
    BY SetTopType
  <2>2. n \in Nat \ {0} /\ n \in 1 .. n
    BY <1>1, HasLast DEF ParserTypeOK
  <2>3. SetTop(at, to)[n].pos = to
    BY <1>1, <2>2 DEF SetTop, Position, ParserTypeOK
  <2> QED
    BY <1>1, <2>1, <2>2, <2>3
<1>3. /\ \A i \in 1 .. n : i = n \/ i \in 1 .. n - 1
      /\ \A i \in 1 .. n - 1 : i \in 1 .. n
      /\ \A i \in 1 .. n : i = 1 \/ i - 1 \in 1 .. n - 1
  BY <1>2
<1>4. /\ st = stack[n].at
      /\ \A i \in 1 .. n : stack[i].at \in DOMAIN chunks
  BY <1>1, LenProperties DEF ParserTypeOK, StackOK, Top
<1>5. Tidies(es, s)
  <2>1. ASSUME NEW i \in 1 .. n
        PROVE  Tidy(es, s[i].at, s[i].pos)
    <3>1. CASE i = n
      BY <1>2, <3>1
    <3>2. CASE i \in 1 .. n - 1
      <4>1. Tidy(chunks, stack[i].at, stack[i].pos)
        BY <1>1 DEF Tidies
      <4>2. es[stack[i].at] = chunks[stack[i].at] /\ s[i] = stack[i]
        BY <1>0, <1>1, <1>2, <3>2
      <4> QED
        BY <4>1, <4>2, Zenon DEF Tidy
    <3> QED
      BY <1>3, <3>1, <3>2
  <2>2. \A i \in 1 .. n - 1 : s[i].pos >= 1
    BY <1>1, <1>2 DEF Tidies
  <2> QED
    BY <1>2, <2>1, <2>2 DEF Tidies
<1>6. \A i \in 1 .. n : OpenIn(es, s, i) = OpenIn(chunks, stack, i)
  <2> TAKE i \in 1 .. n
  <2>1. CASE i = 1
    BY <2>1 DEF OpenIn
  <2>2. CASE i # 1
    <3>1. PICK j \in 1 .. n - 1 : j = i - 1
      BY <1>3, <2>2
    <3>2. s[j] = stack[j] /\ es[stack[j].at] = chunks[stack[j].at]
      BY <1>0, <1>1, <1>2
    <3> QED
      BY <2>2, <3>1, <3>2, Zenon DEF OpenIn
  <2> QED
    BY <2>1, <2>2
<1>7. OwnsOpen(es, s, more)
  <2>1. ASSUME NEW i \in 1 .. n
        PROVE  more[s[i].at] = OpenIn(chunks, stack, i)
    <3>1. own[stack[i].at] = OpenIn(chunks, stack, i)
      BY <1>1 DEF OwnsOpen
    <3>2. CASE i = n
      BY <1>0, <1>2, <1>4, <3>1, <3>2
    <3>3. CASE i \in 1 .. n - 1
      BY <1>0, <1>2, <1>4, <3>1, <3>3
    <3> QED
      BY <1>3, <3>2, <3>3
  <2> QED
    BY <1>0, <1>2, <1>6, <2>1 DEF OwnsOpen
<1>8. OpenOf(es, s) = OpenOf(chunks, stack)
  BY <1>1, <1>2, <1>6 DEF OpenOf
<1> QED
  BY <1>1, <1>5, <1>7, <1>8

\* The container of place p hangs in the last slot that was filled.
HangsLast(cs, s, p, own) ==
  /\ s # <<>> => s[Len(s)].pos >= 1
  /\ own[p.at] = IF s = <<>> THEN 1 ELSE cs[s[Len(s)].at].slots[s[Len(s)].pos - 1].sub

(* One more open container, which hangs in the last slot that was filled.  *)
LEMMA PlacesPushed ==
  ASSUME NEW cs, NEW s \in Seq(Place), NEW own, Tidies(cs, s), OwnsOpen(cs, s, own),
         NEW p \in Place, Tidy(cs, p.at, p.pos), HangsLast(cs, s, p, own)
  PROVE  /\ Tidies(cs, Append(s, p)) /\ OwnsOpen(cs, Append(s, p), own)
         /\ OpenOf(cs, Append(s, p)) = Append(OpenOf(cs, s), own[p.at])
<1>0. /\ s # <<>> => s[Len(s)].pos >= 1
      /\ own[p.at] = IF s = <<>> THEN 1 ELSE cs[s[Len(s)].at].slots[s[Len(s)].pos - 1].sub
  BY DEF HangsLast
<1>1. PICK n, more : n = Len(s) /\ more = Append(s, p)
  OBVIOUS
<1>2. /\ n \in Nat /\ more \in Seq(Place) /\ Len(more) = n + 1 /\ more[n + 1] = p
      /\ \A i \in 1 .. n : more[i] = s[i]
  BY <1>1, AppendProperties, LenProperties
<1>3. /\ \A i \in 1 .. n + 1 : i \in 1 .. n \/ i = n + 1
      /\ \A i \in 1 .. n : i = 1 \/ i - 1 \in 1 .. n
      /\ \A i \in 1 .. n + 1 - 1 : i \in 1 .. n /\ (i = n \/ i \in 1 .. n - 1)
      /\ n + 1 - 1 = n /\ (n + 1 = 1 <=> n = 0) /\ (n # 0 => n \in 1 .. n)
  BY <1>2
<1>4. s = <<>> <=> n = 0
  BY <1>1, EmptySeq
<1>5. Tidies(cs, more)
  <2>1. \A i \in 1 .. n + 1 : Tidy(cs, more[i].at, more[i].pos)
    BY <1>1, <1>2, <1>3 DEF Tidies
  <2>2. ASSUME NEW i \in 1 .. n + 1 - 1
        PROVE  more[i].pos >= 1
    <3>1. more[i] = s[i]
      BY <1>2, <1>3
    <3>2. CASE i = n
      <4>1. s # <<>>
        BY <1>3, <1>4, <3>2
      <4> QED
        BY <1>0, <1>1, <3>1, <3>2, <4>1
    <3>3. CASE i \in 1 .. n - 1
      BY <1>1, <3>1, <3>3 DEF Tidies
    <3> QED
      BY <1>3, <3>2, <3>3
  <2> QED
    BY <1>2, <2>1, <2>2 DEF Tidies
<1>6. \A i \in 1 .. n : OpenIn(cs, more, i) = OpenIn(cs, s, i)
  <2> TAKE i \in 1 .. n
  <2>1. CASE i = 1
    BY <2>1 DEF OpenIn
  <2>2. CASE i # 1
    <3>1. PICK j \in 1 .. n : j = i - 1
      BY <1>3, <2>2
    <3>2. more[j] = s[j]
      BY <1>2
    <3> QED
      BY <2>2, <3>1, <3>2, Zenon DEF OpenIn
  <2> QED
    BY <2>1, <2>2
<1>7. OpenIn(cs, more, n + 1) = own[p.at]
  <2>1. CASE n = 0
    BY <1>0, <1>3, <1>4, <2>1 DEF OpenIn
  <2>2. CASE n # 0
    <3>1. s # <<>> /\ n + 1 # 1 /\ n + 1 - 1 = n /\ more[n] = s[n]
      BY <1>2, <1>3, <1>4, <2>2
    <3>2. PICK j : j = n + 1
      OBVIOUS
    <3>3. j # 1 /\ j - 1 = n
      BY <1>2, <3>1, <3>2
    <3>4. OpenIn(cs, more, j) = cs[more[n].at].slots[more[n].pos - 1].sub
      BY <3>3 DEF OpenIn
    <3> QED
      BY <1>0, <1>1, <3>1, <3>2, <3>4
  <2> QED
    BY <2>1, <2>2
<1>8. OwnsOpen(cs, more, own)
  <2>1. \A i \in 1 .. n + 1 : own[more[i].at] = OpenIn(cs, more, i)
    BY <1>1, <1>2, <1>3, <1>6, <1>7 DEF OwnsOpen
  <2> QED
    BY <1>2, <2>1 DEF OwnsOpen
<1>9. OpenOf(cs, more) = Append(OpenOf(cs, s), own[p.at])
  <2>1. OpenOf(cs, s) = [i \in 1 .. n |-> OpenIn(cs, s, i)]
    BY <1>1 DEF OpenOf
  <2>2. OpenOf(cs, more) = [i \in 1 .. n + 1 |-> OpenIn(cs, more, i)]
    BY <1>2 DEF OpenOf
  <2>3. PICK f, v, g : f = OpenOf(cs, s) /\ v = own[p.at] /\ g = OpenOf(cs, more)
    OBVIOUS
  <2>4. f = [i \in 1 .. n |-> f[i]] /\ Len(f) = n
    BY <1>2, <2>1, <2>3
  <2>5. g = [i \in 1 .. n + 1 |-> IF i <= n THEN f[i] ELSE v]
    <3>1. \A i \in 1 .. n + 1 : g[i] = IF i <= n THEN f[i] ELSE v
      <4> TAKE i \in 1 .. n + 1
      <4>1. g[i] = OpenIn(cs, more, i)
        BY <2>2, <2>3
      <4>2. CASE i \in 1 .. n
        <5>1. f[i] = OpenIn(cs, s, i) /\ i <= n
          BY <1>2, <2>1, <2>3, <4>2
        <5> QED
          BY <1>6, <4>1, <4>2, <5>1
      <4>3. CASE i = n + 1
        <5>1. ~(i <= n)
          BY <1>2, <4>3
        <5> QED
          BY <1>7, <2>3, <4>1, <4>3, <5>1
      <4> QED
        BY <1>3, <4>2, <4>3
    <3>2. g = [i \in 1 .. n + 1 |-> g[i]]
      BY <2>2, <2>3
    <3>3. PICK h : h = [i \in 1 .. n + 1 |-> IF i <= n THEN f[i] ELSE v]
      OBVIOUS
    <3>4. \A i \in 1 .. n + 1 : h[i] = g[i]
      BY <3>1, <3>3
    <3>5. h = [i \in 1 .. n + 1 |-> h[i]]
      BY <3>3
    <3>6. h = g
      BY <3>2, <3>4, <3>5
    <3> QED
      BY <3>3, <3>6
  <2>6. g = Append(f, v)
    BY <1>2, <2>4, <2>5
  <2> QED
    BY <1>1, <2>3, <2>6
<1> QED
  BY <1>1, <1>5, <1>8, <1>9

-----------------------------------------------------------------------------
(* The invariant, and what the tree is in the states of the parser.        *)

\* As long as the document is read: where the next elements go, whose chunks
\* are whose, and no more tokens than bytes, no more than two chunks for each.
\* What is accepted has nothing open.
ContainersInv ==
  /\ phase = "parsing" =>
       /\ Full(chunks) /\ Placed(chunks, stack)
       /\ Len(input) <= MaxSize /\ Len(chunks) <= 2 * Len(input)
  /\ phase = "accepted" => stack = <<>>

LEMMA TreeNow ==
  ASSUME phase = "parsing"
  PROVE  /\ TreePhase = "parsing" /\ TreeRoot = (IF chunks = <<>> THEN 0 ELSE 1)
         /\ TreeOpen = OpenOf(chunks, stack) /\ TreeElements = Contents(chunks)
BY DEF TreePhase, TreeRoot, TreeOpen, TreeElements, Refused

LEMMA TreeNext ==
  ASSUME phase' = "parsing"
  PROVE  /\ TreePhase' = "parsing" /\ TreeRoot' = (IF chunks' = <<>> THEN 0 ELSE 1)
         /\ TreeOpen' = OpenOf(chunks', stack') /\ TreeElements' = Contents(chunks')
BY DEF TreePhase, TreeRoot, TreeOpen, TreeElements, Refused

(* A token more is read than before, as long as that may be.               *)
LEMMA OneMoreToken ==
  ASSUME ParserTypeOK, NEW t \in Tokens, MayRead(t)
  PROVE  /\ Len(Append(input, t)) = Len(input) + 1 /\ Len(input) \in Nat
         /\ Len(input) + 1 <= MaxSize /\ MaxSize \in Nat
<1>1. Len(Append(input, t)) = Len(input) + 1 /\ Len(input) \in Nat
  BY AppendProperties, LenProperties DEF ParserTypeOK
<1>2. MaxSize \in Nat /\ FreeLength <= MaxSize /\ FreeLength \in Nat
  BY SizeAssumption, ConstantsAssumption
<1>3. CASE IsFree(Append(input, t))
  BY <1>1, <1>2, <1>3 DEF IsFree
<1>4. CASE Append(input, t) \in Beginnings
  <2>1. PICK d \in Documents : Append(input, t) \in {SubSeq(d, 1, k) : k \in 1 .. Len(d)}
    BY <1>4 DEF Beginnings
  <2>5. PICK k \in 1 .. Len(d) : Append(input, t) = SubSeq(d, 1, k)
    BY <2>1
  <2>2. d \in Seq(Tokens) /\ Len(d) \in Nat /\ Len(d) <= MaxSize
    BY ConstantsAssumption, SizeAssumption, LenProperties
  <2>3. k \in Nat /\ k <= Len(d)
    BY <2>2
  <2>4. Len(SubSeq(d, 1, k)) = k
    BY <2>2, <2>3, WithoutLast
  <2> QED
    BY <1>1, <1>2, <2>2, <2>3, <2>4, <2>5
<1> QED
  BY <1>1, <1>2, <1>3, <1>4 DEF MayRead

(* Grown allocates one chunk at most.                                      *)
LEMMA GrownLength ==
  ASSUME ParserTypeOK, stack # <<>>, NEW cs \in Seq(Chunk), Len(cs) >= Len(chunks)
  PROVE  Len(Grown(cs).chunks) <= Len(cs) + 1
<1>1. st \in 1 .. Len(chunks) /\ Len(chunks) \in Nat /\ Len(cs) \in Nat
  <2>1. Len(stack) \in Nat \ {0}
    BY HasLast DEF ParserTypeOK
  <2> QED
    BY <2>1, LenProperties DEF ParserTypeOK, StackOK, Top
<1>2. CASE Top.pos # ChunkSize
  BY <1>1, <1>2 DEF Grown
<1>3. CASE Top.pos = ChunkSize
  <2>1. st \in 1 .. Len(cs) /\ cs[st] \in Chunk
    BY <1>1
  <2>2. PICK y : y = [cs[st] EXCEPT !.next = Len(cs) + 1]
    OBVIOUS
  <2>3. y \in Chunk
    <3>1. Len(cs) + 1 \in Nat
      BY <1>1
    <3> QED
      BY <2>1, <2>2, <3>1 DEF Chunk
  <2>4. PICK as : as = [cs EXCEPT ![st] = y]
    OBVIOUS
  <2>5. as \in Seq(Chunk) /\ Len(as) = Len(cs)
    BY <2>1, <2>3, <2>4, SetChunk
  <2>6. Grown(cs).chunks = Append(as, NewChunk)
    BY <1>3, <2>2, <2>4 DEF Grown
  <2>7. Len(Append(as, NewChunk)) = Len(as) + 1
    BY <2>5, NewAppended
  <2> QED
    BY <1>1, <2>5, <2>6, <2>7
<1> QED
  BY <1>2, <1>3

(* The innermost open container is the one whose chunk is being filled.    *)
LEMMA InnermostIs ==
  ASSUME ParserTypeOK, stack # <<>>, NEW own, OwnsOpen(chunks, stack, own)
  PROVE  /\ OpenOf(chunks, stack) # <<>>
         /\ OpenOf(chunks, stack)[Len(OpenOf(chunks, stack))] = own[st]
         /\ Len(OpenOf(chunks, stack)) = Len(stack)
<1>1. PICK n, f : n = Len(stack) /\ f = OpenOf(chunks, stack)
  OBVIOUS
<1>2. n \in Nat \ {0} /\ n \in 1 .. n /\ st = stack[n].at
  <2>1. n \in Nat \ {0}
    BY <1>1, HasLast DEF ParserTypeOK
  <2> QED
    BY <1>1, <2>1 DEF ParserTypeOK, StackOK, Top
<1>3. f = [i \in 1 .. n |-> OpenIn(chunks, stack, i)]
  BY <1>1 DEF OpenOf
<1>4. Len(f) = n /\ f[n] = OpenIn(chunks, stack, n) /\ f # <<>>
  BY <1>2, <1>3
<1>5. own[stack[n].at] = OpenIn(chunks, stack, n)
  BY <1>1, <1>2 DEF OwnsOpen
<1> QED
  BY <1>1, <1>2, <1>4, <1>5

\* The element e is a key, or a value for the elements q.
IsKeyOrValue(e, q) ==
  \/ \E key \in Labels \cup {"true"} : e = Tree!Element(key, "nothing", 0)
  \/ \E v \in 1 .. MaxSize : e = Tree!Element(KeyOf(q), "value", v)

(* One element more in the innermost container is AddKey or AddValue.      *)
LEMMA AddsOne ==
  ASSUME phase = "parsing", phase' = "parsing", chunks # <<>>, chunks' # <<>>,
         NEW f \in DOMAIN Contents(chunks), NEW e, IsKeyOrValue(e, Contents(chunks)[f]),
         OpenOf(chunks, stack) # <<>>, OpenOf(chunks, stack)[Len(OpenOf(chunks, stack))] = f,
         OpenOf(chunks', stack') = OpenOf(chunks, stack),
         Contents(chunks') = PutInto(Contents(chunks), f, e)
  PROVE  Tree!Next
<1>1. PICK all, q, o : all = Contents(chunks) /\ q = all[f] /\ o = OpenOf(chunks, stack)
  OBVIOUS
<1>2. /\ TreePhase = "parsing" /\ TreeRoot = 1 /\ TreeOpen = o /\ TreeElements = all
      /\ TreePhase' = "parsing" /\ TreeRoot' = 1 /\ TreeOpen' = o
      /\ TreeElements' = PutInto(all, f, e)
  BY <1>1, TreeNow, TreeNext, Zenon
<1>3. o # <<>> /\ Tree!Innermost = f
  BY <1>1, <1>2 DEF Tree!Innermost
<1>4. PutInto(all, f, e) = [all EXCEPT ![f] = Append(WithoutKey(all[f]), e)]
  <2>1. all = [c \in DOMAIN all |-> all[c]]
    BY <1>1 DEF Contents
  <2> QED
    BY <1>1, <2>1 DEF PutInto
<1>5. CASE \E key \in Labels \cup {"true"} : e = Tree!Element(key, "nothing", 0)
  <2>1. PICK key \in Labels \cup {"true"} : e = Tree!Element(key, "nothing", 0)
    BY <1>5
  <2>2. Append(WithoutKey(all[f]), e) = Tree!WithKey(all[f], key)
    BY <2>1, Zenon DEF WithoutKey, Tree!WithKey
  <2>3. TreeElements' = [TreeElements EXCEPT ![Tree!Innermost] = Tree!WithKey(@, key)]
    BY <1>2, <1>3, <1>4, <2>2, Zenon
  <2>4. Tree!AddKey
    BY <1>2, <1>3, <2>3, Zenon DEF Tree!AddKey
  <2> QED
    BY <1>2, <2>4, Zenon DEF Tree!Next
<1>6. CASE \E v \in 1 .. MaxSize : e = Tree!Element(KeyOf(q), "value", v)
  <2>1. PICK v \in 1 .. MaxSize : e = Tree!Element(KeyOf(q), "value", v)
    BY <1>6
  <2>2. Append(WithoutKey(all[f]), e) = Tree!WithThing(all[f], "value", v)
    BY <1>1, <2>1, Zenon DEF WithoutKey, KeyOf, Tree!WithThing
  <2>3. TreeElements' = [TreeElements EXCEPT ![Tree!Innermost] = Tree!WithThing(@, "value", v)]
    BY <1>2, <1>3, <1>4, <2>2, Zenon
  <2>4. Tree!AddValue
    BY <1>2, <1>3, <2>3, Zenon DEF Tree!AddValue
  <2> QED
    BY <1>2, <2>4, Zenon DEF Tree!Next
<1> QED
  BY <1>1, <1>5, <1>6, Zenon DEF IsKeyOrValue

(* A key or a value is put into the innermost container of the tree.       *)
LEMMA PutBuilds ==
  ASSUME ParserInv, MemoryInv, ContainersInv, phase = "parsing",
         NEW t \in Tokens, MayRead(t), st # 0, expect # "none",
         PutValue(t) \/ (t.type \in {"string", "literal"} /\ PutKey(t))
  PROVE  ContainersInv' /\ [Tree!Next]_(Tree!vars)
<1>1. /\ ParserTypeOK /\ stack # <<>> /\ chunks \in Seq(Chunk) /\ Len(chunks) \in Nat
      /\ Forest(chunks, {}) /\ Spots(chunks, stack) /\ ChunkSize \in Nat \ {0}
      /\ Full(chunks) /\ Tidies(chunks, stack) /\ Len(chunks) <= 2 * Len(input)
  <2>1. ParserTypeOK /\ stack # <<>>
    BY DEF ParserInv, ParserTypeOK, StackOK
  <2>2. chunks \in Seq(Chunk) /\ Len(chunks) \in Nat
    BY <2>1, LenProperties DEF ParserTypeOK
  <2>3. Forest(chunks, {}) /\ Spots(chunks, stack)
    BY DEF MemoryInv
  <2> QED
    BY <2>1, <2>2, <2>3, ConstantsAssumption DEF ContainersInv, Placed
<1>2. PICK own : OwnsOpen(chunks, stack, own)
  BY DEF ContainersInv, Placed
<1>3. PICK gs, at, pos :
        gs = Grown(chunks).chunks /\ at = Grown(chunks).at /\ pos = Grown(chunks).pos
  OBVIOUS
<1>4. /\ gs \in Seq(Chunk) /\ at \in 1 .. Len(gs) /\ pos \in 0 .. ChunkSize - 1
      /\ Len(gs) >= Len(chunks)
  BY <1>1, <1>3, GrownType
<1>5. Len(gs) <= Len(chunks) + 1
  <2>1. Len(Grown(chunks).chunks) <= Len(chunks) + 1
    BY <1>1, GrownLength
  <2> QED
    BY <1>3, <2>1
<1>6. PICK loose : loose = {}
  OBVIOUS
<1>7. Forest(chunks, loose) /\ \A l \in loose : l \notin 1 .. Len(chunks)
  BY <1>1, <1>6
<1>8. \A i \in 1 .. Len(stack) - 1 : gs[stack[i].at] = chunks[stack[i].at] /\ stack[i].at # at
  <2>1. PICK cs : cs = chunks
    OBVIOUS
  <2>2. /\ cs \in Seq(Chunk) /\ Len(cs) >= Len(chunks)
        /\ \A d \in 1 .. Len(chunks) : cs[d] = chunks[d]
        /\ Forest(cs, loose)
    BY <1>1, <1>7, <2>1
  <2>3. \A i \in 1 .. Len(stack) - 1 :
          /\ Grown(cs).chunks[stack[i].at] = chunks[stack[i].at]
          /\ stack[i].at # Grown(cs).at
    BY <1>1, <1>7, <2>2, GrownForest
  <2> QED
    BY <1>3, <2>1, <2>3
<1>9. PICK x \in Chunk, to \in {pos, pos + 1} :
        /\ chunks' = [gs EXCEPT ![at] = x] /\ stack' = SetTop(at, to) /\ GoOn(t)
        /\ x.next = gs[at].next /\ x.slots[pos].sub = gs[at].slots[pos].sub
        /\ Used(x.slots[pos])
        /\ \A m \in 0 .. ChunkSize - 1 : m # pos => x.slots[m] = gs[at].slots[m]
        /\ \/ /\ to = pos /\ t.text \in (Labels \cup {"true"}) \ {NoLabel}
              /\ x.slots[pos].key = t.text /\ x.slots[pos].value = gs[at].slots[pos].value
           \/ /\ to = pos + 1
              /\ x.slots[pos].key = gs[at].slots[pos].key /\ x.slots[pos].value = Len(input) + 1
  <2>1. Grown(chunks).chunks = gs /\ Grown(chunks).at = at /\ Grown(chunks).pos = pos
    BY <1>3
  <2>2. PutWritten(t, gs, at, pos)
    BY <1>4, <2>1, PutWrites
  <2> QED
    BY <2>2, Zenon DEF PutWritten
<1>10. PICK es : es = [gs EXCEPT ![at] = x]
  OBVIOUS
<1>11. /\ es \in Seq(Chunk) /\ Len(es) = Len(gs) /\ es[at] = x
       /\ \A d \in 1 .. Len(gs) : d # at => es[d] = gs[d]
  BY <1>4, <1>10, ExceptSeq
<1>12. chunks' = es /\ stack' = SetTop(at, to) /\ GoOn(t)
  BY <1>9, <1>10
<1>13. PutIn(es, gs, at, pos)
  BY <1>9, <1>11 DEF PutIn
<1>14. PICK f, e : f = own[st] /\ e = Held(es[at].slots[pos])
  OBVIOUS
<1>15. /\ Full(es) /\ Tidy(gs, at, pos) /\ f \in Firsts(chunks)
       /\ Contents(es) = PutInto(Contents(chunks), f, e)
       /\ KeyOf(Contents(chunks)[f]) = gs[at].slots[pos].key
       /\ OwnedAlso(es, chunks, own, at, f)
  <2>1. PICK cs : cs = chunks
    OBVIOUS
  <2>2. Owned(cs, own) /\ Full(cs) /\ cs \in Seq(Chunk) /\ Len(cs) >= Len(chunks)
        /\ (\A d \in 1 .. Len(chunks) : cs[d] = chunks[d]) /\ Forest(cs, loose)
        /\ Grown(cs).chunks = gs /\ Grown(cs).at = at /\ Grown(cs).pos = pos
    BY <1>1, <1>2, <1>3, <1>7, <2>1 DEF OwnsOpen
  <2>5. Beyond(cs, loose) /\ GrownIs(cs, gs, at, pos)
    BY <1>7, <2>2 DEF Beyond, GrownIs
  <2>3. Tidy(chunks, Top.at, Top.pos)
    <3>1. Len(stack) \in 1 .. Len(stack)
      BY <1>1, HasLast DEF ParserTypeOK
    <3> QED
      BY <1>1, <3>1 DEF Tidies, Top
  <2>4. /\ Full(es) /\ Tidy(gs, at, pos)
        /\ own[st] \in Firsts(cs)
        /\ Contents(es) = PutInto(Contents(cs), own[st], Held(es[at].slots[pos]))
        /\ KeyOf(Contents(cs)[own[st]]) = gs[at].slots[pos].key
        /\ OwnedAlso(es, cs, own, at, own[st])
    BY <1>1, <1>4, <1>11, <1>13, <2>2, <2>3, <2>5, PutContents
  <2>6. f \in Firsts(chunks) /\ OwnedAlso(es, chunks, own, at, f)
    BY <1>14, <2>1, <2>4, Zenon
  <2>7. Contents(es) = PutInto(Contents(chunks), f, e)
    BY <1>14, <2>1, <2>4, Zenon
  <2>8. KeyOf(Contents(chunks)[f]) = gs[at].slots[pos].key
    BY <1>14, <2>1, <2>4, Zenon
  <2> QED
    BY <2>4, <2>6, <2>7, <2>8
<1>16. Tidy(es, at, to)
  <2>1. /\ \A m \in 0 .. pos - 1 : Done(gs[at].slots[m])
        /\ ~Done(gs[at].slots[pos])
        /\ \A m \in pos + 1 .. ChunkSize - 1 : ~Used(gs[at].slots[m])
    BY <1>1, <1>4, <1>15 DEF Tidy
  <2>2. PICK ys : ys = es[at].slots
    OBVIOUS
  <2>3. /\ \A m \in 0 .. pos - 1 : Done(ys[m])
        /\ \A m \in pos + 1 .. ChunkSize - 1 : ~Used(ys[m])
    BY <1>1, <1>4, <1>9, <1>11, <2>1, <2>2
  <2>4. CASE to = pos /\ x.slots[pos].value = gs[at].slots[pos].value
    <3>1. ~Done(ys[pos])
      BY <1>9, <1>11, <2>1, <2>2, <2>4 DEF Done
    <3> QED
      BY <2>2, <2>3, <2>4, <3>1 DEF Tidy
  <2>5. CASE to = pos + 1 /\ x.slots[pos].value = Len(input) + 1
    <3>1. Done(ys[pos])
      <4>1. Len(input) \in Nat
        BY <1>1, LenProperties DEF ParserTypeOK
      <4> QED
        BY <1>11, <2>2, <2>5, <4>1 DEF Done
    <3>2. \A m \in 0 .. to - 1 : Done(ys[m])
      BY <1>4, <2>3, <2>5, <3>1
    <3>3. /\ to < ChunkSize => ~Done(ys[to])
          /\ \A m \in to + 1 .. ChunkSize - 1 : ~Used(ys[m])
      <4>1. to < ChunkSize => to \in pos + 1 .. ChunkSize - 1
        BY <1>1, <1>4, <2>5
      <4>2. \A m \in to + 1 .. ChunkSize - 1 : m \in pos + 1 .. ChunkSize - 1
        BY <1>1, <1>4, <2>5
      <4> QED
        BY <2>3, <4>1, <4>2 DEF Done, Used
    <3> QED
      BY <2>2, <3>2, <3>3 DEF Tidy
  <2> QED
    BY <1>9, <2>4, <2>5
<1>17. PICK more : StillOwned(es, more, own, at)
  BY <1>14, <1>15 DEF OwnedAlso, StillOwned
<1>18. SameBelow(es)
  <2>1. \A i \in 1 .. Len(stack) - 1 : stack[i].at \in 1 .. Len(gs)
    <3>1. Len(stack) \in Nat /\ Len(gs) \in Nat
      BY <1>1, <1>4, LenProperties DEF ParserTypeOK
    <3> TAKE i \in 1 .. Len(stack) - 1
    <3>2. i \in 1 .. Len(stack)
      BY <3>1
    <3>3. stack[i].at \in 1 .. Len(chunks)
      BY <1>1, <3>2 DEF ParserTypeOK, StackOK
    <3> QED
      BY <1>1, <1>4, <3>1, <3>3
  <2> QED
    BY <1>8, <1>11, <2>1 DEF SameBelow
<1>19. /\ Tidies(es, SetTop(at, to)) /\ OwnsOpen(es, SetTop(at, to), more)
       /\ OpenOf(es, SetTop(at, to)) = OpenOf(chunks, stack)
  <2>1. at \in Nat /\ to \in 0 .. ChunkSize
    <3>1. Len(gs) \in Nat
      BY <1>4, LenProperties
    <3> QED
      BY <1>1, <1>4, <1>9, <3>1
  <2> QED
    BY <1>1, <1>2, <1>16, <1>17, <1>18, <2>1, PlacesAfter
<1>20. phase' = "parsing" /\ input' = Append(input, t)
  BY <1>12 DEF GoOn
<1>21. ContainersInv'
  <2>1. /\ Len(Append(input, t)) = Len(input) + 1 /\ Len(input) \in Nat
        /\ Len(input) + 1 <= MaxSize /\ MaxSize \in Nat
    BY <1>1, OneMoreToken
  <2>2. Len(es) <= 2 * (Len(input) + 1)
    <3>1. Len(es) \in Nat
      BY <1>11, LenProperties
    <3> QED
      BY <1>1, <1>5, <1>11, <2>1, <3>1
  <2>3. Placed(es, SetTop(at, to))
    BY <1>19 DEF Placed
  <2>4. Len(input') = Len(input) + 1
    BY <1>20, <2>1
  <2>5. Len(input') <= MaxSize /\ Len(chunks') <= 2 * Len(input')
    BY <1>12, <2>1, <2>2, <2>4
  <2>6. Full(chunks') /\ Placed(chunks', stack')
    BY <1>12, <1>15, <2>3
  <2> QED
    BY <1>20, <2>5, <2>6 DEF ContainersInv
<1>22. IsKeyOrValue(e, Contents(chunks)[f])
  <2>1. PICK slot : slot = es[at].slots[pos]
    OBVIOUS
  <2>2. e = Held(slot) /\ slot = x.slots[pos] /\ slot.sub = 0
    BY <1>1, <1>4, <1>9, <1>11, <1>14, <1>15, <2>1 DEF Tidy, Done
  <2>3. CASE t.text \in (Labels \cup {"true"}) \ {NoLabel} /\ slot.key = t.text /\ slot.value = gs[at].slots[pos].value
    <3>1. slot.value = 0
      BY <1>1, <1>4, <1>15, <2>3 DEF Tidy, Done
    <3>2. e = Tree!Element(t.text, "nothing", 0)
      BY <2>2, <2>3, <3>1 DEF Held, Tree!Element
    <3> QED
      BY <2>3, <3>2 DEF IsKeyOrValue
  <2>4. CASE slot.key = gs[at].slots[pos].key /\ slot.value = Len(input) + 1
    <3>1. Len(input) + 1 \in 1 .. MaxSize /\ Len(input) + 1 # 0
      <4>1. Len(input) \in Nat /\ Len(input) + 1 <= MaxSize /\ MaxSize \in Nat
        BY <1>1, OneMoreToken
      <4> QED
        BY <4>1
    <3>2. e = Tree!Element(slot.key, "value", Len(input) + 1)
      BY <2>2, <2>4, <3>1 DEF Held, Tree!Element
    <3>3. slot.key = KeyOf(Contents(chunks)[f])
      BY <1>15, <2>4, Zenon
    <3> QED
      BY <3>1, <3>2, <3>3, Zenon DEF IsKeyOrValue
  <2> QED
    BY <1>9, <2>2, <2>3, <2>4
<1>23. Tree!Next
  <2>1. chunks # <<>> /\ es # <<>>
    <3>1. st \in 1 .. Len(chunks)
      BY <1>1 DEF ParserTypeOK
    <3> QED
      BY <1>1, <1>4, <1>11, <3>1, EmptySeq
  <2>2. f \in DOMAIN Contents(chunks)
    BY <1>15 DEF Contents
  <2>3. /\ OpenOf(chunks, stack) # <<>>
        /\ OpenOf(chunks, stack)[Len(OpenOf(chunks, stack))] = f
    BY <1>1, <1>2, <1>14, InnermostIs
  <2>4. OpenOf(chunks', stack') = OpenOf(chunks, stack)
    BY <1>12, <1>19
  <2>5. Contents(chunks') = PutInto(Contents(chunks), f, e)
    BY <1>12, <1>15, Zenon
  <2>6. chunks' # <<>>
    BY <1>12, <2>1
  <2> QED
    BY <1>20, <1>22, <2>1, <2>2, <2>3, <2>4, <2>5, <2>6, AddsOne
<1> QED
  BY <1>21, <1>23

(* An error: the document is gone.                                         *)
LEMMA RefuseBuilds ==
  ASSUME phase = "parsing", phase' = "refused"
  PROVE  ContainersInv' /\ Tree!Next
<1>1. ContainersInv'
  BY DEF ContainersInv
<1>2. TreePhase = "parsing"
  BY TreeNow
<1>3. /\ TreePhase' = "refused" /\ TreeRoot' = 0 /\ TreeOpen' = <<>>
      /\ TreeElements' = Contents(<<>>)
  BY DEF TreePhase, TreeRoot, TreeOpen, TreeElements, Refused
<1>4. Contents(<<>>) = Tree!Nothing
  <2>1. Firsts(<<>>) = {}
    BY DEF Firsts
  <2> QED
    BY <2>1 DEF Contents, Tree!Nothing
<1>5. Tree!Refuse
  BY <1>3, <1>4, Zenon DEF Tree!Refuse
<1> QED
  BY <1>1, <1>2, <1>5, Zenon DEF Tree!Next

(* A token that changes nothing in memory and on the stack.                *)
LEMMA OtherBuilds ==
  ASSUME ParserTypeOK, ContainersInv, phase = "parsing", NEW t \in Tokens, MayRead(t), GoOn(t),
         chunks' = chunks, stack' = stack
  PROVE  ContainersInv' /\ UNCHANGED Tree!vars
<1>1. phase' = "parsing" /\ input' = Append(input, t)
  BY DEF GoOn
<1>2. ContainersInv'
  <2>1. /\ Len(input') = Len(input) + 1 /\ Len(input) \in Nat /\ Len(chunks) \in Nat
        /\ Len(input') <= MaxSize
    BY <1>1, OneMoreToken, LenProperties DEF ParserTypeOK
  <2>2. Len(chunks') <= 2 * Len(input')
    BY <2>1 DEF ContainersInv
  <2>3. Full(chunks') /\ Placed(chunks', stack')
    BY DEF ContainersInv
  <2> QED
    BY <1>1, <2>1, <2>2, <2>3 DEF ContainersInv
<1>3. UNCHANGED <<TreePhase, TreeRoot, TreeOpen, TreeElements>>
  <2>1. /\ TreePhase = "parsing" /\ TreeRoot = (IF chunks = <<>> THEN 0 ELSE 1)
        /\ TreeOpen = OpenOf(chunks, stack) /\ TreeElements = Contents(chunks)
    BY TreeNow
  <2>2. /\ TreePhase' = "parsing" /\ TreeRoot' = (IF chunks' = <<>> THEN 0 ELSE 1)
        /\ TreeOpen' = OpenOf(chunks', stack') /\ TreeElements' = Contents(chunks')
    BY <1>1, TreeNext
  <2> QED
    BY <2>1, <2>2
<1> QED
  BY <1>2, <1>3 DEF Tree!vars

(* A closing bracket closes the innermost container.                       *)
LEMMA CloseBuilds ==
  ASSUME ParserTypeOK, ContainersInv, phase = "parsing", NEW t \in Tokens, MayRead(t),
         CloseContainer(t)
  PROVE  ContainersInv' /\ Tree!Next
<1>1. CASE CloseMisplaced(t.type)
  BY <1>1, RefuseBuilds DEF CloseContainer, Refuse
<1>2. CASE ~CloseMisplaced(t.type)
  <2>1. stack # <<>> /\ stack \in Seq(Place)
    BY <1>2 DEF CloseMisplaced, ParserTypeOK
  <2>2. GoOn(t) /\ stack' = Front(stack) /\ chunks' = chunks
    BY <1>2 DEF CloseContainer
  <2>3. PICK n, s : n = Len(stack) - 1 /\ s = Front(stack)
    OBVIOUS
  <2>4. n \in Nat /\ n <= Len(stack) /\ Len(stack) = n + 1
    BY <2>1, <2>3, HasLast
  <2>5. s = SubSeq(stack, 1, n)
    BY <2>3 DEF Front
  <2>6. Len(s) = n /\ \A i \in 1 .. n : s[i] = stack[i]
    BY <2>1, <2>4, <2>5, WithoutLast
  <2>7. /\ \A i \in 1 .. n : i \in 1 .. n + 1
        /\ \A i \in 1 .. n - 1 : i \in 1 .. n /\ i \in 1 .. n + 1 - 1
        /\ \A i \in 1 .. n : i = 1 \/ i - 1 \in 1 .. n
    BY <2>4
  <2>8. PICK own : OwnsOpen(chunks, stack, own)
    BY DEF ContainersInv, Placed
  <2>9. \A i \in 1 .. n : OpenIn(chunks, s, i) = OpenIn(chunks, stack, i)
    <3> TAKE i \in 1 .. n
    <3>1. CASE i = 1
      BY <3>1 DEF OpenIn
    <3>2. CASE i # 1
      <4>1. PICK j \in 1 .. n : j = i - 1
        BY <2>7, <3>2
      <4>2. s[j] = stack[j]
        BY <2>6
      <4> QED
        BY <3>2, <4>1, <4>2, Zenon DEF OpenIn
    <3> QED
      BY <3>1, <3>2
  <2>10. OwnsOpen(chunks, s, own)
    BY <2>4, <2>6, <2>7, <2>8, <2>9 DEF OwnsOpen
  <2>11. Tidies(chunks, s)
    <3>1. Tidies(chunks, stack)
      BY DEF ContainersInv, Placed
    <3> QED
      BY <2>4, <2>6, <2>7, <3>1 DEF Tidies
  <2>12. phase' = "parsing" /\ input' = Append(input, t) /\ stack' = s
    BY <2>2, <2>3 DEF GoOn
  <2>13. ContainersInv'
    <3>1. /\ Len(input') = Len(input) + 1 /\ Len(input) \in Nat /\ Len(chunks) \in Nat
          /\ Len(input') <= MaxSize
      BY <2>12, OneMoreToken, LenProperties DEF ParserTypeOK
    <3>2. Len(chunks') <= 2 * Len(input')
      BY <2>2, <3>1 DEF ContainersInv
    <3>3. Placed(chunks, s)
      BY <2>10, <2>11 DEF Placed
    <3>4. Full(chunks') /\ Placed(chunks', stack')
      BY <2>2, <2>12, <3>3 DEF ContainersInv
    <3> QED
      BY <2>12, <3>1, <3>2, <3>4 DEF ContainersInv
  <2>14. PICK o : o = OpenOf(chunks, stack)
    OBVIOUS
  <2>15. o = [i \in 1 .. n + 1 |-> OpenIn(chunks, stack, i)]
    BY <2>4, <2>14 DEF OpenOf
  <2>16. Len(o) = n + 1 /\ o # <<>>
    BY <2>4, <2>15
  <2>17. OpenOf(chunks, s) = SubSeq(o, 1, Len(o) - 1)
    <3>1. Len(o) - 1 = n
      BY <2>4, <2>16
    <3>2. SubSeq(o, 1, n) = [i \in 1 .. n |-> o[i]]
      BY <2>4, <2>15, <2>16
    <3>3. \A i \in 1 .. n : o[i] = OpenIn(chunks, s, i)
      BY <2>4, <2>7, <2>9, <2>15
    <3>4. OpenOf(chunks, s) = [i \in 1 .. n |-> OpenIn(chunks, s, i)]
      BY <2>6 DEF OpenOf
    <3> QED
      BY <3>1, <3>2, <3>3, <3>4, Zenon
  <2>18. /\ TreePhase = "parsing" /\ TreeOpen = o /\ TreePhase' = "parsing"
         /\ TreeOpen' = SubSeq(o, 1, Len(o) - 1)
         /\ TreeRoot' = TreeRoot /\ TreeElements' = TreeElements
    <3>1. /\ TreePhase = "parsing" /\ TreeRoot = (IF chunks = <<>> THEN 0 ELSE 1)
          /\ TreeOpen = OpenOf(chunks, stack) /\ TreeElements = Contents(chunks)
      BY TreeNow
    <3>2. /\ TreePhase' = "parsing" /\ TreeRoot' = (IF chunks' = <<>> THEN 0 ELSE 1)
          /\ TreeOpen' = OpenOf(chunks', stack') /\ TreeElements' = Contents(chunks')
      BY <2>12, TreeNext
    <3>3. OpenOf(chunks', stack') = OpenOf(chunks, s)
      BY <2>2, <2>12
    <3> QED
      BY <2>2, <2>14, <2>17, <3>1, <3>2, <3>3
  <2>19. Tree!Close
    BY <2>16, <2>18, Zenon DEF Tree!Close
  <2> QED
    BY <2>13, <2>18, <2>19, Zenon DEF Tree!Next
<1> QED
  BY <1>1, <1>2

(* At the end of the input the document is handed over if all is closed,   *)
(* and one token alone opened nothing.                                     *)
LEMMA EndBuilds ==
  ASSUME ParserInv, NestingInv, ContainersInv, EndOfInput
  PROVE  ContainersInv' /\ Tree!Next
<1>1. /\ phase = "parsing" /\ phase' \in {"accepted", "refused"}
      /\ UNCHANGED <<chunks, stack>>
  BY DEF EndOfInput
<1>2. CASE phase' = "refused"
  BY <1>1, <1>2, RefuseBuilds
<1>3. CASE phase' = "accepted"
  <2>1. stack = <<>>
    <3>1. CASE SingleToken
      <4>1. /\ Change(input[1]) = 0 /\ Len(input) = 1 /\ 1 \in 1 .. Len(input)
        BY <1>3, <3>1 DEF EndOfInput, Change, Opens, Closes, Scalars, SingleToken
      <4>2. input \in Seq(Tokens) /\ stack \in Seq(Place) /\ Nests(input, stack)
        BY <1>1 DEF ParserInv, ParserTypeOK, NestingInv
      <4>3. /\ Levels(input)[1] = 0
            /\ \A i \in 1 .. Len(input) : Levels(input)[i + 1] = Levels(input)[i] + Change(input[i])
        BY <4>2, LevelsSteps
      <4>4. Len(stack) = 0
        BY <4>1, <4>2, <4>3 DEF Nests
      <4> QED
        BY <4>2, <4>4, EmptySeq
    <3>2. CASE ~SingleToken
      BY <1>3, <3>2 DEF EndOfInput
    <3> QED
      BY <3>1, <3>2
  <2>2. ContainersInv'
    BY <1>1, <1>3, <2>1 DEF ContainersInv
  <2>3. /\ TreePhase = "parsing" /\ TreeRoot = (IF chunks = <<>> THEN 0 ELSE 1)
        /\ TreeOpen = OpenOf(chunks, stack) /\ TreeElements = Contents(chunks)
    BY <1>1, TreeNow
  <2>4. /\ TreePhase' = "accepted" /\ TreeRoot' = (IF chunks = <<>> THEN 0 ELSE 1)
        /\ TreeOpen' = OpenOf(chunks, stack) /\ TreeElements' = Contents(chunks)
    BY <1>1, <1>3 DEF TreePhase, TreeRoot, TreeOpen, TreeElements, Refused
  <2>5. OpenOf(chunks, stack) = <<>>
    <3>1. Len(stack) = 0
      BY <2>1
    <3> QED
      BY <3>1 DEF OpenOf
  <2>6. Tree!Accept
    BY <2>3, <2>4, <2>5, Zenon DEF Tree!Accept
  <2> QED
    BY <2>2, <2>3, <2>6, Zenon DEF Tree!Next
<1> QED
  BY <1>1, <1>2, <1>3

(* In a new chunk the first element may be put.                            *)
LEMMA NewIsTidy ==
  ASSUME NEW cs, NEW n, cs[n] = NewChunk
  PROVE  Tidy(cs, n, 0)
<1>1. ChunkSize \in Nat \ {0}
  BY ConstantsAssumption
<1>2. \A m \in 0 .. ChunkSize - 1 : cs[n].slots[m] = EmptySlot
  BY DEF NewChunk
<1>3. ~Done(EmptySlot) /\ ~Used(EmptySlot)
  BY DEF EmptySlot, Done, Used
<1>4. 0 \in 0 .. ChunkSize - 1 /\ 0 .. 0 - 1 = {} /\ \A m \in 0 + 1 .. ChunkSize - 1 : m \in 0 .. ChunkSize - 1
  BY <1>1
<1> QED
  BY <1>2, <1>3, <1>4 DEF Tidy

(* The outermost container: the first chunk.                               *)
LEMMA OpenFirstBuilds ==
  ASSUME ParserInv, MemoryInv, ContainersInv, phase = "parsing",
         NEW t \in Tokens, MayRead(t), t.type \in Opens, OpenFirst(t)
  PROVE  ContainersInv' /\ Tree!Next
<1>1. /\ ParserTypeOK /\ chunks = <<>> /\ stack = <<>>
      /\ Push(t, Append(chunks, NewChunk), stack)
  BY DEF OpenFirst, MemoryInv, ParserInv, Bare
<1>2. PICK cs, p, loose : cs = chunks /\ p = Position(t.type, 1, 0) /\ loose = {}
  OBVIOUS
<1>3. cs \in Seq(Chunk) /\ Len(cs) = 0 /\ Forest(cs, loose) /\ Full(cs) /\ DOMAIN cs = {}
  <2>1. Forest(chunks, {}) /\ Full(chunks) /\ chunks \in Seq(Chunk) /\ Len(chunks) = 0
    BY <1>1, EmptySeq DEF MemoryInv, ContainersInv, ParserTypeOK
  <2> QED
    BY <1>1, <1>2, <2>1
<1>4. PICK es, n : es = Append(cs, NewChunk) /\ n = 1
  OBVIOUS
<1>5. /\ es \in Seq(Chunk) /\ Len(es) = n /\ es[n] = NewChunk /\ n = Len(cs) + 1
      /\ \A d \in 1 .. Len(cs) : es[d] = cs[d]
      /\ Forest(es, loose \cup {n})
  <2>1. PICK k : k = Len(cs) + 1
    OBVIOUS
  <2>2. /\ es \in Seq(Chunk) /\ Len(es) = k /\ es[k] = NewChunk
        /\ \A d \in 1 .. Len(cs) : es[d] = cs[d]
    BY <1>3, <1>4, <2>1, Allocated
  <2>3. Forest(es, loose \cup {k})
    BY <1>3, <1>4, <2>1, Allocated
  <2>4. k = n
    BY <1>3, <1>4, <2>1
  <2> QED
    BY <2>1, <2>2, <2>3, <2>4
<1>6. Chained(cs) /\ Chained(es)
  BY <1>3, <1>5, ForestChained
<1>7. PICK own : own = [c \in {} |-> c]
  OBVIOUS
<1>8. Owned(cs, own) /\ Firsts(cs) = {}
  BY <1>3, <1>7 DEF Owned, Firsts
<1>9. /\ Full(es) /\ Firsts(es) = Firsts(cs) \cup {n}
      /\ Contents(es)[n] = <<>>
      /\ OwnedAlso(es, cs, own, n, n)
  <2>1. Lengthened(es, cs, n)
    BY <1>5 DEF Lengthened
  <2>2. Full(es) /\ EmptyAlso(es, cs, n) /\ OwnedAlso(es, cs, own, n, n)
    BY <1>3, <1>5, <1>6, <1>8, <2>1, OneMoreContainer
  <2> QED
    BY <2>2 DEF EmptyAlso
<1>10. PICK more : Owned(es, more) /\ more[n] = n
  BY <1>9 DEF OwnedAlso
<1>11. Contents(es) = [d \in {n} |-> <<>>]
  <2>1. Contents(es) = [d \in {n} |-> Contents(es)[d]]
    BY <1>8, <1>9 DEF Contents
  <2> QED
    BY <1>9, <2>1
<1>12. p \in Place /\ p.at = n /\ p.pos = 0
  BY <1>2, <1>4, ConstantsAssumption DEF Position, Place
<1>13. PICK s : s = <<>>
  OBVIOUS
<1>14. s \in Seq(Place) /\ Len(s) = 0
  BY <1>13, EmptySeq
<1>15. Tidies(es, s) /\ OwnsOpen(es, s, more)
  BY <1>10, <1>14 DEF Tidies, OwnsOpen
<1>16. /\ Tidies(es, Append(s, p)) /\ OwnsOpen(es, Append(s, p), more)
       /\ OpenOf(es, Append(s, p)) = Append(OpenOf(es, s), more[p.at])
  <2>1. Tidy(es, p.at, p.pos)
    BY <1>5, <1>12, NewIsTidy
  <2>2. more[p.at] = 1
    BY <1>4, <1>10, <1>12
  <2>3. HangsLast(es, s, p, more)
    BY <1>13, <2>2 DEF HangsLast
  <2> QED
    BY <1>12, <1>14, <1>15, <2>1, <2>3, PlacesPushed
<1>17. /\ GoOn(t) /\ chunks' = es /\ stack' = Append(s, p)
  <2>1. Len(chunks) + 1 = 1
    BY <1>1
  <2>2. /\ GoOn(t) /\ chunks' = Append(chunks, NewChunk)
        /\ stack' = Append(stack, Position(t.type, Len(chunks) + 1, 0))
    BY <1>1 DEF Push
  <2> QED
    BY <1>1, <1>2, <1>4, <1>13, <2>1, <2>2
<1>18. phase' = "parsing" /\ input' = Append(input, t)
  BY <1>17 DEF GoOn
<1>19. /\ Len(input') = Len(input) + 1 /\ Len(input) \in Nat
       /\ Len(input') <= MaxSize /\ MaxSize \in Nat
  BY <1>1, <1>18, OneMoreToken
<1>20. ContainersInv'
  <2>1. Len(chunks') <= 2 * Len(input')
    BY <1>4, <1>5, <1>17, <1>19
  <2>2. Placed(es, Append(s, p))
    BY <1>16 DEF Placed
  <2>3. Full(chunks') /\ Placed(chunks', stack')
    BY <1>9, <1>17, <2>2
  <2> QED
    BY <1>18, <1>19, <2>1, <2>3 DEF ContainersInv
<1>21. Tree!Next
  <2>1. TreePhase = "parsing" /\ TreeRoot = 0
    BY <1>1, TreeNow
  <2>2. /\ TreePhase' = "parsing" /\ TreeRoot' = (IF chunks' = <<>> THEN 0 ELSE 1)
        /\ TreeOpen' = OpenOf(chunks', stack') /\ TreeElements' = Contents(chunks')
    BY <1>18, TreeNext
  <2>3. chunks' # <<>>
    BY <1>4, <1>5, <1>17, EmptySeq
  <2>4. OpenOf(es, s) = <<>>
    BY <1>14 DEF OpenOf
  <2>5. OpenOf(chunks', stack') = <<n>>
    <3>1. OpenOf(es, Append(s, p)) = Append(<<>>, n)
      BY <1>10, <1>12, <1>16, <2>4
    <3>2. Append(<<>>, n) = <<n>>
      OBVIOUS
    <3> QED
      BY <1>17, <3>1, <3>2
  <2>6. TreeElements' = [d \in {n} |-> <<>>]
    BY <1>11, <1>17, <2>2
  <2>7. n \in 1 .. 2 * MaxSize /\ TreeRoot' = n
    BY <1>4, <1>19, <2>2, <2>3
  <2>8. Tree!OpenRoot
    BY <2>1, <2>2, <2>5, <2>6, <2>7 DEF Tree!OpenRoot
  <2> QED
    BY <2>1, <2>8, Zenon DEF Tree!Next
<1> QED
  BY <1>20, <1>21

\* The slot at pos of the chunk at of gs gets the container new, in es.
HangsIn(es, gs, at, pos, new) ==
  /\ PutIn(es, gs, at, pos)
  /\ es[at].slots[pos].key = gs[at].slots[pos].key
  /\ es[at].slots[pos].value = gs[at].slots[pos].value
  /\ es[at].slots[pos].sub = new

(* What j_parse writes when a container opens in another.                  *)
LEMMA NestedWrites ==
  ASSUME ParserTypeOK, NEW t, OpenNested(t), ~StackFull,
         NEW new \in Nat \ {0}, new = Len(chunks) + 1,
         NEW gs \in Seq(Chunk), NEW at \in 1 .. Len(gs), NEW pos \in 0 .. ChunkSize - 1,
         Grown(Append(chunks, NewChunk)).chunks = gs, Grown(Append(chunks, NewChunk)).at = at,
         Grown(Append(chunks, NewChunk)).pos = pos
  PROVE  \E es \in Seq(Chunk) :
           /\ HangsIn(es, gs, at, pos, new)
           /\ GoOn(t) /\ chunks' = es
           /\ stack' = Append(SetTop(at, pos + 1), Position(t.type, new, 0))
<1>1. PICK cs, all : /\ cs = [gs EXCEPT ![at].slots[pos].sub = new]
                     /\ all = [cs EXCEPT ![at].count = @ + 1]
  OBVIOUS
<1>2. Push(t, all, SetTop(at, pos + 1))
  BY <1>1 DEF OpenNested
<1>3. PICK x, y : /\ x = [gs[at] EXCEPT !.slots[pos].sub = new]
                  /\ y = [x EXCEPT !.count = @ + 1]
  OBVIOUS
<1>4. /\ x \in Chunk /\ y \in Chunk
      /\ y.next = gs[at].next /\ y.slots[pos].sub = new
      /\ y.slots[pos].key = gs[at].slots[pos].key /\ y.slots[pos].value = gs[at].slots[pos].value
      /\ \A m \in 0 .. ChunkSize - 1 : m # pos => y.slots[m] = gs[at].slots[m]
  <2>1. gs[at] \in Chunk /\ gs[at].slots \in [0 .. ChunkSize - 1 -> Slot] /\ gs[at].slots[pos] \in Slot
    <3>1. PICK c : c = gs[at]
      OBVIOUS
    <3>2. c \in Chunk
      BY <3>1
    <3>3. c.slots \in [0 .. ChunkSize - 1 -> Slot] /\ c.slots[pos] \in Slot
      BY <3>2 DEF Chunk
    <3> QED
      BY <3>1, <3>2, <3>3
  <2>2. x \in Chunk
    BY <1>3, <2>1, ChunkWrites
  <2>3. y \in Chunk
    BY <1>3, <2>2, ChunkWrites
  <2>4. /\ x.next = gs[at].next
        /\ x.slots[pos] = [gs[at].slots[pos] EXCEPT !.sub = new]
        /\ \A m \in 0 .. ChunkSize - 1 : m # pos => x.slots[m] = gs[at].slots[m]
    BY <1>3, <2>1 DEF Chunk
  <2>5. y.next = x.next /\ y.slots = x.slots
    BY <1>3, <2>2 DEF Chunk
  <2>6. /\ x.slots[pos].sub = new
        /\ x.slots[pos].key = gs[at].slots[pos].key /\ x.slots[pos].value = gs[at].slots[pos].value
    BY <2>1, <2>4 DEF Slot
  <2>7. /\ y.next = gs[at].next
        /\ \A m \in 0 .. ChunkSize - 1 : m # pos => y.slots[m] = gs[at].slots[m]
    BY <2>4, <2>5
  <2> QED
    BY <2>2, <2>3, <2>5, <2>6, <2>7
<1>5. all = [gs EXCEPT ![at] = y]
  <2>1. cs = [gs EXCEPT ![at] = x]
    BY <1>1, <1>3
  <2>2. cs \in Seq(Chunk) /\ cs[at] = x /\ Len(cs) = Len(gs)
    BY <1>4, <2>1, ExceptSeq
  <2>3. all = [cs EXCEPT ![at] = y]
    BY <1>1, <1>3, <2>2
  <2> QED
    BY <2>1, <2>3
<1>6. /\ all \in Seq(Chunk) /\ Len(all) = Len(gs) /\ all[at] = y
      /\ \A d \in 1 .. Len(gs) : d # at => all[d] = gs[d]
  BY <1>4, <1>5, ExceptSeq
<1>7. Used(y.slots[pos])
  BY <1>4 DEF Used
<1>8. HangsIn(all, gs, at, pos, new)
  BY <1>4, <1>6, <1>7 DEF HangsIn, PutIn
<1>9. /\ GoOn(t) /\ chunks' = all
      /\ stack' = Append(SetTop(at, pos + 1), Position(t.type, new, 0))
  BY <1>2 DEF Push
<1> QED
  BY <1>6, <1>8, <1>9

(* One container more in the innermost one is Open.                        *)
LEMMA AddsContainer ==
  ASSUME phase = "parsing", phase' = "parsing", chunks # <<>>, chunks' # <<>>,
         NEW f \in DOMAIN Contents(chunks), NEW e,
         NEW c \in 1 .. 2 * MaxSize, c \notin DOMAIN Contents(chunks),
         e = Tree!Element(KeyOf(Contents(chunks)[f]), "container", c),
         NEW more, DOMAIN more = DOMAIN Contents(chunks) \cup {c},
         \A d \in DOMAIN Contents(chunks) : more[d] = Contents(chunks)[d], more[c] = <<>>,
         OpenOf(chunks, stack) # <<>>, OpenOf(chunks, stack)[Len(OpenOf(chunks, stack))] = f,
         OpenOf(chunks', stack') = Append(OpenOf(chunks, stack), c),
         Contents(chunks') = PutInto(more, f, e)
  PROVE  Tree!Next
<1>1. PICK all, q, o : all = Contents(chunks) /\ q = all[f] /\ o = OpenOf(chunks, stack)
  OBVIOUS
<1>2. /\ TreePhase = "parsing" /\ TreeRoot = 1 /\ TreeOpen = o /\ TreeElements = all
      /\ TreePhase' = "parsing" /\ TreeRoot' = 1 /\ TreeOpen' = Append(o, c)
      /\ TreeElements' = PutInto(more, f, e)
  BY <1>1, TreeNow, TreeNext, Zenon
<1>3. o # <<>> /\ Tree!Innermost = f
  BY <1>1, <1>2 DEF Tree!Innermost
<1>4. Append(WithoutKey(all[f]), e) = Tree!WithThing(all[f], "container", c)
  BY <1>1, Zenon DEF WithoutKey, KeyOf, Tree!WithThing
<1>5. PICK g : g = [d \in DOMAIN TreeElements \cup {c} |->
                      CASE d = c              -> <<>>
                        [] d = Tree!Innermost -> Tree!WithThing(TreeElements[d], "container", c)
                        [] OTHER              -> TreeElements[d]]
  OBVIOUS
<1>6. PICK h : h = PutInto(more, f, e)
  OBVIOUS
<1>7. h = g
  <2>1. DOMAIN more = DOMAIN all \cup {c} /\ c # f /\ f \in DOMAIN all
    BY <1>1
  <2>2. ASSUME NEW d \in DOMAIN all \cup {c} PROVE h[d] = g[d]
    <3>1. CASE d = c
      <4>1. h[c] = more[c]
        BY <1>6, <2>1, <3>1 DEF PutInto
      <4>2. g[c] = <<>>
        BY <1>3, <1>5, <2>1
      <4> QED
        BY <3>1, <4>1, <4>2
    <3>2. CASE d = f
      <4>1. h[f] = Append(WithoutKey(more[f]), e)
        BY <1>6, <2>1 DEF PutInto
      <4>2. more[f] = all[f]
        BY <1>1
      <4>3. g[f] = Tree!WithThing(all[f], "container", c)
        BY <1>2, <1>3, <1>5, <2>1
      <4> QED
        BY <1>4, <3>2, <4>1, <4>2, <4>3, Zenon
    <3>3. CASE d # c /\ d # f
      <4>1. h[d] = more[d]
        BY <1>6, <2>1, <3>3 DEF PutInto
      <4>2. more[d] = all[d]
        BY <1>1, <3>3
      <4>3. g[d] = all[d]
        BY <1>2, <1>3, <1>5, <3>3
      <4> QED
        BY <4>1, <4>2, <4>3
    <3> QED
      BY <3>1, <3>2, <3>3
  <2>3. h = [d \in DOMAIN all \cup {c} |-> h[d]]
    BY <1>6, <2>1 DEF PutInto
  <2>4. g = [d \in DOMAIN all \cup {c} |-> g[d]]
    BY <1>2, <1>5
  <2> QED
    BY <2>2, <2>3, <2>4, Zenon
<1>8. TreeElements' = [d \in DOMAIN TreeElements \cup {c} |->
                         CASE d = c              -> <<>>
                           [] d = Tree!Innermost -> Tree!WithThing(TreeElements[d], "container", c)
                           [] OTHER              -> TreeElements[d]]
  BY <1>2, <1>5, <1>6, <1>7, Zenon
<1>9. c \in (1 .. 2 * MaxSize) \ DOMAIN TreeElements
  BY <1>1, <1>2
<1>10. TreeOpen' = Append(TreeOpen, c) /\ TreeOpen # <<>> /\ TreePhase' = TreePhase /\ TreeRoot' = TreeRoot
  BY <1>2, <1>3, Zenon
<1>11. Tree!Open
  BY <1>8, <1>9, <1>10, Zenon DEF Tree!Open
<1> QED
  BY <1>2, <1>11, Zenon DEF Tree!Next

(* A container inside the innermost one: its first chunk is new, and hangs *)
(* in the next slot of that one, which may be in a new chunk as well.      *)
LEMMA OpenNestedBuilds ==
  ASSUME ParserInv, MemoryInv, ContainersInv, phase = "parsing",
         NEW t \in Tokens, MayRead(t), t.type \in Opens, OpenNested(t), ~StackFull
  PROVE  ContainersInv' /\ Tree!Next
<1>1. /\ ParserTypeOK /\ stack # <<>> /\ chunks \in Seq(Chunk) /\ Len(chunks) \in Nat
      /\ Forest(chunks, {}) /\ Spots(chunks, stack) /\ ChunkSize \in Nat \ {0}
      /\ Full(chunks) /\ Tidies(chunks, stack) /\ Len(chunks) <= 2 * Len(input)
  <2>1. ParserTypeOK /\ stack # <<>>
    BY DEF OpenNested, ParserInv
  <2>2. chunks \in Seq(Chunk) /\ Len(chunks) \in Nat
    BY <2>1, LenProperties DEF ParserTypeOK
  <2>3. Forest(chunks, {}) /\ Spots(chunks, stack)
    BY DEF MemoryInv
  <2> QED
    BY <2>1, <2>2, <2>3, ConstantsAssumption DEF ContainersInv, Placed
<1>2. PICK own : OwnsOpen(chunks, stack, own)
  BY DEF ContainersInv, Placed
<1>3. PICK new, more, base : new = Len(chunks) + 1 /\ more = Append(chunks, NewChunk) /\ base = chunks
  OBVIOUS
<1>4. /\ more \in Seq(Chunk) /\ Len(more) = new /\ more[new] = NewChunk
      /\ \A d \in 1 .. Len(base) : more[d] = base[d]
      /\ Forest(more, {new})
  <2>1. Forest(more, {} \cup {new})
    BY <1>1, <1>3, Allocated
  <2>2. {} \cup {new} = {new}
    OBVIOUS
  <2>3. /\ more \in Seq(Chunk) /\ Len(more) = new /\ more[new] = NewChunk
        /\ \A d \in 1 .. Len(base) : more[d] = base[d]
    BY <1>1, <1>3, NewAppended
  <2> QED
    BY <2>1, <2>2, <2>3
<1>5. /\ new \in Nat \ {0} /\ new \notin 1 .. Len(chunks)
      /\ base \in Seq(Chunk) /\ Full(base) /\ Owned(base, own) /\ Chained(base) /\ Chained(more)
      /\ new = Len(base) + 1
  BY <1>1, <1>2, <1>3, <1>4, ForestChained DEF OwnsOpen
<1>6. /\ Full(more)
      /\ Firsts(more) = Firsts(base) \cup {new} /\ new \notin Firsts(base)
      /\ \A f \in Firsts(base) : Contents(more)[f] = Contents(base)[f]
      /\ Contents(more)[new] = <<>>
      /\ OwnedAlso(more, base, own, new, new)
  <2>1. Lengthened(more, base, new)
    BY <1>4, <1>5 DEF Lengthened
  <2>2. Full(more) /\ EmptyAlso(more, base, new) /\ OwnedAlso(more, base, own, new, new)
    BY <1>4, <1>5, <2>1, OneMoreContainer
  <2> QED
    BY <2>2 DEF EmptyAlso
<1>7. PICK owner : Owned(more, owner) /\ owner[new] = new /\ \A c \in DOMAIN base : owner[c] = own[c]
  BY <1>6 DEF OwnedAlso
<1>8. PICK gs, at, pos, loose :
        gs = Grown(more).chunks /\ at = Grown(more).at /\ pos = Grown(more).pos /\ loose = {new}
  OBVIOUS
<1>9. /\ Len(more) >= Len(chunks) /\ Forest(more, loose)
      /\ \A l \in loose : l \notin 1 .. Len(chunks)
      /\ \A d \in 1 .. Len(chunks) : more[d] = chunks[d]
  BY <1>1, <1>3, <1>4, <1>5, <1>8
<1>10. /\ gs \in Seq(Chunk) /\ at \in 1 .. Len(gs) /\ pos \in 0 .. ChunkSize - 1
       /\ Len(gs) >= Len(more)
  BY <1>1, <1>4, <1>8, <1>9, GrownType
<1>11. Len(gs) <= Len(more) + 1
  <2>1. Len(Grown(more).chunks) <= Len(more) + 1
    BY <1>1, <1>4, <1>9, GrownLength
  <2> QED
    BY <1>8, <2>1
<1>12. /\ Forest(gs, loose) /\ at \notin loose
       /\ \A i \in 1 .. Len(stack) - 1 : gs[stack[i].at] = chunks[stack[i].at] /\ stack[i].at # at
  BY <1>1, <1>4, <1>8, <1>9, GrownForest
<1>13. PICK es \in Seq(Chunk) :
         /\ HangsIn(es, gs, at, pos, new)
         /\ GoOn(t) /\ chunks' = es
         /\ stack' = Append(SetTop(at, pos + 1), Position(t.type, new, 0))
  <2>1. Grown(Append(chunks, NewChunk)).chunks = gs /\ Grown(Append(chunks, NewChunk)).at = at
        /\ Grown(Append(chunks, NewChunk)).pos = pos
    BY <1>3, <1>8
  <2> QED
    BY <1>1, <1>3, <1>5, <1>10, <2>1, NestedWrites
<1>14. /\ PutIn(es, gs, at, pos) /\ es[at].slots[pos].key = gs[at].slots[pos].key
       /\ es[at].slots[pos].value = gs[at].slots[pos].value /\ es[at].slots[pos].sub = new
  BY <1>13 DEF HangsIn
<1>15. PICK f, e : f = own[st] /\ e = Held(es[at].slots[pos])
  OBVIOUS
<1>16. st \in DOMAIN base /\ owner[st] = f /\ f \in Firsts(base)
  <2>1. st \in 1 .. Len(chunks)
    <3>1. Len(stack) \in 1 .. Len(stack)
      BY <1>1, HasLast DEF ParserTypeOK
    <3> QED
      BY <1>1, <3>1 DEF ParserTypeOK, StackOK, Top
  <2>2. st \in DOMAIN base
    BY <1>3, <1>5, <2>1, LenProperties
  <2> QED
    BY <1>5, <1>7, <1>15, <2>2 DEF Owned
<1>17. /\ Full(es) /\ Tidy(gs, at, pos)
       /\ Contents(es) = PutInto(Contents(more), f, e)
       /\ KeyOf(Contents(more)[f]) = gs[at].slots[pos].key
       /\ OwnedAlso(es, more, owner, at, f)
  <2>1. Tidy(chunks, Top.at, Top.pos)
    <3>1. Len(stack) \in 1 .. Len(stack)
      BY <1>1, HasLast DEF ParserTypeOK
    <3> QED
      BY <1>1, <3>1 DEF Tidies, Top
  <2>2. /\ Full(es) /\ Tidy(gs, at, pos)
        /\ owner[st] \in Firsts(more)
        /\ Contents(es) = PutInto(Contents(more), owner[st], Held(es[at].slots[pos]))
        /\ KeyOf(Contents(more)[owner[st]]) = gs[at].slots[pos].key
        /\ OwnedAlso(es, more, owner, at, owner[st])
    <3>1. Beyond(more, loose) /\ GrownIs(more, gs, at, pos)
      BY <1>8, <1>9 DEF Beyond, GrownIs
    <3>2. Owned(more, owner) /\ Full(more) /\ more \in Seq(Chunk) /\ PutIn(es, gs, at, pos)
      BY <1>4, <1>6, <1>7, <1>14
    <3>3. /\ ParserTypeOK /\ stack # <<>> /\ Spots(chunks, stack)
          /\ gs \in Seq(Chunk) /\ at \in 1 .. Len(gs) /\ pos \in 0 .. ChunkSize - 1
          /\ es \in Seq(Chunk)
      BY <1>1, <1>10, <1>13
    <3> QED
      BY <2>1, <3>1, <3>2, <3>3, PutContents
  <2>3. Contents(es) = PutInto(Contents(more), f, e)
    BY <1>15, <1>16, <2>2, Zenon
  <2>4. KeyOf(Contents(more)[f]) = gs[at].slots[pos].key
    BY <1>16, <2>2, Zenon
  <2>5. OwnedAlso(es, more, owner, at, f)
    BY <1>16, <2>2, Zenon
  <2> QED
    BY <2>2, <2>3, <2>4, <2>5
<1>18. PICK holder : /\ Owned(es, holder) /\ holder[at] = f
                         /\ \A c \in DOMAIN more : holder[c] = owner[c]
  BY <1>17 DEF OwnedAlso
<1>19. StillOwned(es, holder, own, at) /\ holder[new] = new
  <2>1. DOMAIN more = 1 .. new /\ DOMAIN base = 1 .. Len(base)
    BY <1>4, <1>5, LenProperties
  <2>2. new \in DOMAIN more /\ \A c \in DOMAIN base : c \in DOMAIN more
    BY <1>5, <2>1
  <2>3. \A c \in DOMAIN chunks : holder[c] = own[c]
    BY <1>3, <1>7, <1>18, <2>2
  <2> QED
    BY <1>7, <1>15, <1>18, <2>2, <2>3 DEF StillOwned
<1>20. /\ Len(es) = Len(gs) /\ es[at].next = gs[at].next
       /\ \A d \in 1 .. Len(gs) : d # at => es[d] = gs[d]
       /\ \A m \in 0 .. ChunkSize - 1 : m # pos => es[at].slots[m] = gs[at].slots[m]
  BY <1>14 DEF PutIn
<1>21. SameBelow(es)
  <2>1. \A i \in 1 .. Len(stack) - 1 : stack[i].at \in 1 .. Len(gs)
    <3>1. Len(stack) \in Nat /\ Len(gs) \in Nat /\ Len(gs) >= Len(chunks)
      BY <1>1, <1>4, <1>9, <1>10, LenProperties DEF ParserTypeOK
    <3> TAKE i \in 1 .. Len(stack) - 1
    <3>2. i \in 1 .. Len(stack)
      BY <3>1
    <3>3. stack[i].at \in 1 .. Len(chunks)
      BY <1>1, <3>2 DEF ParserTypeOK, StackOK
    <3> QED
      BY <1>1, <3>1, <3>3
  <2> QED
    BY <1>12, <1>20, <2>1 DEF SameBelow
<1>22. es[new] = NewChunk /\ Tidy(es, new, 0)
  <2>1. gs[new] = NewChunk /\ new \in DOMAIN gs
    BY <1>8, <1>12 DEF Forest, Loose
  <2>2. new # at /\ new \in 1 .. Len(gs)
    BY <1>8, <1>10, <1>12, <2>1, LenProperties
  <2> QED
    BY <1>20, <2>1, <2>2, NewIsTidy
<1>23. PICK to : to = pos + 1
  OBVIOUS
<1>24. to \in 1 .. ChunkSize /\ to \in 0 .. ChunkSize /\ at \in Nat /\ to - 1 = pos
  BY <1>1, <1>10, <1>23, LenProperties
<1>25. Tidy(es, at, to)
  <2>1. /\ \A m \in 0 .. pos - 1 : Done(gs[at].slots[m])
        /\ \A m \in pos + 1 .. ChunkSize - 1 : ~Used(gs[at].slots[m])
    BY <1>17 DEF Tidy
  <2>2. PICK ys : ys = es[at].slots
    OBVIOUS
  <2>3. /\ \A m \in 0 .. pos - 1 : Done(ys[m])
        /\ \A m \in pos + 1 .. ChunkSize - 1 : ~Used(ys[m])
    BY <1>1, <1>10, <1>20, <2>1, <2>2
  <2>4. Done(ys[pos])
    BY <1>5, <1>14, <2>2 DEF Done
  <2>5. \A m \in 0 .. to - 1 : Done(ys[m])
    BY <1>10, <1>24, <2>3, <2>4
  <2>6. /\ to < ChunkSize => ~Done(ys[to])
        /\ \A m \in to + 1 .. ChunkSize - 1 : ~Used(ys[m])
    <3>1. to < ChunkSize => to \in pos + 1 .. ChunkSize - 1
      BY <1>1, <1>10, <1>23
    <3>2. \A m \in to + 1 .. ChunkSize - 1 : m \in pos + 1 .. ChunkSize - 1
      BY <1>1, <1>10, <1>23
    <3> QED
      BY <2>3, <3>1, <3>2 DEF Done, Used
  <2> QED
    BY <2>2, <2>5, <2>6 DEF Tidy
<1>26. PICK s, p : s = SetTop(at, to) /\ p = Position(t.type, new, 0)
  OBVIOUS
<1>27. /\ Tidies(es, s) /\ OwnsOpen(es, s, holder)
       /\ OpenOf(es, s) = OpenOf(chunks, stack)
  BY <1>1, <1>2, <1>19, <1>21, <1>24, <1>25, <1>26, PlacesAfter
<1>28. /\ s \in Seq(Place) /\ s # <<>> /\ s[Len(s)].at = at /\ s[Len(s)].pos = to
  <2>1. /\ SetTop(at, to) \in Seq(Place) /\ Len(SetTop(at, to)) = Len(stack)
        /\ SetTop(at, to)[Len(stack)].at = at
    BY <1>1, <1>24, SetTopType
  <2>2. Len(stack) \in Nat \ {0} /\ Len(stack) \in 1 .. Len(stack)
    BY <1>1, HasLast DEF ParserTypeOK
  <2>3. SetTop(at, to)[Len(stack)].pos = to
    BY <2>2 DEF SetTop, Position, ParserTypeOK
  <2>4. s # <<>>
    BY <1>26, <2>1, <2>2, EmptySeq
  <2> QED
    BY <1>26, <2>1, <2>3, <2>4
<1>29. p \in Place /\ p.at = new /\ p.pos = 0
  BY <1>1, <1>5, <1>26 DEF Position, Place
<1>30. /\ Tidies(es, Append(s, p)) /\ OwnsOpen(es, Append(s, p), holder)
       /\ OpenOf(es, Append(s, p)) = Append(OpenOf(es, s), holder[p.at])
  <2>1. Tidy(es, p.at, p.pos)
    BY <1>22, <1>29
  <2>2. s # <<>> /\ s[Len(s)].pos >= 1
    BY <1>24, <1>28
  <2>3. holder[p.at] = es[s[Len(s)].at].slots[s[Len(s)].pos - 1].sub
    BY <1>14, <1>19, <1>24, <1>28, <1>29
  <2>4. HangsLast(es, s, p, holder)
    BY <2>2, <2>3 DEF HangsLast
  <2> QED
    BY <1>27, <1>28, <1>29, <2>1, <2>4, PlacesPushed
<1>31. chunks' = es /\ stack' = Append(s, p)
  BY <1>13, <1>23, <1>26
<1>32. phase' = "parsing" /\ input' = Append(input, t)
  BY <1>13 DEF GoOn
<1>33. /\ Len(input') = Len(input) + 1 /\ Len(input) \in Nat
       /\ Len(input) + 1 <= MaxSize /\ MaxSize \in Nat
  BY <1>1, <1>32, OneMoreToken
<1>34. ContainersInv'
  <2>1. Len(es) <= 2 * (Len(input) + 1)
    <3>1. Len(gs) \in Nat /\ Len(more) = Len(chunks) + 1 /\ Len(es) = Len(gs)
      BY <1>3, <1>4, <1>10, <1>20, LenProperties
    <3> QED
      BY <1>1, <1>11, <1>33, <3>1
  <2>2. Placed(es, Append(s, p))
    BY <1>30 DEF Placed
  <2>3. Len(input') <= MaxSize /\ Len(chunks') <= 2 * Len(input')
    BY <1>31, <1>33, <2>1
  <2>4. Full(chunks') /\ Placed(chunks', stack')
    BY <1>17, <1>31, <2>2
  <2> QED
    BY <1>32, <2>3, <2>4 DEF ContainersInv
<1>35. e = Tree!Element(KeyOf(Contents(chunks)[f]), "container", new)
  <2>1. PICK slot : slot = es[at].slots[pos]
    OBVIOUS
  <2>2. slot.value = 0
    BY <1>1, <1>10, <1>14, <1>17, <2>1 DEF Tidy, Done
  <2>3. slot.sub = new /\ new # 0
    BY <1>5, <1>14, <2>1
  <2>4. slot.key = KeyOf(Contents(chunks)[f])
    <3>1. Contents(more)[f] = Contents(chunks)[f]
      BY <1>3, <1>6, <1>16
    <3> QED
      BY <1>14, <1>17, <2>1, <3>1, Zenon
  <2>5. PICK key : key = KeyOf(Contents(chunks)[f])
    OBVIOUS
  <2>6. e = Tree!Element(key, "container", new)
    BY <1>15, <2>1, <2>2, <2>3, <2>4, <2>5 DEF Held, Tree!Element
  <2> QED
    BY <2>5, <2>6
<1>36. Tree!Next
  <2>1. chunks # <<>> /\ chunks' # <<>>
    <3>1. st \in 1 .. Len(chunks)
      BY <1>3, <1>5, <1>16, LenProperties
    <3> QED
      BY <1>1, <1>10, <1>20, <1>31, <3>1, EmptySeq
  <2>2. /\ f \in DOMAIN Contents(chunks) /\ new \notin DOMAIN Contents(chunks)
        /\ DOMAIN Contents(more) = DOMAIN Contents(chunks) \cup {new}
        /\ \A d \in DOMAIN Contents(chunks) : Contents(more)[d] = Contents(chunks)[d]
        /\ Contents(more)[new] = <<>>
    BY <1>3, <1>6, <1>16 DEF Contents
  <2>3. new \in 1 .. 2 * MaxSize
    BY <1>1, <1>3, <1>33
  <2>4. /\ OpenOf(chunks, stack) # <<>>
        /\ OpenOf(chunks, stack)[Len(OpenOf(chunks, stack))] = f
    BY <1>1, <1>2, <1>15, InnermostIs
  <2>5. OpenOf(chunks', stack') = Append(OpenOf(chunks, stack), new)
    BY <1>19, <1>27, <1>29, <1>30, <1>31
  <2>6. Contents(chunks') = PutInto(Contents(more), f, e)
    BY <1>17, <1>31, Zenon
  <2> QED
    BY <1>32, <1>35, <2>1, <2>2, <2>3, <2>4, <2>5, <2>6, AddsContainer
<1> QED
  BY <1>34, <1>36

(* Marks do not matter: what is in the containers stays.                   *)
LEMMA SameContents ==
  ASSUME NEW cs \in Seq(Chunk), Chained(cs), NEW es, SameTree(es, cs)
  PROVE  Contents(es) = Contents(cs) /\ (cs = <<>> <=> es = <<>>)
<1>1. /\ es \in Seq(Chunk) /\ DOMAIN es = DOMAIN cs /\ DOMAIN cs = 1 .. Len(cs)
      /\ \A d \in DOMAIN cs : es[d].next = cs[d].next
      /\ cs = <<>> <=> es = <<>>
  BY LenProperties, EmptySeq DEF SameTree
<1>2. Firsts(es) = Firsts(cs) /\ Chained(es)
  BY <1>1, SameChains
<1>3. \A d \in DOMAIN cs : InChunkOf(es[d].slots) = InChunkOf(cs[d].slots)
  <2> TAKE d \in DOMAIN cs
  <2>1. PICK x, y : x = cs[d].slots /\ y = es[d].slots
    OBVIOUS
  <2>2. x \in [0 .. ChunkSize - 1 -> Slot] /\ y \in [0 .. ChunkSize - 1 -> Slot]
    <3>1. cs[d] \in Chunk /\ es[d] \in Chunk
      BY <1>1, ElementOfSeq
    <3> QED
      BY <2>1, <3>1 DEF Chunk
  <2>3. \A m \in 0 .. ChunkSize - 1 :
          x[m].key = y[m].key /\ x[m].value = y[m].value /\ x[m].sub = y[m].sub
    BY <1>1, <2>1 DEF SameTree
  <2>4. \A m \in 0 .. ChunkSize - 1 : (Used(x[m]) <=> Used(y[m])) /\ Held(x[m]) = Held(y[m])
    BY <2>3 DEF Used, Held
  <2>5. PICK n : FilledTo(x, n)
    BY SomeFilled
  <2>6. FilledTo(y, n)
    <3>1. n \in 0 .. ChunkSize /\ ChunkSize \in Nat
      BY <2>5, ConstantsAssumption DEF FilledTo
    <3>2. /\ \A m \in 0 .. n - 1 : m \in 0 .. ChunkSize - 1
          /\ n # ChunkSize => n \in 0 .. ChunkSize - 1
      BY <3>1
    <3> QED
      BY <2>4, <2>5, <3>2 DEF FilledTo
  <2>7. PICK a, b : a = InChunkOf(x) /\ b = InChunkOf(y)
    OBVIOUS
  <2>8. /\ a \in Seq(Things) /\ Len(a) = n /\ \A i \in 1 .. n : a[i] = Held(x[i - 1])
        /\ b \in Seq(Things) /\ Len(b) = n /\ \A i \in 1 .. n : b[i] = Held(y[i - 1])
        /\ n \in Nat /\ n <= ChunkSize /\ ChunkSize \in Nat
    <3>1. n \in 0 .. ChunkSize /\ ChunkSize \in Nat
      BY <2>5, ConstantsAssumption DEF FilledTo
    <3>2. a \in Seq(Things) /\ Len(a) = n /\ \A i \in 1 .. n : a[i] = Held(x[i - 1])
      BY <2>2, <2>5, <2>7, InChunkIs
    <3>3. b \in Seq(Things) /\ Len(b) = n /\ \A i \in 1 .. n : b[i] = Held(y[i - 1])
      BY <2>2, <2>6, <2>7, InChunkIs
    <3> QED
      BY <3>1, <3>2, <3>3
  <2>9. \A i \in 1 .. n : i - 1 \in 0 .. ChunkSize - 1
    BY <2>8
  <2>10. \A i \in 1 .. n : a[i] = b[i]
    BY <2>4, <2>8, <2>9
  <2>11. a = b
    BY <2>8, <2>10
  <2> QED
    BY <2>1, <2>7, <2>11
<1>4. \A c \in DOMAIN cs : From(es)[c] = From(cs)[c]
  <2> DEFINE Bad == {c \in DOMAIN cs : From(es)[c] # From(cs)[c]}
  <2> SUFFICES ASSUME Bad # {} PROVE FALSE
    OBVIOUS
  <2>1. PICK c \in Bad : cs[c].next \notin Bad
    BY DEF Chained
  <2>2. From(cs)[c] = StepFrom(cs, c, From(cs)) /\ From(es)[c] = StepFrom(es, c, From(es))
    BY <1>1, <1>2, <2>1, FromDef
  <2>3. cs[c].next # 0 => From(es)[cs[c].next] = From(cs)[cs[c].next]
    BY <2>1 DEF Chained
  <2>4. es[c].next = cs[c].next /\ InChunkOf(es[c].slots) = InChunkOf(cs[c].slots)
    BY <1>1, <1>3, <2>1
  <2>5. StepFrom(es, c, From(es)) = StepFrom(cs, c, From(cs))
    BY <2>3, <2>4, Zenon DEF StepFrom
  <2> QED
    BY <2>1, <2>2, <2>5
<1>5. Contents(es) = Contents(cs)
  <2>1. \A c \in Firsts(cs) : c \in DOMAIN cs
    BY DEF Firsts
  <2> QED
    BY <1>2, <1>4, <2>1 DEF Contents
<1> QED
  BY <1>1, <1>5

-----------------------------------------------------------------------------
(* Every step of the program is one of the tree's, or none.                *)
LEMMA TokenBuilds ==
  ASSUME ParserInv, MemoryInv, ContainersInv, phase = "parsing", NEW t \in Tokens, MayRead(t),
         \/ OpenContainer(t) \/ CloseContainer(t) \/ PutScalar(t)
         \/ Colon(t) \/ Comma(t) \/ BadToken(t)
  PROVE  ContainersInv' /\ [Tree!Next]_(Tree!vars)
<1>1. ParserTypeOK
  BY DEF ParserInv
<1>2. ASSUME NEW cs, Refuse(t, cs) PROVE ContainersInv' /\ Tree!Next
  BY <1>2, RefuseBuilds DEF Refuse
<1>3. CASE OpenContainer(t)
  <2>1. CASE OpenFirst(t)
    BY <1>3, <2>1, OpenFirstBuilds DEF OpenContainer
  <2>2. CASE OpenNested(t) /\ StackFull
    <3>1. phase' = "refused"
      BY <2>2 DEF OpenNested, Refuse
    <3> QED
      BY <3>1, RefuseBuilds
  <2>3. CASE OpenNested(t) /\ ~StackFull
    BY <1>3, <2>3, OpenNestedBuilds DEF OpenContainer
  <2>4. CASE OpenMisplaced(t)
    BY <1>2, <2>4 DEF OpenMisplaced
  <2> QED
    BY <1>3, <2>1, <2>2, <2>3, <2>4 DEF OpenContainer
<1>4. CASE CloseContainer(t)
  BY <1>1, <1>4, CloseBuilds
<1>5. CASE PutScalar(t)
  <2>1. CASE Alone(t)
    <3>1. GoOn(t) /\ chunks' = chunks /\ stack' = stack
      BY <2>1 DEF Alone
    <3> QED
      BY <1>1, <3>1, OtherBuilds
  <2>2. CASE Refuse(t, chunks)
    BY <1>2, <2>2
  <2>3. CASE st # 0 /\ expect = "value" /\ PutValue(t)
    BY <2>3, PutBuilds
  <2>4. CASE st # 0 /\ expect = "key" /\ t.type # "number" /\ PutKey(t)
    <3>1. t.type \in {"string", "literal"}
      BY <1>5, <2>4 DEF PutScalar
    <3> QED
      BY <2>4, <3>1, PutBuilds
  <2> QED
    BY <1>5, <2>1, <2>2, <2>3, <2>4 DEF PutScalar
<1>6. CASE Colon(t) \/ Comma(t) \/ BadToken(t)
  <2>1. Refuse(t, chunks) \/ (GoOn(t) /\ chunks' = chunks /\ stack' = stack)
    BY <1>6 DEF Colon, ColonAccepted, ColonRefused, Comma, BadToken
  <2> QED
    BY <1>1, <1>2, <2>1, OtherBuilds
<1> QED
  BY <1>3, <1>4, <1>5, <1>6

LEMMA BuildsStep ==
  DocumentInv /\ ContainersInv /\ [Next]_vars => ContainersInv' /\ [Tree!Next]_(Tree!vars)
<1> SUFFICES ASSUME DocumentInv, ContainersInv, [Next]_vars
             PROVE  ContainersInv' /\ [Tree!Next]_(Tree!vars)
  OBVIOUS
<1>1. ParserInv /\ NestingInv /\ MemoryInv /\ chunks \in Seq(Chunk)
  BY DEF DocumentInv, ParserInv, ParserTypeOK
<1>2. CASE ReadToken
  <2>1. phase = "parsing"
    BY <1>2 DEF ReadToken
  <2>2. PICK t \in Tokens :
          /\ MayRead(t)
          /\ \/ OpenContainer(t) \/ CloseContainer(t) \/ PutScalar(t)
             \/ Colon(t) \/ Comma(t) \/ BadToken(t)
    BY <1>2 DEF ReadToken
  <2> QED
    BY <1>1, <2>1, <2>2, TokenBuilds
<1>3. CASE EndOfInput
  BY <1>1, <1>3, EndBuilds
<1>4. CASE LoadFails
  BY <1>4, RefuseBuilds DEF LoadFails
<1>5. ASSUME UNCHANGED <<TreePhase, TreeRoot, TreeOpen, TreeElements>>
      PROVE  [Tree!Next]_(Tree!vars)
  BY <1>5 DEF Tree!vars
<1>6. CASE Get \/ GetNext
  <2>1. /\ SameTree(chunks', chunks) /\ phase = "accepted"
        /\ phase' = phase /\ stack' = stack
    BY <1>1, <1>6, GetKeepsTree
  <2>2. stack = <<>> /\ stack' = <<>> /\ phase' = "accepted"
    BY <2>1 DEF ContainersInv
  <2>3. Contents(chunks') = Contents(chunks) /\ (chunks = <<>> <=> chunks' = <<>>)
    <3>1. Chained(chunks)
      BY <1>1, <2>1, ForestChained DEF MemoryInv
    <3> QED
      BY <1>1, <2>1, <3>1, SameContents
  <2>4. /\ TreePhase = "accepted" /\ TreeRoot = (IF chunks = <<>> THEN 0 ELSE 1)
        /\ TreeOpen = OpenOf(chunks, stack) /\ TreeElements = Contents(chunks)
    BY <2>1 DEF TreePhase, TreeRoot, TreeOpen, TreeElements, Refused
  <2>5. /\ TreePhase' = "accepted" /\ TreeRoot' = (IF chunks' = <<>> THEN 0 ELSE 1)
        /\ TreeOpen' = OpenOf(chunks', stack') /\ TreeElements' = Contents(chunks')
    BY <2>2 DEF TreePhase, TreeRoot, TreeOpen, TreeElements, Refused
  <2>6. \A cs : OpenOf(cs, <<>>) = <<>>
    <3>1. Len(<<>>) = 0
      OBVIOUS
    <3> QED
      BY <3>1 DEF OpenOf
  <2>7. UNCHANGED <<TreePhase, TreeRoot, TreeOpen, TreeElements>>
    BY <2>2, <2>3, <2>4, <2>5, <2>6
  <2>8. ContainersInv'
    BY <2>2 DEF ContainersInv
  <2> QED
    BY <1>5, <2>7, <2>8
<1>7. CASE Free
  <2>1. phase = "accepted" /\ phase' = "closed" /\ chunks' = chunks /\ stack' = stack
    BY <1>7 DEF Free, Callable
  <2>2. UNCHANGED <<TreePhase, TreeRoot, TreeOpen, TreeElements>>
    BY <2>1 DEF TreePhase, TreeRoot, TreeOpen, TreeElements, Refused
  <2>3. ContainersInv'
    BY <2>1 DEF ContainersInv
  <2> QED
    BY <1>5, <2>2, <2>3
<1>8. CASE UNCHANGED vars
  <2>1. phase' = phase /\ chunks' = chunks /\ stack' = stack /\ input' = input
    BY <1>8 DEF vars
  <2>2. UNCHANGED <<TreePhase, TreeRoot, TreeOpen, TreeElements>>
    BY <2>1 DEF TreePhase, TreeRoot, TreeOpen, TreeElements, Refused
  <2>3. ContainersInv'
    BY <2>1 DEF ContainersInv
  <2> QED
    BY <1>5, <2>2, <2>3
<1> QED
  BY <1>2, <1>3, <1>4, <1>6, <1>7, <1>8 DEF Next, Parse, ParserNext

LEMMA BuildsInit == QueryInit => ContainersInv /\ Tree!Init
<1> SUFFICES ASSUME QueryInit PROVE ContainersInv /\ Tree!Init
  OBVIOUS
<1>1. phase = "parsing" /\ chunks = <<>> /\ stack = <<>> /\ input = <<>>
  BY DEF QueryInit, Init
<1>2. PICK cs, s : cs = chunks /\ s = stack
  OBVIOUS
<1>3. /\ Len(cs) = 0 /\ DOMAIN cs = {} /\ Len(s) = 0 /\ s = <<>> /\ cs = <<>>
      /\ Len(input) = 0 /\ MaxSize \in Nat
  BY <1>1, <1>2, SizeAssumption
<1>4. Firsts(cs) = {}
  BY <1>3 DEF Firsts
<1>5. Full(cs) /\ Placed(cs, s)
  <2>1. Full(cs)
    BY <1>3 DEF Full
  <2>2. Tidies(cs, s)
    BY <1>3 DEF Tidies
  <2>3. PICK own : own = [c \in {} |-> c]
    OBVIOUS
  <2>4. Owned(cs, own)
    BY <1>3, <1>4, <2>3 DEF Owned
  <2>5. OwnsOpen(cs, s, own)
    BY <1>3, <2>4 DEF OwnsOpen
  <2> QED
    BY <2>1, <2>2, <2>5 DEF Placed
<1>6. Len(input) <= MaxSize /\ Len(chunks) <= 2 * Len(input)
  BY <1>1, <1>2, <1>3
<1>7. ContainersInv
  BY <1>1, <1>2, <1>5, <1>6 DEF ContainersInv
<1>8. /\ TreePhase = "parsing" /\ TreeRoot = (IF chunks = <<>> THEN 0 ELSE 1)
      /\ TreeOpen = OpenOf(chunks, stack) /\ TreeElements = Contents(chunks)
  BY <1>1, TreeNow
<1>9. OpenOf(cs, s) = <<>>
  BY <1>3 DEF OpenOf
<1>10. Contents(cs) = Tree!Nothing
  BY <1>4 DEF Contents, Tree!Nothing
<1>11. TreeRoot = 0 /\ TreeOpen = <<>> /\ TreeElements = Tree!Nothing
  BY <1>1, <1>2, <1>8, <1>9, <1>10
<1>12. Tree!Init
  BY <1>8, <1>11, Zenon DEF Tree!Init
<1> QED
  BY <1>7, <1>12

(* jsense implements containers that are sequences of any length, each in  *)
(* one other: whatever the file holds, every token puts its key, value or  *)
(* container at the end of the innermost open container, although j_parse  *)
(* writes into chunks of a fixed size that it links; after an error there  *)
(* is no document, and no call of the reader changes one.                  *)
THEOREM BuildsTheTree == Spec => BuildsTree
<1>1. QueryInit => Tree!Init
  BY BuildsInit
<1>2. QueryInit => DocumentInv /\ ContainersInv
  BY DocumentInit, BuildsInit
<1>3. DocumentInv /\ ContainersInv /\ [Next]_vars => (DocumentInv /\ ContainersInv)'
  BY DocumentStep, BuildsStep
<1>4. DocumentInv /\ ContainersInv /\ [Next]_vars => [Tree!Next]_(Tree!vars)
  BY BuildsStep
<1> QED
  BY <1>1, <1>2, <1>3, <1>4, PTL DEF Spec, BuildsTree, Tree!Spec

-----------------------------------------------------------------------------
(* How far what ends is determined: by what begins later, or is shorter.   *)
Rank(s, what, i) == 2 * (Len(s) + 1 - i) + (IF what = "value" THEN 1 ELSE 2)

LEMMA EndsLocal ==
  ASSUME NEW s \in Seq(Tokens), NEW what \in Whats, NEW i \in 1 .. Len(s) + 1, NEW f, NEW g,
         \A w \in Whats : \A k \in 1 .. Len(s) + 1 :
           Rank(s, w, k) < Rank(s, what, i) => f[<<w, k>>] = g[<<w, k>>]
  PROVE  EndsAfter(s, f, what, i) = EndsAfter(s, g, what, i)
<1>1. PICK n : n = Len(s)
  OBVIOUS
<1>2. n \in Nat /\ i \in 1 .. n + 1
  BY <1>1, LenProperties
<1>3. CASE i > n \/ (what = "openObj" /\ ~Named(s, i))
  BY <1>1, <1>3 DEF EndsAfter
<1>4. ASSUME i <= n, what = "value"
      PROVE  EndsAfter(s, f, what, i) = EndsAfter(s, g, what, i)
  <2>1. ASSUME s[i].type \in Opens
        PROVE  f[<<s[i].type, i + 1>>] = g[<<s[i].type, i + 1>>]
    <3>1. s[i].type \in Whats /\ s[i].type # "value" /\ i + 1 \in 1 .. Len(s) + 1
      BY <1>1, <1>2, <1>4, <2>1 DEF Whats, Opens
    <3>2. Rank(s, s[i].type, i + 1) < Rank(s, what, i)
      <4>1. Rank(s, s[i].type, i + 1) = 2 * (n + 1 - (i + 1)) + 2
        BY <1>1, <3>1 DEF Rank
      <4>2. Rank(s, what, i) = 2 * (n + 1 - i) + 1
        BY <1>1, <1>4 DEF Rank
      <4> QED
        BY <1>2, <4>1, <4>2
    <3> QED
      BY <3>1, <3>2
  <2>2. ValueEnds(s, f, i) = ValueEnds(s, g, i)
    BY <2>1 DEF ValueEnds
  <2> QED
    BY <1>1, <1>2, <1>4, <2>2 DEF EndsAfter
<1>5. ASSUME NEW v \in {i, i + 2}, v <= n, what \in Opens
      PROVE  ListEnds(s, f, what, i, f[<<"value", v>>]) = ListEnds(s, g, what, i, g[<<"value", v>>])
  <2>1. f[<<"value", v>>] = g[<<"value", v>>]
    <3>1. "value" \in Whats /\ what # "value" /\ v \in 1 .. Len(s) + 1
      BY <1>1, <1>2, <1>5 DEF Whats, Opens
    <3>2. Rank(s, "value", v) < Rank(s, what, i)
      BY <1>1, <1>2, <1>5, <3>1 DEF Rank
    <3> QED
      BY <3>1, <3>2
  <2>2. PICK first : first = f[<<"value", v>>]
    OBVIOUS
  <2>3. \A j \in RightAfter(s, i, first, "comma") : f[<<what, j + 1>>] = g[<<what, j + 1>>]
    <3> TAKE j \in RightAfter(s, i, first, "comma")
    <3>1. j \in i + 1 .. n
      BY <1>1 DEF RightAfter
    <3>2. what \in Whats /\ what # "value" /\ j + 1 \in 1 .. Len(s) + 1
      BY <1>1, <1>2, <1>5, <3>1 DEF Whats, Opens
    <3>3. Rank(s, what, j + 1) < Rank(s, what, i)
      BY <1>1, <1>2, <3>1, <3>2 DEF Rank
    <3> QED
      BY <3>2, <3>3
  <2>4. ListEnds(s, f, what, i, first) = ListEnds(s, g, what, i, first)
    BY <2>3, Zenon DEF ListEnds
  <2> QED
    BY <2>1, <2>2, <2>4
<1>6. CASE i <= n /\ what = "openArray"
  <2>1. what \in Opens /\ what # "value" /\ what # "openObj"
    BY <1>6 DEF Opens
  <2>2. ListEnds(s, f, what, i, f[<<"value", i>>]) = ListEnds(s, g, what, i, g[<<"value", i>>])
    BY <1>5, <1>6, <2>1
  <2> QED
    BY <1>1, <1>2, <1>6, <2>1, <2>2 DEF EndsAfter
<1>7. CASE i <= n /\ what = "openObj" /\ Named(s, i)
  <2>1. what \in Opens /\ what # "value" /\ what # "openArray" /\ i + 2 <= n
    BY <1>1, <1>7 DEF Opens, Named
  <2>2. ListEnds(s, f, what, i, f[<<"value", i + 2>>]) = ListEnds(s, g, what, i, g[<<"value", i + 2>>])
    BY <1>5, <2>1
  <2> QED
    BY <1>1, <1>2, <1>7, <2>1, <2>2 DEF EndsAfter
<1> QED
  BY <1>2, <1>3, <1>4, <1>6, <1>7 DEF Whats, Opens

(* Ends satisfies its definition.                                          *)
LEMMA EndsDef ==
  ASSUME NEW s \in Seq(Tokens)
  PROVE  \A what \in Whats : \A i \in 1 .. Len(s) + 1 :
           Ends(s)[<<what, i>>] = EndsAfter(s, Ends(s), what, i)
<1> DEFINE D == Whats \X (1 .. Len(s) + 1)
           Is(f) == f = [p \in D |-> EndsAfter(s, f, p[1], p[2])]
           Upto(f, m) == /\ f = [p \in D |-> f[p]]
                         /\ \A w \in Whats : \A k \in 1 .. Len(s) + 1 :
                              Rank(s, w, k) < m => f[<<w, k>>] = EndsAfter(s, f, w, k)
           G == {m \in 1 .. 2 * Len(s) + 3 : \E f : Upto(f, m)}
<1>1. Len(s) \in Nat
  BY LenProperties
<1>2. \A w \in Whats : \A k \in 1 .. Len(s) + 1 :
        Rank(s, w, k) \in Int /\ Rank(s, w, k) >= 1 /\ Rank(s, w, k) <= 2 * Len(s) + 2
  BY <1>1 DEF Rank
<1>3. 1 \in G
  <2>1. PICK f : f = [p \in D |-> {}]
    OBVIOUS
  <2>2. f = [p \in D |-> f[p]]
    BY <2>1
  <2>3. Upto(f, 1)
    BY <1>2, <2>2
  <2>4. 1 \in 1 .. 2 * Len(s) + 3
    BY <1>1
  <2> HIDE DEF Upto
  <2> QED
    BY <2>3, <2>4
<1>4. ASSUME NEW m \in 1 .. 2 * Len(s) + 2, m \in G
      PROVE  m + 1 \in G
  <2>1. PICK f : Upto(f, m)
    <3> HIDE DEF Upto
    <3> QED
      BY <1>4
  <2>2. PICK g : g = [p \in D |-> IF Rank(s, p[1], p[2]) < m THEN f[p] ELSE EndsAfter(s, f, p[1], p[2])]
    OBVIOUS
  <2>3. g = [p \in D |-> g[p]]
    BY <2>2
  <2>4. \A w \in Whats : \A k \in 1 .. Len(s) + 1 :
          g[<<w, k>>] = IF Rank(s, w, k) < m THEN f[<<w, k>>] ELSE EndsAfter(s, f, w, k)
    BY <2>2
  <2>5. ASSUME NEW w \in Whats, NEW k \in 1 .. Len(s) + 1, Rank(s, w, k) < m + 1
        PROVE  g[<<w, k>>] = EndsAfter(s, g, w, k)
    <3>1. \A v \in Whats : \A l \in 1 .. Len(s) + 1 :
            Rank(s, v, l) < Rank(s, w, k) => f[<<v, l>>] = g[<<v, l>>]
      <4> TAKE v \in Whats
      <4> TAKE l \in 1 .. Len(s) + 1
      <4>1. Rank(s, v, l) \in Int /\ Rank(s, w, k) \in Int
        BY <1>2
      <4>2. Rank(s, v, l) < Rank(s, w, k) => Rank(s, v, l) < m
        BY <2>5, <4>1
      <4> QED
        BY <2>4, <4>2
    <3>2. EndsAfter(s, f, w, k) = EndsAfter(s, g, w, k)
      <4> HIDE DEF D
      <4> QED
        BY <3>1, EndsLocal
    <3>3. Rank(s, w, k) < m => f[<<w, k>>] = EndsAfter(s, f, w, k)
      BY <2>1
    <3> QED
      BY <2>4, <3>2, <3>3
  <2>6. Upto(g, m + 1)
    BY <2>3, <2>5
  <2>7. m + 1 \in 1 .. 2 * Len(s) + 3
    BY <1>1
  <2> HIDE DEF Upto
  <2> QED
    BY <2>6, <2>7
<1>5. \E f : Upto(f, 2 * Len(s) + 3)
  <2>1. PICK n : n = 2 * Len(s) + 3
    OBVIOUS
  <2>2. n \in Nat /\ 1 <= n /\ n - 1 = 2 * Len(s) + 2 /\ n \in 1 .. n
    BY <1>1, <2>1
  <2> HIDE DEF G
  <2>3. \A m \in 1 .. n : m \in G
    BY <1>3, <1>4, <2>2, CountingUp
  <2> QED
    BY <2>1, <2>2, <2>3 DEF G
<1>6. \E f : Is(f)
  <2>1. PICK f : Upto(f, 2 * Len(s) + 3)
    <3> HIDE DEF Upto
    <3> QED
      BY <1>5
  <2>2. \A w \in Whats : \A k \in 1 .. Len(s) + 1 : f[<<w, k>>] = EndsAfter(s, f, w, k)
    <3> TAKE w \in Whats
    <3> TAKE k \in 1 .. Len(s) + 1
    <3>1. Rank(s, w, k) < 2 * Len(s) + 3
      BY <1>1, <1>2
    <3> QED
      BY <2>1, <3>1
  <2>3. \A p \in D : f[p] = EndsAfter(s, f, p[1], p[2])
    <3> TAKE p \in D
    <3>1. p = <<p[1], p[2]>> /\ p[1] \in Whats /\ p[2] \in 1 .. Len(s) + 1
      OBVIOUS
    <3> QED
      BY <2>2, <3>1
  <2>4. f = [p \in D |-> f[p]]
    BY <2>1
  <2>5. f = [p \in D |-> EndsAfter(s, f, p[1], p[2])]
    <3> HIDE DEF D, Upto
    <3> QED
      BY <2>3, <2>4
  <2> QED
    BY <2>5
<1>7. PICK h : h = CHOOSE f : Is(f)
  OBVIOUS
<1>8. Is(h)
  <2> HIDE DEF Is
  <2> QED
    BY <1>6, <1>7, Zenon
<1>9. Ends(s) = h
  BY <1>7 DEF Ends
<1>10. \A what \in Whats : \A i \in 1 .. Len(s) + 1 : h[<<what, i>>] = EndsAfter(s, h, what, i)
  BY <1>8
<1> QED
  BY <1>9, <1>10

-----------------------------------------------------------------------------
(* What follows in a text.                                                 *)

\* At i the container of a kind is closed, at c, or a comma and a list follow.
Continues(s, i, kind, c) ==
  /\ c \in 1 .. Len(s) /\ s[c].type = Closing(kind)
  /\ \/ c = i
     \/ i <= Len(s) /\ s[i].type = "comma" /\ c - 1 \in Ends(s)[<<kind, i + 1>>]

\* At i a value begins after which that container continues.
ValueAt(s, i, kind, c) ==
  i <= Len(s) /\ \E j \in Ends(s)[<<"value", i>>] : Continues(s, j + 1, kind, c)

\* At i the elements begin that are left of that container.
ListAt(s, i, kind, c) ==
  /\ kind = "openArray" => ValueAt(s, i, kind, c)
  /\ kind = "openObj" => Named(s, i) /\ ValueAt(s, i + 2, kind, c)

(* A list begins with an element, and continues or ends behind it.         *)
LEMMA ListBegins ==
  ASSUME NEW s \in Seq(Tokens), NEW kind \in Opens, NEW i \in 1 .. Len(s) + 1,
         NEW c \in 1 .. Len(s), s[c].type = Closing(kind), c - 1 \in Ends(s)[<<kind, i>>]
  PROVE  ListAt(s, i, kind, c)
<1>1. PICK E : E = Ends(s)
  OBVIOUS
<1>2. Len(s) \in Nat /\ kind \in Whats /\ kind # "value"
  BY LenProperties DEF Whats, Opens
<1>3. c - 1 \in EndsAfter(s, E, kind, i)
  BY <1>1, <1>2, EndsDef
<1>4. i <= Len(s) /\ (kind = "openObj" => Named(s, i))
  BY <1>3 DEF EndsAfter
<1>5. PICK v \in {i, i + 2} :
        /\ kind = "openArray" => v = i
        /\ kind = "openObj" => v = i + 2
        /\ c - 1 \in ListEnds(s, E, kind, i, E[<<"value", v>>])
  <2>1. CASE kind = "openArray"
    BY <1>3, <1>4, <2>1 DEF EndsAfter
  <2>2. CASE kind = "openObj"
    BY <1>3, <1>4, <2>2 DEF EndsAfter
  <2> QED
    BY <2>1, <2>2 DEF Opens
<1>6. v <= Len(s)
  BY <1>2, <1>4, <1>5 DEF Named, Opens
<1>7. PICK first : first = E[<<"value", v>>]
  OBVIOUS
<1>8. \E j \in first : Continues(s, j + 1, kind, c)
  <2>1. CASE c - 1 \in first
    <3>1. c - 1 + 1 = c
      OBVIOUS
    <3> QED
      BY <2>1, <3>1 DEF Continues
  <2>2. CASE c - 1 \notin first
    <3>1. PICK k \in RightAfter(s, i, first, "comma") : c - 1 \in E[<<kind, k + 1>>]
      BY <1>5, <1>7, <2>2 DEF ListEnds
    <3>2. k \in i + 1 .. Len(s) /\ k - 1 \in first /\ s[k].type = "comma"
      BY <3>1 DEF RightAfter
    <3>3. k - 1 + 1 = k /\ k <= Len(s)
      BY <3>2
    <3>4. Continues(s, k, kind, c)
      BY <1>1, <3>1, <3>2, <3>3 DEF Continues
    <3> QED
      BY <3>2, <3>3, <3>4
  <2> QED
    BY <2>1, <2>2
<1>9. ValueAt(s, v, kind, c)
  BY <1>1, <1>6, <1>7, <1>8 DEF ValueAt
<1> QED
  BY <1>4, <1>5, <1>9 DEF ListAt

(* A value is a scalar, or a bracket, perhaps a list, and its bracket.     *)
LEMMA ValueBegins ==
  ASSUME NEW s \in Seq(Tokens), NEW i \in 1 .. Len(s), NEW j \in Ends(s)[<<"value", i>>]
  PROVE  \/ j = i /\ s[i].type \in ScalarTypes
         \/ /\ s[i].type \in Opens
            /\ j \in i + 1 .. Len(s) /\ s[j].type = Closing(s[i].type)
            /\ j = i + 1 \/ ListAt(s, i + 1, s[i].type, j)
<1>1. PICK E : E = Ends(s)
  OBVIOUS
<1>2. Len(s) \in Nat /\ "value" \in Whats /\ i \in 1 .. Len(s) + 1 /\ i <= Len(s)
  BY LenProperties DEF Whats
<1>3. E[<<"value", i>>] = EndsAfter(s, E, "value", i)
  BY <1>1, <1>2, EndsDef
<1>4. j \in ValueEnds(s, E, i)
  BY <1>1, <1>2, <1>3 DEF EndsAfter
<1>5. CASE s[i].type \notin Opens
  BY <1>4, <1>5 DEF ValueEnds
<1>6. CASE s[i].type \in Opens
  <2>1. j \in RightAfter(s, i, {i} \cup E[<<s[i].type, i + 1>>], Closing(s[i].type))
    BY <1>4, <1>6 DEF ValueEnds
  <2>2. /\ j \in i + 1 .. Len(s) /\ s[j].type = Closing(s[i].type)
        /\ j - 1 = i \/ j - 1 \in E[<<s[i].type, i + 1>>]
    BY <2>1 DEF RightAfter
  <2>3. j \in 1 .. Len(s) /\ i + 1 \in 1 .. Len(s) + 1 /\ (j - 1 = i => j = i + 1)
    BY <1>2, <2>2
  <2>4. j - 1 \in E[<<s[i].type, i + 1>>] => ListAt(s, i + 1, s[i].type, j)
    BY <1>1, <1>6, <2>2, <2>3, ListBegins
  <2> QED
    BY <1>6, <2>2, <2>3, <2>4
<1> QED
  BY <1>5, <1>6

(* What is left of a container after one of its values: its bracket, or a  *)
(* comma and more elements.                                                *)
LEMMA ContinuesWith ==
  ASSUME NEW s \in Seq(Tokens), NEW kind \in Opens, NEW i \in Nat, i >= 1, NEW c,
         Continues(s, i, kind, c)
  PROVE  /\ i <= Len(s)
         /\ \/ c = i /\ s[i].type = Closing(kind)
            \/ s[i].type = "comma" /\ ListAt(s, i + 1, kind, c)
<1>1. Len(s) \in Nat /\ c \in 1 .. Len(s) /\ s[c].type = Closing(kind)
  BY LenProperties DEF Continues
<1>2. CASE c = i
  BY <1>1, <1>2
<1>3. CASE i <= Len(s) /\ s[i].type = "comma" /\ c - 1 \in Ends(s)[<<kind, i + 1>>]
  <2>1. i + 1 \in 1 .. Len(s) + 1
    BY <1>1, <1>3
  <2>2. ListAt(s, i + 1, kind, c)
    BY <1>1, <1>3, <2>1, ListBegins
  <2> QED
    BY <1>3, <2>2
<1> QED
  BY <1>2, <1>3 DEF Continues

-----------------------------------------------------------------------------
(* What the parser has read of a text, and what it expects.                *)

\* What may come at i in the innermost container, after a token of type prev
\* and when exp is expected: its bracket, a comma, a value, a key or a colon.
BracketNow(s, i, kind, c, prev) ==
  /\ prev \notin {"comma", "colon"} \cup (Opens \ {kind})
  /\ c = i /\ s[i].type = Closing(kind)
CommaNow(s, i, kind, c, prev) ==
  /\ prev \notin {"comma", "colon"} \cup Opens
  /\ s[i].type = "comma" /\ ListAt(s, i + 1, kind, c)
ValueNow(s, i, kind, c, prev, exp) ==
  /\ prev \in {"openArray", "comma", "colon"} /\ exp = "value"
  /\ ValueAt(s, i, kind, c)
KeyNow(s, i, kind, c, exp) ==
  /\ kind = "openObj" /\ exp = "key"
  /\ Named(s, i) /\ ValueAt(s, i + 2, kind, c)
ColonNow(s, i, kind, c, prev) ==
  /\ kind = "openObj" /\ prev = "string"
  /\ s[i].type = "colon" /\ ValueAt(s, i + 1, kind, c)

Innermost(s, i, kind, c, prev, exp) ==
  \/ BracketNow(s, i, kind, c, prev)
  \/ CommaNow(s, i, kind, c, prev)
  \/ ValueNow(s, i, kind, c, prev, exp)
  \/ KeyNow(s, i, kind, c, exp)
  \/ ColonNow(s, i, kind, c, prev)

\* The open containers are closed at ends, and go on after the one inside.
Around(s, open, ends) ==
  /\ ends \in [1 .. Len(open) -> 1 .. Len(s)]
  /\ ends[1] = Len(s)
  /\ \A d \in 1 .. Len(open) - 1 : Continues(s, ends[d + 1] + 1, open[d].kind, ends[d])

\* With so much open the text s is expected from i on.
Expects(s, i, open, prev, exp) ==
  IF open = <<>> THEN i \in {1, Len(s) + 1}
  ELSE /\ i \in 1 .. Len(s)
       /\ \E ends : /\ Around(s, open, ends)
                    /\ Innermost(s, i, open[Len(open)].kind, ends[Len(open)], prev, exp)

\* s begins with what was read.
BeginsWith(s, i) == Len(i) <= Len(s) /\ \A k \in 1 .. Len(i) : s[k] = i[k]

ReadingInv ==
  phase = "parsing" =>
    /\ input = <<>> => stack = <<>> /\ st = 0 /\ prevType = "none"
    /\ \A s \in Seq(Tokens) :
         Readable(s) /\ BeginsWith(s, input)
           => Expects(s, Len(input) + 1, stack, prevType, expect)

(* After a value its container ends or goes on with a comma.               *)
LEMMA AfterValue ==
  ASSUME NEW s \in Seq(Tokens), NEW kind \in Opens, NEW i \in Nat, i >= 1, NEW c,
         Continues(s, i, kind, c), NEW prev \in ScalarTypes \cup Closes, NEW exp
  PROVE  i \in 1 .. Len(s) /\ Innermost(s, i, kind, c, prev, exp)
<1>1. prev \notin {"comma", "colon"} \cup Opens
  BY DEF ScalarTypes, Closes, Opens
<1>2. /\ i <= Len(s) /\ Len(s) \in Nat
      /\ \/ c = i /\ s[i].type = Closing(kind)
         \/ s[i].type = "comma" /\ ListAt(s, i + 1, kind, c)
  BY ContinuesWith, LenProperties
<1>3. BracketNow(s, i, kind, c, prev) \/ CommaNow(s, i, kind, c, prev)
  BY <1>1, <1>2 DEF BracketNow, CommaNow
<1> QED
  BY <1>2, <1>3 DEF Innermost

\* What the parser expects where an element may begin.
Wanted(kind) == IF kind = "openObj" THEN "key" ELSE "value"

(* After a comma or the bracket that opens a container come its elements.  *)
LEMMA BeforeList ==
  ASSUME NEW s \in Seq(Tokens), NEW kind \in Opens, NEW i \in Nat, i >= 1, NEW c,
         ListAt(s, i, kind, c), NEW prev \in {"comma", kind}
  PROVE  i \in 1 .. Len(s) /\ Innermost(s, i, kind, c, prev, Wanted(kind))
<1>1. Len(s) \in Nat
  BY LenProperties
<1>2. CASE kind = "openArray"
  <2>1. ValueAt(s, i, kind, c) /\ i <= Len(s)
    BY <1>2 DEF ListAt, ValueAt
  <2>2. ValueNow(s, i, kind, c, prev, Wanted(kind))
    BY <1>2, <2>1 DEF ValueNow, Wanted
  <2> QED
    BY <1>1, <2>1, <2>2 DEF Innermost
<1>3. CASE kind = "openObj"
  <2>1. Named(s, i) /\ ValueAt(s, i + 2, kind, c)
    BY <1>3 DEF ListAt
  <2>2. i <= Len(s)
    BY <1>1, <2>1 DEF Named
  <2>3. KeyNow(s, i, kind, c, Wanted(kind))
    BY <1>3, <2>1 DEF KeyNow, Wanted
  <2> QED
    BY <1>1, <2>2, <2>3 DEF Innermost
<1> QED
  BY <1>2, <1>3 DEF Opens

(* Behind the bracket that opens a container comes what it holds, or the   *)
(* one that closes it.                                                     *)
LEMMA AfterOpening ==
  ASSUME NEW s \in Seq(Tokens), NEW i \in 1 .. Len(s), NEW j \in Ends(s)[<<"value", i>>],
         s[i].type \in Opens
  PROVE  /\ j \in i + 1 .. Len(s) /\ i + 1 \in 1 .. Len(s)
         /\ Innermost(s, i + 1, s[i].type, j, s[i].type, Wanted(s[i].type))
<1>1. Len(s) \in Nat
  BY LenProperties
<1>2. /\ j \in i + 1 .. Len(s) /\ s[j].type = Closing(s[i].type)
      /\ j = i + 1 \/ ListAt(s, i + 1, s[i].type, j)
  BY ValueBegins DEF ScalarTypes, Opens
<1>3. i + 1 \in Nat /\ i + 1 >= 1 /\ i + 1 \in 1 .. Len(s)
  BY <1>1, <1>2
<1>4. CASE j = i + 1
  <2>1. s[i].type \notin {"comma", "colon"}
    BY DEF Opens
  <2>2. BracketNow(s, i + 1, s[i].type, j, s[i].type)
    BY <1>2, <1>4, <2>1 DEF BracketNow
  <2> QED
    BY <1>2, <1>3, <2>2 DEF Innermost
<1>5. CASE ListAt(s, i + 1, s[i].type, j)
  BY <1>2, <1>3, <1>5, BeforeList
<1> QED
  BY <1>2, <1>4, <1>5

(* The containers around stay the same when only positions change.         *)
LEMMA AroundSame ==
  ASSUME NEW s, NEW open \in Seq(Place), NEW now \in Seq(Place), Len(now) = Len(open),
         \A d \in 1 .. Len(open) : now[d].kind = open[d].kind,
         NEW ends, Around(s, open, ends)
  PROVE  Around(s, now, ends)
<1>1. \A d \in 1 .. Len(open) - 1 : d \in 1 .. Len(open)
  BY LenProperties
<1> QED
  BY <1>1 DEF Around

\* The ends when one more container is opened that is closed at j, and of n.
WithEnd(ends, n, j) == [d \in 1 .. n + 1 |-> IF d = n + 1 THEN j ELSE ends[d]]
FirstEnds(ends, n) == [d \in 1 .. n |-> ends[d]]

(* One more container is opened, or the innermost one is closed.           *)
LEMMA AroundPushed ==
  ASSUME NEW s \in Seq(Tokens), NEW open \in Seq(Place), open # <<>>,
         NEW below \in Seq(Place), Len(below) = Len(open),
         \A d \in 1 .. Len(open) : below[d].kind = open[d].kind,
         NEW place \in Place, NEW ends, Around(s, open, ends),
         NEW j \in 1 .. Len(s), Continues(s, j + 1, open[Len(open)].kind, ends[Len(open)])
  PROVE  /\ Around(s, Append(below, place), WithEnd(ends, Len(open), j))
         /\ WithEnd(ends, Len(open), j)[Len(open) + 1] = j
<1>1. PICK n, now : n = Len(open) /\ now = Append(below, place)
  OBVIOUS
<1>2. n \in Nat \ {0}
  BY <1>1, HasLast
<1>3. Len(now) = n + 1 /\ \A d \in 1 .. n : now[d].kind = open[d].kind
  BY <1>1, <1>2
<1>4. /\ ends \in [1 .. n -> 1 .. Len(s)] /\ ends[1] = Len(s)
      /\ \A d \in 1 .. n - 1 : Continues(s, ends[d + 1] + 1, open[d].kind, ends[d])
      /\ Continues(s, j + 1, open[n].kind, ends[n])
  BY <1>1 DEF Around
<1>5. PICK more : more = WithEnd(ends, n, j)
  OBVIOUS
<1>6. /\ \A d \in 1 .. n : more[d] = ends[d]
      /\ more[n + 1] = j
      /\ more \in [1 .. n + 1 -> 1 .. Len(s)]
  BY <1>2, <1>4, <1>5 DEF WithEnd
<1>7. ASSUME NEW d \in 1 .. n PROVE Continues(s, more[d + 1] + 1, now[d].kind, more[d])
  <2>1. CASE d = n
    BY <1>2, <1>3, <1>4, <1>6, <2>1
  <2>2. CASE d # n
    <3>1. d \in 1 .. n - 1 /\ d \in 1 .. n /\ d + 1 \in 1 .. n
      BY <1>2, <2>2
    <3> QED
      BY <1>3, <1>4, <1>6, <3>1
  <2> QED
    BY <2>1, <2>2
<1>8. more[1] = Len(s)
  BY <1>2, <1>4, <1>6
<1>9. Around(s, now, more)
  <2>1. Len(now) = n + 1 /\ Len(now) - 1 = n
    BY <1>2, <1>3
  <2>2. more \in [1 .. Len(now) -> 1 .. Len(s)]
    BY <1>6, <2>1
  <2> QED
    BY <1>7, <1>8, <2>1, <2>2 DEF Around
<1> QED
  BY <1>1, <1>5, <1>6, <1>9

LEMMA AroundPopped ==
  ASSUME NEW s \in Seq(Tokens), NEW open \in Seq(Place), Len(open) > 1,
         NEW now \in Seq(Place), Len(now) = Len(open) - 1,
         \A d \in 1 .. Len(open) - 1 : now[d].kind = open[d].kind,
         NEW ends, Around(s, open, ends)
  PROVE  /\ Around(s, now, FirstEnds(ends, Len(now)))
         /\ FirstEnds(ends, Len(now))[Len(now)] = ends[Len(now)]
         /\ Continues(s, ends[Len(open)] + 1, now[Len(now)].kind, ends[Len(now)])
<1>1. PICK n : n = Len(now)
  OBVIOUS
<1>2. n \in Nat \ {0} /\ Len(open) = n + 1 /\ n + 1 - 1 = n /\ n \in 1 .. n
  BY <1>1, LenProperties
<1>3. /\ ends \in [1 .. n + 1 -> 1 .. Len(s)] /\ ends[1] = Len(s)
      /\ \A d \in 1 .. n : Continues(s, ends[d + 1] + 1, open[d].kind, ends[d])
      /\ \A d \in 1 .. n : now[d].kind = open[d].kind
  BY <1>2 DEF Around
<1>4. PICK less : less = FirstEnds(ends, n)
  OBVIOUS
<1>5. less \in [1 .. n -> 1 .. Len(s)] /\ \A d \in 1 .. n : less[d] = ends[d]
  BY <1>2, <1>3, <1>4 DEF FirstEnds
<1>6. \A d \in 1 .. n - 1 : d \in 1 .. n /\ d + 1 \in 1 .. n
  BY <1>2
<1>7. 1 \in 1 .. n
  BY <1>2
<1>8. Around(s, now, less)
  BY <1>1, <1>3, <1>5, <1>6, <1>7 DEF Around
<1> QED
  BY <1>1, <1>2, <1>3, <1>4, <1>5, <1>8

-----------------------------------------------------------------------------
(* The parser reads a token of a text and goes on.                         *)

\* s is a text that begins with what was read, and t comes next.
Coming(s, t) ==
  /\ Readable(s) /\ BeginsWith(s, input) /\ Len(input) < Len(s)
  /\ t = s[Len(input) + 1]
  /\ Expects(s, Len(input) + 1, stack, prevType, expect)

\* It was read, and what is expected of the rest of s.
TokenRead(s, t) ==
  /\ phase' = "parsing" /\ input' = Append(input, t)
  /\ Expects(s, Len(input) + 2, stack', prevType', expect')

\* While a document is read.
Reading == ParserTypeOK /\ NestingInv /\ ReadingInv /\ phase = "parsing"

(* Before the first token a value is expected, else a token in the         *)
(* innermost container.                                                    *)
LEMMA FirstComing ==
  ASSUME Reading, NEW s \in Seq(Tokens), NEW t, Coming(s, t), stack = <<>>
  PROVE  /\ input = <<>> /\ st = 0 /\ prevType = "none" /\ Len(input) = 0
         /\ t = s[1] /\ Len(s) \in 1 .. Len(s) /\ Len(s) \in Nat \ {0}
         /\ Len(s) \in Ends(s)[<<"value", 1>>]
<1>1. Len(s) \in Nat /\ Len(input) \in Nat /\ Len(input) < Len(s) /\ t = s[Len(input) + 1]
  BY LenProperties DEF Reading, ParserTypeOK, Coming
<1>2. Len(input) + 1 \in {1, Len(s) + 1}
  BY DEF Coming, Expects
<1>3. Len(input) = 0
  BY <1>1, <1>2
<1>4. input = <<>>
  BY <1>3, EmptySeq DEF Reading, ParserTypeOK
<1>5. Len(s) \in Ends(s)[<<"value", 1>>]
  BY DEF Coming, Readable, IsText
<1>6. st = 0 /\ prevType = "none"
  BY <1>4 DEF Reading, ReadingInv
<1> QED
  BY <1>1, <1>3, <1>4, <1>5, <1>6

LEMMA NextComing ==
  ASSUME Reading, NEW s \in Seq(Tokens), NEW t, Coming(s, t), stack # <<>>
  PROVE  /\ stack \in Seq(Place) /\ Len(stack) \in Nat \ {0} /\ Top.kind \in Opens
         /\ Len(input) + 1 \in 1 .. Len(s) /\ t = s[Len(input) + 1]
         /\ st # 0
         /\ \E ends : /\ Around(s, stack, ends)
                      /\ Innermost(s, Len(input) + 1, Top.kind, ends[Len(stack)], prevType, expect)
<1>1. stack \in Seq(Place) /\ Len(stack) \in Nat \ {0} /\ Top \in Place
  BY HasLast DEF Reading, ParserTypeOK, Top
<1>2. Top.kind \in Opens
  BY <1>1 DEF Place
<1>3. st # 0
  <2>1. st = Top.at /\ Top.at \in 1 .. Len(chunks)
    BY <1>1 DEF Reading, ParserTypeOK, StackOK, Top
  <2> QED
    BY <2>1
<1> QED
  BY <1>1, <1>2, <1>3 DEF Coming, Expects, Top

(* A text that begins like the input is as deep there.                     *)
LEMMA LevelsBegin ==
  ASSUME NEW s \in Seq(Tokens), NEW i \in Seq(Tokens), BeginsWith(s, i),
         NEW k \in 1 .. Len(i) + 1
  PROVE  Levels(s)[k] = Levels(i)[k]
<1>1. \A types : Before(s, k, types) = Before(i, k, types)
  BY LenProperties DEF Before, BeginsWith
<1>2. k \in 1 .. Len(s) + 1
  BY LenProperties DEF BeginsWith
<1> QED
  BY <1>1, <1>2 DEF Levels

(* A text that nests within the stack never finds it full.                 *)
LEMMA NotFull ==
  ASSUME Reading, NEW s \in Seq(Tokens), NEW t \in Tokens, Coming(s, t), t.type \in Opens
  PROVE  ~StackFull
<1>1. /\ input \in Seq(Tokens) /\ Len(input) \in Nat /\ Len(s) \in Nat /\ Len(input) < Len(s)
      /\ t = s[Len(input) + 1] /\ BeginsWith(s, input) /\ NestsWithin(s, StackSize)
  BY LenProperties DEF Reading, ParserTypeOK, Coming, Readable
<1>2. Levels(input)[Len(input) + 1] = Len(stack)
  BY DEF Reading, NestingInv, Nests
<1>3. Levels(s)[Len(input) + 1] = Len(stack)
  BY <1>1, <1>2, LevelsBegin
<1>4. Levels(s)[Len(input) + 1 + 1] = Len(stack) + 1
  <2>1. Len(input) + 1 \in 1 .. Len(s) /\ Change(t) = 1
    BY <1>1 DEF Change
  <2>2. \A k \in 1 .. Len(s) : Levels(s)[k + 1] = Levels(s)[k] + Change(s[k])
    BY LevelsSteps
  <2> QED
    BY <1>1, <1>3, <2>1, <2>2
<1>5. Levels(s)[Len(input) + 1 + 1] <= StackSize
  BY <1>1 DEF NestsWithin
<1>6. Len(stack) \in Nat /\ StackSize \in Nat
  BY ConstantsAssumption, LenProperties DEF Reading, ParserTypeOK
<1> QED
  BY <1>4, <1>5, <1>6 DEF StackFull

(* A bracket opens a value.                                                *)
LEMMA OpeningRead ==
  ASSUME Reading, NEW s \in Seq(Tokens), NEW t \in Tokens, Coming(s, t), OpenContainer(t)
  PROVE  TokenRead(s, t)
<1> DEFINE i == Len(input) + 1
           place == Position(t.type, Len(chunks) + 1, 0)
<1>1. /\ t.type \in Opens /\ Len(s) \in Nat /\ Len(input) \in Nat /\ i + 1 = Len(input) + 2
      /\ t = s[i] /\ i \in 1 .. Len(s)
  BY LenProperties DEF OpenContainer, Reading, ParserTypeOK, Coming
<1>2. place \in Place /\ place.kind = t.type
  <2>1. Len(chunks) + 1 \in Nat /\ 0 \in 0 .. ChunkSize
    BY ConstantsAssumption, LenProperties DEF Reading, ParserTypeOK
  <2> QED
    BY <1>1, <2>1 DEF Place, Position
<1>3. ASSUME NEW cs, NEW below \in Seq(Place), Push(t, cs, below),
             NEW ends, Around(s, Append(below, place), ends),
             ends[Len(below) + 1] \in Ends(s)[<<"value", i>>]
      PROVE  TokenRead(s, t)
  <2>1. /\ phase' = "parsing" /\ input' = Append(input, t) /\ prevType' = t.type
        /\ stack' = Append(below, place) /\ expect' = Wanted(t.type)
    BY <1>3 DEF Push, GoOn, Reading, Wanted
  <2>2. PICK now : now = Append(below, place)
    OBVIOUS
  <2>3. /\ now # <<>> /\ Len(now) = Len(below) + 1 /\ now[Len(now)] = place
    <3>1. Len(below) \in Nat
      BY LenProperties
    <3>2. Len(now) = Len(below) + 1 /\ now[Len(below) + 1] = place
      BY <2>2
    <3> QED
      BY <3>1, <3>2, EmptySeq
  <2>4. i + 1 \in 1 .. Len(s) /\ Innermost(s, i + 1, t.type, ends[Len(now)], t.type, Wanted(t.type))
    BY <1>1, <1>3, <2>3, AfterOpening
  <2>5. Around(s, now, ends)
    BY <1>3, <2>2
  <2> HIDE DEF i, place
  <2>6. Expects(s, i + 1, now, t.type, Wanted(t.type))
    BY <1>2, <2>3, <2>4, <2>5 DEF Expects
  <2> QED
    BY <1>1, <2>1, <2>2, <2>6 DEF TokenRead
<1>4. CASE stack = <<>>
  <2>1. /\ prevType = "none" /\ i = 1 /\ Len(s) \in 1 .. Len(s)
        /\ Len(s) \in Ends(s)[<<"value", i>>]
    BY <1>4, FirstComing
  <2>2. stack \in Seq(Place) /\ Len(stack) = 0
    BY <1>4, EmptySeq DEF Reading, ParserTypeOK
  <2>3. \E cs : Push(t, cs, stack)
    BY <2>1 DEF OpenContainer, OpenFirst, OpenNested, OpenMisplaced
  <2>4. PICK ends : ends = [d \in 1 .. 1 |-> Len(s)]
    OBVIOUS
  <2>5. PICK now : now = Append(stack, place)
    OBVIOUS
  <2>6. Len(now) = 1
    BY <1>2, <2>2, <2>5
  <2>7. ends \in [1 .. 1 -> 1 .. Len(s)] /\ ends[1] = Len(s) /\ 1 .. Len(now) - 1 = {}
    BY <2>1, <2>4, <2>6
  <2>8. Around(s, now, ends)
    BY <2>6, <2>7 DEF Around
  <2>9. ends[Len(stack) + 1] \in Ends(s)[<<"value", i>>]
    BY <2>1, <2>2, <2>7
  <2> HIDE DEF i, place
  <2> QED
    BY <1>3, <2>2, <2>3, <2>5, <2>8, <2>9
<1>5. CASE stack # <<>>
  <2>1. /\ stack \in Seq(Place) /\ Len(stack) \in Nat \ {0} /\ Top.kind \in Opens
    BY <1>5, NextComing
  <2>2. PICK ends : /\ Around(s, stack, ends)
                    /\ Innermost(s, i, Top.kind, ends[Len(stack)], prevType, expect)
    BY <1>5, NextComing
  <2>3. /\ prevType \in {"openArray", "comma", "colon"}
        /\ \E j \in Ends(s)[<<"value", i>>] : Continues(s, j + 1, Top.kind, ends[Len(stack)])
    BY <1>1, <2>2
       DEF Innermost, BracketNow, CommaNow, ValueNow, KeyNow, ColonNow, Named, ValueAt, Closing, Opens
  <2>4. PICK j \in Ends(s)[<<"value", i>>] : Continues(s, j + 1, Top.kind, ends[Len(stack)])
    BY <2>3
  <2>5. j \in 1 .. Len(s)
    <3>1. j \in i + 1 .. Len(s)
      BY <1>1, AfterOpening
    <3> QED
      BY <1>1, <3>1
  <2> DEFINE g == Grown(Append(chunks, NewChunk))
             below == SetTop(g.at, g.pos + 1)
  <2>6. \E cs : Push(t, cs, below)
    BY <1>1, <1>5, <2>3, NotFull DEF OpenContainer, OpenFirst, OpenNested, OpenMisplaced
  <2>7. g.at \in Nat /\ g.pos + 1 \in 0 .. ChunkSize
    <3>1. /\ ParserTypeOK /\ chunks \in Seq(Chunk) /\ NewChunk \in Chunk
          /\ Append(chunks, NewChunk) \in Seq(Chunk)
          /\ Len(Append(chunks, NewChunk)) = Len(chunks) + 1 /\ Len(chunks) \in Nat
      BY NewChunkType, LenProperties, AppendProperties DEF Reading, ParserTypeOK
    <3>2. Len(Append(chunks, NewChunk)) >= Len(chunks)
      BY <3>1
    <3>3. g.at \in 1 .. Len(g.chunks) /\ g.pos \in 0 .. ChunkSize - 1
      BY <1>5, <3>1, <3>2, GrownType
    <3> HIDE DEF g
    <3> QED
      BY <3>3, ConstantsAssumption
  <2> HIDE DEF g
  <2>8. /\ below \in Seq(Place) /\ Len(below) = Len(stack)
        /\ \A d \in 1 .. Len(stack) : below[d].kind = stack[d].kind
    BY <1>5, <2>7, SetTopKinds DEF Reading
  <2> HIDE DEF below, place, i
  <2>9. Continues(s, j + 1, stack[Len(stack)].kind, ends[Len(stack)])
    BY <2>4 DEF Top
  <2>10. PICK more : Around(s, Append(below, place), more) /\ more[Len(stack) + 1] = j
    <3>1. PICK open, now, p : open = stack /\ now = below /\ p = place
      OBVIOUS
    <3>2. open \in Seq(Place) /\ open # <<>> /\ now \in Seq(Place) /\ Len(now) = Len(open)
      BY <1>5, <2>1, <2>8, <3>1
    <3>3. \A d \in 1 .. Len(open) : now[d].kind = open[d].kind
      BY <2>8, <3>1
    <3>4. /\ p \in Place /\ Around(s, open, ends)
          /\ Continues(s, j + 1, open[Len(open)].kind, ends[Len(open)])
      BY <1>2, <2>2, <2>9, <3>1
    <3>5. /\ Around(s, Append(now, p), WithEnd(ends, Len(open), j))
          /\ WithEnd(ends, Len(open), j)[Len(open) + 1] = j
      BY <2>5, <3>2, <3>3, <3>4, AroundPushed
    <3> QED
      BY <3>1, <3>5
  <2> QED
    BY <1>3, <2>4, <2>6, <2>8, <2>10
<1> QED
  BY <1>4, <1>5

(* A bracket closes the innermost container.                               *)
LEMMA ClosingRead ==
  ASSUME Reading, NEW s \in Seq(Tokens), NEW t \in Tokens, Coming(s, t), CloseContainer(t)
  PROVE  TokenRead(s, t)
<1> DEFINE i == Len(input) + 1
<1>1. /\ t.type \in Closes /\ Len(s) \in Nat /\ Len(input) \in Nat /\ i + 1 = Len(input) + 2
      /\ t = s[i] /\ i \in 1 .. Len(s)
  BY LenProperties DEF CloseContainer, Reading, ParserTypeOK, Coming
<1>2. stack # <<>>
  <2> SUFFICES ASSUME stack = <<>> PROVE FALSE
    OBVIOUS
  <2>1. /\ t = s[1] /\ 1 \in 1 .. Len(s) /\ Len(s) \in Ends(s)[<<"value", 1>>]
    BY <1>1, FirstComing
  <2>2. s[1].type \in ScalarTypes \cup Opens
    BY <2>1, ValueBegins
  <2> QED
    BY <1>1, <2>1, <2>2 DEF ScalarTypes, Opens, Closes
<1>3. stack \in Seq(Place) /\ Len(stack) \in Nat \ {0} /\ Top.kind \in Opens /\ st # 0
  BY <1>2, NextComing
<1>4. PICK ends : /\ Around(s, stack, ends)
                  /\ Innermost(s, i, Top.kind, ends[Len(stack)], prevType, expect)
  BY <1>2, NextComing
<1>5. BracketNow(s, i, Top.kind, ends[Len(stack)], prevType)
  <2>1. ~ValueNow(s, i, Top.kind, ends[Len(stack)], prevType, expect)
    <3>1. \A j \in Ends(s)[<<"value", i>>] : s[i].type \in ScalarTypes \cup Opens
      BY <1>1, ValueBegins
    <3> QED
      BY <1>1, <3>1 DEF ValueNow, ValueAt, ScalarTypes, Opens, Closes
  <2> QED
    BY <1>1, <1>4, <2>1 DEF Innermost, CommaNow, KeyNow, ColonNow, Named, Closes
<1>6. /\ Opening(t.type) = Top.kind /\ ends[Len(stack)] = i
      /\ prevType \notin {"comma", "colon"} \cup (Opens \ {Top.kind})
  BY <1>1, <1>3, <1>5 DEF BracketNow, Closing, Opening, Opens
<1>7. ~CloseMisplaced(t.type)
  BY <1>2, <1>3, <1>6 DEF CloseMisplaced
<1>8. /\ phase' = "parsing" /\ input' = Append(input, t) /\ prevType' = t.type
      /\ stack' = SubSeq(stack, 1, Len(stack) - 1)
  BY <1>7 DEF CloseContainer, GoOn, Reading, Front
<1>9. PICK now : now = SubSeq(stack, 1, Len(stack) - 1)
  OBVIOUS
<1>10. Len(stack) - 1 \in Nat /\ Len(stack) - 1 <= Len(stack)
  BY <1>3
<1>11. /\ now \in Seq(Place) /\ Len(now) = Len(stack) - 1
       /\ \A d \in 1 .. Len(stack) - 1 : now[d].kind = stack[d].kind
  BY <1>3, <1>9, <1>10, WithoutLast
<1>12. CASE Len(stack) = 1
  <2>1. ends[1] = Len(s) /\ i = Len(s)
    BY <1>4, <1>6, <1>12 DEF Around
  <2>2. now = <<>>
    BY <1>11, <1>12, EmptySeq
  <2>3. i + 1 = Len(s) + 1
    BY <2>1
  <2>4. Expects(s, i + 1, now, prevType', expect')
    BY <2>2, <2>3 DEF Expects
  <2> QED
    BY <1>1, <1>8, <1>9, <2>4 DEF TokenRead
<1>13. CASE Len(stack) # 1
  <2>1. Len(stack) > 1 /\ Len(now) \in Nat \ {0}
    BY <1>3, <1>11, <1>13
  <2>2. /\ Around(s, now, FirstEnds(ends, Len(now)))
        /\ FirstEnds(ends, Len(now))[Len(now)] = ends[Len(now)]
        /\ Continues(s, ends[Len(stack)] + 1, now[Len(now)].kind, ends[Len(now)])
    BY <1>3, <1>4, <1>11, <2>1, AroundPopped
  <2>3. now # <<>> /\ now[Len(now)].kind \in Opens
    <3>1. now # <<>>
      BY <2>1, EmptySeq
    <3>2. now[Len(now)] \in Place
      BY <1>11, <3>1, HasLast
    <3> QED
      BY <3>1, <3>2 DEF Place
  <2>4. i + 1 \in Nat /\ i + 1 >= 1 /\ t.type \in ScalarTypes \cup Closes
    BY <1>1
  <2>5. /\ i + 1 \in 1 .. Len(s)
        /\ Innermost(s, i + 1, now[Len(now)].kind, ends[Len(now)], t.type, expect')
    BY <1>6, <2>2, <2>3, <2>4, AfterValue
  <2>6. Expects(s, i + 1, now, prevType', expect')
    BY <1>8, <2>2, <2>3, <2>5 DEF Expects
  <2> QED
    BY <1>1, <1>8, <1>9, <2>6 DEF TokenRead
<1> QED
  BY <1>12, <1>13

(* After a token in a container the containers are the same.               *)
LEMMA SameOpen ==
  ASSUME Reading, stack # <<>>, NEW s \in Seq(Tokens), NEW t \in Tokens, GoOn(t),
         NEW now \in Seq(Place), stack' = now, Len(now) = Len(stack),
         \A d \in 1 .. Len(stack) : now[d].kind = stack[d].kind,
         NEW ends, Around(s, stack, ends), Len(input) + 2 \in 1 .. Len(s),
         NEW exp, expect' = exp,
         Innermost(s, Len(input) + 2, Top.kind, ends[Len(stack)], t.type, exp)
  PROVE  TokenRead(s, t)
<1>1. stack \in Seq(Place) /\ Len(stack) \in Nat \ {0}
  BY HasLast DEF Reading, ParserTypeOK
<1>2. Around(s, now, ends)
  BY <1>1, AroundSame
<1>3. now # <<>> /\ now[Len(now)].kind = Top.kind
  BY <1>1, EmptySeq DEF Top
<1>4. Expects(s, Len(input) + 2, now, t.type, exp)
  BY <1>2, <1>3 DEF Expects
<1> QED
  BY <1>4 DEF TokenRead, GoOn, Reading

(* A string, a literal or a number is the whole text, a key or a value.    *)
LEMMA ScalarRead ==
  ASSUME Reading, NEW s \in Seq(Tokens), NEW t \in Tokens, Coming(s, t), PutScalar(t)
  PROVE  TokenRead(s, t)
<1> DEFINE i == Len(input) + 1
<1>1. /\ t.type \in ScalarTypes /\ Len(s) \in Nat /\ Len(input) \in Nat /\ i + 1 = Len(input) + 2
      /\ t = s[i] /\ i \in 1 .. Len(s)
  BY LenProperties DEF PutScalar, ScalarTypes, Reading, ParserTypeOK, Coming
<1>2. CASE stack = <<>>
  <2>1. /\ st = 0 /\ t = s[1] /\ 1 \in 1 .. Len(s) /\ Len(input) = 0
        /\ Len(s) \in Ends(s)[<<"value", 1>>]
    BY <1>1, <1>2, FirstComing
  <2>2. Len(s) = 1
    BY <1>1, <2>1, ValueBegins DEF ScalarTypes, Opens
  <2>3. Alone(t)
    BY <2>1 DEF PutScalar
  <2>4. stack' = <<>> /\ phase' = "parsing" /\ input' = Append(input, t)
    BY <1>2, <2>3 DEF Alone, GoOn, Reading
  <2>5. Expects(s, Len(input) + 2, stack', prevType', expect')
    BY <2>1, <2>2, <2>4 DEF Expects
  <2> QED
    BY <2>4, <2>5 DEF TokenRead
<1>3. CASE stack # <<>>
  <2>1. stack \in Seq(Place) /\ Len(stack) \in Nat \ {0} /\ Top.kind \in Opens /\ st # 0
    BY <1>3, NextComing
  <2>2. PICK ends : /\ Around(s, stack, ends)
                    /\ Innermost(s, i, Top.kind, ends[Len(stack)], prevType, expect)
    BY <1>3, NextComing
  <2>3. PICK c : c = ends[Len(stack)]
    OBVIOUS
  <2>4. ~Alone(t)
    BY <2>1 DEF Alone
  <2> DEFINE g == Grown(chunks)
  <2>5. g.at \in Nat /\ g.pos \in 0 .. ChunkSize /\ g.pos + 1 \in 0 .. ChunkSize
    <3>1. ParserTypeOK /\ chunks \in Seq(Chunk) /\ Len(chunks) >= Len(chunks)
      BY LenProperties DEF Reading, ParserTypeOK
    <3>2. g.at \in 1 .. Len(g.chunks) /\ g.pos \in 0 .. ChunkSize - 1
      BY <1>3, <3>1, GrownType
    <3> HIDE DEF g
    <3> QED
      BY <3>2, ConstantsAssumption
  <2>6. ASSUME NEW pos \in {g.pos, g.pos + 1}, GoOn(t), stack' = SetTop(g.at, pos), expect' = "none",
               i + 1 \in 1 .. Len(s), Innermost(s, i + 1, Top.kind, c, t.type, "none")
        PROVE  TokenRead(s, t)
    <3>1. PICK now : now = SetTop(g.at, pos)
      OBVIOUS
    <3> HIDE DEF g
    <3>2. /\ now \in Seq(Place) /\ Len(now) = Len(stack)
          /\ \A d \in 1 .. Len(stack) : now[d].kind = stack[d].kind
      BY <1>3, <2>5, <2>6, <3>1, SetTopKinds DEF Reading
    <3> QED
      BY <1>1, <1>3, <2>2, <2>3, <2>6, <3>1, <3>2, SameOpen
  <2>7. CASE ValueNow(s, i, Top.kind, c, prevType, expect)
    <3>1. PICK j \in Ends(s)[<<"value", i>>] : Continues(s, j + 1, Top.kind, c)
      BY <2>7 DEF ValueNow, ValueAt
    <3>2. j = i
      BY <1>1, <3>1, ValueBegins DEF ScalarTypes, Opens
    <3>3. i + 1 \in 1 .. Len(s) /\ Innermost(s, i + 1, Top.kind, c, t.type, "none")
      <4>1. i + 1 \in Nat /\ i + 1 >= 1 /\ Continues(s, i + 1, Top.kind, c)
        BY <1>1, <3>1, <3>2
      <4> HIDE DEF i
      <4> QED
        BY <1>1, <2>1, <4>1, AfterValue
    <3>4. PutValue(t)
      BY <2>1, <2>4, <2>7 DEF PutScalar, ValueNow
    <3>5. GoOn(t) /\ stack' = SetTop(g.at, g.pos + 1) /\ expect' = "none"
      BY <3>4 DEF PutValue
    <3> HIDE DEF g, i
    <3> QED
      BY <2>6, <3>3, <3>5
  <2>8. CASE KeyNow(s, i, Top.kind, c, expect)
    <3>1. /\ t.type = "string" /\ i + 2 <= Len(s) /\ s[i + 1].type = "colon"
          /\ Top.kind = "openObj" /\ expect = "key" /\ ValueAt(s, i + 2, Top.kind, c)
      BY <1>1, <2>8 DEF KeyNow, Named
    <3>2. i + 1 \in 1 .. Len(s) /\ i + 1 + 1 = i + 2
      BY <1>1, <3>1
    <3>3. Innermost(s, i + 1, Top.kind, c, t.type, "none")
      BY <3>1, <3>2 DEF Innermost, ColonNow
    <3>4. PutKey(t)
      BY <2>1, <2>4, <3>1 DEF PutScalar
    <3>5. GoOn(t) /\ stack' = SetTop(g.at, g.pos) /\ expect' = "none"
      BY <3>4 DEF PutKey
    <3> HIDE DEF g, i
    <3> QED
      BY <2>6, <3>2, <3>3, <3>5
  <2>9. \/ ValueNow(s, i, Top.kind, c, prevType, expect)
        \/ KeyNow(s, i, Top.kind, c, expect)
    BY <1>1, <2>1, <2>2, <2>3
       DEF Innermost, BracketNow, CommaNow, ColonNow, Closing, Opens, ScalarTypes
  <2> QED
    BY <2>7, <2>8, <2>9
<1> QED
  BY <1>2, <1>3

(* A colon stands between a key and its value, a comma behind a value.     *)
LEMMA MarkRead ==
  ASSUME Reading, NEW s \in Seq(Tokens), NEW t \in Tokens, Coming(s, t),
         Colon(t) \/ Comma(t) \/ BadToken(t)
  PROVE  TokenRead(s, t)
<1> DEFINE i == Len(input) + 1
<1>1. /\ t.type \in {"colon", "comma", "bad"} /\ Len(s) \in Nat /\ Len(input) \in Nat
      /\ i + 1 = Len(input) + 2 /\ t = s[i] /\ i \in 1 .. Len(s)
  BY LenProperties DEF Colon, Comma, BadToken, Reading, ParserTypeOK, Coming
<1>2. stack # <<>>
  <2> SUFFICES ASSUME stack = <<>> PROVE FALSE
    OBVIOUS
  <2>1. /\ t = s[1] /\ 1 \in 1 .. Len(s) /\ Len(s) \in Ends(s)[<<"value", 1>>]
    BY <1>1, FirstComing
  <2>2. s[1].type \in ScalarTypes \cup Opens
    BY <2>1, ValueBegins
  <2> QED
    BY <1>1, <2>1, <2>2 DEF ScalarTypes, Opens
<1>3. stack \in Seq(Place) /\ Len(stack) \in Nat \ {0} /\ Top.kind \in Opens
  BY <1>2, NextComing
<1>4. PICK ends : /\ Around(s, stack, ends)
                  /\ Innermost(s, i, Top.kind, ends[Len(stack)], prevType, expect)
  BY <1>2, NextComing
<1>5. PICK c : c = ends[Len(stack)]
  OBVIOUS
<1>6. \/ CommaNow(s, i, Top.kind, c, prevType)
      \/ ColonNow(s, i, Top.kind, c, prevType)
  <2>1. ~ValueNow(s, i, Top.kind, c, prevType, expect)
    <3>1. \A j \in Ends(s)[<<"value", i>>] : s[i].type \in ScalarTypes \cup Opens
      BY <1>1, ValueBegins
    <3> QED
      BY <1>1, <3>1 DEF ValueNow, ValueAt, ScalarTypes, Opens
  <2> QED
    BY <1>1, <1>4, <1>5, <2>1 DEF Innermost, BracketNow, KeyNow, Named, Closing
<1>7. ASSUME GoOn(t), stack' = stack, NEW exp, expect' = exp, i + 1 \in 1 .. Len(s),
             Innermost(s, i + 1, Top.kind, c, t.type, exp)
      PROVE  TokenRead(s, t)
  BY <1>1, <1>2, <1>3, <1>4, <1>5, <1>7, SameOpen
<1>8. CASE CommaNow(s, i, Top.kind, c, prevType)
  <2>1. /\ t.type = "comma" /\ ListAt(s, i + 1, Top.kind, c)
        /\ prevType \notin {"openObj", "openArray", "comma", "colon"}
    BY <1>1, <1>8 DEF CommaNow, Opens
  <2>2. i + 1 \in 1 .. Len(s) /\ Innermost(s, i + 1, Top.kind, c, t.type, Wanted(Top.kind))
    <3>1. i + 1 \in Nat /\ i + 1 >= 1
      BY <1>1
    <3> HIDE DEF i
    <3> QED
      BY <1>3, <2>1, <3>1, BeforeList
  <2>3. GoOn(t) /\ stack' = stack /\ expect' = Wanted(Top.kind)
    BY <1>2, <2>1 DEF Colon, Comma, BadToken, Wanted
  <2> HIDE DEF i
  <2> QED
    BY <1>7, <2>2, <2>3
<1>9. CASE ColonNow(s, i, Top.kind, c, prevType)
  <2>1. /\ t.type = "colon" /\ Top.kind = "openObj" /\ prevType = "string"
        /\ ValueAt(s, i + 1, Top.kind, c)
    BY <1>1, <1>9 DEF ColonNow
  <2>2. i + 1 \in 1 .. Len(s) /\ Innermost(s, i + 1, Top.kind, c, t.type, "value")
    <3>1. i + 1 <= Len(s)
      BY <2>1 DEF ValueAt
    <3>2. ValueNow(s, i + 1, Top.kind, c, t.type, "value")
      BY <2>1 DEF ValueNow
    <3> QED
      BY <1>1, <3>1, <3>2 DEF Innermost
  <2>3. ColonAccepted(t)
    BY <1>2, <2>1 DEF Colon, ColonRefused, Comma, BadToken, TopKind
  <2>4. GoOn(t) /\ stack' = stack /\ expect' = "value"
    BY <2>3 DEF ColonAccepted
  <2> HIDE DEF i
  <2> QED
    BY <1>7, <2>2, <2>4
<1> QED
  BY <1>6, <1>8, <1>9

(* At the end of a text everything is closed, or it is a scalar.           *)
LEMMA EndRead ==
  ASSUME Reading, EndOfInput, Readable(input)
  PROVE  phase' = "accepted"
<1>1. input \in Seq(Tokens) /\ Len(input) \in Nat
  BY LenProperties DEF Reading, ParserTypeOK
<1>2. BeginsWith(input, input)
  BY <1>1 DEF BeginsWith
<1>3. Expects(input, Len(input) + 1, stack, prevType, expect)
  BY <1>1, <1>2 DEF Reading, ReadingInv
<1>4. stack = <<>>
  BY <1>1, <1>3 DEF Expects
<1>5. ASSUME SingleToken PROVE input[1].type \in Scalars
  <2>1. 1 \in 1 .. Len(input) /\ Len(input) \in Ends(input)[<<"value", 1>>] /\ Len(input) = 1
    BY <1>1, <1>5 DEF SingleToken, Readable, IsText
  <2>2. input[1].type \in ScalarTypes
    BY <1>1, <2>1, ValueBegins
  <2> QED
    BY <2>2 DEF Scalars, ScalarTypes
<1> QED
  BY <1>4, <1>5 DEF EndOfInput

-----------------------------------------------------------------------------
(* So ReadingInv is kept, and what is refused begins no text.              *)
LEMMA ReadingInit == QueryInit => ReadingInv
<1> SUFFICES ASSUME QueryInit PROVE ReadingInv
  OBVIOUS
<1>1. input = <<>> /\ stack = <<>> /\ st = 0 /\ prevType = "none"
  BY DEF QueryInit, Init
<1>2. Len(input) + 1 = 1
  BY <1>1
<1> QED
  BY <1>1, <1>2 DEF ReadingInv, Expects

(* A text that begins with the input and one more token has that token     *)
(* next.                                                                   *)
LEMMA ComesNext ==
  ASSUME Reading, NEW s \in Seq(Tokens), Readable(s), NEW t \in Tokens,
         BeginsWith(s, Append(input, t))
  PROVE  Coming(s, t)
<1>1. /\ input \in Seq(Tokens) /\ Len(input) \in Nat /\ Len(s) \in Nat
      /\ Len(Append(input, t)) = Len(input) + 1
      /\ \A k \in 1 .. Len(input) : Append(input, t)[k] = input[k]
      /\ Append(input, t)[Len(input) + 1] = t
  BY LenProperties, AppendProperties DEF Reading, ParserTypeOK
<1>2. Len(input) + 1 <= Len(s) /\ \A k \in 1 .. Len(input) + 1 : s[k] = Append(input, t)[k]
  BY <1>1 DEF BeginsWith
<1>3. /\ Len(input) < Len(s) /\ Len(input) + 1 \in 1 .. Len(input) + 1
      /\ \A k \in 1 .. Len(input) : k \in 1 .. Len(input) + 1
  BY <1>1, <1>2
<1>4. BeginsWith(s, input) /\ t = s[Len(input) + 1]
  BY <1>1, <1>2, <1>3 DEF BeginsWith
<1> QED
  BY <1>3, <1>4 DEF Coming, Reading, ReadingInv

LEMMA TokenKeepsReading ==
  ASSUME Reading, NEW t \in Tokens,
         \/ OpenContainer(t) \/ CloseContainer(t) \/ PutScalar(t)
         \/ Colon(t) \/ Comma(t) \/ BadToken(t)
  PROVE  /\ ReadingInv'
         /\ phase' = "refused" => input' # input /\ input' \notin ReadableBeginnings
<1>1. ASSUME NEW s \in Seq(Tokens), Readable(s), BeginsWith(s, Append(input, t))
      PROVE  TokenRead(s, t)
  BY <1>1, ComesNext, OpeningRead, ClosingRead, ScalarRead, MarkRead
<1>2. /\ input' = Append(input, t)
      /\ Len(input') = Len(input) + 1 /\ Len(input) \in Nat /\ input' # <<>> /\ input' # input
  <2>1. input' = Append(input, t)
    BY DEF OpenContainer, OpenFirst, OpenNested, OpenMisplaced, CloseContainer, PutScalar, Alone,
           PutKey, PutValue, Colon, ColonAccepted, ColonRefused, Comma, BadToken, Push, GoOn, Refuse
  <2>2. Len(Append(input, t)) = Len(input) + 1 /\ Len(input) \in Nat
    BY LenProperties, AppendProperties DEF Reading, ParserTypeOK
  <2> QED
    BY <2>1, <2>2, EmptySeq
<1>3. ReadingInv'
  <2>1. ASSUME NEW s \in Seq(Tokens), Readable(s), BeginsWith(s, input')
        PROVE  Expects(s, Len(input') + 1, stack', prevType', expect')
    <3>1. TokenRead(s, t)
      BY <1>1, <1>2, <2>1
    <3>2. Len(input') + 1 = Len(input) + 2
      BY <1>2
    <3> QED
      BY <3>1, <3>2 DEF TokenRead
  <2> QED
    BY <1>2, <2>1 DEF ReadingInv
<1>4. ASSUME phase' = "refused", input' \in ReadableBeginnings PROVE FALSE
  <2>1. PICK d \in Documents : Readable(d) /\ input' \in {SubSeq(d, 1, k) : k \in 1 .. Len(d)}
    BY <1>4 DEF ReadableBeginnings
  <2>2. PICK k \in 1 .. Len(d) : input' = SubSeq(d, 1, k)
    BY <2>1
  <2>3. d \in Seq(Tokens) /\ Len(d) \in Nat /\ k \in Nat /\ k <= Len(d)
    BY ConstantsAssumption, LenProperties, <2>2
  <2>4. Len(SubSeq(d, 1, k)) = k /\ \A j \in 1 .. k : SubSeq(d, 1, k)[j] = d[j]
    BY <2>3, WithoutLast
  <2>5. BeginsWith(d, input')
    BY <2>2, <2>3, <2>4 DEF BeginsWith
  <2>6. TokenRead(d, t)
    BY <1>1, <1>2, <2>1, <2>3, <2>5
  <2> QED
    BY <1>4, <2>6 DEF TokenRead
<1> QED
  BY <1>2, <1>3, <1>4

(* There is no text without a token.                                       *)
LEMMA NothingIsNoText == ~Readable(<<>>)
<1>1. <<>> \in Seq(Tokens) /\ Len(<<>>) = 0 /\ "value" \in Whats
  BY DEF Whats
<1>2. PICK s \in Seq(Tokens) : s = <<>>
  BY <1>1
<1>3. Ends(s)[<<"value", 1>>] = EndsAfter(s, Ends(s), "value", 1)
  <2>1. 1 \in 1 .. Len(s) + 1
    BY <1>1, <1>2
  <2> QED
    BY <1>1, <2>1, EndsDef
<1>4. Ends(s)[<<"value", 1>>] = {}
  BY <1>1, <1>2, <1>3 DEF EndsAfter
<1> QED
  BY <1>2, <1>4 DEF Readable, IsText

\* What RefusesOnlyErrors says of a step.
ErrorStep ==
  phase' = "refused" =>
    IF input' # input THEN input' \notin ReadableBeginnings ELSE ~Readable(input)

LEMMA ReadingStep == DocumentInv /\ ReadingInv /\ [Next]_vars => ReadingInv' /\ [ErrorStep]_vars
<1> SUFFICES ASSUME DocumentInv, ReadingInv, [Next]_vars PROVE ReadingInv' /\ [ErrorStep]_vars
  OBVIOUS
<1>1. ParserTypeOK /\ NestingInv
  BY DEF DocumentInv, ParserInv
<1>2. CASE ReadToken
  <2>1. Reading
    BY <1>1, <1>2 DEF ReadToken, Reading
  <2>2. PICK t \in Tokens : \/ OpenContainer(t) \/ CloseContainer(t) \/ PutScalar(t)
                            \/ Colon(t) \/ Comma(t) \/ BadToken(t)
    BY <1>2 DEF ReadToken
  <2> QED
    BY <2>1, <2>2, TokenKeepsReading DEF ErrorStep
<1>3. CASE EndOfInput
  <2>1. Reading /\ phase' \in {"accepted", "refused"} /\ input' = input
    BY <1>1, <1>3 DEF EndOfInput, Reading
  <2>2. Readable(input) => phase' = "accepted"
    BY <1>3, <2>1, EndRead
  <2>3. phase' = "refused" => ~Readable(input)
    BY <2>2
  <2> QED
    BY <2>1, <2>3 DEF ErrorStep, ReadingInv
<1>4. CASE LoadFails
  <2>1. phase' = "refused" /\ input' = input /\ input = <<>>
    BY <1>4 DEF LoadFails
  <2> QED
    BY <2>1, NothingIsNoText DEF ErrorStep, ReadingInv
<1>5. CASE Get \/ GetNext \/ Free
  <2>1. phase' \in {"accepted", "closed"}
    BY <1>5 DEF Get, GetNext, Free, Callable
  <2> QED
    BY <2>1 DEF ErrorStep, ReadingInv
<1>6. CASE UNCHANGED vars
  <2>1. /\ phase' = phase /\ input' = input /\ stack' = stack /\ st' = st
        /\ prevType' = prevType /\ expect' = expect
    BY <1>6 DEF vars
  <2>2. ReadingInv'
    BY <2>1 DEF ReadingInv
  <2> QED
    BY <1>6, <2>2
<1> QED
  BY <1>2, <1>3, <1>4, <1>5, <1>6 DEF Next, Parse, ParserNext

(* jsense accepts JSON: whatever the chunks and the depth of the stack, no *)
(* token of a document that is a JSON text and nests within the stack is   *)
(* refused, nor is its end (j_parse's checks of the token before, of       *)
(* next_key_value and of the stack).                                       *)
THEOREM RefusesNoText == Spec => RefusesOnlyErrors
<1>1. QueryInit => DocumentInv /\ ReadingInv
  BY DocumentInit, ReadingInit
<1>2. DocumentInv /\ ReadingInv /\ [Next]_vars => (DocumentInv /\ ReadingInv)'
  BY DocumentStep, ReadingStep
<1>3. DocumentInv /\ ReadingInv /\ [Next]_vars => [ErrorStep]_vars
  BY ReadingStep
<1> QED
  BY <1>1, <1>2, <1>3, PTL DEF Spec, RefusesOnlyErrors, ErrorStep
=============================================================================
