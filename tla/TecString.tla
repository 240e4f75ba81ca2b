------------------------------ MODULE TecString ------------------------------
(***************************************************************************)
(* The string functions of "technical", the library below jsense:          *)
(* cmd-pamodoro/jsense/technical.c up to tec_buf_cmp.                      *)
(*                                                                         *)
(* A string is the sequence of its bytes without the final zero; positions *)
(* are C's, so the first byte is s[0], here At(s, 0).  A function that     *)
(* changes a string is the operator that returns the new one; one that     *)
(* also returns a code gives a record of both.                             *)
(***************************************************************************)
EXTENDS Integers, Sequences, SequencesExt

CONSTANTS
  Word,         \* bytes compared at once: 8, or 4 in the 32-bit build
  Threshold,    \* 32: tec_buf_cmp compares shorter ranges byte by byte
  SplitLimit,   \* original_limit: the entries of the first table
  IntBits,      \* width of an int
  HexBits       \* width of a uint32_t

ASSUME StringAssumption ==
  /\ {Word, Threshold, SplitLimit, IntBits, HexBits} \subseteq Nat \ {0}
  /\ Word <= Threshold

Null == <<-1>>   \* a null pointer where a string is expected

At(s, i) == IF i < Len(s) THEN s[i + 1] ELSE 0
Upto(s, n) == SubSeq(s, 1, n)
From(s, n) == SubSeq(s, n + 1, Len(s))
Least(S) == CHOOSE x \in S : \A y \in S : x <= y
Greatest(S) == CHOOSE x \in S : \A y \in S : x >= y
\* The members of S, all below n, in order.
InOrder(S, n) == SelectSeq([i \in 1 .. n |-> i - 1], LAMBDA i : i \in S)

Cont(b) == b \in 128 .. 191      \* the 2nd, 3rd or 4th byte of a codepoint
Lead(b) == b \in 192 .. 255
Ascii(b) == b < 128
White == {9, 10, 11, 12, 13, 32}
Digits == 48 .. 57
Dot == 46
Minus == 45
Plus == 43
Quote == 34
Backslash == 92
Space == 32

\* A null pointer counts as an empty string.
Equal(s, t) == IF Null \in {s, t} THEN {s, t} \subseteq {Null, <<>>} ELSE s = t

-----------------------------------------------------------------------------
(* tec_string_length on memory that holds the string from start on: up to  *)
(* the next word boundary byte by byte, then the words without a zero      *)
(* byte, then the bytes of the last one.                                   *)
Aligned(i) == i % Word = 0
Length(mem, start) ==
  LET WordHasZero(i) == \E k \in i .. i + Word - 1 : At(mem, k) = 0
      Bytes[i \in Nat] == IF At(mem, i) = 0 \/ Aligned(i) THEN i ELSE Bytes[i + 1]
      Words[i \in Nat] == IF WordHasZero(i) THEN i ELSE Words[i + Word]
      Rest[i \in Nat] == IF At(mem, i) = 0 THEN i ELSE Rest[i + 1]
      first == Bytes[start]
  IN  (IF At(mem, first) = 0 THEN first ELSE Rest[Words[first]]) - start

Changed(text, code) == [text |-> text, code |-> code]

Whole_Cut(s, n) == n   \* mutant: a codepoint is cut
\* How much of the first n bytes stays: no part of a codepoint that goes on after them.
Whole(s, n) ==
  IF Cont(At(s, n)) THEN Greatest({j \in 0 .. n - 1 : ~Cont(At(s, j))}) ELSE n

\* As many bytes of s as there is room for.
Fitting(s, room) == Least({Len(s), room})
Code(s, n) == IF n < Len(s) THEN 2 ELSE 1

Copy(dest, source, size) ==
  LET n == Fitting(source, size - 1)
  IN  IF source = Null THEN Changed(<<>>, 1)
      ELSE IF size <= 0 THEN Changed(dest, 0)
      ELSE Changed(Upto(source, Whole(source, n)), Code(source, n))

CopyWithEllipsis(dest, source, size) ==
  LET n == Fitting(source, size - 4)
  IN  IF source # Null /\ size >= 4 /\ Len(source) >= size
      THEN Changed(Upto(source, Whole(source, n)) \o <<Dot, Dot, Dot>>, 2)
      ELSE Copy(dest, source, size)

Concatenate(dest, source, size) ==
  LET n == Fitting(source, Greatest({0, size - 1 - Len(dest)}))
  IN  IF source = <<>> THEN Changed(dest, 1)
      ELSE IF source = Null \/ size < 2 \/ Len(dest) > size THEN Changed(dest, 0)
      ELSE Changed(dest \o Upto(source, Whole(source, n)), Code(source, n))

\* The first codepoint goes; an ASCII character is one byte.
Shift(s) ==
  LET After[i \in Nat] == IF Cont(At(s, i)) THEN After[i + 1] ELSE i
  IN  From(s, IF Lead(At(s, 0)) THEN After[2] ELSE 1)

-----------------------------------------------------------------------------
(* Both splits: the pieces between the cut positions go to a table, and    *)
(* when it is full to one of twice the size; in the end the tables are     *)
(* copied into one.  A cut at the very end gives a null pointer.           *)
Piece(s, cuts, from) ==
  IF from = Len(s) /\ from > 0 THEN Null
  ELSE SubSeq(s, from + 1, Least({c \in cuts : c >= from} \cup {Len(s)}))
Pieces(s, cuts) ==
  LET starts == InOrder({0} \cup {c + 1 : c \in cuts}, Len(s) + 1)
  IN  [k \in DOMAIN starts |-> Piece(s, cuts, starts[k])]

Collect_SameLimit(tables) ==   \* mutant: the limit is not doubled
  LET Copied[t \in Nat] == IF t > Len(tables) THEN <<>>
                           ELSE Upto(tables[t], Fitting(tables[t], SplitLimit)) \o Copied[t + 1]
  IN  Copied[1]
Collect(tables) ==
  LET Copied[t \in Nat] == IF t > Len(tables) THEN <<>>
                           ELSE Upto(tables[t], Fitting(tables[t], SplitLimit * 2^(t - 1)))
                                  \o Copied[t + 1]
  IN  Copied[1]

\* reach: the end is marked behind the last piece, in a table that may be full.
Split(s, cuts) ==
  LET pieces == Pieces(s, cuts)
      Filled[from, limit \in Nat] ==
        IF Len(pieces) - from <= limit THEN <<From(pieces, from)>>
        ELSE <<SubSeq(pieces, from + 1, from + limit)>> \o Filled[from + limit, 2 * limit]
      num == Cardinality(cuts)
  IN  IF num < SplitLimit
      THEN [pieces |-> pieces, num |-> num, inside |-> num + 1 < SplitLimit]
      ELSE [pieces |-> Collect(Filled[0, SplitLimit]), num |-> num, inside |-> TRUE]

CharCuts(s, c) == {i \in 0 .. Len(s) - 1 : At(s, i) = c}

\* Spaces between quotes are not cut; a quote behind a backslash is none.
ArgCuts(s) ==
  LET IsQuote(i) == At(s, i) = Quote /\ (i = 0 \/ At(s, i - 1) # Backslash)
      InString[i \in Nat] == IF i = 0 THEN FALSE
                             ELSE IF IsQuote(i - 1) THEN ~InString[i - 1] ELSE InString[i - 1]
  IN  {i \in CharCuts(s, Space) : ~InString[i]}

-----------------------------------------------------------------------------
FindChar(s, c) == LET hits == CharCuts(s, c) IN IF hits = {} THEN -1 ELSE Least(hits)

\* tec_string_find_str and, on a buffer of that size, tec_buf_find_str.
FindStr(s, t) ==
  LET last == Len(s) - Len(t)
      Matched[i, j \in Nat] == IF j < Len(t) /\ i < Len(s) /\ At(s, i) = At(t, j)
                               THEN Matched[i + 1, j + 1] ELSE j
      Search[i \in Nat] == IF i > last THEN -1
                           ELSE IF Matched[i, 0] = Len(t) THEN i ELSE Search[i + 1]
  IN  IF s = <<>> \/ t = <<>> \/ last < 0 THEN -1 ELSE Search[0]

IsPlainAscii(s) == \A i \in DOMAIN s : s[i] \in 32 .. 126

BufBegins(buffer, s) == Upto(buffer, Fitting(buffer, Len(s))) = s

\* tec_buf_cmp reads whole words from the first boundary on, the last of
\* them maybe past end, then that one again byte by byte.
Same(b1, b2, S) == \A i \in S : At(b1, i) = At(b2, i)
BufCmp(b1, b2, begin, end) ==
  LET first == Least({i \in begin .. begin + Word : Aligned(i)})
      words == {i \in first .. end - 1 : Aligned(i)}
      last  == Greatest(words)
  IN  IF end - begin < Threshold
      THEN begin <= end /\ Same(b1, b2, begin .. end)
      ELSE /\ Same(b1, b2, begin .. first - 1)
           /\ \A w \in words : Same(b1, b2, w .. w + Word - 1)
           /\ Same(b1, b2, last .. end)

-----------------------------------------------------------------------------
(* Numbers.  Arithmetic wraps around, as the build does where C leaves it  *)
(* open.                                                                   *)
Signed(n) ==
  LET r == n % 2^IntBits IN IF r >= 2^(IntBits - 1) THEN r - 2^IntBits ELSE r
IntMin == -(2^(IntBits - 1))
IntMax == 2^(IntBits - 1) - 1

AfterWhite(s) ==
  LET Skip[i \in Nat] == IF At(s, i) \in White THEN Skip[i + 1] ELSE i IN From(s, Skip[0])
HasSign(s) == At(s, 0) \in {Minus, Plus}
AfterSign(s) == From(s, IF HasSign(s) THEN 1 ELSE 0)
DigitsEnd(s, from) ==
  LET Skip[i \in Nat] == IF At(s, i) \in Digits THEN Skip[i + 1] ELSE i IN Skip[from]

\* The number the first n bytes of s write, every step of it reduced by Reduce.
Read(s, n, base, Value(_), Reduce(_)) ==
  LET Number[i \in Nat] == IF i = 0 THEN 0
                           ELSE Reduce(Number[i - 1] * base + Value(s[i]))
  IN  Number[n]
Decimal(b) == b - 48

ToInt(s) ==
  LET t == AfterSign(AfterWhite(s))
      n == Read(t, DigitsEnd(t, 0), 10, Decimal, Signed)
  IN  IF At(AfterWhite(s), 0) = Minus THEN Signed(-n) ELSE n

IsHex(b) == b \in Digits \cup 65 .. 70 \cup 97 .. 102
HexValue(b) == IF b \in Digits THEN b - 48 ELSE IF b >= 97 THEN b - 87 ELSE b - 55
HexToInt(s) ==
  LET t == AfterWhite(s)
      u == IF BufBegins(t, <<48, 120>>) THEN From(t, 2) ELSE t
      n == Least({i \in 0 .. Len(u) : ~IsHex(At(u, i))})
  IN  Read(u, n, 16, HexValue, LAMBDA x : x % 2^HexBits)

\* The remainder of C has the sign of the number: it shows in INT_MIN, which is
\* its own opposite.
FromInt(n, size) ==
  LET abs == Signed(IF n < 0 THEN -n ELSE n)
      Written[i \in Int] == IF i > 9 THEN Append(Written[i \div 10], 48 + (i % 10))
                            ELSE IF i >= 0 THEN <<48 + i>> ELSE <<48 - ((-i) % 10)>>
      s == (IF n < 0 THEN <<Minus>> ELSE <<>>) \o Written[abs]
  IN  IF Len(s) + 1 > size THEN Changed(<<>>, -1) ELSE Changed(s, Len(s) + 1)

\* A double as digits times a power of ten, its rounding left out.
ToDouble(s) ==
  LET t    == AfterSign(AfterWhite(s))
      i    == DigitsEnd(t, 0)
      dot  == At(t, i) = Dot
      f    == IF dot THEN DigitsEnd(t, i + 1) ELSE i
      frac == IF dot THEN SubSeq(t, i + 2, f) ELSE <<>>
      exp  == IF At(t, f) \in {69, 101} THEN ToInt(From(t, f + 1)) ELSE 0
      all  == Upto(t, i) \o frac
      n    == Read(all, Len(all), 10, Decimal, LAMBDA x : x)
  IN  [digits |-> IF At(AfterWhite(s), 0) = Minus THEN -n ELSE n,
       power |-> exp - Len(frac), error |-> IF all = <<>> THEN -1 ELSE 0]

\* The bytes of a codepoint, six bits in each from the last to the first.
Replacement == <<239, 191, 189>>
Utf8(n) ==
  LET len == IF n < 2048 THEN 2 ELSE IF n < 65636 THEN 3 ELSE 4
      mark(j) == IF j > 1 THEN 128 ELSE 256 - 2^(8 - len)
  IN  IF n > 1114112 \/ n \in 55296 .. 57343 THEN Replacement
      ELSE IF n < 128 THEN <<n>>
      ELSE [j \in 1 .. len |-> mark(j) + ((n \div 64^(len - j)) % 64)]
=============================================================================
