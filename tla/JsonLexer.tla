------------------------------ MODULE JsonLexer ------------------------------
(***************************************************************************)
(* The reader of jsense's tokens, cmd-pamodoro/jsense/jsense.h from        *)
(* j_get_token to j_unescape_string: bytes in, the tokens of JsonParser    *)
(* out, and the text of a string with its escapes resolved.                *)
(***************************************************************************)
EXTENDS TecString

OpenBrace == 123
CloseBrace == 125
OpenBracket == 91
CloseBracket == 93
Comma == 44
JsonWhite == {Space, 13, 9, 10}
True == <<116, 114, 117, 101>>
NullWord == <<110, 117, 108, 108>>
False == <<102, 97, 108, 115, 101>>
Marks == [b \in {OpenBrace, CloseBrace, OpenBracket, CloseBracket, 58, Comma} |->
            CASE b = OpenBrace    -> "openObj"
              [] b = CloseBrace   -> "closeObj"
              [] b = OpenBracket  -> "openArray"
              [] b = CloseBracket -> "closeArray"
              [] b = Comma        -> "comma"
              [] OTHER            -> "colon"]

\* A token: its type, how many bytes it takes, its text, and needs_escaping, which
\* only a string, and a byte that begins no token, sets.
Token(type, len, text, raw) == [type |-> type, len |-> len, text |-> text, raw |-> raw]
Bad == Token("bad", 0, <<>>, FALSE)

\* Where the string that starts at 0 has its closing quote: -1 if it has none.
StringEnd(s) ==
  LET Next(i) == IF At(s, i) = Backslash THEN i + 2 ELSE i + 1
      Scan[i \in Nat] == IF i >= Len(s) THEN -1
                         ELSE IF At(s, i) = Quote THEN i ELSE Scan[Next(i)]
  IN  Scan[0]

ParseString(s) ==
  LET end  == StringEnd(s)
      text == Upto(s, end)
  IN  IF end < 0 THEN Bad
      ELSE Token("string", end + 2, text, \E k \in DOMAIN text : text[k] = Backslash)

\* The length of the number s begins with, 0 for an error.
ParseNumber(s) ==
  LET a == IF At(s, 0) = Minus THEN 1 ELSE 0
      b == DigitsEnd(s, a)
      c == IF At(s, b) = Dot THEN DigitsEnd(s, b + 1) ELSE b
      exponent == At(s, c) \in {69, 101}
      d == IF At(s, c + 1) \in {Plus, Minus} THEN c + 2 ELSE c + 1
      wrong == \/ b = a                             \* no digits
               \/ At(s, a) = 48 /\ b > a + 1         \* a leading zero
               \/ At(s, b) = Dot /\ c = b + 1
               \/ exponent /\ DigitsEnd(s, d) = d
  IN  IF wrong THEN 0 ELSE IF exponent THEN DigitsEnd(s, d) ELSE c

Delimiters == {Comma, CloseBracket, CloseBrace} \cup JsonWhite
Literal(s, word, raw) ==
  IF At(s, Len(word)) \in Delimiters \cup {0} THEN Token("literal", Len(word), word, raw)
  ELSE Bad

\* The token at the beginning of s, which is not white space; raw is what the
\* token before it left in needs_escaping.
GetToken(s, raw) ==
  LET words == {w \in {True, NullWord, False} : BufBegins(s, w)}
      b     == At(s, 0)
      n     == ParseNumber(s)
  IN  CASE words # {}              -> Literal(s, CHOOSE w \in words : TRUE, raw)
        [] b \in DOMAIN Marks      -> Token(Marks[b], 1, <<>>, raw)
        [] b = Quote               -> ParseString(From(s, 1))
        [] n > 0                   -> Token("number", n, Upto(s, n), raw)
        [] OTHER                   -> Bad

\* The bits of a byte order mark, EF BB BF, and maybe more.
HasMark(s) == At(s, 0) \in {239, 255} /\ At(s, 1) \in {187, 191, 251, 255} /\ At(s, 2) \in {191, 255}

\* The tokens of a document, as j_parse asks for them: a bad one is the last.
Lexed(s) ==
  LET AfterSpace(t) == From(t, Least({i \in 0 .. Len(t) : At(t, i) \notin JsonWhite}))
      Tokens[t \in Seq(Nat), raw \in BOOLEAN] ==
        LET token == GetToken(t, raw)
        IN  IF t = <<>> THEN <<>>
            ELSE IF token.type = "bad" THEN <<token>>
            ELSE <<token>> \o Tokens[AfterSpace(From(t, token.len)), token.raw]
  IN  Tokens[AfterSpace(IF HasMark(s) THEN From(s, 3) ELSE s), FALSE]

-----------------------------------------------------------------------------
(* Resolving escapes in place.                                             *)
Escapes == [b \in {Backslash, Quote, 47, 98, 102, 110, 114, 116} |->
              CASE b = 98  -> 8
                [] b = 102 -> 12
                [] b = 110 -> 10
                [] b = 114 -> 13
                [] b = 116 -> 9
                [] OTHER   -> b]

HasBit(n, S) == \E k \in S : (n \div 2^k) % 2 = 1
High(h) == HasBit(h, {15, 14, 12, 11})        \* h & 0xd800
Low(h) == HasBit(h, {15, 14, 12, 11, 10})     \* h & 0xdc00
Paired(high, low) == (high % 1024) * 1024 + (low % 1024) + 65536

Shifted(s, times) ==
  LET Times[n \in Nat] == IF n = 0 THEN s ELSE Shift(Times[n - 1]) IN Times[times]

Written_OneShort(rest, bytes) ==   \* mutant: the last digit stays
  Shifted(<<42>> \o From(rest, Len(bytes) + 1), 5 - Len(bytes))
\* The codepoint goes over the escape, and what is left of that is shifted away.
Written(rest, bytes) == Shifted(<<42>> \o From(rest, Len(bytes) + 1), 6 - Len(bytes))

\* A string as its reader sees it: a zero byte ends it.
Visible(s) == Upto(s, Least({i \in 0 .. Len(s) : At(s, i) = 0}))

(* done is final, rest starts where str points, half is prev_hex.  A       *)
(* backslash that begins no known escape stays, and so does an escape of   *)
(* four digits while half waits and the digits have none of its bits.      *)
Unescape(s) ==
  LET Hex(rest) == HexToInt(SubSeq(rest, 3, Fitting(rest, 6)))
      Kept(rest, half) == \/ At(rest, 1) # 117
                          \/ half # 0 /\ ~Low(Hex(rest))
      Text[done, rest \in Seq(Nat), half \in Nat] ==
        IF rest = <<>> THEN done
        ELSE IF At(rest, 0) # Backslash
          THEN Text[Append(done, Head(rest)), Tail(rest), half]
        ELSE IF At(rest, 1) \in DOMAIN Escapes
          THEN Text[Append(done, Escapes[At(rest, 1)]), From(rest, 2), half]
        ELSE IF Kept(rest, half)
          THEN Text[Append(done, Backslash), Tail(rest), half]
        ELSE IF half = 0 /\ High(Hex(rest))
          THEN Text[done, Shifted(rest, 6), Hex(rest)]
        ELSE LET bytes == Utf8(IF half = 0 THEN Hex(rest) ELSE Paired(half, Hex(rest)))
             IN  Text[done \o bytes, Written(rest, bytes), 0]
  IN  Visible(Text[<<>>, s, 0])
=============================================================================
