------------------------------ MODULE TextCalls ------------------------------
(***************************************************************************)
(* One call of a text function from every content its argument may have:   *)
(* the functions of technical.c, jsense's reader of bytes, and the line    *)
(* reader of the FTP client, each compared with what its comment in        *)
(* technical.h, JSON, or the prompt promise.                               *)
(*                                                                         *)
(* The calls keep no state but the buffer they are given, and every        *)
(* content of it is an initial one: what holds for one call holds for any  *)
(* sequence of them.                                                       *)
(***************************************************************************)
EXTENDS TecPath, TecFile, JsonLexer, FtpLine, FiniteSetsExt

CONSTANTS
  Size,         \* bytes of the buffer that edits work in
  Texts,        \* what it may hold, and what is put into it: UTF-8
  Paths,        \* paths and command lines
  Patterns,     \* what is looked for
  Streams,      \* what is typed at the prompt
  Numerals,     \* characters of numbers
  Jsons,        \* characters of documents
  Strings,      \* the text of JSON strings
  Ints,         \* numbers to be written
  Codepoints,
  Names,        \* of files
  FileSystems   \* what they may be

VARIABLES
  kind,   \* what the caller has in the buffer
  buf,    \* the argument; an edit changes it
  call    \* the call made: its name, its other argument and what it returned

vars == <<kind, buf, call>>

Called(name, arg, result) == [name |-> name, arg |-> arg, result |-> result]
None == Called("none", 0, 0)
Init ==
  /\ call = None
  /\ \/ kind = "text" /\ buf \in Texts
     \/ kind = "path" /\ buf \in Paths
     \/ kind = "stream" /\ buf \in Streams
     \/ kind = "number" /\ buf \in Numerals
     \/ kind = "json" /\ buf \in Jsons
     \/ kind = "string" /\ buf \in Strings
     \/ kind = "empty" /\ buf = <<>>
     \/ kind = "files" /\ buf \in FileSystems

Ready(k) == call = None /\ kind = k /\ UNCHANGED kind
Edited(name, arg, changed) ==
  /\ buf' = changed.text
  /\ call' = Called(name, arg, changed.code)
Asked(name, arg, result) == UNCHANGED buf /\ call' = Called(name, arg, result)

EditCopy ==
  /\ Ready("text")
  /\ \E source \in {buf, Null}, n \in 0 .. Size :
       \/ Edited("copy", [source |-> source, size |-> n], Copy(<<>>, source, n))
       \/ Edited("ellipsis", [source |-> source, size |-> n], CopyWithEllipsis(<<>>, source, n))

EditCat ==
  /\ Ready("text") /\ Len(buf) < Size
  /\ \E t \in Texts :
       \/ Edited("cat", t, Concatenate(buf, t, Size))
       \/ buf # <<>> /\ t # <<>> /\ Edited("sub", t, DirSub(buf, t, Size))

EditShift == Ready("text") /\ Edited("shift", 0, Changed(Shift(buf), 0))

EditPath ==
  /\ Ready("path") /\ buf # <<>>
  /\ \/ Edited("parent", 0, DirParent(buf))
     \/ Edited("filename", 0, GetFilename(buf))

EditFiles ==
  /\ Ready("files")
  /\ \E from, to \in Names : \E keep \in BOOLEAN : \E fault \in Faults :
       \E n \in 0 .. Len(buf[from].data) :
         Edited("file_copy", [from |-> from, to |-> to, keep |-> keep, fault |-> fault],
                FileCopy(buf, from, to, keep, fault, n))

AskFile ==
  /\ Ready("files")
  /\ \E n \in Names, fault \in Faults :
       Asked("contents", [of |-> n, fault |-> fault], GetContents(buf, n, fault))

AskPath ==
  /\ Ready("path")
  /\ \/ Len(buf) >= 2 /\ Asked("make", 0, DirMade(buf))
     \/ buf # <<>> /\ Asked("launch", 0, Launched(buf))
     \/ \E c \in {Slash, Space} : Asked("split", c, Split(buf, CharCuts(buf, c)))

AskText ==
  /\ Ready("text")
  /\ \/ \E p \in Patterns \cup {Null} : Asked("equal", p, Equal(buf, p))
     \/ \E p \in Patterns : \/ Asked("find", p, FindStr(buf, p))
                            \/ Asked("begins", p, BufBegins(buf, p))
                            \/ \E i \in 0 .. Len(buf) : \E j \in i .. Len(buf) - 1 :
                                 Asked("cmp", <<p, i, j>>, BufCmp(buf, p, i, j))
     \/ \E k \in 0 .. Word - 1 : \E p \in Patterns :
          Asked("length", k, Length([i \in 1 .. k |-> 97] \o buf \o <<0>> \o p, k))

AskLine == Ready("stream") /\ Asked("line", 0, GetLine(buf))
AskCommands == Ready("stream") /\ Asked("commands", 0, Commands(buf))

AskNumber ==
  /\ Ready("number")
  /\ \/ Asked("int", 0, ToInt(buf))
     \/ Asked("hex", 0, HexToInt(buf))
     \/ Asked("double", 0, ToDouble(buf))
     \/ Asked("number", 0, ParseNumber(buf))

AskWritten ==
  /\ Ready("empty")
  /\ \/ \E n \in Ints, size \in 0 .. Size : Asked("write", <<n, size>>, FromInt(n, size))
     \/ \E n \in Codepoints : Asked("utf8", n, Utf8(n))

AskJson == Ready("json") /\ Asked("lex", 0, Lexed(buf))
AskString == Ready("string") /\ Asked("unescape", 0, Unescape(buf))

Next == EditCopy \/ EditCat \/ EditShift \/ EditPath \/ EditFiles \/ AskFile \/ AskPath \/ AskText \/ AskLine
          \/ AskCommands \/ AskNumber \/ AskWritten \/ AskJson \/ AskString

Spec == Init /\ [][Next]_vars

-----------------------------------------------------------------------------
(* What the comments promise, in terms of the strings themselves.          *)

\* The most of s that fits in n bytes, a codepoint being whole or left out.
Between(s) == {i \in 0 .. Len(s) : ~Cont(At(s, i))}
Most(s, n) == Upto(s, Greatest({i \in Between(s) : i <= Greatest({0, n})}))

\* The bytes of s before the first that is not in S.
Prefix(s, S) == Upto(s, Least({i \in 0 .. Len(s) : i = Len(s) \/ At(s, i) \notin S}))

\* t stands in s at position i.
IsAt(s, t, i) == i + Len(t) <= Len(s) /\ SubSeq(s, i + 1, i + Len(t)) = t

\* The maximal runs of bytes that are not in S: the names of a path.
Runs(s, S) ==
  LET starts == {i \in 0 .. Len(s) - 1 : At(s, i) \notin S /\ (i = 0 \/ At(s, i - 1) \in S)}
      run(i) == Prefix(From(s, i), 0 .. 255 \ S)
      begins == InOrder(starts, Len(s))
  IN  [k \in DOMAIN begins |-> run(begins[k])]
NamesOf(path) == Runs(path, Separators)
OneKind(path) == ~(Separators \subseteq ToSet(path)) /\ 58 \notin ToSet(path)

CopyExact(name, arg, text) ==
  IF Len(arg.source) < arg.size THEN text = arg.source
  ELSE text = IF name = "ellipsis" /\ arg.size >= 4
              THEN Most(arg.source, arg.size - 4) \o <<Dot, Dot, Dot>>
              ELSE Most(arg.source, arg.size - 1)

SubExact(path, sub, text) ==
  LET seps == SelectSeq(path, LAMBDA b : b \in Separators)
      sep  == IF seps = <<>> THEN Slash ELSE Head(seps)
  IN  text = Most(IF Last(path) \in Separators THEN path \o sub ELSE path \o <<sep>> \o sub,
                  Size - 1)

ParentExact(path, parent, code) ==
  LET names == NamesOf(path)
  IN  /\ code = 0 => parent = path /\ (OneKind(path) => Len(names) <= 1)
      /\ code = 1 /\ OneKind(path) =>
           /\ NamesOf(parent) = IF names = <<>> THEN <<>> ELSE Front(names)
           /\ Head(parent) = Head(path)

FilenameExact(path, name) ==
  /\ ToSet(name) \cap Separators = {}
  /\ \/ name = path
     \/ LET k == Len(path) - Len(name) IN From(path, k) = name /\ path[k] \in Separators

\* Copying onto itself, which empties the file, and from a directory, which never
\* ends, are left out.  Neither does a copy end whose source cannot be read to the
\* end; one whose bytes cannot be written is reported as made (Unnoticed).
Unnoticed == {"read", "write"}
FileCopyExact(fs, arg, copied, code) ==
  IF \/ ~FileExists(fs, arg.from) \/ IsDirectory(fs, arg.to) \/ arg.fault = "open"
     \/ arg.keep /\ FileExists(fs, arg.to)
  THEN code = 0 /\ copied = fs
  ELSE arg.from # arg.to /\ ~IsDirectory(fs, arg.from) =>
         /\ copied[arg.from] = fs[arg.from]
         /\ IsPrefix(copied[arg.to].data, fs[arg.from].data)
         /\ arg.fault \notin Unnoticed =>
              code = 1 /\ copied = [fs EXCEPT ![arg.to] = fs[arg.from]]

(* An edit leaves whole codepoints, as many of them as fit and never more  *)
(* than the buffer holds, and the path that was asked for (copy, ellipsis, *)
(* concatenate, shift, dir_sub, dir_parent, path_get_filename); a copied   *)
(* file is the same file twice, unless reading or writing it fails         *)
(* (Unnoticed), and a copy that is refused changes nothing.  A path with   *)
(* both kinds of separator or a drive has no parent stated here.           *)
EditsExact ==
  [][LET c == call'
     IN  /\ c.name \in {"copy", "ellipsis"} /\ c.arg.source # Null /\ c.arg.size > 0 =>
              CopyExact(c.name, c.arg, buf') /\ c.result = IF buf' = c.arg.source THEN 1 ELSE 2
         /\ c.name = "cat" /\ c.arg # Null =>
              buf' = buf \o Most(c.arg, Size - 1 - Len(buf))
         /\ c.name = "sub" => SubExact(buf, c.arg, buf')
         /\ c.name = "shift" /\ buf # <<>> => buf' = From(buf, Least(Between(buf) \ {0}))
         /\ c.name = "parent" => ParentExact(buf, buf', c.result)
         /\ c.name = "filename" => FilenameExact(buf, buf')
         /\ c.name = "file_copy" => FileCopyExact(buf, c.arg, buf', c.result)]_vars

-----------------------------------------------------------------------------
\* A null pointer among the pieces stands for an empty one.
TextOf(piece) == IF piece = Null THEN <<>> ELSE piece
Rejoined(pieces, c) == FlattenSeq([k \in DOMAIN pieces |-> TextOf(pieces[k]) \o <<c>>])
\* Every run of spaces is one, between quotes as well.
Single(s) ==
  LET kept == InOrder({i \in 0 .. Len(s) - 1 : At(s, i) # Space \/ i = 0 \/ At(s, i - 1) # Space},
                      Len(s))
  IN  [k \in DOMAIN kept |-> At(s, kept[k])]
Quoted(s, i) == LET before == {k \in 1 .. i - 1 : s[k] = Quote /\ (k = 1 \/ s[k - 1] # Backslash)}
                IN  Cardinality(before) % 2 = 1

SplitExact(s, c, r) ==
  /\ Rejoined(r.pieces, c) = s \o <<c>>
  /\ r.num + 1 = Len(r.pieces)
  /\ r.num # SplitLimit - 1 => r.inside

\* The pieces and the spaces between them are the command, and the spaces are
\* all those that are not between quotes.
LaunchExact(command, r) ==
  LET single == Single(command)
      cut(k) == Len(Rejoined(Upto(r.pieces, k), Space))
  IN  /\ Rejoined(r.pieces, Space) = Append(single, Space)
      /\ {cut(k) : k \in 1 .. r.num} = {i \in DOMAIN single : single[i] = Space /\ ~Quoted(single, i)}
      /\ r.num + 1 = Len(r.pieces)
      /\ r.num # SplitLimit - 1 => r.inside

\* What is read is the line without the white space around it.
LineExact(stream, r) ==
  LET line == Prefix(stream, 0 .. 255 \ {Newline})
      marked == {i \in DOMAIN line : line[i] \notin White}
      trimmed == IF marked = {} THEN <<>> ELSE SubSeq(line, Least(marked), Greatest(marked))
  IN  Len(trimmed) < 2^IndexBits => r = IF trimmed = <<>> THEN Null ELSE trimmed

\* As many words as the array has entries leave no room for the null pointer.
TooManyWords(line) == Len(Runs(line, Delimiter)) >= TokenSlots
CommandsExact(line, r) ==
  ~TooManyWords(line) => r.inside /\ IsPrefix(Append(Runs(line, Delimiter), Null), r.argv)

\* Tokens by the grammar of RFC 8259, escapes and control characters unchecked.
IsDigits(t) == t # <<>> /\ ToSet(t) \subseteq Digits
IsExponent(t) ==
  /\ t # <<>> /\ t[1] \in {69, 101}
  /\ IsDigits(From(t, IF At(t, 1) \in {Plus, Minus} THEN 2 ELSE 1))
IsNumber(t) ==
  \E i \in {0, 1} : \E j \in i .. Len(t) : \E k \in j .. Len(t) :
    LET int == SubSeq(t, i + 1, j)
        frac == SubSeq(t, j + 1, k)
        exp == From(t, k)
    IN  /\ i = 1 => At(t, 0) = Minus
        /\ IsDigits(int) /\ (int[1] = 48 => Len(int) = 1)
        /\ frac = <<>> \/ (frac[1] = Dot /\ IsDigits(Tail(frac)))
        /\ exp = <<>> \/ IsExponent(exp)
BackslashesBefore(t, i) ==
  i - 1 - Greatest({0} \cup {k \in 1 .. i - 1 : t[k] # Backslash})
IsString(t) ==
  /\ Len(t) >= 2 /\ t[1] = Quote /\ t[Len(t)] = Quote
  /\ \A i \in 2 .. Len(t) :
       t[i] = Quote => (BackslashesBefore(t, i) % 2 = 0) = (i = Len(t))
IsToken(t) ==
  \/ t \in {True, False, NullWord}
  \/ Len(t) = 1 /\ t[1] \in DOMAIN Marks
  \/ IsNumber(t) \/ IsString(t)

\* The source of a token, the white space before it left out.
SourceOf(t) ==
  CASE t.type = "string" -> <<Quote>> \o t.text \o <<Quote>>
    [] t.type \in {"number", "literal"} -> t.text
    [] OTHER -> <<CHOOSE b \in DOMAIN Marks : Marks[b] = t.type>>
Stripped(s) == From(s, Least({i \in 0 .. Len(s) : At(s, i) \notin JsonWhite}))

\* Every token read is one; where reading ends before the end there is none.  A
\* string says whether it has escapes, and what follows it says so after it.
RECURSIVE LexExact(_, _, _)
LexExact(s, tokens, escapes) ==
  LET t == Head(tokens)
      rest == Stripped(s)
      now  == IF t.type = "string" THEN Backslash \in ToSet(t.text) ELSE escapes
  IN  IF tokens = <<>> THEN rest = <<>>
      ELSE IF t.type = "bad"
      THEN \A n \in 1 .. Len(rest) :
             IsToken(Upto(rest, n)) => n < Len(rest) /\ At(rest, n) \notin Delimiters
      ELSE /\ IsToken(SourceOf(t)) /\ BufBegins(rest, SourceOf(t))
           /\ t.raw = now
           /\ LexExact(From(rest, Len(SourceOf(t))), Tail(tokens), now)

\* Without a byte order mark.
Unmarked(s) == IF BufBegins(s, <<239, 187, 191>>) THEN From(s, 3) ELSE s

(* What is cut into pieces loses nothing and is cut nowhere else, and the  *)
(* pieces stay in their table: tec_string_split and split_for_args, the    *)
(* command line of launch_exe once its runs of spaces are single ones,     *)
(* ftp_getline and ftp_commands, j_get_token.  Left out by name is what    *)
(* the code gets wrong: the end mark behind the last entry of the first    *)
(* table (SplitLimit - 1), a line with as many words as the client's array *)
(* has entries (TooManyWords), and lines longer than their index counts    *)
(* (LineExact).                                                            *)
PiecesExact ==
  /\ call.name = "split" => SplitExact(buf, call.arg, call.result)
  /\ call.name = "launch" => LaunchExact(buf, call.result)
  /\ call.name = "line" => LineExact(buf, call.result)
  /\ call.name = "commands" => CommandsExact(buf, call.result)
  /\ call.name = "lex" => LexExact(Unmarked(buf), call.result, FALSE)

-----------------------------------------------------------------------------
\* Values by position.
ValueOf(t, base) == MapThenSumSet(LAMBDA i : HexValue(t[i]) * base^(Len(t) - i), DOMAIN t)
HexDigits == {b \in 0 .. 127 : IsHex(b)}

IntExact(s, r) ==
  LET t == From(s, Len(Prefix(s, White)))
      v == ValueOf(Prefix(AfterSign(t), Digits), 10)
      n == IF At(t, 0) = Minus THEN -v ELSE v
  IN  n \in IntMin .. IntMax => r = n

HexExact(s, r) ==
  LET t == From(s, Len(Prefix(s, White)))
      v(u) == ValueOf(Prefix(u, HexDigits), 16)
      n == IF IsAt(t, <<48, 120>>, 0) THEN v(From(t, 2)) ELSE v(t)
  IN  n < 2^HexBits => r = n

DoubleExact(s, r) ==
  \A i, j \in 0 .. Len(s) :
    LET int == Upto(s, i)
        frac == SubSeq(s, i + 2, j)
    IN  /\ j > i + 1 /\ IsDigits(int) /\ IsDigits(frac) /\ At(s, i) = Dot
        /\ At(s, j) \in {0, 101}
        =>  /\ r.error = 0
            /\ r.digits = ValueOf(int, 10) * 10^Len(frac) + ValueOf(frac, 10)
            /\ At(s, j) = 0 => r.power = -Len(frac)

NumberExact(s, n) ==
  /\ s # <<>> => IsNumber(s) = (n = Len(s))
  /\ n > 0 => IsNumber(Upto(s, n))

WriteExact(n, size, s) ==
  LET sign == IF n < 0 THEN <<Minus>> ELSE <<>>
      digits == From(s, Len(sign))
      abs == IF n < 0 THEN -n ELSE n
  IN  IF s = <<>> THEN abs >= 10^Greatest({0, size - 1 - Len(sign)}) \/ size <= 1 + Len(sign)
      ELSE /\ Len(s) < size
           /\ Upto(s, Len(sign)) = sign /\ IsDigits(digits)
           /\ ValueOf(digits, 10) = abs
           /\ digits[1] = 48 => n = 0

Encoding(n) ==
  CASE n \in 0 .. 127       -> <<n>>
    [] n \in 128 .. 2047    -> <<192 + (n \div 64), 128 + (n % 64)>>
    [] n \in 55296 .. 57343 -> Replacement
    [] n \in 2048 .. 55295 \cup 57344 .. 65535 ->
         <<224 + (n \div 4096), 128 + ((n \div 64) % 64), 128 + (n % 64)>>
    [] n \in 65536 .. 1114111 ->
         <<240 + (n \div 262144), 128 + ((n \div 4096) % 64),
           128 + ((n \div 64) % 64), 128 + (n % 64)>>
    [] OTHER -> Replacement
\* The code's bounds are 65636 for 65536 and 1114112 for 1114111.
Misencoded == 65536 .. 65635 \cup {1114112}

\* A JSON string as bytes and escapes.
RECURSIVE Units(_)
Units(s) ==
  CASE s = <<>>                 -> <<>>
    [] At(s, 0) \notin {0, Backslash}      -> <<[esc |-> FALSE, n |-> s[1]]>> \o Units(Tail(s))
    [] At(s, 0) = Backslash /\ At(s, 1) = 117 ->
         <<[esc |-> TRUE, n |-> ValueOf(SubSeq(s, 3, 6), 16)]>> \o Units(From(s, 6))
    [] OTHER -> <<[esc |-> FALSE, n |-> Escapes[s[2]]]>> \o Units(From(s, 2))
IsPair(us, i) ==
  /\ i \in 1 .. Len(us) - 1
  /\ us[i].esc /\ us[i].n \in 55296 .. 56319
  /\ us[i + 1].esc /\ us[i + 1].n \in 56320 .. 57343
PairOf(us, i) == 65536 + (us[i].n - 55296) * 1024 + (us[i + 1].n - 56320)
\* The code takes every escape with a bit of 0xd800 for half of a pair.
Kept(us, i) ==
  /\ us[i].n # 0
  /\ us[i].esc /\ HasBit(us[i].n, {15, 14, 12, 11}) => IsPair(us, i) \/ IsPair(us, i - 1)
  /\ IsPair(us, i) => PairOf(us, i) \notin Misencoded
Resolved(us, i) ==
  IF IsPair(us, i) THEN Encoding(PairOf(us, i))
  ELSE IF IsPair(us, i - 1) THEN <<>>
  ELSE IF us[i].esc THEN Encoding(us[i].n) ELSE <<us[i].n>>

UnescapeExact(s, r) ==
  LET us == Units(s)
  IN  (\A i \in DOMAIN us : Kept(us, i)) => r = FlattenSeq([i \in DOMAIN us |-> Resolved(us, i)])

FindExact(s, t, r) ==
  IF r = -1 THEN t = <<>> \/ \A i \in 0 .. Len(s) - Len(t) : ~IsAt(s, t, i)
  ELSE IsAt(s, t, r) /\ \A i \in 0 .. r - 1 : ~IsAt(s, t, i)

\* Equal as far as end is reported unless the rest of a word differs.
CmpExact(s, t, i, j, r) ==
  /\ r => \A k \in i .. j : At(s, k) = At(t, k)
  /\ (\A k \in i .. j + Word : At(s, k) = At(t, k)) => r

\* technical.h allows MAX_PATH - 12 bytes with the separator at the end, which
\* alone is not stripped: such a path is refused.  And a directory whose name is
\* one character is lost with the separator before it.
EndsInSeparator(path) == Last(path) \in Separators
Allowed(path) ==
  /\ IsPlainAscii(path) /\ Space \notin ToSet(path)
  /\ Len(path) <= MaxPath - (IF EndsInSeparator(path) THEN 12 ELSE 13)
LongestRefused(path) == Len(path) = MaxPath - 12 /\ EndsInSeparator(path)
LastNameLost(path) == ~EndsInSeparator(path) /\ path[Len(path) - 1] \in Separators
MakeExact(path, made) ==
  /\ made = Null => ~Allowed(path) \/ LongestRefused(path)
  /\ made # Null => NamesOf(made) = NamesOf(path) \/ LastNameLost(path)

(* What is found, compared, measured or converted is what the comments of  *)
(* technical.h and RFC 8259 say, numbers as long as they fit: find_str,    *)
(* equal, buf_begins, buf_cmp, length, to_int, hex_to_int, from_int,       *)
(* to_double, utf8, file_get_contents, dir_make, j_parse_number and        *)
(* j_unescape_string.  What the code gets wrong is left out by name:       *)
(* Misencoded, Kept, CmpExact, LongestRefused, LastNameLost, a directory   *)
(* read as a file, a read that fails, and the smallest int, which is its   *)
(* own opposite.                                                           *)
AnswersExact ==
  LET c == call
  IN  /\ c.name = "find" => FindExact(buf, c.arg, c.result)
      /\ c.name = "equal" => c.result = (buf = IF c.arg = Null THEN <<>> ELSE c.arg)
      /\ c.name = "contents" /\ ~IsDirectory(buf, c.arg.of) /\ c.arg.fault # "read" =>
           c.result = IF FileExists(buf, c.arg.of) /\ c.arg.fault # "open"
                      THEN buf[c.arg.of].data ELSE Null
      /\ c.name = "begins" => c.result = IsAt(buf, c.arg, 0)
      /\ c.name = "cmp" => CmpExact(buf, c.arg[1], c.arg[2], c.arg[3], c.result)
      /\ c.name = "length" => c.result = Len(buf)
      /\ c.name = "make" => MakeExact(buf, c.result)
      /\ c.name = "int" => IntExact(buf, c.result)
      /\ c.name = "hex" => HexExact(buf, c.result)
      /\ c.name = "double" => DoubleExact(buf, c.result)
      /\ c.name = "number" => NumberExact(buf, c.result)
      /\ c.name = "write" /\ c.arg[1] # IntMin =>
           WriteExact(c.arg[1], c.arg[2], c.result.text)
      /\ c.name = "utf8" /\ c.arg \notin Misencoded => c.result = Encoding(c.arg)
      /\ c.name = "unescape" => UnescapeExact(buf, c.result)
=============================================================================
