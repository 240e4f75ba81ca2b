------------------------------- MODULE FtpLine -------------------------------
(***************************************************************************)
(* How the FTP client reads a line and splits it into words:               *)
(* ftp-server/cli_ftp_client.c, ftp_getline and ftp_commands.              *)
(***************************************************************************)
EXTENDS TecString

CONSTANTS
  IndexBits,   \* 8: the width of last_seen_nonspace
  TokenSlots   \* FTP_TOKEN_BUFF: the entries of the array of words

ASSUME LineAssumption == IndexBits \in Nat /\ TokenSlots \in Nat \ {0}

Newline == 10
\* strtok's delimiters, " \t\r\n\a"
Delimiter == {Space, 9, 13, 10, 7}

\* The bytes of the stream up to the newline that ends the line, if there is one.
FirstLine(stream) ==
  LET ends == CharCuts(stream, Newline)
  IN  IF ends = {} THEN stream ELSE Upto(stream, Least(ends) + 1)

\* White space before the line is skipped, and what follows is cut after the
\* last character that is none; that one's index is kept in IndexBits bits.
GetLine(stream) ==
  LET line   == AfterWhite(FirstLine(stream))
      marked == {i \in 1 .. Len(line) : line[i] \notin White}
      last   == IF marked = {} THEN 0 ELSE Greatest(marked) % 2^IndexBits
  IN  IF last = 0 THEN Null ELSE Upto(line, last)

\* strtok: the runs of characters that are no delimiters.
Words(line) ==
  LET starts == {i \in 0 .. Len(line) - 1 :
                   At(line, i) \notin Delimiter /\ (i = 0 \/ At(line, i - 1) \in Delimiter)}
      end(i) == Least({j \in i .. Len(line) : At(line, j) \in Delimiter \cup {0}})
      begins == InOrder(starts, Len(line))
  IN  [k \in DOMAIN begins |-> SubSeq(line, begins[k] + 1, end(begins[k]))]

(* A word goes to position; once the next one reaches TokenSlots it is      *)
(* position that doubles, and the array gets as many entries.  So the words *)
(* from there on, and the null pointer behind the last one, are written     *)
(* behind the end, and the entries between are never written.               *)
Unset == <<-2>>
Commands(line) ==
  LET words == Words(line)
      Position[k \in Nat] ==
        IF k = 0 THEN 0
        ELSE LET next == Position[k - 1] + 1
             IN  IF next < TokenSlots THEN next ELSE 2 * next
      end  == Position[Len(words)]
      size == Greatest({TokenSlots, end})
      entry(i) == CASE i < Least({Len(words), TokenSlots}) -> words[i + 1]
                    [] i = end                             -> Null
                    [] OTHER                               -> Unset
  IN  [argv |-> [i \in 1 .. size |-> entry(i - 1)], inside |-> end < size]
=============================================================================
