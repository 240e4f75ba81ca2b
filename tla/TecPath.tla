------------------------------- MODULE TecPath -------------------------------
(***************************************************************************)
(* What technical.c does to a path before or instead of a system call:     *)
(* tec_dir_make, tec_dir_parent, tec_dir_sub, tec_path_get_filename, and   *)
(* the command line of tec_sys_launch_exe.                                 *)
(***************************************************************************)
EXTENDS TecString

CONSTANT MaxPath   \* MAX_PATH

ASSUME PathAssumption == MaxPath \in Nat /\ MaxPath >= 13

Slash == 47
Separators == {Slash, Backslash}

\* The directory tec_dir_make hands to mkdir; Null when it refuses.  It strips
\* from the last but one byte on, which with fewer than two is outside the copy.
DirMade(path) ==
  LET Cut[i \in Nat] == IF i > 0 /\ At(path, i) \in Separators THEN Cut[i - 1] ELSE i
      kept == Cut[Len(path) - 2]
      made == IF kept = Len(path) - 2 THEN path ELSE Upto(path, kept + 1)
  IN  IF \/ Len(path) > MaxPath \/ Len(made) > MaxPath - 13
         \/ ~IsPlainAscii(made) \/ FindChar(made, Space) # -1
      THEN Null ELSE made

\* The separator of a path and where its first name ends or the root does.
PathType(path) ==
  LET firsts == {i \in 0 .. Len(path) - 1 : At(path, i) \in Separators}
      first  == IF firsts = {} THEN Len(path) ELSE Least(firsts)
      sep    == IF At(path, first) = Backslash THEN Backslash ELSE Slash
  IN  IF At(path, 0) # Slash /\ At(path, 1) = 58 /\ At(path, 2) = Backslash
      THEN [sep |-> Backslash, start |-> 3]
      ELSE [sep |-> sep, start |-> first + 1]

DirParent(path) ==
  LET type == PathType(path)
      IsSep(i) == At(path, i) = type.sep
      Trail[i \in Nat] == IF i > 0 /\ IsSep(i) THEN Trail[i - 1] ELSE i
      Name[i \in Nat]  == IF i > 0 /\ ~IsSep(i) THEN Name[i - 1] ELSE i
      Gap[i \in Nat]   == IF i > 0 /\ IsSep(i - 1) THEN Gap[i - 1] ELSE i
      end == Gap[Name[Trail[Len(path) - 1]]]
      none == IF Len(path) <= 2 THEN Len(path) = 1 \/ At(path, 0) # Slash
              ELSE ~IsSep(end) \/ end < type.start - 1
  IN  IF none THEN Changed(path, 0)
      ELSE Changed(Upto(path, Greatest({end, type.start})), 1)

DirSub(path, sub, size) ==
  LET seps  == SelectSeq(path, LAMBDA b : b \in Separators)
      type  == IF Last(path) \in Separators THEN <<>>
               ELSE IF seps = <<>> THEN <<Slash>> ELSE <<Head(seps)>>
  IN  IF path = <<>> \/ sub = <<>> THEN Changed(path, 0)
      ELSE Changed(Concatenate(Concatenate(path, type, size).text, sub, size).text, 1)

GetFilename(path) ==
  LET Back[i \in Int] == IF i >= 0 /\ At(path, i) \notin Separators THEN Back[i - 1] ELSE i
      i == Back[Len(path) - 1]
  IN  IF i = Len(path) - 1 THEN Changed(<<>>, 0) ELSE Changed(From(path, i + 1), 1)

\* tec_sys_launch_exe: doubled spaces go before the command line is split.
Squeezed(command) ==
  LET Strip[s \in Seq(Nat)] ==
        IF Len(s) < 2 THEN s
        ELSE IF At(s, 0) = Space /\ At(s, 1) = Space THEN Strip[Shift(s)]
        ELSE <<Head(s)>> \o Strip[Tail(s)]
  IN  Strip[command]
Launched(command) == LET cmd == Squeezed(command) IN Split(cmd, ArgCuts(cmd))
=============================================================================
