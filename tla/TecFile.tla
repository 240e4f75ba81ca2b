------------------------------- MODULE TecFile --------------------------------
(***************************************************************************)
(* The file functions of technical.c: tec_file_exists, tec_file_copy,      *)
(* tec_file_get_contents and tec_path_is_directory, on a file system that  *)
(* is a function from names to files.                                      *)
(***************************************************************************)
EXTENDS TecString

CONSTANT Block   \* 1000: the bytes tec_file_copy reads at once

ASSUME BlockAssumption == Block \in Nat \ {0}

File(type, mode, data) == [type |-> type, mode |-> mode, data |-> data]

FileExists(fs, path) == fs[path].type # "none"
IsDirectory(fs, path) == fs[path].type = "dir"

\* What may go wrong in a call: a file cannot be opened, or not be read or
\* written past some byte.
Faults == {"none", "open", "read", "write"}

(* The destination is emptied before the first read, and has the mode of   *)
(* the source afterwards.  What fread and fwrite return is not looked at:  *)
(* with a fault the first n bytes are copied and then, when it is in       *)
(* writing, the rest is dropped; when it is in reading, as it is at a      *)
(* directory, feof is never true, and the call does not come back.         *)
Forever == -1
FileCopy(fs, source, dest, failIfExists, fault, n) ==
  LET emptied == [fs EXCEPT ![dest] = File("file", @.mode, <<>>)]
      bytes == emptied[source].data
      Copied[i \in Nat] ==
        IF i >= Len(bytes) THEN <<>>
        ELSE SubSeq(bytes, i + 1, Least({i + Block, Len(bytes)})) \o Copied[i + Block]
      some == Upto(Copied[0], Fitting(Copied[0], n))
      Written(mode, data) == [emptied EXCEPT ![dest] = File("file", mode, data)]
  IN  IF \/ failIfExists /\ FileExists(fs, dest)
         \/ ~FileExists(fs, source) \/ IsDirectory(fs, dest)
         \/ fault = "open"
      THEN Changed(fs, 0)
      ELSE CASE IsDirectory(fs, source) -> Changed(emptied, Forever)
             [] fault = "read"  -> Changed(Written(emptied[dest].mode, some), Forever)
             [] fault = "write" -> Changed(Written(fs[source].mode, some), 1)
             [] OTHER           -> Changed(Written(fs[source].mode, Copied[0]), 1)

\* A directory has a size but cannot be read: the buffer keeps what it held, as it
\* does where a read fails.
Unwritten == <<-2>>
GetContents(fs, path, fault) ==
  CASE ~FileExists(fs, path) \/ fault = "open"     -> Null
    [] IsDirectory(fs, path) \/ fault = "read"     -> Unwritten
    [] OTHER                                       -> fs[path].data
=============================================================================
