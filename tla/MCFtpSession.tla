---------------------------- MODULE MCFtpSession ----------------------------
(***************************************************************************)
(* FtpSession for TLC. HOME is one of the two directories; OLDPWD is not   *)
(* set, as in a process that no shell started.                             *)
(***************************************************************************)
EXTENDS FtpSession, TLC

CONSTANTS c1, c2

MCDirs == {"/srv", "/tmp"}
MCNames == {"f"}
MCEnv == [p \in {"~", "-"} |-> IF p = "~" THEN "/tmp" ELSE Null]

Symmetry == Permutations({c1, c2})
=============================================================================
