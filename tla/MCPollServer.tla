---------------------------- MODULE MCPollServer ----------------------------
(* Instances of PollServer for TLC.                                        *)
EXTENDS PollServer, TLC

\* Writers behave alike, and so do listeners; not used where liveness is checked.
Symmetry == Permutations(Writers) \cup Permutations(Peers \ Writers)
=============================================================================
