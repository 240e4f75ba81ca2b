------------------------- MODULE MCWebSocketServer -------------------------
(* Instances of WebSocketServer for TLC.                                   *)
EXTENDS WebSocketServer, TLC

CONSTANTS p1, p2, p3

\* A peer that writes a request and a frame, one that writes a request, one that only
\* connects; and two of which one writes two frames.
OneWord == p1 :> 2 @@ p2 :> 1 @@ p3 :> 0
OneTalks == p1 :> 3 @@ p2 :> 1
=============================================================================
