--------------------------- MODULE MCWsConnection ---------------------------
(***************************************************************************)
(* Model-checking instances of WsConnection.                               *)
(***************************************************************************)
EXTENDS WsConnection, TLC

\* An empty message, and one that can be written in parts.
SmallSizes == {0, 2}

=============================================================================
