----------------------------- MODULE MCWsReader -----------------------------
(***************************************************************************)
(* Model-checking instances of WsReader: chunks of 4 bytes and a threshold *)
(* of a quarter, as in AsgiWsReceiveMsg.h:29-32.                           *)
(***************************************************************************)
EXTENDS WsReader, TLC

ChunkOfFour == 4
AQuarter == ChunkOfFour \div 4

=============================================================================
