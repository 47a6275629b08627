------------------------- MODULE MCRedisChannelLayer -------------------------
(***************************************************************************)
(* Model-checking instance of RedisChannelLayer.                           *)
(***************************************************************************)
EXTENDS RedisChannelLayer, TLC

=============================================================================
