---------------------- MODULE MCResponsePumpClients ----------------------
(***************************************************************************)
(* Model-checking instance of ResponsePumpClients.                         *)
(***************************************************************************)
EXTENDS ResponsePumpClients, TLC

\* The pump does not look into a message.
OnePayload == {"data"}

=============================================================================
