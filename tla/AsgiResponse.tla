---------------------------- MODULE AsgiResponse ----------------------------
(***************************************************************************)
(* What the module promises an ASGI application about its HTTP responses,  *)
(* with no step, thread, task, pump or reply channel in sight: the chunks  *)
(* the application sends appear to the client in order and without a gap   *)
(* (except chunks that Redis let expire), the first chunk without          *)
(* more_content ends the response, whatever comes after it is ignored, and *)
(* nothing but that chunk, an I/O error or the end of the process ends it. *)
(*                                                                         *)
(* Stated from AsgiHttpResponseMsg.h:9-15 and the contract the step        *)
(* classes implement together; HttpRequestHandler implements it            *)
(* (AsgiResponseRefinement).                                               *)
(***************************************************************************)
EXTENDS Naturals, Sequences

CONSTANTS Requests, Payloads

VARIABLES
    phase,     \* [Requests -> "idle", "open", "closed" or "aborted"]
    sent,      \* [Requests -> Seq(Payloads)] what the application sent
    expired,   \* [Requests -> SUBSET Nat] the chunks that expired unread
    output     \* [Requests -> Seq(Nat)] the chunks given to the client

vars == <<phase, sent, expired, output>>

Init ==
    /\ phase = [r \in Requests |-> "idle"]
    /\ sent = [r \in Requests |-> <<>>]
    /\ expired = [r \in Requests |-> {}]
    /\ output = [r \in Requests |-> <<>>]

-----------------------------------------------------------------------------

Delivered(r) == {output[r][k] : k \in 1 .. Len(output[r])}

\* Nothing before chunk i is still owed to the client, and none of it was final.
DoneBefore(r, i) ==
    \A j \in 1 .. (i - 1) :
        \/ j \in expired[r]
        \/ sent[r][j].more_content /\ (sent[r][j].content => j \in Delivered(r))

Open(r) ==
    /\ phase[r] = "idle"
    /\ phase' = [phase EXCEPT ![r] = "open"]
    /\ UNCHANGED <<sent, expired, output>>

\* The application does not know the phase: it may go on after its final chunk.
AppSend(r, m) ==
    /\ phase[r] # "idle"
    /\ sent' = [sent EXCEPT ![r] = Append(@, m)]
    /\ UNCHANGED <<phase, expired, output>>

Expires(r, i) ==
    /\ i \in 1 .. Len(sent[r])
    /\ i \notin Delivered(r)
    /\ expired' = [expired EXCEPT ![r] = @ \cup {i}]
    /\ UNCHANGED <<phase, sent, output>>

Deliver(r, i) ==
    /\ phase[r] = "open"
    /\ i \in (1 .. Len(sent[r])) \ (expired[r] \cup Delivered(r))
    /\ sent[r][i].content
    /\ DoneBefore(r, i)
    /\ output' = [output EXCEPT ![r] = Append(@, i)]
    /\ UNCHANGED <<phase, sent, expired>>

\* The response is complete: its final chunk is out.
Close(r) ==
    /\ phase[r] = "open"
    /\ \E i \in (1 .. Len(sent[r])) \ expired[r] :
          /\ ~sent[r][i].more_content
          /\ sent[r][i].content => i \in Delivered(r)
          /\ DoneBefore(r, i)
    /\ phase' = [phase EXCEPT ![r] = "closed"]
    /\ UNCHANGED <<sent, expired, output>>

\* IIS reported an I/O error.
Abort(r) ==
    /\ phase[r] = "open"
    /\ phase' = [phase EXCEPT ![r] = "aborted"]
    /\ UNCHANGED <<sent, expired, output>>

Next ==
    \E r \in Requests :
        \/ Open(r)
        \/ \E m \in Payloads : AppSend(r, m)
        \/ \E i \in 1 .. Len(sent[r]) : Expires(r, i) \/ Deliver(r, i)
        \/ Close(r)
        \/ Abort(r)

Spec == Init /\ [][Next]_vars

=============================================================================
