--------------------------- MODULE MessageChannel ---------------------------
(***************************************************************************)
(* What the framing of messages promises to either side of a connection:   *)
(* the messages received are the first of those sent, in their order, each *)
(* once and whole, until the connection is made anew.                      *)
(***************************************************************************)
EXTENDS Naturals, Sequences

VARIABLES sent,     \* the messages written on this connection
          received  \* those handed to the reader

vars == <<sent, received>>

Init == sent = << >> /\ received = << >>

Send ==
  /\ Len(sent') = Len(sent) + 1
  /\ \A i \in 1 .. Len(sent) : sent'[i] = sent[i]
  /\ UNCHANGED received

Receive ==
  /\ Len(received) < Len(sent)
  /\ received' = Append(received, sent[Len(received) + 1])
  /\ UNCHANGED sent

Reconnect == sent' = << >> /\ received' = << >>

Next == Send \/ Receive \/ Reconnect

Spec == Init /\ [][Next]_vars
=============================================================================
