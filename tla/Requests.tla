------------------------------ MODULE Requests ------------------------------
(***************************************************************************)
(* What the client promises about the keystrokes a user asks for: each one *)
(* is asked on one connection, and either gets its own answer, once, or is *)
(* lost with that connection; what is lost is never answered.              *)
(***************************************************************************)
EXTENDS Naturals

CONSTANT MaxRequests

VARIABLES
  status,   \* of each request: "new", "asked", "answered" or "lost"
  reply     \* the request whose answer it got, 0 when it got none

vars == <<status, reply>>
Request == 1 .. MaxRequests

Init ==
  /\ status = [n \in Request |-> "new"]
  /\ reply = [n \in Request |-> 0]

Ask(n) ==
  /\ status[n] = "new"
  /\ \E s \in {"asked", "lost"} : status' = [status EXCEPT ![n] = s]
  /\ UNCHANGED reply

Answer(n) ==
  /\ status[n] = "asked"
  /\ status' = [status EXCEPT ![n] = "answered"]
  /\ reply' = [reply EXCEPT ![n] = n]

\* A connection ends: all that was asked on it is lost.
LoseAll ==
  /\ status' = [n \in Request |-> IF status[n] = "asked" THEN "lost" ELSE status[n]]
  /\ UNCHANGED reply

Next == LoseAll \/ \E n \in Request : Ask(n) \/ Answer(n)

Spec == Init /\ [][Next]_vars
=============================================================================
