------------------------ MODULE WindowsMirrorProofs ------------------------
(***************************************************************************)
(* What the rounds of WindowsMirror mean for the clients.                  *)
(***************************************************************************)
EXTENDS WindowsMirror, TLAPS

TypeInv ==
  /\ list \subseteq Window /\ next \subseteq Window
  /\ inRound \in BOOLEAN
  /\ joined \subseteq Client
  /\ copy \in [Client -> SUBSET Window]

Inv == TypeInv /\ CopiesBetween

\* The invariant holds at the start.
LEMMA InvInit == Init => Inv
  BY DEF Init, Inv, TypeInv, CopiesBetween

\* Only Tell() changes a copy that somebody follows, and it keeps it between.
LEMMA InvStep == Inv /\ [Next]_vars => Inv'
<1> SUFFICES ASSUME Inv, [Next]_vars PROVE Inv'
  OBVIOUS
<1> USE DEF Inv, TypeInv, CopiesBetween
<1>1. ASSUME NEW c \in Client, Join(c) PROVE Inv'
  BY <1>1 DEF Join
<1>2. ASSUME NEW c \in Client, Leave(c) PROVE Inv'
  BY <1>2 DEF Leave
<1>3. ASSUME NEW c \in Client, Tell(c) PROVE Inv'
  BY <1>3 DEF Tell
<1>4. CASE Poll
  BY <1>4 DEF Poll
<1>5. CASE Finish
  BY <1>5 DEF Finish
<1>6. CASE UNCHANGED vars
  BY <1>6 DEF vars
<1> QED
  BY <1>1, <1>2, <1>3, <1>4, <1>5, <1>6 DEF Next

(***************************************************************************)
(* Outside a round every copy that is followed is the list; within one it  *)
(* never lacks a window of both lists, nor shows one of neither.           *)
(***************************************************************************)
THEOREM CopiesStayBetween == Spec => []CopiesBetween
<1>1. Inv => CopiesBetween
  BY DEF Inv
<1> QED
  BY InvInit, InvStep, <1>1, PTL DEF Spec
=============================================================================
