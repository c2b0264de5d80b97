--------------------------- MODULE WindowsMirror ---------------------------
(***************************************************************************)
(* What the server promises its clients: a list of windows is published in *)
(* rounds, and each client keeps a copy of it.  A client joins with a copy *)
(* of the list of the last finished round; in a round every copy is led,   *)
(* one window at a time, from the old list to the new one; the round is    *)
(* finished only when no copy is behind.                                   *)
(***************************************************************************)
CONSTANTS Window, Client

VARIABLES
  list,     \* the list of the last finished round
  inRound,  \* is a round under way?
  next,     \* the list it publishes, {} when there is none
  joined,   \* the clients that follow the list
  copy      \* the copy that each client has, or had when it left

vars == <<list, inRound, next, joined, copy>>

Init ==
  /\ list \in SUBSET Window
  /\ inRound = FALSE
  /\ next = {}
  /\ joined = {}
  /\ copy = [c \in Client |-> {}]

Join(c) ==
  /\ c \notin joined
  /\ joined' = joined \cup {c}
  /\ copy' = [copy EXCEPT ![c] = list]
  /\ UNCHANGED <<list, inRound, next>>

Leave(c) ==
  /\ joined' = joined \ {c}
  /\ UNCHANGED <<list, inRound, next, copy>>

Poll ==
  /\ ~inRound
  /\ inRound' = TRUE
  /\ next' \in SUBSET Window
  /\ UNCHANGED <<list, joined, copy>>

\* A window that is closed leaves the copy, one that is new enters it.
Tell(c) ==
  /\ inRound /\ c \in joined
  /\ \/ \E h \in copy[c] \ next : copy' = [copy EXCEPT ![c] = @ \ {h}]
     \/ \E h \in next \ copy[c] : copy' = [copy EXCEPT ![c] = @ \cup {h}]
  /\ UNCHANGED <<list, inRound, next, joined>>

Finish ==
  /\ inRound
  /\ \A c \in joined : copy[c] = next
  /\ list' = next
  /\ inRound' = FALSE
  /\ next' = {}
  /\ UNCHANGED <<joined, copy>>

Next ==
  \/ \E c \in Client : Join(c) \/ Leave(c) \/ Tell(c)
  \/ Poll \/ Finish

Spec == Init /\ [][Next]_vars

(***************************************************************************)
(* Outside a round every copy is the list; within a round a copy holds     *)
(* every window that is in both lists, and none that is in neither.        *)
(***************************************************************************)
CopiesBetween ==
  \A c \in joined :
    IF inRound THEN list \cap next \subseteq copy[c] /\ copy[c] \subseteq list \cup next
               ELSE copy[c] = list
=============================================================================
