---------------------------- MODULE MCPdsServer ----------------------------
(***************************************************************************)
(* Instances of PdsServer for TLC.                                         *)
(***************************************************************************)
EXTENDS PdsServerProperties, TLC

\* Clients, workers, handles and windows are interchangeable.
Symmetry == Permutations(Conn) \cup Permutations(Worker)
              \cup Permutations(Handle) \cup Permutations(Window)

(***************************************************************************)
(* Two workers that come into each other's way in `active`, and in that of *)
(* the monitor: clients come, go and stop reading, windows open and close, *)
(* but no client asks for a keystroke and the focus stays where it is.     *)
(* Without requests a worker at readN() has no step but ReadFails, so the  *)
(* fairness of WorkerStep is all that FairSpec says.                       *)
(***************************************************************************)
QuietNext ==
  \/ AcceptNext
  \/ \E c \in Conn : Stall(c) \/ Depart(c)
  \/ \E w \in Worker : WorkerStep(w)
  \/ MonitorNext

QuietSpec ==
  /\ Init /\ [][QuietNext]_vars
  /\ WF_vars(MonitorNext)
  /\ \A w \in Worker : SF_vars(WorkerStep(w))
=============================================================================
