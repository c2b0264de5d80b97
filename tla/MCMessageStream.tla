-------------------------- MODULE MCMessageStream --------------------------
(***************************************************************************)
(* An instance for TLC.  A message of size 0, one that fits a single       *)
(* read(), and one that needs two.                                         *)
(***************************************************************************)
EXTENDS MessageStream

MCSize == {0, 1, 3}
=============================================================================
