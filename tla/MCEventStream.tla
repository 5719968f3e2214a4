----------------------------- MODULE MCEventStream -----------------------------
(***************************************************************************)
(* An instance of Intake for TLC.                                          *)
(***************************************************************************)
EXTENDS Intake, MCFileHashes

\* The timer's flush and one more: the next tick's or stop()'s.
MCFlushes == {"one", "other"}

MCAlgorithms == <<"midhash256">>
=============================================================================
