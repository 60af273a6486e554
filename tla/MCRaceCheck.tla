----------------------------- MODULE MCRaceCheck -----------------------------
(***************************************************************************)
(* RaceCheck for three races and a process table of three: the third race  *)
(* may find it full of solvers the first two killed and never waited for.  *)
(***************************************************************************)
EXTENDS RaceCheck

MCTruths == {"unsat", "sat"}
=============================================================================
