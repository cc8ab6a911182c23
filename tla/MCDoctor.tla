------------------------------ MODULE MCDoctor ------------------------------
(***************************************************************************)
(* Doctor with a few runs, each of which is allowed, falls through, or     *)
(* blocks.                                                                 *)
(***************************************************************************)
EXTENDS Doctor, TLC

MCBodies == {<< >>, <<"fallthrough">>, <<"failloud">>}

\* Runs are told apart by nothing but their records.
MCSymmetry == Permutations(Hooks)
=============================================================================
