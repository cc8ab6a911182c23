---------------------------- MODULE MCScratchpad ----------------------------
(***************************************************************************)
(* Scratchpad for two calls, a data file and a configuration file.         *)
(***************************************************************************)
EXTENDS Scratchpad, TLC

MCNames     == {"out.txt", "config"}
MCDataNames == {"out.txt"}

\* Calls and files are told apart by nothing but what they are used for.
MCSymmetry == Permutations(Calls) \cup Permutations(Inodes)
=============================================================================
