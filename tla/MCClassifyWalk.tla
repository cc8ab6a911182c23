-------------------------- MODULE MCClassifyWalk ----------------------------
(***************************************************************************)
(* Instances of ClassifyWalk small enough for TLC: two names a command may *)
(* bind, an exported name, and a value for each fate a word may have:      *)
(* /dev/null, a scratch file with a space in its path, which a bare        *)
(* expansion splits, and a number, which is a descriptor after >& and a    *)
(* path like any other after >.                                            *)
(***************************************************************************)
EXTENDS ClassifyWalk, TLC

CONSTANTS A, B, E, devnull, scratch, number

\* The shell starts with a variable of every name.
MCEnvironments == { [x \in Names |-> number] }

\* The names that may be bound are told apart by nothing but their bindings.
MCSymmetry == Permutations(Bindable \ EnvNames)
=============================================================================
