----------------------------- MODULE MCOmpShim ------------------------------
(***************************************************************************)
(* OmpShim with a command of each fate and a cache that overflows.         *)
(***************************************************************************)
EXTENDS OmpShim

CONSTANTS ls, rm, odd, none, c1, c2

MCClass == [c \in Commands |-> CASE c = ls  -> "ReadOnly"
                                 [] c = rm  -> "NotReadOnly"
                                 [] c = odd -> "Unparseable"
                                 [] OTHER   -> "crash"]
=============================================================================
