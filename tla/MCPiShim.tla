------------------------------ MODULE MCPiShim -------------------------------
(***************************************************************************)
(* PiShim with a command of each class.                                    *)
(***************************************************************************)
EXTENDS PiShim

CONSTANTS ls, rm, odd, bad, none, c1, c2

MCClass == [c \in Commands |-> CASE c = ls  -> "ReadOnly"
                                 [] c = rm  -> "NotReadOnly"
                                 [] c = odd -> "Unparseable"
                                 [] OTHER   -> "crash"]
=============================================================================
