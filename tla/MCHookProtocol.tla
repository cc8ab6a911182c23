--------------------------- MODULE MCHookProtocol ---------------------------
(***************************************************************************)
(* HookProtocol over every registration it distinguishes: what a form of   *)
(* the command line does not read has one value.                           *)
(***************************************************************************)
EXTENDS HookProtocol

MCRegistrations ==
  {r \in AllRegistrations :
     /\ r.word # "hook" \/ ~r.parses =>
          r.mode = "none" /\ r.field = "none" /\ r.ast = "none"
     /\ r.word = "stray" \/ ~r.parses => r.sinkKnown /\ r.log
     /\ r.word = "stray" => r.parses}
=============================================================================
