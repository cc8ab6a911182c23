-------------------------- MODULE AcceleratedSession -------------------------
(***************************************************************************)
(* The promise of Accelerator for a session of tool calls, answered in any *)
(* order, each on its own merits.                                          *)
(***************************************************************************)
CONSTANT Calls

VARIABLES
  grantable,   (* The calls the prompt of which it would be right to remove.*)
  refusable,   (* The calls that may be refused.                            *)
  outcome      (* Of each call: "pending", then what the host was made do.  *)

vars == <<grantable, refusable, outcome>>

Permitted(k) ==
  {"prompt"} \cup (IF k \in grantable THEN {"allow"} ELSE {})
             \cup (IF k \in refusable THEN {"block"} ELSE {})

Init ==
  /\ grantable \subseteq Calls
  /\ refusable \subseteq Calls
  /\ outcome = [k \in Calls |-> "pending"]

Answer(k) ==
  /\ outcome[k] = "pending"
  /\ \E o \in Permitted(k) : outcome' = [outcome EXCEPT ![k] = o]
  /\ UNCHANGED <<grantable, refusable>>

Next == \E k \in Calls : Answer(k)

Spec == Init /\ [][Next]_vars /\ \A k \in Calls : WF_vars(Answer(k))
=============================================================================
