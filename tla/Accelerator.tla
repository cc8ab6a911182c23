----------------------------- MODULE Accelerator ----------------------------
(***************************************************************************)
(* What every adapter of the classifier promises its host about one tool   *)
(* call, whatever happens inside it: "this program only ever ADDS an       *)
(* allow.  A bug in it can at worst fail to accelerate, never block"       *)
(* (cmd/classify-bash/main.go).  The host may always be left to prompt as  *)
(* if the adapter were not there; the prompt may be removed only for a     *)
(* call that may be granted, and the call refused only when the operator   *)
(* asked for that.                                                         *)
(***************************************************************************)
VARIABLES
  grantable,   (* Removing the prompt would be right for this call.        *)
  refusable,   (* The operator asked for this call to be refused.          *)
  outcome      (* "pending", then what the adapter made the host do.       *)

Permitted ==
  {"prompt"} \cup (IF grantable THEN {"allow"} ELSE {})
             \cup (IF refusable THEN {"block"} ELSE {})

Init ==
  /\ grantable \in BOOLEAN
  /\ refusable \in BOOLEAN
  /\ outcome = "pending"

\* The adapter answers, once.
Answer ==
  /\ outcome = "pending"
  /\ outcome' \in Permitted
  /\ UNCHANGED <<grantable, refusable>>

Next == Answer

vars == <<grantable, refusable, outcome>>

Spec == Init /\ [][Next]_vars /\ WF_vars(Answer)
=============================================================================
