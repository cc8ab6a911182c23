------------------------------- MODULE PiShim --------------------------------
(***************************************************************************)
(* The pi shim (contrib/pi/classify-bash.ts): the asynchronous handler of  *)
(* tool_call events.  pi runs a call when its handler returns undefined,   *)
(* and does not when the handler returns a block or throws.                *)
(*                                                                         *)
(* The user's side of a dialog and the state of the install are external.  *)
(***************************************************************************)
EXTENDS CheckProcess

CONSTANTS Calls   (* Tool calls whose handlers are in progress.           *)

\* tool: of the call; ui: none, one whose dialogs work, one whose confirm
\* throws.
Events == [tool : {"bash", "other"}, command : Commands,
           ui : {"none", "works", "throws"}]

VARIABLES
  binary,    (* The state of the install.                                  *)
  event,     (* The event of each call.                                    *)
  at,        (* Where its handler is.                                      *)
  verdict,   (* What classify resolved to, "none" before.                  *)
  confirmed, (* The calls the user was asked about and allowed.            *)
  denied     (* Those the user was asked about and denied.                 *)

vars == <<binary, event, at, verdict, confirmed, denied>>

\* "spawned": awaiting classify; "judging": resumed with its verdict;
\* "confirming": awaiting the dialog; "undefined", "block": returned.  An
\* exception anywhere is caught, and returns a block.
Places == {"called", "spawned", "judging", "confirming", "undefined", "block"}

Init ==
  /\ binary \in Binaries
  /\ event \in [Calls -> Events]
  /\ at = [k \in Calls |-> "called"]
  /\ verdict = [k \in Calls |-> "none"]
  /\ confirmed = {}
  /\ denied = {}

-----------------------------------------------------------------------------
Goto(k, place) == at' = [at EXCEPT ![k] = place]

InstallChanges ==
  /\ binary' \in Binaries \ {binary}
  /\ UNCHANGED <<event, at, verdict, confirmed, denied>>

\* Another tool, or no command: none of the shim's business.
Ignore(k) ==
  /\ at[k] = "called"
  /\ event[k].tool # "bash" \/ event[k].command = Empty
  /\ Goto(k, "undefined")
  /\ UNCHANGED <<binary, event, verdict, confirmed, denied>>

classify(k) ==
  /\ at[k] = "called"
  /\ event[k].tool = "bash" /\ event[k].command # Empty
  /\ Goto(k, "spawned")
  /\ UNCHANGED <<binary, event, verdict, confirmed, denied>>

\* Mutant: a failed spawn settles nothing.
judgedUnsettled(e) == IF e.how = "fails" THEN "none" ELSE verdictOf(e)

\* Mutant: anything but a refusal passes.
judgedLax(e) == IF e.status = 1 THEN "not_read_only" ELSE "read_only"

\* Mutant: whatever went wrong, the command gets the blame.
judgedPlain(e) ==
  IF verdictOf(e) = "read_only" THEN "read_only" ELSE "not_read_only"

judged(e) == verdictOf(e)

\* execFile calls back, or threw, by the time limit at the latest.
CallBack(k) ==
  /\ at[k] = "spawned"
  /\ \E e \in Ends(binary, event[k].command) :
       verdict' = [verdict EXCEPT ![k] = judged(e)]
  /\ Goto(k, "judging")
  /\ UNCHANGED <<binary, event, confirmed, denied>>

\* Silent for a read-only command; blocked where nobody can be asked, or where
\* asking throws.
Judge(k) ==
  /\ at[k] = "judging"
  /\ \/ verdict[k] = "read_only" /\ Goto(k, "undefined")
     \/ verdict[k] # "read_only" /\ event[k].ui # "works" /\ Goto(k, "block")
     \/ verdict[k] # "read_only" /\ event[k].ui = "works" /\ Goto(k, "confirming")
  /\ UNCHANGED <<binary, event, verdict, confirmed, denied>>

\* Mutant: the answer is not looked at.
onAnswerAny(k, ok) == Goto(k, "undefined")

onAnswer(k, ok) == Goto(k, IF ok THEN "undefined" ELSE "block")

\* The user answers, if ever, or the dialog fails.
Confirm(k) ==
  /\ at[k] = "confirming"
  /\ \/ confirmed' = confirmed \cup {k} /\ onAnswer(k, TRUE) /\ UNCHANGED denied
     \/ denied' = denied \cup {k} /\ onAnswer(k, FALSE) /\ UNCHANGED confirmed
     \/ Goto(k, "block") /\ UNCHANGED <<confirmed, denied>>
  /\ UNCHANGED <<binary, event, verdict>>

Handler(k) == Ignore(k) \/ classify(k) \/ CallBack(k) \/ Judge(k)

Next == InstallChanges \/ \E k \in Calls : Handler(k) \/ Confirm(k)

\* The event loop goes on with every handler, and a classifier ends by its
\* time limit; nobody has to answer a dialog or to repair the install.
Spec == Init /\ [][Next]_vars /\ \A k \in Calls : WF_vars(Handler(k))

-----------------------------------------------------------------------------
\* Every variable has its type, and a handler that is past the classifier has
\* a verdict.
TypeOK ==
  /\ binary \in Binaries
  /\ event \in [Calls -> Events]
  /\ at \in [Calls -> Places]
  /\ verdict \in [Calls -> Verdicts \cup {"none"}]
  /\ \A k \in Calls : at[k] \in {"judging", "confirming"} => verdict[k] # "none"
  /\ confirmed \subseteq Calls
  /\ denied \subseteq Calls

Ours(k) == event[k].tool = "bash" /\ event[k].command # Empty

\* Whether the user was asked: a dialog that failed later has been shown.
Asked(k) ==
  \/ at[k] = "confirming"
  \/ event[k].ui = "works" /\ verdict[k] \in {"not_read_only", "malfunction"}
       /\ at[k] # "judging"

Outcome(k) ==
  IF at[k] \in {"called", "spawned", "judging"} THEN "pending"
  ELSE IF Asked(k) THEN "prompt"
  ELSE IF at[k] = "undefined" THEN "allow" ELSE "block"

Session == INSTANCE AcceleratedSession WITH
             grantable <- {k \in Calls : Ours(k) =>
                             Class[event[k].command] = "ReadOnly"},
             refusable <- {k \in Calls : event[k].ui # "works"},
             outcome   <- [k \in Calls |-> Outcome(k)]

\* Whatever becomes of the install, each call is decided: run silently only if
\* it is read-only or none of the shim's business, blocked unasked only where
\* nobody can be asked ("silent for read-only, confirm otherwise, block when
\* headless", README, Agent CLI shims).
KeepsPromise == Session!Spec

\* A bash command runs only if it is read-only or its user, asked, allowed it.
GateHolds ==
  \A k \in Calls :
    at[k] = "undefined" /\ Ours(k) =>
      Class[event[k].command] = "ReadOnly" \/ k \in confirmed \ denied

\* A call is asked about or blocked for a reason that holds: it is a bash
\* command and its class is another than read-only, or the classifier could not
\* run, and the dialog and the model are told which of the two ("this command is
\* not classified read-only", "could not run", classify-bash.ts:72-76).
ReasonHolds ==
  \A k \in Calls :
    Asked(k) \/ at[k] = "block" =>
      /\ Ours(k)
      /\ \/ verdict[k] = "malfunction"
         \/ verdict[k] = "not_read_only" /\ Class[event[k].command] # "ReadOnly"
=============================================================================
