---------------------------- MODULE PiShimProofs -----------------------------
(***************************************************************************)
(* What PiShim satisfies for every set of calls in progress and of         *)
(* commands: that no bash command runs that is neither read-only nor       *)
(* allowed by the user, and that each step is one an accelerated session   *)
(* may take.                                                               *)
(***************************************************************************)
EXTENDS PiShim, CheckProcessProofs

\* What is known of call k by the place its handler is at.
Placed(k) ==
  /\ at[k] \in {"called", "spawned"} => verdict[k] = "none"
  /\ at[k] \in {"spawned", "judging", "confirming"} => Ours(k)
  /\ at[k] \in {"judging", "confirming"} => verdict[k] \in Verdicts
  /\ at[k] = "confirming" => event[k].ui = "works" /\ verdict[k] # "read_only"
  /\ at[k] \notin {"undefined", "block"} => k \notin confirmed \cup denied
  /\ ~Ours(k) => verdict[k] = "none"
  /\ at[k] = "block" => Ours(k) /\ verdict[k] \in Verdicts \ {"read_only"}
  /\ at[k] = "undefined" /\ Ours(k) =>
       verdict[k] = "read_only" \/ k \in confirmed \ denied

\* A verdict is the engine's.
Sound(k) ==
  /\ verdict[k] = "read_only" => Class[event[k].command] = "ReadOnly"
  /\ verdict[k] = "not_read_only" => Class[event[k].command] # "ReadOnly"

IInv == TypeOK /\ \A k \in Calls : Placed(k) /\ Sound(k)

Good == IInv' /\ [Session!Next]_(Session!vars)

-----------------------------------------------------------------------------
LEMMA GotoType ==
  ASSUME IInv, NEW k \in Calls, NEW place \in Places, Goto(k, place)
  PROVE  /\ at' \in [Calls -> Places]
         /\ at'[k] = place
         /\ \A j \in Calls \ {k} : at'[j] = at[j]
BY DEF IInv, TypeOK, Goto

\* A handler touches nothing of another call, so that the invariant need only
\* be shown of its own.
LEMMA Local ==
  ASSUME IInv, TypeOK', NEW k \in Calls, UNCHANGED event,
         \A j \in Calls \ {k} : /\ at'[j] = at[j] /\ verdict'[j] = verdict[j]
                                /\ j \in confirmed' <=> j \in confirmed
                                /\ j \in denied' <=> j \in denied,
         Placed(k)', Sound(k)'
  PROVE  /\ IInv'
         /\ \A j \in Calls \ {k} : Outcome(j)' = Outcome(j)
<1>1. ASSUME NEW j \in Calls \ {k}
      PROVE  Placed(j)' /\ Sound(j)'
  BY <1>1 DEF IInv, Placed, Sound, Ours
<1>2. IInv'
  BY <1>1 DEF IInv
<1> QED BY <1>2 DEF Outcome, Asked

\* A call keeps its outcome, or comes to a permitted one.
LEMMA Answered ==
  ASSUME NEW k \in Calls, UNCHANGED event,
         \A j \in Calls \ {k} : Outcome(j)' = Outcome(j),
         \/ Outcome(k)' = Outcome(k)
         \/ Outcome(k) = "pending" /\ Outcome(k)' \in Session!Permitted(k)
  PROVE  [Session!Next]_(Session!vars)
<1>1. /\ UNCHANGED {j \in Calls : Ours(j) => Class[event[j].command] = "ReadOnly"}
      /\ UNCHANGED {j \in Calls : event[j].ui # "works"}
  BY DEF Ours
<1>2. CASE Outcome(k)' = Outcome(k)
  BY <1>1, <1>2 DEF Session!vars
<1>3. CASE Outcome(k) = "pending" /\ Outcome(k)' \in Session!Permitted(k)
  <2>1. [j \in Calls |-> Outcome(j)]' =
          [[j \in Calls |-> Outcome(j)] EXCEPT ![k] = Outcome(k)']
    OBVIOUS
  <2>2. Session!Answer(k)
    BY <1>1, <1>3, <2>1 DEF Session!Answer
  <2> QED BY <2>2 DEF Session!Next
<1> QED BY <1>2, <1>3

-----------------------------------------------------------------------------
LEMMA IgnoreStep ==
  ASSUME IInv, NEW k \in Calls, Ignore(k)
  PROVE  Good
<1>1. /\ at[k] = "called" /\ ~Ours(k) /\ Goto(k, "undefined")
      /\ UNCHANGED <<binary, event, verdict, confirmed, denied>>
  BY DEF Ignore, Ours
<1>2. /\ at' \in [Calls -> Places] /\ at'[k] = "undefined"
      /\ \A j \in Calls \ {k} : at'[j] = at[j]
  BY <1>1, GotoType DEF Places
<1>3. TypeOK' /\ Placed(k) /\ Sound(k)
  BY <1>1, <1>2 DEF IInv, TypeOK
<1>4. Placed(k)' /\ Sound(k)'
  BY <1>1, <1>2, <1>3 DEF Placed, Sound, Ours
<1>5. Outcome(k) = "pending" /\ Outcome(k)' = "allow"
  BY <1>1, <1>2, <1>3 DEF Outcome, Asked, Placed
<1>6. "allow" \in Session!Permitted(k)
  BY <1>1 DEF Session!Permitted
<1>7. IInv' /\ \A j \in Calls \ {k} : Outcome(j)' = Outcome(j)
  BY <1>1, <1>2, <1>3, <1>4, Local
<1> QED BY <1>1, <1>5, <1>6, <1>7, Answered DEF Good

LEMMA ClassifyStep ==
  ASSUME IInv, NEW k \in Calls, classify(k)
  PROVE  Good
<1>1. /\ at[k] = "called" /\ Ours(k) /\ Goto(k, "spawned")
      /\ UNCHANGED <<binary, event, verdict, confirmed, denied>>
  BY DEF classify, Ours
<1>2. /\ at' \in [Calls -> Places] /\ at'[k] = "spawned"
      /\ \A j \in Calls \ {k} : at'[j] = at[j]
  BY <1>1, GotoType DEF Places
<1>3. TypeOK' /\ Placed(k) /\ Sound(k)
  BY <1>1, <1>2 DEF IInv, TypeOK
<1>4. Placed(k)' /\ Sound(k)'
  BY <1>1, <1>2, <1>3 DEF Placed, Sound, Ours
<1>5. Outcome(k)' = Outcome(k)
  BY <1>1, <1>2 DEF Outcome
<1>6. IInv' /\ \A j \in Calls \ {k} : Outcome(j)' = Outcome(j)
  BY <1>1, <1>2, <1>3, <1>4, Local
<1> QED BY <1>1, <1>5, <1>6, Answered DEF Good

LEMMA CallBackStep ==
  ASSUME IInv, NEW k \in Calls, CallBack(k)
  PROVE  Good
<1>1. /\ at[k] = "spawned" /\ Goto(k, "judging")
      /\ UNCHANGED <<binary, event, confirmed, denied>>
  BY DEF CallBack
<1>2. PICK e \in Ends(binary, event[k].command) :
        verdict' = [verdict EXCEPT ![k] = verdictOf(e)]
  BY DEF CallBack, judged
<1>3. event[k].command \in Commands
  BY DEF IInv, TypeOK, Events
<1>4. /\ verdictOf(e) \in Verdicts
      /\ verdictOf(e) = "read_only" => Class[event[k].command] = "ReadOnly"
      /\ verdictOf(e) = "not_read_only" => Class[event[k].command] # "ReadOnly"
  BY <1>2, <1>3, VerdictIsSound
<1>5. /\ at' \in [Calls -> Places] /\ at'[k] = "judging"
      /\ \A j \in Calls \ {k} : at'[j] = at[j]
  BY <1>1, GotoType DEF Places
<1>6. /\ verdict' \in [Calls -> Verdicts \cup {"none"}] /\ verdict'[k] = verdictOf(e)
      /\ \A j \in Calls \ {k} : verdict'[j] = verdict[j]
  BY <1>2, <1>4 DEF IInv, TypeOK
<1>7. TypeOK' /\ Placed(k) /\ Sound(k)
  BY <1>1, <1>4, <1>5, <1>6 DEF IInv, TypeOK, Verdicts
<1>8. Placed(k)' /\ Sound(k)'
  BY <1>1, <1>4, <1>5, <1>6, <1>7 DEF Placed, Sound, Ours
<1>9. Outcome(k)' = Outcome(k)
  BY <1>1, <1>5 DEF Outcome
<1>10. IInv' /\ \A j \in Calls \ {k} : Outcome(j)' = Outcome(j)
  BY <1>1, <1>5, <1>6, <1>7, <1>8, Local
<1> QED BY <1>1, <1>9, <1>10, Answered DEF Good

LEMMA JudgeStep ==
  ASSUME IInv, NEW k \in Calls, Judge(k)
  PROVE  Good
<1>1. /\ at[k] = "judging" /\ UNCHANGED <<binary, event, verdict, confirmed, denied>>
      /\ Placed(k) /\ Sound(k)
  BY DEF Judge, IInv
<1>2. PICK place \in {"undefined", "block", "confirming"} :
        /\ Goto(k, place)
        /\ place = "undefined"  => verdict[k] = "read_only"
        /\ place = "block"      => verdict[k] # "read_only" /\ event[k].ui # "works"
        /\ place = "confirming" => verdict[k] # "read_only" /\ event[k].ui = "works"
  BY DEF Judge
<1>3. /\ at' \in [Calls -> Places] /\ at'[k] = place
      /\ \A j \in Calls \ {k} : at'[j] = at[j]
  BY <1>2, GotoType DEF Places
<1>4. TypeOK'
  BY <1>1, <1>3 DEF IInv, TypeOK, Placed, Verdicts
<1>5. Placed(k)' /\ Sound(k)'
  BY <1>1, <1>2, <1>3 DEF Placed, Sound, Ours
<1>6. Outcome(k) = "pending"
  BY <1>1 DEF Outcome
<1>7. Outcome(k)' \in Session!Permitted(k)
  <2>1. CASE place = "undefined"
    <3>1. Outcome(k)' = "allow"
      BY <1>1, <1>2, <1>3, <2>1 DEF Outcome, Asked
    <3> QED BY <1>1, <1>2, <2>1, <3>1 DEF Session!Permitted, Sound
  <2>2. CASE place = "block"
    <3>1. Outcome(k)' = "block"
      BY <1>1, <1>2, <1>3, <2>2 DEF Outcome, Asked
    <3> QED BY <1>2, <2>2, <3>1 DEF Session!Permitted
  <2>3. CASE place = "confirming"
    <3>1. Outcome(k)' = "prompt"
      BY <1>3, <2>3 DEF Outcome, Asked
    <3> QED BY <3>1 DEF Session!Permitted
  <2> QED BY <2>1, <2>2, <2>3
<1>8. IInv' /\ \A j \in Calls \ {k} : Outcome(j)' = Outcome(j)
  BY <1>1, <1>3, <1>4, <1>5, Local
<1> QED BY <1>1, <1>6, <1>7, <1>8, Answered DEF Good

LEMMA ConfirmStep ==
  ASSUME IInv, NEW k \in Calls, Confirm(k)
  PROVE  Good
<1>1. /\ at[k] = "confirming" /\ UNCHANGED <<binary, event, verdict>>
      /\ Placed(k) /\ Sound(k)
  BY DEF Confirm, IInv
<1>2. PICK place \in {"undefined", "block"} :
        /\ Goto(k, place)
        /\ place = "undefined" => confirmed' = confirmed \cup {k} /\ denied' = denied
  BY DEF Confirm, onAnswer
<1>3. /\ confirmed' \in {confirmed, confirmed \cup {k}}
      /\ denied' \in {denied, denied \cup {k}}
  BY DEF Confirm
<1>4. /\ at' \in [Calls -> Places] /\ at'[k] = place
      /\ \A j \in Calls \ {k} : at'[j] = at[j]
  BY <1>2, GotoType DEF Places
<1>5. TypeOK'
  BY <1>1, <1>3, <1>4 DEF IInv, TypeOK
<1>6. Placed(k)' /\ Sound(k)'
  BY <1>1, <1>2, <1>4 DEF Placed, Sound, Ours
<1>7. Outcome(k) = "prompt" /\ Outcome(k)' = "prompt"
  BY <1>1, <1>4 DEF Outcome, Asked, Placed, Verdicts
<1>8. IInv' /\ \A j \in Calls \ {k} : Outcome(j)' = Outcome(j)
  <2>1. \A j \in Calls \ {k} : (j \in confirmed' <=> j \in confirmed)
                               /\ (j \in denied' <=> j \in denied)
    BY <1>3
  <2> QED BY <1>1, <1>4, <1>5, <1>6, <2>1, Local
<1> QED BY <1>1, <1>7, <1>8, Answered DEF Good

\* Changes of the install, and stuttering.
LEMMA ElsewhereStep ==
  ASSUME IInv, binary' \in Binaries,
         UNCHANGED <<event, at, verdict, confirmed, denied>>
  PROVE  Good
<1>1. IInv'
  BY DEF IInv, TypeOK, Placed, Sound, Ours
<1>2. UNCHANGED Session!vars
  BY DEF Session!vars, Outcome, Asked, Ours
<1> QED BY <1>1, <1>2 DEF Good

-----------------------------------------------------------------------------
LEMMA Initial == Init => IInv /\ Session!Init
<1> SUFFICES ASSUME Init
             PROVE  IInv /\ Session!Init
  OBVIOUS
<1>1. TypeOK
  BY DEF Init, TypeOK, Places
<1>2. \A k \in Calls : Placed(k) /\ Sound(k)
  BY DEF Init, Placed, Sound
<1>3. Session!Init
  BY DEF Init, Session!Init, Outcome
<1> QED BY <1>1, <1>2, <1>3 DEF IInv

LEMMA Inductive == IInv /\ [Next]_vars => Good
<1> SUFFICES ASSUME IInv, [Next]_vars
             PROVE  Good
  OBVIOUS
<1>1. CASE InstallChanges \/ UNCHANGED vars
  <2>1. binary' \in Binaries /\ UNCHANGED <<event, at, verdict, confirmed, denied>>
    BY <1>1 DEF InstallChanges, vars, IInv, TypeOK
  <2> QED BY <2>1, ElsewhereStep
<1>2. ASSUME NEW k \in Calls, Handler(k) \/ Confirm(k)
      PROVE  Good
  BY <1>2, IgnoreStep, ClassifyStep, CallBackStep, JudgeStep, ConfirmStep DEF Handler
<1> QED BY <1>1, <1>2 DEF Next

\* Types, and that a handler past the classifier has its verdict.
THEOREM TypeCorrect == Spec => []TypeOK
<1>1. IInv => TypeOK
  BY DEF IInv
<1>2. IInv /\ [Next]_vars => IInv'
  BY Inductive DEF Good
<1> QED BY <1>1, <1>2, Initial, PTL DEF Spec

\* For any number of handlers in progress, and whatever becomes of the install
\* between their steps, a bash command that runs is read-only or was allowed
\* by its user (the tool_call handler, contrib/pi/classify-bash.ts).
THEOREM GateIsHeld == Spec => []GateHolds
<1>1. IInv => GateHolds
  BY DEF IInv, Placed, Sound, GateHolds
<1>2. IInv /\ [Next]_vars => IInv'
  BY Inductive DEF Good
<1> QED BY <1>1, <1>2, Initial, PTL DEF Spec

\* What a call is asked about or blocked for is so: a command that is reported
\* as not read-only is none, for any number of handlers in progress and whatever
\* becomes of the install (the tool_call handler, contrib/pi/classify-bash.ts).
THEOREM ReasonIsRight == Spec => []ReasonHolds
<1>1. IInv => ReasonHolds
  BY DEF IInv, Placed, Sound, Asked, ReasonHolds, Verdicts
<1>2. IInv /\ [Next]_vars => IInv'
  BY Inductive DEF Good
<1> QED BY <1>1, <1>2, Initial, PTL DEF Spec

\* Each call is answered as Accelerator says; that each is answered at all is
\* left to TLC (KeepsPromise).
THEOREM ImplementsSession ==
  Spec => Session!Init /\ [][Session!Next]_(Session!vars)
<1>1. IInv /\ [Next]_vars => IInv' /\ [Session!Next]_(Session!vars)
  BY Inductive DEF Good
<1> QED BY <1>1, Initial, PTL DEF Spec
=============================================================================
