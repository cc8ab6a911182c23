-------------------------- MODULE CheckProcessProofs -------------------------
(***************************************************************************)
(* What both shims rely on of the classifier they spawn, for every set of  *)
(* commands and every classification of them.                              *)
(***************************************************************************)
EXTENDS CheckProcess, TLAPS

\* However check is asked and whatever becomes of its pipes, status 0 is the
\* class ReadOnly and status 1 another class; and a class printed as JSON agrees
\* with the status (check.go, runCheck).
THEOREM StatusIsVerdict ==
  ASSUME NEW ask \in Invocations, NEW class \in Classes,
         NEW stdinRead \in BOOLEAN, NEW pipes \in Pipes
  PROVE  LET status == runCheck(ask, class, stdinRead, pipes)
         IN  /\ status \in {0, 1, 2, SIGPIPE}
             /\ status = 0 => class = "ReadOnly"
             /\ status = 1 => class \in {"NotReadOnly", "Unparseable"}
             /\ \A c \in printed(ask, class, stdinRead, pipes) :
                  status \in {0, 1} /\ (c = "read_only" <=> status = 0)
BY DEF runCheck, Killed, Malfunctions, Declines, SIGPIPE, Classes, printed,
       className

\* Exit status 0 of a working binary is the class ReadOnly, and nothing else
\* is taken for it; nor is a read-only command taken for one that is not,
\* whatever the install is: what went wrong is told apart (verdictOf).
THEOREM VerdictIsSound ==
  ASSUME NEW c \in Commands, NEW b, NEW e \in Ends(b, c)
  PROVE  /\ verdictOf(e) \in Verdicts
         /\ verdictOf(e) = "read_only" => Class[c] = "ReadOnly"
         /\ verdictOf(e) = "not_read_only" => Class[c] # "ReadOnly"
<1>1. verdictOf(e) \in Verdicts
  BY DEF verdictOf, Verdicts
<1>2. ASSUME verdictOf(e) = "read_only"
      PROVE  Class[c] = "ReadOnly"
  <2>1. e.how = "exits" /\ e.status = 0
    BY <1>2 DEF verdictOf
  <2>2. PICK read \in BOOLEAN :
          0 = runCheck(ShimInvocation, Class[c], read, ShimPipes)
    BY <2>1 DEF Ends
  <2>3. Class[c] \in Classes
    BY ClassAssumption
  <2> QED
    BY <2>2, <2>3 DEF runCheck, Killed, Malfunctions, SIGPIPE, Classes
<1>3. ASSUME verdictOf(e) = "not_read_only"
      PROVE  Class[c] # "ReadOnly"
  <2>1. e.how = "exits" /\ e.status = 1
    BY <1>3 DEF verdictOf
  <2>2. PICK read \in BOOLEAN :
          1 = runCheck(ShimInvocation, Class[c], read, ShimPipes)
    BY <2>1 DEF Ends
  <2>3. Class[c] \in Classes
    BY ClassAssumption
  <2> QED
    BY <2>2, <2>3 DEF runCheck, Killed, Malfunctions, SIGPIPE, Classes
<1> QED BY <1>1, <1>2, <1>3
=============================================================================
