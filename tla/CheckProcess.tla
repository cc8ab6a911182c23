---------------------------- MODULE CheckProcess ----------------------------
(***************************************************************************)
(* One run of "classify-bash check" (cmd/classify-bash/check.go), the      *)
(* primitive both extension shims are built on, and how it ends for the    *)
(* Node program that spawns it with --stdin.                               *)
(***************************************************************************)
EXTENDS Integers

CONSTANTS
  Commands,   (* Command lines an agent may issue.                         *)
  Empty,      (* The empty one, as a tool call without a command has.      *)
  Class       (* What the engine concludes of each; "crash" when it panics.*)

Classes == {"ReadOnly", "NotReadOnly", "Unparseable", "crash"}

ASSUME ClassAssumption == Empty \in Commands /\ Class \in [Commands -> Classes]

\* How it may be asked: with flags it knows or not; the command on stdin, as
\* the one operand, or in no way it takes.
Invocations ==
  [flags : {"known", "unknown"}, input : {"stdin", "operand", "misuse"},
   onUnknownAST : {"fail", "fallthrough"}, json : BOOLEAN]

\* How the shims ask.
ShimInvocation ==
  [flags |-> "known", input |-> "stdin", onUnknownAST |-> "fallthrough",
   json |-> FALSE]

\* Operands beside --stdin, none, and several are refused, never joined.
checkInput(ask, stdinRead) ==
  ask.input = "operand" \/ (ask.input = "stdin" /\ stdinRead)

\* It has no verdict, and says so on stderr.
Declines(ask, class, stdinRead) ==
  \/ ask.flags = "unknown"
  \/ ~checkInput(ask, stdinRead)
  \/ class = "Unparseable" /\ ask.onUnknownAST = "fail"

Malfunctions(ask, class, stdinRead) ==
  Declines(ask, class, stdinRead) \/ class = "crash"

\* Stdout and stderr: "failing" when a write is an error, "closed" when the
\* reader is gone.
Pipes == [out : {"open", "failing", "closed"}, err : {"open", "closed"}]

\* The shims keep both pipes of what they spawn.
ShimPipes == [out |-> "open", err |-> "open"]

\* The process dies of SIGPIPE, as a Go program does that writes to a closed
\* stdout or stderr, before it can exit.
Killed(ask, class, stdinRead, pipes) ==
  \/ Declines(ask, class, stdinRead) /\ pipes.err = "closed"
  \/ ~Malfunctions(ask, class, stdinRead) /\ ask.json /\ pipes.out = "closed"

\* What a shell reports of a process that SIGPIPE killed.
SIGPIPE == 141

\* The exit status: 2 is a malfunction, and no verdict.
runCheck(ask, class, stdinRead, pipes) ==
  IF Killed(ask, class, stdinRead, pipes) THEN SIGPIPE
  ELSE IF Malfunctions(ask, class, stdinRead) THEN 2
  ELSE IF class = "ReadOnly" THEN 0 ELSE 1

className(class) ==
  CASE class = "ReadOnly"                     -> "read_only"
    [] class = "Unparseable"                  -> "unparseable"
    [] class \notin {"ReadOnly", "Unparseable"} -> "not_read_only"

\* The class on stdout, if asked for as JSON and if stdout takes it: the error of
\* a failed write is ignored.
printed(ask, class, stdinRead, pipes) ==
  IF ask.json /\ pipes.out = "open" /\ ~Malfunctions(ask, class, stdinRead)
    THEN {className(class)} ELSE {}

\* What the binary found under its name does; the install can change.
Binaries == {"works", "misused", "missing", "hangs"}

\* How a spawn ends: it throws; it fails, which is no start, a signal, or the
\* time limit; or the process exits.
Endings == [how : {"throws", "fails"}, status : {-1}]
             \cup [how : {"exits"}, status : {0, 1, 2}]

Ends(binary, command) ==
  {e \in Endings :
     \/ e.how = "fails"
     \/ e.how = "throws" /\ binary = "missing"
     \/ e.how = "exits"  /\ binary = "misused" /\ e.status = 2
     \/ /\ e.how = "exits" /\ binary = "works"
        /\ \E read \in BOOLEAN :
             e.status = runCheck(ShimInvocation, Class[command], read, ShimPipes)}

Verdicts == {"read_only", "not_read_only", "malfunction"}

\* Mutant: every status but 0 is taken for a verdict.
verdictOfNonzero(e) ==
  IF e.how # "exits" THEN "malfunction"
  ELSE IF e.status = 0 THEN "read_only" ELSE "not_read_only"

\* The shims' reading of it.
verdictOf(e) ==
  IF e.how = "exits" /\ e.status = 0 THEN "read_only"
  ELSE IF e.how = "exits" /\ e.status = 1 THEN "not_read_only"
  ELSE "malfunction"
=============================================================================
