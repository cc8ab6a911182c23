---------------------------- MODULE CommandMatch ----------------------------
(***************************************************************************)
(* FlagMatch with the awk program it comes to read: the word that is the   *)
(* program is matched by the walk over it (internal/engine/spec.go,        *)
(* matchAwk; awk.go).                                                      *)
(***************************************************************************)
EXTENDS FlagMatch, AwkWalk

CommandInit == Init /\ AwkInit

\* A word shaped like no option would be the program; after -- any word is.
ProgramExpected ==
  Matching /\ ~within /\ (m = "program" \/ (InFlags(m) /\ style = "awk"))

\* matchAwk calls classifyAwkProgram on the word, if it is literal.
ReadProgram ==
  /\ ProgramExpected
  /\ classifyAwkProgram
  /\ UNCHANGED vars

\* The walk over the program.
WalkProgram == AwkWalk /\ UNCHANGED vars

\* A word that may look like an option.
DashWord ==
  \/ EndOfFlags
  \/ \E o \in Opts, hasVal \in BOOLEAN : LongFlag(o, hasVal)
  \/ \E o \in Opts, last \in BOOLEAN : ShortFlag(o, last)
  \/ Offset

\* matchAwk rejects the command unless the program was found safe.
matchAwk(safe) == (verdict' = "rejected") <=> ~safe

\* The program was walked over: it is matched or not.
MatchProgram ==
  /\ walk \in {"safe", "unsafe"}
  /\ LET safe == walk = "safe"
     IN  /\ \/ m = "program" /\ DashWord
            \/ \E w \in Specs \cup {Other} : Word(w, safe)
         /\ matchAwk(safe)
  /\ walk' = "idle"
  /\ UNCHANGED <<todo, size, impure>>

\* Any other word, or none.
MatchWord ==
  /\ walk = "idle"
  /\ \/ m # "program" /\ DashWord
     \/ ~ProgramExpected /\ \E w \in Specs \cup {Other} : Word(w, TRUE)
     \/ Substituted
     \/ End
  /\ UNCHANGED awkVars

CommandNext == ReadProgram \/ WalkProgram \/ MatchProgram \/ MatchWord

CommandSpec == CommandInit /\ [][CommandNext]_<<vars, awkVars>>

-----------------------------------------------------------------------------
\* The program of an accepted awk command neither runs a command nor writes a
\* file, in any part of it: the walk saw every part, and knew what it saw
\* ("returns true only when every node is on the strict whitelist", awk.go,
\* classifyAwkProgram).
ProgramsVetted == verdict = "accepted" => ~impure
=============================================================================
