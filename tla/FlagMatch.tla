------------------------------ MODULE FlagMatch ------------------------------
(***************************************************************************)
(* How a command's words are matched against its whitelist entry           *)
(* (internal/engine/spec.go), in lockstep with how the program that would  *)
(* receive them reads the same words.                                      *)
(*                                                                         *)
(* The matcher is a second parser of somebody else's command line.  Its    *)
(* answer is worth something only while the two agree on which words are   *)
(* options, which are their values and which are operands: from the first  *)
(* word they read differently on, an option the whitelist lacks may pass   *)
(* as data.  So each action is one word (of a cluster such as -la, one     *)
(* letter), read by both.                                                  *)
(*                                                                         *)
(* Abstracted: commands.go is the constant Table; a word is what its shape *)
(* makes of it; what an awk program holds is the choice of Word.  The      *)
(* rejection of an operand is immediate, where the code collects operands  *)
(* and rejects at the end.                                                 *)
(***************************************************************************)
CONSTANTS
  Specs,        (* Entries of the whitelist, subcommands included.         *)
  Whitelisted,  (* Those that are commands: the keys of safeCommands.      *)
  Table,        (* What each entry says.                                   *)
  Opts,         (* Options programs know, listed or not.                   *)
  Arity,        (* Whether an option takes a value.                        *)
  Other         (* A word that names no entry.                             *)

Styles  == {"gnu", "find", "wrapper", "awk", "xargs"}
\* TakesArg is "required"; OptionalArg "optional", "offset" with DashValueOK.
Arities == {"none", "required", "optional", "offset"}

mayHaveValue(o) == Arity[o] \in {"optional", "offset"}

commandSpec ==
  [style : Styles, flags : SUBSET Opts, subcommands : SUBSET Specs,
   anyPositional : BOOLEAN, dataSafe : BOOLEAN]

ASSUME TableAssumption ==
  /\ Whitelisted \subseteq Specs /\ Other \notin Specs
  /\ Table \in [Specs -> commandSpec]
  /\ Arity \in [Opts -> Arities]
\* Only leaves are ArgvDataSafe, and they take operands (commands.go).
ASSUME DataSafeAssumption ==
  \A s \in Specs : Table[s].dataSafe =>
    Table[s].style = "gnu" /\ Table[s].subcommands = {}
      /\ Table[s].anyPositional
\* Only a leaf of the GNU style has a flag with an optional value.
ASSUME OptionalAssumption ==
  \A s \in Specs : \A o \in Table[s].flags :
    mayHaveValue(o) =>
      Table[s].style = "gnu" /\ Table[s].subcommands = {}

VARIABLES
  at,       (* The entry in force.                                         *)
  m,        (* What the matcher takes the next word or letter for.         *)
  p,        (* What the program takes it for.                              *)
  within,   (* In the middle of a cluster of letters.                      *)
  litOnly,  (* Inside a wrapper: litArgs admits no substituted operand.    *)
  acted,    (* The options programs act on: pairs of an entry and one.     *)
  unseen,   (* Entries whose program gets words the matcher cannot see.    *)
  clustered,  (* Entries in whose command a letter that may have a value   *)
              (* is followed by others: that value, or flags.              *)
  verdict

vars == <<at, m, p, within, litOnly, acted, unseen, clustered, verdict>>

\* "value": of the option before, whatever it looks like; "offset": the same
\* if it is a signed integer; "attached": letters of a value; "sub",
\* "command", "program": a name, or the awk program; "rest": operands;
\* "files": operands of awk.
Modes == {"flags", "value", "offset", "attached", "sub", "command",
          "program", "rest", "files"}

Entry == Table[at]
style == Entry.style
Leaf  == Entry.subcommands = {}

InFlags(mode) == mode \in {"flags", "offset"}

Matching == verdict = "matching"

Init ==
  /\ at \in Whitelisted
  /\ m = "flags" /\ p = "flags"
  /\ within = FALSE
  /\ litOnly = FALSE
  /\ acted = {}
  /\ unseen = {}
  /\ clustered = {}
  /\ verdict = "matching"

-----------------------------------------------------------------------------
Reject ==
  /\ verdict' = "rejected"
  /\ UNCHANGED <<at, m, p, within, litOnly, acted, unseen, clustered>>

\* The word was matched: what each side expects next, and what it acted on.
Read(mNext, pNext, opts) ==
  /\ m' = mNext /\ p' = pNext
  /\ acted' = acted \cup { <<at, o>> : o \in opts }
  /\ UNCHANGED <<at, litOnly, unseen, verdict>>

\* Both go on to the entry s, of a subcommand or of a wrapped command.  A
\* program that takes all words for operands keeps doing so.
Dispatch(s) ==
  /\ at' = s
  /\ m' = "flags"
  /\ p' = IF p = "rest" THEN "rest" ELSE "flags"
  /\ litOnly' = (litOnly \/ style \in {"wrapper", "xargs"})
  /\ unseen' = unseen \cup (IF style = "xargs" THEN {s} ELSE {})
  /\ UNCHANGED <<within, acted, clustered, verdict>>

\* What a literal word leaves each side expecting where it is no option.
TakesLiteral(mode) ==
  CASE mode \in {"value", "attached"}  -> "flags"
    [] mode \in {"program", "files"}   -> "files"
    [] mode = "rest"                   -> "rest"

\* Where the matcher takes such a word without looking at its shape.
acceptPositionals == m = "rest" => Entry.anyPositional

Opaque(mode) == mode \in {"value", "attached", "program", "files", "rest"}

\* Where it may not be taken: a name is wanted, no operand is, or the awk
\* program it is writes something.
Refusable == m \in {"sub", "command", "program"} \/ ~acceptPositionals

-----------------------------------------------------------------------------
\* The word --.
EndOfFlags ==
  /\ Matching /\ ~within
  /\ LET next == CASE style = "gnu"                -> IF Leaf THEN "rest" ELSE "sub"
                   [] style \in {"wrapper", "xargs"} -> "command"
                   [] style = "awk"                -> "program"
         ends == {next} \cup (IF Leaf THEN {} ELSE {"rest"})
     IN  \/ /\ InFlags(m) /\ style # "find"
            /\ \E end \in ends :
                 Read(next, IF InFlags(p) THEN end ELSE TakesLiteral(p), {})
         \/ /\ Opaque(m) /\ acceptPositionals
            /\ Read(TakesLiteral(m),
                    IF InFlags(p) THEN "rest" ELSE TakesLiteral(p), {})
         \/ /\ IF InFlags(m) THEN style = "find" ELSE Refusable
            /\ Reject
  /\ UNCHANGED <<within, clustered>>

\* What the option o leaves expected, written --o or as the last letter.
AfterOption(o) ==
  CASE Arity[o] = "required"                     -> "value"
    [] Arity[o] = "offset"                       -> "offset"
    [] Arity[o] \notin {"required", "offset"}    -> "flags"

findLong(o, hasVal) ==
  /\ o \in Entry.flags
  /\ hasVal => Arity[o] # "none" /\ style # "find"
  /\ style # "awk"

\* The word --o or --o=value; of find, -o.
LongFlag(o, hasVal) ==
  /\ Matching /\ ~within
  /\ LET next  == IF hasVal THEN "flags" ELSE AfterOption(o)
         pNext == IF InFlags(p) THEN next ELSE TakesLiteral(p)
         acts  == IF InFlags(p) THEN {o} ELSE {}
     IN  \/ /\ InFlags(m) /\ findLong(o, hasVal)
            /\ Read(next, pNext, acts)
         \/ /\ Opaque(m) /\ acceptPositionals
            /\ Read(TakesLiteral(m), pNext, acts)
         \/ /\ IF InFlags(m) THEN ~findLong(o, hasVal) ELSE Refusable
            /\ Reject
  /\ UNCHANGED <<within, clustered>>

findShort(o) ==
  /\ o \in Entry.flags
  /\ style = "awk" => Arity[o] = "required"

\* What the matcher expects after the letter o.
shortNext(o, last) ==
  IF last THEN AfterOption(o)
  ELSE IF Arity[o] = "required" THEN "attached" ELSE "flags"

\* What getopt leaves of the word after the letter o: the rest is the value of
\* an option that may have one.
GetoptNext(o, last) ==
  IF last THEN AfterOption(o)
  ELSE IF Arity[o] = "none" THEN "flags" ELSE "attached"

\* A value that goes on to the end of the word, or a word that is data.
Within(mode, last) ==
  IF mode \in {"value", "attached"} /\ ~last THEN "attached"
  ELSE TakesLiteral(mode)

\* One letter of a cluster such as -la or -n5.
ShortFlag(o, last) ==
  /\ Matching /\ style # "find"
  /\ LET pNext == IF InFlags(p) THEN GetoptNext(o, last) ELSE Within(p, last)
         acts  == IF InFlags(p) THEN {o} ELSE {}
     IN  \/ /\ InFlags(m) /\ findShort(o)
            /\ Read(shortNext(o, last), pNext, acts)
            /\ within' = ~last
            /\ clustered' = IF InFlags(p) /\ ~last /\ mayHaveValue(o)
                              THEN clustered \cup {at} ELSE clustered
         \/ /\ Opaque(m) /\ acceptPositionals
            /\ Read(Within(m, last), pNext, acts)
            /\ within' = ~last
            /\ UNCHANGED clustered
         \/ /\ IF InFlags(m) THEN ~findShort(o) ELSE Refusable
            /\ Reject

\* A signed integer after an option that takes one: -b -1 (DashValueOK).
Offset ==
  /\ Matching /\ ~within
  /\ m = "offset"
  /\ Read("flags", IF InFlags(p) THEN "flags" ELSE TakesLiteral(p), {})
  /\ UNCHANGED <<within, clustered>>

-----------------------------------------------------------------------------
\* Mutant: the name is not looked up.
dispatchAny(w) == Dispatch(w)

dispatchSubcommand(w) ==
  IF w \in Entry.subcommands THEN Dispatch(w) ELSE Reject

\* The command after the -- of a wrapper.
wrappedCommand(w) == IF w \in Whitelisted THEN Dispatch(w) ELSE Reject

\* The command of xargs.
classifyWrapped(w) ==
  IF w \in Whitelisted /\ Table[w].dataSafe THEN Dispatch(w) ELSE Reject

\* The program of awk, read-only or not.
Program(safe) ==
  IF safe
    THEN /\ Read("files", IF InFlags(p) THEN "files" ELSE TakesLiteral(p), {})
         /\ UNCHANGED <<within, clustered>>
    ELSE Reject

\* Mutant: an operand ends the flags, of every command.
afterOperandRest == "rest"

\* Flags go on being validated after an operand (getopt permutes), except for
\* a command that is safe under any of them.
afterOperand == IF Entry.dataSafe THEN "rest" ELSE "flags"

\* A word that is shaped like no option.
Word(w, safe) ==
  /\ Matching /\ ~within
  /\ LET pNext == IF InFlags(p) THEN "flags" ELSE TakesLiteral(p)
         Operand(mNext) == Read(mNext, pNext, {}) /\ UNCHANGED <<within, clustered>>
     IN  \/ m = "sub" /\ dispatchSubcommand(w)
         \/ m = "command" /\ style = "wrapper" /\ wrappedCommand(w)
         \/ m = "command" /\ style = "xargs"   /\ classifyWrapped(w)
         \/ m = "program" /\ Program(safe)
         \/ m = "value"   /\ Operand("flags")
         \/ m = "files"   /\ Operand("files")
         \/ m = "rest"    /\ IF Entry.anyPositional THEN Operand("rest") ELSE Reject
         \/ /\ InFlags(m)
            /\ CASE style = "gnu" /\ ~Leaf -> dispatchSubcommand(w)
                 [] style = "xargs"        -> classifyWrapped(w)
                 [] style = "awk"          -> Program(safe)
                 [] style = "find"         -> Operand("flags")
                 [] style = "wrapper" \/ (style = "gnu" /\ Leaf) ->
                      IF ~Entry.anyPositional THEN Reject
                      ELSE Operand(afterOperand)

\* A quoted substitution, whose text nobody knows: an operand of a program
\* that is safe whatever it is given, or nothing.
Substituted ==
  /\ Matching /\ ~within
  /\ IF /\ Entry.dataSafe /\ ~litOnly
        /\ InFlags(m) \/ m = "rest"
       THEN /\ m' = "rest"
            /\ p' \in {"flags", "value", "rest"}
            /\ unseen' = unseen \cup {at}
            /\ UNCHANGED <<at, within, litOnly, acted, clustered, verdict>>
       ELSE Reject

\* Mutant: a value may be missing.
CompleteUnvalued ==
  \/ m \in {"rest", "files", "value"}
  \/ InFlags(m) /\ Leaf /\ style \in {"gnu", "find"}

\* Nothing is missing: a value, a name, an awk program, the -- of a wrapper.
Complete ==
  \/ m \in {"rest", "files"}
  \/ InFlags(m) /\ Leaf /\ style \in {"gnu", "find"}

\* There are no more words.
End ==
  /\ Matching /\ ~within
  /\ IF Complete
       THEN /\ verdict' = "accepted"
            /\ UNCHANGED <<at, m, p, within, litOnly, acted, unseen, clustered>>
       ELSE Reject

Next ==
  \/ EndOfFlags
  \/ \E o \in Opts, hasVal \in BOOLEAN : LongFlag(o, hasVal)
  \/ \E o \in Opts, last \in BOOLEAN : ShortFlag(o, last)
  \/ Offset
  \/ \E w \in Specs \cup {Other}, safe \in BOOLEAN : Word(w, safe)
  \/ Substituted
  \/ End

Spec == Init /\ [][Next]_vars

-----------------------------------------------------------------------------
\* Every variable has its type, and letters of a value come in a cluster.
TypeOK ==
  /\ at \in Specs
  /\ m \in Modes
  /\ p \in Modes
  /\ within \in BOOLEAN
  /\ m = "attached" => within
  /\ litOnly \in BOOLEAN
  /\ acted \subseteq Specs \X Opts
  /\ unseen \subseteq Specs
  /\ clustered \subseteq Specs
  /\ verdict \in {"matching", "accepted", "rejected"}

\* No program acts on an option its entry does not list, unless it is safe
\* under any: "an unwhitelisted flag falls through wherever it lands" (spec.go,
\* commandSpec).  But for a program some letters of which are read in two ways:
\* these do not lead the readers apart on any other program's words, before or
\* after, above or below it.
OptionsVetted ==
  verdict # "rejected" =>
    \A a \in acted : \/ a[2] \in Table[a[1]].flags
                     \/ Table[a[1]].dataSafe
                     \/ a[1] \in clustered

\* The same of every command, as that sentence has it.
OptionsAlwaysVetted ==
  verdict # "rejected" =>
    \A a \in acted : a[2] \in Table[a[1]].flags \/ Table[a[1]].dataSafe

\* Words nobody saw, from a substitution or from the stdin of xargs, reach only
\* programs that are safe whatever they are given (spec.go, ArgvDataSafe).
UnseenOnlyToDataSafe ==
  verdict = "accepted" => \A s \in unseen : Table[s].dataSafe

\* A program of an accepted command is not left waiting for the value of an
\* option or for a name, which under xargs would be a word nobody saw; but for
\* the same programs.
NothingLeftOpen ==
  verdict = "accepted" =>
    \/ p \in {"flags", "offset", "rest", "files"}
    \/ Entry.dataSafe
    \/ at \in clustered
=============================================================================
