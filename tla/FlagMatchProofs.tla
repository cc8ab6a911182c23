--------------------------- MODULE FlagMatchProofs ---------------------------
(***************************************************************************)
(* What FlagMatch satisfies for every whitelist and every set of options:  *)
(* its types; that words nobody saw reach only programs safe under any     *)
(* argv; that no program acts on an option its entry does not list and     *)
(* none is left waiting for a word, but for one with letters that are read *)
(* in two ways.  And what CommandMatch satisfies for awk programs of any   *)
(* size: it implements FlagMatch, so that all this holds of it, and no     *)
(* program it accepts acts on files or processes.                          *)
(***************************************************************************)
EXTENDS CommandMatch, TLAPS

\* A name is awaited by both sides or by none, and a subcommand's name only
\* under the GNU style.
Named ==
  Matching => /\ p \in {"sub", "command"} => m = p
              /\ m = "sub" => style = "gnu"

Unseen == verdict # "rejected" => \A s \in unseen : Table[s].dataSafe

ShapeInv == TypeOK /\ Named /\ Unseen

\* An entry whose program may read its words in another way than the matcher:
\* it is safe under any argv, or some of its letters are read in two ways.
Loose(s) == Table[s].dataSafe \/ s \in clustered

\* The two readers differ only in such a program, and in one that takes every
\* word left for an operand.
Agree == Matching => Loose(at) \/ m = p \/ p = "rest"

AgreeInv == Agree /\ OptionsVetted /\ NothingLeftOpen

-----------------------------------------------------------------------------
\* A literal word moves a side only to where flags or operands are read.
LEMMA TakesLiteralRange ==
  ASSUME NEW mode \in Modes, ~InFlags(mode), mode \notin {"sub", "command"}
  PROVE  TakesLiteral(mode) \in {"flags", "files", "rest"}
BY DEF Modes, InFlags, TakesLiteral

LEMMA AfterOptionRange ==
  ASSUME NEW o
  PROVE  AfterOption(o) \in {"flags", "value", "offset"}
BY DEF AfterOption

LEMMA GetoptNextRange ==
  ASSUME NEW o, NEW last \in BOOLEAN
  PROVE  /\ GetoptNext(o, last) \in {"flags", "value", "offset", "attached"}
         /\ shortNext(o, last) \in {"flags", "value", "offset", "attached"}
         /\ shortNext(o, last) = "attached" => ~last
BY AfterOptionRange DEF GetoptNext, shortNext

LEMMA WithinRange ==
  ASSUME NEW mode \in Modes, ~InFlags(mode), mode \notin {"sub", "command"},
         NEW last \in BOOLEAN
  PROVE  /\ Within(mode, last) \in {"flags", "files", "rest", "attached"}
         /\ Within(mode, last) = "attached" => ~last
BY TakesLiteralRange DEF Within

\* The entry in force has its type.
LEMMA EntryType ==
  ASSUME TypeOK
  PROVE  /\ style \in Styles
         /\ Entry.flags \subseteq Opts
         /\ Entry.subcommands \subseteq Specs
         /\ Entry.dataSafe \in BOOLEAN
<1>1. Entry \in commandSpec
  BY TableAssumption DEF TypeOK, Entry
<1> QED BY <1>1 DEF commandSpec, style

-----------------------------------------------------------------------------
\* The three ways a word is taken preserve ShapeInv.
LEMMA RejectShape ==
  ASSUME ShapeInv, Reject
  PROVE  ShapeInv'
BY DEF ShapeInv, TypeOK, Named, Unseen, Matching, Reject

LEMMA ReadShape ==
  ASSUME ShapeInv, Matching,
         NEW mNext \in Modes, NEW pNext \in Modes, NEW opts \in SUBSET Opts,
         Read(mNext, pNext, opts),
         within' \in BOOLEAN, clustered' \subseteq Specs,
         mNext = "attached" => within',
         pNext \in {"sub", "command"} => mNext = pNext,
         mNext = "sub" => style = "gnu"
  PROVE  ShapeInv'
<1>1. acted' \subseteq Specs \X Opts
  BY DEF ShapeInv, TypeOK, Read
<1>2. TypeOK'
  BY <1>1 DEF ShapeInv, TypeOK, Read
<1>3. Named' /\ Unseen'
  BY DEF ShapeInv, Named, Unseen, Matching, Read, style, Entry
<1> QED BY <1>2, <1>3 DEF ShapeInv

LEMMA DispatchShape ==
  ASSUME ShapeInv, Matching, NEW s \in Specs, Dispatch(s),
         style = "xargs" => Table[s].dataSafe
  PROVE  ShapeInv'
<1>1. TypeOK'
  BY DEF ShapeInv, TypeOK, Dispatch, Modes
<1>2. Named' /\ Unseen'
  BY DEF ShapeInv, Named, Unseen, Matching, Dispatch
<1> QED BY <1>1, <1>2 DEF ShapeInv

-----------------------------------------------------------------------------
\* ShapeInv, action by action.
LEMMA EndOfFlagsShape ==
  ASSUME ShapeInv, EndOfFlags
  PROVE  ShapeInv'
<1> DEFINE next == CASE style = "gnu"                -> IF Leaf THEN "rest" ELSE "sub"
                     [] style \in {"wrapper", "xargs"} -> "command"
                     [] style = "awk"                -> "program"
           ends == {next} \cup (IF Leaf THEN {} ELSE {"rest"})
<1>1. Matching /\ ~within /\ UNCHANGED <<within, clustered>> /\ TypeOK
  BY DEF EndOfFlags, ShapeInv
<1>2. CASE Reject
  BY <1>2, RejectShape
<1>3. ASSUME InFlags(m), style # "find", NEW end \in ends,
             Read(next, IF InFlags(p) THEN end ELSE TakesLiteral(p), {})
      PROVE  ShapeInv'
  <2>1. /\ next \in {"rest", "sub", "command", "program"}
        /\ next = "sub" => style = "gnu"
    BY <1>1, <1>3, EntryType DEF Styles
  <2>2. end = next \/ end = "rest"
    OBVIOUS
  <2> HIDE DEF next, ends
  <2> DEFINE pNext == IF InFlags(p) THEN end ELSE TakesLiteral(p)
  <2>3. p \in Modes /\ p \notin {"sub", "command"}
    BY <1>1, <1>3 DEF ShapeInv, TypeOK, Named, InFlags
  <2>4. /\ pNext \in Modes
        /\ pNext \in {"sub", "command"} => next = pNext
    BY <2>1, <2>2, <2>3, TakesLiteralRange DEF Modes
  <2>5. next \in Modes /\ next # "attached"
    BY <2>1 DEF Modes
  <2>6. Read(next, pNext, {})
    BY <1>3
  <2> HIDE DEF pNext
  <2> QED BY <1>1, <2>1, <2>4, <2>5, <2>6, ReadShape DEF TypeOK
<1>4. ASSUME Opaque(m),
             Read(TakesLiteral(m), IF InFlags(p) THEN "rest" ELSE TakesLiteral(p), {})
      PROVE  ShapeInv'
  <2> DEFINE pNext == IF InFlags(p) THEN "rest" ELSE TakesLiteral(p)
  <2>1. /\ m \in Modes /\ ~InFlags(m) /\ m \notin {"sub", "command"}
        /\ p \in Modes /\ p \notin {"sub", "command"}
    BY <1>1, <1>4 DEF ShapeInv, TypeOK, Named, Opaque, InFlags
  <2>2. TakesLiteral(m) \in {"flags", "files", "rest"}
    BY <2>1, TakesLiteralRange
  <2>3. pNext \in {"flags", "files", "rest"}
    BY <2>1, TakesLiteralRange
  <2>4. TakesLiteral(m) \in Modes /\ pNext \in Modes
    BY <2>2, <2>3 DEF Modes
  <2>5. Read(TakesLiteral(m), pNext, {})
    BY <1>4
  <2> HIDE DEF pNext
  <2> QED BY <1>1, <2>2, <2>3, <2>4, <2>5, ReadShape DEF TypeOK
<1> QED BY <1>2, <1>3, <1>4 DEF EndOfFlags

LEMMA LongFlagShape ==
  ASSUME ShapeInv, NEW o \in Opts, NEW hasVal \in BOOLEAN, LongFlag(o, hasVal)
  PROVE  ShapeInv'
<1> DEFINE next  == IF hasVal THEN "flags" ELSE AfterOption(o)
           pNext == IF InFlags(p) THEN next ELSE TakesLiteral(p)
           acts  == IF InFlags(p) THEN {o} ELSE {}
<1>1. Matching /\ ~within /\ UNCHANGED <<within, clustered>> /\ TypeOK
  BY DEF LongFlag, ShapeInv
<1>2. acts \in SUBSET Opts
  OBVIOUS
<1>3. next \in {"flags", "value", "offset"}
  BY AfterOptionRange
<1>4. CASE Reject
  BY <1>4, RejectShape
<1>5. ASSUME NEW mNext \in Modes, mNext \notin {"attached", "sub", "command"},
             m \notin {"sub", "command"},
             Read(mNext, pNext, acts)
      PROVE  ShapeInv'
  <2>1. p \in Modes /\ p \notin {"sub", "command"}
    BY <1>1, <1>5 DEF ShapeInv, TypeOK, Named
  <2>2. pNext \in Modes /\ pNext \notin {"sub", "command"}
    BY <1>3, <2>1, TakesLiteralRange DEF Modes
  <2> HIDE DEF pNext, acts
  <2> QED BY <1>1, <1>2, <1>5, <2>2, ReadShape DEF TypeOK
<1>6. CASE InFlags(m) /\ Read(next, pNext, acts)
  <2>1. next \in Modes /\ m \notin {"sub", "command"}
    BY <1>3, <1>6 DEF Modes, InFlags
  <2> HIDE DEF next, pNext, acts
  <2> QED BY <1>3, <1>5, <1>6, <2>1
<1>7. CASE Opaque(m) /\ Read(TakesLiteral(m), pNext, acts)
  <2>1. m \in Modes /\ ~InFlags(m) /\ m \notin {"sub", "command"}
    BY <1>1, <1>7 DEF TypeOK, Opaque, InFlags
  <2>2. TakesLiteral(m) \in {"flags", "files", "rest"}
    BY <2>1, TakesLiteralRange
  <2>3. TakesLiteral(m) \in Modes
    BY <2>2 DEF Modes
  <2> HIDE DEF pNext, acts
  <2> QED BY <1>5, <1>7, <2>1, <2>2, <2>3
<1> QED BY <1>4, <1>6, <1>7 DEF LongFlag

LEMMA ShortFlagShape ==
  ASSUME ShapeInv, NEW o \in Opts, NEW last \in BOOLEAN, ShortFlag(o, last)
  PROVE  ShapeInv'
<1> DEFINE pNext == IF InFlags(p) THEN GetoptNext(o, last) ELSE Within(p, last)
           acts  == IF InFlags(p) THEN {o} ELSE {}
<1>1. Matching /\ TypeOK
  BY DEF ShortFlag, ShapeInv
<1>2. acts \in SUBSET Opts
  OBVIOUS
<1>3. CASE Reject
  BY <1>3, RejectShape
<1>4. ASSUME NEW mNext \in Modes, mNext \notin {"sub", "command"},
             mNext = "attached" => ~last,
             m \notin {"sub", "command"},
             Read(mNext, pNext, acts), within' = ~last,
             clustered' \subseteq Specs
      PROVE  ShapeInv'
  <2>1. p \in Modes /\ p \notin {"sub", "command"}
    BY <1>1, <1>4 DEF ShapeInv, TypeOK, Named
  <2>2. pNext \in Modes /\ pNext \notin {"sub", "command"}
    BY <2>1, WithinRange, GetoptNextRange DEF Modes
  <2> HIDE DEF pNext, acts
  <2> QED BY <1>1, <1>2, <1>4, <2>2, ReadShape
<1>5. CASE /\ InFlags(m) /\ Read(shortNext(o, last), pNext, acts)
           /\ within' = ~last /\ clustered' \in {clustered, clustered \cup {at}}
  <2>1. shortNext(o, last) \in {"flags", "value", "offset", "attached"}
    BY GetoptNextRange
  <2>2. shortNext(o, last) \in Modes /\ m \notin {"sub", "command"}
    BY <1>5, <2>1 DEF Modes, InFlags
  <2>3. clustered' \subseteq Specs
    BY <1>1, <1>5 DEF TypeOK
  <2> HIDE DEF pNext, acts
  <2> QED BY <1>4, <1>5, <2>1, <2>2, <2>3, GetoptNextRange
<1>6. CASE /\ Opaque(m) /\ Read(Within(m, last), pNext, acts)
           /\ within' = ~last /\ clustered' = clustered
  <2>1. m \in Modes /\ ~InFlags(m) /\ m \notin {"sub", "command"}
    BY <1>1, <1>6 DEF TypeOK, Opaque, InFlags
  <2>2. /\ Within(m, last) \in {"flags", "files", "rest", "attached"}
        /\ Within(m, last) = "attached" => ~last
    BY <2>1, WithinRange
  <2>3. Within(m, last) \in Modes /\ clustered' \subseteq Specs
    BY <1>1, <1>6, <2>2 DEF Modes, TypeOK
  <2> HIDE DEF pNext, acts
  <2> QED BY <1>4, <1>6, <2>1, <2>2, <2>3
<1> QED BY <1>3, <1>5, <1>6 DEF ShortFlag

LEMMA OffsetShape ==
  ASSUME ShapeInv, Offset
  PROVE  ShapeInv'
<1> DEFINE pNext == IF InFlags(p) THEN "flags" ELSE TakesLiteral(p)
<1>1. /\ Matching /\ ~within /\ UNCHANGED <<within, clustered>> /\ TypeOK
      /\ Read("flags", pNext, {})
      /\ p \in Modes /\ p \notin {"sub", "command"}
  BY DEF Offset, ShapeInv, TypeOK, Named
<1>2. pNext \in Modes /\ pNext \notin {"sub", "command"} /\ "flags" \in Modes
  BY <1>1, TakesLiteralRange DEF Modes
<1> HIDE DEF pNext
<1> QED BY <1>1, <1>2, ReadShape DEF TypeOK

LEMMA WordShape ==
  ASSUME ShapeInv, NEW w \in Specs \cup {Other}, NEW safe \in BOOLEAN, Word(w, safe)
  PROVE  ShapeInv'
<1> DEFINE pNext == IF InFlags(p) THEN "flags" ELSE TakesLiteral(p)
           Operand(mNext) == Read(mNext, pNext, {}) /\ UNCHANGED <<within, clustered>>
<1>1. Matching /\ ~within /\ TypeOK
  BY DEF Word, ShapeInv
<1>2. CASE Reject
  BY <1>2, RejectShape
<1>3. ASSUME NEW mNext \in {"flags", "files", "rest"}, m \notin {"sub", "command"},
             Operand(mNext)
      PROVE  ShapeInv'
  <2>1. p \in Modes /\ p \notin {"sub", "command"}
    BY <1>1, <1>3 DEF ShapeInv, TypeOK, Named
  <2>2. /\ pNext \in Modes /\ pNext \notin {"sub", "command"}
        /\ mNext \in Modes /\ mNext # "attached"
    BY <1>3, <2>1, TakesLiteralRange DEF Modes
  <2>3. Read(mNext, pNext, {}) /\ UNCHANGED <<within, clustered>>
    BY <1>3
  <2> HIDE DEF pNext, Operand
  <2> QED BY <1>1, <2>2, <2>3, ReadShape DEF TypeOK
<1>4. CASE dispatchSubcommand(w) /\ style = "gnu"
  <2>1. CASE Dispatch(w) /\ w \in Entry.subcommands
    BY <1>1, <1>4, <2>1, EntryType, DispatchShape
  <2> QED BY <1>2, <1>4, <2>1 DEF dispatchSubcommand
<1>5. CASE wrappedCommand(w) /\ style = "wrapper"
  <2>1. CASE Dispatch(w) /\ w \in Whitelisted
    BY <1>1, <1>5, <2>1, TableAssumption, DispatchShape
  <2> QED BY <1>2, <1>5, <2>1 DEF wrappedCommand
<1>6. CASE classifyWrapped(w)
  <2>1. CASE Dispatch(w) /\ w \in Whitelisted /\ Table[w].dataSafe
    BY <1>1, <2>1, TableAssumption, DispatchShape
  <2> QED BY <1>2, <1>6, <2>1 DEF classifyWrapped
<1>7. CASE Program(safe) /\ m \notin {"sub", "command"}
  <2>1. ASSUME Read("files", IF InFlags(p) THEN "files" ELSE TakesLiteral(p), {}),
               UNCHANGED <<within, clustered>>
        PROVE  ShapeInv'
    <3> DEFINE fNext == IF InFlags(p) THEN "files" ELSE TakesLiteral(p)
    <3>1. p \in Modes /\ p \notin {"sub", "command"}
      BY <1>1, <1>7 DEF ShapeInv, TypeOK, Named
    <3>2. /\ fNext \in Modes /\ fNext \notin {"sub", "command"}
          /\ "files" \in Modes
      BY <3>1, TakesLiteralRange DEF Modes
    <3>3. Read("files", fNext, {})
      BY <2>1
    <3> HIDE DEF fNext
    <3> QED BY <1>1, <2>1, <3>2, <3>3, ReadShape DEF TypeOK
  <2> QED BY <1>2, <1>7, <2>1 DEF Program
<1>8. CASE m = "value" /\ Operand("flags")
  BY <1>3, <1>8
<1>9. CASE m = "files" /\ Operand("files")
  BY <1>3, <1>9
<1>10. CASE m = "rest" /\ Operand("rest")
  BY <1>3, <1>10
<1>11. CASE InFlags(m) /\ (Operand("flags") \/ Operand(afterOperand))
  <2>1. afterOperand \in {"flags", "files", "rest"} /\ m \notin {"sub", "command"}
    BY <1>11 DEF afterOperand, InFlags
  <2> HIDE DEF Operand
  <2> QED BY <1>3, <1>11, <2>1
<1>12. CASE m = "sub" /\ dispatchSubcommand(w)
  BY <1>1, <1>4, <1>12 DEF ShapeInv, Named
<1>13. CASE m = "program" /\ Program(safe)
  BY <1>7, <1>13
<1>14. CASE InFlags(m) /\ Program(safe)
  BY <1>7, <1>14 DEF InFlags
<1>15. CASE InFlags(m) /\ ( \/ style = "gnu" /\ ~Leaf /\ dispatchSubcommand(w)
                            \/ style = "xargs" /\ classifyWrapped(w)
                            \/ style = "awk" /\ Program(safe)
                            \/ style = "find" /\ Operand("flags")
                            \/ Reject \/ Operand(afterOperand) )
  BY <1>2, <1>4, <1>6, <1>11, <1>14, <1>15
<1> QED
  <2>1. style \in Styles
    BY <1>1, EntryType
  <2> QED BY <1>2, <1>5, <1>6, <1>8, <1>9, <1>10, <1>12, <1>13, <1>15, <2>1
          DEF Word, Styles

LEMMA SubstitutedShape ==
  ASSUME ShapeInv, Substituted
  PROVE  ShapeInv'
<1>1. Matching /\ ~within /\ TypeOK
  BY DEF Substituted, ShapeInv
<1>2. CASE Reject
  BY <1>2, RejectShape
<1>3. ASSUME Entry.dataSafe, m' = "rest", p' \in {"flags", "value", "rest"},
             unseen' = unseen \cup {at},
             UNCHANGED <<at, within, litOnly, acted, clustered, verdict>>
      PROVE  ShapeInv'
  <2>1. TypeOK'
    BY <1>1, <1>3 DEF TypeOK, Modes
  <2>2. Named' /\ Unseen'
    BY <1>3 DEF ShapeInv, Named, Unseen, Matching, Entry
  <2> QED BY <2>1, <2>2 DEF ShapeInv
<1> QED BY <1>2, <1>3 DEF Substituted

LEMMA EndShape ==
  ASSUME ShapeInv, End
  PROVE  ShapeInv'
<1>1. CASE Reject
  BY <1>1, RejectShape
<1>2. CASE verdict' = "accepted" /\ UNCHANGED <<at, m, p, within, litOnly, acted, unseen,
                                             clustered>>
  BY <1>2 DEF ShapeInv, TypeOK, Named, Unseen, Matching, End
<1> QED BY <1>1, <1>2 DEF End

LEMMA ShapeInductive ==
  Init /\ [][Next]_vars => []ShapeInv
<1>1. Init => ShapeInv
  BY TableAssumption
     DEF Init, ShapeInv, TypeOK, Named, Unseen, Modes, Matching
<1>2. ShapeInv /\ [Next]_vars => ShapeInv'
  <2> SUFFICES ASSUME ShapeInv, [Next]_vars
               PROVE  ShapeInv'
    OBVIOUS
  <2>1. CASE EndOfFlags
    BY <2>1, EndOfFlagsShape
  <2>2. CASE \E o \in Opts, hasVal \in BOOLEAN : LongFlag(o, hasVal)
    BY <2>2, LongFlagShape
  <2>3. CASE \E o \in Opts, last \in BOOLEAN : ShortFlag(o, last)
    BY <2>3, ShortFlagShape
  <2>4. CASE Offset
    BY <2>4, OffsetShape
  <2>5. CASE \E w \in Specs \cup {Other}, safe \in BOOLEAN : Word(w, safe)
    BY <2>5, WordShape
  <2>6. CASE Substituted
    BY <2>6, SubstitutedShape
  <2>7. CASE End
    BY <2>7, EndShape
  <2>8. CASE UNCHANGED vars
    BY <2>8 DEF vars, ShapeInv, TypeOK, Named, Unseen, Matching, style, Entry
  <2> QED BY <2>1, <2>2, <2>3, <2>4, <2>5, <2>6, <2>7, <2>8 DEF Next
<1> QED BY <1>1, <1>2, PTL

\* Every variable has its type, and a word is left in the middle of a value
\* only in a cluster: for every whitelist.
THEOREM TypeCorrect == Spec => []TypeOK
<1>1. ShapeInv => TypeOK
  BY DEF ShapeInv
<1> QED BY <1>1, ShapeInductive, PTL DEF Spec

\* Words the matcher cannot see -- the text of a substitution, the stdin of
\* xargs -- are given only to programs that are safe under any argv
\* (acceptPositionals and classifyWrapped, spec.go), for every whitelist.
THEOREM UnseenIsSafe == Spec => []UnseenOnlyToDataSafe
<1>1. ShapeInv => UnseenOnlyToDataSafe
  BY DEF ShapeInv, Unseen, UnseenOnlyToDataSafe
<1> QED BY <1>1, ShapeInductive, PTL DEF Spec

-----------------------------------------------------------------------------
\* The ways a word is taken preserve AgreeInv.
LEMMA RejectAgrees ==
  ASSUME AgreeInv, Reject
  PROVE  AgreeInv'
BY DEF AgreeInv, Agree, OptionsVetted, NothingLeftOpen, Matching, Reject

LEMMA ReadAgrees ==
  ASSUME AgreeInv, Matching, NEW mNext, NEW pNext, NEW opts,
         Read(mNext, pNext, opts), clustered \subseteq clustered',
         Loose(at) \/ at \in clustered' \/ mNext = pNext \/ pNext = "rest",
         \A o \in opts : o \in Entry.flags \/ Loose(at)
  PROVE  AgreeInv'
<1>1. at' = at /\ (Loose(at) => Loose(at)')
  BY DEF Read, Loose
<1>2. OptionsVetted'
  BY <1>1 DEF AgreeInv, OptionsVetted, Matching, Read, Entry, Loose
<1>3. Agree' /\ NothingLeftOpen'
  BY <1>1 DEF Agree, NothingLeftOpen, Matching, Read, Loose
<1> QED BY <1>2, <1>3 DEF AgreeInv

LEMMA DispatchAgrees ==
  ASSUME AgreeInv, Matching, NEW s, Dispatch(s)
  PROVE  AgreeInv'
BY DEF AgreeInv, Agree, OptionsVetted, NothingLeftOpen, Matching, Dispatch

LEMMA EndOfFlagsAgrees ==
  ASSUME ShapeInv, AgreeInv, EndOfFlags
  PROVE  AgreeInv'
<1> DEFINE next == CASE style = "gnu"                -> IF Leaf THEN "rest" ELSE "sub"
                     [] style \in {"wrapper", "xargs"} -> "command"
                     [] style = "awk"                -> "program"
           ends == {next} \cup (IF Leaf THEN {} ELSE {"rest"})
<1>1. /\ Matching /\ (Loose(at) \/ m = p \/ p = "rest")
      /\ clustered' = clustered
  BY DEF EndOfFlags, AgreeInv, Agree
<1>2. TakesLiteral("rest") = "rest" /\ ~InFlags("rest")
  BY DEF TakesLiteral, InFlags
<1>3. ASSUME InFlags(m), NEW end \in ends,
             Read(next, IF InFlags(p) THEN end ELSE TakesLiteral(p), {})
      PROVE  AgreeInv'
  <2>1. end = next \/ end = "rest"
    OBVIOUS
  <2> HIDE DEF next, ends
  <2> DEFINE pNext == IF InFlags(p) THEN end ELSE TakesLiteral(p)
  <2>2. Loose(at) \/ next = pNext \/ pNext = "rest"
    BY <1>1, <1>2, <1>3, <2>1
  <2>3. Read(next, pNext, {})
    BY <1>3
  <2> HIDE DEF pNext
  <2> QED BY <1>1, <2>2, <2>3, ReadAgrees
<1>4. ASSUME Opaque(m),
             Read(TakesLiteral(m), IF InFlags(p) THEN "rest" ELSE TakesLiteral(p), {})
      PROVE  AgreeInv'
  <2> DEFINE pNext == IF InFlags(p) THEN "rest" ELSE TakesLiteral(p)
  <2>1. Loose(at) \/ TakesLiteral(m) = pNext \/ pNext = "rest"
    BY <1>1, <1>2
  <2>2. Read(TakesLiteral(m), pNext, {})
    BY <1>4
  <2> HIDE DEF pNext
  <2> QED BY <1>1, <2>1, <2>2, ReadAgrees
<1> QED BY <1>3, <1>4, RejectAgrees DEF EndOfFlags

LEMMA LongFlagAgrees ==
  ASSUME ShapeInv, AgreeInv, NEW o \in Opts, NEW hasVal \in BOOLEAN,
         LongFlag(o, hasVal)
  PROVE  AgreeInv'
<1> DEFINE next  == IF hasVal THEN "flags" ELSE AfterOption(o)
           pNext == IF InFlags(p) THEN next ELSE TakesLiteral(p)
           acts  == IF InFlags(p) THEN {o} ELSE {}
<1>1. /\ Matching /\ (Loose(at) \/ m = p \/ p = "rest")
      /\ clustered' = clustered
  BY DEF LongFlag, AgreeInv, Agree
<1>2. TakesLiteral("rest") = "rest" /\ ~InFlags("rest")
  BY DEF TakesLiteral, InFlags
<1>3. CASE InFlags(m) /\ findLong(o, hasVal) /\ Read(next, pNext, acts)
  <2>1. Loose(at) \/ next = pNext \/ pNext = "rest"
    BY <1>1, <1>2, <1>3
  <2>2. \A x \in acts : x \in Entry.flags \/ Loose(at)
    BY <1>3 DEF findLong
  <2> HIDE DEF next, pNext, acts
  <2> QED BY <1>1, <1>3, <2>1, <2>2, ReadAgrees
<1>4. CASE Opaque(m) /\ Read(TakesLiteral(m), pNext, acts)
  <2>1. InFlags(p) => Loose(at)
    BY <1>1, <1>2, <1>4 DEF InFlags, Opaque
  <2>2. Loose(at) \/ TakesLiteral(m) = pNext \/ pNext = "rest"
    BY <1>1, <1>2, <2>1
  <2>3. \A x \in acts : x \in Entry.flags \/ Loose(at)
    BY <2>1
  <2> HIDE DEF pNext, acts
  <2> QED BY <1>1, <1>4, <2>2, <2>3, ReadAgrees
<1> QED BY <1>3, <1>4, RejectAgrees DEF LongFlag

\* The one step the readers part at: getopt ends a word at a letter with an
\* optional value, the matcher goes on to the next letter.
LEMMA ShortFlagAgrees ==
  ASSUME ShapeInv, AgreeInv, NEW o \in Opts, NEW last \in BOOLEAN,
         ShortFlag(o, last)
  PROVE  AgreeInv'
<1> DEFINE pNext == IF InFlags(p) THEN GetoptNext(o, last) ELSE Within(p, last)
           acts  == IF InFlags(p) THEN {o} ELSE {}
<1>1. Matching /\ (Loose(at) \/ m = p \/ p = "rest")
  BY DEF ShortFlag, AgreeInv, Agree
<1>2. Within("rest", last) = "rest" /\ ~InFlags("rest")
  BY DEF TakesLiteral, Within, InFlags
<1>3. CASE /\ InFlags(m) /\ findShort(o) /\ Read(shortNext(o, last), pNext, acts)
           /\ clustered' = IF InFlags(p) /\ ~last /\ mayHaveValue(o)
                             THEN clustered \cup {at} ELSE clustered
  <2>1. InFlags(p) => \/ at \in clustered'
                      \/ shortNext(o, last) = GetoptNext(o, last)
    <3>1. CASE ~last /\ mayHaveValue(o)
      BY <1>3, <3>1
    <3>2. CASE last \/ ~mayHaveValue(o)
      BY <3>2, TableAssumption DEF shortNext, GetoptNext, Arities, mayHaveValue
    <3> QED BY <3>1, <3>2
  <2>2. \/ Loose(at) \/ at \in clustered'
        \/ shortNext(o, last) = pNext \/ pNext = "rest"
    BY <1>1, <1>2, <1>3, <2>1
  <2>3. \A x \in acts : x \in Entry.flags \/ Loose(at)
    BY <1>3 DEF findShort
  <2>4. clustered \subseteq clustered'
    BY <1>3
  <2> HIDE DEF pNext, acts
  <2> QED BY <1>1, <1>3, <2>2, <2>3, <2>4, ReadAgrees
<1>4. CASE Opaque(m) /\ Read(Within(m, last), pNext, acts) /\ UNCHANGED clustered
  <2>1. InFlags(p) => Loose(at)
    BY <1>1, <1>2, <1>4 DEF InFlags, Opaque
  <2>2. Loose(at) \/ Within(m, last) = pNext \/ pNext = "rest"
    BY <1>1, <1>2, <2>1
  <2>3. \A x \in acts : x \in Entry.flags \/ Loose(at)
    BY <2>1
  <2> HIDE DEF pNext, acts
  <2> QED BY <1>1, <1>4, <2>2, <2>3, ReadAgrees
<1> QED BY <1>3, <1>4, RejectAgrees DEF ShortFlag

LEMMA OffsetAgrees ==
  ASSUME ShapeInv, AgreeInv, Offset
  PROVE  AgreeInv'
<1> DEFINE pNext == IF InFlags(p) THEN "flags" ELSE TakesLiteral(p)
<1>1. /\ Matching /\ (Loose(at) \/ m = p \/ p = "rest")
      /\ InFlags(m) /\ Read("flags", pNext, {}) /\ clustered' = clustered
  BY DEF Offset, AgreeInv, Agree, InFlags
<1>2. Loose(at) \/ "flags" = pNext \/ pNext = "rest"
  BY <1>1 DEF TakesLiteral, InFlags
<1> HIDE DEF pNext
<1> QED BY <1>1, <1>2, ReadAgrees

LEMMA WordAgrees ==
  ASSUME ShapeInv, AgreeInv, NEW w, NEW safe \in BOOLEAN, Word(w, safe)
  PROVE  AgreeInv'
<1> DEFINE pNext == IF InFlags(p) THEN "flags" ELSE TakesLiteral(p)
           Operand(mNext) == Read(mNext, pNext, {}) /\ UNCHANGED <<within, clustered>>
<1>1. Matching /\ (Loose(at) \/ m = p \/ p = "rest")
  BY DEF Word, AgreeInv, Agree
<1>2. TakesLiteral("rest") = "rest" /\ ~InFlags("rest")
  BY DEF TakesLiteral, InFlags
<1>3. CASE Dispatch(w) \/ Reject
  BY <1>1, <1>3, DispatchAgrees, RejectAgrees
<1>4. ASSUME NEW mNext, Operand(mNext),
             m = p => Loose(at) \/ mNext = pNext
      PROVE  AgreeInv'
  <2>1. Loose(at) \/ mNext = pNext \/ pNext = "rest"
    BY <1>1, <1>2, <1>4
  <2>2. Read(mNext, pNext, {}) /\ clustered' = clustered
    BY <1>4
  <2> HIDE DEF pNext, Operand
  <2> QED BY <1>1, <2>1, <2>2, ReadAgrees
<1>5. CASE Program(safe) /\ (m = "program" \/ InFlags(m))
  <2> DEFINE fNext == IF InFlags(p) THEN "files" ELSE TakesLiteral(p)
  <2>1. CASE Read("files", fNext, {}) /\ UNCHANGED clustered
    <3>1. Loose(at) \/ "files" = fNext \/ fNext = "rest"
      BY <1>1, <1>2, <1>5 DEF TakesLiteral
    <3> HIDE DEF fNext
    <3> QED BY <1>1, <2>1, <3>1, ReadAgrees
  <2> QED BY <1>3, <1>5, <2>1 DEF Program
<1>6. CASE m = "value" /\ Operand("flags")
  BY <1>4, <1>6 DEF TakesLiteral, InFlags
<1>7. CASE m = "files" /\ Operand("files")
  BY <1>4, <1>7 DEF TakesLiteral, InFlags
<1>8. CASE m = "rest" /\ Operand("rest")
  BY <1>4, <1>8 DEF TakesLiteral, InFlags
<1>9. CASE InFlags(m) /\ (Operand("flags") \/ Operand(afterOperand))
  BY <1>4, <1>9 DEF afterOperand, Loose, Entry
<1>10. CASE dispatchSubcommand(w) \/ wrappedCommand(w) \/ classifyWrapped(w)
  BY <1>3, <1>10 DEF dispatchSubcommand, wrappedCommand, classifyWrapped
<1>11. style \in Styles
  BY EntryType DEF ShapeInv
<1> QED BY <1>3, <1>5, <1>6, <1>7, <1>8, <1>9, <1>10, <1>11 DEF Word, Styles

LEMMA SubstitutedAgrees ==
  ASSUME AgreeInv, Substituted
  PROVE  AgreeInv'
<1>1. CASE Reject
  BY <1>1, RejectAgrees
<1>2. CASE Entry.dataSafe /\ UNCHANGED <<at, acted, clustered, verdict>>
  BY <1>2 DEF AgreeInv, Agree, OptionsVetted, NothingLeftOpen, Matching, Entry, Loose,
              Substituted
<1> QED BY <1>1, <1>2 DEF Substituted

LEMMA EndAgrees ==
  ASSUME AgreeInv, End
  PROVE  AgreeInv'
<1>1. CASE Reject
  BY <1>1, RejectAgrees
<1>2. CASE Complete /\ verdict' = "accepted" /\ UNCHANGED <<at, m, p, acted, clustered>>
  BY <1>2 DEF AgreeInv, Agree, OptionsVetted, NothingLeftOpen, Matching, Entry,
              End, Complete, InFlags, Loose
<1> QED BY <1>1, <1>2 DEF End

LEMMA AgreeInductive == Init /\ [][Next]_vars => []AgreeInv
<1>1. Init => AgreeInv
  BY DEF Init, AgreeInv, Agree, OptionsVetted, NothingLeftOpen, Matching
<1>2. ShapeInv /\ AgreeInv /\ [Next]_vars => AgreeInv'
  <2> SUFFICES ASSUME ShapeInv, AgreeInv, [Next]_vars
               PROVE  AgreeInv'
    OBVIOUS
  <2>1. CASE EndOfFlags
    BY <2>1, EndOfFlagsAgrees
  <2>2. CASE \E o \in Opts, hasVal \in BOOLEAN : LongFlag(o, hasVal)
    BY <2>2, LongFlagAgrees
  <2>3. CASE \E o \in Opts, last \in BOOLEAN : ShortFlag(o, last)
    BY <2>3, ShortFlagAgrees
  <2>4. CASE Offset
    BY <2>4, OffsetAgrees
  <2>5. CASE \E w \in Specs \cup {Other}, safe \in BOOLEAN : Word(w, safe)
    BY <2>5, WordAgrees
  <2>6. CASE Substituted
    BY <2>6, SubstitutedAgrees
  <2>7. CASE End
    BY <2>7, EndAgrees
  <2>8. CASE UNCHANGED vars
    BY <2>8 DEF vars, AgreeInv, Agree, OptionsVetted, NothingLeftOpen, Matching,
                Entry, Loose
  <2> QED BY <2>1, <2>2, <2>3, <2>4, <2>5, <2>6, <2>7, <2>8 DEF Next
<1> QED BY <1>1, <1>2, ShapeInductive, PTL

\* No program acts on an option its entry does not list, unless it is safe
\* under any argv, or letters of its own are read in two ways ("an unwhitelisted
\* flag falls through wherever it lands", spec.go), for every whitelist.
THEOREM OptionsAreVetted == Spec => []OptionsVetted
<1>1. AgreeInv => OptionsVetted
  BY DEF AgreeInv
<1> QED BY <1>1, AgreeInductive, PTL DEF Spec

\* No other accepted program waits for a value or a name, for every whitelist
\* (spec.go, matchGNU and its siblings).
THEOREM NothingIsLeftOpen == Spec => []NothingLeftOpen
<1>1. AgreeInv => NothingLeftOpen
  BY DEF AgreeInv
<1> QED BY <1>1, AgreeInductive, PTL DEF Spec

-----------------------------------------------------------------------------
(***************************************************************************)
(* CommandMatch.                                                           *)
(***************************************************************************)
\* The parts passed over by a walk into the parts named.
Over(parts, into) == {part \in parts : \A i \in DOMAIN into : into[i] # part}

\* A program with a part that acts, or may, has been refused, or the run has
\* failed loud; and a walk is under way only while the command is matched.
CommandInv ==
  /\ impure => walk \in {"unsafe", "loud"} \/ verdict = "rejected"
  /\ walk # "idle" => verdict = "matching"

-----------------------------------------------------------------------------
\* Of a statement that is not refused the walk passes nothing over.
LEMMA StmtTable ==
  ASSUME NEW kind \in DOMAIN walkedStmt, NEW parts \in SUBSET StmtParts[kind],
         ~refusedStmt(kind, parts)
  PROVE  Over(parts, walkedStmt[kind]) = {} /\ ~Acts(kind, parts, "pure")
BY DEF walkedStmt, StmtParts, refusedStmt, Over, Acts

\* Of an expression that is not refused the walk passes nothing over.
LEMMA ExprTable ==
  ASSUME NEW kind \in DOMAIN walkedExpr, NEW parts \in SUBSET ExprParts[kind],
         NEW builtin \in Builtins, ~refusedExpr(kind, parts, builtin)
  PROVE  Over(parts, walkedExpr[kind]) = {} /\ ~Acts(kind, parts, builtin)
BY DEF walkedExpr, ExprParts, refusedExpr, Over, Acts, Builtins,
       awkBuiltinAllowed

LEMMA PartsOfSubset ==
  ASSUME NEW all, NEW parts \in PartsOf(all)
  PROVE  parts \in SUBSET all
BY DEF PartsOf

\* A step of the walk leaves the program as pure as it was, or ends the walk.
LEMMA WalkKeepsPurity ==
  ASSUME AwkWalk
  PROVE  /\ walk = "walking"
         /\ impure' => impure \/ walk' \in {"unsafe", "loud"}
<1>1. CASE walkAwkActions \/ walkAwkStmts \/ walkAwkExprs
  BY <1>1 DEF walkAwkActions, walkAwkStmts, walkAwkExprs, walkList, NextIs
<1>2. CASE walkAwkStmt
  <2>1. PICK kind \in DOMAIN StmtParts : \E parts \in PartsOf(StmtParts[kind]) :
          Visit(kind, parts, "pure", kind \in DOMAIN walkedStmt,
                refusedStmt(kind, parts),
                IF kind \in DOMAIN walkedStmt THEN walkedStmt[kind] ELSE << >>)
    BY <1>2 DEF walkAwkStmt
  <2>2. PICK parts \in PartsOf(StmtParts[kind]) :
          Visit(kind, parts, "pure", kind \in DOMAIN walkedStmt,
                refusedStmt(kind, parts),
                IF kind \in DOMAIN walkedStmt THEN walkedStmt[kind] ELSE << >>)
    BY <2>1
  <2>3. kind \in DOMAIN walkedStmt /\ ~refusedStmt(kind, parts) =>
          Over(parts, walkedStmt[kind]) = {} /\ ~Acts(kind, parts, "pure")
    BY StmtTable, PartsOfSubset
  <2>4. walk = "walking"
    BY <1>2 DEF walkAwkStmt, NextIs
  <2>5. CASE kind \in DOMAIN walkedStmt
    BY <2>2, <2>3, <2>4, <2>5 DEF Visit, Over
  <2>6. CASE kind \notin DOMAIN walkedStmt
    BY <2>2, <2>4, <2>6 DEF Visit
  <2> QED BY <2>5, <2>6
<1>3. CASE walkAwkExpr
  <2>1. PICK kind \in DOMAIN ExprParts : \E parts \in PartsOf(ExprParts[kind]) :
          \E builtin \in IF kind = "CallExpr" THEN Builtins ELSE {"pure"} :
            Visit(kind, parts, builtin, kind \in DOMAIN walkedExpr,
                  refusedExpr(kind, parts, builtin),
                  IF kind \in DOMAIN walkedExpr THEN walkedExpr[kind] ELSE << >>)
    BY <1>3 DEF walkAwkExpr
  <2>2. PICK parts \in PartsOf(ExprParts[kind]) :
          \E builtin \in IF kind = "CallExpr" THEN Builtins ELSE {"pure"} :
            Visit(kind, parts, builtin, kind \in DOMAIN walkedExpr,
                  refusedExpr(kind, parts, builtin),
                  IF kind \in DOMAIN walkedExpr THEN walkedExpr[kind] ELSE << >>)
    BY <2>1
  <2>3. PICK builtin \in Builtins :
          Visit(kind, parts, builtin, kind \in DOMAIN walkedExpr,
                refusedExpr(kind, parts, builtin),
                IF kind \in DOMAIN walkedExpr THEN walkedExpr[kind] ELSE << >>)
    BY <2>2 DEF Builtins
  <2>4. kind \in DOMAIN walkedExpr /\ ~refusedExpr(kind, parts, builtin) =>
          Over(parts, walkedExpr[kind]) = {} /\ ~Acts(kind, parts, builtin)
    BY ExprTable, PartsOfSubset
  <2>5. walk = "walking"
    BY <1>3 DEF walkAwkExpr, NextIs
  <2>6. CASE kind \in DOMAIN walkedExpr
    BY <2>3, <2>4, <2>5, <2>6 DEF Visit, Over
  <2>7. CASE kind \notin DOMAIN walkedExpr
    BY <2>3, <2>5, <2>7 DEF Visit
  <2> QED BY <2>6, <2>7
<1>4. CASE walkedAll
  BY <1>4 DEF walkedAll
<1> QED BY <1>1, <1>2, <1>3, <1>4 DEF AwkWalk

-----------------------------------------------------------------------------
\* Reading a word, the program included, is a step of FlagMatch; the walk is
\* none.
LEMMA StepsAreFlagMatch ==
  ASSUME [CommandNext]_<<vars, awkVars>>
  PROVE  [Next]_vars
<1>1. CASE ReadProgram \/ WalkProgram
  BY <1>1 DEF ReadProgram, WalkProgram
<1>2. CASE MatchProgram
  <2>1. (walk = "safe") \in BOOLEAN
    OBVIOUS
  <2> QED BY <1>2, <2>1 DEF MatchProgram, DashWord, Next
<1>3. CASE MatchWord
  BY <1>3 DEF MatchWord, DashWord, Next
<1>4. CASE UNCHANGED <<vars, awkVars>>
  BY <1>4
<1> QED BY <1>1, <1>2, <1>3, <1>4 DEF CommandNext

\* Words are read only while the command is matched.
LEMMA WordsAreMatched ==
  ASSUME Next
  PROVE  Matching
BY DEF Next, EndOfFlags, LongFlag, ShortFlag, Offset, Word, Substituted, End

LEMMA CommandInductive == CommandSpec => []CommandInv
<1>1. CommandInit => CommandInv
  BY DEF CommandInit, AwkInit, CommandInv
<1>2. CommandInv /\ [CommandNext]_<<vars, awkVars>> => CommandInv'
  <2> SUFFICES ASSUME CommandInv, [CommandNext]_<<vars, awkVars>>
               PROVE  CommandInv'
    OBVIOUS
  <2>1. CASE ReadProgram
    BY <2>1 DEF ReadProgram, ProgramExpected, Matching, classifyAwkProgram, vars,
                CommandInv
  <2>2. CASE WalkProgram
    BY <2>2, WalkKeepsPurity DEF WalkProgram, vars, CommandInv
  <2>3. CASE MatchProgram
    <3>1. Next
      <4>1. (walk = "safe") \in BOOLEAN
        OBVIOUS
      <4> QED BY <2>3, <4>1 DEF MatchProgram, DashWord, Next
    <3>2. verdict = "matching"
      BY <3>1, WordsAreMatched DEF Matching
    <3> QED BY <2>3, <3>2 DEF MatchProgram, matchAwk, CommandInv
  <2>4. CASE MatchWord
    <3>1. verdict = "matching"
      BY <2>4, WordsAreMatched DEF MatchWord, DashWord, Next, Matching
    <3> QED BY <2>4, <3>1 DEF MatchWord, awkVars, CommandInv
  <2>5. CASE UNCHANGED <<vars, awkVars>>
    BY <2>5 DEF vars, awkVars, CommandInv
  <2> QED BY <2>1, <2>2, <2>3, <2>4, <2>5 DEF CommandNext
<1> QED BY <1>1, <1>2, PTL DEF CommandSpec

\* The program of an accepted awk command neither runs a command nor writes a
\* file in any part of it (awk.go, classifyAwkProgram), whatever its size.
THEOREM ProgramsAreVetted == CommandSpec => []ProgramsVetted
<1>1. CommandInv => ProgramsVetted
  BY DEF CommandInv, ProgramsVetted
<1> QED BY <1>1, CommandInductive, PTL

\* A command with an awk program is matched as FlagMatch says, with the walk's
\* answer for what FlagMatch leaves open (spec.go, matchAwk).
THEOREM ImplementsFlagMatch == CommandSpec => Spec
<1>1. CommandInit => Init
  BY DEF CommandInit
<1> QED BY <1>1, StepsAreFlagMatch, PTL DEF CommandSpec, Spec

\* So what is proved of FlagMatch holds of it: every command line is vetted
\* whatever the whitelist (spec.go, commandSpec and ArgvDataSafe), a wrapped or
\* awk command among them.
THEOREM CommandsAreVetted ==
  CommandSpec => [](OptionsVetted /\ NothingLeftOpen /\ UnseenOnlyToDataSafe)
BY ImplementsFlagMatch, OptionsAreVetted, NothingIsLeftOpen, UnseenIsSafe, PTL
=============================================================================
