---------------------------- MODULE DoctorProofs ----------------------------
(***************************************************************************)
(* What Log and Doctor satisfy for any number of parallel runs of the hook *)
(* and whatever becomes of their sinks: no record is doubled, damage to    *)
(* the file does not spread, blocked calls are found wherever what took    *)
(* them can be read, an old registration under which the newest run logged *)
(* is called stale, and its update is noticed and stays so.                *)
(***************************************************************************)
EXTENDS Doctor, SequenceTheorems, TLAPS

Pieces == [what : {"text", "cut", "stub", "newline"}, of : SUBSET LogRecords]

Runs == [form : {"legacy", "hook"}, at : {"start", "next", "journal", "file"},
         left : Seq(Kinds), record : SUBSET LogRecords,
         writes : {<< >>} \cup {fileWrites(r) : r \in LogRecords}]

Shape == run \in [Hooks -> Runs] /\ file \in Seq(Pieces)

InFile(r) == \E i \in 1..Len(file) : r \in file[i].of

Traceless(r) == r \notin journal /\ r \notin torn /\ ~InFile(r)

\* A run in the middle of a record has that one in hand, which has left no
\* trace yet; and no run makes a record of one kind twice.
HandsOf(h) ==
  /\ \A r \in run[h].record :
       /\ run[h].record = {r} /\ r.hook = h
       /\ run[h].writes = fileWrites(r)
       /\ Traceless(r)
  /\ \A r \in made : r.hook = h =>
       /\ run[h].at # "start"
       /\ \A i \in 1..Len(run[h].left) : run[h].left[i] # r.kind
  /\ \A i, j \in 1..Len(run[h].left) : run[h].left[i] = run[h].left[j] => i = j

Hands == \A h \in Hooks : HandsOf(h)

\* Every record is somewhere.
Kept ==
  \A r \in made :
    r \in journal \/ r \in lost \/ InFile(r) \/ \E h \in Hooks : r \in run[h].record

\* The file is a sequence of lines: a text that was not cut is followed by a
\* line end, and what is not preceded by one follows a cut.
Lines ==
  \A i \in 1..Len(file) :
    /\ file[i].what = "newline" => file[i].of = {}
    /\ file[i].what # "newline" => \E r \in made : file[i].of = {r}
    /\ file[i].what \in {"cut", "stub"} => file[i].of \subseteq torn
    /\ file[i].what = "text" /\ file[i].of \cap torn = {} =>
         i < Len(file) /\ file[i + 1].what = "newline"
    /\ i > 1 /\ file[i].what # "newline" =>
         file[i - 1].what = "newline" \/ file[i - 1].of \cap torn # {}

IInv == TypeOK /\ Shape /\ Hands /\ Kept /\ OneSinkEach /\ Lines

-----------------------------------------------------------------------------
\* The one write of a record.
LEMMA WriteOfRecord ==
  ASSUME NEW r
  PROVE  /\ fileWrites(r) # << >>
         /\ Head(fileWrites(r)) = <<Text(r), NewLine>>
         /\ Tail(fileWrites(r)) = << >>
BY DEF fileWrites

\* The records of a run under the old registration, one of each kind.
LEMMA LegacyBody ==
  ASSUME NEW body \in Bodies
  PROVE  LET s == <<"deprecated_invocation">> \o body
         IN  /\ s \in Seq(Kinds) /\ body \in Seq(Kinds)
             /\ s # << >> /\ Head(s) = "deprecated_invocation"
             /\ \A i \in 1..Len(s) : s[i] = "deprecated_invocation" => i = 1
             /\ \A i \in 1..Len(body) : body[i] # "deprecated_invocation"
             /\ \A i, j \in 1..Len(s) : s[i] = s[j] => i = j
             /\ \A i, j \in 1..Len(body) : body[i] = body[j] => i = j
<1> DEFINE s == <<"deprecated_invocation">> \o body
<1>1. /\ body \in Seq(Kinds \ {"deprecated_invocation"})
      /\ \A i, j \in 1..Len(body) : body[i] = body[j] => i = j
  BY BodiesAssumption
<1>2. body \in Seq(Kinds) /\ <<"deprecated_invocation">> \in Seq(Kinds)
  <2>1. "deprecated_invocation" \in Kinds
    BY DEF Kinds
  <2> QED BY <1>1, <2>1, SeqMonotonic
<1>3. \A i \in 1..Len(body) : body[i] # "deprecated_invocation"
  BY <1>1, ElementOfSeq
<1>4. /\ s \in Seq(Kinds)
      /\ Len(s) = 1 + Len(body)
      /\ \A i \in 1..Len(s) : s[i] = IF i <= 1 THEN "deprecated_invocation"
                                     ELSE body[i - 1]
  BY <1>2, ConcatProperties
<1>5. Len(body) \in Nat
  BY <1>2, LenProperties
<1>6. s[1] = "deprecated_invocation" /\ s # << >>
  BY <1>4, <1>5
<1>7. \A i \in 1..Len(s) : i # 1 => i - 1 \in 1..Len(body) /\ s[i] = body[i - 1]
  BY <1>4, <1>5
<1>8. \A i \in 1..Len(s) : s[i] = "deprecated_invocation" => i = 1
  BY <1>3, <1>7
<1>9. \A i, j \in 1..Len(s) : s[i] = s[j] => i = j
  <2> SUFFICES ASSUME NEW i \in 1..Len(s), NEW j \in 1..Len(s), s[i] = s[j]
               PROVE  i = j
    OBVIOUS
  <2>1. CASE i = 1 \/ j = 1
    BY <1>6, <1>8, <2>1
  <2>2. CASE i # 1 /\ j # 1
    <3>1. i - 1 = j - 1
      BY <1>1, <1>7, <2>2
    <3> QED BY <3>1
  <2> QED BY <2>1, <2>2
<1>10. Head(s) = "deprecated_invocation"
  BY <1>4, <1>6, HeadTailProperties
<1> QED BY <1>1, <1>2, <1>3, <1>4, <1>6, <1>8, <1>9, <1>10

-----------------------------------------------------------------------------
(***************************************************************************)
(* What a step may change, seen from one run.                              *)
(***************************************************************************)

\* Only h moves, and leaves traces of nothing but what it has in hand.
OnlyMoves(h) ==
  /\ \A g \in Hooks : g # h => run'[g] = run[g]
  /\ made \subseteq made' /\ \A r \in made' : r \in made \/ r.hook = h
  /\ \A r \in LogRecords :
       r \notin run[h].record /\ Traceless(r) => Traceless(r)'

LEMMA RunFields ==
  ASSUME Shape, NEW h \in Hooks
  PROVE  /\ run[h] \in Runs
         /\ run[h].form \in {"legacy", "hook"}
         /\ run[h].at \in {"start", "next", "journal", "file"}
         /\ run[h].left \in Seq(Kinds) /\ Len(run[h].left) \in Nat
         /\ run[h].record \subseteq LogRecords
BY LenProperties DEF Shape, Runs

\* The others keep their hands.
LEMMA OthersKeepHands ==
  ASSUME IInv, NEW h \in Hooks, OnlyMoves(h), NEW g \in Hooks, g # h
  PROVE  HandsOf(g)'
<1>1. run'[g] = run[g] /\ HandsOf(g) /\ HandsOf(h)
  BY DEF IInv, Hands, OnlyMoves
<1>2. ASSUME NEW r \in run[g].record
      PROVE  Traceless(r)'
  <2>1. r.hook = g /\ Traceless(r)
    BY <1>1 DEF HandsOf
  <2>2. r \in LogRecords
    BY RunFields DEF IInv
  <2>3. r \notin run[h].record
    BY <1>1, <2>1 DEF HandsOf
  <2> QED BY <2>1, <2>2, <2>3 DEF OnlyMoves
<1>3. \A r \in made' : r.hook = g => r \in made
  BY DEF OnlyMoves
<1> QED BY <1>1, <1>2, <1>3 DEF HandsOf

\* A step that leaves the sinks alone leaves everything traceless so.
LEMMA SinksUntouched ==
  ASSUME UNCHANGED <<journal, file, torn>>
  PROVE  /\ \A r : Traceless(r)' <=> Traceless(r)
         /\ \A r : InFile(r)' <=> InFile(r)
         /\ OneSinkEach' <=> OneSinkEach
BY DEF Traceless, InFile, OneSinkEach

\* Lines stay lines as more records are made.
LEMMA LinesKept ==
  ASSUME Lines, made \subseteq made', UNCHANGED <<file, torn>>
  PROVE  Lines'
BY DEF Lines

\* The file keeps its type as more records are made.
LEMMA FileTyped ==
  ASSUME TypeOK, made \subseteq made', UNCHANGED file
  PROVE  file' \in Seq([what : {"text", "cut", "stub", "newline"}, of : SUBSET made'])
<1>1. [what : {"text", "cut", "stub", "newline"}, of : SUBSET made]
        \subseteq [what : {"text", "cut", "stub", "newline"}, of : SUBSET made']
  OBVIOUS
<1> QED BY <1>1, SeqMonotonic DEF TypeOK

-----------------------------------------------------------------------------
LEMMA Initially == Init => IInv
<1> SUFFICES ASSUME Init PROVE IInv
  OBVIOUS
<1>1. Len(file) = 0 /\ 1..Len(file) = {}
  BY DEF Init
<1>2. << >> \in Seq(Kinds) /\ Len(<< >>) = 0 /\ file \in Seq(Pieces)
      /\ file \in Seq([what : {"text", "cut", "stub", "newline"}, of : SUBSET made])
  BY EmptySeq DEF Init
<1>3. \A h \in Hooks : /\ run[h].form = "hook" /\ run[h].at = "start"
                       /\ run[h].left = << >> /\ run[h].record = {}
  BY DEF Init, NotStarted
<1>4. TypeOK
  <2>1. clock \in 0..MaxTime
    BY MaxTimeAssumption DEF Init
  <2>2. \A h \in Hooks :
          /\ run[h].form \in {"legacy", "hook"}
          /\ run[h].at \in {"start", "next", "journal", "file"}
          /\ run[h].left \in Seq(Kinds)
          /\ run[h].record \subseteq made
          /\ run[h].at \in {"journal", "file"} <=> run[h].record # {}
    BY <1>2, <1>3
  <2> QED BY <1>2, <2>1, <2>2 DEF Init, TypeOK
<1>5. Shape
  BY <1>2 DEF Init, Shape, Runs, NotStarted
<1>6. Hands
  <2>1. made = {}
    BY DEF Init
  <2>2. ASSUME NEW h \in Hooks PROVE HandsOf(h)
    <3>1. run[h].record = {} /\ 1..Len(run[h].left) = {}
      BY <1>2, <1>3
    <3> QED BY <2>1, <3>1 DEF HandsOf
  <2> QED BY <2>2 DEF Hands
<1>7. Kept /\ OneSinkEach /\ Lines
  BY <1>1 DEF Kept, OneSinkEach, Lines, Init
<1> QED BY <1>4, <1>5, <1>6, <1>7 DEF IInv

\* A run starts with the records it is to make.
LEMMA StartStep ==
  ASSUME IInv, NEW h \in Hooks, Start(h)
  PROVE  IInv'
<1>1. PICK body \in Bodies :
        run' = [run EXCEPT
          ![h].form = form,
          ![h].at   = "next",
          ![h].left = IF form = "legacy" THEN <<"deprecated_invocation">> \o body
                      ELSE body]
  BY DEF Start
<1> DEFINE left == IF form = "legacy" THEN <<"deprecated_invocation">> \o body
                   ELSE body
<1>2. /\ run[h].at = "start"
      /\ UNCHANGED <<clock, form, sink, journal, file, torn, made, lost>>
  BY DEF Start, env
<1>3. left \in Seq(Kinds) /\ \A i, j \in 1..Len(left) : left[i] = left[j] => i = j
  BY LegacyBody
<1>4. run[h] \in Runs /\ run \in [Hooks -> Runs] /\ form \in {"legacy", "hook"}
  BY RunFields DEF IInv, Shape, TypeOK
<1>5. /\ run'[h] = [run[h] EXCEPT !.form = form, !.at = "next", !.left = left]
      /\ \A g \in Hooks : g # h => run'[g] = run[g]
  BY <1>1, <1>4
<1>6. run' \in [Hooks -> Runs]
  BY <1>1, <1>3, <1>4 DEF Runs
<1>7. run[h].record = {}
  BY <1>2 DEF IInv, TypeOK
<1>8. /\ run'[h].form = form /\ run'[h].at = "next" /\ run'[h].left = left
      /\ run'[h].record = {}
  BY <1>4, <1>5, <1>7 DEF Runs
<1>9. TypeOK'
  <2>1. ASSUME NEW g \in Hooks
        PROVE  /\ run'[g].form \in {"legacy", "hook"}
               /\ run'[g].at \in {"start", "next", "journal", "file"}
               /\ run'[g].left \in Seq(Kinds)
               /\ run'[g].record \subseteq made
               /\ run'[g].at \in {"journal", "file"} <=> run'[g].record # {}
    <3>1. CASE g = h
      BY <1>3, <1>4, <1>8, <3>1
    <3>2. CASE g # h
      BY <1>5, <3>2 DEF IInv, TypeOK
    <3> QED BY <3>1, <3>2
  <2> QED BY <1>2, <2>1 DEF IInv, TypeOK
<1>10. Shape'
  BY <1>2, <1>6 DEF IInv, Shape
<1>11. OnlyMoves(h)
  BY <1>2, <1>5, SinksUntouched DEF OnlyMoves
<1>12. HandsOf(h)'
  <2>1. \A r \in made : r.hook # h
    BY <1>2 DEF IInv, Hands, HandsOf
  <2> QED BY <1>2, <1>3, <1>8, <2>1 DEF HandsOf
<1>13. Hands'
  BY <1>11, <1>12, OthersKeepHands DEF Hands
<1>14. Kept' /\ OneSinkEach' /\ Lines'
  <2>1. \A g \in Hooks : run[g].record \subseteq run'[g].record
    BY <1>5, <1>7
  <2> QED BY <1>2, <2>1, SinksUntouched, LinesKept DEF IInv, Kept
<1> QED BY <1>9, <1>10, <1>13, <1>14 DEF IInv

\* Time passes, or the registration is replaced, or nothing happens.
LEMMA EnvironmentStep ==
  ASSUME IInv, Tick \/ UpdateRegistration \/ UNCHANGED vars
  PROVE  IInv'
<1>1. UNCHANGED <<sink, journal, file, run, torn, made, lost>>
  BY DEF Tick, UpdateRegistration, vars
<1>2. clock' \in 0..MaxTime /\ form' \in {"legacy", "hook"}
  BY MaxTimeAssumption DEF Tick, UpdateRegistration, vars, IInv, TypeOK
<1>3. TypeOK' /\ Shape'
  BY <1>1, <1>2 DEF IInv, TypeOK, Shape
<1>4. Hands' /\ Kept' /\ OneSinkEach' /\ Lines'
  BY <1>1 DEF IInv, Hands, HandsOf, Traceless, InFile, Kept, OneSinkEach, Lines
<1> QED BY <1>3, <1>4 DEF IInv

\* A run makes its next record and has it in hand.
LEMMA FormatStep ==
  ASSUME IInv, NEW h \in Hooks, formatRecord(h)
  PROVE  IInv'
<1> DEFINE kind == Head(run[h].left)
<1>1. PICK huge \in BOOLEAN :
        LET r == [hook |-> h, kind |-> kind, ts |-> clock, huge |-> huge]
        IN  /\ huge => mayBeHuge(kind)
            /\ made' = made \cup {r}
            /\ run' = [run EXCEPT
                 ![h].left   = Tail(@),
                 ![h].record = {r},
                 ![h].at     = IF sink = "file" THEN "file" ELSE "journal",
                 ![h].writes = fileWrites(r)]
  BY DEF formatRecord
<1> DEFINE r == [hook |-> h, kind |-> kind, ts |-> clock, huge |-> huge]
           place == IF sink = "file" THEN "file" ELSE "journal"
<1>2. /\ run[h].at = "next" /\ run[h].left # << >>
      /\ UNCHANGED <<clock, form, sink, journal, file, torn, lost>>
  BY DEF formatRecord, env
<1>3. run[h] \in Runs /\ run \in [Hooks -> Runs] /\ run[h].left \in Seq(Kinds)
  BY RunFields DEF IInv, Shape
<1>4. /\ kind \in Kinds /\ Tail(run[h].left) \in Seq(Kinds)
      /\ Len(Tail(run[h].left)) = Len(run[h].left) - 1
      /\ \A i \in 1..Len(Tail(run[h].left)) : Tail(run[h].left)[i] = run[h].left[i + 1]
      /\ kind = run[h].left[1]
      /\ Len(run[h].left) \in Nat \ {0}
  BY <1>2, <1>3, HeadTailProperties, LenProperties, EmptySeq
<1>5. /\ r \in LogRecords
      /\ r.huge => r.kind \notin {"fallthrough", "deprecated_invocation"}
  <2>1. clock \in Nat
    BY MaxTimeAssumption DEF IInv, TypeOK
  <2> QED BY <1>1, <1>4, <2>1 DEF LogRecords, mayBeHuge
<1>6. /\ run' \in [Hooks -> Runs]
      /\ run'[h].form = run[h].form /\ run'[h].at = place
      /\ run'[h].left = Tail(run[h].left) /\ run'[h].record = {r}
      /\ run'[h].writes = fileWrites(r)
      /\ \A g \in Hooks : g # h => run'[g] = run[g]
  <2> DEFINE next == [run[h] EXCEPT !.left = Tail(@), !.record = {r},
                                    !.at = place, !.writes = fileWrites(r)]
  <2>1. run' = [run EXCEPT ![h] = next]
    BY <1>1, <1>3
  <2>2. fileWrites(r) \in {<< >>} \cup {fileWrites(q) : q \in LogRecords}
    BY <1>5
  <2>3. /\ next \in Runs /\ next.form = run[h].form /\ next.at = place
        /\ next.left = Tail(run[h].left) /\ next.record = {r}
        /\ next.writes = fileWrites(r)
    BY <1>3, <1>4, <1>5, <2>2 DEF Runs
  <2> HIDE DEF next
  <2>4. run'[h] = next /\ run' \in [Hooks -> Runs]
        /\ \A g \in Hooks : g # h => run'[g] = run[g]
    BY <1>3, <2>1, <2>3
  <2> QED BY <2>3, <2>4
<1>7. made' = made \cup {r}
  BY <1>1
<1>8. r \notin made
  <2>1. 1 \in 1..Len(run[h].left)
    BY <1>4
  <2> QED BY <1>4, <2>1 DEF IInv, Hands, HandsOf
<1>9. Traceless(r) /\ run[h].record = {}
  <2>1. r \notin journal /\ r \notin torn /\ run[h].record = {}
    BY <1>2, <1>8 DEF IInv, TypeOK
  <2>2. ~InFile(r)
    BY <1>8 DEF InFile, IInv, Lines
  <2> QED BY <2>1, <2>2 DEF Traceless
<1>10. TypeOK'
  <2>1. file' \in Seq([what : {"text", "cut", "stub", "newline"}, of : SUBSET made'])
    BY <1>2, <1>7, FileTyped DEF IInv
  <2>2. \A g \in Hooks :
          /\ run'[g].form \in {"legacy", "hook"}
          /\ run'[g].at \in {"start", "next", "journal", "file"}
          /\ run'[g].left \in Seq(Kinds)
          /\ run'[g].record \subseteq made'
          /\ run'[g].at \in {"journal", "file"} <=> run'[g].record # {}
    <3> SUFFICES ASSUME NEW g \in Hooks
                 PROVE  /\ run'[g].form \in {"legacy", "hook"}
                        /\ run'[g].at \in {"start", "next", "journal", "file"}
                        /\ run'[g].left \in Seq(Kinds)
                        /\ run'[g].record \subseteq made'
                        /\ run'[g].at \in {"journal", "file"} <=> run'[g].record # {}
      OBVIOUS
    <3>1. CASE g = h
      BY <1>4, <1>6, <1>7, <3>1 DEF IInv, TypeOK
    <3>2. CASE g # h
      BY <1>6, <1>7, <3>2 DEF IInv, TypeOK
    <3> QED BY <3>1, <3>2
  <2> QED BY <1>2, <1>5, <1>7, <2>1, <2>2 DEF IInv, TypeOK
<1>11. Shape'
  BY <1>2, <1>6 DEF IInv, Shape
<1>12. OnlyMoves(h)
  BY <1>2, <1>6, <1>7, SinksUntouched DEF OnlyMoves
<1>13. HandsOf(h)'
  <2>1. \A q \in run'[h].record : /\ run'[h].record = {q} /\ q.hook = h
                                  /\ run'[h].writes = fileWrites(q)
                                  /\ Traceless(q)'
    BY <1>2, <1>6, <1>9, SinksUntouched
  <2>2. \A q \in made' : q.hook = h =>
          /\ run'[h].at # "start"
          /\ \A i \in 1..Len(run'[h].left) : run'[h].left[i] # q.kind
    <3> SUFFICES ASSUME NEW q \in made', q.hook = h,
                        NEW i \in 1..Len(run'[h].left)
                 PROVE  run'[h].left[i] # q.kind
      BY <1>6
    <3>1. run'[h].left[i] = run[h].left[i + 1] /\ i + 1 \in 1..Len(run[h].left)
      BY <1>4, <1>6
    <3>2. CASE q \in made
      BY <3>1, <3>2 DEF IInv, Hands, HandsOf
    <3>3. CASE q = r
      <4>1. 1 \in 1..Len(run[h].left) /\ i + 1 # 1
        BY <1>4
      <4> QED BY <1>4, <3>1, <3>3, <4>1 DEF IInv, Hands, HandsOf
    <3> QED BY <1>7, <3>2, <3>3
  <2>3. \A i, j \in 1..Len(run'[h].left) :
          run'[h].left[i] = run'[h].left[j] => i = j
    <3> SUFFICES ASSUME NEW i \in 1..Len(run'[h].left), NEW j \in 1..Len(run'[h].left),
                        run'[h].left[i] = run'[h].left[j]
                 PROVE  i = j
      OBVIOUS
    <3>1. /\ i + 1 \in 1..Len(run[h].left) /\ j + 1 \in 1..Len(run[h].left)
          /\ run[h].left[i + 1] = run[h].left[j + 1]
      BY <1>4, <1>6
    <3>2. i + 1 = j + 1
      BY <3>1 DEF IInv, Hands, HandsOf
    <3> QED BY <3>2
  <2> QED BY <2>1, <2>2, <2>3 DEF HandsOf
<1>14. Hands'
  BY <1>12, <1>13, OthersKeepHands DEF Hands
<1>15. Kept'
  <2>1. \A g \in Hooks : run[g].record \subseteq run'[g].record
    BY <1>6, <1>9
  <2> QED BY <1>2, <1>6, <1>7, <2>1, SinksUntouched DEF IInv, Kept
<1>16. OneSinkEach' /\ Lines'
  BY <1>2, <1>7, SinksUntouched, LinesKept DEF IInv
<1> QED BY <1>10, <1>11, <1>14, <1>15, <1>16 DEF IInv

\* A run that has nothing in hand any more, and no new records to make.
Emptied(h) ==
  /\ run'[h] \in Runs
  /\ run'[h].form = run[h].form /\ run'[h].at = "next" /\ run'[h].record = {}
  /\ run'[h].left \in {run[h].left, << >>}
  /\ \A g \in Hooks : g # h => run'[g] = run[g]

\* What holds of every run whose hand was emptied.
LEMMA EmptiedHands ==
  ASSUME IInv, NEW h \in Hooks, Emptied(h), OnlyMoves(h), made' = made,
         run[h].at # "start"
  PROVE  /\ Hands'
         /\ \A g \in Hooks :
              /\ run'[g].form \in {"legacy", "hook"}
              /\ run'[g].at \in {"start", "next", "journal", "file"}
              /\ run'[g].left \in Seq(Kinds)
              /\ run'[g].record \subseteq made'
              /\ run'[g].at \in {"journal", "file"} <=> run'[g].record # {}
<1>1. HandsOf(h)'
  <2>1. CASE run'[h].left = run[h].left
    BY <2>1 DEF Emptied, IInv, Hands, HandsOf
  <2>2. CASE run'[h].left = << >>
    <3>1. 1..Len(run'[h].left) = {}
      BY <2>2
    <3> QED BY <3>1 DEF Emptied, IInv, Hands, HandsOf
  <2> QED BY <2>1, <2>2 DEF Emptied
<1>2. Hands'
  BY <1>1, OthersKeepHands DEF Hands
<1>3. ASSUME NEW g \in Hooks
      PROVE  /\ run'[g].form \in {"legacy", "hook"}
             /\ run'[g].at \in {"start", "next", "journal", "file"}
             /\ run'[g].left \in Seq(Kinds)
             /\ run'[g].record \subseteq made'
             /\ run'[g].at \in {"journal", "file"} <=> run'[g].record # {}
  <2>1. CASE g = h
    BY <2>1 DEF Emptied, Runs
  <2>2. CASE g # h
    BY <2>2 DEF Emptied, IInv, TypeOK
  <2> QED BY <2>1, <2>2
<1> QED BY <1>2, <1>3

LEMMA ReturnEmpties ==
  ASSUME IInv, NEW h \in Hooks, Return(h)
  PROVE  Emptied(h) /\ run' \in [Hooks -> Runs]
<1> DEFINE end == [run[h] EXCEPT !.at = "next", !.record = {}, !.writes = << >>]
<1>1. run \in [Hooks -> Runs] /\ run[h] \in Runs
  BY RunFields DEF IInv, Shape
<1>2. run' = [run EXCEPT ![h] = end]
  BY <1>1 DEF Return
<1>3. /\ end \in Runs /\ end.form = run[h].form /\ end.at = "next"
      /\ end.record = {} /\ end.left = run[h].left
  BY <1>1 DEF Runs
<1>4. run'[h] = end /\ run' \in [Hooks -> Runs]
      /\ \A g \in Hooks : g # h => run'[g] = run[g]
  BY <1>1, <1>2, <1>3
<1> QED BY <1>3, <1>4 DEF Emptied

\* The harness kills a run: what it had in hand is lost.
LEMMA KillStep ==
  ASSUME IInv, NEW h \in Hooks, Kill(h)
  PROVE  IInv'
<1>1. Emptied(h) /\ run' \in [Hooks -> Runs]
  <2>1. << >> \in Seq(Kinds)
    BY EmptySeq
  <2> DEFINE end == [run[h] EXCEPT !.at = "next", !.left = << >>,
                                   !.record = {}, !.writes = << >>]
  <2>2. run \in [Hooks -> Runs] /\ run[h] \in Runs
    BY RunFields DEF IInv, Shape
  <2>3. run' = [run EXCEPT ![h] = end]
    BY <2>2 DEF Kill
  <2>4. /\ end \in Runs /\ end.form = run[h].form /\ end.at = "next"
        /\ end.record = {} /\ end.left = << >>
    BY <2>1, <2>2 DEF Runs
  <2>5. run'[h] = end /\ run' \in [Hooks -> Runs]
        /\ \A g \in Hooks : g # h => run'[g] = run[g]
    BY <2>2, <2>3, <2>4
  <2> QED BY <2>4, <2>5 DEF Emptied
<1>2. UNCHANGED <<clock, form, sink, journal, file, torn, made>>
      /\ lost' = lost \cup run[h].record /\ run[h].at # "start"
  BY DEF Kill, env
<1>3. OnlyMoves(h)
  BY <1>1, <1>2, SinksUntouched DEF OnlyMoves, Emptied
<1>4. TypeOK' /\ Shape' /\ Hands'
  BY <1>1, <1>2, <1>3, EmptiedHands DEF IInv, TypeOK, Shape
<1>5. Kept'
  BY <1>1, <1>2, SinksUntouched DEF IInv, Kept, Emptied
<1>6. OneSinkEach' /\ Lines'
  BY <1>2, SinksUntouched, LinesKept DEF IInv
<1> QED BY <1>4, <1>5, <1>6 DEF IInv

\* What is in hand, if anything, is one record of that run.
LEMMA InHand ==
  ASSUME IInv, NEW h \in Hooks, run[h].at \in {"journal", "file"}
  PROVE  \E r \in made : /\ r \in LogRecords /\ r.hook = h /\ Traceless(r)
                         /\ run[h].record = {r} /\ run[h].writes = fileWrites(r)
<1>1. PICK r : r \in run[h].record
  BY DEF IInv, TypeOK
<1> QED BY <1>1 DEF IInv, TypeOK, Hands, HandsOf

\* The journal takes the record or not, and auto turns to the file if not.
LEMMA JournalStep ==
  ASSUME IInv, NEW h \in Hooks, writeJournal(h)
  PROVE  IInv'
<1>1. PICK taken \in BOOLEAN :
        /\ journal' = IF taken THEN journal \cup run[h].record ELSE journal
        /\ IF fallsBack(taken)
             THEN run' = [run EXCEPT ![h].at = "file"] /\ UNCHANGED lost
             ELSE /\ Return(h)
                  /\ lost' = IF taken THEN lost ELSE lost \cup run[h].record
  BY DEF writeJournal
<1>2. /\ run[h].at = "journal"
      /\ UNCHANGED <<clock, form, sink, file, torn, made>>
  BY DEF writeJournal, env
<1>3. PICK r \in made : /\ r \in LogRecords /\ r.hook = h /\ Traceless(r)
                        /\ run[h].record = {r} /\ run[h].writes = fileWrites(r)
  BY <1>2, InHand
<1>4. run \in [Hooks -> Runs] /\ run[h] \in Runs
  BY RunFields DEF IInv, Shape
<1>5. CASE fallsBack(taken)
  <2>1. UNCHANGED <<journal, lost>> /\ run' = [run EXCEPT ![h].at = "file"]
    BY <1>1, <1>5 DEF fallsBack
  <2>2. /\ run' \in [Hooks -> Runs]
        /\ run'[h].form = run[h].form /\ run'[h].at = "file"
        /\ run'[h].left = run[h].left /\ run'[h].record = run[h].record
        /\ run'[h].writes = run[h].writes
        /\ \A g \in Hooks : g # h => run'[g] = run[g]
    BY <1>4, <2>1 DEF Runs
  <2>3. OnlyMoves(h)
    BY <1>2, <2>1, <2>2, SinksUntouched DEF OnlyMoves
  <2>4. HandsOf(h)'
    BY <1>2, <2>1, <2>2, SinksUntouched DEF IInv, Hands, HandsOf
  <2>5. Hands'
    BY <2>3, <2>4, OthersKeepHands DEF Hands
  <2>6. TypeOK' /\ Shape'
    BY <1>2, <1>3, <2>1, <2>2 DEF IInv, TypeOK, Shape
  <2>7. \A g \in Hooks : run'[g].record = run[g].record
    BY <2>2
  <2>8. Kept'
    BY <1>2, <2>1, <2>7, SinksUntouched DEF IInv, Kept
  <2>9. OneSinkEach' /\ Lines'
    BY <1>2, <2>1, SinksUntouched, LinesKept DEF IInv
  <2> QED BY <2>5, <2>6, <2>8, <2>9 DEF IInv
<1>6. CASE ~fallsBack(taken)
  <2>1. /\ Emptied(h) /\ run' \in [Hooks -> Runs]
        /\ lost' = IF taken THEN lost ELSE lost \cup {r}
        /\ journal' = IF taken THEN journal \cup {r} ELSE journal
    BY <1>1, <1>3, <1>6, ReturnEmpties
  <2>2. \A q : InFile(q)' <=> InFile(q)
    BY <1>2 DEF InFile
  <2>3. OnlyMoves(h)
    BY <1>2, <1>3, <2>1, <2>2 DEF OnlyMoves, Emptied, Traceless
  <2>4. TypeOK' /\ Shape' /\ Hands'
    BY <1>2, <1>3, <2>1, <2>3, EmptiedHands DEF IInv, TypeOK, Shape
  <2>5. Kept'
    BY <1>2, <1>3, <2>1, <2>2 DEF IInv, Kept, Emptied
  <2>6. OneSinkEach'
    <3>1. \A i \in 1..Len(file) : r \notin file[i].of
      BY <1>3 DEF Traceless, InFile
    <3> QED BY <1>2, <2>1, <3>1 DEF IInv, OneSinkEach
  <2>7. Lines'
    BY <1>2, LinesKept DEF IInv
  <2> QED BY <2>4, <2>5, <2>6, <2>7 DEF IInv
<1> QED BY <1>5, <1>6

-----------------------------------------------------------------------------
(***************************************************************************)
(* Writes to the file.                                                     *)
(***************************************************************************)

\* Before the end of the file there is a line end, or a cut.
EndsInCut ==
  Len(file) > 0 => \/ file[Len(file)].what = "newline"
                   \/ file[Len(file)].of \cap torn # {}

LEMMA FileEnd ==
  ASSUME IInv
  PROVE  EndsInCut /\ Len(file) \in Nat
<1>1. Len(file) \in Nat
  BY LenProperties DEF IInv, Shape
<1>2. ASSUME Len(file) > 0, file[Len(file)].what # "newline"
      PROVE  file[Len(file)].of \cap torn # {}
  <2>1. Len(file) \in 1..Len(file)
    BY <1>1, <1>2
  <2>2. file[Len(file)] \in Pieces
    BY <2>1, ElementOfSeq DEF IInv, Shape
  <2>3. PICK r \in made : file[Len(file)].of = {r}
    BY <1>2, <2>1 DEF IInv, Lines
  <2>4. CASE file[Len(file)].what = "text"
    BY <1>1, <2>1, <2>4 DEF IInv, Lines
  <2>5. CASE file[Len(file)].what \in {"cut", "stub"}
    BY <2>1, <2>3, <2>5 DEF IInv, Lines
  <2> QED BY <1>2, <2>2, <2>4, <2>5 DEF Pieces
<1> QED BY <1>1, <1>2 DEF EndsInCut

\* The file after the whole of a record.
LEMMA WholeWrite ==
  ASSUME NEW S, NEW r, file \in Seq(S), Text(r) \in S, NewLine \in S,
         file' = file \o <<Text(r), NewLine>>
  PROVE  /\ file' \in Seq(S) /\ Len(file') = Len(file) + 2
         /\ \A i \in 1..Len(file) : file'[i] = file[i]
         /\ file'[Len(file) + 1] = Text(r) /\ file'[Len(file) + 2] = NewLine
<1>1. <<Text(r), NewLine>> \in Seq(S) /\ Len(<<Text(r), NewLine>>) = 2
  OBVIOUS
<1>2. Len(file) \in Nat
  BY LenProperties
<1>3. /\ file' \in Seq(S) /\ Len(file') = Len(file) + 2
      /\ \A i \in 1..(Len(file) + 2) :
           file'[i] = IF i <= Len(file) THEN file[i]
                      ELSE <<Text(r), NewLine>>[i - Len(file)]
  BY <1>1, ConcatProperties
<1>4. \A i \in 1..Len(file) : file'[i] = file[i]
  BY <1>2, <1>3
<1>5. /\ file'[Len(file) + 1] = <<Text(r), NewLine>>[1]
      /\ file'[Len(file) + 2] = <<Text(r), NewLine>>[2]
  <2>1. /\ (Len(file) + 1) - Len(file) = 1 /\ (Len(file) + 2) - Len(file) = 2
        /\ Len(file) + 1 \in 1..(Len(file) + 2) /\ ~(Len(file) + 1 <= Len(file))
        /\ Len(file) + 2 \in 1..(Len(file) + 2) /\ ~(Len(file) + 2 <= Len(file))
    BY <1>2
  <2> QED BY <1>3, <2>1
<1> QED BY <1>3, <1>4, <1>5

\* What a record in hand becomes part of, in the file.
LEMMA PieceTypes ==
  ASSUME NEW r \in made
  PROVE  LET S == [what : {"text", "cut", "stub", "newline"}, of : SUBSET made]
         IN  Text(r) \in S /\ Cut(r) \in S /\ Stub(r) \in S /\ NewLine \in S
BY DEF Text, Cut, Stub, NewLine

LEMMA PieceShapes ==
  ASSUME NEW r \in LogRecords
  PROVE  Text(r) \in Pieces /\ Cut(r) \in Pieces /\ Stub(r) \in Pieces
         /\ NewLine \in Pieces
BY DEF Text, Cut, Stub, NewLine, Pieces

\* The file after a part of a record.
LEMMA CutWrite ==
  ASSUME NEW S, NEW part \in S, file \in Seq(S), file' = Append(file, part)
  PROVE  /\ file' \in Seq(S) /\ Len(file') = Len(file) + 1
         /\ \A i \in 1..Len(file) : file'[i] = file[i]
         /\ file'[Len(file) + 1] = part
BY AppendProperties, LenProperties

\* A run lets go of its record, which is in the file or lost.
LEMMA LetGo ==
  ASSUME IInv, NEW h \in Hooks, NEW r \in made,
         run[h].at # "start", run[h].record = {r}, r.hook = h, Return(h),
         UNCHANGED <<clock, form, sink, journal, made>>,
         torn' \subseteq torn \cup {r}, lost \subseteq lost', lost' \subseteq made,
         file' \in Seq(Pieces),
         file' \in Seq([what : {"text", "cut", "stub", "newline"}, of : SUBSET made]),
         \A q : InFile(q) => InFile(q)',
         \A q : InFile(q)' => InFile(q) \/ q = r,
         r \in lost' \/ InFile(r)'
  PROVE  TypeOK' /\ Shape' /\ Hands' /\ Kept'
<1>1. Emptied(h) /\ run' \in [Hooks -> Runs]
  BY ReturnEmpties
<1>2. OnlyMoves(h)
  BY <1>1 DEF OnlyMoves, Emptied, Traceless
<1>3. TypeOK' /\ Shape' /\ Hands'
  BY <1>1, <1>2, EmptiedHands DEF IInv, TypeOK, Shape
<1>4. Kept'
  BY <1>1 DEF IInv, Kept, Emptied
<1> QED BY <1>3, <1>4

\* The whole of a record reaches the file.
LEMMA WholeStep ==
  ASSUME IInv, NEW h \in Hooks, run[h].at = "file",
         file' = file \o Head(run[h].writes),
         IF Tail(run[h].writes) = << >> THEN Return(h)
         ELSE run' = [run EXCEPT ![h].writes = Tail(@)],
         UNCHANGED <<clock, form, sink, journal, made, torn, lost>>
  PROVE  IInv'
<1>1. PICK r \in made : /\ r \in LogRecords /\ r.hook = h /\ Traceless(r)
                        /\ run[h].record = {r} /\ run[h].writes = fileWrites(r)
  BY InHand
<1>2. file' = file \o <<Text(r), NewLine>> /\ Return(h)
  BY <1>1, WriteOfRecord
<1> DEFINE S == [what : {"text", "cut", "stub", "newline"}, of : SUBSET made]
           n == Len(file)
<1>3. /\ Text(r) \in S /\ NewLine \in S
      /\ Text(r) \in Pieces /\ NewLine \in Pieces
  BY <1>1, PieceTypes, PieceShapes
<1>4. /\ file' \in Seq(S) /\ file' \in Seq(Pieces) /\ Len(file') = n + 2
      /\ \A i \in 1..n : file'[i] = file[i]
      /\ file'[n + 1] = Text(r) /\ file'[n + 2] = NewLine
  <2> HIDE DEF S
  <2>1. file \in Seq(S) /\ file \in Seq(Pieces)
    BY DEF IInv, TypeOK, Shape, S
  <2> QED BY <1>2, <1>3, <2>1, WholeWrite
<1> HIDE DEF S
<1>5. n \in Nat /\ EndsInCut
  BY FileEnd
<1>6. \A i \in 1..Len(file') : i \in 1..n \/ i = n + 1 \/ i = n + 2
  BY <1>4, <1>5
<1>7. n + 1 \in 1..Len(file') /\ n + 2 \in 1..Len(file')
      /\ 1..n \subseteq 1..Len(file')
  BY <1>4, <1>5
<1>8. /\ file'[n + 1].what = "text" /\ file'[n + 1].of = {r}
      /\ file'[n + 2].what = "newline" /\ file'[n + 2].of = {}
  <2>1. /\ Text(r).what = "text" /\ Text(r).of = {r}
        /\ NewLine.what = "newline" /\ NewLine.of = {}
    BY DEF Text, NewLine
  <2> QED BY <1>4, <2>1
<1>9. /\ \A q : InFile(q) => InFile(q)'
      /\ \A q : InFile(q)' => InFile(q) \/ q = r
      /\ InFile(r)'
  BY <1>4, <1>6, <1>7, <1>8 DEF InFile
<1>10. TypeOK' /\ Shape' /\ Hands' /\ Kept'
  <2>1. lost \subseteq made
    BY DEF IInv, TypeOK
  <2> QED BY <1>1, <1>2, <1>4, <1>9, <2>1, LetGo DEF S
<1>11. r \notin journal /\ r \notin torn /\ \A i \in 1..n : r \notin file[i].of
  BY <1>1 DEF Traceless, InFile
<1>12. OneSinkEach'
  <2>1. \A i \in 1..Len(file') : file'[i].of \cap journal' = {}
    <3>1. journal' = journal /\ \A i \in 1..n : file[i].of \cap journal = {}
      BY DEF IInv, OneSinkEach
    <3>2. ASSUME NEW i \in 1..n PROVE file'[i].of \cap journal' = {}
      BY <1>4, <3>1
    <3>3. /\ file'[n + 1].of \cap journal' = {}
          /\ file'[n + 2].of \cap journal' = {}
      BY <1>8, <1>11, <3>1
    <3> QED BY <1>6, <3>2, <3>3
  <2>2. ASSUME NEW i \in 1..Len(file'), NEW j \in 1..Len(file'),
               file'[i].of \cap file'[j].of # {}
        PROVE  i = j
    <3>1. i # n + 2 /\ j # n + 2
      BY <1>8, <2>2
    <3>2. CASE i \in 1..n /\ j \in 1..n
      BY <1>4, <2>2, <3>2 DEF IInv, OneSinkEach
    <3>3. CASE i \in 1..n /\ j = n + 1
      BY <1>4, <1>8, <1>11, <2>2, <3>3
    <3>4. CASE i = n + 1 /\ j \in 1..n
      <4>1. file'[j].of = file[j].of /\ r \notin file[j].of
        BY <1>4, <1>11, <3>4
      <4>2. file'[i].of = {r}
        BY <1>8, <3>4, Zenon
      <4>3. {r} \cap file[j].of = {}
        BY <4>1, Zenon
      <4> QED BY <2>2, <4>1, <4>2, <4>3, Zenon
    <3> QED BY <1>6, <3>1, <3>2, <3>3, <3>4
  <2> QED BY <2>1, <2>2 DEF OneSinkEach
<1>13. Lines'
  <2> DEFINE Line(i) ==
        /\ file'[i].what = "newline" => file'[i].of = {}
        /\ file'[i].what # "newline" => \E q \in made : file'[i].of = {q}
        /\ file'[i].what \in {"cut", "stub"} => file'[i].of \subseteq torn
        /\ file'[i].what = "text" /\ file'[i].of \cap torn = {} =>
             i < Len(file') /\ file'[i + 1].what = "newline"
        /\ i > 1 /\ file'[i].what # "newline" =>
             file'[i - 1].what = "newline" \/ file'[i - 1].of \cap torn # {}
  <2>1. ASSUME NEW i \in 1..n PROVE Line(i)
    <3>1. file'[i] = file[i] /\ i < Len(file')
      BY <1>4, <1>5
    <3>2. i < n => file'[i + 1] = file[i + 1]
      <4>1. i < n => i + 1 \in 1..n
        BY <1>5
      <4> QED BY <1>4, <4>1
    <3>3. i > 1 => file'[i - 1] = file[i - 1]
      <4>1. i > 1 => i - 1 \in 1..n
        BY <1>5
      <4> QED BY <1>4, <4>1
    <3> QED BY <3>1, <3>2, <3>3 DEF IInv, Lines
  <2>2. Line(n + 1)
    <3>1. (n + 1) + 1 = n + 2 /\ (n + 1) - 1 = n /\ n + 1 < Len(file')
      BY <1>4, <1>5
    <3>2. n + 1 > 1 => n > 0 /\ file'[n] = file[n]
      BY <1>4, <1>5
    <3> QED BY <1>5, <1>8, <3>1, <3>2 DEF EndsInCut
  <2>3. Line(n + 2)
    BY <1>8
  <2>4. \A i \in 1..Len(file') : Line(i)
    <3> HIDE DEF Line
    <3> QED BY <1>6, <2>1, <2>2, <2>3
  <2> QED BY <2>4 DEF Lines
<1> QED BY <1>10, <1>12, <1>13 DEF IInv

\* A part of a record reaches the file.
LEMMA CutStep ==
  ASSUME IInv, NEW h \in Hooks, run[h].at = "file",
         NEW r \in run[h].record, NEW part \in {Text(r), Cut(r), Stub(r)},
         file' = Append(file, part), torn' = torn \cup run[h].record, Return(h),
         UNCHANGED <<clock, form, sink, journal, made, lost>>
  PROVE  IInv'
<1>1. /\ r \in made /\ r \in LogRecords /\ r.hook = h /\ Traceless(r)
      /\ run[h].record = {r}
  BY InHand
<1> DEFINE S == [what : {"text", "cut", "stub", "newline"}, of : SUBSET made]
           n == Len(file)
<1>2. part \in S /\ part \in Pieces
  BY <1>1, PieceTypes, PieceShapes
<1>3. /\ file' \in Seq(S) /\ file' \in Seq(Pieces) /\ Len(file') = n + 1
      /\ \A i \in 1..n : file'[i] = file[i]
      /\ file'[n + 1] = part
  <2> HIDE DEF S
  <2>1. file \in Seq(S) /\ file \in Seq(Pieces)
    BY DEF IInv, TypeOK, Shape, S
  <2> QED BY <1>2, <2>1, CutWrite
<1>4. n \in Nat /\ EndsInCut
  BY FileEnd
<1>5. \A i \in 1..Len(file') : i \in 1..n \/ i = n + 1
  BY <1>3, <1>4
<1>6. n + 1 \in 1..Len(file') /\ 1..n \subseteq 1..Len(file')
  BY <1>3, <1>4
<1>7. file'[n + 1].what # "newline" /\ file'[n + 1].of = {r} /\ r \in torn'
  BY <1>1, <1>3 DEF Text, Cut, Stub
<1>8. /\ \A q : InFile(q) => InFile(q)'
      /\ \A q : InFile(q)' => InFile(q) \/ q = r
      /\ InFile(r)'
  BY <1>3, <1>5, <1>6, <1>7 DEF InFile
<1>9. TypeOK' /\ Shape' /\ Hands' /\ Kept'
  <2>1. lost \subseteq made
    BY DEF IInv, TypeOK
  <2> QED BY <1>1, <1>3, <1>8, <2>1, LetGo
<1>10. r \notin journal /\ r \notin torn /\ \A i \in 1..n : r \notin file[i].of
  BY <1>1 DEF Traceless, InFile
<1>11. OneSinkEach'
  <2>1. \A i \in 1..Len(file') : file'[i].of \cap journal' = {}
    BY <1>3, <1>5, <1>7, <1>10 DEF IInv, OneSinkEach
  <2>2. ASSUME NEW i \in 1..Len(file'), NEW j \in 1..Len(file'),
               file'[i].of \cap file'[j].of # {}
        PROVE  i = j
    BY <1>3, <1>5, <1>7, <1>10, <2>2 DEF IInv, OneSinkEach
  <2> QED BY <2>1, <2>2 DEF OneSinkEach
<1>12. Lines'
  <2> DEFINE Line(i) ==
        /\ file'[i].what = "newline" => file'[i].of = {}
        /\ file'[i].what # "newline" => \E q \in made : file'[i].of = {q}
        /\ file'[i].what \in {"cut", "stub"} => file'[i].of \subseteq torn'
        /\ file'[i].what = "text" /\ file'[i].of \cap torn' = {} =>
             i < Len(file') /\ file'[i + 1].what = "newline"
        /\ i > 1 /\ file'[i].what # "newline" =>
             file'[i - 1].what = "newline" \/ file'[i - 1].of \cap torn' # {}
  <2>1. ASSUME NEW i \in 1..n PROVE Line(i)
    <3>1. file'[i] = file[i] /\ i < Len(file') /\ torn \subseteq torn'
      BY <1>3, <1>4
    <3>2. i < n => file'[i + 1] = file[i + 1]
      BY <1>3, <1>4
    <3>3. i > 1 => file'[i - 1] = file[i - 1]
      BY <1>3, <1>4
    <3> QED BY <3>1, <3>2, <3>3 DEF IInv, Lines
  <2>2. Line(n + 1)
    <3>1. n + 1 > 1 => n > 0 /\ file'[n] = file[n] /\ (n + 1) - 1 = n
      BY <1>3, <1>4
    <3>2. torn \subseteq torn'
      OBVIOUS
    <3> QED BY <1>1, <1>4, <1>7, <3>1, <3>2 DEF EndsInCut
  <2>3. \A i \in 1..Len(file') : Line(i)
    BY <1>5, <2>1, <2>2
  <2> QED BY <1>1, <2>3 DEF Lines
<1> QED BY <1>9, <1>11, <1>12 DEF IInv

\* One write() to the file: whole, cut, or failed.
LEMMA FileStep ==
  ASSUME IInv, NEW h \in Hooks, writeFile(h)
  PROVE  IInv'
<1>1. /\ run[h].at = "file" /\ UNCHANGED <<clock, form, sink, journal, made>>
  BY DEF writeFile, env
<1>2. CASE /\ file' = file \o Head(run[h].writes)
           /\ IF Tail(run[h].writes) = << >> THEN Return(h)
              ELSE run' = [run EXCEPT ![h].writes = Tail(@)]
           /\ UNCHANGED <<torn, lost>>
  BY <1>1, <1>2, WholeStep
<1>3. CASE /\ \E r \in run[h].record :
                \E part \in {Text(r), Cut(r)} \cup (IF r.huge THEN {Stub(r)} ELSE {}) :
                  file' = Append(file, part)
           /\ torn' = torn \cup run[h].record
           /\ Return(h)
           /\ UNCHANGED lost
  <2>1. PICK r \in run[h].record : \E part \in {Text(r), Cut(r), Stub(r)} :
               file' = Append(file, part)
    BY <1>3
  <2> QED BY <1>1, <1>3, <2>1, CutStep
<1>4. CASE /\ lost' = lost \cup run[h].record
           /\ Return(h)
           /\ UNCHANGED <<file, torn>>
  <2>1. PICK r \in made : /\ r.hook = h /\ run[h].record = {r}
    BY <1>1, InHand
  <2>2. TypeOK' /\ Shape' /\ Hands' /\ Kept'
    <3>1. /\ lost \subseteq made /\ file \in Seq(Pieces)
          /\ file \in Seq([what : {"text", "cut", "stub", "newline"},
                           of : SUBSET made])
      BY DEF IInv, TypeOK, Shape
    <3> QED BY <1>1, <1>4, <2>1, <3>1, SinksUntouched, LetGo
  <2>3. OneSinkEach' /\ Lines'
    BY <1>1, <1>4, SinksUntouched, LinesKept DEF IInv
  <2> QED BY <2>2, <2>3 DEF IInv
<1> QED BY <1>2, <1>3, <1>4 DEF writeFile

LEMMA Inductive ==
  ASSUME IInv, [Next]_vars
  PROVE  IInv'
<1>1. ASSUME NEW h \in Hooks,
             Start(h) \/ formatRecord(h) \/ writeJournal(h) \/ writeFile(h) \/ Kill(h)
      PROVE  IInv'
  BY <1>1, StartStep, FormatStep, JournalStep, FileStep, KillStep
<1>2. CASE Tick \/ UpdateRegistration \/ UNCHANGED vars
  BY <1>2, EnvironmentStep
<1> QED BY <1>1, <1>2 DEF Next

-----------------------------------------------------------------------------
\* The invariant the theorems rest on holds of every run of the log.
THEOREM InvariantHolds == Spec => []IInv
<1>1. IInv /\ [Next]_vars => IInv'
  BY Inductive
<1> QED BY Initially, <1>1, PTL DEF Spec

\* Every variable of the log keeps its type, and no record of a call that fell
\* through or of a deprecation is longer than the log socket and the doctor
\* take (log.go, maxLoggedCommand; the callers of LogNonAllow).
THEOREM TypeCorrect == Spec => []TypeOK
<1>1. IInv => TypeOK
  BY DEF IInv
<1> QED BY InvariantHolds, <1>1, PTL

\* No record is in both sinks or twice in the file, however many runs of the
\* hook write at once (log.go, LogNonAllow and writeFile).
THEOREM RecordsAreOnce == Spec => []OneSinkEach
<1>1. IInv => OneSinkEach
  BY DEF IInv
<1> QED BY InvariantHolds, <1>1, PTL

\* A whole text after a line end is read as a record.
LEMMA WholeLineParses ==
  ASSUME IInv, NEW i \in 1..Len(file), file[i].what = "text",
         file[i].of \cap torn = {},
         i > 1 => file[i - 1].of \cap torn = {}
  PROVE  parses(i) /\ file[i].of \subseteq parseRecords
<1>1. Len(file) \in Nat
  BY FileEnd
<1>2. i > 1 => file[i - 1].what = "newline"
  BY DEF IInv, Lines
<1>3. i < Len(file) /\ file[i + 1].what = "newline"
  BY DEF IInv, Lines
<1>4. parses(i)
  BY <1>2, <1>3 DEF parses
<1> QED BY <1>4 DEF parseRecords

\* A record the file took whole is read, unless the write before it was cut:
\* what a full disk does to the file does not spread (log.go, writeFile;
\* doctor.go, parseRecords).
THEOREM DamageStaysLocal == Spec => []DamageIsLocal
<1>1. IInv => DamageIsLocal
  BY WholeLineParses DEF DamageIsLocal
<1> QED BY InvariantHolds, <1>1, PTL

\* A record that is logged and not missing is read from the source that has it,
\* if that lets it be read.
LEMMA LoggedIsRead ==
  ASSUME IInv, NEW shown, NEW r \in made,
         Logged(r), ~Missing(r), ~Unseen(r, shown)
  PROVE  \E source \in Sources : r \in readRecords(source, shown)
<1>1. CASE r \in journal
  BY <1>1 DEF Unseen, readRecords, Sources
<1>2. CASE r \notin journal
  <2>1. PICK i \in 1..Len(file) : r \in file[i].of
    BY <1>2 DEF IInv, Kept, InFile, Logged, Missing
  <2>2. Len(file) \in Nat
    BY FileEnd
  <2>3. i > 1 => file[i - 1].of \cap torn = {}
    BY <2>1, <2>2 DEF Missing
  <2>4. file[i].what # "newline" /\ file[i].of = {r}
    BY <2>1 DEF IInv, Lines
  <2>5. file[i].what = "text"
    <3>1. file[i] \in Pieces
      BY <2>1, ElementOfSeq DEF IInv, Shape
    <3> QED BY <2>1, <2>4, <3>1 DEF IInv, Lines, Pieces, Missing
  <2>6. file[i].of \cap torn = {}
    BY <2>4 DEF Missing
  <2>7. r \in parseRecords
    BY <2>1, <2>3, <2>5, <2>6, WholeLineParses
  <2> QED BY <1>2, <2>7 DEF Unseen, readRecords, Sources
<1> QED BY <1>1, <1>2

\* A blocked call of the window is found by the doctor on one of its sources,
\* unless no sink took the record, the disk was full, or the source that has it
\* does not let it be read: journalctl does not show what the log socket took,
\* or a line too long hides the file (log.go, LogNonAllow; doctor.go,
\* readRecords and reasonsInWindow).
THEOREM BlockedCallsAreFound == Spec => []BlocksAreFound
<1>1. IInv => BlocksAreFound
  <2> SUFFICES ASSUME IInv, NEW shown \in Showings, NEW r \in made,
                      r.kind = "failloud", r.ts >= clock - Window, Logged(r),
                      ~Missing(r), ~Unseen(r, shown)
               PROVE  \E source \in Sources :
                        r \in reasonsInWindow(readRecords(source, shown))
    BY DEF BlocksAreFound
  <2> QED BY LoggedIsRead DEF reasonsInWindow, resolveWindow
<1> QED BY InvariantHolds, <1>1, PTL

\* The doctor reads nothing that was not logged.
LEMMA ReadsAreMade ==
  ASSUME IInv, NEW source \in Sources, NEW shown \in Showings
  PROVE  readRecords(source, shown) \subseteq made
<1>1. shown \subseteq made
  BY DEF IInv, TypeOK, Showings
<1>2. \A i \in 1..Len(file) : file[i].of \subseteq made
  <2> DEFINE S == [what : {"text", "cut", "stub", "newline"}, of : SUBSET made]
  <2>1. file \in Seq(S)
    BY DEF IInv, TypeOK
  <2>2. \A i \in 1..Len(file) : file[i] \in S
    BY <2>1, ElementOfSeq
  <2> QED BY <2>2
<1>3. parseRecords \subseteq made
  BY <1>2 DEF parseRecords
<1> QED BY <1>1, <1>3 DEF readRecords

-----------------------------------------------------------------------------
(***************************************************************************)
(* What a run under the old registration logs, and when.                   *)
(***************************************************************************)

\* A deprecation is made, or yet to be made, only by a run that was started
\* under the old registration.
OnlyLegacyDeprecates ==
  /\ \A r \in made : r.kind = "deprecated_invocation" => run[r.hook].form = "legacy"
  /\ \A h \in Hooks : \A i \in 1..Len(run[h].left) :
       run[h].left[i] = "deprecated_invocation" => run[h].form = "legacy"

\* The run has made its deprecation.
Deprecated(h) == \E d \in made : d.hook = h /\ d.kind = "deprecated_invocation"

\* A run under the old registration makes its deprecation before anything else.
LegacyDeprecatesFirst ==
  /\ \A r \in made : run[r.hook].form = "legacy" => Deprecated(r.hook)
  /\ \A h \in Hooks :
       run[h].form = "legacy" /\ run[h].left # << >> =>
         Head(run[h].left) = "deprecated_invocation" \/ Deprecated(h)

\* The doctor may read what a run logged as a sign of its registration.
Signs == OnlyLegacyDeprecates /\ LegacyDeprecatesFirst

LEMMA SignsInitially == Init => Signs
<1> SUFFICES ASSUME Init PROVE Signs
  OBVIOUS
<1>1. \A h \in Hooks : run[h].left = << >>
  BY DEF Init, NotStarted
<1>2. 1..Len(<< >>) = {}
  OBVIOUS
<1> QED BY <1>1, <1>2 DEF Init, Signs, OnlyLegacyDeprecates, LegacyDeprecatesFirst

\* A run that starts takes the registration of the moment, and has made nothing.
LEMMA SignsStart ==
  ASSUME IInv, Signs, NEW h \in Hooks, Start(h)
  PROVE  Signs'
<1>1. PICK body \in Bodies :
        run' = [run EXCEPT
          ![h].form = form,
          ![h].at   = "next",
          ![h].left = IF form = "legacy" THEN <<"deprecated_invocation">> \o body
                      ELSE body]
  BY DEF Start
<1> DEFINE left == IF form = "legacy" THEN <<"deprecated_invocation">> \o body
                   ELSE body
<1>2. run[h].at = "start" /\ made' = made /\ form \in {"legacy", "hook"}
  BY DEF Start, IInv, TypeOK
<1>3. run \in [Hooks -> Runs] /\ run[h] \in Runs
  BY RunFields DEF IInv, Shape
<1>4. /\ run'[h].form = form /\ run'[h].left = left
      /\ \A g \in Hooks : g # h => run'[g] = run[g]
  BY <1>1, <1>3 DEF Runs
<1>5. \A r \in made : r.hook # h /\ r.hook \in Hooks
  BY <1>2 DEF IInv, Hands, HandsOf, TypeOK, LogRecords
<1>6. /\ \A i \in 1..Len(left) : left[i] = "deprecated_invocation" => form = "legacy"
      /\ form = "legacy" => Head(left) = "deprecated_invocation"
  BY LegacyBody
<1>7. OnlyLegacyDeprecates'
  BY <1>2, <1>4, <1>5, <1>6 DEF Signs, OnlyLegacyDeprecates
<1>8. \A g \in Hooks : Deprecated(g)' <=> Deprecated(g)
  BY <1>2 DEF Deprecated
<1>9. \A r \in made : run'[r.hook] = run[r.hook]
  BY <1>4, <1>5
<1>10. \A r \in made' : run'[r.hook].form = "legacy" => Deprecated(r.hook)'
  BY <1>2, <1>5, <1>8, <1>9 DEF Signs, LegacyDeprecatesFirst
<1>11. ASSUME NEW g \in Hooks, run'[g].form = "legacy", run'[g].left # << >>
       PROVE  Head(run'[g].left) = "deprecated_invocation" \/ Deprecated(g)'
  <2>1. CASE g = h
    BY <1>4, <1>6, <1>11, <2>1
  <2>2. CASE g # h
    BY <1>4, <1>8, <1>11, <2>2 DEF Signs, LegacyDeprecatesFirst
  <2> QED BY <2>1, <2>2
<1>12. LegacyDeprecatesFirst'
  BY <1>10, <1>11 DEF LegacyDeprecatesFirst
<1> QED BY <1>7, <1>12 DEF Signs

\* The next record of a run is of a kind it had yet to make.
LEMMA SignsFormat ==
  ASSUME IInv, Signs, NEW h \in Hooks, formatRecord(h)
  PROVE  Signs'
<1> DEFINE kind == Head(run[h].left)
<1>1. PICK huge \in BOOLEAN :
        LET r == [hook |-> h, kind |-> kind, ts |-> clock, huge |-> huge]
        IN  /\ made' = made \cup {r}
            /\ run' = [run EXCEPT
                 ![h].left   = Tail(@),
                 ![h].record = {r},
                 ![h].at     = IF sink = "file" THEN "file" ELSE "journal",
                 ![h].writes = fileWrites(r)]
  BY DEF formatRecord
<1> DEFINE r == [hook |-> h, kind |-> kind, ts |-> clock, huge |-> huge]
<1>2. run \in [Hooks -> Runs] /\ run[h] \in Runs /\ run[h].left \in Seq(Kinds)
  BY RunFields DEF IInv, Shape
<1>3. /\ run'[h].left = Tail(run[h].left)
      /\ \A g \in Hooks : g # h => run'[g] = run[g]
      /\ \A g \in Hooks : run'[g].form = run[g].form
  BY <1>1, <1>2 DEF Runs
<1>4. /\ Len(Tail(run[h].left)) = Len(run[h].left) - 1
      /\ \A i \in 1..Len(Tail(run[h].left)) : Tail(run[h].left)[i] = run[h].left[i + 1]
      /\ Len(run[h].left) \in Nat \ {0}
      /\ kind = run[h].left[1]
  BY <1>2, HeadTailProperties, LenProperties, EmptySeq DEF formatRecord
<1>5. made' = made \cup {r} /\ \A q \in made : q.hook \in Hooks
  BY <1>1 DEF IInv, TypeOK, LogRecords
<1>6. kind = "deprecated_invocation" => run[h].form = "legacy"
  <2>1. 1 \in 1..Len(run[h].left)
    BY <1>4
  <2> QED BY <1>4, <2>1 DEF Signs, OnlyLegacyDeprecates
<1>7. ASSUME NEW i \in 1..Len(run'[h].left),
             run'[h].left[i] = "deprecated_invocation"
      PROVE  run[h].form = "legacy"
  <2>1. run'[h].left[i] = run[h].left[i + 1] /\ i + 1 \in 1..Len(run[h].left)
    BY <1>3, <1>4
  <2> QED BY <1>7, <2>1 DEF Signs, OnlyLegacyDeprecates
<1>8. \A q \in made' : q.kind = "deprecated_invocation" => run'[q.hook].form = "legacy"
  BY <1>3, <1>5, <1>6 DEF Signs, OnlyLegacyDeprecates
<1>9. ASSUME NEW g \in Hooks
      PROVE  \A i \in 1..Len(run'[g].left) :
               run'[g].left[i] = "deprecated_invocation" => run'[g].form = "legacy"
  <2>1. CASE g = h
    BY <1>3, <1>7, <2>1
  <2>2. CASE g # h
    BY <1>3, <2>2 DEF Signs, OnlyLegacyDeprecates
  <2> QED BY <2>1, <2>2
<1>10. Deprecated(h)' \/ run[h].form # "legacy"
  BY <1>4, <1>5 DEF formatRecord, Signs, LegacyDeprecatesFirst, Deprecated
<1>11. \A g \in Hooks : Deprecated(g) => Deprecated(g)'
  BY <1>5 DEF Deprecated
<1>12. LegacyDeprecatesFirst'
  BY <1>3, <1>5, <1>10, <1>11 DEF Signs, LegacyDeprecatesFirst
<1> QED BY <1>8, <1>9, <1>12 DEF Signs, OnlyLegacyDeprecates

\* No other step makes a record, adds one to be made or changes a run's form.
LEMMA SignsOther ==
  ASSUME IInv, Signs,
         \/ \E h \in Hooks : writeJournal(h) \/ writeFile(h) \/ Kill(h)
         \/ UpdateRegistration \/ Tick \/ UNCHANGED vars
  PROVE  Signs'
<1>1. \A r \in made : r.hook \in Hooks
  BY DEF IInv, TypeOK, LogRecords
<1>2. run \in [Hooks -> Runs]
  BY DEF IInv, Shape
<1>3. made' = made
  BY Zenon DEF writeJournal, writeFile, Kill, UpdateRegistration, Tick, vars
<1>4. ASSUME NEW h \in Hooks, writeJournal(h) \/ writeFile(h) \/ Kill(h)
      PROVE  /\ run'[h].form = run[h].form
             /\ run'[h].left \in {run[h].left, << >>}
             /\ \A g \in Hooks : g # h => run'[g] = run[g]
  <2>1. \/ Return(h)
        \/ run' = [run EXCEPT ![h].at = "file"]
        \/ run' = [run EXCEPT ![h].at = "next", ![h].left = << >>,
                              ![h].record = {}, ![h].writes = << >>]
    <3>1. ASSUME run[h].at = "file" PROVE Tail(run[h].writes) = << >>
      BY <3>1, InHand, WriteOfRecord
    <3> QED BY <1>4, <3>1, Zenon DEF writeJournal, writeFile, Kill
  <2>2. CASE Return(h)
    BY <1>2, <2>2 DEF Return, Runs
  <2>3. CASE run' = [run EXCEPT ![h].at = "file"]
    BY <1>2, <2>3 DEF Runs
  <2>4. CASE run' = [run EXCEPT ![h].at = "next", ![h].left = << >>,
                                ![h].record = {}, ![h].writes = << >>]
    BY <1>2, <2>4 DEF Runs
  <2> QED BY <2>1, <2>2, <2>3, <2>4
<1>5. \A g \in Hooks : /\ run'[g].form = run[g].form
                       /\ run'[g].left \in {run[g].left, << >>}
  <2>1. CASE UpdateRegistration \/ Tick \/ UNCHANGED vars
    BY <2>1 DEF UpdateRegistration, Tick, vars
  <2> QED BY <1>4, <2>1
<1>6. 1..Len(<< >>) = {}
  OBVIOUS
<1>7. ASSUME NEW g \in Hooks, NEW i \in 1..Len(run'[g].left),
             run'[g].left[i] = "deprecated_invocation"
      PROVE  run'[g].form = "legacy"
  <2>1. run'[g].left = run[g].left
    BY <1>5, <1>6
  <2> QED BY <1>5, <1>7, <2>1 DEF Signs, OnlyLegacyDeprecates
<1>8. \A r \in made' : r.kind = "deprecated_invocation" => run'[r.hook].form = "legacy"
  BY <1>1, <1>3, <1>5 DEF Signs, OnlyLegacyDeprecates
<1>9. LegacyDeprecatesFirst'
  BY <1>1, <1>3, <1>5 DEF Signs, LegacyDeprecatesFirst, Deprecated
<1> QED BY <1>7, <1>8, <1>9 DEF Signs, OnlyLegacyDeprecates

LEMMA SignsHold == Spec => [](IInv /\ Signs)
<1>1. Init => IInv /\ Signs
  BY Initially, SignsInitially
<1>2. IInv /\ Signs /\ [Next]_vars => IInv' /\ Signs'
  <2> SUFFICES ASSUME IInv, Signs, [Next]_vars PROVE Signs'
    BY Inductive
  <2> QED BY SignsStart, SignsFormat, SignsOther DEF Next
<1> QED BY <1>1, <1>2, PTL DEF Spec

\* While the newest record of all is of a run under the old registration that
\* stayed within a second, the doctor calls the registration stale on one of
\* the sources, for any number of overlapping runs, unless that run's
\* deprecation is missing or the source that has it does not let it be read
\* (doctor.go, registrationLooksStale).
THEOREM StaleRegistrationIsFound == Spec => []StaleIsFound
<1>1. ASSUME IInv, Signs, NEW shown \in Showings, NEW r \in made,
             run[r.hook].form = "legacy",
             \A q \in made : q.ts <= r.ts /\ (q.hook = r.hook => q.ts = r.ts),
             \A d \in made : d.hook = r.hook /\ d.kind = "deprecated_invocation" =>
                                Logged(d) /\ ~Missing(d) /\ ~Unseen(d, shown)
      PROVE  \E source \in Sources : registrationLooksStale(readRecords(source, shown))
  <2>1. PICK d \in made : d.hook = r.hook /\ d.kind = "deprecated_invocation"
    BY <1>1 DEF Signs, LegacyDeprecatesFirst, Deprecated
  <2>2. PICK source \in Sources : d \in readRecords(source, shown)
    BY <1>1, <2>1, LoggedIsRead
  <2>3. \A q \in readRecords(source, shown) : q \in made
    BY <1>1, ReadsAreMade
  <2>4. \A q \in readRecords(source, shown) : q.ts <= d.ts
    BY <1>1, <2>1, <2>3
  <2> QED BY <2>1, <2>2, <2>4 DEF registrationLooksStale
<1>2. IInv /\ Signs => StaleIsFound
  BY <1>1 DEF StaleIsFound
<1> QED BY SignsHold, <1>2, PTL

\* Once a run under the new registration has logged a record newer than all of
\* the old one's, a source that can be read shows it and is not called stale,
\* for any number of overlapping runs, with the exceptions of the blocked calls
\* (doctor.go, registrationLooksStale).
THEOREM NewRegistrationIsNoticed == Spec => []UpdateIsNoticed
<1>1. ASSUME IInv, Signs, NEW shown \in Showings, NEW r \in made, Logged(r),
             \A q \in made : run[q.hook].form = "legacy" => q.ts < r.ts,
             ~Missing(r), ~Unseen(r, shown)
      PROVE  \E source \in Sources :
               LET records == readRecords(source, shown)
               IN  r \in records /\ ~registrationLooksStale(records)
  <2>1. PICK source \in Sources : r \in readRecords(source, shown)
    BY <1>1, LoggedIsRead
  <2>2. \A d \in made : d.kind = "deprecated_invocation" => d.ts < r.ts
    BY <1>1 DEF Signs, OnlyLegacyDeprecates
  <2>3. \A d \in made : d.ts \in Int
    BY <1>1 DEF IInv, TypeOK, LogRecords
  <2>4. ASSUME NEW d \in readRecords(source, shown),
               d.kind = "deprecated_invocation"
        PROVE  ~(r.ts <= d.ts)
    <3>1. d \in made
      BY <1>1, <2>4, ReadsAreMade
    <3> QED BY <2>2, <2>3, <2>4, <3>1
  <2> QED BY <2>1, <2>4 DEF registrationLooksStale
<1>2. IInv /\ Signs => UpdateIsNoticed
  BY <1>1 DEF UpdateIsNoticed
<1> QED BY SignsHold, <1>2, PTL

-----------------------------------------------------------------------------
(***************************************************************************)
(* What a step adds to the sources.                                        *)
(***************************************************************************)

\* A run has this record in hand.
Held(q) == \E h \in Hooks : q \in run[h].record

\* The file keeps what it has, and what it is given is of a record in hand.
FileGrows ==
  /\ Len(file) \in Nat /\ Len(file') \in Nat /\ Len(file) <= Len(file')
  /\ \A i \in 1..Len(file) : file'[i] = file[i]
  /\ \A i \in 1..Len(file') : i \in 1..Len(file) \/ \A q \in file'[i].of : Held(q)

LEMMA WholeGrows ==
  ASSUME IInv, NEW h \in Hooks, run[h].at = "file",
         file' = file \o Head(run[h].writes)
  PROVE  FileGrows
<1>1. PICK r \in made : /\ r \in LogRecords
                        /\ run[h].record = {r} /\ run[h].writes = fileWrites(r)
  BY InHand
<1>2. file' = file \o <<Text(r), NewLine>>
  BY <1>1, WriteOfRecord
<1>3. /\ file \in Seq(Pieces) /\ Text(r) \in Pieces /\ NewLine \in Pieces
      /\ Len(file) \in Nat
  BY <1>1, PieceShapes, FileEnd DEF IInv, Shape
<1>4. /\ Len(file') = Len(file) + 2
      /\ \A i \in 1..Len(file) : file'[i] = file[i]
      /\ file'[Len(file) + 1] = Text(r) /\ file'[Len(file) + 2] = NewLine
  BY <1>2, <1>3, WholeWrite
<1>5. Held(r)
  BY <1>1 DEF Held
<1>6. ASSUME NEW i \in 1..Len(file'), i \notin 1..Len(file)
      PROVE  \A q \in file'[i].of : Held(q)
  <2>1. file'[i] \in {Text(r), NewLine}
    BY <1>3, <1>4, <1>6
  <2>2. CASE file'[i] = Text(r)
    BY <1>5, <2>2 DEF Text
  <2>3. CASE file'[i] = NewLine
    BY <2>3 DEF NewLine
  <2> QED BY <2>1, <2>2, <2>3
<1>7. Len(file') \in Nat /\ Len(file) <= Len(file')
  BY <1>3, <1>4
<1>8. \A i \in 1..Len(file) : file'[i] = file[i]
  BY <1>4
<1>9. \A i \in 1..Len(file') : i \in 1..Len(file) \/ \A q \in file'[i].of : Held(q)
  BY <1>6
<1> QED BY <1>3, <1>7, <1>8, <1>9, Zenon DEF FileGrows

\* While no write is cut, nothing is.
LEMMA UncutGrows ==
  ASSUME IInv, [Next]_vars, torn' = {}
  PROVE  torn = {} /\ FileGrows
<1>1. Len(file) \in Nat
  BY FileEnd
<1>2. UNCHANGED <<file, torn>> => torn = {} /\ FileGrows
  BY <1>1 DEF FileGrows
<1>3. ASSUME NEW h \in Hooks, writeFile(h) PROVE torn = {} /\ FileGrows
  <2>1. run[h].at = "file" /\ run[h].record # {}
    BY <1>3, InHand DEF writeFile
  <2>2. CASE torn' = torn \cup run[h].record
    BY <2>1, <2>2
  <2>3. CASE file' = file \o Head(run[h].writes) /\ UNCHANGED torn
    BY <2>1, <2>3, WholeGrows
  <2> QED BY <1>2, <1>3, <2>2, <2>3, Zenon DEF writeFile
<1>4. CASE \E h \in Hooks : writeFile(h)
  BY <1>3, <1>4
<1>5. CASE ~\E h \in Hooks : writeFile(h)
  <2>1. UNCHANGED <<file, torn>>
    BY <1>5, Zenon DEF Next, vars, Start, formatRecord, writeJournal, Kill,
       UpdateRegistration, Tick
  <2> QED BY <1>2, <2>1
<1> QED BY <1>4, <1>5

\* The journal takes records in hand.
LEMMA JournalGrows ==
  ASSUME [Next]_vars
  PROVE  \A q \in journal' \ journal : Held(q)
<1>1. ASSUME NEW h \in Hooks, writeJournal(h)
      PROVE  \A q \in journal' \ journal : Held(q)
  <2>1. journal' \subseteq journal \cup run[h].record
    BY <1>1 DEF writeJournal
  <2> QED BY <2>1 DEF Held
<1>2. CASE \E h \in Hooks : writeJournal(h)
  BY <1>1, <1>2
<1>3. CASE ~\E h \in Hooks : writeJournal(h)
  <2>1. UNCHANGED journal
    BY <1>3, Zenon DEF Next, vars, Start, formatRecord, writeFile, Kill,
       UpdateRegistration, Tick
  <2> QED BY <2>1
<1> QED BY <1>2, <1>3

\* What could be read of a file that grows still can be, and what can be read
\* of it now could be before, or was in hand.
LEMMA ReadsGrow ==
  ASSUME IInv, torn = {}, FileGrows
  PROVE  /\ parseRecords \subseteq parseRecords'
         /\ \A q \in parseRecords' : q \in parseRecords \/ Held(q)
         /\ TooLong => TooLong'
<1>1. \A i \in 1..Len(file) :
        file[i].what = "text" => i < Len(file) /\ file[i + 1].what = "newline"
  BY DEF IInv, Lines
<1>2. ASSUME NEW i \in 1..Len(file) PROVE parses(i) <=> parses(i)'
  <2>1. /\ file'[i] = file[i]
        /\ i > 1 => i - 1 \in 1..Len(file) /\ file'[i - 1] = file[i - 1]
        /\ i < Len(file) => i + 1 \in 1..Len(file) /\ file'[i + 1] = file[i + 1]
        /\ i < Len(file) => i < Len(file')
    BY DEF FileGrows
  <2> QED BY <1>1, <2>1 DEF parses
<1>3. ASSUME NEW q \in parseRecords PROVE q \in parseRecords'
  <2>1. PICK i \in 1..Len(file) : parses(i) /\ q \in file[i].of
    BY <1>3 DEF parseRecords
  <2>2. i \in 1..Len(file') /\ file'[i] = file[i]
    BY <2>1 DEF FileGrows
  <2> QED BY <1>2, <2>1, <2>2 DEF parseRecords
<1>4. ASSUME NEW q \in parseRecords' PROVE q \in parseRecords \/ Held(q)
  <2>1. PICK i \in 1..Len(file') : parses(i)' /\ q \in file'[i].of
    BY <1>4 DEF parseRecords
  <2>2. CASE i \in 1..Len(file)
    <3>1. parses(i) /\ q \in file[i].of
      BY <1>2, <2>1, <2>2 DEF FileGrows
    <3> QED BY <2>2, <3>1 DEF parseRecords
  <2>3. CASE i \notin 1..Len(file)
    BY <2>1, <2>3 DEF FileGrows
  <2> QED BY <2>2, <2>3
<1>5. TooLong => TooLong'
  BY DEF TooLong, FileGrows
<1> QED BY <1>3, <1>4, <1>5

\* After the update no run has a deprecation in hand.
LEMMA NoneHeld ==
  ASSUME IInv, Signs, Updated, NEW q, Held(q)
  PROVE  q.kind # "deprecated_invocation"
<1>1. PICK h \in Hooks : q \in run[h].record
  BY DEF Held
<1>2. q \in made /\ q.hook = h
  BY <1>1 DEF IInv, TypeOK, Hands, HandsOf
<1> QED BY <1>1, <1>2 DEF Signs, OnlyLegacyDeprecates, Updated

\* More records, none of them a deprecation, make no registration stale.
LEMMA NotStaler ==
  ASSUME NEW old, NEW new, old \subseteq new,
         \A q \in new : q \in old \/ q.kind # "deprecated_invocation",
         ~registrationLooksStale(old)
  PROVE  ~registrationLooksStale(new)
BY DEF registrationLooksStale

\* A source that is not called stale after the update of the registration is
\* not called so later, however many runs append to it in parallel, while no
\* write is cut and journalctl still shows what it showed (log.go, writeFile;
\* doctor.go, registrationLooksStale).
THEOREM NewRegistrationStaysNoticed == Spec => UpdateStaysNoticed
<1>1. ASSUME IInv, Signs, [Next]_vars PROVE StaysCleared
  <2> SUFFICES ASSUME NEW source \in Sources, NEW shown \in Showings,
                      NEW new \in SUBSET (journal' \ journal),
                      Updated, torn' = {},
                      ~registrationLooksStale(readRecords(source, shown))
               PROVE  ~registrationLooksStale(readRecords(source, shown \cup new)')
    BY DEF StaysCleared
  <2> DEFINE before == readRecords(source, shown)
             after  == readRecords(source, shown \cup new)'
  <2>1. CASE source = "journal"
    <3>1. before = shown /\ after = shown \cup new
      BY <2>1 DEF readRecords
    <3>2. \A q \in new : q.kind # "deprecated_invocation"
      BY <1>1, JournalGrows, NoneHeld
    <3> HIDE DEF before, after
    <3>3. ~registrationLooksStale(before)
      BY DEF before
    <3>4. ~registrationLooksStale(after)
      BY <3>1, <3>2, <3>3, NotStaler
    <3> QED BY <3>4 DEF after
  <2>2. CASE source = "file"
    <3>1. /\ parseRecords \subseteq parseRecords'
          /\ \A q \in parseRecords' : q \in parseRecords \/ Held(q)
          /\ TooLong => TooLong'
      BY <1>1, UncutGrows, ReadsGrow
    <3>2. /\ before = IF TooLong THEN {} ELSE parseRecords
          /\ after = IF TooLong' THEN {} ELSE parseRecords'
      BY <2>2 DEF readRecords
    <3>3. CASE TooLong'
      BY <3>2, <3>3 DEF registrationLooksStale
    <3>4. CASE ~TooLong'
      <4>1. before = parseRecords /\ after = parseRecords'
        BY <3>1, <3>2, <3>4
      <4>2. \A q \in after : q \in before \/ q.kind # "deprecated_invocation"
        BY <1>1, <3>1, <4>1, NoneHeld
      <4> HIDE DEF before, after
      <4>3. ~registrationLooksStale(before)
        BY DEF before
      <4>4. ~registrationLooksStale(after)
        BY <3>1, <4>1, <4>2, <4>3, NotStaler
      <4> QED BY <4>4 DEF after
    <3> QED BY <3>3, <3>4
  <2> QED BY <2>1, <2>2 DEF Sources
<1>2. Spec => [][Next]_vars
  BY PTL DEF Spec
<1>3. IInv /\ Signs /\ [Next]_vars => [StaysCleared]_vars
  BY <1>1
<1> QED BY SignsHold, <1>2, <1>3, PTL DEF UpdateStaysNoticed
=============================================================================
