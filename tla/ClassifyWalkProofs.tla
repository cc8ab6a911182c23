------------------------- MODULE ClassifyWalkProofs -------------------------
(***************************************************************************)
(* Proofs about ClassifyWalk, for every set of names and values, every     *)
(* depth and length of command.                                            *)
(***************************************************************************)
EXTENDS ClassifyWalk, TLAPS

(***************************************************************************)
(* Types of the pieces actions are built from.                             *)
(***************************************************************************)

\* While walking there is a current frame and a shell that runs it.
LEMMA CurType ==
  ASSUME TypeOK, Walking
  PROVE  /\ Depth \in Nat \ {0}
         /\ Cur \in Frames
         /\ Cur.sh \in 1..Depth
         /\ Env \in Bindings
<1>1. frames \in Seq(Frames) /\ frames # << >>
  BY DEF TypeOK
<1>2. Depth \in Nat \ {0} /\ Cur \in Frames
  BY <1>1 DEF Depth, Cur
<1>3. Cur.sh \in 1..Depth
  BY <1>1, <1>2 DEF TypeOK, Cur, Depth
<1>4. frames[Cur.sh] \in Frames
  BY <1>1, <1>2, <1>3 DEF Depth
<1>5. QED
  BY <1>2, <1>3, <1>4 DEF Env, Frames

\* A child scope is a frame.
LEMMA ChildType ==
  ASSUME TypeOK, Walking, NEW kind \in Kinds, NEW live \in BOOLEAN
  PROVE  child(kind, live) \in Frames
<1>1. Cur \in Frames /\ Env \in Bindings /\ Depth \in Nat /\ Cur.sh \in Nat
  BY CurType DEF Frames
<1>2. NoBindings \in Bindings
  BY DEF NoBindings, Bindings
<1>3. QED
  BY <1>1, <1>2 DEF child, Frames, Heads

\* Ending a statement changes head, done and, for a chain, live only.
LEMMA ClosedType ==
  ASSUME NEW f \in Frames, NEW s \in BOOLEAN
  PROVE  /\ Closed(f, s) \in Frames
         /\ Closed(f, s).vars = f.vars
         /\ Closed(f, s).sh = f.sh
         /\ Closed(f, s).env = f.env
         /\ Closed(f, s).live => f.live
<1> DEFINE d == IF f.done = 2 THEN 2 ELSE f.done + 1
           l == f.live /\ (f.kind = "chain" => s)
<1>1. Closed(f, s) = [f EXCEPT !.head = "idle", !.done = d, !.live = l]
  BY DEF Closed
<1>2. d \in 0..2
  BY DEF Frames
<1>3. l \in BOOLEAN
  OBVIOUS
<1>4. /\ Closed(f, s) \in Frames
      /\ Closed(f, s).vars = f.vars
      /\ Closed(f, s).sh = f.sh
      /\ Closed(f, s).env = f.env
      /\ Closed(f, s).live = l
  <2> HIDE DEF d, l
  <2> QED
    BY <1>1, <1>2, <1>3 DEF Frames, Heads
<1>5. l => f.live
  BY Zenon DEF Frames
<1>6. QED
  BY <1>4, <1>5

\* A word the walk resolves has a text among the values.
LEMMA TextType ==
  ASSUME NEW w \in Words, NEW scope \in Bindings,
         resolves(w, scope) \/ rhsValue(w, scope)
  PROVE  Text(w, scope) \in Values
BY DEF Words, Lits, Loose, Params, Opaque, Text, resolves, rhsValue,
       boundParam, Bindings

\* A bound name is bound to what bash expands it to.
LEMMA ExpansionOfRhs ==
  ASSUME NEW w \in Words, NEW scope \in Bindings, NEW env \in Bindings,
         rhsValue(w, scope)
  PROVE  /\ Expansion(w, env) \in Values \cup {Unset}
         /\ (w \in Params /\ scope[w.name] # Unset
               => scope[w.name] = env[w.name])
              => Expansion(w, env) = Text(w, scope)
<1>1. CASE w \in Lits
  BY <1>1 DEF Lits, Params, Loose, Expansion, Text
<1>2. CASE w \in Params
  <2>1. w \notin Lits /\ w \notin Loose /\ w.name \in Names
    BY <1>2 DEF Lits, Params, Loose
  <2>2. Expansion(w, env) = env[w.name] /\ Text(w, scope) = scope[w.name]
    BY <1>2, <2>1 DEF Expansion, Text
  <2>3. scope[w.name] # Unset
    BY <1>2, <2>1 DEF rhsValue, boundParam
  <2>4. env[w.name] \in Values \cup {Unset}
    BY <2>1 DEF Bindings
  <2>5. QED
    BY <1>2, <2>2, <2>3, <2>4
<1>3. QED
  BY <1>1, <1>2 DEF rhsValue

-----------------------------------------------------------------------------
(***************************************************************************)
(* What each kind of step does to the stack: it keeps the stack well       *)
(* formed, and keeps the walk's bindings exact.                            *)
(***************************************************************************)

\* The part of TypeOK about the stack.
FramesOK ==
  /\ frames \in Seq(Frames)
  /\ Walking => frames # << >>
  /\ \A i \in 1..Len(frames) : frames[i].sh \in 1..i

\* The names of which the walk is never misled.
Sure == Names \ rebound

\* What an action must show of the stack it leaves.
StackKept ==
  /\ FramesOK'
  /\ ScopeExact => ScopeExact'
  /\ ExportsKept

\* Concluding drops the stack.
LEMMA ConcludeStep ==
  ASSUME NEW class \in {"ReadOnly", "NotReadOnly", "Unparseable"},
         Conclude(class)
  PROVE  StackKept
<1>1. frames' = << >> /\ Len(frames') = 0 /\ verdict' # "walking"
  BY DEF Conclude
<1>2. FramesOK'
  BY <1>1 DEF FramesOK, Walking
<1>3. ScopeExact'
  BY <1>1 DEF ScopeExact
<1>4. ExportsKept
  <2>1. \A i \in 1..Len(frames) : ~(i <= Len(frames'))
    BY <1>1
  <2>2. QED
    BY <2>1 DEF ExportsKept
<1>5. QED
  BY <1>2, <1>3, <1>4 DEF StackKept

\* A step that replaces the current frame by one with the same bindings and
\* shell, live only if it was.
LEMMA ReplaceStep ==
  ASSUME TypeOK, Walking, NEW g \in Frames,
         g.vars = Cur.vars, g.sh = Cur.sh, g.env = Cur.env,
         g.live => Cur.live, UNCHANGED rebound,
         frames' = [frames EXCEPT ![Depth] = g]
  PROVE  StackKept
<1>1. /\ frames \in Seq(Frames) /\ Depth \in Nat \ {0} /\ Depth = Len(frames)
      /\ \A i \in 1..Depth : frames[i].sh \in 1..i
      /\ Cur = frames[Depth]
  BY CurType DEF TypeOK, Depth, Cur
<1>2. frames' \in Seq(Frames) /\ Len(frames') = Depth
  BY <1>1
<1>3. ASSUME NEW i \in 1..Depth
      PROVE  /\ frames'[i].vars = frames[i].vars
             /\ frames'[i].sh = frames[i].sh
             /\ frames'[i].env = frames[i].env
             /\ frames'[i].live => frames[i].live
  <2>1. CASE i = Depth
    BY <1>1, <2>1
  <2>2. CASE i # Depth
    BY <1>1, <2>2
  <2>3. QED
    BY <2>1, <2>2
<1>4. FramesOK'
  BY <1>1, <1>2, <1>3 DEF FramesOK
<1>5. ASSUME ScopeExact PROVE ScopeExact'
  <2>1. SUFFICES ASSUME NEW i \in 1..Depth, frames'[i].live,
                        NEW x \in Sure, frames'[i].vars[x] # Unset
                 PROVE  frames'[i].vars[x] = frames'[frames'[i].sh].env[x]
    BY <1>2 DEF ScopeExact, Sure
  <2>2. frames[i].sh \in 1..Depth
    BY <1>1
  <2>3. frames[i].vars[x] = frames[frames[i].sh].env[x]
    BY <1>1, <1>3, <1>5, <2>1 DEF ScopeExact, Sure
  <2>4. QED
    BY <1>3, <2>2, <2>3
<1>6. ExportsKept
  BY <1>1, <1>3 DEF ExportsKept
<1>7. QED
  BY <1>4, <1>5, <1>6 DEF StackKept

\* Beginning a construct: its scope is the enclosing one's, its shell either
\* the same or a fork of it.
LEMMA EnterStep ==
  ASSUME TypeOK, Walking, NEW kind \in Kinds, NEW live \in BOOLEAN,
         live => Cur.live, NEW h \in Heads, Enter(kind, live, h)
  PROVE  StackKept
<1> DEFINE c == child(kind, live)
           g == [Cur EXCEPT !.head = h]
<1>1. /\ frames \in Seq(Frames) /\ Depth \in Nat \ {0} /\ Depth = Len(frames)
      /\ \A i \in 1..Depth : frames[i].sh \in 1..i
      /\ Cur = frames[Depth] /\ Cur \in Frames /\ Cur.sh \in 1..Depth
  BY CurType DEF TypeOK, Depth, Cur
<1>2. c \in Frames /\ g \in Frames
  BY <1>1, ChildType DEF Frames
<1>3. frames' = Append([frames EXCEPT ![Depth] = g], c)
  BY <1>1 DEF Enter
<1>4. /\ g.vars = Cur.vars /\ g.sh = Cur.sh /\ g.env = Cur.env
      /\ g.live = Cur.live
  BY <1>1 DEF Frames
<1>5. /\ c.vars = Cur.vars /\ c.live = live
      /\ c.sh = (IF kind \in ShellKinds THEN Depth + 1 ELSE Cur.sh)
      /\ c.env = (IF kind \in ShellKinds THEN Env ELSE NoBindings)
  BY DEF child
<1> HIDE DEF c, g
<1>6. frames' \in Seq(Frames) /\ Len(frames') = Depth + 1
  BY <1>1, <1>2, <1>3
<1>7. frames'[Depth + 1] = c
  BY <1>1, <1>2, <1>3
<1>8. ASSUME NEW i \in 1..Depth
      PROVE  /\ frames'[i].vars = frames[i].vars
             /\ frames'[i].sh = frames[i].sh
             /\ frames'[i].env = frames[i].env
             /\ frames'[i].live = frames[i].live
  <2>1. frames'[i] = [frames EXCEPT ![Depth] = g][i]
    BY <1>1, <1>2, <1>3
  <2>2. CASE i = Depth
    BY <1>1, <1>4, <2>1, <2>2
  <2>3. CASE i # Depth
    BY <1>1, <2>1, <2>3
  <2>4. QED
    BY <2>2, <2>3
<1>9. c.sh \in 1..(Depth + 1)
  BY <1>1, <1>5
<1>10. FramesOK'
  BY <1>1, <1>6, <1>7, <1>8, <1>9 DEF FramesOK
<1>11. ASSUME ScopeExact PROVE ScopeExact'
  <2>1. SUFFICES ASSUME NEW i \in 1..(Depth + 1), frames'[i].live,
                        NEW x \in Sure, frames'[i].vars[x] # Unset
                 PROVE  frames'[i].vars[x] = frames'[frames'[i].sh].env[x]
    BY <1>6 DEF ScopeExact, Sure, Enter
  <2>2. CASE i \in 1..Depth
    <3>1. frames[i].sh \in 1..Depth
      BY <1>1, <2>2
    <3>2. frames[i].vars[x] = frames[frames[i].sh].env[x]
      BY <1>1, <1>8, <1>11, <2>1, <2>2 DEF ScopeExact, Sure
    <3>3. QED
      BY <1>8, <2>2, <3>1, <3>2
  <2>3. CASE i = Depth + 1
    <3>1. Cur.live /\ Cur.vars[x] # Unset
      BY <1>5, <1>7, <2>1, <2>3
    <3>2. Cur.vars[x] = Env[x]
      BY <1>1, <1>11, <3>1 DEF ScopeExact, Sure, Env
    <3>3. frames'[c.sh].env[x] = Env[x]
      <4>1. CASE kind \in ShellKinds
        BY <1>1, <1>5, <1>7, <4>1
      <4>2. CASE kind \notin ShellKinds
        BY <1>1, <1>5, <1>8, <4>2 DEF Env
      <4>3. QED
        BY <4>1, <4>2
    <3>4. QED
      BY <1>5, <1>7, <2>3, <3>2, <3>3
  <2>4. QED
    BY <1>1, <2>2, <2>3
<1>12. ExportsKept
  BY <1>1, <1>8 DEF ExportsKept
<1>13. QED
  BY <1>10, <1>11, <1>12 DEF StackKept

\* Leaving a construct uncovers the enclosing frame as it was entered.
LEMMA LeaveStep ==
  ASSUME TypeOK, Leave
  PROVE  StackKept
<1>0. Walking /\ Depth > 1
  BY DEF Leave
<1>1. /\ frames \in Seq(Frames) /\ Depth \in Nat \ {0} /\ Depth = Len(frames)
      /\ \A i \in 1..Depth : frames[i].sh \in 1..i
      /\ ok \in BOOLEAN
  BY <1>0, CurType DEF TypeOK, Depth, Cur
<1>2. CASE Cur.done = 0
  BY <1>2, ConcludeStep DEF Leave, Refuse
<1>3. CASE Cur.done # 0
  <2> DEFINE D == Depth - 1
             open == Cur.kind \in {"subst", "orX", "pipeX"}
             g == IF open THEN frames[D] ELSE Closed(frames[D], ok)
  <2>1. frames' = [i \in 1..D |-> IF i < D THEN frames[i] ELSE g]
    BY <1>3 DEF Leave, Returned
  <2>2. D \in Nat \ {0} /\ D < Depth /\ frames[D] \in Frames
    BY <1>0, <1>1
  <2>3. /\ g \in Frames /\ g.vars = frames[D].vars /\ g.sh = frames[D].sh
        /\ g.env = frames[D].env /\ (g.live => frames[D].live)
    BY <1>1, <2>2, ClosedType
  <2> HIDE DEF g, open
  <2>4. \A i \in 1..D : (IF i < D THEN frames[i] ELSE g) \in Frames
    BY <1>1, <2>2, <2>3
  <2>5. frames' \in Seq(Frames) /\ Len(frames') = D
    BY <2>1, <2>2, <2>4
  <2>6. ASSUME NEW i \in 1..D
        PROVE  /\ frames'[i].vars = frames[i].vars
               /\ frames'[i].sh = frames[i].sh
               /\ frames'[i].env = frames[i].env
               /\ frames'[i].live => frames[i].live
    <3>1. CASE i < D
      BY <2>1, <3>1
    <3>2. CASE i = D
      BY <2>1, <2>3, <3>2
    <3>3. QED
      BY <2>2, <3>1, <3>2
  <2>7. FramesOK'
    BY <1>1, <2>2, <2>5, <2>6 DEF FramesOK
  <2>8. ASSUME ScopeExact PROVE ScopeExact'
    <3>1. SUFFICES ASSUME NEW i \in 1..D, frames'[i].live,
                          NEW x \in Sure, frames'[i].vars[x] # Unset
                   PROVE  frames'[i].vars[x] = frames'[frames'[i].sh].env[x]
      BY <1>3, <2>5 DEF ScopeExact, Sure, Leave
    <3>2. i \in 1..Depth /\ frames[i].sh \in 1..D
      BY <1>1, <2>2
    <3>3. frames[i].vars[x] = frames[frames[i].sh].env[x]
      BY <1>1, <2>6, <2>8, <3>1, <3>2 DEF ScopeExact, Sure
    <3>4. QED
      BY <2>6, <3>2, <3>3
  <2>9. ExportsKept
    BY <1>1, <2>5, <2>6 DEF ExportsKept
  <2>10. QED
    BY <2>7, <2>8, <2>9 DEF StackKept
<1>4. QED
  BY <1>2, <1>3

\* An assignment that binds: bash and the walk store the same value, and no
\* enclosing scope of the same shell holds another one for the name, unless the
\* name is rebound from here on.
LEMMA BindStep ==
  ASSUME TypeOK, Walking,
         NEW x \in Names, NEW w \in Words, NEW last \in BOOLEAN,
         bindAssigns(x, w, last), rhsValue(w, Cur.vars), bindableName(x)
  PROVE  StackKept
<1> DEFINE v == Text(w, Cur.vars)
           e == Expansion(w, Env)
           b == [Cur EXCEPT !.vars[x] = v]
           g == IF last THEN Closed(b, TRUE) ELSE [b EXCEPT !.head = "assign"]
<1>1. /\ frames \in Seq(Frames) /\ Depth \in Nat \ {0} /\ Depth = Len(frames)
      /\ \A i \in 1..Depth : frames[i].sh \in 1..i
      /\ Cur = frames[Depth] /\ Cur \in Frames /\ Cur.sh \in 1..Depth
      /\ Env \in Bindings /\ Env = frames[Cur.sh].env
  BY CurType DEF TypeOK, Depth, Cur, Env
<1>2. v \in Values /\ e \in Values \cup {Unset}
  BY <1>1, TextType, ExpansionOfRhs DEF Frames
<1>3. /\ b \in Frames /\ b.vars = [Cur.vars EXCEPT ![x] = v]
      /\ b.sh = Cur.sh /\ b.env = Cur.env /\ b.live = Cur.live
  BY <1>1, <1>2 DEF Frames, Bindings
<1>4. /\ g \in Frames /\ g.vars = [Cur.vars EXCEPT ![x] = v]
      /\ g.sh = Cur.sh /\ g.env = Cur.env /\ (g.live => Cur.live)
  <2>1. CASE last
    <3> HIDE DEF b
    <3>1. QED BY <1>3, <2>1, ClosedType
  <2>2. CASE ~last
    <3> HIDE DEF b
    <3>1. QED BY <1>3, <2>2 DEF Frames, Heads
  <2>3. QED
    BY <2>1, <2>2
<1>5. /\ Cur.live => frames' = [frames EXCEPT ![Depth] = g,
                                             ![Cur.sh].env[x] = e]
      /\ ~Cur.live => frames' = [frames EXCEPT ![Depth] = g]
  BY DEF bindAssigns
<1>6. ASSUME x \in Sure', Cur.live
      PROVE  /\ \A i \in 1..(Depth - 1) :
                  frames[i].sh = Cur.sh => frames[i].vars[x] = Unset
             /\ w \in Params => w.name \in Sure
  <2>1. ~Rebinding(x, w)
    BY <1>6 DEF bindAssigns, Sure
  <2>2. w \in Params => w.name \in Names
    BY DEF Params
  <2>3. QED
    BY <1>6, <2>1, <2>2 DEF Rebinding, boundParam, Sure
<1> DEFINE fs == [frames EXCEPT ![Depth] = g]
<1>7. /\ fs \in Seq(Frames) /\ Len(fs) = Depth
      /\ fs[Depth] = g
      /\ \A i \in 1..Depth : i # Depth => fs[i] = frames[i]
      /\ \A i \in 1..Depth : fs[i].sh = frames[i].sh /\ fs[i].env = frames[i].env
  <2> HIDE DEF g
  <2> QED BY <1>1, <1>4
<1>8. /\ Cur.live => frames' = [fs EXCEPT ![Cur.sh].env[x] = e]
      /\ ~Cur.live => frames' = fs
  <2> HIDE DEF g, e
  <2> QED BY <1>5
<1> HIDE DEF fs, g, e, v, b
<1>9. /\ frames' \in Seq(Frames) /\ Len(frames') = Depth
      /\ \A i \in 1..Depth : /\ frames'[i].vars = fs[i].vars
                             /\ frames'[i].sh = fs[i].sh
                             /\ frames'[i].live = fs[i].live
  <2>1. fs[Cur.sh] \in Frames /\ [fs[Cur.sh] EXCEPT !.env[x] = e] \in Frames
    <3>1. fs[Cur.sh] \in Frames
      BY <1>1, <1>7
    <3>2. [fs[Cur.sh].env EXCEPT ![x] = e] \in Bindings
      BY <1>2, <3>1 DEF Frames, Bindings
    <3>3. QED
      BY <3>1, <3>2 DEF Frames
  <2>2. CASE Cur.live
    <3>1. frames' = [fs EXCEPT ![Cur.sh] = [fs[Cur.sh] EXCEPT !.env[x] = e]]
      BY <1>8, <2>2
    <3>2. [fs[Cur.sh] EXCEPT !.env[x] = e].vars = fs[Cur.sh].vars
      BY <2>1 DEF Frames
    <3>3. [fs[Cur.sh] EXCEPT !.env[x] = e].sh = fs[Cur.sh].sh
      BY <2>1 DEF Frames
    <3>4. [fs[Cur.sh] EXCEPT !.env[x] = e].live = fs[Cur.sh].live
      BY <2>1 DEF Frames
    <3>5. QED
      BY <1>1, <1>7, <2>1, <3>1, <3>2, <3>3, <3>4
  <2>3. CASE ~Cur.live
    BY <1>7, <1>8, <2>3
  <2>4. QED
    BY <2>2, <2>3
<1>10. FramesOK'
  BY <1>1, <1>7, <1>9 DEF FramesOK
<1>11. ASSUME NEW i \in 1..Depth, NEW y \in Names
       PROVE  frames'[i].env[y] =
                (IF Cur.live /\ i = Cur.sh /\ y = x THEN e ELSE frames[i].env[y])
  <2>1. fs[i] \in Frames /\ fs[i].env \in Bindings
    <3>1. fs[i] \in Frames
      BY <1>1, <1>7
    <3>2. QED
      BY <3>1 DEF Frames
  <2>2. CASE Cur.live
    <3>1. i = Cur.sh => frames'[i] = [fs[i] EXCEPT !.env[x] = e]
      BY <1>7, <1>8, <2>2
    <3>2. i # Cur.sh => frames'[i] = fs[i]
      BY <1>7, <1>8, <2>2
    <3>3. i = Cur.sh => frames'[i].env = [fs[i].env EXCEPT ![x] = e]
      BY <2>1, <3>1 DEF Frames
    <3>4. QED
      BY <1>7, <2>1, <2>2, <3>2, <3>3 DEF Bindings
  <2>3. CASE ~Cur.live
    BY <1>7, <1>8, <2>3
  <2>4. QED
    BY <2>2, <2>3
<1>12. ASSUME ScopeExact PROVE ScopeExact'
  <2>1. SUFFICES ASSUME NEW i \in 1..Depth, frames'[i].live,
                        NEW y \in Sure', frames'[i].vars[y] # Unset
                 PROVE  frames'[i].vars[y] = frames'[frames'[i].sh].env[y]
    BY <1>9 DEF ScopeExact, Sure
  <2>0. y \in Sure
    BY DEF bindAssigns, Sure
  <2>2. frames'[i].sh = frames[i].sh /\ frames[i].sh \in 1..Depth
    BY <1>1, <1>7, <1>9
  <2>3. CASE i # Depth
    <3>0. y \in Names
      BY DEF Sure
    <3>1. frames'[i].vars = frames[i].vars /\ frames[i].live
      BY <1>7, <1>9, <2>1, <2>3
    <3>2. frames[i].vars[y] = frames[frames[i].sh].env[y]
      BY <1>1, <1>12, <2>0, <2>1, <3>1 DEF ScopeExact, Sure
    <3>3. ~(Cur.live /\ frames[i].sh = Cur.sh /\ y = x)
      BY <1>1, <1>6, <1>12, <2>1, <2>3, <3>1
    <3>4. QED
      BY <1>11, <2>2, <3>0, <3>1, <3>2, <3>3
  <2>4. CASE i = Depth
    <3>1. frames'[i].vars = [Cur.vars EXCEPT ![x] = v] /\ Cur.live
      BY <1>4, <1>7, <1>9, <2>1, <2>4
    <3>2. \A z \in Sure : Cur.vars[z] # Unset => Cur.vars[z] = Env[z]
      BY <1>1, <1>12, <3>1 DEF ScopeExact, Sure
    <3>3. CASE y = x
      <4>1. w \in Params /\ Cur.vars[w.name] # Unset
              => Cur.vars[w.name] = Env[w.name]
        BY <1>6, <2>1, <3>1, <3>2, <3>3
      <4>2. e = v
        BY <1>1, <4>1, ExpansionOfRhs DEF e, v, Frames
      <4>3. QED
        BY <1>1, <1>11, <2>2, <2>4, <3>1, <3>3, <4>2 DEF Frames, Bindings
    <3>4. CASE y # x /\ y \in Names
      BY <1>1, <1>11, <2>0, <2>1, <2>2, <2>4, <3>1, <3>2, <3>4
         DEF Frames, Bindings
    <3>5. QED
      BY <3>3, <3>4 DEF Sure
  <2>5. QED
    BY <2>3, <2>4
<1>13. ExportsKept
  <2>1. x \notin EnvNames /\ EnvNames \subseteq Names
    BY NamesAssumption DEF bindableName
  <2>2. QED
    BY <1>1, <1>11, <2>1 DEF ExportsKept
<1>14. QED
  BY <1>10, <1>12, <1>13 DEF StackKept

\* Every step keeps the stack: one case per action.
LEMMA NextStack ==
  ASSUME TypeOK, Next
  PROVE  StackKept
<1>1. ASSUME NEW class \in {"ReadOnly", "NotReadOnly", "Unparseable"},
             Conclude(class)
      PROVE  StackKept
  BY <1>1, ConcludeStep
<1>2. Refuse => StackKept
  BY <1>1 DEF Refuse
<1>3. \A h \in Heads :
        /\ Walking /\ UNCHANGED rebound
        /\ frames' = [frames EXCEPT ![Depth].head = h]
        => StackKept
  <2>1. SUFFICES ASSUME NEW h \in Heads, Walking, UNCHANGED rebound,
                        frames' = [frames EXCEPT ![Depth].head = h]
                 PROVE  StackKept
    OBVIOUS
  <2> DEFINE g == [Cur EXCEPT !.head = h]
  <2>2. Cur \in Frames
    BY <2>1, CurType
  <2>3. /\ g \in Frames /\ g.vars = Cur.vars /\ g.sh = Cur.sh
        /\ g.env = Cur.env /\ g.live = Cur.live
    BY <2>2 DEF Frames
  <2>4. frames' = [frames EXCEPT ![Depth] = g]
    BY <2>1 DEF Cur
  <2> HIDE DEF g
  <2>5. QED
    BY <2>1, <2>3, <2>4, ReplaceStep
<1>4. CASE ParseFails
  BY <1>2, <1>4 DEF ParseFails
<1>5. ASSUME NEW x \in Names, NEW w \in Words, NEW last \in BOOLEAN,
             bindAssigns(x, w, last)
      PROVE  StackKept
  <2>1. Walking
    BY <1>5 DEF bindAssigns, MayStart
  <2>2. CASE bindableName(x) /\ rhsValue(w, Cur.vars)
    BY <1>5, <2>1, <2>2, BindStep
  <2>3. CASE ~(bindableName(x) /\ rhsValue(w, Cur.vars))
    BY <1>2, <1>5, <2>3 DEF bindAssigns
  <2>4. QED
    BY <2>2, <2>3
<1>6. ASSUME NEW r \in Redirects, Redirect(r)
      PROVE  StackKept
  <2>1. Walking
    BY <1>6 DEF Redirect, MayStart
  <2>2. CASE safeRedirect(r, Cur.vars)
    <3>1. r.fd = Unset
      BY <2>2 DEF safeRedirect
    <3>2. UNCHANGED rebound /\ frames' = [frames EXCEPT ![Depth].head = "redir"]
      BY <1>6, <2>2, <3>1 DEF Redirect
    <3>3. QED
      BY <1>3, <2>1, <3>2 DEF Heads
  <2>3. CASE ~safeRedirect(r, Cur.vars)
    BY <1>2, <1>6, <2>3 DEF Redirect
  <2>4. QED
    BY <2>2, <2>3
<1>7. ASSUME NEW w \in Words, argTokens(w)
      PROVE  StackKept
  <2>1. Walking
    BY <1>7 DEF argTokens, MayStart
  <2>2. CASE resolves(w, Cur.vars)
    BY <1>3, <1>7, <2>1, <2>2 DEF argTokens, Heads
  <2>3. CASE ~resolves(w, Cur.vars)
    BY <1>2, <1>7, <2>3 DEF argTokens
  <2>4. QED
    BY <2>2, <2>3
<1>8. ASSUME NEW accepted \in BOOLEAN, NEW succeeds \in BOOLEAN,
             classifyCall(accepted, succeeds)
      PROVE  StackKept
  <2>1. Walking
    BY <1>8 DEF classifyCall, MayStart
  <2>2. CASE accepted
    <3> DEFINE status == IF Cur.live THEN succeeds ELSE ok
    <3>1. status \in BOOLEAN /\ Cur \in Frames
      BY <2>1, CurType DEF TypeOK
    <3>2. /\ UNCHANGED rebound
          /\ frames' = [frames EXCEPT ![Depth] = Closed(Cur, status)]
      BY <1>8, <2>2 DEF classifyCall
    <3> HIDE DEF status
    <3>3. QED
      BY <2>1, <3>1, <3>2, ClosedType, ReplaceStep
  <2>3. CASE ~accepted
    BY <1>2, <1>8, <2>3 DEF classifyCall
  <2>4. QED
    BY <2>2, <2>3
<1>9. ASSUME NEW kind \in Kinds, NEW live \in BOOLEAN, live => Cur.live,
             NEW h \in Heads, Walking, Enter(kind, live, h)
      PROVE  StackKept
  BY <1>9, EnterStep
<1>10. Walking => Cur.live \in BOOLEAN
  BY CurType DEF Frames
<1>11. ok \in BOOLEAN
  BY DEF TypeOK
<1>12. CASE EnterChain
  BY <1>9, <1>10, <1>12 DEF EnterChain, MayBranch, MayStart, Kinds, Heads
<1>13. CASE EnterOr
  BY <1>9, <1>10, <1>13 DEF EnterOr, MayBranch, MayStart, Kinds, Heads
<1>14. CASE EnterPipe
  BY <1>9, <1>10, <1>14 DEF EnterPipe, MayStart, Kinds, ShellKinds, Heads
<1>15. CASE EnterRight
  <2>1. Walking
    BY <1>15 DEF EnterRight
  <2>2. CASE Enter("orY", Cur.live /\ ~ok, "idle")
    <3>1. (Cur.live /\ ~ok) \in BOOLEAN
      OBVIOUS
    <3>2. "orY" \in Kinds /\ "idle" \in Heads
      BY DEF Kinds, Heads
    <3>3. QED
      BY <1>9, <2>1, <2>2, <3>1, <3>2
  <2>3. CASE Enter("pipeY", Cur.live, "idle")
    BY <1>9, <1>10, <2>1, <2>3 DEF Kinds, ShellKinds, Heads
  <2>4. QED
    BY <1>15, <2>2, <2>3 DEF EnterRight
<1>16. ASSUME NEW opened \in BOOLEAN, EnterSubshell(opened)
       PROVE  StackKept
  <2>1. Walking /\ Enter("subshell", Cur.live /\ opened, "idle")
    BY <1>16 DEF EnterSubshell, MayStart
  <2>2. (Cur.live /\ opened) \in BOOLEAN
    OBVIOUS
  <2>3. "subshell" \in Kinds /\ "idle" \in Heads
    BY DEF Kinds, ShellKinds, Heads
  <2>4. QED
    BY <1>9, <2>1, <2>2, <2>3
<1>17. CASE EnterSubst
  BY <1>9, <1>10, <1>17 DEF EnterSubst, MayStart, Kinds, ShellKinds, Heads
<1>18. CASE Leave
  BY <1>18, LeaveStep
<1>19. CASE RefuseStmt
  BY <1>2, <1>19 DEF RefuseStmt
<1>20. CASE UnknownConstruct
  BY <1>1, <1>20 DEF UnknownConstruct
<1>21. CASE Finish
  BY <1>1, <1>2, <1>21 DEF Finish
<1>22. QED
  BY <1>4, <1>5, <1>6, <1>7, <1>8, <1>12, <1>13, <1>14, <1>15, <1>16, <1>17,
     <1>18, <1>19, <1>20, <1>21 DEF Next

-----------------------------------------------------------------------------
(***************************************************************************)
(* What bash makes of a word and of a redirect the walk accepted in a      *)
(* construct whose bindings are exact.                                     *)
(***************************************************************************)

\* The bindings scope of names that are not rebound are those of the shell env.
Agrees(scope, env) == \A x \in Sure : scope[x] # Unset => scope[x] = env[x]

\* A resolved word that is neither a loosely spelled literal nor an expansion of
\* a rebound name is one argument, the walk's text.
LEMMA FaithfulWord ==
  ASSUME NEW w \in Words, NEW scope, NEW env, Agrees(scope, env),
         resolves(w, scope), w \notin Loose,
         w \in Params => w.name \in Sure
  PROVE  BashArgs(w, env) = << Text(w, scope) >>
<1>1. CASE w \in Lits
  <2>1. /\ w.form = "lit" /\ w.text # Unset
        /\ Expansion(w, env) = w.text /\ Text(w, scope) = w.text
    BY <1>1, ValuesAssumption DEF Expansion, Text, Lits, Params
  <2>2. QED
    BY <2>1 DEF BashArgs
<1>2. CASE w \in Params
  <2>1. w \notin Lits /\ w \notin Loose /\ w.name \in Sure
    BY <1>2 DEF Lits, Params, Loose
  <2>2. /\ scope[w.name] # Unset
        /\ w.form = "bare" => scope[w.name] \notin Splittable
    BY <1>2, <2>1 DEF resolves, boundParam, unquotedSafe
  <2>3. scope[w.name] = env[w.name]
    BY <2>1, <2>2 DEF Agrees
  <2>4. QED
    BY <1>2, <2>1, <2>2, <2>3 DEF BashArgs, Expansion, Text
<1>3. QED
  BY <1>1, <1>2 DEF resolves

\* A redirect the walk accepts opens for writing nothing but /dev/null and
\* confirmed scratch files, >&FILE and the rebound names apart.
LEMMA ConfinedRedirect ==
  ASSUME NEW r \in Redirects, NEW scope, NEW env,
         Agrees(scope, env), safeRedirect(r, scope),
         NEW o \in OpensForWriting(r, env)
  PROVE  o.via \in rebound \/ o.dup \/ Confined(o.path)
<1>1. /\ << o.path >> = BashArgs(r.word, env)
      /\ o.via = Spelling(r.word)
      /\ \/ r.op \in {"write", "inout"} /\ ~o.dup
         \/ r.op = "dupOut" /\ o.dup /\ o.path \notin FdWords
  BY DEF OpensForWriting
<1>2. r.word \in Words /\ resolves(r.word, scope)
  BY DEF Redirects, Words, safeRedirect
<1>3. SUFFICES ASSUME ~o.dup, r.word \in Params => r.word.name \notin rebound
               PROVE  Confined(o.path)
  BY <1>1 DEF Spelling
<1>4. CASE r.word \in Loose
  BY <1>1, <1>3, <1>4 DEF safeRedirect, exactPath, Text, Loose, Params
<1>5. CASE r.word \notin Loose
  <2>1. r.word \in Params => r.word.name \in Sure
    BY <1>3 DEF Params, Sure
  <2>2. o.path = Text(r.word, scope)
    BY <1>1, <1>2, <1>5, <2>1, FaithfulWord
  <2>3. QED
    BY <1>1, <1>3, <1>5, <2>2 DEF safeRedirect, scratchWriteOK, Confined
<1>6. QED
  BY <1>4, <1>5

-----------------------------------------------------------------------------
(***************************************************************************)
(* The variables besides the stack.                                        *)
(***************************************************************************)

\* The part of TypeOK about the variables besides the stack.
RestOK ==
  /\ verdict \in {"walking", "ReadOnly", "NotReadOnly", "Unparseable"}
  /\ stmts \in Nat
  /\ onlyAssigns \in BOOLEAN
  /\ ok \in BOOLEAN
  /\ writes \subseteq Opens
  /\ misread \subseteq Names \cup {Unset}
  /\ rebound \subseteq Names

\* TypeOK is about the stack and about the rest.
LEMMA TypeParts == TypeOK <=> FramesOK /\ RestOK
BY DEF TypeOK, FramesOK, RestOK

\* Every step keeps those types.
LEMMA NextRest ==
  ASSUME TypeOK, Next
  PROVE  RestOK'
<1>1. RestOK
  BY TypeParts
<1>2. Walking => Cur.live \in BOOLEAN
  BY CurType DEF Frames
<1>3. \A class \in {"ReadOnly", "NotReadOnly", "Unparseable"} :
        Conclude(class) => RestOK'
  BY <1>1 DEF Conclude, RestOK
<1>4. Refuse => RestOK'
  BY <1>3 DEF Refuse
<1>5. ASSUME NEW x \in Names, NEW w \in Words, NEW last \in BOOLEAN,
             bindAssigns(x, w, last)
      PROVE  RestOK'
  <2>1. CASE bindableName(x) /\ rhsValue(w, Cur.vars)
    <3>1. /\ ok' = (ok \/ Cur.live)
          /\ stmts' = IF last THEN stmts + 1 ELSE stmts
          /\ writes' = {} /\ rebound' \subseteq rebound \cup {x}
          /\ misread' = {} /\ UNCHANGED <<verdict, onlyAssigns>>
      BY <1>5, <2>1 DEF bindAssigns
    <3>2. (ok \/ Cur.live) \in BOOLEAN
      OBVIOUS
    <3>3. QED
      BY <1>1, <3>1, <3>2 DEF RestOK
  <2>2. CASE ~(bindableName(x) /\ rhsValue(w, Cur.vars))
    BY <1>4, <1>5, <2>2 DEF bindAssigns
  <2>3. QED
    BY <2>1, <2>2
<1>6. ASSUME NEW r \in Redirects, Redirect(r)
      PROVE  RestOK'
  <2>1. OpensForWriting(r, Env) \subseteq Opens
    <3>1. Spelling(r.word) \in Names \cup {Unset}
      BY DEF Spelling, Params
    <3>2. QED
      BY <3>1 DEF OpensForWriting, Opens
  <2>2. QED
    BY <1>1, <1>4, <1>6, <2>1 DEF Redirect, RestOK
<1>7. ASSUME NEW w \in Words, argTokens(w)
      PROVE  RestOK'
  <2>1. Spelling(w) \in Names \cup {Unset}
    BY DEF Spelling, Params
  <2>2. QED
    BY <1>1, <1>4, <1>7, <2>1 DEF argTokens, RestOK
<1>8. ASSUME NEW accepted \in BOOLEAN, NEW succeeds \in BOOLEAN,
             classifyCall(accepted, succeeds)
      PROVE  RestOK'
  <2>1. CASE accepted
    <3> DEFINE status == IF Cur.live THEN succeeds ELSE ok
    <3>1. /\ ok' = status /\ stmts' = stmts + 1
          /\ onlyAssigns' = (onlyAssigns /\ Depth > 1)
          /\ writes' = {} /\ misread' = {} /\ UNCHANGED <<verdict, rebound>>
      BY <1>8, <2>1 DEF classifyCall
    <3>2. status \in BOOLEAN /\ (onlyAssigns /\ Depth > 1) \in BOOLEAN
      BY <1>1 DEF RestOK
    <3> HIDE DEF status
    <3>3. QED
      BY <1>1, <3>1, <3>2 DEF RestOK
  <2>2. CASE ~accepted
    BY <1>4, <1>8, <2>2 DEF classifyCall
  <2>3. QED
    BY <2>1, <2>2
<1>9. ASSUME NEW kind, NEW live, NEW h, Enter(kind, live, h), ok' \in BOOLEAN
      PROVE  RestOK'
  BY <1>1, <1>9 DEF Enter, RestOK
<1>10. CASE EnterChain
  BY <1>1, <1>9, <1>10 DEF EnterChain, RestOK
<1>11. CASE EnterOr
  BY <1>1, <1>9, <1>11 DEF EnterOr, RestOK
<1>12. CASE EnterPipe
  BY <1>1, <1>9, <1>12 DEF EnterPipe, RestOK
<1>13. CASE EnterRight
  BY <1>1, <1>9, <1>13 DEF EnterRight, RestOK
<1>14. ASSUME NEW opened \in BOOLEAN, EnterSubshell(opened)
       PROVE  RestOK'
  BY <1>1, <1>9, <1>14 DEF EnterSubshell, RestOK
<1>15. CASE EnterSubst
  BY <1>1, <1>9, <1>15 DEF EnterSubst, RestOK
<1>16. CASE Leave
  BY <1>1, <1>4, <1>16 DEF Leave, RestOK
<1>17. CASE ParseFails \/ RefuseStmt
  BY <1>4, <1>17 DEF ParseFails, RefuseStmt
<1>18. CASE UnknownConstruct \/ Finish
  BY <1>3, <1>4, <1>18 DEF UnknownConstruct, Finish
<1>19. QED
  BY <1>5, <1>6, <1>7, <1>8, <1>10, <1>11, <1>12, <1>13, <1>14, <1>15, <1>16,
     <1>17, <1>18 DEF Next

\* Every step keeps the arguments and the writes right, from exact bindings.
LEMMA NextEffects ==
  ASSUME TypeOK, ScopeExact, ArgvExact, Next
  PROVE  ArgvExact' /\ WritesConfined'
<1>1. Walking /\ Cur.live => Agrees(Cur.vars, Env)
  <2>1. SUFFICES ASSUME Walking, Cur.live
                 PROVE  Agrees(Cur.vars, Env)
    OBVIOUS
  <2>2. Depth \in 1..Len(frames)
    BY <2>1, CurType DEF Depth
  <2>3. QED
    BY <2>1, <2>2 DEF ScopeExact, Agrees, Sure, Cur, Env
<1>2. writes' = {} /\ misread' = {} => ArgvExact' /\ WritesConfined'
  BY DEF ArgvExact, WritesConfined
<1>3. \A class : Conclude(class) => ArgvExact' /\ WritesConfined'
  BY <1>2 DEF Conclude
<1>4. Refuse => ArgvExact' /\ WritesConfined'
  BY <1>3 DEF Refuse
<1>5. ASSUME NEW r \in Redirects, Redirect(r)
      PROVE  ArgvExact' /\ WritesConfined'
  <2>1. CASE ~safeRedirect(r, Cur.vars)
    BY <1>4, <1>5, <2>1 DEF Redirect
  <2>2. CASE safeRedirect(r, Cur.vars)
    <3>1. Walking /\ misread' = {} /\ UNCHANGED rebound
      BY <1>5, <2>2 DEF Redirect, MayStart
    <3>2. writes' = IF Cur.live THEN OpensForWriting(r, Env) ELSE {}
      BY <1>5, <2>2 DEF Redirect
    <3>3. Cur.live =>
            \A o \in OpensForWriting(r, Env) :
              o.via \in rebound \/ o.dup \/ Confined(o.path)
      BY <1>1, <2>2, <3>1, ConfinedRedirect
    <3>4. WritesConfined'
      BY <3>1, <3>2, <3>3 DEF WritesConfined, Confined
    <3>5. QED
      BY <3>1, <3>4 DEF ArgvExact
  <2>3. QED
    BY <2>1, <2>2
<1>6. ASSUME NEW w \in Words, argTokens(w)
      PROVE  ArgvExact' /\ WritesConfined'
  <2>1. CASE ~resolves(w, Cur.vars)
    BY <1>4, <1>6, <2>1 DEF argTokens
  <2>2. CASE resolves(w, Cur.vars)
    <3>1. Walking /\ UNCHANGED rebound /\ writes' = {}
      BY <1>6, <2>2 DEF argTokens, MayStart
    <3>2. Cur.live /\ Spelling(w) \notin rebound \cup {Unset}
            => BashArgs(w, Env) = << Text(w, Cur.vars) >>
      <4>1. Spelling(w) # Unset => w \in Params /\ Spelling(w) = w.name
        BY DEF Spelling
      <4>2. w \in Params => w \notin Loose /\ w.name \in Names
        BY DEF Params, Loose
      <4>3. QED
        BY <1>1, <2>2, <3>1, <4>1, <4>2, FaithfulWord DEF Sure
    <3>3. misread' \subseteq rebound \cup {Unset}
      BY <1>6, <2>2, <3>2 DEF argTokens
    <3>4. QED
      BY <3>1, <3>3 DEF ArgvExact, WritesConfined
  <2>3. QED
    BY <2>1, <2>2
<1>7. ASSUME NEW x \in Names, NEW w \in Words, NEW last \in BOOLEAN,
             bindAssigns(x, w, last)
      PROVE  ArgvExact' /\ WritesConfined'
  BY <1>2, <1>4, <1>7 DEF bindAssigns
<1>8. ASSUME NEW accepted \in BOOLEAN, NEW succeeds \in BOOLEAN,
             classifyCall(accepted, succeeds)
      PROVE  ArgvExact' /\ WritesConfined'
  BY <1>2, <1>4, <1>8 DEF classifyCall
<1>9. ASSUME \/ EnterChain \/ EnterOr \/ EnterPipe \/ EnterRight \/ EnterSubst
             \/ \E opened \in BOOLEAN : EnterSubshell(opened)
      PROVE  ArgvExact' /\ WritesConfined'
  BY <1>2, <1>9 DEF EnterChain, EnterOr, EnterPipe, EnterRight, EnterSubst,
                    EnterSubshell, Enter
<1>10. Leave => ArgvExact' /\ WritesConfined'
  BY <1>2, <1>4 DEF Leave
<1>11. ParseFails \/ RefuseStmt \/ UnknownConstruct \/ Finish
         => ArgvExact' /\ WritesConfined'
  BY <1>3, <1>4 DEF ParseFails, RefuseStmt, UnknownConstruct, Finish
<1>12. QED
  BY <1>5, <1>6, <1>7, <1>8, <1>9, <1>10, <1>11 DEF Next

-----------------------------------------------------------------------------
(***************************************************************************)
(* The theorems.                                                           *)
(***************************************************************************)

\* In the first state only the file's frame exists, with nothing bound.
LEMMA InitHolds ==
  ASSUME Init
  PROVE  TypeOK /\ ScopeExact /\ ArgvExact /\ WritesConfined
<1>1. PICK e \in Environments :
        frames = << [kind |-> "file", vars |-> NoBindings, live |-> TRUE,
                     sh |-> 1, env |-> e, head |-> "idle", done |-> 0] >>
  BY DEF Init
<1>2. e \in Bindings /\ NoBindings \in Bindings
  BY EnvironmentsAssumption DEF NoBindings, Bindings
<1>3. [kind |-> "file", vars |-> NoBindings, live |-> TRUE,
       sh |-> 1, env |-> e, head |-> "idle", done |-> 0] \in Frames
  BY <1>2 DEF Frames, Kinds, ListKinds, Heads
<1>4. frames \in Seq(Frames) /\ Len(frames) = 1 /\ frames # << >>
      /\ frames[1].sh = 1 /\ frames[1].vars = NoBindings
  BY <1>1, <1>3
<1>5. FramesOK
  BY <1>4 DEF FramesOK
<1>6. RestOK
  BY DEF Init, RestOK
<1>7. ScopeExact
  BY <1>4 DEF ScopeExact, NoBindings
<1>8. ArgvExact /\ WritesConfined
  BY DEF Init, ArgvExact, WritesConfined
<1>9. QED
  BY <1>5, <1>6, <1>7, <1>8, TypeParts

\* Every step, stuttering included, keeps TypeOK.
LEMMA TypeStep == TypeOK /\ [Next]_vars => TypeOK'
<1>1. CASE Next
  <2>1. TypeOK /\ Next => FramesOK' /\ RestOK'
    BY NextStack, NextRest DEF StackKept
  <2>2. FramesOK' /\ RestOK' => TypeOK'
    BY TypeParts DEF FramesOK, RestOK, TypeOK, Walking
  <2>3. QED
    BY <1>1, <2>1, <2>2
<1>2. CASE UNCHANGED vars
  BY <1>2 DEF vars, TypeOK, Walking
<1>3. QED
  BY <1>1, <1>2

\* The walk's and the shells' variables keep their types.
THEOREM TypeCorrect == Spec => []TypeOK
<1>1. Init => TypeOK
  BY InitHolds
<1>2. QED
  BY <1>1, TypeStep, PTL DEF Spec

\* Every binding believed in a construct bash executes is the shell's value,
\* but of a name the command rebinds across scopes of one shell.
THEOREM ScopeIsExact == Spec => []ScopeExact
<1>1. Init => ScopeExact
  BY InitHolds
<1>2. TypeOK /\ ScopeExact /\ [Next]_vars => ScopeExact'
  <2>1. CASE Next
    BY <2>1, NextStack DEF StackKept
  <2>2. CASE UNCHANGED vars
    BY <2>2 DEF vars, ScopeExact
  <2>3. QED
    BY <2>1, <2>2
<1>3. QED
  BY <1>1, <1>2, TypeCorrect, PTL DEF Spec

\* An expansion a spec judged is the argument bash passes, and redirects write
\* only where they may, rebound names and >&FILE apart.
LEMMA EffectsAreExact == Spec => [](ArgvExact /\ WritesConfined)
<1>1. Init => ArgvExact /\ WritesConfined
  BY InitHolds
<1>2. TypeOK /\ ScopeExact /\ ArgvExact /\ WritesConfined /\ [Next]_vars
        => ArgvExact' /\ WritesConfined'
  <2>1. CASE Next
    BY <2>1, NextEffects
  <2>2. CASE UNCHANGED vars
    BY <2>2 DEF vars, ArgvExact, WritesConfined, Confined
  <2>3. QED
    BY <2>1, <2>2
<1>3. QED
  BY <1>1, <1>2, ScopeIsExact, TypeCorrect, PTL DEF Spec

\* An argument a spec judged is the argument bash passes, but for an expansion of
\* a rebound name and a literal bash goes on to interpret.
THEOREM ArgumentsAreExact == Spec => []ArgvExact
BY EffectsAreExact, PTL

\* A command opens for writing only /dev/null and confirmed scratch files, but
\* for expansions of rebound names and >&FILE.
THEOREM WritesAreConfined == Spec => []WritesConfined
BY EffectsAreExact, PTL

\* No accepted assignment touches an exported variable of any shell.
THEOREM ExportsAreUntouched == Spec => ExportsUntouched
<1>1. TypeOK /\ [Next]_vars => [ExportsKept]_vars
  <2>1. TypeOK /\ Next => ExportsKept
    BY NextStack DEF StackKept
  <2>2. QED
    BY <2>1
<1>2. QED
  BY <1>1, TypeCorrect, PTL DEF Spec, ExportsUntouched
=============================================================================
