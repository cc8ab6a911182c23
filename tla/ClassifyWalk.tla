---------------------------- MODULE ClassifyWalk ----------------------------
(***************************************************************************)
(* The engine's walk over one command line (internal/engine/classify.go    *)
(* and vars.go), in lockstep with the bash that would run the command.     *)
(*                                                                         *)
(* The walk judges a command before anything runs, from a scope of         *)
(* variables it believes are bound to literals.  What it approves is only  *)
(* right if bash, executing the same syntax tree, holds the same values.   *)
(* So the model is a product: every action is one step of the walk, and    *)
(* carries along what bash would do at that node if the command were       *)
(* allowed: which shell it runs in, whether it runs at all (a link of an   *)
(* && chain after a failure does not), the variables of that shell, the    *)
(* files its redirects open.                                               *)
(*                                                                         *)
(* The syntax tree is not data of the model: a node is chosen when the     *)
(* walk reaches it, among the nodes the grammar allows there, so the       *)
(* behaviours are all the command lines within the bounds.  A construct    *)
(* being walked is a frame on a stack.                                     *)
(*                                                                         *)
(* Abstracted: a word is one part (a literal, or one expansion) and a      *)
(* value is an opaque token; the per-command flag rules of spec.go are the *)
(* choice of Call; a command approved by them is taken to write nothing    *)
(* besides its redirects.                                                  *)
(***************************************************************************)
EXTENDS Integers, Sequences

CONSTANTS
  Names,          (* Variable names a command may mention.                 *)
  Bindable,       (* Those of the shape bindableName admits: 1-3 letters,  *)
                  (* not reserved.                                         *)
  EnvNames,       (* Those Host.EnvSet reports: exported into the shell.   *)
  Values,         (* Strings a variable, a word or a path may be.          *)
  Splittable,     (* Values an unquoted expansion splits, globs or drops.  *)
  DevNull,        (* The path /dev/null.                                   *)
  FdWords,        (* Values a >& redirect reads as a descriptor: 1, 2, -.  *)
  ScratchData,    (* Paths of a data file at the top of the scratchpad.    *)
  HostWritable,   (* Paths Host.ScratchWritable confirms.                  *)
  Unset,          (* No value: unbound in a scope, unset in a shell.       *)
  Environments,   (* Variables the shell may start with.                   *)
  MaxDepth,       (* Bound: constructs nested in one another.              *)
  MaxStmts        (* Bound: statements of a command.                       *)

Bindings == [Names -> Values \cup {Unset}]

ASSUME NamesAssumption  ==
  Bindable \subseteq Names /\ EnvNames \subseteq Names /\ Unset \notin Names
ASSUME ValuesAssumption ==
  /\ Unset \notin Values
  /\ DevNull \in Values \ Splittable
  /\ FdWords \subseteq Values
ASSUME EnvironmentsAssumption ==
  Environments \subseteq {e \in Bindings : \A x \in EnvNames : e[x] # Unset}
ASSUME BoundsAssumption   == MaxDepth \in Nat \ {0} /\ MaxStmts \in Nat

VARIABLES
  frames,      (* The constructs being walked, outermost first.            *)
  verdict,     (* "walking", or the Class the walk ended with.             *)
  stmts,       (* How many statements were walked, for the bound.          *)
  onlyAssigns, (* Every top-level statement so far is a bare assignment.   *)
  ok,          (* bash: the last command that ran succeeded.               *)
  writes,      (* bash: what the redirect just passed opened for writing.  *)
  misread,     (* bash: how the argument just passed was spelled, if it is *)
               (* not the one literal the walk matched.                    *)
  rebound      (* History: the names bound again in a construct of the     *)
               (* shell whose scope binds them, or from such a name.       *)

vars == <<frames, verdict, stmts, onlyAssigns, ok, writes, misread, rebound>>

-----------------------------------------------------------------------------
(***************************************************************************)
(* Words, as the walk resolves them and as bash expands them.              *)
(***************************************************************************)

Lits   == [form : {"lit"}, text : Values]
\* A literal bash goes on to interpret: escape, tilde, brace, glob, $'...'.  It
\* stands for the word real, or for several or none where real is Unset.  None
\* of these spells /dev/null and means something else.
Loose  == {w \in [form : {"loose"}, text : Values, real : Values \cup {Unset}] :
             w.text # DevNull}
Params == [form : {"quoted", "bare"}, name : Names]
\* Unquoted $(...), arithmetic, an operator form such as ${x:=y}, ...
Opaque == [form |-> "opaque"]

Words == Lits \cup Loose \cup Params \cup {Opaque}

\* Mutant: an expansion that splits or globs passes for one word.
unquotedSafeAlways(v) == TRUE

unquotedSafe(v) == v \notin Splittable

boundParam(x, scope) == scope[x] # Unset

\* What the walk reads a word as, when it reads it at all.
Text(w, scope) == IF w \in Params THEN scope[w.name] ELSE w.text

resolves(w, scope) ==
  \/ w \in Lits \cup Loose
  \/ /\ w \in Params
     /\ boundParam(w.name, scope)
     /\ w.form = "bare" => unquotedSafe(scope[w.name])

\* Mutant: the target is taken at its text.
exactPathLax(w, scope) == resolves(w, scope)

exactPath(w, scope) == w \notin Loose /\ resolves(w, scope)

\* An assigned value neither splits nor globs, so a bare parameter is exact.
rhsValue(w, scope) ==
  \/ w \in Lits
  \/ w \in Params /\ boundParam(w.name, scope)

\* bash: the string a word stands for.
Expansion(w, env) ==
  CASE w \in Lits   -> w.text
    [] w \in Loose  -> w.real
    [] w \in Params -> env[w.name]

\* bash: the arguments a word makes, the empty list standing for every list
\* other than one of Values: a bare expansion that splits or globs, for one.
BashArgs(w, env) ==
  LET one == Expansion(w, env)
  IN  IF one = Unset \/ (w.form = "bare" /\ one \in Splittable)
        THEN << >>
        ELSE << one >>

\* How a word is spelled: the name it is an expansion of, else Unset.
Spelling(w) == IF w \in Params THEN w.name ELSE Unset

-----------------------------------------------------------------------------
(***************************************************************************)
(* Frames.  "file", "subshell" and "subst" hold a statement list, "chain"  *)
(* the links of a flattened && chain, the others one side of || or |.  sh  *)
(* is the frame whose env holds the variables of the shell that runs the   *)
(* frame: itself when bash forks a subshell for it, else an outer frame.   *)
(***************************************************************************)

ShellKinds == {"subshell", "subst", "pipeX", "pipeY"}
ListKinds  == {"file", "subshell", "subst"}
Kinds      == ListKinds \cup ShellKinds \cup {"chain", "orX", "orY"}

\* How far the statement being walked is.  "redir": redirects passed;
\* "args": arguments too; "assign": assignments; "or", "pipe": its left side.
Heads == {"idle", "redir", "args", "assign", "or", "pipe"}

Frames ==
  [kind : Kinds,
   vars : Bindings,       \* scope.vars; Unset when not bound
   live : BOOLEAN,        \* bash is executing this construct
   sh   : Nat,
   env  : Bindings,       \* bash's variables, where sh is the frame itself
   head : Heads,
   done : 0..2]           \* statements completed, 2 meaning two or more

NoBindings == [x \in Names |-> Unset]

Depth == Len(frames)
Cur   == frames[Depth]
Env   == frames[Cur.sh].env

\* scope.child: a copy of the bindings, for a construct of its own.
child(kind, live) ==
  [kind |-> kind, vars |-> Cur.vars, live |-> live,
   sh   |-> IF kind \in ShellKinds THEN Depth + 1 ELSE Cur.sh,
   env  |-> IF kind \in ShellKinds THEN Env ELSE NoBindings,
   head |-> "idle", done |-> 0]

\* Mutant: counts statements without end.
ClosedCounting(f, s) ==
  [f EXCEPT !.head = "idle", !.done = @ + 1,
            !.live = @ /\ (f.kind = "chain" => s)]

\* The frame f after its statement ended, leaving status s: the rest of an
\* && chain runs only on success.
Closed(f, s) ==
  [f EXCEPT !.head = "idle",
            !.done = IF @ = 2 THEN 2 ELSE @ + 1,
            !.live = @ /\ (f.kind = "chain" => s)]

\* Mutant: bindings leak out of the construct.
ReturnedLeaking(outer, inner) == [outer EXCEPT !.vars = inner.vars]

\* What the enclosing frame holds after a construct is left: nothing the
\* construct bound.
Returned(outer, inner) == outer

Walking == verdict = "walking"

\* The walk returns, and its scopes are dropped with it.
Conclude(class) ==
  /\ verdict' = class
  /\ frames' = << >>
  /\ writes' = {} /\ misread' = {}
  /\ UNCHANGED <<stmts, onlyAssigns, ok, rebound>>

Refuse == Conclude("NotReadOnly")

\* A single-statement frame whose statement is walked can only be left.
MayStart ==
  /\ Walking
  /\ Cur.head \in {"idle", "redir", "args"}
  /\ Cur.kind \notin ListKinds \cup {"chain"} => Cur.done = 0
  /\ stmts < MaxStmts

\* Where the grammar puts an || list: a statement, the left of an && or ||.
MayBranch ==
  /\ MayStart /\ Cur.head = "idle"
  /\ \/ Cur.kind \in ListKinds \cup {"orX"}
     \/ Cur.kind = "chain" /\ Cur.done = 0

-----------------------------------------------------------------------------
Init ==
  /\ \E e \in Environments :
       frames = << [kind |-> "file", vars |-> NoBindings, live |-> TRUE,
                    sh |-> 1, env |-> e, head |-> "idle", done |-> 0] >>
  /\ verdict = "walking"
  /\ stmts = 0
  /\ onlyAssigns = TRUE
  /\ ok = TRUE
  /\ writes = {}
  /\ misread = {}
  /\ rebound = {}

\* The parser rejects the text: nothing was walked.
ParseFails ==
  /\ Walking /\ Depth = 1 /\ Cur.done = 0 /\ Cur.head = "idle"
  /\ Refuse

-----------------------------------------------------------------------------
(***************************************************************************)
(* Assignments.                                                            *)
(***************************************************************************)

\* Mutant: the environment is not asked.
bindableNameShape(x) == x \in Bindable

bindableName(x) == x \in Bindable /\ x \notin EnvNames

\* bash binds x where an enclosing scope, which the walk will return to, holds
\* another value for it, or binds it to the value of such a name.
Rebinding(x, w) ==
  /\ Cur.live
  /\ \/ \E i \in 1..(Depth - 1) :
          frames[i].sh = Cur.sh /\ boundParam(x, frames[i].vars)
     \/ w \in Params /\ w.name \in rebound

\* One assignment x=w of a statement made of assignments; the last ends it.
bindAssigns(x, w, last) ==
  /\ \/ MayStart /\ Cur.head = "idle"
     \/ Walking /\ Cur.head = "assign"
  /\ IF bindableName(x) /\ rhsValue(w, Cur.vars)
       THEN LET bound == [Cur EXCEPT !.vars[x] = Text(w, Cur.vars)]
                ended == IF last THEN Closed(bound, TRUE)
                                 ELSE [bound EXCEPT !.head = "assign"]
            IN  /\ frames' = IF Cur.live
                     THEN [frames EXCEPT ![Depth] = ended,
                             ![Cur.sh].env[x] = Expansion(w, Env)]
                     ELSE [frames EXCEPT ![Depth] = ended]
                /\ ok' = (ok \/ Cur.live)
                /\ stmts' = IF last THEN stmts + 1 ELSE stmts
                /\ rebound' = IF Rebinding(x, w) THEN rebound \cup {x}
                                                ELSE rebound
                /\ writes' = {} /\ misread' = {}
                /\ UNCHANGED <<verdict, onlyAssigns>>
       ELSE Refuse

-----------------------------------------------------------------------------
(***************************************************************************)
(* Redirects.                                                              *)
(***************************************************************************)

\* "read": < f, <<< w, <&n, and a here-document whose body bash leaves alone
\* (hdocBodyLiteral).  "write": >, >>, &>, &>>, >|.  "dupOut": >&w.
Ops == {"read", "write", "inout", "hdocExpanding", "dupOut"}

\* fd is Unset, or the name of a {name}> redirect; the word of such a one is taken
\* to be a literal, as it is refused before its word is looked at.
Redirects == [op : Ops, word : Words, fd : {Unset}]
               \cup [op : Ops, word : Lits, fd : Names]

scratchWriteOK(path) == path \in ScratchData /\ path \in HostWritable

safeRedirect(r, scope) ==
  /\ r.fd = Unset
  /\ resolves(r.word, scope)
  /\ \/ r.op \in {"read", "dupOut"}
     \/ r.op \in {"write", "inout"} /\ Text(r.word, scope) = DevNull
     \/ /\ r.op = "write"
        /\ exactPath(r.word, scope)
        /\ scratchWriteOK(Text(r.word, scope))

\* An open for writing: of which path, which the redirect spelled as an
\* expansion of via, and whether as >&WORD.
Opens == [path : Values, via : Names \cup {Unset}, dup : BOOLEAN]

\* bash: the files opening r may create, truncate or append to.
OpensForWriting(r, env) ==
  { o \in [path : Values, via : {Spelling(r.word)}, dup : {r.op = "dupOut"}] :
      /\ << o.path >> = BashArgs(r.word, env)
      /\ \/ r.op \in {"write", "inout"}
         \/ r.op = "dupOut" /\ o.path \notin FdWords }

\* bash: {name}>f assigns the descriptor's number to name.
Redirect(r) ==
  /\ MayStart /\ Cur.head \in {"idle", "redir"}
  /\ IF safeRedirect(r, Cur.vars)
       THEN /\ \E fd \in FdWords :
                 frames' = IF Cur.live /\ r.fd # Unset
                   THEN [frames EXCEPT ![Depth].head = "redir",
                                       ![Cur.sh].env[r.fd] = fd]
                   ELSE [frames EXCEPT ![Depth].head = "redir"]
            /\ writes' = IF Cur.live THEN OpensForWriting(r, Env) ELSE {}
            /\ misread' = {}
            /\ UNCHANGED <<verdict, stmts, onlyAssigns, ok, rebound>>
       ELSE Refuse

-----------------------------------------------------------------------------
(***************************************************************************)
(* Simple commands.                                                        *)
(***************************************************************************)

\* One argument word of a command.
argTokens(w) ==
  /\ MayStart
  /\ IF resolves(w, Cur.vars)
       THEN /\ frames' = [frames EXCEPT ![Depth].head = "args"]
            /\ misread' =
                 IF Cur.live /\ BashArgs(w, Env) # << Text(w, Cur.vars) >>
                   THEN { Spelling(w) }
                   ELSE {}
            /\ writes' = {}
            /\ UNCHANGED <<verdict, stmts, onlyAssigns, ok, rebound>>
       ELSE Refuse

\* A command whose name and arguments its spec accepts or not, and which
\* succeeds or fails when run.
classifyCall(accepted, succeeds) ==
  /\ MayStart
  /\ IF accepted
       THEN LET status == IF Cur.live THEN succeeds ELSE ok
            IN  /\ frames' = [frames EXCEPT ![Depth] = Closed(Cur, status)]
                /\ ok' = status
                /\ stmts' = stmts + 1
                /\ onlyAssigns' = (onlyAssigns /\ Depth > 1)
                /\ writes' = {} /\ misread' = {}
                /\ UNCHANGED <<verdict, rebound>>
       ELSE Refuse

-----------------------------------------------------------------------------
(***************************************************************************)
(* Constructs with a scope of their own.                                   *)
(***************************************************************************)

\* Begin a construct, as part of a statement now at head h.
Enter(kind, live, h) ==
  /\ Depth < MaxDepth
  /\ frames' = Append([frames EXCEPT ![Depth].head = h], child(kind, live))
  /\ onlyAssigns' = (onlyAssigns /\ Depth > 1)
  /\ writes' = {} /\ misread' = {}
  /\ UNCHANGED <<verdict, stmts, rebound>>

\* An && chain.  A chain inside a chain is more links of the same frame.
EnterChain ==
  /\ MayBranch /\ Cur.kind # "chain"
  /\ Enter("chain", Cur.live, "idle")
  /\ UNCHANGED ok

EnterOr ==
  /\ MayBranch
  /\ Enter("orX", Cur.live, "or")
  /\ UNCHANGED ok

EnterPipe ==
  /\ MayStart /\ Cur.head = "idle" /\ Cur.kind # "pipeX"
  /\ Enter("pipeX", Cur.live, "pipe")
  /\ UNCHANGED ok

\* The right side of || runs on failure; of a pipe always.
EnterRight ==
  /\ Walking
  /\ \/ Cur.head = "or"   /\ Enter("orY", Cur.live /\ ~ok, "idle")
     \/ Cur.head = "pipe" /\ Enter("pipeY", Cur.live, "idle")
  /\ UNCHANGED ok

\* ( ... ), whose redirects bash opens first: should one fail, the inside
\* does not run and the statement fails.
EnterSubshell(opened) ==
  /\ MayStart /\ Cur.head \in {"idle", "redir"}
  /\ Cur.head = "idle" => opened
  /\ Enter("subshell", Cur.live /\ opened, "idle")
  /\ ok' = (ok /\ (Cur.live => opened))

\* An argument holding a quoted "$( ... )".
EnterSubst ==
  /\ MayStart
  /\ Enter("subst", Cur.live, "args")
  /\ UNCHANGED ok

\* The end of a construct.  It ends its parent's statement unless that is a
\* command with arguments to come, or the right side is still to be walked.
Leave ==
  /\ Walking /\ Depth > 1 /\ Cur.head = "idle"
  /\ Cur.done >= (IF Cur.kind = "chain" THEN 2
                  ELSE IF Cur.kind = "subst" THEN 0 ELSE 1)
  /\ IF Cur.done = 0
       THEN Refuse
       ELSE LET outer == Returned(frames[Depth - 1], Cur)
                open  == Cur.kind \in {"subst", "orX", "pipeX"}
            IN  /\ frames' = [i \in 1..(Depth - 1) |->
                     IF i < Depth - 1 THEN frames[i]
                     ELSE IF open THEN outer ELSE Closed(outer, ok)]
                /\ stmts' = IF open THEN stmts ELSE stmts + 1
                /\ writes' = {} /\ misread' = {}
                /\ UNCHANGED <<verdict, onlyAssigns, ok, rebound>>

-----------------------------------------------------------------------------
(***************************************************************************)
(* The other ways a walk ends.                                             *)
(***************************************************************************)

\* A statement the walk refuses outright: background, negated, a coprocess; a
\* block, loop, case, function, [[ ]], declaration; a bare redirect; an
\* environment prefix; an inexact assignment (+=, array, with a redirect).
RefuseStmt ==
  /\ MayStart
  /\ Refuse

\* failLoud: a node kind the walk does not know, turned into a class by
\* recoverUnknown.
UnknownConstruct ==
  /\ MayStart
  /\ Conclude("Unparseable")

\* The end of the command.
Finish ==
  /\ Walking /\ Depth = 1 /\ Cur.head = "idle"
  /\ IF onlyAssigns THEN Refuse ELSE Conclude("ReadOnly")

-----------------------------------------------------------------------------
Next ==
  \/ ParseFails
  \/ \E x \in Names, w \in Words, last \in BOOLEAN : bindAssigns(x, w, last)
  \/ \E r \in Redirects : Redirect(r)
  \/ \E w \in Words : argTokens(w)
  \/ \E accepted, succeeds \in BOOLEAN : classifyCall(accepted, succeeds)
  \/ EnterChain
  \/ EnterOr
  \/ EnterPipe
  \/ EnterRight
  \/ \E opened \in BOOLEAN : EnterSubshell(opened)
  \/ EnterSubst
  \/ Leave
  \/ RefuseStmt
  \/ UnknownConstruct
  \/ Finish

Spec == Init /\ [][Next]_vars

-----------------------------------------------------------------------------
\* Every variable of the walk and of the shells it follows has its type, the
\* stack is never empty and a frame's shell is that frame or an outer one.
TypeOK ==
  /\ frames \in Seq(Frames)
  /\ Walking => frames # << >>
  /\ \A i \in 1..Len(frames) : frames[i].sh \in 1..i
  /\ verdict \in {"walking", "ReadOnly", "NotReadOnly", "Unparseable"}
  /\ stmts \in Nat
  /\ onlyAssigns \in BOOLEAN
  /\ ok \in BOOLEAN
  /\ writes \subseteq Opens
  /\ misread \subseteq Names \cup {Unset}
  /\ rebound \subseteq Names

\* In every construct that bash is executing, each binding the walk believes
\* is the value the shell holds, but of a name the command rebound: "the scope
\* is exact for every command that can classify Allow" (vars.go).
ScopeExact ==
  \A i \in 1..Len(frames) :
    frames[i].live =>
      \A x \in Names \ rebound :
        frames[i].vars[x] # Unset =>
          frames[i].vars[x] = frames[frames[i].sh].env[x]

\* A word that reaches a spec is the one argument bash passes, in these cases: a
\* quoted or plain literal, and an expansion of a name that is not rebound.  A
\* Loose word is not among them: resolveWord takes it at its text, and what bash
\* makes of it is another word, several or none.  So "every later check sees
\* exactly the string bash would" (classify.go, scope) holds of expansions only.
ArgvExact == misread \subseteq rebound \cup {Unset}

\* The same of every expansion.
ExpansionsAlwaysExact == misread \subseteq {Unset}

\* The only paths the program means to let a command write.
Confined(path) == path = DevNull \/ path \in ScratchData \cap HostWritable

\* A command the walk is following opens for writing only /dev/null and data
\* files of the scratchpad that the host confirmed (safeRedirect), but for an
\* expansion of a rebound name and a >&FILE.
WritesConfined ==
  \A o \in writes : o.via \in rebound \/ o.dup \/ Confined(o.path)

\* Of >&WORD the code says "These don't open new files" (classify.go, 240).
DupsOpenNothing == \A o \in writes : ~o.dup

\* No assignment the walk accepts, in any shell, changes an exported variable:
\* later commands run in the environment the harness gave (vars.go,
\* bindableName).
ExportsKept ==
  \A i \in 1..Len(frames) : i <= Len(frames') =>
    \A x \in EnvNames : frames'[i].env[x] = frames[i].env[x]

ExportsUntouched == [][ExportsKept]_vars
=============================================================================
