------------------------------ MODULE AwkWalk ------------------------------
(***************************************************************************)
(* The walk over an awk program (internal/engine/awk.go), a stack of what  *)
(* is yet to be looked at.  The program is chosen as the walk goes along:  *)
(* of a node it comes to, the kind, and which optional parts it has.       *)
(*                                                                         *)
(* Two tables are kept apart: what parts the nodes of goawk's syntax tree  *)
(* have (external), and what parts of them the walk goes into.             *)
(*                                                                         *)
(* Abstracted: the blocks of BEGIN, and those of END, are one list of      *)
(* statements; the builtins are four sorts.                                *)
(***************************************************************************)
EXTENDS Naturals, Sequences

CONSTANT MaxNodes  (* Bound on the nodes of a program.                     *)

ASSUME MaxNodesAssumption == MaxNodes \in Nat

VARIABLES
  todo,    (* What is yet to be looked at, the next first: nodes, "stmt",  *)
           (* "expr", and lists, "stmts", "exprs", "actions".              *)
  size,    (* How many nodes the walk has come to.                         *)
  impure,  (* Something the walk has come to, or passed over, acts on      *)
           (* files or processes, or may do so.                            *)
  walk     (* "idle", "walking", and what came of it: "safe", "unsafe",    *)
           (* "loud".                                                      *)

awkVars == <<todo, size, impure, walk>>

AwkInit ==
  /\ todo = << >>
  /\ size = 0
  /\ impure = FALSE
  /\ walk = "idle"

-----------------------------------------------------------------------------
\* The parts of a statement, and of an expression.  NewStmt and NewExpr are
\* kinds a later goawk may have.
StmtParts ==
  [PrintStmt   |-> {"args", "dest"},  PrintfStmt   |-> {"args", "dest"},
   ExprStmt    |-> {"expr"},          IfStmt       |-> {"cond", "body", "else"},
   ForInStmt   |-> {"body"},          ForStmt      |-> {"pre", "until", "post", "body"},
   WhileStmt   |-> {"cond", "body"},  DoWhileStmt  |-> {"cond", "body"},
   BreakStmt   |-> {},                ContinueStmt |-> {},
   NextStmt    |-> {},                NextfileStmt |-> {},
   ExitStmt    |-> {"status"},        DeleteStmt   |-> {"index"},
   ReturnStmt  |-> {"value"},         BlockStmt    |-> {"body"},
   NewStmt     |-> {"body"}]

ExprParts ==
  [FieldExpr   |-> {"field"},         NamedFieldExpr |-> {"field"},
   UnaryExpr   |-> {"value"},         BinaryExpr     |-> {"left", "right"},
   InExpr      |-> {"index"},         CondExpr       |-> {"cond", "true", "false"},
   NumExpr     |-> {},                StrExpr        |-> {},
   RegExpr     |-> {},                VarExpr        |-> {},
   IndexExpr   |-> {"index"},         AssignExpr     |-> {"left", "right"},
   IncrExpr    |-> {"expr"},          AugAssignExpr  |-> {"left", "right"},
   CallExpr    |-> {"args"},          UserCallExpr   |-> {"args"},
   MultiExpr   |-> {"exprs"},         GetlineExpr    |-> {"command", "target", "file"},
   GroupingExpr |-> {"expr"},         NewExpr        |-> {"expr"}]

Optional == {"dest", "pre", "until", "post", "status", "value", "command",
             "target", "file"}

sortOf(part) ==
  CASE part \in {"args", "index", "exprs"} -> "exprs"
    [] part \in {"body", "else"}           -> "stmts"
    [] part \in {"pre", "post"}            -> "stmt"
    [] OTHER                               -> "expr"

\* Functions that compute, that close or flush an output, that run a command,
\* and those of a later goawk.
Builtins == {"pure", "closing", "system", "new"}

\* What runs a command or writes a file, or may, for all that is known.
Acts(kind, parts, builtin) ==
  \/ parts \cap {"dest", "command"} # {}
  \/ kind \in {"UserCallExpr", "NewStmt", "NewExpr"}
  \/ kind = "CallExpr" /\ builtin \in {"system", "new"}

-----------------------------------------------------------------------------
\* Mutant: all but the functions known to run a command.
awkBuiltinAllowedElse(builtin) == builtin # "system"

\* All but the functions listed are refused.
awkBuiltinAllowed(builtin) == builtin = "pure"

refusedStmt(kind, parts) ==
  \/ kind \in {"PrintStmt", "PrintfStmt"} /\ "dest" \in parts
  \/ kind = "ReturnStmt"

refusedExpr(kind, parts, builtin) ==
  \/ kind = "CallExpr" /\ ~awkBuiltinAllowed(builtin)
  \/ kind = "UserCallExpr"
  \/ kind = "GetlineExpr" /\ parts \cap {"command", "file"} # {}

\* The parts of a statement the walk goes into, in this order.
walkedStmt ==
  [PrintStmt   |-> <<"args">>,         PrintfStmt   |-> <<"args">>,
   ExprStmt    |-> <<"expr">>,         IfStmt       |-> <<"cond", "body", "else">>,
   ForInStmt   |-> <<"body">>,         ForStmt      |-> <<"pre", "until", "post", "body">>,
   WhileStmt   |-> <<"cond", "body">>, DoWhileStmt  |-> <<"body", "cond">>,
   BreakStmt   |-> << >>,              ContinueStmt |-> << >>,
   NextStmt    |-> << >>,              NextfileStmt |-> << >>,
   ExitStmt    |-> <<"status">>,       DeleteStmt   |-> <<"index">>,
   ReturnStmt  |-> << >>,              BlockStmt    |-> <<"body">>]

\* The parts of an expression the walk goes into.
walkedExpr ==
  [FieldExpr   |-> <<"field">>,       NamedFieldExpr |-> <<"field">>,
   UnaryExpr   |-> <<"value">>,        BinaryExpr     |-> <<"left", "right">>,
   InExpr      |-> <<"index">>,        CondExpr       |-> <<"cond", "true", "false">>,
   NumExpr     |-> << >>,              StrExpr        |-> << >>,
   RegExpr     |-> << >>,              VarExpr        |-> << >>,
   IndexExpr   |-> <<"index">>,        AssignExpr     |-> <<"left", "right">>,
   IncrExpr    |-> <<"expr">>,         AugAssignExpr  |-> <<"left", "right">>,
   CallExpr    |-> <<"args">>,         UserCallExpr   |-> << >>,
   MultiExpr   |-> <<"exprs">>,        GetlineExpr    |-> <<"target">>,
   GroupingExpr |-> <<"expr">>]

-----------------------------------------------------------------------------
\* parser.ParseProgram refuses the text, or there are functions, or the walk
\* begins.  A text goawk cannot parse may do anything.
classifyAwkProgram ==
  /\ walk = "idle"
  /\ size' = 0
  /\ \E text \in {"unreadable", "functions", "program"} :
       /\ impure' = (text # "program")
       /\ IF text = "program"
            THEN walk' = "walking" /\ todo' = <<"stmts", "actions", "stmts">>
            ELSE walk' = "unsafe" /\ todo' = << >>

\* What is next on the stack.
NextIs(sort) == walk = "walking" /\ todo # << >> /\ Head(todo) = sort

\* A list has no more elements, or one more, which comes first.
walkList(list, element) ==
  /\ NextIs(list)
  /\ todo' \in {Tail(todo), element \o todo}
  /\ UNCHANGED <<size, impure, walk>>

walkAwkActions == walkList("actions", <<"exprs", "stmts">>)
walkAwkStmts   == walkList("stmts", <<"stmt">>)
walkAwkExprs   == walkList("exprs", <<"expr">>)

\* The walk has come to the node next on its stack, which has these parts, and
\* goes into those the code names, unless it refuses the node or does not know
\* its kind (failLoud).
Visit(kind, parts, builtin, known, refused, into) ==
  LET over == {part \in parts : \A i \in DOMAIN into : into[i] # part}
      here == SelectSeq(into, LAMBDA part : part \in parts)
  IN  /\ size < MaxNodes
      /\ size' = size + 1
      /\ impure' = (impure \/ over # {} \/ Acts(kind, parts, builtin))
      /\ walk' = IF ~known THEN "loud" ELSE IF refused THEN "unsafe" ELSE "walking"
      /\ todo' = IF ~known \/ refused THEN << >>
                 ELSE [i \in DOMAIN here |-> sortOf(here[i])] \o Tail(todo)

\* The parts a node of this kind may have.
PartsOf(all) == {all \ absent : absent \in SUBSET (all \cap Optional)}

walkAwkStmt ==
  /\ NextIs("stmt")
  /\ \E kind \in DOMAIN StmtParts : \E parts \in PartsOf(StmtParts[kind]) :
       LET known == kind \in DOMAIN walkedStmt
       IN  Visit(kind, parts, "pure", known, refusedStmt(kind, parts),
                 IF known THEN walkedStmt[kind] ELSE << >>)

walkAwkExpr ==
  /\ NextIs("expr")
  /\ \E kind \in DOMAIN ExprParts : \E parts \in PartsOf(ExprParts[kind]) :
       \E builtin \in IF kind = "CallExpr" THEN Builtins ELSE {"pure"} :
         LET known == kind \in DOMAIN walkedExpr
         IN  Visit(kind, parts, builtin, known, refusedExpr(kind, parts, builtin),
                   IF known THEN walkedExpr[kind] ELSE << >>)

\* All was looked at and nothing refused.
walkedAll ==
  /\ walk = "walking" /\ todo = << >>
  /\ walk' = "safe"
  /\ UNCHANGED <<todo, size, impure>>

AwkWalk ==
  \/ walkAwkActions \/ walkAwkStmts \/ walkAwkExprs
  \/ walkAwkStmt \/ walkAwkExpr
  \/ walkedAll
=============================================================================
