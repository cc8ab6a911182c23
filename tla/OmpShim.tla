------------------------------ MODULE OmpShim -------------------------------
(***************************************************************************)
(* The oh-my-pi shim (contrib/omp/classify-bash.ts) through a session: how *)
(* it wraps the built-in bash tool, perhaps several times, and what its    *)
(* cached verdicts make of tool calls whose approvals interleave.          *)
(*                                                                         *)
(* The host is external, as the shim's comments describe it: it resolves   *)
(* the approval of a call twice, the second time for the input that an     *)
(* event in between may have revised, and by that one it prompts.  The     *)
(* approval is synchronous: while a classifier runs, nothing else of the   *)
(* session does, but the install may change.                               *)
(***************************************************************************)
EXTENDS CheckProcess, FiniteSets

CONSTANTS
  Calls,        (* The bash tool calls of a session.                       *)
  CACHE_LIMIT,  (* Entries the cache may hold: 512 in the source.          *)
  NoCall,
  MaxInstalls   (* Bound: times the shim tries to wrap the tool.           *)

ASSUME LimitsAssumption ==
  CACHE_LIMIT \in Nat \ {0} /\ MaxInstalls \in Nat /\ NoCall \notin Calls

VARIABLES
  binary,    (* The state of the install.                                  *)
  builtin,   (* The host has registered its bash tool.                     *)
  installs,  (* Times install was run, for the bound.                      *)
  wraps,     (* Wrappers around the built-in, the newest registered.       *)
  cache,     (* The verdict kept for a command, or "none".                 *)
  warned,    (* warnedAboutBinary                                          *)
  warnings,  (* Warnings printed, counted up to 2.                         *)
  asking,    (* The call a classifier runs for.                            *)
  first,     (* The command a call came with,                              *)
  final,     (* and the one it is run with.                                *)
  stage,     (* How far each call is.                                      *)
  prompted,  (* The calls the host prompted for.                           *)
  layer      (* The wrapper that executes it, 0 for the built-in.          *)

vars == <<binary, builtin, installs, wraps, cache, warned, warnings, asking,
          first, final, stage, prompted, layer>>

setup == <<builtin, installs, wraps>>
memo  == <<cache, warned, warnings>>
input == <<first, final>>
progress == <<stage, prompted, layer>>

\* "before", "between": of the two approvals.
Stages == {"before", "between", "asked", "running", "ran", "refused"}

Idle == asking = NoCall

Cached == {c \in Commands : cache[c] # "none"}

Init ==
  /\ binary \in Binaries
  /\ builtin \in BOOLEAN
  /\ installs = 0
  /\ wraps = 0
  /\ cache = [c \in Commands |-> "none"]
  /\ warned = FALSE
  /\ warnings = 0
  /\ asking = NoCall
  /\ first \in [Calls -> Commands]
  /\ final \in [Calls -> Commands]
  /\ stage = [k \in Calls |-> "before"]
  /\ prompted = {}
  /\ layer = [k \in Calls |-> 0]

-----------------------------------------------------------------------------
\* The host registers its tools, before or after it loads extensions.
RegisterBuiltin ==
  /\ Idle /\ ~builtin
  /\ builtin' = TRUE
  /\ UNCHANGED <<binary, installs, wraps, memo, asking, input, progress>>

\* At load and at every session start; wrapping what is there, perhaps a
\* wrapper, or not: without a tool, or when registering it throws.
install ==
  /\ Idle /\ installs < MaxInstalls
  /\ installs' = installs + 1
  /\ wraps' \in (IF builtin THEN {wraps, wraps + 1} ELSE {wraps})
  /\ UNCHANGED <<binary, builtin, memo, asking, input, progress>>

\* The install is repaired, upgraded, broken.
InstallChanges ==
  /\ binary' \in Binaries \ {binary}
  /\ UNCHANGED <<setup, memo, asking, input, progress>>

-----------------------------------------------------------------------------
\* The command the approval of call k is now about.
args(k) == IF stage[k] = "before" THEN first[k] ELSE final[k]

TierOf(verdict) == IF verdict = "read_only" THEN "read" ELSE "exec"

\* Mutant: what the spawn throws is not caught, and the host fails closed.
tierUncaught(e) == IF e.how = "throws" THEN "none" ELSE TierOf(verdictOf(e))

\* The tier of a command once its classifier ended.
tierAfter(e) == TierOf(verdictOf(e))

\* What the host does with the answer to an approval of call k: the second
\* "read" runs the call, the second "exec" prompts.
Resolve(k, tier) ==
  /\ stage' = [stage EXCEPT ![k] =
       IF tier = "none" THEN "refused"
       ELSE IF @ = "before" THEN "between"
       ELSE IF tier = "read" THEN "running" ELSE "asked"]
  /\ prompted' = IF stage'[k] = "asked" THEN prompted \cup {k} ELSE prompted
  /\ layer' = [layer EXCEPT ![k] = wraps]

Awaits(k) == builtin /\ stage[k] \in {"before", "between"}

\* The approval of an unwrapped tool, and that of no command.
ApproveNative(k) ==
  /\ Idle /\ Awaits(k)
  /\ wraps = 0 \/ args(k) = Empty
  /\ Resolve(k, "exec")
  /\ UNCHANGED <<binary, setup, memo, asking, input>>

ApproveCached(k) ==
  /\ Idle /\ Awaits(k) /\ wraps > 0
  /\ args(k) # Empty /\ cache[args(k)] # "none"
  /\ Resolve(k, TierOf(cache[args(k)]))
  /\ UNCHANGED <<binary, setup, memo, asking, input>>

\* Nothing cached: the classifier is spawned.
Spawn(k) ==
  /\ Idle /\ Awaits(k) /\ wraps > 0
  /\ args(k) # Empty /\ cache[args(k)] = "none"
  /\ asking' = k
  /\ UNCHANGED <<binary, setup, memo, input, progress>>

\* Mutant: makes room only beyond the limit.
roomLate == IF Cardinality(Cached) > CACHE_LIMIT
              THEN [c \in Commands |-> "none"] ELSE cache

\* The cache with room for an entry.
room == IF Cardinality(Cached) >= CACHE_LIMIT
          THEN [c \in Commands |-> "none"] ELSE cache

\* Mutant: remembers nothing.
warnEachTime(verdict) ==
  /\ warnings' = IF verdict = "malfunction" /\ warnings < 2
                   THEN warnings + 1 ELSE warnings
  /\ UNCHANGED warned

warn(verdict) ==
  IF verdict = "malfunction" /\ ~warned
    THEN warned' = TRUE /\ warnings' = warnings + 1
    ELSE UNCHANGED <<warned, warnings>>

\* It ended, within the time limit: in some way the install allows.
SpawnReturns ==
  /\ asking # NoCall
  /\ \E e \in Ends(binary, args(asking)) :
       /\ warn(verdictOf(e))
       /\ cache' = [room EXCEPT ![args(asking)] = verdictOf(e)]
       /\ Resolve(asking, tierAfter(e))
  /\ asking' = NoCall
  /\ UNCHANGED <<binary, setup, input>>

-----------------------------------------------------------------------------
\* The user answers the prompt, if ever.
UserAnswers(k) ==
  /\ Idle /\ stage[k] = "asked"
  /\ \E answer \in {"running", "refused"} :
       stage' = [stage EXCEPT ![k] = answer]
  /\ UNCHANGED <<binary, setup, memo, asking, input, prompted, layer>>

\* Mutant: the tool to delegate to is looked up when it is needed.
delegateLookedUp(l) == {wraps}

\* Whom the wrapper l calls: the tool it wrapped, or, where the host offers
\* invokeTool, the built-in itself.
delegate(l) == {0, l - 1}

\* execute: a wrapper delegates, the built-in runs the command.
Execute(k) ==
  /\ Idle /\ stage[k] = "running"
  /\ \/ /\ layer[k] > 0
        /\ \E l \in delegate(layer[k]) : layer' = [layer EXCEPT ![k] = l]
        /\ UNCHANGED stage
     \/ /\ layer[k] = 0
        /\ stage' = [stage EXCEPT ![k] = "ran"]
        /\ UNCHANGED layer
  /\ UNCHANGED <<binary, setup, memo, asking, input, prompted>>

-----------------------------------------------------------------------------
Approve(k) == ApproveNative(k) \/ ApproveCached(k) \/ Spawn(k)

Next ==
  \/ RegisterBuiltin
  \/ install
  \/ InstallChanges
  \/ SpawnReturns
  \/ \E k \in Calls : Approve(k) \/ UserAnswers(k) \/ Execute(k)

\* The host goes on with each call, and a spawn ends by the time limit at the
\* latest; nobody has to repair the install or to answer a prompt.
Fairness ==
  /\ WF_vars(RegisterBuiltin)
  /\ WF_vars(SpawnReturns)
  /\ \A k \in Calls : WF_vars(Approve(k)) /\ WF_vars(Execute(k))

Spec == Init /\ [][Next]_vars /\ Fairness

-----------------------------------------------------------------------------
\* Every variable has its type, and the cache keeps to its limit.
TypeOK ==
  /\ binary \in Binaries
  /\ builtin \in BOOLEAN
  /\ installs \in 0..MaxInstalls
  /\ wraps \in 0..installs
  /\ cache \in [Commands -> Verdicts \cup {"none"}]
  /\ Cardinality(Cached) <= CACHE_LIMIT
  /\ warned \in BOOLEAN
  /\ warnings \in 0..2
  /\ asking \in Calls \cup {NoCall}
  /\ first \in [Calls -> Commands]
  /\ final \in [Calls -> Commands]
  /\ stage \in [Calls -> Stages]
  /\ prompted \subseteq Calls
  /\ layer \in [Calls -> 0..MaxInstalls]

\* What the shim made the host do with call k.
Outcome(k) ==
  IF stage[k] \in {"before", "between"} THEN "pending"
  ELSE IF stage[k] \in {"running", "ran"} /\ k \notin prompted THEN "allow"
  ELSE IF stage[k] = "refused" /\ k \notin prompted THEN "block"
  ELSE "prompt"

Session == INSTANCE AcceleratedSession WITH
             grantable <- {k \in Calls : Class[final[k]] = "ReadOnly"},
             refusable <- {},
             outcome   <- [k \in Calls |-> Outcome(k)]

\* For every call the shim is an Accelerator: whatever becomes of the install,
\* and however calls share the cache, it removes the prompt only for an input
\* that is read-only as run, never blocks, and answers although a classifier
\* may hang ("This shim may only ever REMOVE a prompt", classify-bash.ts:10).
KeepsPromise == Session!Spec

\* A broken install is reported, and once: "Once per session, not per command"
\* (classify-bash.ts:72).
WarnedOnce ==
  /\ warnings <= 1
  /\ (\E c \in Commands : cache[c] = "malfunction") => warnings = 1

\* A read-only command is never prompted for without a word: where a wrapper did
\* not remove its prompt, the user was told in this session that the install is
\* broken.  What the cache holds against a command is right, or a malfunction
\* that was reported ("every bash command will use its normal approval tier.
\* Fix the install", classify-bash.ts:75).
PromptsExplained ==
  \A k \in Calls :
    /\ stage[k] = "asked" /\ layer[k] > 0
    /\ final[k] # Empty /\ Class[final[k]] = "ReadOnly"
    => warned

\* A call that is let run reaches the built-in tool, however often that was
\* wrapped, also while it runs.
ReachesBuiltin ==
  \A k \in Calls : stage[k] = "running" ~> stage[k] = "ran"
=============================================================================
