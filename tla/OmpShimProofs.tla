---------------------------- MODULE OmpShimProofs ----------------------------
(***************************************************************************)
(* What OmpShim satisfies for every set of calls and commands, every limit *)
(* of the cache and every number of installs: that the cache keeps to its  *)
(* limit; that a broken install is warned of once; and that each step is   *)
(* one an accelerated session may take -- no prompt is removed but for a   *)
(* read-only command, whatever the cache holds and the install becomes.    *)
(***************************************************************************)
EXTENDS OmpShim, CheckProcessProofs, FiniteSetTheorems

Typed ==
  /\ cache \in [Commands -> Verdicts \cup {"none"}]
  /\ first \in [Calls -> Commands]
  /\ final \in [Calls -> Commands]
  /\ stage \in [Calls -> Stages]
  /\ layer \in [Calls -> Int]
  /\ wraps \in Int
  /\ prompted \subseteq Calls

\* A verdict is kept only if it is the engine's.
CacheSound ==
  \A c \in Commands : cache[c] = "read_only" => Class[c] = "ReadOnly"

Warned ==
  /\ warned \in BOOLEAN
  /\ warnings = IF warned THEN 1 ELSE 0
  /\ \A c \in Commands : cache[c] = "malfunction" => warned

\* A classifier runs for a call that awaits an approval.
Asking ==
  asking # NoCall =>
    asking \in Calls /\ stage[asking] \in {"before", "between"}

\* prompted holds the calls that were asked about: none that still awaits an
\* approval, and all that are not to run.
Prompted ==
  \A k \in Calls :
    /\ stage[k] \in {"before", "between"} => k \notin prompted
    /\ stage[k] \in {"asked", "refused"}  => k \in prompted

\* Nor is a read-only command remembered for one that is not.
CacheFair ==
  \A c \in Commands : cache[c] = "not_read_only" => Class[c] # "ReadOnly"

IInv == Typed /\ CacheSound /\ CacheFair /\ Warned /\ Asking /\ Prompted

-----------------------------------------------------------------------------
LEMMA ArgsType ==
  ASSUME IInv, NEW k \in Calls
  PROVE  args(k) \in Commands
BY DEF IInv, Typed, args

\* An approval, answered with a tier that only a read-only command has.
LEMMA ResolveStep ==
  ASSUME IInv, NEW k \in Calls, stage[k] \in {"before", "between"},
         NEW tier \in {"read", "exec"}, Resolve(k, tier),
         tier = "read" => Class[args(k)] = "ReadOnly",
         UNCHANGED <<first, final, wraps>>
  PROVE  /\ stage' \in [Calls -> Stages] /\ layer' \in [Calls -> Int]
         /\ prompted' \subseteq Calls
         /\ Prompted'
         /\ [Session!Next]_(Session!vars)
<1>1. /\ stage' \in [Calls -> Stages] /\ layer' \in [Calls -> Int]
      /\ prompted' \subseteq Calls
  BY DEF IInv, Typed, Resolve, Stages
<1>2. /\ \A j \in Calls \ {k} : stage'[j] = stage[j] /\ (j \in prompted' <=> j \in prompted)
      /\ k \notin prompted
  BY DEF IInv, Typed, Resolve, Prompted
<1>3. CASE stage[k] = "before"
  <2>1. stage'[k] = "between" /\ prompted' = prompted
    BY <1>3 DEF IInv, Typed, Resolve
  <2>2. Prompted'
    BY <1>2, <2>1 DEF IInv, Prompted
  <2>3. \A j \in Calls : Outcome(j)' = Outcome(j)
    BY <1>2, <1>3, <2>1 DEF Outcome
  <2>4. UNCHANGED Session!vars
    BY <2>3 DEF Session!vars
  <2> QED BY <1>1, <2>2, <2>4
<1>4. CASE stage[k] = "between" /\ tier = "read"
  <2>1. stage'[k] = "running" /\ prompted' = prompted
    BY <1>4 DEF IInv, Typed, Resolve
  <2>2. Prompted'
    BY <1>2, <2>1 DEF IInv, Prompted
  <2>3. /\ \A j \in Calls \ {k} : Outcome(j)' = Outcome(j)
        /\ Outcome(k) = "pending" /\ Outcome(k)' = "allow"
    BY <1>2, <1>4, <2>1 DEF Outcome
  <2>4. Class[final[k]] = "ReadOnly"
    BY <1>4 DEF args
  <2>5. Session!Answer(k)
    <3>1. "allow" \in Session!Permitted(k)
      BY <2>4 DEF Session!Permitted
    <3>2. [j \in Calls |-> Outcome(j)]' =
            [[j \in Calls |-> Outcome(j)] EXCEPT ![k] = "allow"]
      BY <2>3
    <3> QED BY <2>3, <3>1, <3>2 DEF Session!Answer
  <2> QED BY <1>1, <2>2, <2>5 DEF Session!Next
<1>5. CASE stage[k] = "between" /\ tier = "exec"
  <2>1. stage'[k] = "asked" /\ prompted' = prompted \cup {k}
    BY <1>5 DEF IInv, Typed, Resolve
  <2>2. Prompted'
    BY <1>2, <2>1 DEF IInv, Prompted
  <2>3. /\ \A j \in Calls \ {k} : Outcome(j)' = Outcome(j)
        /\ Outcome(k) = "pending" /\ Outcome(k)' = "prompt"
    BY <1>2, <1>5, <2>1 DEF Outcome
  <2>4. Session!Answer(k)
    <3>1. "prompt" \in Session!Permitted(k)
      BY DEF Session!Permitted
    <3>2. [j \in Calls |-> Outcome(j)]' =
            [[j \in Calls |-> Outcome(j)] EXCEPT ![k] = "prompt"]
      BY <2>3
    <3> QED BY <2>3, <3>1, <3>2 DEF Session!Answer
  <2> QED BY <1>1, <2>2, <2>4 DEF Session!Next
<1> QED BY <1>3, <1>4, <1>5

-----------------------------------------------------------------------------
\* Each step keeps the invariant and is one of the session's.
Good == IInv' /\ [Session!Next]_(Session!vars)

LEMMA SetupStep ==
  ASSUME IInv, wraps' \in Int,
         UNCHANGED <<memo, asking, input, progress>>
  PROVE  Good
<1>1. IInv'
  BY DEF IInv, Typed, CacheSound, CacheFair, Warned, Asking, Prompted, memo,
         input, progress
<1>2. UNCHANGED Session!vars
  BY DEF Session!vars, Outcome, input, progress
<1> QED BY <1>1, <1>2 DEF Good

LEMMA NativeStep ==
  ASSUME IInv, NEW k \in Calls, ApproveNative(k)
  PROVE  Good
<1>1. /\ stage[k] \in {"before", "between"} /\ Resolve(k, "exec") /\ Idle
      /\ UNCHANGED <<first, final, wraps, cache, warned, warnings, asking>>
  BY DEF ApproveNative, Awaits, setup, input, memo
<1>2. /\ stage' \in [Calls -> Stages] /\ layer' \in [Calls -> Int]
      /\ prompted' \subseteq Calls
      /\ Prompted'
      /\ [Session!Next]_(Session!vars)
  BY <1>1, ResolveStep
<1>3. IInv'
  BY <1>1, <1>2 DEF IInv, Typed, CacheSound, CacheFair, Warned, Asking, Idle
<1> QED BY <1>2, <1>3 DEF Good

LEMMA CachedStep ==
  ASSUME IInv, NEW k \in Calls, ApproveCached(k)
  PROVE  Good
<1> DEFINE tier == TierOf(cache[args(k)])
<1>1. /\ stage[k] \in {"before", "between"} /\ Resolve(k, tier) /\ Idle
      /\ UNCHANGED <<first, final, wraps, cache, warned, warnings, asking>>
  BY DEF ApproveCached, Awaits, setup, input, memo
<1>2. tier \in {"read", "exec"} /\ (tier = "read" => Class[args(k)] = "ReadOnly")
  BY ArgsType DEF TierOf, IInv, CacheSound
<1> HIDE DEF tier
<1>3. /\ stage' \in [Calls -> Stages] /\ layer' \in [Calls -> Int]
      /\ prompted' \subseteq Calls
      /\ Prompted'
      /\ [Session!Next]_(Session!vars)
  BY <1>1, <1>2, ResolveStep
<1>4. IInv'
  BY <1>1, <1>3 DEF IInv, Typed, CacheSound, CacheFair, Warned, Asking, Idle
<1> QED BY <1>3, <1>4 DEF Good

LEMMA SpawnStep ==
  ASSUME IInv, NEW k \in Calls, Spawn(k)
  PROVE  Good
<1>1. IInv'
  BY DEF IInv, Typed, CacheSound, CacheFair, Warned, Asking, Prompted, Spawn,
         Awaits, setup, memo, input, progress
<1>2. UNCHANGED Session!vars
  BY DEF Session!vars, Outcome, Spawn, input, progress
<1> QED BY <1>1, <1>2 DEF Good

LEMMA ReturnStep ==
  ASSUME IInv, SpawnReturns
  PROVE  Good
<1> DEFINE k == asking
<1>1. k \in Calls /\ stage[k] \in {"before", "between"} /\ k # NoCall
  BY DEF SpawnReturns, IInv, Asking
<1>2. PICK e \in Ends(binary, args(k)) :
        /\ warn(verdictOf(e))
        /\ cache' = [room EXCEPT ![args(k)] = verdictOf(e)]
        /\ Resolve(k, tierAfter(e))
  BY DEF SpawnReturns
<1>3. asking' = NoCall /\ UNCHANGED <<first, final, wraps>>
  BY DEF SpawnReturns, setup, input
<1> DEFINE c == args(k)  v == verdictOf(e)
<1>4. /\ c \in Commands /\ v \in Verdicts
      /\ v = "read_only" => Class[c] = "ReadOnly"
      /\ v = "not_read_only" => Class[c] # "ReadOnly"
  BY <1>1, ArgsType, VerdictIsSound
<1>5. /\ stage' \in [Calls -> Stages] /\ layer' \in [Calls -> Int]
      /\ prompted' \subseteq Calls
      /\ Prompted'
      /\ [Session!Next]_(Session!vars)
  <2>1. tierAfter(e) \in {"read", "exec"}
    BY DEF tierAfter, TierOf
  <2>2. tierAfter(e) = "read" => Class[args(k)] = "ReadOnly"
    BY <1>4 DEF tierAfter, TierOf
  <2> HIDE DEF k
  <2> QED BY <1>1, <1>2, <1>3, <2>1, <2>2, ResolveStep
<1>6. /\ room \in [Commands -> Verdicts \cup {"none"}]
      /\ \A d \in Commands : room[d] # "none" => room[d] = cache[d]
  BY DEF room, IInv, Typed
<1>7. /\ cache' \in [Commands -> Verdicts \cup {"none"}]
      /\ cache'[c] = v
      /\ \A d \in Commands \ {c} : cache'[d] # "none" => cache'[d] = cache[d]
  BY <1>2, <1>4, <1>6
<1> HIDE DEF c, v
<1>8. CacheSound' /\ CacheFair'
  BY <1>4, <1>7 DEF IInv, CacheSound, CacheFair
<1>9. Warned'
  <2>1. warn(v) /\ Warned
    BY <1>2 DEF v, IInv
  <2>2. CASE v = "malfunction" /\ ~warned
    <3>1. warned' = TRUE /\ warnings' = 1
      BY <2>1, <2>2 DEF warn, Warned
    <3> QED BY <3>1 DEF Warned
  <2>3. CASE ~(v = "malfunction" /\ ~warned)
    <3>1. warned' = warned /\ warnings' = warnings
      BY <2>1, <2>3 DEF warn
    <3>2. \A d \in Commands : cache'[d] = "malfunction" => warned
      BY <1>7, <2>1, <2>3 DEF Warned
    <3> QED BY <2>1, <3>1, <3>2 DEF Warned
  <2> QED BY <2>2, <2>3
<1>10. Typed' /\ Asking'
  BY <1>3, <1>5, <1>7 DEF IInv, Typed, Asking
<1> QED BY <1>5, <1>8, <1>9, <1>10 DEF Good, IInv

LEMMA UserStep ==
  ASSUME IInv, NEW k \in Calls, UserAnswers(k)
  PROVE  Good
<1>1. /\ stage[k] = "asked" /\ k \in prompted /\ Idle
      /\ UNCHANGED <<first, final, wraps, cache, warned, warnings, asking,
                     prompted, layer>>
  BY DEF UserAnswers, setup, memo, input, IInv, Prompted
<1>2. PICK answer \in {"running", "refused"} :
        stage' = [stage EXCEPT ![k] = answer]
  BY DEF UserAnswers
<1>3. stage' \in [Calls -> Stages]
  BY <1>2 DEF IInv, Typed, Stages
<1>4. Prompted'
  BY <1>1, <1>2 DEF IInv, Typed, Prompted
<1>5. \A j \in Calls : Outcome(j)' = Outcome(j)
  BY <1>1, <1>2 DEF Outcome, IInv, Typed
<1>6. UNCHANGED Session!vars
  BY <1>1, <1>5 DEF Session!vars
<1>7. IInv'
  BY <1>1, <1>3, <1>4 DEF IInv, Typed, CacheSound, CacheFair, Warned, Asking, Idle
<1> QED BY <1>6, <1>7 DEF Good

LEMMA ExecuteStep ==
  ASSUME IInv, NEW k \in Calls, Execute(k)
  PROVE  Good
<1>1. /\ stage[k] = "running" /\ Idle
      /\ stage' = [stage EXCEPT ![k] = stage'[k]] /\ stage'[k] \in {"running", "ran"}
      /\ UNCHANGED <<first, final, wraps, cache, warned, warnings, asking,
                     prompted>>
  BY DEF Execute, setup, memo, input, IInv, Typed
<1>2. layer' \in [Calls -> Int]
  BY DEF Execute, delegate, IInv, Typed
<1>3. stage' \in [Calls -> Stages]
  BY <1>1 DEF IInv, Typed, Stages
<1>4. \A j \in Calls : Outcome(j)' = Outcome(j)
  BY <1>1 DEF Outcome, IInv, Typed
<1>5. UNCHANGED Session!vars
  BY <1>1, <1>4 DEF Session!vars
<1>6. Prompted'
  BY <1>1, <1>3 DEF IInv, Typed, Prompted
<1>7. IInv'
  BY <1>1, <1>2, <1>3, <1>6 DEF IInv, Typed, CacheSound, CacheFair, Warned, Asking, Idle
<1> QED BY <1>5, <1>7 DEF Good

-----------------------------------------------------------------------------
LEMMA Initial == Init => IInv /\ Session!Init
<1> SUFFICES ASSUME Init
             PROVE  IInv /\ Session!Init
  OBVIOUS
<1>1. Typed
  BY DEF Init, Typed, Stages
<1>2. CacheSound /\ CacheFair /\ Asking /\ Prompted
  BY DEF Init, CacheSound, CacheFair, Asking, Prompted
<1>3. Warned
  BY DEF Init, Warned
<1>4. Session!Init
  BY DEF Init, Session!Init, Outcome
<1> QED BY <1>1, <1>2, <1>3, <1>4 DEF IInv

LEMMA Inductive == IInv /\ [Next]_vars => Good
<1> SUFFICES ASSUME IInv, [Next]_vars
             PROVE  Good
  OBVIOUS
<1>1. CASE RegisterBuiltin \/ InstallChanges \/ install
  <2>1. wraps' \in Int /\ UNCHANGED <<memo, asking, input, progress>>
    BY <1>1 DEF RegisterBuiltin, InstallChanges, install, setup, IInv, Typed
  <2> QED BY <2>1, SetupStep
<1>2. CASE SpawnReturns
  BY <1>2, ReturnStep
<1>3. ASSUME NEW k \in Calls, Approve(k) \/ UserAnswers(k) \/ Execute(k)
      PROVE  Good
  BY <1>3, NativeStep, CachedStep, SpawnStep, UserStep, ExecuteStep DEF Approve
<1>4. CASE UNCHANGED vars
  BY <1>4, SetupStep DEF vars, memo, input, progress, IInv, Typed
<1> QED BY <1>1, <1>2, <1>3, <1>4 DEF Next

\* A broken install is reported at most once in a session, and was reported
\* when a malfunction is remembered (classify, classify-bash.ts).
THEOREM WarnsOnce == Spec => []WarnedOnce
<1>1. IInv => WarnedOnce
  BY DEF IInv, Warned, WarnedOnce
<1>2. IInv /\ [Next]_vars => IInv'
  BY Inductive DEF Good
<1> QED BY <1>1, <1>2, Initial, PTL DEF Spec

-----------------------------------------------------------------------------
\* What a verdict that prompts says of its command.
LEMMA PromptingVerdict ==
  ASSUME IInv, NEW c \in Commands, cache[c] # "none", Class[c] = "ReadOnly",
         TierOf(cache[c]) = "exec"
  PROVE  warned
BY DEF IInv, Typed, CacheFair, Warned, TierOf, Verdicts

\* An approval that does not prompt for its call makes no other prompt.
LEMMA ResolveExplained ==
  ASSUME IInv, PromptsExplained, NEW k \in Calls,
         stage[k] \in {"before", "between"}, NEW tier, Resolve(k, tier),
         warned => warned', UNCHANGED final,
         /\ stage[k] = "between" /\ tier # "read"
         /\ wraps > 0 /\ final[k] # Empty /\ Class[final[k]] = "ReadOnly"
         => warned'
  PROVE  PromptsExplained'
<1>1. /\ \A j \in Calls \ {k} : stage'[j] = stage[j] /\ layer'[j] = layer[j]
      /\ layer'[k] = wraps
      /\ stage'[k] = "asked" => stage[k] # "before" /\ tier # "read"
  BY DEF IInv, Typed, Resolve
<1>2. CASE stage[k] = "between"
  BY <1>1, <1>2 DEF PromptsExplained
<1>3. CASE stage[k] = "before"
  BY <1>1, <1>3 DEF PromptsExplained
<1> QED BY <1>2, <1>3

\* A read-only command is prompted for under a wrapper only once the broken
\* install has been reported, for every number of calls that share the cache
\* and of changes of the install (classify, classify-bash.ts).
THEOREM PromptsAreExplained == Spec => []PromptsExplained
<1>1. Init => PromptsExplained
  BY DEF Init, PromptsExplained
<1>2. IInv /\ IInv' /\ PromptsExplained /\ [Next]_vars => PromptsExplained'
  <2> SUFFICES ASSUME IInv, IInv', PromptsExplained, [Next]_vars
               PROVE  PromptsExplained'
    OBVIOUS
  <2>1. CASE \/ RegisterBuiltin \/ InstallChanges \/ install \/ UNCHANGED vars
             \/ \E k \in Calls : Spawn(k)
    BY <2>1 DEF RegisterBuiltin, InstallChanges, install, Spawn, vars, memo,
                input, progress, PromptsExplained
  <2>2. CASE SpawnReturns
    <3> DEFINE k == asking
    <3>1. k \in Calls /\ stage[k] \in {"before", "between"}
      BY <2>2 DEF SpawnReturns, IInv, Asking
    <3>2. PICK e \in Ends(binary, args(k)) :
            /\ warn(verdictOf(e))
            /\ cache' = [room EXCEPT ![args(k)] = verdictOf(e)]
            /\ Resolve(k, tierAfter(e))
      BY <2>2 DEF SpawnReturns
    <3>3. warned => warned'
      BY <3>2 DEF warn
    <3>4. UNCHANGED final
      BY <2>2 DEF SpawnReturns, input
    <3>5. ASSUME stage[k] = "between", tierAfter(e) # "read",
                 Class[final[k]] = "ReadOnly"
          PROVE  warned'
      <4>1. args(k) = final[k] /\ args(k) \in Commands
        BY <3>1, <3>5, ArgsType DEF args
      <4>2. verdictOf(e) = "malfunction"
        BY <3>5, <4>1, VerdictIsSound DEF tierAfter, TierOf, Verdicts
      <4> QED BY <3>2, <4>2 DEF warn, IInv, Warned
    <3> HIDE DEF k
    <3> QED BY <3>1, <3>2, <3>3, <3>4, <3>5, ResolveExplained
  <2>3. ASSUME NEW k \in Calls, ApproveCached(k)
        PROVE  PromptsExplained'
    <3>1. /\ Resolve(k, TierOf(cache[args(k)])) /\ cache[args(k)] # "none"
          /\ stage[k] \in {"before", "between"} /\ UNCHANGED <<final, warned>>
      BY <2>3 DEF ApproveCached, Awaits, memo, input
    <3>2. stage[k] = "between" => args(k) = final[k]
      BY DEF args
    <3>3. TierOf(cache[args(k)]) \in {"read", "exec"} /\ args(k) \in Commands
      BY ArgsType DEF TierOf
    <3> QED BY <3>1, <3>2, <3>3, PromptingVerdict, ResolveExplained
  <2>4. ASSUME NEW k \in Calls, ApproveNative(k)
        PROVE  PromptsExplained'
    <3>1. /\ Resolve(k, "exec") /\ UNCHANGED <<final, warned>>
          /\ stage[k] \in {"before", "between"}
          /\ wraps = 0 \/ args(k) = Empty
      BY <2>4 DEF ApproveNative, Awaits, memo, input
    <3>2. stage[k] = "between" => args(k) = final[k]
      BY DEF args
    <3> QED BY <3>1, <3>2, ResolveExplained
  <2>5. ASSUME NEW k \in Calls, UserAnswers(k) \/ Execute(k)
        PROVE  PromptsExplained'
    <3>1. /\ \A j \in Calls : stage'[j] = "asked" =>
               stage[j] = "asked" /\ layer'[j] = layer[j]
          /\ UNCHANGED <<final, warned>>
      BY <2>5 DEF UserAnswers, Execute, memo, input, IInv, Typed
    <3> QED BY <3>1 DEF PromptsExplained
  <2> QED BY <2>1, <2>2, <2>3, <2>4, <2>5 DEF Next, Approve
<1>3. IInv /\ [Next]_vars => IInv'
  BY Inductive DEF Good
<1> QED BY <1>1, <1>2, <1>3, Initial, PTL DEF Spec

-----------------------------------------------------------------------------
\* The cache keeps to its limit, in a set TLAPS knows to be finite.
CacheKept == IsFiniteSet(Cached) /\ Cardinality(Cached) <= CACHE_LIMIT

\* A call is resolved to a stage and to a wrapper there is.
LEMMA ResolveType ==
  ASSUME IInv, TypeOK, NEW k \in Calls, NEW tier \in {"read", "exec"},
         Resolve(k, tier)
  PROVE  /\ stage' \in [Calls -> Stages]
         /\ prompted' \subseteq Calls
         /\ layer' \in [Calls -> 0..MaxInstalls]
<1>1. wraps \in 0..MaxInstalls
  BY LimitsAssumption DEF TypeOK
<1> QED BY <1>1 DEF TypeOK, Resolve, Stages

\* An entry is added where there is room for one.
LEMMA EntryFits ==
  ASSUME IInv, CacheKept, SpawnReturns
  PROVE  /\ CacheKept'
         /\ cache' \in [Commands -> Verdicts \cup {"none"}]
<1>1. asking \in Calls
  BY DEF SpawnReturns, IInv, Asking
<1>2. PICK e \in Ends(binary, args(asking)) :
        cache' = [room EXCEPT ![args(asking)] = verdictOf(e)]
  BY DEF SpawnReturns
<1> DEFINE c == args(asking)  v == verdictOf(e)
           R == {d \in Commands : room[d] # "none"}
<1>3. c \in Commands /\ v \in Verdicts
  BY <1>1, ArgsType, VerdictIsSound
<1>4. room \in [Commands -> Verdicts \cup {"none"}]
  BY DEF room, IInv, Typed
<1>5. IsFiniteSet(R) /\ Cardinality(R) < CACHE_LIMIT
  <2>1. CASE Cardinality(Cached) >= CACHE_LIMIT
    <3>1. R = {}
      BY <2>1 DEF room
    <3> QED BY <3>1, FS_EmptySet, LimitsAssumption
  <2>2. CASE ~(Cardinality(Cached) >= CACHE_LIMIT)
    <3>1. R = Cached
      BY <2>2 DEF room, Cached
    <3>2. Cardinality(Cached) \in Nat
      BY FS_CardinalityType DEF CacheKept
    <3> QED BY <2>2, <3>1, <3>2, LimitsAssumption DEF CacheKept
  <2> QED BY <2>1, <2>2
<1>6. Cached' = R \cup {c}
  BY <1>2, <1>3, <1>4 DEF Cached, Verdicts
<1> HIDE DEF R, c, v
<1>7. /\ IsFiniteSet(R \cup {c})
      /\ Cardinality(R \cup {c}) <= CACHE_LIMIT
  <2>1. Cardinality(R) \in Nat
    BY <1>5, FS_CardinalityType
  <2>2. /\ IsFiniteSet(R \cup {c})
        /\ Cardinality(R \cup {c}) = IF c \in R THEN Cardinality(R)
                                      ELSE Cardinality(R) + 1
    BY <1>5, FS_AddElement
  <2> QED BY <1>5, <2>1, <2>2, LimitsAssumption
<1>8. CacheKept'
  BY <1>6, <1>7 DEF CacheKept
<1> QED BY <1>2, <1>3, <1>4, <1>8 DEF c, v

\* Each step keeps the types.
LEMMA TypeStep ==
  ASSUME IInv, IInv', TypeOK, CacheKept, [Next]_vars
  PROVE  TypeOK' /\ CacheKept'
<1>1. warned' \in BOOLEAN /\ warnings' \in 0..2
  BY DEF IInv, Warned
<1>2. CASE RegisterBuiltin \/ InstallChanges \/ install
  <2>1. /\ binary' \in Binaries /\ builtin' \in BOOLEAN
        /\ UNCHANGED <<cache, asking, first, final, stage, prompted, layer>>
    BY <1>2 DEF RegisterBuiltin, InstallChanges, install, setup, memo, input,
                progress, TypeOK
  <2>2. installs' \in 0..MaxInstalls /\ wraps' \in 0..installs'
    BY <1>2, LimitsAssumption
    DEF RegisterBuiltin, InstallChanges, install, setup, TypeOK
  <2> QED BY <1>1, <2>1, <2>2 DEF TypeOK, CacheKept, Cached
<1>3. CASE SpawnReturns
  <2>1. CacheKept' /\ cache' \in [Commands -> Verdicts \cup {"none"}]
    BY <1>3, EntryFits
  <2>2. PICK e \in Ends(binary, args(asking)) : Resolve(asking, tierAfter(e))
    BY <1>3 DEF SpawnReturns
  <2>3. asking \in Calls /\ tierAfter(e) \in {"read", "exec"}
    BY <1>3 DEF SpawnReturns, IInv, Asking, tierAfter, TierOf
  <2>4. /\ stage' \in [Calls -> Stages]
        /\ prompted' \subseteq Calls
        /\ layer' \in [Calls -> 0..MaxInstalls]
    BY <2>2, <2>3, ResolveType
  <2>5. asking' = NoCall /\ UNCHANGED <<binary, setup, input>>
    BY <1>3 DEF SpawnReturns
  <2> QED BY <1>1, <2>1, <2>4, <2>5 DEF TypeOK, CacheKept, setup, input
<1>4. ASSUME NEW k \in Calls, ApproveNative(k) \/ ApproveCached(k)
      PROVE  TypeOK' /\ CacheKept'
  <2>1. PICK tier \in {"read", "exec"} : Resolve(k, tier)
    BY <1>4 DEF ApproveNative, ApproveCached, TierOf
  <2>2. /\ stage' \in [Calls -> Stages]
        /\ prompted' \subseteq Calls
        /\ layer' \in [Calls -> 0..MaxInstalls]
    BY <2>1, ResolveType
  <2>3. UNCHANGED <<binary, setup, memo, asking, input>>
    BY <1>4 DEF ApproveNative, ApproveCached
  <2> QED BY <1>1, <2>2, <2>3 DEF TypeOK, CacheKept, Cached, setup, memo, input
<1>5. ASSUME NEW k \in Calls, Spawn(k)
      PROVE  TypeOK' /\ CacheKept'
  BY <1>1, <1>5 DEF Spawn, TypeOK, CacheKept, Cached, setup, memo, input, progress
<1>6. ASSUME NEW k \in Calls, UserAnswers(k)
      PROVE  TypeOK' /\ CacheKept'
  <2>1. stage' \in [Calls -> Stages]
    BY <1>6 DEF UserAnswers, TypeOK, Stages
  <2> QED BY <1>1, <1>6, <2>1
          DEF UserAnswers, TypeOK, CacheKept, Cached, setup, memo, input
<1>7. ASSUME NEW k \in Calls, Execute(k)
      PROVE  TypeOK' /\ CacheKept'
  <2>1. stage' \in [Calls -> Stages] /\ layer' \in [Calls -> 0..MaxInstalls]
    BY <1>7, LimitsAssumption DEF Execute, delegate, TypeOK, Stages
  <2> QED BY <1>1, <1>7, <2>1
          DEF Execute, TypeOK, CacheKept, Cached, setup, memo, input
<1>8. CASE UNCHANGED vars
  BY <1>8 DEF vars, TypeOK, CacheKept, Cached, setup, memo, input, progress
<1> QED BY <1>2, <1>3, <1>4, <1>5, <1>6, <1>7, <1>8 DEF Next, Approve

\* The cache keeps to its limit (CACHE_LIMIT, classify-bash.ts), and every
\* variable to its type, for every number of calls, commands and installs.
THEOREM TypeCorrect == Spec => []TypeOK
<1>1. Init => TypeOK /\ CacheKept
  <2> SUFFICES ASSUME Init
               PROVE  TypeOK /\ CacheKept
    OBVIOUS
  <2>1. Cached = {}
    BY DEF Init, Cached
  <2>2. CacheKept
    BY <2>1, FS_EmptySet, LimitsAssumption DEF CacheKept
  <2>3. /\ cache \in [Commands -> Verdicts \cup {"none"}]
        /\ stage \in [Calls -> Stages]
        /\ layer \in [Calls -> 0..MaxInstalls]
    BY LimitsAssumption DEF Init, Stages
  <2>4. /\ installs \in 0..MaxInstalls /\ wraps \in 0..installs
        /\ warnings \in 0..2
    BY LimitsAssumption DEF Init
  <2>5. /\ binary \in Binaries /\ builtin \in BOOLEAN /\ warned \in BOOLEAN
        /\ asking \in Calls \cup {NoCall} /\ prompted \subseteq Calls
        /\ first \in [Calls -> Commands] /\ final \in [Calls -> Commands]
    BY Zenon DEF Init
  <2> QED BY <2>2, <2>3, <2>4, <2>5 DEF TypeOK, CacheKept
<1>2. IInv /\ [Next]_vars => IInv'
  BY Inductive DEF Good
<1>3. IInv /\ IInv' /\ TypeOK /\ CacheKept /\ [Next]_vars => TypeOK' /\ CacheKept'
  BY TypeStep
<1> QED BY <1>1, <1>2, <1>3, Initial, PTL DEF Spec

\* For any number of calls sharing the cache, each is answered as Accelerator
\* says; that each is answered at all is left to TLC (KeepsPromise).
THEOREM ImplementsSession ==
  Spec => Session!Init /\ [][Session!Next]_(Session!vars)
<1>1. IInv /\ [Next]_vars => IInv' /\ [Session!Next]_(Session!vars)
  BY Inductive DEF Good
<1> QED BY <1>1, Initial, PTL DEF Spec
=============================================================================
