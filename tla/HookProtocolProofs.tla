------------------------- MODULE HookProtocolProofs -------------------------
(***************************************************************************)
(* What HookProtocol satisfies for every set of registrations and every    *)
(* event: its types; that each step is one the Accelerator may take, an    *)
(* allow being right whatever fails inside the process, and a block asked  *)
(* for or the mark of one of the two faults; that the policy is carried    *)
(* out; and what a run leaves on record.                                   *)
(***************************************************************************)
EXTENDS HookProtocol, TLAPS

Configured == {"deprecated", "decode", "decoded", "classify", "allow",
               "fallthrough"}

\* The registration was taken, and the policy in force is the one it asks for.
Taken ==
  /\ pc = "hook" => reg.word = "hook"
  /\ pc \in {"legacy", "deprecated"} => reg.word = "flags"
  /\ pc \in Configured => ~Misregistered /\ strictness = Intended

\* What each stage of classifyEvent established of the event.
Staged ==
  /\ pc \in {"decoded", "classify", "allow", "fallthrough"} =>
       ~(driftSeen /\ strictness.onUnknownField = "fail")
  /\ pc \in {"classify", "allow", "fallthrough"} => event.payload = "usable"
  /\ pc = "allow" => shouldAllow

\* Nothing is on stdout before the exit, and an answer there was right.
Answered ==
  /\ pc # "exited" => stdout = "none"
  /\ stdout = "allow" /\ exit = 0 => Grantable
  /\ exit = 2 => Refusable \/ Faulted

\* TypeOK in two parts: how far the process is, and what its variables hold.
Progress ==
  /\ pc \in {"main", "hook", "legacy", "deprecated", "decode", "decoded",
             "classify", "allow", "fallthrough", "exited"}
  /\ stdout \in {"none", "allow", "torn"}
  /\ exit \in {-1, 0, 1, 2, SIGPIPE}
  /\ pc = "exited" <=> exit # -1

Held ==
  /\ reg \in Registrations
  /\ event \in Events
  /\ strictness \in [onUnknownField : Fields, onUnknownAST : ASTs]
  /\ logCfg \in {"nil", "off", "on"}
  /\ currentCommand \in Commands
  /\ sink \in {"up", "down"}
  /\ pipes \in Pipes
  /\ records \in Seq(LogRecords)

IInv == Progress /\ Held /\ Taken /\ Staged /\ Answered

-----------------------------------------------------------------------------
\* The record a helper may add has the type of a record.
LEMMA LoggedType ==
  ASSUME Held, NEW kind \in Kinds, NEW command \in Commands
  PROVE  logNonAllow(kind, command) \in Seq(LogRecords)
<1>1. [kind |-> kind, command |-> command] \in LogRecords
  BY DEF LogRecords
<1>2. records \in Seq(LogRecords)
  BY DEF Held
<1>. QED BY <1>1, <1>2 DEF logNonAllow

\* Where the flags resolve, the policy is well formed and the one intended.
LEMMA ResolvedIntended ==
  ASSUME Held, reg.word = "hook", ResolvesMode
  PROVE  /\ Resolved \in [onUnknownField : Fields, onUnknownAST : ASTs]
         /\ Resolved = Intended
         /\ reg.sinkKnown => ~Misregistered
<1>. reg \in AllRegistrations
  BY RegistrationsAssumption DEF Held
<1>1. reg.mode \in {"claude-strict", "claude-lenient"}
  BY DEF ResolvesMode, modes
<1>2. /\ modes["claude-strict"].onUnknownField = "fail"
      /\ modes["claude-strict"].onUnknownAST = "fail"
      /\ modes["claude-lenient"].onUnknownField = "withhold"
      /\ modes["claude-lenient"].onUnknownAST = "fallthrough"
  BY DEF modes
<1>3. /\ Resolved.onUnknownField \in Fields
      /\ Resolved.onUnknownAST \in ASTs
  BY DEF ResolvesMode, validateStrictness
<1>4. Resolved \in [onUnknownField : Fields, onUnknownAST : ASTs]
  BY <1>3 DEF Resolved
<1>5. /\ Resolved.onUnknownField = Intended.onUnknownField
      /\ Resolved.onUnknownAST = Intended.onUnknownAST
  <2>1. reg.word # "flags"
    OBVIOUS
  <2>2. /\ Intended.onUnknownField =
             IF reg.field # "none" THEN reg.field
             ELSE IF reg.mode = "claude-strict" THEN "fail" ELSE "withhold"
        /\ Intended.onUnknownAST =
             IF reg.ast # "none" THEN reg.ast
             ELSE IF reg.mode = "claude-strict" THEN "fail" ELSE "fallthrough"
    BY <2>1 DEF Intended
  <2>. QED BY <1>1, <1>2, <2>2 DEF Resolved, Overridden
<1>6. Resolved = Intended
  BY <1>5 DEF Resolved, Intended
<1>7. reg.field # "typo" /\ reg.ast # "typo"
  BY <1>3 DEF Resolved, Overridden, Fields, ASTs
<1>8. reg.sinkKnown => ~Misregistered
  BY <1>1, <1>7 DEF Misregistered, ResolvesMode
<1>. QED BY <1>4, <1>6, <1>8

\* A hook registration whose flags do not resolve is one of the bad ones.
LEMMA UnresolvedMisregistered ==
  ASSUME Held, reg.word = "hook", ~ResolvesMode
  PROVE  Misregistered
<1>. reg \in AllRegistrations
  BY RegistrationsAssumption DEF Held
<1>. SUFFICES ASSUME ~Misregistered PROVE FALSE
  OBVIOUS
<1>1. /\ reg.parses
      /\ reg.mode \in {"claude-strict", "claude-lenient"}
      /\ reg.field \in Fields \cup {"none"}
      /\ reg.ast \in ASTs \cup {"none"}
  BY DEF Misregistered, AllRegistrations
<1>2. DOMAIN modes = {"claude-strict", "claude-lenient"}
  BY DEF modes
<1>3. /\ modes["claude-strict"].onUnknownField = "fail"
      /\ modes["claude-strict"].onUnknownAST = "fail"
      /\ modes["claude-lenient"].onUnknownField = "withhold"
      /\ modes["claude-lenient"].onUnknownAST = "fallthrough"
  BY DEF modes
<1>4. validateStrictness(Resolved)
  BY <1>1, <1>3 DEF validateStrictness, Resolved, Overridden, Fields, ASTs
<1>. QED BY <1>1, <1>2, <1>4 DEF ResolvesMode

\* The registration and the event, and what is asked of them, stay the same.
LEMMA Unasked ==
  ASSUME UNCHANGED env
  PROVE  /\ Misregistered' = Misregistered
         /\ Intended' = Intended
         /\ Grantable' = Grantable
         /\ Refusable' = Refusable
         /\ Faulted' = Faulted
         /\ driftSeen' = driftSeen
BY DEF env, Misregistered, Intended, Grantable, Refusable, Faulted, driftSeen

-----------------------------------------------------------------------------
LEMMA InitHolds == Init => IInv
<1>. SUFFICES ASSUME Init PROVE IInv
  OBVIOUS
<1>1. Progress
  BY DEF Init, Progress, SIGPIPE
<1>2. Held
  <2>1. legacyStrictness \in [onUnknownField : Fields, onUnknownAST : ASTs]
    BY DEF legacyStrictness, Fields, ASTs
  <2>2. << >> \in Seq(LogRecords)
    OBVIOUS
  <2>. QED BY <2>1, <2>2 DEF Init, Held, Commands
<1>3. Taken /\ Staged
  BY DEF Init, Taken, Staged, Configured
<1>4. Answered
  BY DEF Init, Answered
<1>. QED BY <1>1, <1>2, <1>3, <1>4 DEF IInv

\* The hook is about to allow only what may be granted.
LEMMA AllowsRight ==
  ASSUME IInv, pc = "allow"
  PROVE  Grantable
<1>1. /\ ~Misregistered /\ strictness = Intended
      /\ event.payload = "usable" /\ shouldAllow
      /\ ~(driftSeen /\ strictness.onUnknownField = "fail")
      /\ strictness.onUnknownField \in Fields
  BY DEF IInv, Taken, Configured, Staged, Held
<1>. QED BY <1>1 DEF shouldAllow, driftSeen, Grantable, Fields

\* Every action leaves the environment alone.
LEMMA EnvKept == Next => UNCHANGED env
BY DEF Next, Dispatch, RunLegacy, RecordLegacy, RunHook, HandleDrift,
       HandleDecodeError, Decide, Crash, emitAllow, FallThrough, env

LEMMA InductiveStep == IInv /\ [Next]_vars => IInv'
<1>. SUFFICES ASSUME IInv, [Next]_vars PROVE IInv'
  OBVIOUS
<1>. USE DEF IInv
<1>. USE DEF Goto, Exit, ExitSaying, SIGPIPE, failLoud, failOpen
<1>ty. Progress /\ Held /\ Taken /\ Staged /\ Answered
  OBVIOUS
<1>1. CASE Dispatch
  <2>. UNCHANGED env BY <1>1 DEF Dispatch
  <2>pr. Progress' BY <1>1 DEF Dispatch, Progress
  <2>1. Held' BY <1>1 DEF Dispatch, Held, env
  <2>2. Taken' BY <1>1 DEF Dispatch, Taken, Configured, env
  <2>3. Staged' BY <1>1 DEF Dispatch, Staged
  <2>4. reg.word = "stray" => Refusable
    BY DEF Refusable, Misregistered
  <2>5. Answered'
    BY <1>1, Unasked, <2>4 DEF Dispatch, Answered
  <2>. QED BY <2>pr, <2>1, <2>2, <2>3, <2>5
<1>2. CASE RunLegacy
  <2>. UNCHANGED env BY <1>2 DEF RunLegacy
  <2>. reg.word = "flags" BY <1>2 DEF RunLegacy, Taken
  <2>1. logNonAllow("failloud", currentCommand)
          \in Seq(LogRecords)
    BY LoggedType DEF Held, Kinds, Commands
  <2>2. legacyStrictness = Intended
    BY DEF legacyStrictness, Intended
  <2>3. legacyStrictness \in [onUnknownField : Fields, onUnknownAST : ASTs]
    BY DEF legacyStrictness, Fields, ASTs
  <2>pr. Progress' BY <1>2 DEF RunLegacy, Progress
  <2>4. Held' BY <1>2, <2>1, <2>3 DEF RunLegacy, Held, env
  <2>5. Misregistered <=> ~(reg.parses /\ reg.sinkKnown)
    BY DEF Misregistered
  <2>6. Taken'
    BY <1>2, <2>2, <2>5, Unasked DEF RunLegacy, Taken, Configured, env
  <2>7. Staged' BY <1>2 DEF RunLegacy, Staged
  <2>8. Answered'
    BY <1>2, <2>5, Unasked DEF RunLegacy, Answered, Refusable, Progress
  <2>. QED BY <2>pr, <2>4, <2>6, <2>7, <2>8
<1>3. CASE RecordLegacy
  <2>. UNCHANGED env BY <1>3 DEF RecordLegacy
  <2>1. logNonAllow("deprecated_invocation", "none")
          \in Seq(LogRecords)
    BY LoggedType DEF Kinds, Commands
  <2>pr. Progress' BY <1>3 DEF RecordLegacy, Progress
  <2>2. Held' BY <1>3, <2>1 DEF RecordLegacy, Held, env
  <2>3. Taken' BY <1>3, Unasked DEF RecordLegacy, Taken, Configured, env
  <2>4. Staged' BY <1>3 DEF RecordLegacy, Staged
  <2>5. Answered' BY <1>3, Unasked DEF RecordLegacy, Answered, Progress
  <2>. QED BY <2>pr, <2>2, <2>3, <2>4, <2>5
<1>4. CASE RunHook
  <2>. UNCHANGED env BY <1>4 DEF RunHook
  <2>. reg.word = "hook" BY <1>4 DEF RunHook, Taken
  <2>1. logNonAllow("failloud", currentCommand)
          \in Seq(LogRecords)
    BY LoggedType DEF Held, Kinds, Commands
  <2>2. CASE ~ResolvesMode
    <3>1. Refusable BY <2>2, UnresolvedMisregistered DEF Refusable
    <3>pr. Progress' BY <1>4, <2>2 DEF RunHook, Progress
    <3>2. Held' BY <1>4, <2>2 DEF RunHook, Held, env
    <3>3. Taken' /\ Staged'
      BY <1>4, <2>2 DEF RunHook, Taken, Staged, Configured
    <3>4. Answered' BY <1>4, <2>2, <3>1, Unasked DEF RunHook, Answered, Progress
    <3>. QED BY <3>pr, <3>2, <3>3, <3>4
  <2>3. CASE ResolvesMode
    <3>1. /\ Resolved \in [onUnknownField : Fields, onUnknownAST : ASTs]
          /\ Resolved = Intended
          /\ reg.sinkKnown => ~Misregistered
      BY <2>3, ResolvedIntended
    <3>2. ~reg.sinkKnown => Refusable
      BY DEF Refusable, Misregistered
    <3>pr. Progress' BY <1>4, <2>3 DEF RunHook, Progress
    <3>3. Held' BY <1>4, <2>1, <2>3, <3>1 DEF RunHook, Held, env
    <3>4. Taken'
      BY <1>4, <2>3, <3>1, Unasked DEF RunHook, Taken, Configured
    <3>5. Staged' BY <1>4, <2>3 DEF RunHook, Staged
    <3>6. Answered'
      BY <1>4, <2>3, <3>2, Unasked DEF RunHook, Answered, Progress
    <3>. QED BY <3>pr, <3>3, <3>4, <3>5, <3>6
  <2>. QED BY <2>2, <2>3
<1>5. CASE HandleDrift
  <2>. UNCHANGED env BY <1>5 DEF HandleDrift
  <2>. strictness = Intended /\ ~Misregistered
    BY <1>5 DEF HandleDrift, Taken, Configured
  <2>1. /\ logNonAllow("failloud", currentCommand)
             \in Seq(LogRecords)
        /\ logNonAllow("schema_drift", "none")
             \in Seq(LogRecords)
    BY LoggedType DEF Held, Kinds, Commands
  <2>pr. Progress' BY <1>5 DEF HandleDrift, Progress
  <2>2. Held' BY <1>5, <2>1 DEF HandleDrift, Held, env
  <2>3. Taken' BY <1>5, Unasked DEF HandleDrift, Taken, Configured
  <2>4. Staged' BY <1>5, Unasked DEF HandleDrift, Staged
  <2>5. driftSeen /\ strictness.onUnknownField = "fail" => Refusable
    BY DEF driftSeen, Refusable
  <2>6. Answered'
    BY <1>5, <2>5, Unasked DEF HandleDrift, Answered, Progress
  <2>. QED BY <2>pr, <2>2, <2>3, <2>4, <2>6
<1>6. CASE HandleDecodeError
  <2>. UNCHANGED env BY <1>6 DEF HandleDecodeError
  <2>1. logNonAllow("undecodable", currentCommand)
          \in Seq(LogRecords)
    BY LoggedType DEF Held, Kinds, Commands
  <2>pr. Progress' BY <1>6 DEF HandleDecodeError, Progress
  <2>2. Held' BY <1>6, <2>1 DEF HandleDecodeError, Held, env, Commands
  <2>3. Taken' BY <1>6, Unasked DEF HandleDecodeError, Taken, Configured
  <2>4. Staged' BY <1>6, Unasked DEF HandleDecodeError, Staged, env
  <2>5. Answered'
    BY <1>6, Unasked DEF HandleDecodeError, Answered, Progress
  <2>. QED BY <2>pr, <2>2, <2>3, <2>4, <2>5
<1>7. CASE Decide
  <2>. UNCHANGED env BY <1>7 DEF Decide
  <2>. strictness = Intended /\ ~Misregistered
    BY <1>7 DEF Decide, Taken, Configured
  <2>. event.payload = "usable"
    BY <1>7 DEF Decide, Staged
  <2>1. logNonAllow("failloud", currentCommand)
          \in Seq(LogRecords)
    BY LoggedType DEF Held, Kinds, Commands
  <2>pr. Progress' BY <1>7 DEF Decide, Progress
  <2>2. Held' BY <1>7, <2>1 DEF Decide, Held, env
  <2>3. Taken' BY <1>7, Unasked DEF Decide, Taken, Configured
  <2>4. shouldAllow' = shouldAllow
    BY <1>7 DEF Decide, shouldAllow, driftSeen, env
  <2>5. Staged' BY <1>7, <2>4, Unasked DEF Decide, Staged, env
  <2>6. event.class = "Unparseable" /\ strictness.onUnknownAST = "fail"
          => Refusable
    BY DEF Refusable
  <2>7. Answered'
    BY <1>7, <2>6, Unasked DEF Decide, Answered, Progress
  <2>. QED BY <2>pr, <2>2, <2>3, <2>5, <2>7
<1>8. CASE Crash
  <2>. UNCHANGED env BY <1>8 DEF Crash
  <2>1. Faulted BY <1>8 DEF Crash, Staged, Faulted
  <2>pr. Progress' BY <1>8 DEF Crash, Progress
  <2>2. Held' BY <1>8 DEF Crash, Held, env
  <2>3. Taken' /\ Staged' BY <1>8 DEF Crash, Taken, Staged, Configured
  <2>4. Answered'
    BY <1>8, <2>1, Unasked DEF Crash, Answered, Progress
  <2>. QED BY <2>pr, <2>2, <2>3, <2>4
<1>9. CASE emitAllow
  <2>. UNCHANGED env BY <1>9 DEF emitAllow
  <2>. strictness = Intended /\ ~Misregistered
    BY <1>9 DEF emitAllow, Taken, Configured
  <2>1. logNonAllow("failloud", currentCommand)
          \in Seq(LogRecords)
    BY LoggedType DEF Held, Kinds, Commands
  <2>pr. Progress' BY <1>9 DEF emitAllow, Progress
  <2>2. Held' BY <1>9, <2>1 DEF emitAllow, Held, env
  <2>3. Taken' /\ Staged' BY <1>9 DEF emitAllow, Taken, Staged, Configured
  <2>4. Grantable
    BY <1>9, AllowsRight DEF emitAllow
  <2>5. Answered'
    BY <1>9, <2>4, Unasked DEF emitAllow, Answered, Progress, Faulted
  <2>. QED BY <2>pr, <2>2, <2>3, <2>5
<1>10. CASE FallThrough
  <2>. UNCHANGED env BY <1>10 DEF FallThrough
  <2>1. logNonAllow("fallthrough", "cmd")
          \in Seq(LogRecords)
    BY LoggedType DEF Kinds, Commands
  <2>pr. Progress' BY <1>10 DEF FallThrough, Progress
  <2>2. Held' BY <1>10, <2>1 DEF FallThrough, Held, env
  <2>3. Taken' /\ Staged' BY <1>10 DEF FallThrough, Taken, Staged, Configured
  <2>4. Answered'
    BY <1>10, Unasked DEF FallThrough, Answered, Progress
  <2>. QED BY <2>pr, <2>2, <2>3, <2>4
<1>11. CASE UNCHANGED vars
  <2>. UNCHANGED env BY <1>11 DEF vars, env
  <2>pr. Progress' BY <1>11 DEF vars, Progress
  <2>1. Held' BY <1>11 DEF vars, Held
  <2>2. Taken' BY <1>11, Unasked DEF vars, Taken, Configured
  <2>3. shouldAllow' = shouldAllow
    BY <1>11 DEF vars, shouldAllow, driftSeen
  <2>4. Staged' BY <1>11, <2>3, Unasked DEF vars, Staged
  <2>5. Answered' BY <1>11, Unasked DEF vars, Answered
  <2>. QED BY <2>pr, <2>1, <2>2, <2>4, <2>5
<1>. QED
  BY <1>1, <1>2, <1>3, <1>4, <1>5, <1>6, <1>7, <1>8, <1>9, <1>10, <1>11
  DEF Next

LEMMA InvariantHolds == Spec => []IInv
BY InitHolds, InductiveStep, PTL DEF Spec

-----------------------------------------------------------------------------
(***************************************************************************)
(* What a run leaves on record.                                            *)
(***************************************************************************)

Logging == logCfg = "on" /\ sink = "up"

\* Nothing recorded yet closes the run.
Unclosed(rs) == \A i \in 1..Len(rs) : rs[i].kind \notin Closing

\* Nothing recorded yet is about the event.
Early(rs) == \A i \in 1..Len(rs) : rs[i].kind = "deprecated_invocation"

\* Drift is recorded, before anything else about the event.
Drifted(rs) ==
  \E i \in 1..Len(rs) : /\ rs[i].kind = "schema_drift"
                       /\ \A j \in 1..(i - 1) :
                            rs[j].kind = "deprecated_invocation"

MustNoteDrift == driftSeen /\ Intended.onUnknownField \in {"withhold", "log"}

Closed(rs) == {i \in 1..Len(rs) : rs[i].kind \in Closing} = {Len(rs)}

\* The command is known from the moment the event is found usable.
Named ==
  /\ pc \in {"main", "hook", "legacy", "deprecated", "decode", "decoded"} =>
       currentCommand = "none"
  /\ pc \in {"classify", "allow", "fallthrough"} => currentCommand = "cmd"
  /\ pc \in {"main", "hook", "legacy"} => logCfg = "nil" /\ records = << >>
  /\ pc = "allow" => event.class = "ReadOnly"
  /\ pc = "fallthrough" => event.class # "crash"

\* While the run goes on, what is on record does not close it, and drift that
\* must be noted is, once it has been handled.
OnRecord ==
  Logging =>
    /\ pc # "exited" => Unclosed(records)
    /\ pc \in {"deprecated", "decode"} => Early(records)
    /\ pc \in {"decoded", "classify", "allow", "fallthrough", "exited"} /\
         MustNoteDrift => Drifted(records)

RInv == Named /\ OnRecord /\ RecordedUnlessAllowed /\ LoudIsTraceable

\* A record that closes a run whose records do not close it.
LEMMA AppendClosing ==
  ASSUME NEW rs \in Seq(LogRecords), Unclosed(rs),
         NEW kind \in Closing, NEW command \in Commands
  PROVE  LET rs2 == Append(rs, [kind |-> kind, command |-> command])
         IN  /\ Closed(rs2)
             /\ rs2 # << >>
             /\ rs2[Len(rs2)] = [kind |-> kind, command |-> command]
             /\ Drifted(rs) => Drifted(rs2)
<1>. DEFINE r == [kind |-> kind, command |-> command]
            rs2 == Append(rs, r)
<1>1. r \in LogRecords /\ r.kind = kind
  BY DEF LogRecords, Closing, Kinds
<1>2. /\ Len(rs2) = Len(rs) + 1 /\ Len(rs) \in Nat
      /\ \A i \in 1..Len(rs) : rs2[i] = rs[i]
      /\ rs2[Len(rs) + 1] = r
  BY <1>1
<1>. HIDE DEF rs2
<1>3. Closed(rs2)
  <2>1. \A i \in 1..Len(rs2) : rs2[i].kind \in Closing <=> i = Len(rs2)
    BY <1>1, <1>2 DEF Unclosed
  <2>. QED BY <2>1, <1>2 DEF Closed
<1>4. Drifted(rs) => Drifted(rs2)
  BY <1>2 DEF Drifted
<1>5. rs2 # << >>
  BY <1>2
<1>. QED BY <1>2, <1>3, <1>4, <1>5 DEF rs2

\* A record of drift after early ones.
LEMMA AppendDrift ==
  ASSUME NEW rs \in Seq(LogRecords), Early(rs)
  PROVE  LET rs2 == Append(rs, [kind |-> "schema_drift", command |-> "none"])
         IN  Unclosed(rs2) /\ Drifted(rs2)
<1>. DEFINE r == [kind |-> "schema_drift", command |-> "none"]
            rs2 == Append(rs, r)
<1>1. r \in LogRecords /\ r.kind = "schema_drift"
  BY DEF LogRecords, Kinds, Commands
<1>2. /\ Len(rs2) = Len(rs) + 1 /\ Len(rs) \in Nat
      /\ \A i \in 1..Len(rs) : rs2[i] = rs[i]
      /\ rs2[Len(rs) + 1] = r
  BY <1>1
<1>. HIDE DEF rs2
<1>3. Unclosed(rs2)
  BY <1>1, <1>2 DEF Unclosed, Early, Closing
<1>4. Drifted(rs2)
  <2>1. Len(rs) + 1 \in 1..Len(rs2)
    BY <1>2
  <2>2. \A j \in 1..((Len(rs) + 1) - 1) : rs2[j].kind = "deprecated_invocation"
    BY <1>2 DEF Early
  <2>. QED BY <1>1, <1>2, <2>1, <2>2 DEF Drifted
<1>. QED BY <1>3, <1>4 DEF rs2

LEMMA RecordsInit == Init => RInv
<1>. SUFFICES ASSUME Init PROVE RInv
  OBVIOUS
<1>1. Named
  BY DEF Init, Named
<1>2. OnRecord /\ RecordedUnlessAllowed /\ LoudIsTraceable
  BY DEF Init, OnRecord, Logging, RecordedUnlessAllowed, LoudIsTraceable
<1>. QED BY <1>1, <1>2 DEF RInv

\* A step before logging is configured has nothing on record to keep.
LEMMA Unconfigured ==
  ASSUME logCfg' # "on"
  PROVE  (OnRecord /\ RecordedUnlessAllowed /\ LoudIsTraceable)'
BY DEF OnRecord, Logging, RecordedUnlessAllowed, LoudIsTraceable

\* The two properties speak of the end of a run.
LEMMA Unfinished ==
  ASSUME Progress', pc' # "exited"
  PROVE  (RecordedUnlessAllowed /\ LoudIsTraceable)'
BY DEF Progress, RecordedUnlessAllowed, LoudIsTraceable

\* A step that records why the run ends, and ends it other than by an allow.
LEMMA Closes ==
  ASSUME Held, RInv, pc # "exited", UNCHANGED <<env, logCfg>>,
         NEW kind \in Closing, NEW command \in Commands,
         records' = logNonAllow(kind, command),
         pc' = "exited", Outcome' # "allow",
         exit' = 2 =>
           /\ kind = "failloud"
           /\ command = "none" <=> event.drift /\ Intended.onUnknownField = "fail",
         Logging /\ MustNoteDrift => Drifted(records)
  PROVE  (OnRecord /\ RecordedUnlessAllowed /\ LoudIsTraceable)'
<1>1. Logging' = Logging /\ MustNoteDrift' = MustNoteDrift /\ Intended' = Intended
  BY Unasked DEF Logging, MustNoteDrift, env
<1>2. ASSUME Logging
      PROVE  /\ Closed(records')
             /\ records' # << >>
             /\ records'[Len(records')] = [kind |-> kind, command |-> command]
             /\ MustNoteDrift => Drifted(records')
  <2>1. records' = Append(records, [kind |-> kind, command |-> command])
    BY <1>2 DEF logNonAllow, Logging
  <2>2. records \in Seq(LogRecords)
    BY DEF Held
  <2>3. Unclosed(records)
    BY <1>2 DEF RInv, OnRecord
  <2>. QED BY <1>2, <2>1, <2>2, <2>3, AppendClosing
<1>3. OnRecord'
  BY <1>1, <1>2 DEF OnRecord
<1>4. RecordedUnlessAllowed'
  BY <1>1, <1>2 DEF RecordedUnlessAllowed, Closed, Logging
<1>5. LoudIsTraceable'
  BY <1>1, <1>2 DEF LoudIsTraceable, Logging, env
<1>. QED BY <1>3, <1>4, <1>5

LEMMA RecordsStep == IInv /\ IInv' /\ RInv /\ [Next]_vars => RInv'
<1>. SUFFICES ASSUME IInv, IInv', RInv, [Next]_vars PROVE RInv'
  OBVIOUS
<1>. USE DEF Goto, Exit, ExitSaying, SIGPIPE, failLoud, failOpen
<1>ty. /\ Progress /\ Held /\ Taken /\ Staged /\ Answered
       /\ Progress' /\ Named /\ OnRecord
  BY DEF IInv, RInv
<1>cl. {"failloud", "undecodable", "fallthrough"} = Closing
  BY DEF Closing
<1>cm. {"none", "cmd"} = Commands
  BY DEF Commands
<1>1. CASE Dispatch
  <2>1. Named' BY <1>1, <1>ty DEF Dispatch, Named
  <2>2. logCfg' # "on" BY <1>1, <1>ty DEF Dispatch, Named
  <2>. QED BY <2>1, <2>2, Unconfigured DEF RInv
<1>2. CASE RunLegacy
  <2>1. Named' BY <1>2, <1>ty DEF RunLegacy, Named
  <2>2. CASE reg.parses /\ reg.sinkKnown
    <3>1. pc' = "deprecated" /\ records' = << >>
      BY <1>2, <2>2, <1>ty DEF RunLegacy, Named
    <3>2. OnRecord' BY <3>1 DEF OnRecord, Unclosed, Early
    <3>. QED BY <2>1, <3>1, <3>2, <1>ty, Unfinished DEF RInv
  <2>3. CASE ~(reg.parses /\ reg.sinkKnown)
    <3>1. logCfg' # "on" BY <1>2, <2>3, <1>ty DEF RunLegacy, Named
    <3>. QED BY <2>1, <3>1, Unconfigured DEF RInv
  <2>. QED BY <2>2, <2>3
<1>3. CASE RecordLegacy
  <2>1. Named' BY <1>3, <1>ty DEF RecordLegacy, Named
  <2>2. pc' = "decode" /\ Logging' = Logging
    BY <1>3 DEF RecordLegacy, Logging, env
  <2>3. ASSUME Logging PROVE Unclosed(records') /\ Early(records')
    <3>. DEFINE r == [kind |-> "deprecated_invocation", command |-> "none"]
    <3>1. records' = Append(records, r)
      BY <1>3, <2>3 DEF RecordLegacy, logNonAllow, Logging
    <3>2. r \in LogRecords /\ r.kind = "deprecated_invocation"
      BY DEF LogRecords, Kinds, Commands
    <3>3. records \in Seq(LogRecords)
      BY <1>ty DEF Held
    <3>4. Early(records)
      BY <1>3, <2>3, <1>ty DEF RecordLegacy, OnRecord
    <3>5. Early(records')
      BY <3>1, <3>2, <3>3, <3>4 DEF Early
    <3>6. Unclosed(records')
      BY <3>5 DEF Early, Unclosed, Closing
    <3>. QED BY <3>5, <3>6
  <2>4. OnRecord' BY <2>2, <2>3 DEF OnRecord
  <2>. QED BY <2>1, <2>2, <2>4, <1>ty, Unfinished DEF RInv
<1>4. CASE RunHook
  <2>1. Named' BY <1>4, <1>ty DEF RunHook, Named
  <2>2. CASE ResolvesMode /\ reg.sinkKnown
    <3>1. pc' = "decode" /\ records' = << >>
      BY <1>4, <2>2, <1>ty DEF RunHook, Named
    <3>2. OnRecord' BY <3>1 DEF OnRecord, Unclosed, Early
    <3>. QED BY <2>1, <3>1, <3>2, <1>ty, Unfinished DEF RInv
  <2>3. CASE ~(ResolvesMode /\ reg.sinkKnown)
    <3>1. logCfg' # "on" BY <1>4, <2>3, <1>ty DEF RunHook, Named
    <3>. QED BY <2>1, <3>1, Unconfigured DEF RInv
  <2>. QED BY <2>2, <2>3
<1>5. CASE HandleDrift
  <2>. UNCHANGED env BY <1>5 DEF HandleDrift
  <2>1. strictness = Intended
    BY <1>5, <1>ty DEF HandleDrift, Taken, Configured
  <2>2. currentCommand = "none"
    BY <1>5, <1>ty DEF HandleDrift, Named
  <2>3. Named' BY <1>5, <2>2, <1>ty DEF HandleDrift, Named
  <2>4. Logging' = Logging /\ MustNoteDrift' = MustNoteDrift
    BY <1>5, Unasked DEF HandleDrift, Logging, MustNoteDrift, env
  <2>5. CASE driftSeen /\ strictness.onUnknownField = "fail"
    <3>1. /\ records' = logNonAllow("failloud", "none")
          /\ pc' = "exited" /\ exit' # 0 /\ UNCHANGED logCfg
      BY <1>5, <2>2, <2>5 DEF HandleDrift
    <3>2. Outcome' # "allow"
      BY <3>1 DEF Outcome
    <3>3. event.drift /\ Intended.onUnknownField = "fail"
      BY <2>1, <2>5 DEF driftSeen
    <3>4. ~MustNoteDrift
      BY <3>3 DEF MustNoteDrift
    <3>5. pc # "exited"
      BY <1>5 DEF HandleDrift
    <3>6. (OnRecord /\ RecordedUnlessAllowed /\ LoudIsTraceable)'
      BY <3>1, <3>2, <3>3, <3>4, <3>5, <1>ty, <1>cl, <1>cm, Closes
    <3>. QED BY <2>3, <3>6 DEF RInv
  <2>6. CASE driftSeen /\ strictness.onUnknownField \in {"withhold", "log"}
    <3>1. records' = logNonAllow("schema_drift", "none") /\ pc' = "decoded"
      BY <1>5, <2>6 DEF HandleDrift
    <3>2. ASSUME Logging PROVE Unclosed(records') /\ Drifted(records')
      <4>1. records' = Append(records, [kind |-> "schema_drift", command |-> "none"])
        BY <3>1, <3>2 DEF logNonAllow, Logging
      <4>2. records \in Seq(LogRecords) /\ Early(records)
        BY <1>5, <3>2, <1>ty DEF Held, HandleDrift, OnRecord
      <4>. QED BY <4>1, <4>2, AppendDrift
    <3>3. OnRecord' BY <2>4, <3>1, <3>2 DEF OnRecord
    <3>. QED BY <2>3, <3>1, <3>3, <1>ty, Unfinished DEF RInv
  <2>7. CASE ~driftSeen \/ strictness.onUnknownField = "ignore"
    <3>1. pc' = "decoded" /\ records' = records
      BY <1>5, <2>7 DEF HandleDrift
    <3>2. ~MustNoteDrift
      BY <2>1, <2>7 DEF MustNoteDrift
    <3>3. OnRecord'
      BY <1>5, <2>4, <3>1, <3>2, <1>ty DEF OnRecord, HandleDrift
    <3>. QED BY <2>3, <3>1, <3>3, <1>ty, Unfinished DEF RInv
  <2>. QED BY <1>5, <2>5, <2>6, <2>7 DEF HandleDrift
<1>6. CASE HandleDecodeError
  <2>. UNCHANGED env BY <1>6 DEF HandleDecodeError
  <2>1. Logging' = Logging /\ MustNoteDrift' = MustNoteDrift
    BY <1>6, Unasked DEF HandleDecodeError, Logging, MustNoteDrift, env
  <2>2. Named' BY <1>6, <1>ty DEF HandleDecodeError, Named
  <2>3. CASE event.payload # "usable"
    <3>1. /\ records' = logNonAllow("undecodable", currentCommand)
          /\ currentCommand \in Commands
          /\ pc' = "exited" /\ exit' = 0 /\ stdout' = "none"
          /\ UNCHANGED logCfg
      BY <1>6, <2>3, <1>ty DEF HandleDecodeError, Held, Answered
    <3>2. Outcome' # "allow"
      BY <3>1 DEF Outcome
    <3>3. pc # "exited" /\ (Logging /\ MustNoteDrift => Drifted(records))
      BY <1>6, <1>ty DEF HandleDecodeError, OnRecord
    <3>4. (OnRecord /\ RecordedUnlessAllowed /\ LoudIsTraceable)'
      BY <3>1, <3>2, <3>3, <1>ty, <1>cl, Closes
    <3>. QED BY <2>2, <3>4 DEF RInv
  <2>4. CASE event.payload = "usable"
    <3>1. pc' = "classify" /\ records' = records
      BY <1>6, <2>4 DEF HandleDecodeError
    <3>2. OnRecord'
      BY <1>6, <2>1, <3>1, <1>ty DEF OnRecord, HandleDecodeError
    <3>. QED BY <2>2, <3>1, <3>2, <1>ty, Unfinished DEF RInv
  <2>. QED BY <2>3, <2>4
<1>7. CASE Decide
  <2>. UNCHANGED env BY <1>7 DEF Decide
  <2>1. Logging' = Logging /\ MustNoteDrift' = MustNoteDrift
    BY <1>7, Unasked DEF Decide, Logging, MustNoteDrift, env
  <2>2. Named' BY <1>7, <1>ty DEF Decide, Named, shouldAllow, env
  <2>3. CASE event.class = "Unparseable" /\ strictness.onUnknownAST = "fail"
    <3>1. /\ records' = logNonAllow("failloud", "cmd")
          /\ pc' = "exited" /\ exit' # 0 /\ UNCHANGED logCfg
      BY <1>7, <2>3, <1>ty DEF Decide, Named
    <3>2. Outcome' # "allow"
      BY <3>1 DEF Outcome
    <3>3. pc # "exited" /\ (Logging /\ MustNoteDrift => Drifted(records))
      BY <1>7, <1>ty DEF Decide, OnRecord
    <3>4. ~(event.drift /\ Intended.onUnknownField = "fail")
      BY <1>7, <1>ty DEF Decide, Staged, Taken, Configured, driftSeen
    <3>5. (OnRecord /\ RecordedUnlessAllowed /\ LoudIsTraceable)'
      BY <3>1, <3>2, <3>3, <3>4, <1>ty, <1>cl, <1>cm, Closes
    <3>. QED BY <2>2, <3>5 DEF RInv
  <2>4. CASE ~(event.class = "Unparseable" /\ strictness.onUnknownAST = "fail")
    <3>1. pc' \in {"allow", "fallthrough"} /\ records' = records
      BY <1>7, <2>4 DEF Decide
    <3>2. OnRecord'
      BY <1>7, <2>1, <3>1, <1>ty DEF OnRecord, Decide
    <3>. QED BY <2>2, <3>1, <3>2, <1>ty, Unfinished DEF RInv
  <2>. QED BY <2>3, <2>4
<1>8. CASE Crash
  <2>. UNCHANGED env BY <1>8 DEF Crash
  <2>1. /\ pc = "classify" /\ pc' = "exited" /\ records' = records
        /\ event.class = "crash" /\ currentCommand = "cmd"
        /\ UNCHANGED <<event, currentCommand, logCfg>>
    BY <1>8, <1>ty DEF Crash, Named, env
  <2>2. Logging' = Logging /\ MustNoteDrift' = MustNoteDrift
    BY <2>1, Unasked DEF Logging, MustNoteDrift, env
  <2>3. Named' BY <2>1 DEF Named
  <2>4. OnRecord' BY <2>1, <2>2, <1>ty DEF OnRecord
  <2>5. Panicked' BY <2>1 DEF Panicked
  <2>6. (RecordedUnlessAllowed /\ LoudIsTraceable)'
    BY <2>5 DEF RecordedUnlessAllowed, LoudIsTraceable
  <2>. QED BY <2>3, <2>4, <2>6 DEF RInv
<1>9. CASE emitAllow
  <2>. UNCHANGED env BY <1>9 DEF emitAllow
  <2>1. Logging' = Logging /\ MustNoteDrift' = MustNoteDrift
    BY <1>9, Unasked DEF emitAllow, Logging, MustNoteDrift, env
  <2>2. Named' BY <1>9 DEF emitAllow, Named
  <2>3. pc # "exited" /\ (Logging /\ MustNoteDrift => Drifted(records))
    BY <1>9, <1>ty DEF emitAllow, OnRecord
  <2>4. CASE pipes.out = "open"
    <3>1. /\ records' = records /\ pc' = "exited" /\ exit' = 0
          /\ stdout' = "allow"
      BY <1>9, <2>4 DEF emitAllow
    <3>2. OnRecord' BY <2>1, <2>3, <3>1 DEF OnRecord
    <3>3. Outcome' = "allow" BY <3>1 DEF Outcome
    <3>4. Logging => {i \in 1..Len(records) : records[i].kind \in Closing} = {}
      BY <2>3, <1>ty DEF OnRecord, Unclosed
    <3>5. RecordedUnlessAllowed'
      BY <2>1, <3>1, <3>3, <3>4 DEF RecordedUnlessAllowed, Logging
    <3>6. LoudIsTraceable' BY <3>1 DEF LoudIsTraceable
    <3>. QED BY <2>2, <3>2, <3>5, <3>6 DEF RInv
  <2>5. CASE pipes.out = "failing"
    <3>1. /\ records' = logNonAllow("failloud", "cmd")
          /\ pc' = "exited" /\ exit' # 0 /\ UNCHANGED logCfg
      BY <1>9, <2>5, <1>ty DEF emitAllow, Named
    <3>2. Outcome' # "allow"
      BY <3>1 DEF Outcome
    <3>3. ~(event.drift /\ Intended.onUnknownField = "fail")
      BY <1>9, <1>ty DEF emitAllow, Staged, Taken, Configured, driftSeen
    <3>4. (OnRecord /\ RecordedUnlessAllowed /\ LoudIsTraceable)'
      BY <2>3, <3>1, <3>2, <3>3, <1>ty, <1>cl, <1>cm, Closes
    <3>. QED BY <2>2, <3>4 DEF RInv
  <2>6. CASE pipes.out = "closed"
    <3>1. records' = records /\ pc' = "exited" /\ exit' = SIGPIPE
      BY <1>9, <2>6 DEF emitAllow
    <3>2. OnRecord' BY <2>1, <2>3, <3>1 DEF OnRecord
    <3>3. Unheard'
      BY <1>9, <2>6, Unasked, AllowsRight DEF emitAllow, Unheard, env
    <3>4. (RecordedUnlessAllowed /\ LoudIsTraceable)'
      BY <3>1, <3>3 DEF RecordedUnlessAllowed, LoudIsTraceable
    <3>. QED BY <2>2, <3>2, <3>4 DEF RInv
  <2>. QED BY <2>4, <2>5, <2>6, <1>ty DEF Held, Pipes
<1>10. CASE FallThrough
  <2>. UNCHANGED env BY <1>10 DEF FallThrough
  <2>1. Named' BY <1>10 DEF FallThrough, Named
  <2>2. /\ records' = logNonAllow("fallthrough", "cmd")
        /\ pc' = "exited" /\ exit' = 0 /\ stdout' = "none"
        /\ UNCHANGED logCfg
    BY <1>10, <1>ty DEF FallThrough, Answered
  <2>3. Outcome' # "allow"
    BY <2>2 DEF Outcome
  <2>4. pc # "exited" /\ (Logging /\ MustNoteDrift => Drifted(records))
    BY <1>10, <1>ty DEF FallThrough, OnRecord
  <2>5. (OnRecord /\ RecordedUnlessAllowed /\ LoudIsTraceable)'
    BY <2>2, <2>3, <2>4, <1>ty, <1>cl, <1>cm, Closes
  <2>. QED BY <2>1, <2>5 DEF RInv
<1>11. CASE UNCHANGED vars
  <2>. UNCHANGED env BY <1>11 DEF vars, env
  <2>1. Named' BY <1>11, <1>ty DEF vars, Named
  <2>2. Logging' = Logging /\ MustNoteDrift' = MustNoteDrift
    BY <1>11, Unasked DEF vars, Logging, MustNoteDrift
  <2>3. OnRecord' BY <1>11, <2>2, <1>ty DEF vars, OnRecord
  <2>4. /\ Outcome' = Outcome /\ Panicked' = Panicked
        /\ Unheard' = Unheard /\ Intended' = Intended
    BY <1>11, Unasked DEF vars, Outcome, Panicked, Unheard
  <2>5. (RecordedUnlessAllowed /\ LoudIsTraceable)'
    BY <1>11, <2>4 DEF vars, RInv, RecordedUnlessAllowed, LoudIsTraceable
  <2>. QED BY <2>1, <2>3, <2>5 DEF RInv
<1>. QED
  BY <1>1, <1>2, <1>3, <1>4, <1>5, <1>6, <1>7, <1>8, <1>9, <1>10, <1>11
  DEF Next

LEMMA RecordsHold == Spec => []RInv
BY InvariantHolds, RecordsInit, RecordsStep, PTL DEF Spec

-----------------------------------------------------------------------------
(***************************************************************************)
(* What was asked for is done.                                             *)
(***************************************************************************)

\* A call that falls through is one no policy has anything to say of.
Unconcerned ==
  pc = "fallthrough" =>
    /\ ~shouldAllow
    /\ ~(event.class = "Unparseable" /\ strictness.onUnknownAST = "fail")

\* An exit that blocks a call which could not have been granted, if it can say
\* why.
LEMMA BlocksRightly ==
  ASSUME ~Grantable', pipes'.err = "open" => exit' = 2
  PROVE  PolicyCarriedOut'
BY DEF PolicyCarriedOut, Outcome

LEMMA PolicyInit == Init => Unconcerned /\ PolicyCarriedOut
BY DEF Init, Unconcerned, PolicyCarriedOut

LEMMA PolicyStep ==
  IInv /\ Unconcerned /\ PolicyCarriedOut /\ [Next]_vars
    => (Unconcerned /\ PolicyCarriedOut)'
<1>. SUFFICES ASSUME IInv, Unconcerned, PolicyCarriedOut, [Next]_vars
              PROVE  (Unconcerned /\ PolicyCarriedOut)'
  OBVIOUS
<1>. USE DEF Goto, Exit, ExitSaying, SIGPIPE, failLoud, failOpen
<1>ty. Progress /\ Held /\ Taken /\ Staged /\ Answered
  BY DEF IInv
<1>1. CASE Dispatch
  <2>. UNCHANGED env BY <1>1 DEF Dispatch
  <2>1. Unconcerned' BY <1>1 DEF Dispatch, Unconcerned
  <2>2. reg.word = "stray" => ~Grantable
    BY DEF Grantable, Misregistered
  <2>3. PolicyCarriedOut'
    BY <1>1, <2>2, Unasked DEF Dispatch, PolicyCarriedOut, env
  <2>. QED BY <2>1, <2>3
<1>2. CASE RunLegacy
  <2>. UNCHANGED env BY <1>2 DEF RunLegacy
  <2>1. Unconcerned' BY <1>2 DEF RunLegacy, Unconcerned
  <2>2. ~(reg.parses /\ reg.sinkKnown) => ~Grantable
    BY <1>2, <1>ty DEF RunLegacy, Taken, Grantable, Misregistered
  <2>3. PolicyCarriedOut'
    BY <1>2, <2>2, Unasked, BlocksRightly DEF RunLegacy, PolicyCarriedOut, env
  <2>. QED BY <2>1, <2>3
<1>3. CASE RecordLegacy
  BY <1>3 DEF RecordLegacy, Unconcerned, PolicyCarriedOut
<1>4. CASE RunHook
  <2>. UNCHANGED env BY <1>4 DEF RunHook
  <2>1. Unconcerned' BY <1>4 DEF RunHook, Unconcerned
  <2>2. reg.word = "hook"
    BY <1>4, <1>ty DEF RunHook, Taken
  <2>3. ~ResolvesMode \/ ~reg.sinkKnown => ~Grantable
    BY <1>ty, <2>2, UnresolvedMisregistered DEF Grantable, Misregistered
  <2>4. PolicyCarriedOut'
    BY <1>4, <2>3, Unasked, BlocksRightly DEF RunHook, PolicyCarriedOut, env
  <2>. QED BY <2>1, <2>4
<1>5. CASE HandleDrift
  <2>. UNCHANGED env BY <1>5 DEF HandleDrift
  <2>1. Unconcerned' BY <1>5 DEF HandleDrift, Unconcerned
  <2>2. driftSeen /\ strictness.onUnknownField = "fail" => ~Grantable
    BY <1>5, <1>ty DEF HandleDrift, Taken, Configured, driftSeen, Grantable
  <2>3. PolicyCarriedOut'
    BY <1>5, <2>2, Unasked, BlocksRightly DEF HandleDrift, PolicyCarriedOut,
      env
  <2>. QED BY <2>1, <2>3
<1>6. CASE HandleDecodeError
  <2>. UNCHANGED env BY <1>6 DEF HandleDecodeError
  <2>1. Unconcerned' BY <1>6 DEF HandleDecodeError, Unconcerned
  <2>2. event.payload # "usable" => ~Grantable /\ ~Refusable
    BY <1>6, <1>ty DEF HandleDecodeError, Taken, Configured, Staged, driftSeen,
      Grantable, Refusable
  <2>3. PolicyCarriedOut'
    BY <1>6, <2>2, Unasked DEF HandleDecodeError, PolicyCarriedOut
  <2>. QED BY <2>1, <2>3
<1>7. CASE Decide
  <2>. UNCHANGED env BY <1>7 DEF Decide
  <2>1. shouldAllow' = shouldAllow
    BY <1>7 DEF Decide, shouldAllow, driftSeen, env
  <2>2. Unconcerned'
    BY <1>7, <2>1 DEF Decide, Unconcerned, env
  <2>3. event.class = "Unparseable" => ~Grantable
    BY DEF Grantable
  <2>4. PolicyCarriedOut'
    BY <1>7, <2>3, Unasked, BlocksRightly DEF Decide, PolicyCarriedOut, env
  <2>. QED BY <2>2, <2>4
<1>8. CASE Crash
  <2>. UNCHANGED env BY <1>8 DEF Crash
  <2>1. Unconcerned' BY <1>8 DEF Crash, Unconcerned
  <2>2. ~Grantable BY <1>8 DEF Crash, Grantable
  <2>3. PolicyCarriedOut'
    BY <1>8, <2>2, Unasked, BlocksRightly DEF Crash
  <2>. QED BY <2>1, <2>3
<1>9. CASE emitAllow
  <2>. UNCHANGED env BY <1>9 DEF emitAllow
  <2>1. Unconcerned' BY <1>9 DEF emitAllow, Unconcerned
  <2>2. ~Refusable
    BY <1>9, <1>ty DEF emitAllow, Taken, Configured, Staged, shouldAllow,
      driftSeen, Refusable
  <2>3. CASE pipes.out = "open"
    <3>1. Outcome' = "allow"
      BY <1>9, <2>3 DEF emitAllow, Outcome
    <3>. QED BY <2>1, <2>2, <3>1, Unasked DEF PolicyCarriedOut
  <2>4. CASE pipes.out # "open"
    <3>1. pipes'.out # "open"
      BY <2>4 DEF env
    <3>. QED BY <2>1, <2>2, <3>1, Unasked DEF PolicyCarriedOut
  <2>. QED BY <2>3, <2>4
<1>10. CASE FallThrough
  <2>. UNCHANGED env BY <1>10 DEF FallThrough
  <2>1. Unconcerned' BY <1>10 DEF FallThrough, Unconcerned
  <2>2. /\ ~Misregistered /\ strictness = Intended /\ event.payload = "usable"
        /\ ~(driftSeen /\ strictness.onUnknownField = "fail")
        /\ ~shouldAllow
        /\ ~(event.class = "Unparseable" /\ strictness.onUnknownAST = "fail")
    BY <1>10, <1>ty DEF FallThrough, Taken, Configured, Staged, Unconcerned
  <2>3. ~Grantable
    BY <2>2 DEF Grantable, shouldAllow, driftSeen
  <2>4. ~Refusable
    BY <2>2 DEF Refusable, driftSeen
  <2>5. PolicyCarriedOut'
    BY <2>3, <2>4, Unasked DEF PolicyCarriedOut
  <2>. QED BY <2>1, <2>5
<1>11. CASE UNCHANGED vars
  <2>. UNCHANGED env BY <1>11 DEF vars, env
  <2>1. shouldAllow' = shouldAllow /\ Outcome' = Outcome
    BY <1>11 DEF vars, shouldAllow, driftSeen, Outcome
  <2>. QED
    BY <1>11, <2>1, Unasked DEF vars, Unconcerned, PolicyCarriedOut
<1>. QED
  BY <1>1, <1>2, <1>3, <1>4, <1>5, <1>6, <1>7, <1>8, <1>9, <1>10, <1>11
  DEF Next

-----------------------------------------------------------------------------
(***************************************************************************)
(* The records of a run are those module Log takes it to leave.            *)
(***************************************************************************)

\* What each stage has on record, and that a legacy run has been named.
Stages ==
  /\ pc \in {"main", "hook", "legacy", "deprecated"} => records = << >>
  /\ pc = "decode" => Early(records)
  /\ pc # "exited" => Unclosed(records)
  /\ pc \in Configured \ {"deprecated"} /\ reg.word = "flags" /\ Logging =>
       records # << >>

FInv == Named /\ Stages /\ RecordsFitLog

\* A record of a kind not yet on record fits, if a legacy run was named.
LEMMA AppendFits ==
  ASSUME Held, RecordsFitLog, reg' = reg,
         NEW kind \in Kinds \ {"deprecated_invocation"}, NEW command \in Commands,
         \A i \in 1..Len(records) : records[i].kind # kind,
         reg.word = "flags" /\ Logging => records # << >>,
         records' = logNonAllow(kind, command)
  PROVE  RecordsFitLog'
<1>1. CASE ~Logging
  <2>1. records' = records
    BY <1>1 DEF logNonAllow, Logging
  <2>. QED BY <2>1 DEF RecordsFitLog
<1>2. CASE Logging
  <2>. DEFINE r == [kind |-> kind, command |-> command]
  <2>1. r \in LogRecords /\ r.kind = kind
    BY DEF LogRecords
  <2>2. records' = Append(records, r)
    BY <1>2 DEF logNonAllow, Logging
  <2>3. records \in Seq(LogRecords)
    BY DEF Held
  <2>. HIDE DEF r
  <2>4. /\ Len(records') = Len(records) + 1 /\ Len(records) \in Nat
        /\ \A i \in 1..Len(records) : records'[i] = records[i]
        /\ records'[Len(records) + 1] = r
    BY <2>1, <2>2, <2>3
  <2>5. ASSUME NEW i \in 1..Len(records'), NEW j \in 1..Len(records'),
               records'[i].kind = records'[j].kind
        PROVE  i = j
    BY <2>1, <2>4, <2>5 DEF RecordsFitLog
  <2>6. reg.word = "flags" => Len(records) # 0
    BY <1>2, <2>3
  <2>7. ASSUME NEW i \in 1..Len(records')
        PROVE  records'[i].kind = "deprecated_invocation"
                 <=> i = 1 /\ reg.word = "flags"
    <3>1. CASE i \in 1..Len(records)
      BY <2>4, <3>1 DEF RecordsFitLog
    <3>2. CASE i = Len(records) + 1
      BY <2>1, <2>4, <2>6, <3>2
    <3>. QED BY <2>4, <3>1, <3>2
  <2>. QED BY <2>5, <2>7 DEF RecordsFitLog
<1>. QED BY <1>1, <1>2

\* So does the record that ends a run, whatever was noted before it.
LEMMA ClosingFits ==
  ASSUME Held, Stages, RecordsFitLog, reg' = reg,
         pc \in Configured \ {"deprecated"},
         NEW kind \in Closing, NEW command \in Commands,
         records' = logNonAllow(kind, command)
  PROVE  RecordsFitLog'
<1>1. \A i \in 1..Len(records) : records[i].kind # kind
  BY DEF Stages, Unclosed, Configured
<1>2. reg.word = "flags" /\ Logging => records # << >>
  BY DEF Stages
<1>3. kind \in Kinds \ {"deprecated_invocation"}
  BY DEF Closing, Kinds
<1>. QED BY <1>1, <1>2, <1>3, AppendFits

LEMMA FitsInit == Init => FInv
<1>. SUFFICES ASSUME Init PROVE FInv
  OBVIOUS
<1>1. Named BY RecordsInit DEF RInv
<1>2. records = << >> /\ pc = "main" BY DEF Init
<1>3. Stages BY <1>2 DEF Stages, Unclosed, Configured
<1>4. RecordsFitLog BY <1>2 DEF RecordsFitLog
<1>. QED BY <1>1, <1>3, <1>4 DEF FInv

LEMMA FitsStep == IInv /\ RInv' /\ FInv /\ [Next]_vars => FInv'
<1>. SUFFICES ASSUME IInv, RInv', FInv, [Next]_vars PROVE FInv'
  OBVIOUS
<1>. USE DEF Goto, Exit, ExitSaying, SIGPIPE, failLoud, failOpen
<1>ty. Progress /\ Held /\ Taken /\ Named /\ Stages /\ RecordsFitLog
  BY DEF IInv, FInv
<1>cm. currentCommand \in Commands BY <1>ty DEF Held
<1>cl. "undecodable" \in Closing /\ "failloud" \in Closing
         /\ "fallthrough" \in Closing
  BY DEF Closing
<1>. SUFFICES (Stages /\ RecordsFitLog)'
  BY DEF FInv, RInv
<1>0. ASSUME UNCHANGED <<reg, records>> PROVE RecordsFitLog'
  BY <1>0, <1>ty DEF RecordsFitLog
<1>1. CASE Dispatch
  BY <1>0, <1>1, <1>ty DEF Dispatch, env, Stages, Configured
<1>2. CASE RunLegacy
  <2>1. records' = records
    BY <1>2, <1>ty DEF RunLegacy, Named, logNonAllow
  <2>. QED BY <1>0, <1>2, <1>ty, <2>1 DEF RunLegacy, env, Stages, Configured
<1>3. CASE RecordLegacy
  <2>1. /\ records = << >> /\ reg.word = "flags" /\ reg' = reg
        /\ pc' = "decode" /\ Logging' = Logging
    BY <1>3, <1>ty DEF RecordLegacy, Taken, Stages, env, Logging
  <2>2. CASE ~Logging
    <3>1. records' = << >>
      BY <1>3, <2>1, <2>2 DEF RecordLegacy, logNonAllow, Logging
    <3>. QED
      BY <2>1, <2>2, <3>1 DEF Stages, Early, Unclosed, RecordsFitLog, Configured
  <2>3. CASE Logging
    <3>. DEFINE r == [kind |-> "deprecated_invocation", command |-> "none"]
    <3>1. r.kind = "deprecated_invocation"
      OBVIOUS
    <3>2. records' = <<r>>
      BY <1>3, <2>1, <2>3 DEF RecordLegacy, logNonAllow, Logging
    <3>. HIDE DEF r
    <3>3. /\ Len(records') = 1 /\ records' # << >>
          /\ \A i \in 1..Len(records') :
               i = 1 /\ records'[i].kind = "deprecated_invocation"
      BY <3>1, <3>2
    <3>4. Early(records') /\ Unclosed(records')
      BY <3>3 DEF Early, Unclosed, Closing
    <3>. QED BY <2>1, <3>3, <3>4 DEF Stages, RecordsFitLog
  <2>. QED BY <2>2, <2>3
<1>4. CASE RunHook
  <2>1. records' = records /\ reg.word = "hook" /\ records = << >>
    BY <1>4, <1>ty DEF RunHook, Named, logNonAllow, Taken
  <2>. QED
    BY <1>0, <1>4, <2>1 DEF RunHook, env, Stages, Early, Unclosed, Configured
<1>5. CASE HandleDrift
  <2>1. /\ pc = "decode" /\ reg' = reg /\ Early(records)
        /\ Logging' = Logging
        /\ reg.word = "flags" /\ Logging => records # << >>
    BY <1>5, <1>ty DEF HandleDrift, Stages, env, Logging, Configured
  <2>2. CASE records' = logNonAllow("failloud", currentCommand)
             /\ pc' = "exited"
    <3>1. RecordsFitLog'
      BY <1>ty, <1>cl, <1>cm, <2>1, <2>2, ClosingFits DEF Configured
    <3>. QED BY <2>2, <3>1 DEF Stages, Configured
  <2>3. CASE records' = logNonAllow("schema_drift", "none")
             /\ pc' = "decoded"
    <3>1. \A i \in 1..Len(records) : records[i].kind # "schema_drift"
      BY <2>1 DEF Early
    <3>2. RecordsFitLog'
      BY <1>ty, <2>1, <2>3, <3>1, AppendFits DEF Kinds, Commands
    <3>3. CASE ~Logging
      <4>1. records' = records
        BY <2>3, <3>3 DEF logNonAllow, Logging
      <4>2. Unclosed(records)
        BY <2>1, <1>ty DEF Stages
      <4>. QED BY <2>1, <2>3, <3>2, <3>3, <4>1, <4>2 DEF Stages, Configured
    <3>4. CASE Logging
      <4>1. records' = Append(records,
                              [kind |-> "schema_drift", command |-> "none"])
        BY <2>3, <3>4 DEF logNonAllow, Logging
      <4>2. records \in Seq(LogRecords)
        BY <1>ty DEF Held
      <4>3. Unclosed(records')
        BY <2>1, <4>1, <4>2, AppendDrift
      <4>4. records' # << >>
        BY <4>1, <4>2
      <4>. QED BY <2>3, <3>2, <4>3, <4>4 DEF Stages
    <3>. QED BY <3>3, <3>4
  <2>4. CASE records' = records /\ pc' = "decoded"
    <3>1. Unclosed(records)
      BY <2>1, <1>ty DEF Stages
    <3>. QED BY <1>0, <2>1, <2>4, <3>1 DEF Stages, Configured
  <2>. QED BY <1>5, <2>2, <2>3, <2>4 DEF HandleDrift
<1>6. CASE HandleDecodeError
  <2>1. reg' = reg /\ pc = "decoded" /\ Logging' = Logging
    BY <1>6 DEF HandleDecodeError, env, Logging
  <2>2. CASE records' = logNonAllow("undecodable", currentCommand)
             /\ pc' = "exited"
    <3>1. RecordsFitLog'
      BY <1>ty, <1>cl, <1>cm, <2>1, <2>2, ClosingFits DEF Configured
    <3>. QED BY <2>2, <3>1 DEF Stages, Configured
  <2>3. CASE records' = records /\ pc' = "classify"
    BY <1>0, <1>ty, <2>1, <2>3 DEF Stages, Configured
  <2>. QED BY <1>6, <2>2, <2>3 DEF HandleDecodeError
<1>7. CASE Decide
  <2>1. reg' = reg /\ pc = "classify" /\ Logging' = Logging
    BY <1>7 DEF Decide, env, Logging
  <2>2. CASE records' = logNonAllow("failloud", currentCommand)
             /\ pc' = "exited"
    <3>1. RecordsFitLog'
      BY <1>ty, <1>cl, <1>cm, <2>1, <2>2, ClosingFits DEF Configured
    <3>. QED BY <2>2, <3>1 DEF Stages, Configured
  <2>3. CASE records' = records /\ pc' \in {"allow", "fallthrough"}
    BY <1>0, <1>ty, <2>1, <2>3 DEF Stages, Configured
  <2>. QED BY <1>7, <2>2, <2>3 DEF Decide
<1>8. CASE Crash
  BY <1>0, <1>8 DEF Crash, env, Stages, Configured
<1>9. CASE emitAllow
  <2>1. reg' = reg /\ pc = "allow" /\ pc' = "exited"
    BY <1>9 DEF emitAllow, env
  <2>2. Stages'
    BY <2>1 DEF Stages, Configured
  <2>3. CASE records' = records
    BY <1>0, <2>1, <2>2, <2>3
  <2>4. CASE records' = logNonAllow("failloud", currentCommand)
    BY <1>ty, <1>cl, <1>cm, <2>1, <2>2, <2>4, ClosingFits DEF Configured
  <2>. QED BY <1>9, <2>3, <2>4 DEF emitAllow
<1>10. CASE FallThrough
  <2>1. /\ reg' = reg /\ pc = "fallthrough" /\ pc' = "exited"
        /\ records' = logNonAllow("fallthrough", "cmd")
    BY <1>10 DEF FallThrough, env
  <2>2. RecordsFitLog'
    BY <1>ty, <1>cl, <2>1, ClosingFits DEF Configured, Commands
  <2>. QED BY <2>1, <2>2 DEF Stages, Configured
<1>11. CASE UNCHANGED vars
  BY <1>0, <1>11, <1>ty DEF vars, Stages, Logging
<1>. QED
  BY <1>1, <1>2, <1>3, <1>4, <1>5, <1>6, <1>7, <1>8, <1>9, <1>10, <1>11
  DEF Next

-----------------------------------------------------------------------------
\* Every variable has its type (hook.go).
THEOREM TypeCorrect == Spec => []TypeOK
<1>1. IInv => TypeOK BY DEF IInv, TypeOK, Progress, Held
<1>. QED BY <1>1, InvariantHolds, PTL

\* Where neither fault can happen, exit 2 means a bad registration or a policy
\* that asks for it (hook.go, failLoud).
THEOREM BlocksAreAskedFor ==
  ASSUME ~PipeFaults, ~EngineCrashes
  PROVE  Spec => []BlocksOnlyOnRequest
<1>1. Init => pipes.out = "open"
  BY DEF Init
<1>2. pipes.out = "open" /\ [Next]_vars => (pipes.out = "open")'
  BY EnvKept DEF env, vars
<1>3. IInv /\ pipes.out = "open" => BlocksOnlyOnRequest
  <2>. SUFFICES ASSUME IInv, pipes.out = "open" PROVE BlocksOnlyOnRequest
    OBVIOUS
  <2>1. event.class # "crash"
    BY DEF IInv, Held, Events, Classes
  <2>. QED BY <2>1 DEF IInv, Answered, Faulted, BlocksOnlyOnRequest, Outcome
<1>. QED BY <1>1, <1>2, <1>3, InvariantHolds, PTL DEF Spec

\* The safety half of KeepsPromise: the hook starts as the Accelerator does
\* and each of its steps is the Accelerator's answer or a stutter.
THEOREM ImplementsAccelerator == Spec => Acc!Init /\ [][Acc!Next]_(Acc!vars)
<1>1. Init => Acc!Init
  <2>1. Grantable \in BOOLEAN /\ (Refusable \/ Faulted) \in BOOLEAN
    BY DEF Grantable, Refusable, Faulted
  <2>2. Init => Outcome = "pending"
    BY DEF Init, Outcome
  <2>. QED BY <2>1, <2>2 DEF Acc!Init
<1>2. IInv /\ IInv' /\ [Next]_vars => [Acc!Next]_(Acc!vars)
  <2>. SUFFICES ASSUME IInv, IInv', [Next]_vars
                PROVE  [Acc!Next]_(Acc!vars)
    OBVIOUS
  <2>1. CASE UNCHANGED vars
    <3>. UNCHANGED env BY <2>1 DEF vars, env
    <3>. QED BY <2>1, Unasked DEF vars, Acc!vars, Outcome
  <2>2. CASE Next
    <3>. UNCHANGED env BY <2>2, EnvKept
    <3>1. /\ Grantable' = Grantable
          /\ Refusable' = Refusable /\ Faulted' = Faulted
      BY Unasked
    <3>2. pc # "exited"
      BY <2>2 DEF Next, Dispatch, RunLegacy, RecordLegacy, RunHook,
        HandleDrift, HandleDecodeError, Decide, Crash, emitAllow, FallThrough
    <3>3. Outcome = "pending"
      BY <3>2 DEF Outcome
    <3>4. /\ Outcome' = "block" => Refusable \/ Faulted
          /\ Outcome' = "allow" => Grantable
          /\ Outcome' \in {"pending", "prompt", "allow", "block"}
      BY <3>1 DEF IInv, Answered, Outcome
    <3>5. Outcome' = "pending" \/ Outcome' \in Acc!Permitted
      BY <3>4 DEF Acc!Permitted
    <3>. QED BY <3>1, <3>3, <3>5 DEF Acc!Next, Acc!Answer, Acc!vars
  <2>. QED BY <2>1, <2>2
<1>. QED BY <1>1, <1>2, InvariantHolds, PTL DEF Spec

\* A run that ended without a panic, and was not killed in writing its answer,
\* left one closing record, the last, when the call was not allowed, and none
\* when it was (hook.go; README, Logging).
THEOREM RunsAreRecorded == Spec => []RecordedUnlessAllowed
<1>1. RInv => RecordedUnlessAllowed BY DEF RInv
<1>. QED BY <1>1, RecordsHold, PTL

\* Drift that is not fatal is recorded before anything else about the event,
\* also when the event cannot be used (hook.go, classifyEvent).
THEOREM DriftIsRecorded == Spec => []DriftRecorded
<1>1. RInv => DriftRecorded
  BY DEF RInv, OnRecord, Logging, MustNoteDrift, driftSeen, Drifted,
    DriftRecorded
<1>. QED BY <1>1, RecordsHold, PTL

\* A run that refuses a call of its own accord says why, and names the command
\* unless the event was refused before it was read for one (hook.go, failLoud).
THEOREM LoudRunsAreTraceable == Spec => []LoudIsTraceable
<1>1. RInv => LoudIsTraceable BY DEF RInv
<1>. QED BY <1>1, RecordsHold, PTL

\* What was asked for is done: a call that may be granted is, where the answer
\* can be written, and one that is to be stopped is blocked, where the reason
\* can be (hook.go, runHook and classifyEvent), for every registration and every
\* event.
THEOREM PolicyIsCarriedOut == Spec => []PolicyCarriedOut
BY InvariantHolds, PolicyInit, PolicyStep, PTL DEF Spec

\* The records of a run are as BodiesAssumption of module Log has them, with a
\* legacy registration named first (hook.go, runHook).
THEOREM RecordsAreThoseOfLog == Spec => []RecordsFitLog
<1>1. FInv => RecordsFitLog BY DEF FInv
<1>. QED BY <1>1, InvariantHolds, RecordsHold, FitsInit, FitsStep, PTL DEF Spec
=============================================================================
