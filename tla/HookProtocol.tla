---------------------------- MODULE HookProtocol ----------------------------
(***************************************************************************)
(* One run of the Claude Code PreToolUse hook (cmd/classify-bash: main.go, *)
(* hook.go, policy.go; internal/adapter/claude/event.go; internal/logging),*)
(* from the registered command line and the event on stdin to the exit     *)
(* status, stdout and the log records, and what the harness makes of them. *)
(*                                                                         *)
(* Abstracted: the event is what decodeEvent and the engine find in it;    *)
(* a log record is its kind and whether it carries the command; the two    *)
(* sinks are one that takes the record or does not.                        *)
(***************************************************************************)
EXTENDS Integers, Sequences

CONSTANTS
  Registrations,  (* Command lines the hook may be registered with.        *)
  PipeFaults,     (* Whether stdout and stderr may be broken.              *)
  EngineCrashes   (* Whether a defect of the engine may make it panic.     *)

Fields == {"fail", "withhold", "log", "ignore"}
ASTs   == {"fail", "fallthrough"}

\* word: the first argument, "flags" when every argument is a flag; parses:
\* the flag package takes them; mode, field, ast: the values given, "none" for
\* none; sinkKnown: --log-to is one of the three sinks; log: --log.
AllRegistrations ==
  [word : {"hook", "flags", "stray"}, parses : BOOLEAN,
   mode : {"none", "claude-strict", "claude-lenient", "typo"},
   field : Fields \cup {"none", "typo"}, ast : ASTs \cup {"none", "typo"},
   sinkKnown : BOOLEAN, log : BOOLEAN]

ASSUME RegistrationsAssumption == Registrations \subseteq AllRegistrations
ASSUME FaultsAssumption ==
  PipeFaults \in BOOLEAN /\ EngineCrashes \in BOOLEAN

Classes == {"ReadOnly", "NotReadOnly", "Unparseable"}

\* payload: what stdin holds.  "garbled": unreadable, not JSON, followed by more,
\* or a field it decodes of another type; "foreign": another event or tool, or
\* an empty command.  drift: unknownFields finds some.  (It finds none where a
\* stray } or ] follows the event, which More takes for its end.)  class: what
\* the engine concludes, "crash" when it panics for another reason than an
\* unknown construct.
Events ==
  [payload : {"garbled", "foreign", "usable"}, drift : BOOLEAN,
   class : Classes \cup (IF EngineCrashes THEN {"crash"} ELSE {})]

VARIABLES
  reg,             (* The registration in force.                           *)
  event,           (* The event on stdin.                                  *)
  pc,              (* Where the process is.                                *)
  strictness,      (* The two policy axes, once resolved.                  *)
  logCfg,          (* The global: "nil", "off" or "on".                    *)
  currentCommand,  (* The global: "none", or "cmd", the event's.        *)
  sink,            (* The log sink: "up" when it takes records, "down".   *)
  pipes,           (* Stdout and stderr: "open"; "failing" when a write is *)
                   (* an error; "closed" when the reader of it is gone.    *)
  records,         (* Records written in this run.                         *)
  stdout,          (* "none", "allow", or "torn" after a failed write.     *)
  exit             (* The exit status, -1 while running.                   *)

vars == <<reg, event, pc, strictness, logCfg, currentCommand, sink, pipes,
          records, stdout, exit>>

env == <<reg, event, sink, pipes>>

Pipes == [out : {"open", "failing", "closed"}, err : {"open", "closed"}]

Kinds == {"deprecated_invocation", "schema_drift", "undecodable",
          "fallthrough", "failloud"}

Commands == {"none", "cmd"}

LogRecords == [kind : Kinds, command : Commands]

modes == [m \in {"claude-strict", "claude-lenient"} |->
            IF m = "claude-strict"
              THEN [onUnknownField |-> "fail", onUnknownAST |-> "fail"]
              ELSE [onUnknownField |-> "withhold",
                    onUnknownAST |-> "fallthrough"]]

legacyStrictness == [onUnknownField |-> "withhold", onUnknownAST |-> "fail"]

Init ==
  /\ reg \in Registrations
  /\ event \in Events
  /\ sink \in {"up", "down"}
  /\ pipes \in Pipes
  /\ ~PipeFaults => pipes = [out |-> "open", err |-> "open"]
  /\ pc = "main"
  /\ strictness = legacyStrictness
  /\ logCfg = "nil"
  /\ currentCommand = "none"
  /\ records = << >>
  /\ stdout = "none"
  /\ exit = -1

-----------------------------------------------------------------------------
(***************************************************************************)
(* Helpers that end the process or log.                                    *)
(***************************************************************************)

\* The records after one more, best effort: a sink that is down loses it.
logNonAllow(kind, command) ==
  IF logCfg = "on" /\ sink = "up"
    THEN Append(records, [kind |-> kind, command |-> command])
    ELSE records

Goto(label) == pc' = label /\ UNCHANGED exit

Exit(code) == pc' = "exited" /\ exit' = code

\* What a shell reports of a process that SIGPIPE killed, as the Go runtime has
\* it when a write to stdout or stderr meets a closed pipe.
SIGPIPE == 141

\* Say why on stderr, and exit.
ExitSaying(code) == Exit(IF pipes.err = "open" THEN code ELSE SIGPIPE)

\* Mutant: the record never names the command.
failLoudNameless ==
  /\ records' = logNonAllow("failloud", "none")
  /\ ExitSaying(2)

\* Record a failloud, and exit 2.
failLoud ==
  /\ records' = logNonAllow("failloud", currentCommand)
  /\ ExitSaying(2)

\* Mutant: falls open without a record.
failOpenSilent == UNCHANGED records /\ Exit(0)

\* Record the event as undecodable, and exit 0.
failOpen ==
  /\ records' = logNonAllow("undecodable", currentCommand)
  /\ Exit(0)

-----------------------------------------------------------------------------
\* main: the subcommand, or flags alone on a pipe, which is the registration
\* line of before subcommands (looksLikeLegacyHook); anything else is usage.
Dispatch ==
  /\ pc = "main"
  /\ \/ reg.word = "hook"  /\ Goto("hook")
     \/ reg.word = "flags" /\ Goto("legacy")
     \/ reg.word = "stray" /\ ExitSaying(1)
  /\ UNCHANGED <<env, strictness, logCfg, currentCommand, records, stdout>>

\* The legacy registration: log flags only, and a record that it is in use.
RunLegacy ==
  /\ pc = "legacy"
  /\ IF reg.parses /\ reg.sinkKnown
       THEN /\ logCfg' = IF reg.log THEN "on" ELSE "off"
            /\ strictness' = legacyStrictness
            /\ Goto("deprecated")
            /\ UNCHANGED records
       ELSE failLoud /\ UNCHANGED <<logCfg, strictness>>
  /\ UNCHANGED <<env, currentCommand, stdout>>

\* Mutant: the registration is not mentioned.
RecordLegacySilent ==
  /\ pc = "deprecated"
  /\ Goto("decode")
  /\ UNCHANGED <<env, strictness, logCfg, currentCommand, records, stdout>>

RecordLegacy ==
  /\ pc = "deprecated"
  /\ records' = logNonAllow("deprecated_invocation", "none")
  /\ Goto("decode")
  /\ UNCHANGED <<env, strictness, logCfg, currentCommand, stdout>>

\* The override of an axis, where one is given.
Overridden(preset, override) == IF override = "none" THEN preset ELSE override

\* The policy a hook registration asks for, by its mode and its overrides.
Resolved ==
  [onUnknownField |-> Overridden(modes[reg.mode].onUnknownField, reg.field),
   onUnknownAST   |-> Overridden(modes[reg.mode].onUnknownAST, reg.ast)]

\* Mutant: the second axis is not validated.
validateFieldOnly(s) == s.onUnknownField \in Fields

validateStrictness(s) == s.onUnknownField \in Fields /\ s.onUnknownAST \in ASTs

ResolvesMode ==
  /\ reg.parses
  /\ reg.mode \in DOMAIN modes
  /\ validateStrictness(Resolved)

\* The hook subcommand's flags.
RunHook ==
  /\ pc = "hook"
  /\ \/ /\ ~ResolvesMode
        /\ ExitSaying(2)
        /\ UNCHANGED <<strictness, logCfg, records>>
     \/ /\ ResolvesMode
        /\ strictness' = Resolved
        /\ IF reg.sinkKnown
             THEN /\ logCfg' = IF reg.log THEN "on" ELSE "off"
                  /\ Goto("decode")
                  /\ UNCHANGED records
             ELSE failLoud /\ UNCHANGED logCfg
  /\ UNCHANGED <<env, currentCommand, stdout>>

-----------------------------------------------------------------------------
\* Mutant: drift is dropped with an event that cannot be used.
driftSeenUsable == event.drift /\ event.payload = "usable"

\* decodeEvent reports unknown fields only of an event it could decode.
driftSeen == event.drift /\ event.payload # "garbled"

\* classifyEvent handles drift before the decode error.
HandleDrift ==
  /\ pc = "decode"
  /\ \/ /\ driftSeen /\ strictness.onUnknownField = "fail"
        /\ failLoud
     \/ /\ driftSeen /\ strictness.onUnknownField \in {"withhold", "log"}
        /\ records' = logNonAllow("schema_drift", "none")
        /\ Goto("decoded")
     \/ /\ ~driftSeen \/ strictness.onUnknownField = "ignore"
        /\ Goto("decoded")
        /\ UNCHANGED records
  /\ UNCHANGED <<env, strictness, logCfg, currentCommand, stdout>>

\* An event that cannot be used fails open; else the command is known.
HandleDecodeError ==
  /\ pc = "decoded"
  /\ \/ /\ event.payload # "usable"
        /\ failOpen
        /\ UNCHANGED currentCommand
     \/ /\ event.payload = "usable"
        /\ currentCommand' = "cmd"
        /\ Goto("classify")
        /\ UNCHANGED records
  /\ UNCHANGED <<env, strictness, logCfg, stdout>>

\* Mutant: allows while blind to part of the payload.
shouldAllowBlind == event.class = "ReadOnly"

\* The decision, without its plumbing.
shouldAllow ==
  /\ driftSeen => strictness.onUnknownField # "withhold"
  /\ event.class = "ReadOnly"

\* The engine returns a class.
Decide ==
  /\ pc = "classify" /\ event.class # "crash"
  /\ \/ /\ event.class = "Unparseable" /\ strictness.onUnknownAST = "fail"
        /\ failLoud
     \/ /\ event.class = "Unparseable" => strictness.onUnknownAST # "fail"
        /\ Goto(IF shouldAllow THEN "allow" ELSE "fallthrough")
        /\ UNCHANGED records
  /\ UNCHANGED <<env, strictness, logCfg, currentCommand, stdout>>

\* A panic that is not an unknown construct: recoverUnknown raises it again,
\* and the Go runtime ends the process with status 2, whoever reads its trace.
Crash ==
  /\ pc = "classify" /\ event.class = "crash"
  /\ Exit(2)
  /\ UNCHANGED <<env, strictness, logCfg, currentCommand, records, stdout>>

\* The answer.  Only a write that returns an error is failLoud's to report: one
\* to a closed pipe does not return.
emitAllow ==
  /\ pc = "allow"
  /\ \/ /\ pipes.out = "open"
        /\ stdout' = "allow"
        /\ Exit(0)
        /\ UNCHANGED records
     \/ /\ pipes.out = "failing"
        /\ stdout' \in {"none", "torn"}
        /\ failLoud
     \/ /\ pipes.out = "closed"
        /\ Exit(SIGPIPE)
        /\ UNCHANGED <<records, stdout>>
  /\ UNCHANGED <<env, strictness, logCfg, currentCommand>>

FallThrough ==
  /\ pc = "fallthrough"
  /\ records' = logNonAllow("fallthrough", "cmd")
  /\ Exit(0)
  /\ UNCHANGED <<env, strictness, logCfg, currentCommand, stdout>>

Next ==
  \/ Dispatch
  \/ RunLegacy
  \/ RecordLegacy
  \/ RunHook
  \/ HandleDrift
  \/ HandleDecodeError
  \/ Decide
  \/ Crash
  \/ emitAllow
  \/ FallThrough

\* The process is scheduled until it exits.
Spec == Init /\ [][Next]_vars /\ WF_vars(Next)

-----------------------------------------------------------------------------
(***************************************************************************)
(* The harness (Claude Code's PreToolUse contract).                        *)
(***************************************************************************)

Outcome ==
  IF pc # "exited" THEN "pending"
  ELSE IF exit = 2 THEN "block"
  ELSE IF exit = 0 /\ stdout = "allow" THEN "allow"
  ELSE "prompt"

\* The policy the operator registered, as the README's mode table gives it.
Intended ==
  IF reg.word = "flags"
    THEN [onUnknownField |-> "withhold", onUnknownAST |-> "fail"]
    ELSE LET strict == reg.mode = "claude-strict"
         IN  [onUnknownField |->
                IF reg.field # "none" THEN reg.field
                ELSE IF strict THEN "fail" ELSE "withhold",
              onUnknownAST |->
                IF reg.ast # "none" THEN reg.ast
                ELSE IF strict THEN "fail" ELSE "fallthrough"]

\* A registration the binary can make nothing of.
Misregistered ==
  CASE reg.word = "stray" -> TRUE
    [] reg.word = "flags" -> ~(reg.parses /\ reg.sinkKnown)
    [] reg.word = "hook"  ->
         \/ ~(reg.parses /\ reg.sinkKnown)
         \/ reg.mode \in {"none", "typo"} \/ reg.field = "typo" \/ reg.ast = "typo"

\* The prompt may be removed for a read-only command of a usable event, unless
\* a field of the payload is unknown and the policy does not overlook that.
Grantable ==
  /\ ~Misregistered
  /\ event.payload = "usable"
  /\ event.class = "ReadOnly"
  /\ event.drift => Intended.onUnknownField \in {"log", "ignore"}

\* What exit 2 is reserved for: a bad flag at the registration site, and a
\* policy the operator asked to be loud about.
Refusable ==
  \/ Misregistered
  \/ /\ event.drift /\ event.payload # "garbled"
     /\ Intended.onUnknownField = "fail"
  \/ /\ event.payload = "usable" /\ event.class = "Unparseable"
     /\ Intended.onUnknownAST = "fail"

\* The two faults that block a call nobody asked to block: the engine panics
\* on a command it was given, or the write of an allow returns an error.
Faulted ==
  \/ event.payload = "usable" /\ event.class = "crash"
  \/ Grantable /\ pipes.out = "failing"

Acc == INSTANCE Accelerator WITH
         grantable <- Grantable, refusable <- Refusable \/ Faulted,
         outcome <- Outcome

-----------------------------------------------------------------------------
\* Every variable has its type.
TypeOK ==
  /\ reg \in Registrations
  /\ event \in Events
  /\ pc \in {"main", "hook", "legacy", "deprecated", "decode", "decoded",
             "classify", "allow", "fallthrough", "exited"}
  /\ strictness \in [onUnknownField : Fields, onUnknownAST : ASTs]
  /\ logCfg \in {"nil", "off", "on"}
  /\ currentCommand \in Commands
  /\ sink \in {"up", "down"}
  /\ pipes \in Pipes
  /\ records \in Seq(LogRecords)
  /\ stdout \in {"none", "allow", "torn"}
  /\ exit \in {-1, 0, 1, 2, SIGPIPE}
  /\ pc = "exited" <=> exit # -1

\* The hook keeps the Accelerator's promise, but for the two faults: it answers
\* once, removes the prompt only where that is right, blocks only where it was
\* asked to or where one of the faults met the call; and it does answer.
KeepsPromise == Acc!Spec

\* A call ends with status 2 only for a bad registration or a policy that asks
\* for it (main.go, failLoud): nothing that happens to the call blocks it.
BlocksOnlyOnRequest == Outcome = "block" => Refusable

Closing == {"undecodable", "fallthrough", "failloud"}

\* The engine was given the command, and panics on it.
Panicked == currentCommand = "cmd" /\ event.class = "crash"

\* The answer meets a closed pipe, and the process dies of it.
Unheard == Grantable /\ pipes.out = "closed"

\* With logging on and the sink up, a run that ended without a panic, and was
\* not killed in writing its answer, left exactly one closing record, the last
\* one, when the call was not allowed (also because the write failed), and none
\* when it was: "every non-allowed command is recorded ... Allowed commands are
\* otherwise never logged" (README, Logging).
RecordedUnlessAllowed ==
  pc = "exited" /\ logCfg = "on" /\ sink = "up" /\ ~Panicked /\ ~Unheard =>
    LET closing == {i \in 1..Len(records) : records[i].kind \in Closing}
    IN  closing = IF Outcome = "allow" THEN {} ELSE {Len(records)}

\* A run that met an unknown field under withhold or log recorded it before
\* anything else it says of the event, also when the event was unusable: "a
\* payload can be both undecodable and carry new fields, and the drift is the
\* more useful signal" (hook.go, classifyEvent).
DriftRecorded ==
  /\ pc = "exited" /\ logCfg = "on" /\ sink = "up"
  /\ event.drift /\ event.payload # "garbled"
  /\ Intended.onUnknownField \in {"withhold", "log"}
  => \E i \in 1..Len(records) :
       /\ records[i].kind = "schema_drift"
       /\ \A j \in 1..(i - 1) : records[j].kind = "deprecated_invocation"

\* A run that exits 2 of its own accord with logging on left a record to tell
\* why.  The record names the command unless the event was refused before it
\* was read for one.
LoudIsTraceable ==
  exit = 2 /\ logCfg = "on" /\ sink = "up" /\ ~Panicked =>
    /\ records # << >>
    /\ LET last == records[Len(records)]
       IN  /\ last.kind = "failloud"
           /\ last.command = "none" <=>
                event.drift /\ Intended.onUnknownField = "fail"

\* What was asked for is done, and not only nothing else: a call that may be
\* granted is, if the answer can be written, and one that the operator's policy
\* or a bad registration is to stop is blocked, if the reason can be ("exit 2
\* blocks a PreToolUse call", main.go), but for a first argument that is no
\* subcommand: usage.
PolicyCarriedOut ==
  pc = "exited" =>
    /\ Grantable /\ pipes.out = "open" => Outcome = "allow"
    /\ Refusable /\ reg.word # "stray" /\ pipes.err = "open" => Outcome = "block"

\* The records of a run are those module Log takes runs to leave: one of a kind,
\* a legacy registration always named, and before anything else (hook.go,
\* runHook), so that the run of any later record is known for what it is.
RecordsFitLog ==
  /\ \A i, j \in 1..Len(records) :
       records[i].kind = records[j].kind => i = j
  /\ \A i \in 1..Len(records) :
       records[i].kind = "deprecated_invocation" <=> i = 1 /\ reg.word = "flags"
=============================================================================
