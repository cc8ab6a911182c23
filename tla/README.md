# A verification development of classify-bash

classify-bash decides whether a shell command an agent is about to run is
read-only, so that the agent's host may skip its permission prompt. This
directory holds TLA+ models of the program, the TLC configurations that check
them on small instances, and TLAPS proofs of the properties that matter most.
Paths are relative to the repository.

The program makes one promise, in `cmd/classify-bash/main.go:10-14`: it "only
ever ADDS an allow. A bug in it can at worst fail to accelerate, never block".
Two questions follow, and the development is divided along them:

1. *Is an allow right?* The engine is a second parser of somebody else's
   language, twice over: of bash (what will this line do?) and of each command's
   options (which words are flags?). `ClassifyWalk` and `FlagMatch` run the
   engine's reading in lockstep with the reading of the program that will
   execute the words, and compare them. `CommandMatch` adds a third language,
   awk, and `Scratchpad` the file system behind the one kind of write allowed.
2. *Is the answer delivered as promised?* `HookProtocol`, `OmpShim` and
   `PiShim` follow an adapter from event to effect, through crashes, hangs,
   broken installs and interleaved calls, and are shown to implement the
   abstract promise (`Accelerator`, `AcceleratedSession`). `Log` and `Doctor`
   follow the records of what was not allowed to the report an operator reads.

## Inventory

| Component | Source | State | Operations | What makes it correct | Model |
| --- | --- | --- | --- | --- | --- |
| Engine: walk and scope | `internal/engine/classify.go`, `vars.go`, `scratch.go`, `api.go` | a scope (name → literal) per construct; the verdict | classify a statement, `&&` chain, `\|\|`, pipe, subshell, substitution, assignment, redirect, simple command | a binding is what bash holds; an argument judged is the one passed; writes are confined; exported variables are left alone | `ClassifyWalk` |
| Engine: argument matcher | `internal/engine/spec.go` | position in the words, the entry in force | match GNU flags and clusters, find's words, wrappers, xargs, awk, subcommands | no program acts on an option its entry does not list; unseen words reach only programs safe under any argv | `FlagMatch`, `CommandMatch` |
| Engine: whitelist | `internal/engine/commands.go` | none (data) | | assumptions of `FlagMatch` on its table | constant `Table` |
| Engine: awk programs | `internal/engine/awk.go` | none | recursive walk over an awk syntax tree | every part is looked at; nothing that writes or executes is accepted | `AwkWalk`, in `CommandMatch` |
| Hook | `cmd/classify-bash/main.go`, `hook.go`, `policy.go`, `internal/adapter/claude/` | `logCfg`, `currentCommand` (globals), policy, exit status, stdout | dispatch, parse flags, resolve the mode, decode the event, handle drift, classify, answer | the promise; every non-allow is recorded | `HookProtocol` |
| Logging | `internal/logging/` | journal and file | append one record | best effort, never changes the decision; a record is in at most one sink, and damages no other | `Log`; in `HookProtocol`: which records, in which order |
| Host scratchpad checks | `cmd/classify-bash/scratch*.go` | none; the file system | confirm the directory, and each target of a write | the file written is the one confirmed | `Scratchpad`; for `ClassifyWalk` the sets `ScratchData` and `HostWritable` |
| `check` | `cmd/classify-bash/check.go` | none | classify stdin or an operand, exit 0/1/2 | 2 is never a verdict | `CheckProcess` |
| `doctor` | `cmd/classify-bash/doctor.go` | none; reads the log | read a source, report drift, blocked calls, an old registration | finds what the hook recorded; judges the registration in force | `Doctor` |
| omp shim | `contrib/omp/classify-bash.ts` | verdict cache, warned flag, wrappers | wrap the tool, approve, execute | the promise, for calls that share the cache | `OmpShim` |
| pi shim | `contrib/pi/classify-bash.ts` | one activation per call | handle a tool call | a gate: silent for read-only, else ask, else block | `PiShim` |
| Packaging | `flake.nix`, `scripts/` | none | | | not modelled |

How they interact: the hook and `check` call the engine as a function; the
engine calls back into the host for the environment (`EnvSet`) and the
scratchpad (`ScratchWritable`). The shims run `check --stdin` as a child
process and know it only by how it ends. The hook appends to a log that
`doctor` reads later. No part keeps state across processes but that log.

The hard behaviours, listed with their lines in `PROJECT.json` (`hazards`), are of
five kinds. *Agreement*: the walk keeps a copy of the scope per construct while
bash shares one among those it does not fork; options permute with operands;
letters cluster; a value may look like an option; a part of an awk program the
walk does not go into may hide a command. *Order and partial failure in the hook*:
a payload may be both undecodable and drifting, globals are set on the way,
stdout, stderr or the engine may fail at the last step. *Interleaving*: approvals
of several calls share a bounded cache, the install changes between them, the tool
is wrapped several times; hooks append to one log in parallel. *Check and use*: a
scratch file is inspected when the command is classified and opened when it runs.
*Limits*: the cache is full, the classifier hangs, an option stands last, a record
is longer than a buffer, stamps are of one second.

## Modules

    ClassifyWalk   <- MCClassifyWalk                ClassifyWalkProofs
    FlagMatch                                       FlagMatchProofs
      CommandMatch <- MCFlagMatch                   (in FlagMatchProofs)
        with AwkWalk
    Scratchpad     <- MCScratchpad                  ScratchpadProofs
    HookProtocol   <- MCHookProtocol                HookProtocolProofs
      implements Accelerator
    CheckProcess                                    CheckProcessProofs
      OmpShim      <- MCOmpShim                     OmpShimProofs
      PiShim       <- MCPiShim                      PiShimProofs
      implement AcceleratedSession
    Log
      Doctor       <- MCDoctor                      DoctorProofs

`MC...` modules EXTEND a specification and define its instance; `...Proofs`
modules EXTEND it and TLAPS. `PROJECT.json` (`map`) gives each definition the
lines it stands for.

### ClassifyWalk: the walk over a command line

The walk decides before anything runs. The model is a product: a step is one
node of the syntax tree as `classify.go` visits it *and* what bash would do at
that node if the command were let run. The tree is not data: a node is chosen,
among those the grammar allows there, when the walk reaches it, so that the
behaviours are all command lines within the bounds.

- `frames` is the stack of constructs being walked. Of the code, a frame has the
  scope (`vars`), which `child` copies and `Leave` drops, as `scope.child` does.
  Of bash, it has whether the construct is executing (`live`: a link of an `&&`
  chain after a failure is not) and which frame's shell runs it (`sh`): a
  subshell, a substitution and a side of a pipe fork; a chain and a side of `||`
  do not.
- `bindAssigns`, `Redirect`, `argTokens`, `classifyCall` and the `Enter...`
  actions are the functions of those names or the cases of `classifyCmd`;
  `RefuseStmt` stands for every construct refused outright.
- `writes` and `misread` are what bash would do: the paths the redirect just
  passed opened for writing, with how it was spelled (`Opens`), and how the
  argument just passed was spelled, if it was not passed as the one word it was
  matched as: the name it is an expansion of, or none (`Spelling`).
- `rebound` is history: the names bound again in a construct of a shell whose
  outer scope binds them too, or assigned from such a name (`Rebinding`). The
  code keeps no such set; it is where its copies of the scope go wrong (finding
  1), and the properties say that they go wrong nowhere else.
- A word has one part and a value is an opaque token. What a value is *like*
  (splittable, a descriptor, `/dev/null`, a scratch path) is a set. A word whose
  text is not what bash uses (tilde, glob, escape) is `Loose`, with both texts.
- That a command succeeds or fails, and that its spec accepts it, is a choice.

Properties: `ScopeExact`, `ArgvExact`, `WritesConfined` (invariants),
`ExportsUntouched` (action property). They are about every command line. What
finding 1 spoils is excepted name by name and not command by command: in a line
that rebinds `A`, what the walk says of `B` is still exact, and so are the
arguments and targets that go by it. `ExpansionsAlwaysExact` and `DupsOpenNothing`
are the sentences of the code without an exception.

`ArgvExact` is about the words that are what they say, quoted and plain literals
and expansions. It is *not* about `Loose` words: `resolveWord` takes the text of a
literal as it stands (`vars.go:177-178`; `classify.go:347-350` for `wordLiteral`),
so that in `find . \-delete` or `find . {-delete,}` the word matched is not the
word passed. Among targets of redirects they are covered, as `exactPath` refuses
them.

### FlagMatch: the words of one command

Again two readers in lockstep: `m` is what the matcher takes the next word for,
`p` what the program (getopt, find, the wrapped command) does. `at` is the entry
in force, the same for both as the name words select it. An action is one word,
or one letter of a cluster, and each of its disjuncts a case of `matchGNU`,
`matchFind`, `matchWrapper`, `matchXargs` or `matchAwk` before it branches:
flags, a value, an operand. `acted` collects the options programs act on;
`unseen` the programs that receive words the matcher does not know (a quoted
substitution, the stdin of xargs).

`commands.go` is the constant `Table`, and `TableAssumption`,
`DataSafeAssumption` and `OptionalAssumption` say what the proofs need of it:
each holds of the entries there. The code collects operands and rejects at the
end; the model rejects at once, which accepts the same command lines.

Properties: `OptionsVetted`, `UnseenOnlyToDataSafe`, `NothingLeftOpen`. Letters
may follow one that may have a value, and are then read in two ways (finding 3).
`clustered` is history: the entries in whose command they did. The first and the
third property except such an entry's own program, and no other: where a command
line takes options of several programs, as a command and its subcommand do, the
rest of it is vetted. `OptionsAlwaysVetted` has no exception.

### AwkWalk, CommandMatch: the programs awk is given

In `FlagMatch` the verdict on an awk program is a choice. `AwkWalk` makes it: the
walk of `awk.go` with its recursion as a stack (`todo`) of nodes and lists yet to
be looked at. As with the shell, the program is chosen while it is walked. Two
tables are kept apart: the parts a node of goawk's tree *has* (`StmtParts`,
`ExprParts`, and which may be missing) and the parts the code *goes into*
(`walkedStmt`, `walkedExpr`). `impure` notes a node that writes, runs a command
or may do so (a kind or builtin of a later goawk), and every part passed over.
A parse error, functions, and an unknown kind (`failLoud`) end the walk.

`CommandMatch` EXTENDS both. When the matcher comes to the word that would be the
program, `ReadProgram` starts the walk, and `MatchProgram` matches the word by
its result, which `matchAwk` ties to the choice. `ProgramsVetted`: no accepted
program is impure. That it implements `FlagMatch` is a theorem, so the properties
of `FlagMatch` hold of it, and the run checks them there.

### HookProtocol, Accelerator: one run of the hook

`pc` follows the calls of `main`, `runHook`/`runLegacyHook` and `classifyEvent`;
`failLoud`, `failOpen` and `logNonAllow` are the helpers of those names.
`Registrations` is every command line the operator may have registered, typos
and the form of before subcommands included; `Events` is what the decoder and
the engine find in the payload. The log sink is up or down for the run.

`Accelerator` is the promise about one call: it is answered, once; the prompt may
be removed only if the call is grantable, and it may be refused only if the
operator asked for that. `Grantable`, `Refusable` and `Intended` state the
operator's intent from the registration alone, independently of the variables the
code computes; `KeepsPromise` is `Accelerator`'s specification under the mapping
`Outcome`, safety and liveness.

`PipeFaults` and `EngineCrashes` let stdout and stderr be broken for the run
(`pipes`) and the engine panic. A pipe breaks in two ways. A write may return an
error (a full disk): `emitAllow` then goes to `failLoud`. Or its reader is gone: Go
gives a write of fd 1 or 2 to a closed pipe no return, the process dies of SIGPIPE
in it, with a status that is neither 0 nor 2 and nothing recorded after. So a write
of the allow that returns an error and a panic each block a call nobody asked to
block; `Faulted` says exactly when, and `KeepsPromise` allows a block only there or
where it was asked for. That such blocks exist at all is `HookCrash` (see Findings).
A closed pipe blocks nothing: it undoes an allow, or, on stderr, a block.

Of the records: `RecordedUnlessAllowed` (one closing record, the last, unless the
call was allowed, the engine panicked, or the process died of SIGPIPE in the
answer), `DriftRecorded` (drift comes before anything else said of the
event, and is not lost when the event is unusable), `LoudIsTraceable` (an exit
with 2 is explained, by command where there was one). `RecordsFitLog` says that a
run leaves what `Log` assumes of it: one record of a kind, and the deprecation
first, exactly under the old registration.

`KeepsPromise` bounds what the hook may do; `PolicyCarriedOut` says that it does
it: a call that may be granted is, if stdout takes the answer, and one that the
policy or a bad registration is to stop is blocked, if stderr is open for the
reason. The exception is a first
argument that is no subcommand, which is a usage error (`main.go`).

### Scratchpad: the check of a write and the write

`ResolveDir` and `InspectDir` are the two halves of `validScratchDir`, around
`EvalSymlinks` and `Lstat`; `SafeRedirect` is `scratchWriteOK`, one target at a
time; `Allow` ends the hook, and `OpenTarget` is bash's `open` of one target,
perhaps much later. Between any two of them another call of the session takes a
step, another process of the user changes anything (`UserChanges`: the directory,
entries, links), and another user what permissions let them (`OtherChanges`). The
file system is the directory, its entries and their inodes; everything else is
`Elsewhere`.

`scratch.go:28-30` states a residual risk: a process racing to swap the target is
not prevented, as it already runs code as this user. The properties say that this
is *all* of it: `WritesStayInPad` (a call that wrote to anything but a data file
of the scratchpad with no other name was interfered with by this user) and
`ConfirmedStaysTrue` (what was confirmed of a target stays true until bash opens
it). Assumed: another user makes no hard link to a file not theirs
(`fs.protected_hardlinks`), and only this user renames the directory itself. That
the directory does not hold `$HOME` or a working directory is a comparison of paths
as they are spelled (`scratch.go:77-92`), which `guarded` is too: an ancestor by
another spelling passes for a scratchpad, of which the properties then hold.

### Log, Doctor: from a record to the report

`Log` is several runs of the hook that record in parallel: `formatRecord` stamps
a record and turns to the sink, `writeJournal` takes it or does not, `writeFile`
is one `write()` that succeeds, is cut short (a full disk) or fails; `Kill` ends a
run between two steps, and `UpdateRegistration` replaces the old registration
while runs are under way. The file is the sequence of what the writes left:
texts, cut texts, line ends. A record may be long (`huge`) when it has a reason of
unbounded length: it names the fields not known, or quotes the event
(`event.go:105-121`). A long one fits neither the log socket nor the scanner.

`Doctor` has no state: its operators are what the subcommand would find at that
moment, of either source, and its invariants are about every moment. The journal is
what the log socket took, and that is not what `journalctl` shows: it may be
missing or fail (`doctor.go:211-218`), the journal drops and forgets records, and
where another daemon reads the socket (rsyslog alone, macOS) it never has them. So
each property holds for whatever part of them is shown (`Showings`), and excepts a
record that the source which took it does not let be read (`Unseen`).

`OneSinkEach`, `DamageIsLocal` and `BlocksAreFound` are about records on their
way. The others are about what `registrationLooksStale` concludes from them.
`StaleIsFound`: while the newest record of all is of a run under the old
registration that stayed within a second, one of the two sources says so, unless
that run's deprecation is missing or cannot be read where it is. `UpdateIsNoticed`:
once a record newer than all those of runs under the old registration is logged, a
source shows it and is not called stale, with the same exceptions.
`UpdateStaysNoticed` (an action property): a source that is not called stale after
the update is not called so later, while no write is cut; runs that append in
parallel do not damage the records that tell it from the old one. Between the
update and that first newer record the *new* registration goes on being called
stale: allowed calls log nothing, and a record of the same second is not newer
(`doctor_test.go:9-12` says that a single record would otherwise warn forever).
`StaleIffLegacyIsNewest` is the sentence of the code.

### CheckProcess, OmpShim, PiShim, AcceleratedSession: the shims

`CheckProcess` is `check` however it is asked (`runCheck`, `printed`), and a run
of `check --stdin` as the Node program that spawned it sees it end (`Ends`): by
exit status, or not started, killed, out of time, thrown. `check` too dies of
SIGPIPE where it writes to a closed pipe; the shims keep theirs open
(`ShimPipes`). The install (`binary`) may be working, missing, hanging, or another
program, and may change between any two steps. `verdictOf` is the reading both
shims have in common.

`OmpShim` is a session: `install` wraps the tool, perhaps a wrapper already
there, perhaps while calls are in flight; the `Approve...`, `Spawn` and
`SpawnReturns` actions are the `approval` callback and `classify`, with the cache
cleared at `CACHE_LIMIT`; `Execute` is delegation through the wrappers, by
`invokeTool` or by the tool that was wrapped. The host is not in the repository:
it is modelled as the shim's header describes it (lines 21-27). `approval` is
synchronous, so that while a classifier runs nothing else of the session does;
and it is resolved twice, before and after an event that may revise the input.
That the second resolution decides the prompt is an assumption the model makes of
the host. `WarnedOnce` and `PromptsExplained` are about the cache's effect on the
user: the warning comes once, and a read-only command whose prompt a wrapper left
in place is never met without it, though a malfunction is remembered after the
repair.

`PiShim` is the asynchronous handler: each `await` is a place (`spawned`,
`confirming`) at which other handlers and the install go on. `Outcome` counts a
confirmation as the prompt the promise allows; blocking is permitted only where
nobody can be asked. `GateHolds` is about what runs, `ReasonHolds` about what does
not: what is asked about or blocked is a bash command that is not read-only or on
which the classifier failed, and the user is told which of the two.

`AcceleratedSession` is `Accelerator` for a set of calls, each answered once, in
any order and on its own merits. (A conjunction of instances of `Accelerator`,
one per call, would say the same, but TLC does not check that form.)

## Runs

| Run | Property | States | Shows |
| --- | --- | --- | --- |
| `ClassifyWalk` | `TypeOK` `ScopeExact` `ArgvExact` `WritesConfined` `ExportsUntouched` | 229,322 | over all command lines of three statements, nested three deep: the walk's reading is bash's, rebound names, `Loose` arguments and `>&FILE` apart |
| `ClassifyWalkRebind` | `ExpansionsAlwaysExact` (violated) | | finding 1 |
| `ClassifyWalkFileDup` | `DupsOpenNothing` (violated) | | finding 2 |
| `FlagMatch` | `TypeOK` `OptionsVetted` `UnseenOnlyToDataSafe` `NothingLeftOpen` `ProgramsVetted` | 589,353 | over command lines of any length, one entry of every shape and awk programs of four nodes: the matcher's reading is the program's, letters read in two ways apart |
| `FlagMatchCluster` | `OptionsAlwaysVetted` (violated) | | finding 3 |
| `HookProtocol` | `TypeOK` `RecordedUnlessAllowed` `DriftRecorded` `LoudIsTraceable` `KeepsPromise` `PolicyCarriedOut` `RecordsFitLog` | 380,696 | for every registration and event, with stdout, stderr and engine failing: the promise, that the policy is carried out, and what is on record |
| `HookCrash` | `BlocksOnlyOnRequest` (violated) | | finding 4 |
| `OmpShim` | `TypeOK` `WarnedOnce` `KeepsPromise` `ReachesBuiltin` `PromptsExplained` | 445,756 | two calls sharing a cache of one entry |
| `PiShim` | `TypeOK` `GateHolds` `KeepsPromise` `ReasonHolds` | 57,600 | two handlers in progress |
| `Scratchpad` | `TypeOK` `WritesStayInPad` `ConfirmedStaysTrue` | 641,938 | two calls, other processes and other users at work between check and open |
| `Doctor` | `TypeOK` `OneSinkEach` `DamageIsLocal` `BlocksAreFound` `StaleIsFound` `UpdateIsNoticed` `UpdateStaysNoticed` | 1,942,950 | two runs logging in parallel, for as long as they like, and a journal that shows any part of what the socket took |
| `DoctorStale` | `StaleIffLegacyIsNewest` (violated) | | finding 5 |

Bounds, and why they are enough to meet the interesting cases:

- `ClassifyWalk`: `MaxDepth = 3` reaches a construct within a construct (a chain
  in a subshell in a substitution), where a copied scope can differ from both its
  neighbours; three statements allow to bind, to rebind or fail, and to use. Two
  names that may be bound, so that one may be rebound and the other must stay
  exact, and one that is exported; a value of each kind the properties tell apart.
  The names that may be bound are symmetric. The runs for findings use the least
  bounds that show them; a rebound name that is then misread takes five statements.
- `FlagMatch` has no bound on the number of words: its state is finite. An awk
  program has at most four nodes (`MaxNodes`), which reaches a forbidden node
  below a statement, an expression and an optional part. `MCTable` has one entry of
  each shape in `commands.go` and an option of each arity, one of them (`alien`)
  listed nowhere.
- `HookProtocol` enumerates all registrations and events of its types. There is
  no other bound; a run has at most seven steps.
- `OmpShim`: two calls, a cache of one entry (the least that must be cleared
  while another call relies on it), two wraps (a wrapper of a wrapper). Commands
  are one read-only, one not, and the empty one; an unparseable one and one on
  which the engine panics are read like the second and like a broken install,
  which are both there. `warnings` is counted up to 2.
- `PiShim`: two handlers and a command of every class.
- `Scratchpad`: two calls that may confirm the same names, the least for one to
  spoil what the other confirmed; two names, of which one is a data file, and two
  inodes, so that a name may be freed and taken again, and linked twice.
- `Doctor`: two runs (`Hooks`), whose records interleave, of at most two records
  each; three instants (`MaxTime = 2`) and a window of one second, so that a record
  is in the window, at its edge and out of it.

Deadlock is not checked: each of these systems stops when its work is done.

Fairness. `HookProtocol`: the process is scheduled until it exits (`WF` of
`Next`); there is no loop and nothing it waits for but its stdin, which the
harness closes. `OmpShim`: the host goes on with each call it has begun
(`Approve`, `Execute`), registers its tools, and a spawn ends by its time limit of
5 s at the latest (`SpawnReturns`, `classify-bash.ts:60`). `PiShim`: the event
loop goes on with every handler, and `execFile` has the same limit. Nothing is
assumed of users, who may leave a prompt unanswered, nor of the install, which
may stay broken. `ClassifyWalk`, `CommandMatch`,
`Scratchpad` and `Log` state safety only: they are about what must not happen,
and nothing in them waits for anything.

## Proofs

All theorems hold for every value of the constants that satisfies the named
assumptions of the modules. TLAPS checks some 5,500 obligations.

| Module | Theorem | Establishes |
| --- | --- | --- |
| `ClassifyWalkProofs` | `TypeCorrect` | `[]TypeOK` |
| | `ScopeIsExact`, `ArgumentsAreExact`, `WritesAreConfined` | the three invariants |
| | `ExportsAreUntouched` | `ExportsUntouched` |
| `FlagMatchProofs` | `TypeCorrect`, `UnseenIsSafe` | `[]TypeOK`, `[]UnseenOnlyToDataSafe` |
| | `OptionsAreVetted`, `NothingIsLeftOpen` | the two invariants |
| | `ProgramsAreVetted` | `[]ProgramsVetted`, for programs of any size |
| | `ImplementsFlagMatch`, `CommandsAreVetted` | `CommandSpec => Spec` of `FlagMatch`, and with it the three invariants |
| `ScratchpadProofs` | `TypeCorrect`, `WritesAreConfined`, `ConfirmationsHold` | `[]TypeOK`, `[]WritesStayInPad`, `[]ConfirmedStaysTrue` |
| `HookProtocolProofs` | `TypeCorrect` | `[]TypeOK`, faults included |
| | `RunsAreRecorded`, `DriftIsRecorded`, `LoudRunsAreTraceable` | the three invariants on records, faults included |
| | `PolicyIsCarriedOut` | `[]PolicyCarriedOut` |
| | `RecordsAreThoseOfLog` | `[]RecordsFitLog`, which is what `Log` assumes of its `Bodies` |
| | `ImplementsAccelerator` | every step is `Accelerator`'s or a stutter, faults included |
| | `BlocksAreAskedFor` | without faults: `[]BlocksOnlyOnRequest` |
| `CheckProcessProofs` | `StatusIsVerdict` | however `check` is asked, the status is the class, and a printed class agrees with it |
| | `VerdictIsSound` | what the shims read as `read_only` is the engine's `ReadOnly`, and what they read as `not_read_only` is not, however the process ends |
| `OmpShimProofs` | `TypeCorrect`, `WarnsOnce`, `PromptsAreExplained`, `ImplementsSession` | `[]TypeOK` with the limit of the cache; `[]WarnedOnce`; `[]PromptsExplained`; every step is `AcceleratedSession`'s or a stutter |
| `PiShimProofs` | `TypeCorrect`, `GateIsHeld`, `ReasonIsRight`, `ImplementsSession` | `[]TypeOK`, `[]GateHolds`, `[]ReasonHolds`; the same refinement |
| `DoctorProofs` | `TypeCorrect`, `RecordsAreOnce`, `DamageStaysLocal` | `[]TypeOK`, `[]OneSinkEach`, `[]DamageIsLocal`, for any number of runs |
| | `BlockedCallsAreFound` | `[]BlocksAreFound` |
| | `StaleRegistrationIsFound` | `[]StaleIsFound` |
| | `NewRegistrationIsNoticed`, `NewRegistrationStaysNoticed` | `[]UpdateIsNoticed`, `UpdateStaysNoticed` |

Every safety property of a passing run is a theorem, and none of them has a
hypothesis beyond the assumptions the modules state of their constants.

The arguments:

- *ClassifyWalk.* `TypeOK /\ ScopeExact` is inductive, for the names that are not
  `rebound` (`Sure` in the proofs). The step that makes the exception necessary is
  `BindStep`: a binding written into a shell must not make an *enclosing* scope of
  that shell wrong, which is what binding again a name bound there does. A name
  assigned from a rebound one is as wrong as that, so that the exception has to be
  closed under assignment: without this second half of `Rebinding` the invariant
  is not inductive. `ArgvExact` and `WritesConfined` follow, relative to
  `ScopeExact`, from lemmas about single words (`ExpansionOfRhs` and its
  neighbours): a word the walk resolves under an exact scope expands to the text
  it was judged by. The constructs that do not touch an outer frame share
  `StackKept`.
- *FlagMatch.* `ShapeInv` adds to the types that both readers await a name or
  neither does. `Agree` is the heart: in a command still being matched the two
  readers are in the same mode, unless the program is safe under any argv, or
  takes all that is left for operands, which can only make it act on fewer
  options, or has been misread before (`Loose`). One step breaks the agreement, a
  letter after one that may have a value (`ShortFlagAgrees`), and finding 3 is that
  step; that the program it breaks is then in `clustered` makes `AgreeInv`
  inductive. On going on to another entry both readers begin anew, but for a program
  that goes on taking every word for an operand.
- *CommandMatch.* Two lemmas about the tables (`StmtTable`, `ExprTable`): of a node
  not refused, no part is passed over and nothing acts. So `impure` implies that
  the walk has ended otherwise than in `safe`, whatever the stack holds
  (`CommandInv`). That each step is one of `FlagMatch` or leaves its variables
  alone is by the shape of the actions.
- *Scratchpad.* The invariant adds `AcceptedStaysPrivate`: a directory a call
  accepted is still real, ours and closed while this user has changed nothing, so
  that other users have no step to take. What remains are the session's own
  opens, which create a file under an absent name or write to a file, and leave
  every confirmed target confirmed (`CreateKeeps`).
- *HookProtocol.* `IInv` adds to the types what each stage established: the policy
  in force is the intended one (`Taken`), drift under `fail` is past (`Staged`),
  and nothing is on stdout before the exit (`Answered`). Refinement then needs
  only the last step of a run. For the records, `RInv` adds `OnRecord`, which
  says at each place what the run has recorded so far, and `Named`, when the
  command is known. `PolicyCarriedOut` needs of a call that falls through that no
  policy had anything to say of it (`Unconcerned`); `RecordsFitLog` needs which
  records each place leaves open (`Stages`).
- *OmpShim.* `CacheSound`: whatever the history of the install, `read_only` is
  kept only for a command that is `ReadOnly`, and `not_read_only` only for another
  (`CacheFair`). With `Asking` and `Prompted`, which
  tie a running classifier and the prompted calls to the stage of a call, each
  approval refines one answer or none. `CacheKept` is the cardinality: an entry is
  added only after room was made for it.
- *PiShim.* `Placed` says what is known at each place of a handler, `Sound` that
  its verdict is the engine's, which is also the reason it gives. `Local` reduces
  a step to the call that takes it.
- *Doctor.* The invariant has three parts. `Hands`: a run that is writing has one
  record in hand, which has left no trace in any sink, and makes no record of a
  kind twice; without it the fallback of `auto` could double a record. `Kept`:
  every record is in a hand, a sink, or lost. `Lines`: the file is a sequence of
  whole lines but where a write was cut, so that a write always begins after a
  line end or after a cut (`FileEnd`); this is where the single `write()` of a
  record with its line end is needed. With the three, a record that is logged, not
  missing and not hidden is read from one of the sources (`LoggedIsRead`), the
  blocked calls, the deprecations and the records that outdate them alike. `Signs`
  adds that only runs under the old registration make deprecations, and that they
  make them before anything else. For `UpdateStaysNoticed`, `ReadsGrow`: while no
  write is cut the file grows by whole lines, so that what was read of it still
  is, and what is read besides was in a hand, where after the update no
  deprecation is (`NoneHeld`). `BodiesAssumption` says of the hook what
  `RecordsAreThoseOfLog` proves of `HookProtocol`.

Checked by TLC only: liveness (the calls are answered, in the three
`KeepsPromise`; `ReachesBuiltin`), which is beyond the prover.

## Findings

Each is a run that must fail, with the trace TLC finds.

1. `ClassifyWalkRebind`: a chain, a side of `||`, a pipe and a subshell are
   classified against a copy of the scope, which is dropped. bash runs chains and
   `||` in the same shell, so that in `A=x; A=y && B=z; cmd $A` the argument
   matched is `x` and the argument passed `y`. `ArgvExact` shows that it reaches
   no further than the names bound again and what is assigned from them.
   `vars.go:30-31` says "the scope is exact for every command that can classify
   Allow".
2. `ClassifyWalkFileDup`: `>&WORD` is accepted for every resolvable word
   (`classify.go:239-241`: "These don't open new files"); with a word that is no
   descriptor bash opens the file.
3. `FlagMatchCluster`: in a cluster the matcher reads on after a letter with an
   optional value, where getopt takes the rest of the word for that value. If the
   next letter takes a required value, the matcher consumes the next word as its
   value and the program reads that word as an option. By `OptionsVetted` only that
   program is misled, and none before or after it. `spec.go:84-86` says an
   unwhitelisted flag "falls through wherever it lands".
4. `HookCrash`: a panic that is no unknown construct is raised again
   (`api.go:117`) and ends the process with status 2, which blocks the call.
   `README.md:43-44`: "it must never block". (A failed write of the answer
   blocks too; the README and FUTURE-WORK.md admit that one, so that it is no
   finding.)
5. `DoctorStale`: a run under the old registration records its deprecation and
   then what became of the call. If the clock passes into the next second between
   the two, its second record is the newest, and `doctor` no longer reports the
   registration, though nothing has changed. `doctor.go:116`: "if anything newer
   was logged, the registration has moved on".

Seen while modelling, and without a run of their own:

- `A=1 && B=2` and `(A=1)` classify ReadOnly though no command runs;
  `classify.go:54-56` says assignments are accepted "only as setup for a command".
- A missing or unknown `--mode` or policy value of the hook exits 2, where
  `README.md:95-96` says "A usage error exits **1**, never 2".
- `doctor.go:198-200` says a file is used "when journalctl is unavailable"; without
  `--log-file` that case is an error (`doctor.go:211-214`). Records that `auto` sent
  to the file are then not found, nor are they where there is a journal:
  `BlocksAreFound` is about the two sources together.
- `README.md:85` and FUTURE-WORK.md say that writing the allow to a closed pipe
  exits 2. A Go program dies of SIGPIPE there, before it has recorded anything: the
  call is not blocked.
- `classify.go:20-22` says of the words with a bound variable that "every later
  check sees exactly the string bash would". A literal with an escape, a brace, a
  glob or a tilde is matched at its text, and bash passes something else:
  `ArgvExact` says nothing of these.
- A `}` or `]` after the event passes for its end (`dec.More`, `event.go:108`), and
  `unknownFields` then finds no drift, as the payload is not valid JSON as a whole.
- `doctor.go:198-200` takes the journal for the place "the deployed registration
  sends them". On a host whose log socket is not journald's, `auto` does not fall
  back to the file, as the socket takes the record, and `journalctl` never shows it.
- After an update of the registration `doctor` goes on calling it stale until one
  of its runs has logged a newer record (see Doctor above).
- One line longer than the scanner's buffer makes the whole source unavailable
  (`doctor.go:236`), which is an exception in `BlocksAreFound`.
- `--since` of some 106,752 days and more overflows the duration
  (`doctor.go:183`).

## Not modelled

- `commands.go` entry by entry: it is data. Whether an entry that lists an option
  is right about the program is outside the models; `FlagMatch` shows that the
  options listed are the ones acted on.
- The parsers (`mvdan.cc/sh`, goawk): the trees the walks visit are taken for
  those bash and awk would build.
- The wording and the tables of `doctor`, and forms of `--since` other than a
  duration.
- Unhandled errors of the child's stdin in Node (`contrib/pi/classify-bash.ts:52`).
- Build and packaging.

## Plan

Done, in this order: `ClassifyWalk` (what an allow rests on), `Accelerator` and
`HookProtocol` (the promise), `FlagMatch` (the other half of an allow),
`CheckProcess`, `OmpShim`, `PiShim` (the promise on other hosts); proofs of each;
then `Scratchpad`, `AwkWalk` and `CommandMatch` with proofs, the records of
`HookProtocol`, `Log` and `Doctor`, and the proofs of `Doctor`; then what the hook
does and not only what it must not, what the shims tell the user, and the theorems
of `ClassifyWalk`, `FlagMatch` and `Doctor` for all inputs, with the reach of each
finding in place of a hypothesis that excludes it.

To come: a composition of `ClassifyWalk` and `CommandMatch`, the choice of
`classifyCall` replaced by the matcher run on the resolved words. What passes
between the two is the list of words, and `ArgvExact` says of it what `FlagMatch`
takes for granted, that the words matched are the words passed, for every word but a
`Loose` one; a composed model would check that this is all that passes, and follow
what a `Loose` word can do to the options of its command.
