--------------------------------- MODULE Log ---------------------------------
(***************************************************************************)
(* The log of calls that were not allowed (internal/logging/log.go,        *)
(* journal_unix.go, api.go): runs of the hook, in parallel and under a     *)
(* registration that changes, each leaving its records in the journal or   *)
(* in one file, whose content is followed write by write.                  *)
(*                                                                         *)
(* Abstracted: a record is its kind, its time stamp (in seconds, as RFC    *)
(* 3339 has it), the run that made it and whether it is longer than a      *)
(* datagram of the log socket and than the buffer of the doctor: commands  *)
(* are cut to a length far below, reasons are not.                         *)
(***************************************************************************)
EXTENDS Integers, Sequences

CONSTANTS
  Hooks,     (* Runs of the hook.                                          *)
  Bodies,    (* The records a run may leave, without deprecated_invocation.*)
  MaxTime    (* Bound on the clock.                                        *)

Kinds == {"deprecated_invocation", "schema_drift", "undecodable",
          "fallthrough", "failloud"}

\* A run notes drift and ends, each at most once (hook.go).
ASSUME BodiesAssumption ==
  \A body \in Bodies :
    /\ body \in Seq(Kinds \ {"deprecated_invocation"})
    /\ \A i, j \in 1..Len(body) : body[i] = body[j] => i = j

ASSUME MaxTimeAssumption == MaxTime \in Nat

LogRecords == [hook : Hooks, kind : Kinds, ts : Nat, huge : BOOLEAN]

VARIABLES
  clock,      (* In seconds.                                               *)
  form,       (* The registration: "legacy", later "hook".                 *)
  sink,       (* --log-to: "auto", "journal" or "file".                    *)
  journal,    (* The records in the journal.                               *)
  file,       (* The file: texts of records, some cut, and line ends.      *)
  run,        (* Each run: its form, where it is, the records it has yet   *)
              (* to make, the last one made, and of that the write() calls *)
              (* yet to be made.                                           *)
  torn,       (* Records of which the file took a part.                    *)
  made,       (* Every record made.                                        *)
  lost        (* Records no sink took.                                     *)

vars == <<clock, form, sink, journal, file, run, torn, made, lost>>

env == <<clock, form, sink>>

\* What is in the file.
Text(r) == [what |-> "text", of |-> {r}]
Cut(r)  == [what |-> "cut", of |-> {r}]
Stub(r) == [what |-> "stub", of |-> {r}]   \* Cut, and no longer long.
NewLine == [what |-> "newline", of |-> {}]

NotStarted == [form |-> "hook", at |-> "start", left |-> << >>, record |-> {},
               writes |-> << >>]

Init ==
  /\ clock = 0
  /\ form \in {"legacy", "hook"}
  /\ sink \in {"auto", "journal", "file"}
  /\ journal = {}
  /\ file = << >>
  /\ run = [h \in Hooks |-> NotStarted]
  /\ torn = {}
  /\ made = {}
  /\ lost = {}

-----------------------------------------------------------------------------
\* The harness runs the hook on an event, with the registration of the moment.
Start(h) ==
  /\ run[h].at = "start"
  /\ \E body \in Bodies :
       run' = [run EXCEPT
         ![h].form = form,
         ![h].at   = "next",
         ![h].left = IF form = "legacy" THEN <<"deprecated_invocation">> \o body
                     ELSE body]
  /\ UNCHANGED <<env, journal, file, torn, made, lost>>

\* Mutant: the line and its end are written one after the other.
fileWritesTwice(r) == << <<Text(r)>>, <<NewLine>> >>

\* The write() calls that append a record to the file: one.
fileWrites(r) == << <<Text(r), NewLine>> >>

\* Mutant: commands are not cut.
mayBeHugeUncut(kind) == kind # "deprecated_invocation"

\* A reason may name any number of fields, or quote the event; the command
\* beside it is cut. A call that fell through has no reason, and that of a
\* deprecation is fixed.
mayBeHuge(kind) == kind \in {"schema_drift", "failloud", "undecodable"}

\* LogNonAllow takes the time and formats the record, then turns to the sink.
formatRecord(h) ==
  /\ run[h].at = "next" /\ run[h].left # << >>
  /\ \E huge \in BOOLEAN :
       LET kind == Head(run[h].left)
           r == [hook |-> h, kind |-> kind, ts |-> clock, huge |-> huge]
       IN  /\ huge => mayBeHuge(kind)
           /\ made' = made \cup {r}
           /\ run' = [run EXCEPT
                ![h].left   = Tail(@),
                ![h].record = {r},
                ![h].at     = IF sink = "file" THEN "file" ELSE "journal",
                ![h].writes = fileWrites(r)]
  /\ UNCHANGED <<env, journal, file, torn, lost>>

\* LogNonAllow returns, whatever became of the record.
Return(h) ==
  run' = [run EXCEPT ![h].at = "next", ![h].record = {}, ![h].writes = << >>]

\* Mutant: auto writes the file in any case.
fallsBackAlways(taken) == sink = "auto"

\* auto turns to the file when the journal does not take the record.
fallsBack(taken) == sink = "auto" /\ ~taken

\* The log socket takes a record that fits, if it is there at the moment.
writeJournal(h) ==
  /\ run[h].at = "journal"
  /\ \E taken \in BOOLEAN :
       /\ taken => \A r \in run[h].record : ~r.huge
       /\ journal' = IF taken THEN journal \cup run[h].record ELSE journal
       /\ IF fallsBack(taken)
            THEN run' = [run EXCEPT ![h].at = "file"] /\ UNCHANGED lost
            ELSE /\ Return(h)
                 /\ lost' = IF taken THEN lost ELSE lost \cup run[h].record
  /\ UNCHANGED <<env, file, torn, made>>

\* One write() to the file, with O_APPEND: atomic, but for a full disk, which
\* may cut it anywhere, also between the text and the end of the line.
writeFile(h) ==
  /\ run[h].at = "file"
  /\ \/ /\ file' = file \o Head(run[h].writes)
        /\ IF Tail(run[h].writes) = << >> THEN Return(h)
           ELSE run' = [run EXCEPT ![h].writes = Tail(@)]
        /\ UNCHANGED <<torn, lost>>
     \/ /\ \E r \in run[h].record :
             \E part \in {Text(r), Cut(r)} \cup (IF r.huge THEN {Stub(r)} ELSE {}) :
               file' = Append(file, part)
        /\ torn' = torn \cup run[h].record
        /\ Return(h)
        /\ UNCHANGED lost
     \/ /\ lost' = lost \cup run[h].record
        /\ Return(h)
        /\ UNCHANGED <<file, torn>>
  /\ UNCHANGED <<env, journal, made>>

\* The harness may kill a run that takes too long, between any two steps.
Kill(h) ==
  /\ run[h].at \in {"next", "journal", "file"}
  /\ run' = [run EXCEPT ![h].at = "next", ![h].left = << >>,
                        ![h].record = {}, ![h].writes = << >>]
  /\ lost' = lost \cup run[h].record
  /\ UNCHANGED <<env, journal, file, torn, made>>

\* The operator replaces the registration of before subcommands.
UpdateRegistration ==
  /\ form = "legacy"
  /\ form' = "hook"
  /\ UNCHANGED <<clock, sink, journal, file, run, torn, made, lost>>

\* A second passes, also while runs are under way.
Tick ==
  /\ clock < MaxTime
  /\ clock' = clock + 1
  /\ UNCHANGED <<form, sink, journal, file, run, torn, made, lost>>

Next ==
  \/ \E h \in Hooks : \/ Start(h) \/ formatRecord(h) \/ writeJournal(h)
                      \/ writeFile(h) \/ Kill(h)
  \/ UpdateRegistration
  \/ Tick

Spec == Init /\ [][Next]_vars
=============================================================================
