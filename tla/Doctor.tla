------------------------------- MODULE Doctor -------------------------------
(***************************************************************************)
(* What the doctor subcommand would say of the log at any moment           *)
(* (cmd/classify-bash/doctor.go): it reads one source, the journal or a    *)
(* file, skips what is no record, and counts and compares the rest.        *)
(***************************************************************************)
EXTENDS Log

CONSTANT Window  (* How far back the report reaches (--since).             *)

ASSUME WindowAssumption == Window \in Nat

Sources == {"journal", "file"}

\* Mutant: the first line that is no record ends the reading.
parsesStrictly(i) ==
  /\ file[i].what = "text"
  /\ \A j \in 1..i : /\ file[j].what \in {"text", "newline"}
                     /\ j > 1 /\ file[j].what = "text" =>
                          file[j - 1].what = "newline"

\* A line is a record if it is one whole text.
parses(i) ==
  /\ file[i].what = "text"
  /\ i > 1 => file[i - 1].what = "newline"
  /\ i < Len(file) => file[i + 1].what = "newline"

parseRecords == UNION {file[i].of : i \in {j \in 1..Len(file) : parses(j)}}

\* The scanner gives up at a line longer than its buffer.
TooLong == \E i \in 1..Len(file) : /\ file[i].what \in {"text", "cut"}
                                   /\ \E r \in file[i].of : r.huge

\* What journalctl may show of the records the log socket took: not all of
\* them where the journal drops or forgets some, and none where journalctl is
\* missing or fails, or where it is another daemon that reads the socket.
Showings == SUBSET journal

\* The records of a source, while journalctl shows these; none if it cannot be
\* read.
readRecords(source, shown) ==
  IF source = "journal" THEN shown
  ELSE IF TooLong THEN {} ELSE parseRecords

\* The source that took the record, if any did, does not let it be read.
Unseen(r, shown) == IF r \in journal THEN r \notin shown ELSE TooLong

\* The cut-off of a window given as a duration.
resolveWindow == clock - Window

\* The calls reported as blocked, of the records read.
reasonsInWindow(records) ==
  {r \in records : r.kind = "failloud" /\ r.ts >= resolveWindow}

\* Mutant: a deprecation counts while no other record is as new.
registrationLooksStaleStrict(records) ==
  \E d \in records :
    /\ d.kind = "deprecated_invocation"
    /\ \A r \in records : r.kind # "deprecated_invocation" => r.ts < d.ts

\* Mutant: a deprecation counts however old it is.
registrationLooksStaleEver(records) ==
  \E d \in records : d.kind = "deprecated_invocation"

\* The newest activity of any kind is a deprecation.
registrationLooksStale(records) ==
  \E d \in records :
    /\ d.kind = "deprecated_invocation"
    /\ \A r \in records : r.ts <= d.ts

-----------------------------------------------------------------------------
\* Every variable has its type; no record of a call that fell through
\* is long, nor one of a deprecation.
TypeOK ==
  /\ clock \in 0..MaxTime
  /\ form \in {"legacy", "hook"}
  /\ sink \in {"auto", "journal", "file"}
  /\ made \subseteq LogRecords
  /\ journal \subseteq made /\ torn \subseteq made /\ lost \subseteq made
  /\ file \in Seq([what : {"text", "cut", "stub", "newline"}, of : SUBSET made])
  /\ \A h \in Hooks :
       /\ run[h].form \in {"legacy", "hook"}
       /\ run[h].at \in {"start", "next", "journal", "file"}
       /\ run[h].left \in Seq(Kinds)
       /\ run[h].record \subseteq made
       /\ run[h].at \in {"journal", "file"} <=> run[h].record # {}
  /\ \A r \in made : r.huge => r.kind \notin {"fallthrough", "deprecated_invocation"}

\* No record is in both sinks, or twice in the file, whatever fails on the way:
\* auto falls back only for a record the journal did not take (LogNonAllow).
OneSinkEach ==
  /\ \A i \in 1..Len(file) : file[i].of \cap journal = {}
  /\ \A i, j \in 1..Len(file) :
       file[i].of \cap file[j].of # {} => i = j

\* A record the file took whole can be read, unless the write before it was
\* cut: hooks that append in parallel do not damage each other's records, and
\* a full disk damages at most the record after the cut one ("a single O_APPEND
\* write - atomic across concurrent hooks", log.go, writeFile; parseRecords).
DamageIsLocal ==
  \A i \in 1..Len(file) :
    /\ file[i].what = "text"
    /\ file[i].of \cap (torn \cup UNION {run[h].record : h \in Hooks}) = {}
    /\ i > 1 => file[i - 1].of \cap torn = {}
    => file[i].of \subseteq parseRecords

\* No sink took the record, or a full disk damaged it or what was before it.
Missing(r) ==
  \/ r \in lost \cup torn
  \/ \E i \in 2..Len(file) : /\ r \in file[i].of
                             /\ file[i - 1].of \cap torn # {}

\* LogNonAllow has returned for the record.
Logged(r) == \A h \in Hooks : r \notin run[h].record

\* Every call blocked in the window is reported by the doctor on one of the
\* two sources, once LogNonAllow has returned, unless no sink took the record,
\* a full disk damaged it, or the source that has it does not let it be read:
\* journalctl does not show what the log socket took, or a line too long for
\* the scanner hides the file ("the signal that used to live on the exit code
\* ... lives here instead", doctor.go). Where journalctl never shows what the
\* socket takes, that is every block under --log-to=auto: auto does not fall
\* back to the file for a record the socket took.
BlocksAreFound ==
  \A shown \in Showings, r \in made :
    r.kind = "failloud" /\ r.ts >= clock - Window /\ Logged(r)
    => \/ \E source \in Sources : r \in reasonsInWindow(readRecords(source, shown))
       \/ Missing(r)
       \/ Unseen(r, shown)

\* A stale registration is found: while the newest record of all is of a run
\* under the old one, all of whose records have the same time, the doctor says
\* so on one of the two sources, whichever of them took the records, unless
\* the deprecation that run logged first is missing, or cannot be read where
\* it is (registrationLooksStale; hook.go, where a run under the old
\* registration logs the deprecation before anything else).
StaleIsFound ==
  \A shown \in Showings, r \in made :
    /\ run[r.hook].form = "legacy"
    /\ \A q \in made : /\ q.ts <= r.ts
                       /\ q.hook = r.hook => q.ts = r.ts
    /\ \A d \in made : d.hook = r.hook /\ d.kind = "deprecated_invocation" =>
                         Logged(d) /\ ~Missing(d) /\ ~Unseen(d, shown)
    => \E source \in Sources : registrationLooksStale(readRecords(source, shown))

\* The update of a registration is noticed: once a run under the new one has
\* logged a record newer than all the records of runs under the old one, a
\* source the doctor can read shows it and is not called stale ("if anything
\* newer was logged, the registration has moved on", doctor.go,
\* registrationLooksStale), with the exceptions of the blocks above. Until
\* then the new registration goes on being called stale: runs whose calls are
\* allowed log nothing, and a record of the same second is not newer.
UpdateIsNoticed ==
  \A shown \in Showings, r \in made :
    /\ Logged(r)
    /\ \A q \in made : run[q.hook].form = "legacy" => q.ts < r.ts
    => \/ \E source \in Sources :
             LET records == readRecords(source, shown)
             IN  r \in records /\ ~registrationLooksStale(records)
       \/ Missing(r)
       \/ Unseen(r, shown)

\* The registration is the new one, and no run under the old one goes on.
Updated ==
  /\ form = "hook"
  /\ \A h \in Hooks : run[h].form = "legacy" =>
                        run[h].left = << >> /\ run[h].record = {}

\* The update of a registration stays noticed: a source that is not called
\* stale after it is not called so later, while no write is cut and journalctl
\* still shows what it showed. Runs under the new registration, in parallel as
\* they may be, make no deprecation, and do not damage the records that tell
\* the old ones apart (registrationLooksStale; log.go, writeFile).
StaysCleared ==
  \A source \in Sources, shown \in Showings, new \in SUBSET (journal' \ journal) :
    /\ Updated /\ torn' = {}
    /\ ~registrationLooksStale(readRecords(source, shown))
    => ~registrationLooksStale(readRecords(source, shown \cup new)')

\* As a property of behaviours.
UpdateStaysNoticed == [][StaysCleared]_vars

\* No deprecation of these records' runs was lost or damaged on its way.
Unbroken(records) ==
  \A r \in records :
    run[r.hook].form = "legacy" =>
      \E d \in records :
        d.hook = r.hook /\ d.kind = "deprecated_invocation"

\* The registration is called stale exactly when the newest activity in the
\* source is that of a run under the old registration: it "answers is the hook
\* STILL registered with the pre-subcommand invocation" (doctor.go,
\* registrationLooksStale).
StaleIffLegacyIsNewest ==
  \A source \in Sources, shown \in Showings :
    LET records == readRecords(source, shown)
        newest  == {r \in records : \A q \in records : q.ts <= r.ts}
    IN  Unbroken(records) =>
          (registrationLooksStale(records) <=>
             \E r \in newest : run[r.hook].form = "legacy")
=============================================================================
