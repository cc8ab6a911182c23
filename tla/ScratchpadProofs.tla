-------------------------- MODULE ScratchpadProofs --------------------------
(***************************************************************************)
(* What Scratchpad satisfies for any number of calls, names and files: a   *)
(* write the hook allowed goes where the hook looked, whatever other calls *)
(* and other users do meanwhile.                                           *)
(***************************************************************************)
EXTENDS Scratchpad, TLAPS

\* The directory a call accepted is still private, while this user has changed
\* nothing; and no target is confirmed without one.
AcceptedStaysPrivate ==
  \A c \in Calls :
    /\ call[c].dir = "none" => call[c].targets = {}
    /\ call[c].stage \in {"start", "resolved", "ended"} => call[c].dir = "none"
    /\ Underway(c) /\ c \notin touched /\ call[c].dir # "none" =>
         /\ call[c].dir = "pad"
         /\ pad.real /\ pad.owner = "us" /\ ~pad.open

IInv == TypeOK /\ AcceptedStaysPrivate /\ ConfirmedStaysTrue /\ WritesStayInPad

-----------------------------------------------------------------------------
\* An entry that is a file is the file it leads to, and nothing else.
LEMMA FileEntry ==
  ASSUME TypeOK, NEW n \in Names, entry[n].kind = "file"
  PROVE  entry[n].to \in Inodes /\ entry[n] = File(entry[n].to)
<1>1. entry[n] \in Entries
  BY DEF TypeOK
<1>2. /\ Absent.kind # "file" /\ Special.kind # "file"
      /\ \A p : Symlink(p).kind # "file"
  BY DEF Absent, Special, Symlink
<1>3. \E i \in Inodes : entry[n] = File(i)
  BY <1>1, <1>2 DEF Entries
<1>. QED BY <1>3 DEF File

LEMMA FileKind == \A i : File(i).kind = "file" /\ File(i).to = i /\ File(i) # Absent
BY DEF File, Absent

\* A new file leaves every harmless target harmless, its own name included.
LEMMA CreateKeeps ==
  ASSUME TypeOK, NEW d \in Names, entry[d] = Absent, CreateFile(d, "us"),
         pad' = pad, NEW n \in Names, Harmless(n)
  PROVE  Harmless(n)'
<1>1. PICK i \in Inodes :
        /\ Unused(i)
        /\ entry' = [entry EXCEPT ![d] = File(i)]
        /\ inode' = [inode EXCEPT ![i] = [owner |-> "us", outside |-> FALSE]]
  BY DEF CreateFile
<1>2. /\ entry'[d] = File(i)
      /\ \A m \in Names : m # d => entry'[m] = entry[m]
      /\ inode'[i] = [owner |-> "us", outside |-> FALSE]
      /\ \A j \in Inodes : j # i => inode'[j] = inode[j]
  BY <1>1 DEF TypeOK
<1>3. \A m \in Names : entry[m] # File(i)
  BY <1>1 DEF Unused
<1>4. CASE n = d
  <2>1. /\ entry'[n] = File(i)
        /\ \A m \in Names : entry'[m] = File(i) => m = n
    BY <1>2, <1>3, <1>4
  <2>2. entry'[n].kind = "file" /\ entry'[n].to = i
    BY <2>1, FileKind
  <2>3. inode'[i].owner = "us" /\ ~inode'[i].outside
    BY <1>2
  <2>. QED BY <2>1, <2>2, <2>3 DEF Harmless, OneLink
<1>5. CASE n # d /\ entry[n] = Absent
  BY <1>2, <1>5 DEF Harmless
<1>6. CASE n # d /\ entry[n] # Absent
  <2>1. /\ entry[n].kind = "file" /\ inode[entry[n].to].owner = "us"
        /\ OneLink(n) /\ n \in DataNames /\ pad.real
    BY <1>6 DEF Harmless
  <2>2. entry[n].to \in Inodes /\ entry[n] = File(entry[n].to)
    BY <2>1, FileEntry
  <2>3. entry[n].to # i
    BY <1>3, <2>2
  <2>4. entry'[n] = entry[n] /\ inode'[entry[n].to] = inode[entry[n].to]
    BY <1>2, <1>6, <2>2, <2>3
  <2>5. \A m \in Names : entry'[m] = entry'[n] => m = n
    BY <1>2, <1>3, <1>6, <2>1, <2>4 DEF OneLink
  <2>. QED BY <2>1, <2>4, <2>5 DEF Harmless, OneLink
<1>. QED BY <1>4, <1>5, <1>6

\* Whether a target is harmless depends on the files alone.
LEMMA HarmlessKept ==
  ASSUME UNCHANGED files, NEW n
  PROVE  Harmless(n)' = Harmless(n)
BY DEF files, Harmless, OneLink

-----------------------------------------------------------------------------
LEMMA InitHolds == Init => IInv
<1>. SUFFICES ASSUME Init PROVE IInv
  OBVIOUS
<1>1. \A c \in Calls :
        /\ call[c].stage = "start" /\ call[c].dir = "none"
        /\ call[c].targets = {}
  BY DEF Init, Waiting
<1>2. TypeOK
  <2>1. call \in [Calls -> [stage : Stages, event : EventDirs, dir : EventDirs,
                            targets : SUBSET DataNames]]
    BY DEF Init, Waiting, Stages, EventDirs
  <2>2. entry \in [Names -> Entries]
    BY DEF Init, Entries
  <2>3. inode \in [Inodes -> [owner : Users, outside : BOOLEAN]]
    BY DEF Init, Users
  <2>. QED BY <2>1, <2>2, <2>3 DEF Init, TypeOK
<1>3. AcceptedStaysPrivate /\ ConfirmedStaysTrue
  BY <1>1 DEF AcceptedStaysPrivate, ConfirmedStaysTrue, Underway
<1>4. WritesStayInPad
  BY DEF Init, WritesStayInPad
<1>. QED BY <1>2, <1>3, <1>4 DEF IInv

\* A step of the checks of c: the files are left alone and only c moves on.
LEMMA CheckStep ==
  ASSUME IInv, NEW c \in Calls, UNCHANGED <<files, touched, strayed>>,
         NEW r \in [stage : Stages, event : EventDirs, dir : EventDirs,
                    targets : SUBSET DataNames],
         call' = [call EXCEPT ![c] = r],
         r.dir = "none" => r.targets = {},
         r.stage \in {"start", "resolved", "ended"} => r.dir = "none",
         c \notin touched /\ r.dir # "none" =>
           /\ r.dir = "pad"
           /\ pad.real /\ pad.owner = "us" /\ ~pad.open
           /\ \A n \in r.targets : Harmless(n)
  PROVE  IInv'
<1>1. call'[c] = r /\ \A k \in Calls : k # c => call'[k] = call[k]
  BY DEF IInv, TypeOK
<1>2. TypeOK'
  BY DEF IInv, TypeOK, files
<1>3. AcceptedStaysPrivate'
  BY <1>1 DEF IInv, AcceptedStaysPrivate, Underway, files
<1>4. ConfirmedStaysTrue'
  <2>. SUFFICES ASSUME NEW k \in Calls, Underway(k)', k \notin touched',
                       NEW n \in call'[k].targets
                PROVE  call'[k].dir = "pad" /\ Harmless(n)'
    BY DEF ConfirmedStaysTrue
  <2>1. Harmless(n)' = Harmless(n)
    BY HarmlessKept
  <2>2. CASE k = c
    BY <1>1, <2>1, <2>2
  <2>3. CASE k # c
    <3>1. Underway(k) /\ k \notin touched /\ n \in call[k].targets
      BY <1>1, <2>3 DEF Underway
    <3>. QED BY <1>1, <2>1, <2>3, <3>1 DEF IInv, ConfirmedStaysTrue
  <2>. QED BY <2>2, <2>3
<1>5. WritesStayInPad'
  BY DEF IInv, WritesStayInPad
<1>. QED BY <1>2, <1>3, <1>4, <1>5 DEF IInv

\* Two ways to write the same new record of a call.
LEMMA CallRecord ==
  ASSUME IInv, NEW c \in Calls
  PROVE  /\ call[c] \in [stage : Stages, event : EventDirs, dir : EventDirs,
                         targets : SUBSET DataNames]
         /\ \A s : [call EXCEPT ![c].stage = s]
                     = [call EXCEPT ![c] = [call[c] EXCEPT !.stage = s]]
BY DEF IInv, TypeOK

LEMMA ResolveStep == ASSUME IInv, NEW c \in Calls, ResolveDir(c) PROVE IInv'
<1>1. PICK s \in {"resolved", "classify"} :
        call' = [call EXCEPT ![c].stage = s]
  BY DEF ResolveDir, NoScratch
<1>. DEFINE r == [call[c] EXCEPT !.stage = s]
<1>2. r \in [stage : Stages, event : EventDirs, dir : EventDirs,
             targets : SUBSET DataNames]
  BY <1>1, CallRecord DEF Stages
<1>3. call' = [call EXCEPT ![c] = r]
  BY <1>1, CallRecord
<1>4. r.dir = "none" /\ r.targets = {}
  BY CallRecord DEF ResolveDir, IInv, AcceptedStaysPrivate
<1>5. UNCHANGED <<files, touched, strayed>>
  BY DEF ResolveDir
<1>. HIDE DEF r
<1>. QED BY <1>2, <1>3, <1>4, <1>5, CheckStep

LEMMA InspectStep == ASSUME IInv, NEW c \in Calls, InspectDir(c) PROVE IInv'
<1>. DEFINE dir == call[c].event
<1>1. /\ call[c].stage = "resolved" /\ call[c].dir = "none"
      /\ call[c].targets = {} /\ dir \in EventDirs
  BY CallRecord DEF InspectDir, IInv, AcceptedStaysPrivate
<1>2. UNCHANGED <<files, touched, strayed>>
  BY DEF InspectDir
<1>3. CASE privateDir(dir) /\ ~guarded(dir)
  <2>. DEFINE r == [call[c] EXCEPT !.stage = "classify", !.dir = dir]
  <2>1. call' = [call EXCEPT ![c] = r]
    BY <1>3, CallRecord DEF InspectDir
  <2>2. r \in [stage : Stages, event : EventDirs, dir : EventDirs,
               targets : SUBSET DataNames]
    BY <1>1, CallRecord DEF Stages
  <2>3. r.dir = dir /\ r.targets = {} /\ r.stage = "classify"
    BY <1>1, CallRecord
  <2>4. dir # "none" =>
          dir = "pad" /\ pad.real /\ pad.owner = "us" /\ ~pad.open
    BY <1>1, <1>3 DEF EventDirs, guarded, privateDir
  <2>. HIDE DEF r
  <2>. QED BY <1>2, <2>1, <2>2, <2>3, <2>4, CheckStep
<1>4. CASE ~(privateDir(dir) /\ ~guarded(dir))
  <2>. DEFINE r == [call[c] EXCEPT !.stage = "classify"]
  <2>1. call' = [call EXCEPT ![c] = r]
    BY <1>4, CallRecord DEF InspectDir, NoScratch
  <2>2. r \in [stage : Stages, event : EventDirs, dir : EventDirs,
               targets : SUBSET DataNames]
    BY CallRecord DEF Stages
  <2>3. r.dir = "none" /\ r.targets = {} /\ r.stage = "classify"
    BY <1>1, CallRecord
  <2>. HIDE DEF r
  <2>. QED BY <1>2, <2>1, <2>2, <2>3, CheckStep
<1>. QED BY <1>3, <1>4

LEMMA RedirectStep ==
  ASSUME IInv, NEW c \in Calls, NEW n \in Names, SafeRedirect(c, n)
  PROVE  IInv'
<1>1. UNCHANGED <<files, touched, strayed>> /\ call[c].stage = "classify"
  BY DEF SafeRedirect
<1>2. PICK writable \in ScratchWritable(c, n) :
        call' = IF call[c].dir # "none" /\ scratchTargetShapeOK(n) /\ writable
                  THEN [call EXCEPT ![c].targets = @ \cup {n}]
                  ELSE [call EXCEPT ![c] = Ended]
  BY DEF SafeRedirect
<1>3. CASE call[c].dir # "none" /\ scratchTargetShapeOK(n) /\ writable
  <2>. DEFINE r == [call[c] EXCEPT !.targets = @ \cup {n}]
  <2>1. call' = [call EXCEPT ![c] = r]
    BY <1>2, <1>3, CallRecord
  <2>2. r \in [stage : Stages, event : EventDirs, dir : EventDirs,
               targets : SUBSET DataNames]
    BY <1>3, CallRecord DEF scratchTargetShapeOK
  <2>3. /\ r.dir = call[c].dir /\ r.stage = "classify"
        /\ r.targets = call[c].targets \cup {n}
    BY <1>1, CallRecord
  <2>4. ASSUME c \notin touched
        PROVE  /\ call[c].dir = "pad"
               /\ pad.real /\ pad.owner = "us" /\ ~pad.open
               /\ \A m \in call[c].targets \cup {n} : Harmless(m)
    <3>1. Underway(c)
      BY <1>1 DEF Underway
    <3>2. call[c].dir = "pad" /\ pad.real /\ pad.owner = "us" /\ ~pad.open
      BY <1>3, <2>4, <3>1 DEF IInv, AcceptedStaysPrivate
    <3>3. scratchFileWritable(n)
      BY <1>3, <3>2 DEF ScratchWritable
    <3>4. Harmless(n)
      BY <1>3, <3>2, <3>3 DEF Harmless, scratchFileWritable, scratchTargetShapeOK
    <3>5. \A m \in call[c].targets : Harmless(m)
      BY <2>4, <3>1 DEF IInv, ConfirmedStaysTrue
    <3>. QED BY <3>2, <3>4, <3>5
  <2>. HIDE DEF r
  <2>. QED BY <1>1, <1>3, <2>1, <2>2, <2>3, <2>4, CheckStep
<1>4. CASE ~(call[c].dir # "none" /\ scratchTargetShapeOK(n) /\ writable)
  <2>1. call' = [call EXCEPT ![c] = Ended]
    BY <1>2, <1>4
  <2>2. Ended \in [stage : Stages, event : EventDirs, dir : EventDirs,
                   targets : SUBSET DataNames]
    BY DEF Ended, Stages, EventDirs
  <2>3. Ended.dir = "none" /\ Ended.targets = {}
    BY DEF Ended
  <2>. QED BY <1>1, <2>1, <2>2, <2>3, CheckStep
<1>. QED BY <1>3, <1>4

LEMMA AllowStep == ASSUME IInv, NEW c \in Calls, Allow(c) PROVE IInv'
<1>. DEFINE r == [call[c] EXCEPT !.stage = "allowed"]
<1>1. /\ UNCHANGED <<files, touched, strayed>>
      /\ call[c].stage = "classify" /\ Underway(c)
  BY DEF Allow, Underway
<1>2. call' = [call EXCEPT ![c] = r]
  BY CallRecord DEF Allow
<1>3. r \in [stage : Stages, event : EventDirs, dir : EventDirs,
             targets : SUBSET DataNames]
  BY CallRecord DEF Stages
<1>4. /\ r.dir = call[c].dir /\ r.targets = call[c].targets
      /\ r.stage = "allowed"
  BY CallRecord
<1>5. call[c].dir = "none" => call[c].targets = {}
  BY DEF IInv, AcceptedStaysPrivate
<1>6. c \notin touched /\ call[c].dir # "none" =>
        /\ call[c].dir = "pad"
        /\ pad.real /\ pad.owner = "us" /\ ~pad.open
        /\ \A n \in call[c].targets : Harmless(n)
  BY <1>1 DEF IInv, AcceptedStaysPrivate, ConfirmedStaysTrue
<1>. HIDE DEF r
<1>. QED BY <1>1, <1>2, <1>3, <1>4, <1>5, <1>6, CheckStep

-----------------------------------------------------------------------------
\* What a change of an entry does to the types.
LEMMA FilesTyped ==
  ASSUME TypeOK, NEW n \in Names, NEW m \in Names, NEW who \in Users,
         ChangeEntry(n, who) \/ LinkFile(n, m) \/ CreateFile(n, who)
  PROVE  /\ entry' \in [Names -> Entries]
         /\ inode' \in [Inodes -> [owner : Users, outside : BOOLEAN]]
<1>1. CASE CreateFile(n, who)
  BY <1>1 DEF CreateFile, TypeOK, Entries
<1>2. CASE ChangeEntry(n, who)
  BY <1>1, <1>2 DEF ChangeEntry, CreateFile, TypeOK, Entries
<1>3. CASE LinkFile(n, m)
  BY <1>3 DEF LinkFile, TypeOK
<1>. QED BY <1>1, <1>2, <1>3

LEMMA OpenStep ==
  ASSUME IInv, NEW c \in Calls, NEW n \in Names, OpenTarget(c, n)
  PROVE  IInv'
<1>. DEFINE dest == IF entry[n].kind = "symlink" THEN entry[n].to ELSE n
            creates == /\ call[c].dir = "pad" /\ pad.real
                       /\ dest \in Names /\ entry[dest] = Absent
<1>1. /\ call[c].stage = "allowed" /\ n \in call[c].targets
      /\ pad' = pad /\ touched' = touched
      /\ call' = [call EXCEPT ![c] = WithoutTarget(c, n)]
      /\ strayed' = IF call[c].dir = "pad" /\ Harmless(n) THEN strayed
                    ELSE strayed \cup {c}
      /\ \/ creates /\ CreateFile(dest, "us")
         \/ ~creates /\ UNCHANGED <<entry, inode>>
  BY DEF OpenTarget
<1>2. /\ call'[c] \in [stage : Stages, event : EventDirs, dir : EventDirs,
                       targets : SUBSET DataNames]
      /\ \A k \in Calls : k # c => call'[k] = call[k]
      /\ call' \in [Calls -> [stage : Stages, event : EventDirs,
                              dir : EventDirs, targets : SUBSET DataNames]]
      /\ call'[c] = Ended \/ /\ call'[c].stage = "allowed"
                             /\ call'[c].dir = call[c].dir
                             /\ call'[c].targets \subseteq call[c].targets
  <2>1. Ended \in [stage : Stages, event : EventDirs, dir : EventDirs,
                   targets : SUBSET DataNames]
    BY DEF Ended, Stages, EventDirs
  <2>2. WithoutTarget(c, n) \in [stage : Stages, event : EventDirs,
                                 dir : EventDirs, targets : SUBSET DataNames]
    BY <2>1, CallRecord DEF WithoutTarget
  <2>3. WithoutTarget(c, n) = Ended
          \/ /\ WithoutTarget(c, n).stage = "allowed"
             /\ WithoutTarget(c, n).dir = call[c].dir
             /\ WithoutTarget(c, n).targets \subseteq call[c].targets
    BY <1>1, CallRecord DEF WithoutTarget
  <2>. QED BY <1>1, <2>2, <2>3 DEF IInv, TypeOK
<1>3. Underway(c)
  BY <1>1 DEF Underway
<1>4. TypeOK'
  <2>1. /\ entry' \in [Names -> Entries]
        /\ inode' \in [Inodes -> [owner : Users, outside : BOOLEAN]]
    <3>1. CASE creates /\ CreateFile(dest, "us")
      BY <3>1, FilesTyped DEF IInv, Users
    <3>2. CASE UNCHANGED <<entry, inode>>
      BY <3>2 DEF IInv, TypeOK
    <3>. QED BY <1>1, <3>1, <3>2
  <2>2. strayed' \subseteq Calls
    BY <1>1 DEF IInv, TypeOK
  <2>. QED BY <1>1, <1>2, <2>1, <2>2 DEF IInv, TypeOK
<1>5. AcceptedStaysPrivate'
  <2>. SUFFICES ASSUME NEW k \in Calls
                PROVE  /\ call'[k].dir = "none" => call'[k].targets = {}
                       /\ call'[k].stage \in {"start", "resolved", "ended"}
                            => call'[k].dir = "none"
                       /\ Underway(k)' /\ k \notin touched' /\ call'[k].dir # "none"
                            => /\ call'[k].dir = "pad"
                               /\ pad'.real /\ pad'.owner = "us" /\ ~pad'.open
    BY DEF AcceptedStaysPrivate
  <2>1. CASE k # c
    BY <1>1, <1>2, <2>1 DEF IInv, AcceptedStaysPrivate, Underway
  <2>2. CASE k = c /\ call'[c] = Ended
    BY <2>2 DEF Ended, Underway
  <2>3. CASE k = c /\ call'[c] # Ended
    BY <1>1, <1>2, <1>3, <2>3 DEF IInv, AcceptedStaysPrivate
  <2>. QED BY <2>1, <2>2, <2>3
<1>6. ConfirmedStaysTrue'
  <2>. SUFFICES ASSUME NEW k \in Calls, Underway(k)', k \notin touched',
                       NEW q \in call'[k].targets
                PROVE  call'[k].dir = "pad" /\ Harmless(q)'
    BY DEF ConfirmedStaysTrue
  <2>1. Underway(k) /\ q \in call[k].targets /\ call'[k].dir = call[k].dir
    <3>1. CASE k # c
      BY <1>2, <3>1 DEF Underway
    <3>2. CASE k = c
      <4>1. call'[c] # Ended
        BY <3>2 DEF Ended, Underway
      <4>. QED BY <1>2, <1>3, <3>2, <4>1
    <3>. QED BY <3>1, <3>2
  <2>2. call[k].dir = "pad" /\ Harmless(q)
    BY <1>1, <2>1 DEF IInv, ConfirmedStaysTrue
  <2>3. q \in Names
    BY <2>1, CallRecord, NamesAssumption
  <2>4. CASE creates /\ CreateFile(dest, "us")
    BY <1>1, <2>1, <2>2, <2>3, <2>4, CreateKeeps DEF IInv
  <2>5. CASE UNCHANGED <<entry, inode>>
    BY <1>1, <2>1, <2>2, <2>5, HarmlessKept DEF files
  <2>. QED BY <1>1, <2>4, <2>5
<1>7. WritesStayInPad'
  <2>1. c \notin touched => call[c].dir = "pad" /\ Harmless(n)
    BY <1>1, <1>3 DEF IInv, ConfirmedStaysTrue
  <2>. QED BY <1>1, <2>1 DEF IInv, WritesStayInPad
<1>. QED BY <1>4, <1>5, <1>6, <1>7 DEF IInv

\* While this user changes something, no call underway is left untouched.
LEMMA UserStep == ASSUME IInv, UserChanges PROVE IInv'
<1>1. /\ touched' = touched \cup {c \in Calls : Underway(c)}
      /\ UNCHANGED <<call, strayed>>
  BY DEF UserChanges
<1>2. \A c \in Calls : Underway(c)' = Underway(c)
  BY <1>1 DEF Underway
<1>3. TypeOK'
  <2>1. /\ pad' \in PadStates
        /\ entry' \in [Names -> Entries]
        /\ inode' \in [Inodes -> [owner : Users, outside : BOOLEAN]]
    <3>1. CASE pad' \in PadStates /\ UNCHANGED <<entry, inode>>
      BY <3>1 DEF IInv, TypeOK
    <3>2. CASE /\ \E n, m \in Names : ChangeEntry(n, "us") \/ LinkFile(n, m)
               /\ UNCHANGED pad
      BY <3>2, FilesTyped DEF IInv, TypeOK, Users
    <3>. QED BY <3>1, <3>2 DEF UserChanges
  <2>. QED BY <1>1, <2>1 DEF IInv, TypeOK
<1>4. AcceptedStaysPrivate' /\ ConfirmedStaysTrue'
  BY <1>1, <1>2 DEF IInv, AcceptedStaysPrivate, ConfirmedStaysTrue
<1>5. WritesStayInPad'
  BY <1>1 DEF IInv, WritesStayInPad
<1>. QED BY <1>3, <1>4, <1>5 DEF IInv

\* Another user cannot change a directory that a call has accepted.
LEMMA OtherStep == ASSUME IInv, OtherChanges PROVE IInv'
<1>1. /\ pad.open \/ pad.owner = "other"
      /\ UNCHANGED <<call, touched, strayed>>
  BY DEF OtherChanges
<1>2. \A c \in Calls : Underway(c)' = Underway(c)
  BY <1>1 DEF Underway
<1>3. \A c \in Calls :
        Underway(c) /\ c \notin touched => call[c].dir = "none"
  BY <1>1 DEF IInv, AcceptedStaysPrivate
<1>4. TypeOK'
  <2>1. /\ pad' \in PadStates
        /\ entry' \in [Names -> Entries]
        /\ inode' \in [Inodes -> [owner : Users, outside : BOOLEAN]]
    <3>1. CASE /\ pad' \in {[pad EXCEPT !.open = b] : b \in BOOLEAN}
               /\ UNCHANGED <<entry, inode>>
      BY <3>1 DEF IInv, TypeOK, PadStates
    <3>2. CASE /\ \E n \in Names : ChangeEntry(n, "other")
               /\ UNCHANGED pad
      BY <3>2, FilesTyped DEF IInv, TypeOK, Users
    <3>. QED BY <3>1, <3>2 DEF OtherChanges
  <2>. QED BY <1>1, <2>1 DEF IInv, TypeOK
<1>5. AcceptedStaysPrivate'
  BY <1>1, <1>2, <1>3 DEF IInv, AcceptedStaysPrivate
<1>6. ConfirmedStaysTrue'
  BY <1>1, <1>2, <1>3 DEF IInv, AcceptedStaysPrivate, ConfirmedStaysTrue
<1>7. WritesStayInPad'
  BY <1>1 DEF IInv, WritesStayInPad
<1>. QED BY <1>4, <1>5, <1>6, <1>7 DEF IInv

LEMMA StutterStep == ASSUME IInv, UNCHANGED vars PROVE IInv'
<1>1. /\ UNCHANGED files /\ \A n : Harmless(n)' = Harmless(n)
      /\ \A c \in Calls : Underway(c)' = Underway(c)
  BY DEF vars, files, Harmless, OneLink, Underway
<1>. QED
  BY <1>1 DEF IInv, vars, TypeOK, AcceptedStaysPrivate, ConfirmedStaysTrue,
    WritesStayInPad

LEMMA InductiveStep == IInv /\ [Next]_vars => IInv'
BY ResolveStep, InspectStep, AllowStep, RedirectStep, OpenStep, UserStep,
   OtherStep, StutterStep DEF Next

LEMMA InvariantHolds == Spec => []IInv
BY InitHolds, InductiveStep, PTL DEF Spec

-----------------------------------------------------------------------------
\* Every variable has its type; a confirmed target has a data name
\* (scratch.go).
THEOREM TypeCorrect == Spec => []TypeOK
<1>1. IInv => TypeOK BY DEF IInv
<1>. QED BY <1>1, InvariantHolds, PTL

\* An allowed write changes one data file of the scratchpad and nothing else,
\* unless a process of this user came between check and open (scratch.go, the
\* residual stated in its header).
THEOREM WritesAreConfined == Spec => []WritesStayInPad
<1>1. IInv => WritesStayInPad BY DEF IInv
<1>. QED BY <1>1, InvariantHolds, PTL

\* What the hook confirmed stays true until bash uses it, whatever the other
\* calls of the session and other users do (scratchFileWritable).
THEOREM ConfirmationsHold == Spec => []ConfirmedStaysTrue
<1>1. IInv => ConfirmedStaysTrue BY DEF IInv
<1>. QED BY <1>1, InvariantHolds, PTL
=============================================================================
