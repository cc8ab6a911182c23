----------------------------- MODULE Scratchpad -----------------------------
(***************************************************************************)
(* Writes into the session's scratchpad (cmd/classify-bash/scratch.go,     *)
(* internal/engine/scratch.go): the hook checks the directory and the      *)
(* targets of a call when it classifies it, and bash opens the targets     *)
(* later.  Between any two of those system calls other calls of the        *)
(* session open their own targets, other processes of this user change     *)
(* what they like, and other users change what permissions let them.       *)
(*                                                                         *)
(* Abstracted: of the file system, the scratchpad directory, its entries   *)
(* and their inodes; all other places are one, where no call may write.    *)
(* Assumed: only this user may rename the directory itself, and others     *)
(* make no hard link to a file they do not own (fs.protected_hardlinks).   *)
(***************************************************************************)
EXTENDS Naturals

CONSTANTS
  Calls,      (* Bash calls of the session.                                *)
  Names,      (* Names at the top of the scratchpad.                       *)
  DataNames,  (* Those that are no dotfile and have a data extension.      *)
  Inodes,     (* Identities of files.                                      *)
  Elsewhere   (* Any place outside the scratchpad.                         *)

ASSUME NamesAssumption == DataNames \subseteq Names

\* What the event's scratchpad_dir is: nothing, or a path that is not clean,
\* deep or plain enough; one found to be, or to hold, $HOME or a working directory;
\* the session's scratchpad.
EventDirs == {"none", "guarding", "pad"}

VARIABLES
  pad,      (* The directory: its path has no symlink (real), its owner,   *)
            (* and whether group or world may write to it (open).          *)
  entry,    (* What each name in it is.                                    *)
  inode,    (* Of each file: its owner, and whether it has a name outside. *)
  call,     (* Each call: where it is, the event's directory, the one the  *)
            (* host accepted, and the targets it has confirmed, later the  *)
            (* ones bash has yet to open.                                  *)
  touched,  (* Calls during which another process of this user changed     *)
            (* something.                                                  *)
  strayed   (* Calls that wrote to anything but a data file of the pad     *)
            (* that has no other name.                                     *)

vars == <<pad, entry, inode, call, touched, strayed>>

files == <<pad, entry, inode>>

Users == {"us", "other"}

PadStates == [real : BOOLEAN, owner : Users, open : BOOLEAN]

Absent     == [kind |-> "absent", to |-> Elsewhere]
Special    == [kind |-> "special", to |-> Elsewhere]
Symlink(p) == [kind |-> "symlink", to |-> p]
File(i)    == [kind |-> "file", to |-> i]

Entries == {Absent, Special}
             \cup {Symlink(p) : p \in Names \cup {Elsewhere}}
             \cup {File(i) : i \in Inodes}

Stages == {"start", "resolved", "classify", "allowed", "ended"}

Waiting(dir) ==
  [stage |-> "start", event |-> dir, dir |-> "none", targets |-> {}]

\* A call that was left to the prompt or has opened all its targets.
Ended ==
  [stage |-> "ended", event |-> "none", dir |-> "none", targets |-> {}]

Init ==
  /\ pad \in PadStates
  /\ entry \in [Names -> {Absent}]
  /\ inode \in [Inodes -> [owner : {"us"}, outside : {FALSE}]]
  /\ call \in [Calls -> {Waiting(dir) : dir \in EventDirs}]
  /\ touched = {}
  /\ strayed = {}

-----------------------------------------------------------------------------
(***************************************************************************)
(* The hook's checks of one call.                                          *)
(***************************************************************************)

\* A file with one name (st_nlink = 1), which is n.
OneLink(n) ==
  /\ ~inode[entry[n].to].outside
  /\ \A m \in Names : entry[m] = entry[n] => m = n

\* Mutant: a hard link is not noticed.
scratchFileWritableLinked(n) ==
  \/ entry[n] = Absent
  \/ entry[n].kind = "file" /\ inode[entry[n].to].owner = "us"

\* The target is absent, or a regular file we own with exactly one link.
scratchFileWritable(n) ==
  \/ entry[n] = Absent
  \/ /\ entry[n].kind = "file"
     /\ inode[entry[n].to].owner = "us"
     /\ OneLink(n)

\* Where a call goes on without a scratchpad.
NoScratch(c) == call' = [call EXCEPT ![c].stage = "classify"]

\* validScratchDir up to EvalSymlinks.
ResolveDir(c) ==
  /\ call[c].stage = "start"
  /\ IF call[c].event \in {"guarding"} \cup (IF pad.real THEN {"pad"} ELSE {})
       THEN call' = [call EXCEPT ![c].stage = "resolved"]
       ELSE NoScratch(c)
  /\ UNCHANGED <<files, touched, strayed>>

\* Mutant: the mode of the directory is not looked at.
privateDirAnyMode(dir) == dir = "pad" => pad.real /\ pad.owner = "us"

\* What Lstat says of a directory: itself a directory, ours, not open.  Those
\* found guarding below are taken to be all of that.
privateDir(dir) == dir = "pad" => pad.real /\ pad.owner = "us" /\ ~pad.open

\* The path of $HOME or of a working directory begins with that of the directory.
\* Paths are compared as they are spelled: one that holds such a directory under
\* another spelling, a link in it, is not found, and is "pad" here.
guarded(dir) == dir = "guarding"

\* validScratchDir from Lstat on.
InspectDir(c) ==
  LET dir == call[c].event IN
  /\ call[c].stage = "resolved"
  /\ IF privateDir(dir) /\ ~guarded(dir)
       THEN call' = [call EXCEPT ![c].stage = "classify", ![c].dir = dir]
       ELSE NoScratch(c)
  /\ UNCHANGED <<files, touched, strayed>>

\* Mutant: the name of the target is not judged.
scratchTargetShapeAny(n) == n \in Names

\* A data file at the top of the directory; no dotfile, no configuration.
scratchTargetShapeOK(n) == n \in DataNames

\* What ScratchWritable may answer for a target at the top of the accepted
\* directory.  Where its path leads elsewhere, Lstat may find anything.
ScratchWritable(c, n) ==
  IF call[c].dir = "pad" /\ pad.real THEN {scratchFileWritable(n)} ELSE BOOLEAN

\* The walk meets a redirect to a name in the event's directory, and goes on if
\* it may be written; otherwise the call is left to the prompt.
SafeRedirect(c, n) ==
  /\ call[c].stage = "classify"
  /\ \E writable \in ScratchWritable(c, n) :
       call' = IF call[c].dir # "none" /\ scratchTargetShapeOK(n) /\ writable
                 THEN [call EXCEPT ![c].targets = @ \cup {n}]
                 ELSE [call EXCEPT ![c] = Ended]
  /\ UNCHANGED <<files, touched, strayed>>

\* The rest of the command is read-only, and the hook allows it.
Allow(c) ==
  /\ call[c].stage = "classify"
  /\ call[c].targets # {}
  /\ call' = [call EXCEPT ![c].stage = "allowed"]
  /\ UNCHANGED <<files, touched, strayed>>

-----------------------------------------------------------------------------
(***************************************************************************)
(* The file system.                                                        *)
(***************************************************************************)

Unused(i) == \A n \in Names : entry[n] # File(i)

\* n becomes a new regular file of who.
CreateFile(n, who) ==
  \E i \in Inodes :
    /\ Unused(i)
    /\ entry' = [entry EXCEPT ![n] = File(i)]
    /\ inode' = [inode EXCEPT ![i] = [owner |-> who, outside |-> FALSE]]

\* What the hook promised of n: a write there changes nothing but a data file
\* that is known by that name only.
Harmless(n) ==
  /\ n \in DataNames
  /\ pad.real
  /\ \/ entry[n] = Absent
     \/ entry[n].kind = "file" /\ inode[entry[n].to].owner = "us" /\ OneLink(n)

\* A call that has opened one of its targets.
WithoutTarget(c, n) ==
  IF call[c].targets = {n} THEN Ended
  ELSE [call[c] EXCEPT !.targets = call[c].targets \ {n}]

\* bash opens a target of an allowed call (O_CREAT): an absent file is created,
\* also at the end of a symlink, and an existing one written to.
OpenTarget(c, n) ==
  LET dest == IF entry[n].kind = "symlink" THEN entry[n].to ELSE n IN
  /\ call[c].stage = "allowed"
  /\ n \in call[c].targets
  /\ call' = [call EXCEPT ![c] = WithoutTarget(c, n)]
  /\ strayed' = IF call[c].dir = "pad" /\ Harmless(n) THEN strayed
                ELSE strayed \cup {c}
  /\ \/ /\ call[c].dir = "pad" /\ pad.real
        /\ dest \in Names /\ entry[dest] = Absent
        /\ CreateFile(dest, "us")
     \/ /\ ~ /\ call[c].dir = "pad" /\ pad.real
             /\ dest \in Names /\ entry[dest] = Absent
        /\ UNCHANGED <<entry, inode>>
  /\ UNCHANGED <<pad, touched>>

\* Someone who may write to the directory changes the entry of n.
ChangeEntry(n, who) ==
  \/ /\ entry' \in {[entry EXCEPT ![n] = e] :
                      e \in {Absent, Special}
                              \cup {Symlink(p) : p \in Names \cup {Elsewhere}}}
     /\ UNCHANGED inode
  \/ entry[n] = Absent /\ CreateFile(n, who)

\* A file gets a second name: n, for the file m names, or one outside.
LinkFile(n, m) ==
  /\ entry[m].kind = "file"
  /\ \/ /\ entry' = [entry EXCEPT ![n] = entry[m]]
        /\ UNCHANGED inode
     \/ /\ inode' = [inode EXCEPT ![entry[m].to].outside = TRUE]
        /\ UNCHANGED entry

\* A call has begun to look at the file system and not opened all its targets.
Underway(c) == call[c].stage \in {"resolved", "classify", "allowed"}

\* Another process of this user: a command approved at the prompt, an editor.
UserChanges ==
  /\ \/ pad' \in PadStates /\ UNCHANGED <<entry, inode>>
     \/ /\ \E n, m \in Names : ChangeEntry(n, "us") \/ LinkFile(n, m)
        /\ UNCHANGED pad
  /\ touched' = touched \cup {c \in Calls : Underway(c)}
  /\ UNCHANGED <<call, strayed>>

\* Another user, where the directory is open or theirs.
OtherChanges ==
  /\ pad.open \/ pad.owner = "other"
  /\ \/ /\ pad.owner = "other"
        /\ pad' \in {[pad EXCEPT !.open = b] : b \in BOOLEAN}
        /\ UNCHANGED <<entry, inode>>
     \/ /\ \E n \in Names : ChangeEntry(n, "other")
        /\ UNCHANGED pad
  /\ UNCHANGED <<call, touched, strayed>>

Next ==
  \/ \E c \in Calls : ResolveDir(c) \/ InspectDir(c) \/ Allow(c)
  \/ \E c \in Calls, n \in Names : SafeRedirect(c, n) \/ OpenTarget(c, n)
  \/ UserChanges
  \/ OtherChanges

Spec == Init /\ [][Next]_vars

-----------------------------------------------------------------------------
\* Every variable has its type.
TypeOK ==
  /\ pad \in PadStates
  /\ entry \in [Names -> Entries]
  /\ inode \in [Inodes -> [owner : Users, outside : BOOLEAN]]
  /\ call \in [Calls -> [stage : Stages, event : EventDirs, dir : EventDirs,
                         targets : SUBSET DataNames]]
  /\ touched \subseteq Calls
  /\ strayed \subseteq Calls

\* A write the hook allowed changes a data file of the scratchpad that has no
\* other name, and nothing else, unless another process of this user changed
\* something between the check and bash's open: "a process racing to swap the
\* target ... is not prevented.  Anything able to do that already runs code as
\* this user" (scratch.go).  Neither other users nor the session's own allowed
\* calls, however they interleave, carry a write elsewhere.
WritesStayInPad == strayed \subseteq touched

\* What the hook confirmed of a target stays true until bash opens it, or this
\* user changes something: the answer of Lstat does not age by itself (osHost,
\* scratchFileWritable).
ConfirmedStaysTrue ==
  \A c \in Calls : Underway(c) /\ c \notin touched =>
    \A n \in call[c].targets : call[c].dir = "pad" /\ Harmless(n)
=============================================================================
