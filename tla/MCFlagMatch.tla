----------------------------- MODULE MCFlagMatch -----------------------------
(***************************************************************************)
(* CommandMatch over one entry of each shape commands.go has: a leaf that  *)
(* takes operands (journalctl), one that takes none, a reader that is safe *)
(* under any argv (cat), a command with subcommands (git, nix), a wrapper  *)
(* below it (nix shell), xargs, awk, find.                                 *)
(***************************************************************************)
EXTENDS CommandMatch

CONSTANTS leaf, bare, reader, parent, wrap, xargs, awk, find,
          plain, valued, optional, offset, alien, other

MCSpecs == {leaf, bare, reader, parent, wrap, xargs, awk, find}

MCArity == [o \in Opts |-> CASE o = valued   -> "required"
                             [] o = optional -> "optional"
                             [] o = offset   -> "offset"
                             [] OTHER        -> "none"]

\* Of an entry: its style, flags and subcommands, and what it accepts.
E(s, f, c, pos, safe) ==
  [style |-> s, flags |-> f, subcommands |-> c,
   anyPositional |-> pos, dataSafe |-> safe]

MCTable ==
  [s \in MCSpecs |->
     CASE s = leaf   -> E("gnu", {plain, valued, optional, offset}, {}, TRUE, FALSE)
       [] s = bare   -> E("gnu", {plain, valued}, {}, FALSE, FALSE)
       [] s = reader -> E("gnu", {plain, valued}, {}, TRUE, TRUE)
       [] s = parent -> E("gnu", {plain, valued}, {leaf, bare, wrap}, FALSE, FALSE)
       [] s = wrap   -> E("wrapper", {plain, valued}, {}, TRUE, FALSE)
       [] s = xargs  -> E("xargs", {plain, valued}, {}, FALSE, FALSE)
       [] s = awk    -> E("awk", {valued}, {}, FALSE, FALSE)
       [] s = find   -> E("find", {plain, valued}, {}, FALSE, FALSE)]
=============================================================================
