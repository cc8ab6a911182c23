\* One entry of every shape, and every word it may be given.
SPECIFICATION CommandSpec
CONSTANTS
  leaf = leaf
  bare = bare
  reader = reader
  parent = parent
  wrap = wrap
  xargs = xargs
  awk = awk
  find = find
  plain = plain
  valued = valued
  optional = optional
  offset = offset
  alien = alien
  other = other
  Specs <- MCSpecs
  Whitelisted = {leaf, reader, parent, xargs, awk, find}
  Table <- MCTable
  Opts = {plain, valued, optional, offset, alien}
  Arity <- MCArity
  Other = other
  MaxNodes = 4
INVARIANTS TypeOK OptionsVetted UnseenOnlyToDataSafe NothingLeftOpen ProgramsVetted
CHECK_DEADLOCK FALSE
