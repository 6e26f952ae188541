SPECIFICATION Spec
CONSTANTS
  MAXARGS = 3
  MaxLength = 5
  Characters = {120, 121}
  SPACE = 32
  Commands <- MCCommands
  BACKTRACE = 3
  Programs <- MCPrograms
  End <- MCEnd
  Tables <- MCTables
  Types <- MCTypes
  Stacks <- MCStacks
  Ebp = 1
INVARIANT
  FindsContainingStab
