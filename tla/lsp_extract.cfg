\* A Python project of three files; at most two requests fail while the server lives.
SPECIFICATION Spec
CONSTANTS
  Entries <- ProjectEntries
  ExcludeDirs = {"vendor"}
  ExcludeSuffixes = {}
  Symbols <- ProjectSymbols
  Stem <- ProjectStem
  OutgoingCalls <- ProjectCalls
  Syntax <- ProjectSyntax
  Tables <- ProjectTables
  Rules <- ProjectRules
  Inherits = TRUE
  Python = TRUE
  MaxLosses = 2
  None = None
INVARIANTS
  ExactWhenAnswered
  EndsAreDefined
  LostFileUnderModule
PROPERTIES
  Finishes
CHECK_DEADLOCK FALSE
