SPECIFICATION Spec
CONSTANTS
  Width = 14
  MemorySize = 30
  Texts <- MCTexts
  Stoi <- MCStoi
  LongNames = {"a_name_of_more_than_16"}
  CommandLines <- MCCommandLines
INVARIANT TypeOK
INVARIANT RoomKept
INVARIANT AssembledSoFar
INVARIANT LoadedSoFar
INVARIANT InstructionsAsWritten
INVARIANT LabelsAsDefined
INVARIANT VariablesAsDeclared
INVARIANT LinesInOrder
INVARIANT ImmediatesExact
INVARIANT AbortsExactly
PROPERTY WrittenOnce
