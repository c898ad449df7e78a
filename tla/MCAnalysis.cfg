CONSTANTS
  Absent = Absent
  NumActions = 3
  MaxDepth = 2
  MaxFiles = 4
  Identifiers <- MCIdentifiers
  Numerals <- MCNumerals
  Inputs <- MCInputs

SPECIFICATION Spec
INVARIANTS
  IncludesEnd
  CyclesReported
  RootsPrevail
  ExtendsFlat
  GraphOrdersServices
  CleanReportIsSound
  SummaryTellsWhatIsPlanned
  SummaryCanBeParsed
