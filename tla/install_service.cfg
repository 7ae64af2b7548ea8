CONSTANTS
  Bindings = {b1}
  Journals = {j1}
  NoJournal = NoJournal
  Digest = j1
  Binding = b1
  Controllers = {c1}
  MaxTampers = 1
SPECIFICATION Spec
INVARIANTS
  TypeOK
  RecordTellsTarget
  AnswersHold
  CancelledStaysOld
  LaunchedOnceAfterExit
CHECK_DEADLOCK FALSE
