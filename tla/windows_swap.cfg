CONSTANTS
  Transactions = {t1, t2}
  Recoverers = {r1}
  MaxChanges = 1
SPECIFICATION Spec
INVARIANTS
  TypeOK
  MissingTargetIsCovered
  JournalIsUnderLock
  SettledTreeIsFinal
  CrashesStayRecoverable
PROPERTIES
  BackupGoesLast
CHECK_DEADLOCK FALSE
