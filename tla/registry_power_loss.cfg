CONSTANTS
  Bindings = {b1}
  Journals = {j1}
  NoJournal = NoJournal
SPECIFICATION Spec
INVARIANTS
  TypeOK
  NextSucceedsLeaf
  NeverOlderThanSynced
