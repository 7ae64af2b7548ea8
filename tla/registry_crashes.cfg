CONSTANTS
  Bindings = {b1}
  Journals = {j1}
  NoJournal = NoJournal
SPECIFICATION ProcessSpec
PROPERTY
  ImplementsRegister
