CONSTANTS
  Callers = {c1, c2, c3}
  MaxReaders = 2
  MaxCalls = 4
SPECIFICATION Spec
INVARIANTS HeldNotCancelled NoNilCancel CancelledWhenUnused
PROPERTIES NoReaderLeaked
