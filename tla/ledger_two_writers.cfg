\* Two writers on every kind of record, retries, failures and late stamps.
SPECIFICATION Spec
CONSTANTS
  None = None
  Writers = {w1, w2}
  Records <- MCRecords
  MaxTime = 2
  MaxEvents = 3
CHECK_DEADLOCK FALSE
INVARIANTS
  TypeOK VerifiesIffInOrder OneEventPerKey RowsAreLogged
PROPERTIES
  BreakIsPermanent
