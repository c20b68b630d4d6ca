\* A ring of four slots fed until it has wrapped twice, with two readers.
CONSTANTS
  HistorySize = 4
  Readers = {r1, r2}
  NoReader = NoReader
  MaxUpdates = 8
SPECIFICATION FairSpec
INVARIANTS
  RingHoldsWindow
  DumpFits
  LastNotOlder
PROPERTIES
  DumpReturns
  WindowSpec
