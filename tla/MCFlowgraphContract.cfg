CONSTANTS
  Predictions = {p1, p2}
  Models = {m1}
  Apps = {a1, a2}
  Engine = Engine
  Main = Main
  NoThread = NoThread
  NoCall = NoCall
  Environment <- Contract
  MaxAttached = 2
SPECIFICATION FairSpec
INVARIANTS
  TickReleases
  NoCrash
  OneTimeServed
PROPERTIES
  CallsReturn
  KeepsDeciding
