CONSTANTS
  Predictions = {p1}
  Models = {m1}
  Apps = {a1}
  Engine = Engine
  Main = Main
  NoThread = NoThread
  NoCall = NoCall
  Environment <- RunDry
  MaxAttached = 1
SPECIFICATION FairSpec
PROPERTY
  TeardownReturns
CHECK_DEADLOCK FALSE
