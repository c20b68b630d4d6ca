CONSTANTS
  Predictions = {p1}
  Models = {m1}
  Apps = {a1}
  Engine = Engine
  Main = Main
  NoThread = NoThread
  NoCall = NoCall
  Environment <- NullLists
  MaxAttached = 1
SPECIFICATION Spec
INVARIANT
  NoCrash
CHECK_DEADLOCK FALSE
