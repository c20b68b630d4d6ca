CONSTANTS
  Predictions = {p1, p2}
  Models = {m1}
  Apps = {a1}
  Engine = Engine
  Main = Main
  NoThread = NoThread
  NoCall = NoCall
  Environment <- AnyHabit
  MaxAttached = 2
SPECIFICATION Spec
INVARIANTS
  NoUseAfterFree
PROPERTIES
  ConfigStable
  ApiSpec
CHECK_DEADLOCK FALSE
