SPECIFICATION Spec
CONSTANTS
  h1 = h1 h2 = h2 s1 = s1 s2 = s2
  Helices = {h1, h2}
  NoHelix = NoHelix
  Sockets = {s1, s2}
INVARIANTS TypeOK FatalOnlyOnReAdd InsertedOnce Linked CreateNeverNull CallbackTargetAlive
PROPERTY Settles
CHECK_DEADLOCK FALSE
