SPECIFICATION Spec
CONSTANTS
  Worker = {w1, w2}
  w1 = w1
  w2 = w2
  Table <- MCTable
  Combo <- MCCombo
  AltF4 <- MCAltF4
  NoKey = NoKey
  GARBAGE = GARBAGE
  KeyUnknown = "KeyUnknown"
  Key_unknown = Key_unknown
  InvalidKey = "InvalidKey"
SYMMETRY Symmetry
INVARIANTS
  TypeOK
  GrabbedWhileWaiting
  GreenIsSent
  KeysAreHeld
  TypesWhatIsAsked
