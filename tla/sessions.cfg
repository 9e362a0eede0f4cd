CONSTANTS
  Codes = {1, 2}
  Devices = {d1, d2}
  Pairs = {1, 2, 3}
  Workers = {w1, w2}
  MaxAttempts = 2
  MaxVersion = 2
  MaxLost = 1
  NoDevice = NoDevice
  NoCode = NoCode
  NoPair = NoPair
SYMMETRY Symmetry
SPECIFICATION Spec
INVARIANTS
  TypeOK
  OneLoginPerCode
  TriesCounted
PROPERTIES
  RotatedOnce
  KeepsOneHolder
