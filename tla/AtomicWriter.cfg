SPECIFICATION Spec
CONSTANTS
  Writer = {w1, w2}
  Value = {v1, v2}
  NoFile = NoFile
  Partial = Partial
  Nobody = Nobody
  MaxRetries = 2
INVARIANTS
  TypeOK
  LossIsKnown
PROPERTY ImplementsAtomicFile
