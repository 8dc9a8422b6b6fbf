SPECIFICATION Spec
CONSTANTS
  Proc = {p1, p2, p3}
  NoPid = NoPid
INVARIANT MutualExclusion
