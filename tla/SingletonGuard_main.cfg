SPECIFICATION FairSpec
CONSTANTS
  Proc = {p1, p2, p3}
  NoPid = NoPid
INVARIANTS
  TypeOK
  ExclusiveUnlessDisturbed
  PidFileNamesOwner
PROPERTIES
  StaleFileRecovered
