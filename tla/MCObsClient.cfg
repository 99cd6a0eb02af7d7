SPECIFICATION FairSpec
CONSTANTS
  Nil = Nil
  Conns = {c1, c2, c3}
INVARIANTS
  OneConnection
  SuccessHolds
PROPERTIES
  CallReturns
  FlagHeals
  ImplementsObsContract
