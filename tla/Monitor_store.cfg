CONSTANTS
  Nil = Nil
  StartEpoch = 0
  MaxEpoch = 2
  MapRoots = {0, 1}
  MutSets = {0, 1}
  Apply <- MCApply
SPECIFICATION Spec
INVARIANT TypeOK
INVARIANT StoreFaithful
PROPERTY AllEpochsStored
CHECK_DEADLOCK FALSE
PROPERTY ImplementsAbstract
