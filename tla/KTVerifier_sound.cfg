CONSTANTS
  u1 = u1
  d1 = d1
  d2 = d2
  Empty = Empty
  Garbage = Garbage
  NoProof = NoProof
  None = None
  Users <- MCUsers
  Data <- MCData
  MaxRev = 2
  MaxRoots = 3
  ServerHonest = FALSE
SPECIFICATION Spec
INVARIANT TypeOK
INVARIANT ResultSound
