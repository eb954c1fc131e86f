SPECIFICATION Spec
\* Two writers on one entry; w2 rotates the key. Updates end, so the
\* system stops once every writer is done and the queue is drained.
CONSTANTS
  w1 = w1
  w2 = w2
  k1 = k1
  k2 = k2
  None = None
  Writers <- MCWriters
  Keys <- MCKeys
  InitKeys <- MCInitKeys
  Signers <- MCSigners
  RetryCount = 1
INVARIANT TypeOK SubmittedAuthorized SuccessApplied
CHECK_DEADLOCK FALSE
