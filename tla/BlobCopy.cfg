SPECIFICATION FairSpec
CONSTANTS
  c1 = c1
  c2 = c2
  b1 = b1
  Mounts = TRUE
  Copies = {c1, c2}
  Blobs = {b1}
  BlobOf <- MCBlobOf
  MaxAttempts <- MCMaxAttempts
INVARIANTS
  TypeOK
  EndedMeansThere
  LeakBounded
PROPERTIES
  CopiesAtomically
  CopyEnds
  StopEndsRetries
CHECK_DEADLOCK FALSE
