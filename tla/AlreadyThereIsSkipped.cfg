SPECIFICATION Spec
CONSTANTS
  c1 = c1
  c2 = c2
  b1 = b1
  Mounts = TRUE
  Copies = {c1, c2}
  Blobs = {b1}
  BlobOf <- MCBlobOf
  MaxAttempts <- MCMaxAttempts
INVARIANTS
  AlreadyThereIsSkipped
CHECK_DEADLOCK FALSE
