SPECIFICATION Spec
CONSTANTS
  app = app
  v1 = v1
  v2 = v2
  b1 = b1
  b2 = b2
  amd = amd
  arm = arm
  multi = multi
  r1 = r1
  r2 = r2
  None = None
  Repos = {app}
  Tags = {v1, v2}
  Blobs = {b1, b2}
  Images = {amd, arm}
  Lists = {multi}
  Runs = {r1, r2}
  BlobsOf <- MCBlobsOf
  EntriesOf <- MCEntriesOf
  Source <- MCSource
INVARIANTS
  NoFailureMeansTags
CHECK_DEADLOCK FALSE
