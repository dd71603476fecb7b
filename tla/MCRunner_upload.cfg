\* Uploads: two images, one a prefix of the other, retransmitted and
\* overlapping chunks, and a workload that scribbles behind its image.
SPECIFICATION Spec
CONSTANTS
  StagingSize = 2
  Byte = {0, 1}
  MaxStaged = 3
  LateCompletion = FALSE
  Workloads <- OneImage
  SramWorkloads <- OneImage
  ZeroPower <- OneImage
  EventSets = {0}
  EffectiveSlots = 0
  MaxRuns = 1
  MaxConfigs = 0
  Sends <- UploadSends
  Seqs = {1, 2}
  Chunks <- ShortChunks
  Images <- LongImages
  MaxBoots = 0
INVARIANTS
  ModelIntact
PROPERTY
  RetransmissionIsIdempotent
