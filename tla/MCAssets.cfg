CONSTANTS
  c1 = c1
  c2 = c2
  c3 = c3
  Checksums = {c1, c2, c3}
  Streams = {"none", "one"}
  UploadMax = 1
  VideoMax = 1
  ImageMax = 2
  Uploads = {a1}
  Tasks = {t1, t2, t3}
  Cleaners = {k1, k2}
  NoFile = NoFile
  NoRow = NoRow
  NoAsset = NoAsset
  NoTask = NoTask
  Contents <- All
  Offers <- Uploaded
  Undeletable = {t3}
  Limit = 2
  Slots = 1
  MaxFaults = 1
SPECIFICATION Spec
INVARIANTS
  AssetsInv
  HandedOver
  DeletedIsGone
CHECK_DEADLOCK FALSE
PROPERTIES
  ReleasedIsDeleted
