SPECIFICATION FairSpec
CONSTANTS
  up1 = up1
  up2 = up2
  del = del
  read = read
  path = path
  Absent = Absent
  Drivers = {"local", "ftp", "s3"}
  Uploads = {up1, up2}
  Deletes = {del}
  Reads = {read}
  Names = {path}
  NameOf <- OnePath
  SizeOf <- Sizes
  Faults = TRUE
  MaxCalls = 3
INVARIANT TypeOK TornHasCause QuietReadsAreWhole NoConnectionLeaks
PROPERTY OkMeansWhole S3IsAtomic SilentAfterReturn CopierEnds
CHECK_DEADLOCK FALSE
