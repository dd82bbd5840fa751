SPECIFICATION FairSpec
CONSTANTS
  u1 = u1  u2 = u2  u3 = u3
  images = images  files = files
  Uploads <- MCUploads
  Owners <- MCOwners
  OwnerOf <- MCOwnerOf
  MaxFailures = 2
  MaxCrashes = 1
INVARIANTS TypeOK HeldNotLost StuckStaysStuck
PROPERTIES NoWriteAfterSeal EvidenceKept  OrphansGo
CHECK_DEADLOCK FALSE
