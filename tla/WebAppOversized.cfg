SPECIFICATION FairSpec
CONSTANTS
  MaxVersion = 1
  MaxText = 1
INVARIANT OversizedUploadIsRefused
CHECK_DEADLOCK FALSE
