CONSTANTS
  UserData <- MCUserDataBlankKey
  Sids <- MCSids
  SubBytes <- MCSubBytes
  Keys <- MCKeys
  KeyMask <- MCMask
  FixedSeed <- MCSeed
  LenWord = 256
  ByteWord = 8
  MaxRequests = 6
SPECIFICATION Spec
\* The tester stops sending after MaxRequests requests; the server idles.
CHECK_DEADLOCK FALSE
PROPERTY LockoutEnforced
