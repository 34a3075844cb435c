SPECIFICATION FairSpec
CONSTANTS
  MaxResponseBody = 2
  MaxOtherBody = 2
  MaxBody = 5
INVARIANTS TypeOK ReadsBounded SuccessIsWhole TooLargeIsLarge ShortRestKeepsConnection
PROPERTIES DefaultCallsReturn
