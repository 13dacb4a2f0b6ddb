SPECIFICATION FairSpec
CONSTANTS
  Errors = TRUE
  MaxItems = 3
  MaxSeeks = 1
INVARIANTS TypeOK OnePusher InOrderUnlessStranded AtMostTwoStale AtMostOneAfterError
PROPERTIES PauseReturns ItemsLeave
