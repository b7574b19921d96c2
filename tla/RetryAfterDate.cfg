SPECIFICATION EnvelopeSpec
CONSTANTS
  Hints = {2}
  Later = {2}
  Months = {0, 2, 5}
  MaxTries = 2
  Nothing = Nothing
CHECK_DEADLOCK FALSE
INVARIANT DatesHonoured
