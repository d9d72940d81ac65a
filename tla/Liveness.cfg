\* The cron and a reviewer; two requests of a turn.
SPECIFICATION LivenessSpec
CONSTANTS
  Cands = {"c1"}
  Keys = {"k1"}
  Reviewers = {r1}
  r1 = r1
  Threshold = 2
  MaxRuns = 1
  MaxRequests = 2
  MaxFaults = 1
PROPERTY DemotionConverges
PROPERTY EventuallyAnswered
CHECK_DEADLOCK FALSE
