\* Cron and inbox in processes of their own.
SPECIFICATION Spec
CONSTANTS
  Cands = {"c1"}
  Keys = {"k1"}
  Reviewers = {r1}
  r1 = r1
  Threshold = 1
  MaxRuns = 1
  MaxRequests = 2
  MaxFaults = 0
PROPERTY TerminalStaysAlways
