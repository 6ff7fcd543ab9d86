SPECIFICATION FairSpec
CONSTANTS
  MaxTasks = 1
  Plans = {p1}
  BarePlan = bare
  NoPlan = noplan
  NoHash = nohash
  Starters = {s1}
  MaxApprovals = 1
  HasCouncil = TRUE
  Faults = {"crash"}
PROPERTY InterruptedIsRecovered
