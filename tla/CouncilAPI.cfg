SPECIFICATION FairSpec
CONSTANTS
  MaxTasks = 1
  Plans = {p1, p2}
  BarePlan = bare
  NoPlan = noplan
  NoHash = nohash
  Starters = {s1, s2}
  MaxApprovals = 3
  HasCouncil = TRUE
  Faults = {"write", "crash"}
INVARIANTS SentWasApproved OneLiveApproval OnePlanPerTask CacheIsCurrent IInv
PROPERTIES StoredPlanIsImmutable FinalIsNotExecuted EventsFollowRow ImplementsGate
PROPERTIES StartIsAnswered AnalyzingEnds
