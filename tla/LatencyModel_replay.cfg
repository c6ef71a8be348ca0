SPECIFICATION LatencySpec
CONSTANTS
  Seeds = {1, 2}
  FirstSeed = 1
  Clients = {c1}
  c1 = c1
  p1 = p1
  p2 = p2
  Profiles <- TwoProfiles
  FirstProfiles <- Constructed
  TailDraws <- SomeTailDraws
  MaxSamples = 2
INVARIANTS
  ReplayExact
