CONSTANTS
  r1 = r1  r2 = r2  r3 = r3  k1 = k1  k2 = k2  d1 = d1  d2 = d2
  Rec = {r1, r2}
  Key = {k1}
  Data = {d1, d2}
  Nil = Nil  Empty = Empty  Gone = Gone  Other = Other
  Frame = 1
  PauseWait = 1  ProbeWait = 1  PublishWait = 2
  Env = {}
  MaxEvents = 1
SPECIFICATION FairSpec
PROPERTIES
  ProbingEnds
  OwedIsSent
  GoodbyeFinishes
  ShutdownExits
