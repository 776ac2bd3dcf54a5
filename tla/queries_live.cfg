CONSTANTS
  host = host  service = service  d1 = d1  d2 = d2
  Key = {host, service}
  Data = {d1}
  Ttl = {4, 22}
  Bucket <- OneChain
  Shared = {service}
  SameSlot = {host, service}
  Never = Never
  GC = 15
  Env = {"late", "short"}
  MaxEvents = 3
SPECIFICATION FairSpec
PROPERTIES
  QueryIsAsked
  EndIsTold
  SleepsAgain
