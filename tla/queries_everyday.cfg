CONSTANTS
  host = host  service = service  d1 = d1  d2 = d2
  Key = {host, service}
  Data = {d1, d2}
  Ttl = {4, 22}
  Bucket <- OneChain
  Shared = {service}
  SameSlot = {service}
  Never = Never
  GC = 15
  Env = {}
  MaxEvents = 3
SPECIFICATION Spec
SYMMETRY Symmetry
INVARIANTS
  TypeOK
  LinkedToLive
  CheckqlistCovers
  ToldIsFresh
  RetriedBeforeEnd

  
