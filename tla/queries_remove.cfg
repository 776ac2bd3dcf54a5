CONSTANTS
  host = host  service = service  d1 = d1  d2 = d2
  Key = {host, service}
  Data = {d1}
  Ttl = {4}
  Bucket <- OneChain
  Shared = {service}
  SameSlot = {service}
  Never = Never
  GC = 15
  Env = {}
  MaxEvents = 4
SPECIFICATION Spec
INVARIANT RemovalWorks
