SPECIFICATION Spec
CONSTANTS
  t1 = t1
  t2 = t2
  t3 = t3
  mac1 = mac1
  mac2 = mac2
  ip1 = ip1
  Threads <- ThreeThreads
  Macs <- TwoMacs
  Ips <- OneIp
  SelfRead = "panic"
INVARIANTS
  TypeOK
  LocksMatch
  PoisonedTogether
  OnePanic
PROPERTIES
  IpLookupsEnd
  MacLookupsEnd
