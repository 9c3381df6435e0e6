SPECIFICATION FairSpec
CONSTANTS
  Procs = {p, q}
  Ids = {x, y}
  None = None
  MaxVersion = 2
INVARIANTS TypeOK OneIdentity SafetyNet DaemonReachable
PROPERTIES PeersLinear NamesHeal
