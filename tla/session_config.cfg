\* Two ports, topologies and device groups, with two names for each.
CONSTANTS
  PortName = {1, 2}
  TopologyName = {t1, t2}
  GroupName = {g1, g2}
  NoName = NoName
  MaxPairs = 2
  MaxPorts = 2
  MaxTopologies = 2
  MaxGroups = 2
  MaxLoaded = 1
SPECIFICATION Spec
SYMMETRY MCSymmetry
INVARIANTS
  ConfigTypeOK
  RetryAddsNothing
  RetryConverges
  OkMeansAll
  CleanSlate
