\* Up to five stacks of four protocols, built by the tools.
CONSTANTS
  Protocol = {"ethernet", "ipv4", "ipv6", "bgpv6"}
  MaxStacks = 5
SPECIFICATION Spec
INVARIANTS
  StacksTypeOK
  OnlyFirstGrows
PROPERTIES
  ImplementsLayers
