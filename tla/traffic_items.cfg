\* Two agents on one connection, up to two traffic items with two names.
CONSTANTS
  Name = {n1, n2}
  Href = {x1, x2}
  NoName = NoName
  Blank = Blank
  MaxWrites = 2
  Agent = {a1, a2}
SPECIFICATION Spec
SYMMETRY MCSymmetry
INVARIANT TrafficTypeOK
PROPERTIES
  ImplementsAtomic
  RetryHarmless
