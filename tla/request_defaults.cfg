\* Two requests at a time, with or without arguments and headers for two texts and an integer.
CONSTANTS
  Req = {r1, r2}
  Field = {"host", "port", "user"}
  IntField = {"port"}
  CliGiven = {"host"}
  EnvGiven = {"host", "port"}
SPECIFICATION Spec
INVARIANTS
  DefaultsTypeOK
  OwnDefaults
