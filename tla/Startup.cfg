\* Two scannable files and one sensitive one, eleven machines, 24 command lines.
SPECIFICATION Spec
CONSTANTS
  File = {secret, f1, f2, picture}
  Sensitive = {secret}
  Scannable = {f1, f2}
  Hosts <- SomeHosts
  Options <- SomeOptions
INVARIANTS TypeOK SandboxHasBwrap WallsAsPromised WritesAreScanned ExclusionsHonest
PROPERTY ImplementsLifecycle
CHECK_DEADLOCK FALSE
