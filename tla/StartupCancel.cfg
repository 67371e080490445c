\* One scannable file and one sensitive one; the buyer may cancel the editor.
SPECIFICATION Spec
CONSTANTS
  File = {secret, f1}
  Sensitive = {secret}
  Scannable = {f1}
  Hosts <- SomeHosts
  Options <- SomeOptions
INVARIANT CancelKeeps
CHECK_DEADLOCK FALSE
