SPECIFICATION Spec
CONSTANTS
  Builds = {1, 2, 3}
  None = None
INVARIANTS
  ReadyIsOne
PROPERTIES
  InstallAsked
  ImplementsInstallation
  OperationsEnd
