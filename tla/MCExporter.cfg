CONSTANTS
  Designs <- MCDesigns
  Requests <- MCRequests
  NoSidecar = NoSidecar
  MaxExports = 3
SPECIFICATION Spec
INVARIANT ExporterTypeOK
INVARIANT RefusalWritesNothing
INVARIANT ReturnMeansWritten
INVARIANT EveryFindingRouted
INVARIANT WrapperNotNewer
INVARIANT SidecarNotNewer
CHECK_DEADLOCK FALSE
