CONSTANTS
  Ports <- MCPorts
  Irqs <- MCIrqs
  BiosMasks <- MCMasks
SPECIFICATION BootFairSpec
INVARIANTS HandlersInPlace
PROPERTY InterruptsServed
