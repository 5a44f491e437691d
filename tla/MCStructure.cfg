SPECIFICATION Spec
CONSTANTS
  NumBlocks = 5
  Free = 4
  FreeAround = 3
  Jumpers = {1, 2}
INVARIANTS FlowKept PrintedFlowKept
PROPERTIES Printed
