CONSTANTS
  NSim = 3
SPECIFICATION Spec
INVARIANT PolicyRunsRegardless
