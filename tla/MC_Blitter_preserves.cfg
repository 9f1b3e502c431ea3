CONSTANTS
  Units = {0, 1}
  Viewports = {0, 1}
  MaxAppCalls = 3
SPECIFICATION Spec
PROPERTY BlitPreservesState
