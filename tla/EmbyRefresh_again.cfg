SPECIFICATION Spec
CONSTANTS
  Item = {i1, i2}
  Lib = {lib}
  LibOf <- MCLibOf
  Source = {scan}
  Debounce = 1
  MaxWait = 2
  Threshold = 3
  MaxFaults = 0
PROPERTIES
  ReactivationLasts
