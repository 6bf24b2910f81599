SPECIFICATION Spec
CONSTANTS
  NClasses = 4
  SizeTable <- MCSizeTable
  AllocSizes = {1, 3, 8, 17}
  MaxFilled = 24
  MaxFrags = 17
  Leg = "jit"
INVARIANTS FitsWithoutFragments 
PROPERTIES GcMakesRoom
