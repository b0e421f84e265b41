SPECIFICATION Spec
CONSTANTS
  NPorts = 3
  Capacity = 4
  BurstMax = 2
  MaxArrivals = 3
PROPERTY QueueEmptied
