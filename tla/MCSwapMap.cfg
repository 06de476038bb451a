SPECIFICATION Spec
CONSTANTS
  Slot = {p1, p2, p3}
  Sizes = {1, 2, 3}
  SwapAddr = 1
  SwapSize = 8
  MapSize = 10
INVARIANTS MapInOrder
PROPERTIES Implements
