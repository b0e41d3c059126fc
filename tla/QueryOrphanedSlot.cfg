\* A stream dropped in its fetcher.
SPECIFICATION Spec
CONSTANTS
  Stream = {"s1", "s2"}
  MaxGen = 2
  MaxStarts = 3
  Flavours = {FALSE}
INVARIANTS SlotReleased
