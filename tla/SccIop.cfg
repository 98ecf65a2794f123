SPECIFICATION Spec
CONSTANTS
  Boxes = {1, 2}
  Chunk = 2
  Lengths = {1, 4}
  MaxPosts = 2
  MaxStops = 1
INVARIANTS IopTypeOK NothingForgotten FrameIsWhole
PROPERTY FramesAreAnswered
CHECK_DEADLOCK FALSE
