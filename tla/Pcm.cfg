\* Both directions of resampling and equal rates; chunks that hold whole frames
\* and chunks that do not.
SPECIFICATION Spec
CONSTANTS
  Rates = {1, 2, 3, 5}
  Channels = {1, 2, 3}
  Sizes = {4, 6}
  MaxFrames = 9
INVARIANTS
  ResampleFollowsReference
  SamplesAddUp
