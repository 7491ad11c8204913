\* Sessions in pass-through mode and with frames of 3 bytes, fed chunks of
\* 1 to 4 bytes: chunks smaller than, equal to and larger than a frame,
\* and chunks that complete a partly filled frame, all occur.
CONSTANTS
  OutLens = {0, 3}
  MaxChunk = 4
  StreamLen = 10
SPECIFICATION Spec
INVARIANT TypeOK NothingLost
PROPERTY FramesInOrder
