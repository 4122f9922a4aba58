SPECIFICATION Spec
CONSTANTS
  Base = 4
  Types <- Messages
  Type <- MessageType
  Values <- SampleValues
  Streams <- ShortStreams
  Depth <- SampleDepth
  MaxDepth <- TypeDepth
  Enc <- EncodeCall
  Dec <- DecodeCall
  New <- ZeroCall
  Has <- HasTypeCall
  Shape <- HasShapeCall
  Size <- EntriesSizeCall
INVARIANTS TypeOK RoundTrip CutRefused PageMeasured Remeasured
CHECK_DEADLOCK FALSE
