SPECIFICATION AllSpec
CHECK_DEADLOCK FALSE
CONSTANTS
  ChunkSize = 2
  GrowStep = 1
  FenceReserve = 1
  Commands = 3
  main = main
  second = second
  nobody = nobody
PROPERTIES
  CommandsSound FramesSound RendererGoesOn
