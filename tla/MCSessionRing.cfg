CONSTANTS
  Byte = {0, 1}
  Cap = 4
  MaxChunk = 5
SPECIFICATION Spec
PROPERTY RingImplementsWindow
