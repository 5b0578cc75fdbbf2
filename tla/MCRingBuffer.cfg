SPECIFICATION Spec
CONSTANTS
  Capacity = 4
  Zero = 0
  Byte <- MCByte
  Chunks <- MCChunks
INVARIANT TypeOK
PROPERTIES AppendKeepsNewest ImplementsScrollback
