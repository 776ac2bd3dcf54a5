SPECIFICATION Spec
CONSTANTS
  Group0 = 2
  Docs <- MCDocs
  Sizes <- MCSizes
  InitBuffer = 2
INVARIANT ChunkingInvisible
INVARIANT BufferHoldsRest
INVARIANT TreeFollowsTags
INVARIANT PrintedIsRead
CHECK_DEADLOCK FALSE
