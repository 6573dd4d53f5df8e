CONSTANT MaxChunks <- MCMaxChunks
SPECIFICATION Spec
INVARIANT SelectLoserFlushed
CHECK_DEADLOCK FALSE
