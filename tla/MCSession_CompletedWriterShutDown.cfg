CONSTANT MaxChunks <- MCMaxChunks
SPECIFICATION Spec
INVARIANT CompletedWriterShutDown
CHECK_DEADLOCK FALSE
