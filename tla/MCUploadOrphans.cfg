SPECIFICATION SafeSpec
CONSTANTS
  u1 = u1
  u2 = u2
  u3 = u3
  Uploads <- MCTwo
  WebUploads <- MCWeb
  MaxUploads = 1
  ChunkLimit = 2
  MaxChunks = 3
  Causes = {"connect"}
PROPERTY
  ErrorStopsCalls
