SPECIFICATION Spec
CONSTANTS
  u1 = u1
  u2 = u2
  u3 = u3
  Uploads <- MCThree
  WebUploads <- MCNone
  MaxUploads = 2
  ChunkLimit = 1
  MaxChunks = 2
  Causes = {"connect"}
PROPERTIES
  AdmittedAreAnswered
  TasksDrain
  ImplementsGate
