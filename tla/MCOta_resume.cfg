CONSTANTS
  x = x
  y = y
  B = 2
  Chunk = {x, y}
  Erased = Erased
  Torn = Torn
  Manifests <- MCManifests
  Factory <- MCFactory
SPECIFICATION Spec
INVARIANT
  PartialDownloadResumes
