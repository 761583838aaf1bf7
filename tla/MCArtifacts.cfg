SPECIFICATION ArtifactsSpec
CONSTANT
  Revisions <- ThreeRevisions
INVARIANTS
  FilesAreOfTheirKind
  DeployedSetMatches
