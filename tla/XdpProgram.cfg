CONSTANTS
    h1 = h1
    h2 = h2
    Handles <- MCHandles
    Artifacts <- MCArtifacts
    ExtArtifact <- MCExtArtifact
    DefaultPrio <- MCDefaultPrio
    DefaultChain <- MCDefaultChain
    BufLens <- MCBufLens
    SizeBits = 16

SPECIFICATION Spec

INVARIANT TypeOK
INVARIANT ExtObjClosedOnlyByCaller
INVARIANT FreedHandleReleasesAll
INVARIANT ConstructedConfigMatchesSpec
