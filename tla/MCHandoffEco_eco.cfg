SPECIFICATION Spec
CONSTANTS
    Bare <- MCBare
    NcName <- MCNcName
    Tolerance = 2
    Designs <- MCDesigns
    Base <- MCBase
    BaseOps <- MCBaseOps
    Ops <- MCOps
    Library <- MCLibrary
    Seeds <- MCSeeds
    Drawings <- MCDrawings
    Tracks <- MCTracks
    Copper <- MCCopper
    Moves <- MCMoves
    Strays <- MCStrays
    Flags = {"none", "unrouted"}
    MaxAuthored = 1
    MaxDrawn = 2
CHECK_DEADLOCK FALSE
INVARIANTS EcoConsistent
PROPERTIES AcceptedIsWired  RoutedNeedsConsent
