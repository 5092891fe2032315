SPECIFICATION Spec
CONSTANTS
    TrackWidths <- MCTrackWidths
    EscapeVias <- MCEscapeVias
    Quadrant <- MCQuadrant
    Frozen <- MCFrozen
    Layouts <- MCLayouts
    Schematics <- MCSchematics
    ProbeMaps <- MCProbeMaps
    SourceMaps <- MCSourceMaps
    Versions <- MCVersions
    MaxSaves = 2
    Tearable = {"zip", "manifest"}
    MaxRuns = 3
CHECK_DEADLOCK FALSE
INVARIANTS  ManifestSpeaksTrue NoStaleBinding
PROPERTIES UploadIsGated
