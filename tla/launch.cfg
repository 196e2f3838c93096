CONSTANTS
    N = 2
    NoPid = NoPid
    p1 = p1
    p2 = p2
    p3 = p3
    Pid = {p1, p2, p3}
    Missing = {}
    Stubborn <- OneStubborn
    SignalsWhen <- AnyTime
    Files <- MCFiles
    Main = "a"
    ArgNames = {"x"}
    Starts <- MCStarts
    Overrides <- MCOverrides
    Index <- MCIndex
    Env <- MCEnv
    PathOf <- MCPathOf
    MaxDepth = 2
    MaxEvents = 3
    Dirs <- MCDirs
    Parent <- MCParent
    XmlNames = {"a", "b", ""}
    Scripts = {"a"}
    Trees <- MCTrees
    MaxEdits = 2
    Names = {"p", "q", "b", "system"}
    DirName = "p"
    System = "system"
    Manifests <- MCManifests
    CMakes <- MCCMakes
    MaxSteps = 3
    None = None
    Torn = Torn
    DefaultTier = "default_executor"
    Unvisited = {"mixer"}
    launches = {"pipeline", "ring", "boxes"}
    Component <- MCComponent
    FileName <- MCFileName
    Version <- MCVersion
    Artifact <- MCArtifact
    Synthetic <- MCSynthetic
    Launch <- MCLaunches
    Record <- MCRecord
    Manifest <- MCManifest
    Sanitize <- MCSanitize
    Tier <- MCTier
    Rank <- MCRank
SPECIFICATION Spec
INVARIANTS
    OkMeansAllGone
    ParsedAsWritten
    IndexIsCurrent
    PlannedPassesCheck
    ChildrenInTheirContainers
    ChainsFollowData
PROPERTIES
    KillIsLastResort
    StopEnds
    NoSilentSwitch
    TornCopiesHeal
CHECK_DEADLOCK FALSE
