SPECIFICATION Spec
CONSTANTS
    Node <- MCNode
    Kind <- MCKind
    Parent <- MCParent
    Above <- MCAbove
    Leads <- MCLeads
    Path <- MCPath
    Name <- MCName
    Lstat <- MCLstat
    Relinked <- MCRelinked
    Straight <- MCStraight
    DotNames = {".ssh", ".config", ".git", ".env"}
    Unreadable = {"shut"}
    Ignored = {"env", "dep"}
    Tokens = {"cfg"}
    FsRoot = "/"
    Home = "home"
    Protected = {"ssh", "gh"}
    SystemRoots = {"usr"}
    Devices = {"null"}
    NoPath = ""
    Cases <- MCCases
INVARIANTS PermissionIsSafe Contained RefusedForCause
PROPERTIES Judged
