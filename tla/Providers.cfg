\* One run of each adapter: one request, two unread messages.
CONSTANTS
    r1 = r1  r2 = r2
    None = None
    Agents = {"codex", "claude", "fake"}
    Requests = {r1}
    Demands <- SomeDemands
    Scripts <- SomeScripts
    WireMax = 2
SPECIFICATION FairSpec
INVARIANTS GrantsExact
PROPERTIES Contract WithdrawnUngranted StartSettles CancelEnds ChildStops
