\* A request from its name to what an upstream is sent.
SPECIFICATION RequestSpec
CONSTANTS
    wb = wb
    qo = qo
    xx = xx
    off = off
    auto = auto
    fast = fast
    deep = deep
    ca = ca
    cb = cb
    Channels = {wb, qo, xx, off}
    Enabled = {wb, qo, xx}
    Roster = {1, 2, 3, 4}
    ChannelOf <- Owner
    Models = {auto, fast, deep}
    AnyChannel = AnyChannel
    None = None
    Builtin <- Aliases
    Fallback <- Static
    Ids = {ca, cb}
    NoId = NoId
    WorkBuddy = wb
    Starts <- Cases
INVARIANTS PlanIsFollowed SentIsAllowed SentIsAnswerable
CHECK_DEADLOCK FALSE
