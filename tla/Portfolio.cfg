CONSTANTS
    Missions = {"m1", "m2"}
    PromotionKeys = {"k1", "k2"}
    SourceMessages = {"s1", "s2"}
    Threads = {"t1", "t2"}
    Owners = {"o1"}
    MaxEvidence = 9
    Identities = {1}
    Roles = {1, 2}
    Profiles = {1}
    Assignments = {1}
    Bindings = {1}
    Members = {1}
    Capabilities = {"x"}
    MaxEdits = 4
    Providers = {"claude", "codex"}
    Models = {"x"}
    Changes = {1, 2}
    MaxChanges = 3
    ProjectProviders = {"claude", "codex", "opencode"}
    ProjectModels = {"x"}
    Edits = {1, 2}
    MaxEditsBegun = 3
    ChatProviders = {"claude", "codex"}
    Users = {"owner", "other"}
    Owner = "owner"
    Messages = {1}
    MaxProposals = 2
    MaxLines = 1
SPECIFICATION Spec
INVARIANTS
    DoneIsVerified
    SnapshotRestores
    AuthorityIsReviewed
    SettingsAndPmAgree
    ModelsAreTheChosen
    LaunchIsAuthorized
CHECK_DEADLOCK FALSE
