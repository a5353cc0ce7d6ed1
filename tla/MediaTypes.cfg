SPECIFICATION ServiceSpec
CONSTANTS
    Contents = {c1}
    Videos = {}
    Unreadable = {}
    Recognised = {}
    Urls = {u1}
    Extracted = {}
    FromProvider = {}
    Unlisted = {p1}
    Uploads = {p1}
    Downloads = {}
    Lookups = {}
    Previews = {}
    Workloads = {{p1}}
    BrowserSafe = {}
    urlOf <- MCUrl
    contentOf <- MCContent
    CleanupEnabled = TRUE
    MaxStarts = 2
INVARIANT IdsSurviveRestart
CHECK_DEADLOCK FALSE
