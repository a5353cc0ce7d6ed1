SPECIFICATION ServiceSpec
CONSTANTS
    Contents = {c1}
    Videos = {c1}
    Unreadable = {c1}
    Recognised = {c1}
    Urls = {u1}
    Extracted = {}
    FromProvider = {}
    Unlisted = {}
    Uploads = {p1}
    Downloads = {d1}
    Lookups = {}
    Previews = {}
    Workloads = {{p1, d1}}
    BrowserSafe = {}
    urlOf <- MCUrl
    contentOf <- MCContent
    CleanupEnabled = TRUE
    MaxStarts = 2
INVARIANT RestartSucceeds
CHECK_DEADLOCK FALSE
