SPECIFICATION ServiceSpec
CONSTANTS
    Contents = {c1}
    Videos = {}
    Unreadable = {}
    Recognised = {c1}
    Urls = {u1, u2}
    Extracted = {}
    FromProvider = {}
    Unlisted = {}
    Uploads = {}
    Downloads = {d1, d2}
    Lookups = {}
    Previews = {}
    Workloads = {{d1, d2}}
    BrowserSafe = {}
    urlOf <- MCOwnUrl
    contentOf <- MCContent
    CleanupEnabled = TRUE
    MaxStarts = 1
INVARIANT CachedSourcesResolve
CHECK_DEADLOCK FALSE
