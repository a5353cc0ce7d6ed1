SPECIFICATION ServiceSpec
CONSTANTS
    Contents = {c1, c2}
    Videos = {c1}
    Unreadable = {}
    Recognised = {c1}
    Urls = {u1, u2}
    Extracted = {u2}
    FromProvider = {d3}
    Unlisted = {p2, p3, l2}
    Uploads = {p1, p2, p3}
    Downloads = {d1, d2, d3}
    Lookups = {l1, l2}
    Previews = {v1, v2}
    Workloads = {{p1, d1, d2, l1}, {p1, d1, d3}, {p1, v1, v2}, {p2, p3, l2}}
    BrowserSafe = {}
    urlOf <- MCUrl
    contentOf <- MCContent
    CleanupEnabled = TRUE
    MaxStarts = 2
INVARIANTS ServiceTypeOK IndexesAgree BytesBehindRecords PromisedIdsResolve PreviewsWhole
PROPERTIES RequestsEnd ExpiredFilesGo
CHECK_DEADLOCK FALSE
