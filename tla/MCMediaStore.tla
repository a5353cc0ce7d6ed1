---------------------------- MODULE MCMediaStore ----------------------------
(* MediaStore on small instances, with BrowserPreview. *)
EXTENDS BrowserPreview

CONSTANTS
    FromProvider,   \* the downloads that are left to yt-dlp
    Unlisted        \* the requests for bytes that a restart does not recognise

\* Downloads of one url each way, and requests for the same bytes.
MCUrl == [r \in Downloads |-> CHOOSE u \in Urls : u \in Extracted <=> r \in FromProvider]
MCContent ==
    [r \in Requests |-> CHOOSE c \in Contents : c \in Recognised <=> r \notin Unlisted]

\* Every download has a url of its own; all of them lead to the same bytes.
MCOwnUrl == CHOOSE f \in [Downloads -> Urls] : \A r, q \in Downloads : r # q => f[r] # f[q]

=============================================================================
