----------------------------- MODULE MediaStore -----------------------------
(***************************************************************************)
(* MediaStore (app/platform/media/store.py) with its SourceUrlIndex, the   *)
(* two downloaders and the directories they work on.  Its previews are in  *)
(* BrowserPreview.                                                         *)
(*                                                                         *)
(* Who runs what where (app/api/routes/media.py, cleanup.py, executor.py): *)
(* the commit of an upload and a lookup run on the event loop, so they do  *)
(* not interleave with one another; a download runs on a thread of its     *)
(* own, and so does the cleaner.  Bytes are a member of Contents, which    *)
(* also stands for their SHA-256 digest and the media id made from it.     *)
(* The content type belongs to the bytes: whoever sends them says the same *)
(* of them, so that they have one file name in each directory.             *)
(***************************************************************************)
EXTENDS FiniteSets, Integers

CONSTANTS
    Contents,       \* bytes of acceptable media
    Videos,         \* those that are video files
    Unreadable,     \* video files that ffprobe rejects
    Recognised,     \* bytes whose file name tells an acceptable type: the type
                    \* that mimetypes guesses from the extension (none, for an
                    \* accepted type that EXTENSIONS_BY_TYPE does not list)
    Urls,
    Extracted,      \* urls of hosts that are left to yt-dlp
    Uploads, Downloads, Lookups, Previews,  \* requests
    Workloads,      \* the sets of them that clients may send
    urlOf,          \* the url of each download
    contentOf,      \* the bytes that a request sends, fetches or asks for
    CleanupEnabled, \* cleanup_enabled
    MaxStarts       \* bound: lives of the API process

Requests == Uploads \cup Downloads \cup Lookups \cup Previews

ASSUME MediaAssumption ==
    /\ Unreadable \subseteq Videos /\ Videos \subseteq Contents
    /\ Recognised \subseteq Contents
    /\ Uploads \cap Downloads = {} /\ Lookups \cap (Uploads \cup Downloads) = {}
    /\ Previews \cap (Uploads \cup Downloads \cup Lookups) = {}
    /\ Extracted \subseteq Urls /\ Workloads \subseteq SUBSET Requests
    /\ urlOf \in [Downloads -> Urls]
    /\ contentOf \in [Requests -> Contents]
    /\ Requests \cap {"none", "whole", "torn"} = {}
    /\ \A r, q \in Downloads : urlOf[r] = urlOf[q] => contentOf[r] = contentOf[q]
    /\ CleanupEnabled \in BOOLEAN
    /\ MaxStarts \in Nat

VARIABLES
    phase,      \* the API process: up, down, or failed to start
    starts,     \* how often it has been started
    files,      \* what lies at uploads/<media id> and downloads/<media id>,
                \* cache/browser-preview/<media id>.mp4 and ....tmp.mp4
    stale,      \* those of these paths whose mtime is older than the TTL
    temps,      \* what lies at temp/download-<digest of the url>
    records,    \* _records
    byHash,     \* the keys of _by_hash
    sources,    \* _sources._media_by_url
    lockOf,     \* _sources._locks_by_url: a lock is named by who created it
    want,       \* the lock object that a download has got from there
    pc,         \* where each request is
    cleaner,    \* where the cleanup thread is, and with which path and record
    promised,   \* history: media ids given out and not cleaned up since
    raced       \* history: contents hit by the cleaner's or the downloader's race

diskVars == <<files, stale, temps>>
indexVars == <<records, byHash, sources>>
lockVars == <<lockOf, want>>
processVars == <<phase, starts>>
historyVars == <<promised, raced>>
vars == <<processVars, diskVars, indexVars, lockVars, pc, cleaner, historyVars>>

Directories == {"uploads", "downloads"}
Paths == (Directories \cup {"preview", "partial"}) \X Contents

\* A file holds what it should, a part of that, or what somebody is writing.
FileStates == {"none", "whole", "torn"} \cup Downloads \cup Previews

NoUrl == "no url"
NoContent == "no content"
NoLock == "no lock"
NoRecord == [dir |-> "none", url |-> NoUrl]
Records == [dir : Directories, url : Urls \cup {NoUrl}]
AtRest == [at |-> "rest", path |-> <<>>, record |-> NoRecord]

\* What a download does with the lock of its url held.
Locked == {"open", "fetch", "check", "share", "move", "index", "hash", "source"}

\* Where a download has the temporary file of its url in hand.
Temped == {"fetch", "check", "move"}
Previewing == {"probe", "transcode", "encode", "replace", "send"}
Ended == {"done", "failed"}
Places == {"new", "lock", "makeLock", "acquire"} \cup Locked \cup Previewing \cup Ended

TypeOK ==
    /\ phase \in {"up", "down", "failed"}
    /\ starts \in 0..MaxStarts
    /\ files \in [Paths -> FileStates]
    /\ stale \subseteq Paths
    /\ temps \in [Urls -> FileStates]
    /\ records \in [Contents -> Records \cup {NoRecord}]
    /\ byHash \subseteq Contents
    /\ sources \in [Urls -> Contents \cup {NoContent}]
    /\ lockOf \in [Urls -> Downloads \cup {NoLock}]
    /\ want \in [Downloads -> Downloads \cup {NoLock}]
    /\ pc \in [Requests -> Places]
    /\ cleaner = AtRest \/ cleaner \in
           [at : {"lookup", "unlink", "record", "hash", "source", "lock"},
            path : Paths, record : Records \cup {NoRecord}]
    /\ promised \subseteq Contents /\ raced \subseteq Contents

\* SourceUrlIndex() of a new process.
NoSources == [u \in Urls |-> NoContent]
NoLocks == [u \in Urls |-> NoLock]
NoWants == [r \in Downloads |-> NoLock]

Init ==
    /\ phase = "down" /\ starts = 0
    /\ files = [p \in Paths |-> "none"]
    /\ stale = {}
    /\ temps = [u \in Urls |-> "none"]
    /\ records = [c \in Contents |-> NoRecord]
    /\ byHash = {}
    /\ sources = NoSources /\ lockOf = NoLocks /\ want = NoWants
    /\ \E W \in Workloads : pc = [r \in Requests |-> IF r \in W THEN "new" ELSE "done"]
    /\ cleaner = AtRest
    /\ promised = {} /\ raced = {}

-----------------------------------------------------------------------------
(* What the steps of a request are made of.                                *)

Go(r, place) == pc' = [pc EXCEPT ![r] = place]

\* Media id c is what a client will be given; it is promised if its bytes are there.
Promise(c, dir) ==
    promised' = promised \cup {x \in {c} : files'[<<dir, x>>] # "none"}

Return(r, c, dir) == Go(r, "done") /\ Promise(c, dir)

\* The method raises; `with` gives the lock back.
Raise(r) == Go(r, "failed") /\ UNCHANGED promised

\* get(): the record, and touch() on its path, which makes an empty file of a
\* path that the cleaner has just unlinked.
Get(r, c) ==
    LET path == <<records[c].dir, c>>
    IN IF records[c] = NoRecord
       THEN Raise(r) /\ UNCHANGED <<files, stale, raced>>
       ELSE /\ files' = [files EXCEPT ![path] = IF @ = "none" THEN "torn" ELSE @]
            /\ stale' = stale \ {path}
            /\ raced' = raced \cup {x \in {c} : files[path] = "none"}
            /\ Return(r, c, records[c].dir)

\* The event loop runs an upload's commit to its end before anything else.
LoopFree(r) ==
    r \in Uploads \cup Lookups =>
        \A q \in Uploads \ {r} : pc[q] \notin {"move", "index", "hash"}

\* A download that does not go through yt-dlp.
Direct(r) == r \in Downloads /\ urlOf[r] \notin Extracted

HomeOf(r) == <<IF r \in Uploads THEN "uploads" ELSE "downloads", contentOf[r]>>

\* Every file that request r is writing, or has left to be written, becomes s.
Written(r, s) ==
    /\ files' = [p \in Paths |-> IF files[p] = r THEN s ELSE files[p]]
    /\ temps' = [u \in Urls |-> IF temps[u] = r THEN s ELSE temps[u]]

-----------------------------------------------------------------------------
(* Lookups, the two looks at the source cache and the locks.               *)

Lookup(r) ==
    /\ r \in Lookups /\ pc[r] = "new" /\ phase = "up"
    /\ LoopFree(r)
    /\ Get(r, contentOf[r])
    /\ UNCHANGED <<processVars, temps, indexVars, lockVars, cleaner>>

\* An upload has been read and written to a temporary file of its own, or its
\* client has gone or its content type is refused.
Upload(r) ==
    /\ r \in Uploads /\ pc[r] = "new" /\ phase = "up"
    /\ Go(r, "check") \/ Go(r, "failed")
    /\ UNCHANGED <<processVars, diskVars, indexVars, lockVars, cleaner, historyVars>>

BeginDownload(r) ==
    /\ r \in Downloads /\ pc[r] = "new" /\ phase = "up"
    /\ IF sources[urlOf[r]] # NoContent
       THEN Get(r, sources[urlOf[r]])
       ELSE Go(r, "lock") /\ UNCHANGED <<files, stale, historyVars>>
    /\ UNCHANGED <<processVars, temps, indexVars, lockVars, cleaner>>

\* lock() looks for the lock and creates it in two steps, with no lock of its own.
FindLock(r) ==
    /\ pc[r] = "lock"
    /\ IF lockOf[urlOf[r]] # NoLock
       THEN /\ want' = [want EXCEPT ![r] = lockOf[urlOf[r]]]
            /\ Go(r, "acquire")
       ELSE Go(r, "makeLock") /\ UNCHANGED want
    /\ UNCHANGED <<processVars, diskVars, indexVars, lockOf, cleaner, historyVars>>

MakeLock(r) ==
    /\ pc[r] = "makeLock"
    /\ lockOf' = [lockOf EXCEPT ![urlOf[r]] = r]
    /\ want' = [want EXCEPT ![r] = r]
    /\ Go(r, "acquire")
    /\ UNCHANGED <<processVars, diskVars, indexVars, cleaner, historyVars>>

Acquire(r) ==
    /\ pc[r] = "acquire"
    /\ \A q \in Downloads : want[q] = want[r] => pc[q] \notin Locked
    /\ IF sources[urlOf[r]] # NoContent
       THEN Get(r, sources[urlOf[r]])
       ELSE Go(r, "open") /\ UNCHANGED <<files, stale, historyVars>>
    /\ UNCHANGED <<processVars, temps, indexVars, lockVars, cleaner>>

-----------------------------------------------------------------------------
(* download_with_ytdlp works in a directory of its own, which nobody else  *)
(* looks at.  download_direct_url does not: the path of its temporary file *)
(* depends on nothing but the url, and a file that is moved while it is    *)
(* written keeps being written.                                            *)

\* The extractor produces a file of a type that is allowed, or raises.
Extract(r) ==
    /\ pc[r] = "open" /\ ~Direct(r)
    /\ Go(r, "check") \/ Go(r, "failed")
    /\ UNCHANGED <<processVars, diskVars, indexVars, lockVars, cleaner, historyVars>>

\* The server has answered; open("wb") truncates what another download left.
Open(r) ==
    /\ pc[r] = "open" /\ Direct(r)
    /\ temps' = [temps EXCEPT ![urlOf[r]] = r]
    /\ raced' = raced \cup
           {contentOf[q] : q \in {q \in Downloads \ {r} :
                urlOf[q] = urlOf[r] /\ pc[q] \in Temped}}
    /\ Go(r, "fetch")
    /\ UNCHANGED <<processVars, files, stale, indexVars, lockVars, cleaner, promised>>

Fetch(r) ==
    /\ pc[r] = "fetch"
    /\ Written(r, "whole")
    /\ Go(r, "check")
    /\ UNCHANGED <<processVars, stale, indexVars, lockVars, cleaner, historyVars>>

\* Mutant: a failed download is tried again, for ever.
FetchRetries(r) ==
    /\ pc[r] \in {"open", "fetch"} /\ Direct(r)
    /\ Written(r, "torn")
    /\ Go(r, "open")
    /\ UNCHANGED <<processVars, stale, indexVars, lockVars, cleaner, historyVars>>

\* No connection, a connection that breaks, or a content type that is not
\* allowed.  (Contents has no bytes above the size limit.)
FetchFails(r) ==
    /\ pc[r] \in {"open", "fetch"} /\ Direct(r)
    /\ Written(r, "torn") \/ (pc[r] = "fetch" /\ Written(r, "whole"))
    /\ Raise(r)
    /\ UNCHANGED <<processVars, stale, indexVars, lockVars, cleaner, raced>>

-----------------------------------------------------------------------------
(* _commit.                                                                *)

\* Known bytes: the temporary file goes and the record is taken, or is just being
\* dropped (KeyError, also if that begins between the two looks at the indexes).
Dedup(r) ==
    LET c == contentOf[r]
    IN /\ pc[r] = "check" /\ LoopFree(r)
       /\ c \in byHash
       /\ IF Direct(r)
          THEN temps' = [temps EXCEPT ![urlOf[r]] = "none"]
          ELSE UNCHANGED temps
       /\ UNCHANGED files
       /\ IF records[c] = NoRecord
          THEN Raise(r)
          ELSE /\ Go(r, IF r \in Downloads THEN "share" ELSE "done")
               /\ Promise(c, records[c].dir)
       /\ UNCHANGED <<processVars, stale, indexVars, lockVars, cleaner, raced>>

\* The record is used for the url of this download too, even if it has been
\* dropped in the meantime.
Share(r) ==
    /\ pc[r] = "share"
    /\ sources' = [sources EXCEPT ![urlOf[r]] = contentOf[r]]
    /\ Go(r, "done")
    /\ UNCHANGED <<processVars, diskVars, records, byHash, lockVars, cleaner, historyVars>>

NewBytes(r) ==
    /\ pc[r] = "check" /\ LoopFree(r)
    /\ contentOf[r] \notin byHash
    /\ Go(r, "move")
    /\ UNCHANGED <<processVars, diskVars, indexVars, lockVars, cleaner, historyVars>>

Move(r) ==
    /\ pc[r] = "move"
    /\ Direct(r) => temps[urlOf[r]] # "none"
    /\ files' = [files EXCEPT ![HomeOf(r)] =
                     IF Direct(r) THEN temps[urlOf[r]] ELSE "whole"]
    /\ temps' = [u \in Urls |->
                     IF Direct(r) /\ u = urlOf[r] THEN "none" ELSE temps[u]]
    /\ stale' = stale \ {HomeOf(r)}
    /\ Go(r, "index")
    /\ UNCHANGED <<processVars, indexVars, lockVars, cleaner, historyVars>>

\* Another download of this url has moved the temporary file, or removed it.
MoveFails(r) ==
    /\ pc[r] = "move"
    /\ Direct(r) /\ temps[urlOf[r]] = "none"
    /\ Raise(r)
    /\ UNCHANGED <<processVars, diskVars, indexVars, lockVars, cleaner, raced>>

\* Mutant: every record is given the upload directory.
IndexElsewhere(r) ==
    LET c == contentOf[r]
    IN /\ pc[r] = "index"
       /\ c \in Videos => c \notin Unreadable /\ files[HomeOf(r)] # "none"
       /\ records' = [records EXCEPT ![c] =
              [dir |-> "uploads",
               url |-> IF r \in Downloads THEN urlOf[r] ELSE NoUrl]]
       /\ Go(r, "hash")
       /\ UNCHANGED <<processVars, diskVars, byHash, sources, lockVars, cleaner,
                      historyVars>>

\* ffprobe, if it is a video, and the record.
Index(r) ==
    LET c == contentOf[r]
    IN /\ pc[r] = "index"
       /\ c \in Videos => c \notin Unreadable /\ files[HomeOf(r)] # "none"
       /\ records' = [records EXCEPT ![c] =
              [dir |-> HomeOf(r)[1],
               url |-> IF r \in Downloads THEN urlOf[r] ELSE NoUrl]]
       /\ Go(r, "hash")
       /\ UNCHANGED <<processVars, diskVars, byHash, sources, lockVars, cleaner,
                      historyVars>>

\* ffprobe fails on what is not a readable video file; the file stays.
ProbeFails(r) ==
    LET c == contentOf[r]
    IN /\ pc[r] = "index"
       /\ c \in Videos /\ (c \in Unreadable \/ files[HomeOf(r)] # "whole")
       /\ Raise(r)
       /\ UNCHANGED <<processVars, diskVars, indexVars, lockVars, cleaner, raced>>

Hash(r) ==
    /\ pc[r] = "hash"
    /\ byHash' = byHash \cup {contentOf[r]}
    /\ UNCHANGED files
    /\ IF r \in Downloads
       THEN Go(r, "source") /\ UNCHANGED promised
       ELSE Return(r, contentOf[r], HomeOf(r)[1])
    /\ UNCHANGED <<processVars, stale, temps, records, sources, lockVars, cleaner, raced>>

\* Mutant: the url is cached in the place of the media id.
SourceItself(r) ==
    /\ pc[r] = "source"
    /\ sources' = [sources EXCEPT ![urlOf[r]] = urlOf[r]]
    /\ UNCHANGED files
    /\ Return(r, contentOf[r], HomeOf(r)[1])
    /\ UNCHANGED <<processVars, stale, temps, records, byHash, lockVars, cleaner, raced>>

Source(r) ==
    /\ pc[r] = "source"
    /\ sources' = [sources EXCEPT ![urlOf[r]] = contentOf[r]]
    /\ UNCHANGED files
    /\ Return(r, contentOf[r], HomeOf(r)[1])
    /\ UNCHANGED <<processVars, stale, temps, records, byHash, lockVars, cleaner, raced>>

RequestStep(r) ==
    \/ Lookup(r) \/ Upload(r) \/ BeginDownload(r)
    \/ FindLock(r) \/ MakeLock(r) \/ Acquire(r)
    \/ Extract(r) \/ Open(r) \/ Fetch(r) \/ FetchFails(r)
    \/ Dedup(r) \/ Share(r) \/ NewBytes(r) \/ Move(r) \/ MoveFails(r)
    \/ Index(r) \/ ProbeFails(r) \/ Hash(r) \/ Source(r)

-----------------------------------------------------------------------------
(* cleanup(), path by path: each line of _cleanup_indexed_dir is a step,   *)
(* and so is each of _cleanup_dir, which has no records to look for.       *)

CleanerAt(place) == cleaner.at = place /\ phase = "up"
CleanerGoes(place) == cleaner' = [cleaner EXCEPT !.at = place]

Present(p) == files[p] # "none"

\* Mutant: only the upload directory is visited.
StatUploads ==
    /\ CleanupEnabled
    /\ CleanerAt("rest")
    /\ \E p \in stale : /\ Present(p) /\ p[1] = "uploads"
                        /\ cleaner' = [AtRest EXCEPT !.at = "lookup", !.path = p]
    /\ UNCHANGED <<processVars, diskVars, indexVars, lockVars, pc, historyVars>>

Stat ==
    /\ CleanupEnabled
    /\ CleanerAt("rest")
    /\ \E p \in stale : /\ Present(p)
                        /\ cleaner' = [AtRest EXCEPT !.path = p,
                               !.at = IF p[1] \in Directories THEN "lookup" ELSE "unlink"]
    /\ UNCHANGED <<processVars, diskVars, indexVars, lockVars, pc, historyVars>>

\* _record_for_path looks at the path of every record.
FindRecord ==
    LET record == records[cleaner.path[2]]
    IN /\ CleanerAt("lookup")
       /\ cleaner' = [cleaner EXCEPT !.at = "unlink",
              !.record = IF record.dir = cleaner.path[1] THEN record ELSE NoRecord]
       /\ UNCHANGED <<processVars, diskVars, indexVars, lockVars, pc, historyVars>>

\* A request has changed the dictionary under the loop of _record_for_path.
FindRecordRaises ==
    /\ CleanerAt("lookup")
    /\ \E r \in Requests : pc[r] \notin {"new"} \cup Ended
    /\ cleaner' = AtRest
    /\ UNCHANGED <<processVars, diskVars, indexVars, lockVars, pc, historyVars>>

Unlink ==
    LET p == cleaner.path
    IN /\ CleanerAt("unlink")
       /\ files' = [files EXCEPT ![p] = "none"]
       /\ stale' = stale \ {p}
       /\ promised' = promised \ {c \in {p[2]} : records[c].dir = p[1]}
       /\ raced' = raced \cup {c \in {p[2]} : p \notin stale /\ p[1] \in Directories}
       /\ IF cleaner.record = NoRecord
          THEN cleaner' = AtRest
          ELSE CleanerGoes("record")
       /\ UNCHANGED <<processVars, temps, indexVars, lockVars, pc>>

DropRecord ==
    /\ CleanerAt("record")
    /\ records' = [records EXCEPT ![cleaner.path[2]] = NoRecord]
    /\ CleanerGoes("hash")
    /\ UNCHANGED <<processVars, diskVars, byHash, sources, lockVars, pc, historyVars>>

\* Mutant: the digest stays in _by_hash.
KeepHash ==
    /\ CleanerAt("hash")
    /\ IF cleaner.record.url = NoUrl
       THEN cleaner' = AtRest
       ELSE CleanerGoes("source")
    /\ UNCHANGED <<processVars, diskVars, indexVars, lockVars, pc, historyVars>>

DropHash ==
    /\ CleanerAt("hash")
    /\ byHash' = byHash \ {cleaner.path[2]}
    /\ IF cleaner.record.url = NoUrl
       THEN cleaner' = AtRest
       ELSE CleanerGoes("source")
    /\ UNCHANGED <<processVars, diskVars, records, sources, lockVars, pc, historyVars>>

DropSource ==
    /\ CleanerAt("source")
    /\ sources' = [sources EXCEPT ![cleaner.record.url] = NoContent]
    /\ CleanerGoes("lock")
    /\ UNCHANGED <<processVars, diskVars, records, byHash, lockVars, pc, historyVars>>

DropLock ==
    /\ CleanerAt("lock")
    /\ lockOf' = [lockOf EXCEPT ![cleaner.record.url] = NoLock]
    /\ cleaner' = AtRest
    /\ UNCHANGED <<processVars, diskVars, indexVars, want, pc, historyVars>>

CleanerStep ==
    \/ Stat \/ FindRecord \/ FindRecordRaises \/ Unlink
    \/ DropRecord \/ DropHash \/ DropSource \/ DropLock

-----------------------------------------------------------------------------
(* Time, and the process.                                                  *)

Idle == cleaner = AtRest /\ \A r \in Requests : pc[r] \in {"new"} \cup Ended

\* A time to live is hours, a request seconds: files age between requests.
Age(p) ==
    /\ Idle
    /\ Present(p) /\ p \notin stale
    /\ stale' = stale \cup {p}
    /\ UNCHANGED <<processVars, files, temps, indexVars, lockVars, pc, cleaner,
                   historyVars>>

\* The files that _index_existing does not pass over for their names.
Indexable == Directories \X Recognised

\* Whether ffprobe rejects a file of which a part is missing depends on the part.
Rejected(p) == files[p] = "whole" /\ p[2] \in Unreadable
Doubtful(p) == files[p] = "torn" /\ p[2] \in Videos

\* Mutant: only uploads are indexed again.
LoadsUploads ==
    /\ phase' = "up"
    /\ \A p \in Indexable : ~Rejected(p)
    /\ byHash' = {c \in Recognised : files[<<"uploads", c>>] = "whole"}
    /\ records' = [c \in Contents |->
           IF c \in byHash' THEN [dir |-> "uploads", url |-> NoUrl] ELSE NoRecord]

\* _load_existing reads uploads, then downloads; a digest of torn bytes is the
\* id of something else.  When ffprobe rejects a file the process does not start.
LoadsExisting ==
    /\ phase' = "up"
    /\ \A p \in Indexable : ~Rejected(p)
    /\ byHash' = {c \in Recognised : \E d \in Directories : files[<<d, c>>] = "whole"}
    /\ records' = [c \in Contents |->
           IF c \notin byHash' THEN NoRecord
           ELSE [dir |-> IF files[<<"downloads", c>>] = "whole" THEN "downloads"
                         ELSE "uploads",
                 url |-> NoUrl]]

LoadRaises ==
    /\ phase' = "failed"
    /\ \E p \in Indexable : Rejected(p) \/ Doubtful(p)
    /\ records' = [c \in Contents |-> NoRecord]
    /\ byHash' = {}

Start ==
    /\ phase # "up"
    /\ starts < MaxStarts /\ starts' = starts + 1
    /\ LoadsExisting \/ LoadRaises
    /\ UNCHANGED <<diskVars, sources, lockVars, pc, cleaner, historyVars>>

\* The process ends at any point; the requests it was serving end with it.
Crash ==
    /\ phase = "up"
    /\ phase' = "down"
    /\ pc' = [r \in Requests |-> IF pc[r] = "new" THEN "new"
                                 ELSE IF pc[r] = "done" THEN "done" ELSE "failed"]
    /\ files' = [p \in Paths |-> IF files[p] \in Requests THEN "torn" ELSE files[p]]
    /\ temps' = [u \in Urls |-> IF temps[u] \in Requests THEN "torn" ELSE temps[u]]
    /\ records' = [c \in Contents |-> NoRecord]
    /\ byHash' = {}
    /\ sources' = NoSources /\ lockOf' = NoLocks /\ want' = NoWants
    /\ cleaner' = AtRest
    /\ UNCHANGED <<starts, stale, historyVars>>

Next ==
    \/ \E r \in Requests : RequestStep(r)
    \/ CleanerStep
    \/ \E p \in Paths : Age(p)
    \/ Start \/ Crash

Spec == Init /\ [][Next]_vars

\* Some thread or the event loop goes on as long as one of them can with what it
\* has begun, a server answers or the download times out, and cleanup is called
\* again and again.
Fairness ==
    /\ WF_vars(\E r \in Requests : pc[r] # "new" /\ RequestStep(r))
    /\ WF_vars(CleanerStep)

FairSpec == Spec /\ Fairness

-----------------------------------------------------------------------------

\* Outside a commit and a cleanup, _by_hash and _records know the same media.
\* A digest without a record makes every later commit of its bytes raise
\* KeyError (_commit 144-146).
IndexesAgree ==
    phase = "up" /\ Idle =>
        \A c \in Contents \ raced : c \in byHash <=> records[c] # NoRecord

\* A record has its bytes behind it: a file is moved before it is indexed and
\* unlinked only by a cleanup that is about to drop the record, whichever
\* commits of the same bytes overlap.
BytesBehindRecords ==
    \A c \in Contents \ raced :
        \/ records[c] = NoRecord
        \/ files[<<records[c].dir, c>>] = "whole"
        \/ cleaner.at = "record" /\ cleaner.path = <<records[c].dir, c>>

\* The bytes the process has to know: all it has taken before its first restart,
\* later those whose files it recognises by their names.
Lasting == IF starts <= 1 THEN Contents ELSE Recognised

\* An id that a client was given resolves until its file is cleaned up, through
\* other commits of the same bytes to either directory, crashes, and, for files
\* that are recognised, restarts.
PromisedIdsResolve ==
    phase = "up" => \A c \in (promised \cap Lasting) \ raced : records[c] # NoRecord

\* Logic/media-ingestion.md promises that of every id: "hash-derived ids remain
\* usable after a restart".
IdsSurviveRestart ==
    phase = "up" => \A c \in promised \ raced : records[c] # NoRecord

\* Every request comes to an end: no lock is left behind by a download that
\* failed, and none that the cleaner took out of the index is waited for.  A
\* request that has begun does not become new again, so this says so of each.
RequestsEnd ==
    []<>(\A r \in Requests : pc[r] \in {"new"} \cup Ended)

\* Expired files are removed, those without a record too, as long as the
\* process runs: requests come to an end, so that there is a time when none of
\* them keeps a file, fails a pass of the cleaner or leaves new files behind.
ExpiredFilesGo ==
    CleanupEnabled => []<>(phase = "up" => stale = {})

\* The process starts again whatever it was doing when it ended: "The in-process
\* media index is rebuilt from existing upload/download files at startup"
\* (Logic/media-ingestion.md).
RestartSucceeds == phase # "failed"

\* A url that is in the source cache leads to a record, so that a download of
\* it can succeed.
CachedSourcesResolve ==
    phase = "up" /\ Idle =>
        \A u \in Urls : sources[u] # NoContent => records[sources[u]] # NoRecord

=============================================================================
