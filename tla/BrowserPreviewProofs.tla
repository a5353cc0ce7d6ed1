------------------------- MODULE BrowserPreviewProofs -------------------------
(***************************************************************************)
(* The safety invariants of MediaStore and BrowserPreview, for any number  *)
(* of uploads, downloads, lookups, previews, contents, urls and restarts.  *)
(***************************************************************************)
EXTENDS BrowserPreview, TLAPS

\* Where a commit has taken its bytes for new ones.
Committing == {"move", "index", "hash", "source"}

InTheWorks(c) == \E r \in Requests : pc[r] \in Committing /\ contentOf[r] = c

\* Every place is that of a kind of request.
Roles ==
    \A r \in Requests :
        /\ pc[r] \in {"lock", "makeLock", "acquire", "open", "fetch", "share", "source"}
               => r \in Downloads
        /\ pc[r] \in {"check", "move", "index", "hash"} => r \in Uploads \cup Downloads
        /\ pc[r] \in Previewing => r \in Previews

\* A process that is not up does nothing and knows nothing.
Absent ==
    phase # "up" =>
        /\ Idle
        /\ byHash = {} /\ \A c \in Contents : records[c] = NoRecord

\* Two downloads that share a temporary file are found out by the second open().
OneWriter ==
    \A r, q \in Downloads :
        /\ r # q /\ urlOf[r] = urlOf[q] /\ Direct(r)
        /\ pc[r] \in Temped /\ pc[q] \in Temped
        => contentOf[r] \in raced

TempsKept ==
    \A r \in Downloads :
        Direct(r) /\ contentOf[r] \notin raced =>
            /\ pc[r] = "fetch" => temps[urlOf[r]] = r
            /\ pc[r] \in {"check", "move"} => temps[urlOf[r]] = "whole"

FilesWhole ==
    \A c \in Contents \ raced, d \in Directories : files[<<d, c>>] \in {"none", "whole"}

\* What a commit has moved is fresh, so that a cleaner that unlinks it has looked
\* at it before.
CommitsKept ==
    \A r \in Requests :
        /\ pc[r] \in {"index", "hash", "source"} => HomeOf(r) \notin stale
        /\ pc[r] \in {"index", "hash", "source"} /\ contentOf[r] \notin raced
               => files[HomeOf(r)] = "whole"
        /\ pc[r] \in {"hash", "source"} /\ contentOf[r] \notin raced
               => records[contentOf[r]] # NoRecord

\* IndexesAgree, with the commits and the cleanup that are on their way.
Indexed ==
    \A c \in Contents \ raced :
        /\ c \in byHash =>
               records[c] # NoRecord \/ (cleaner.at = "hash" /\ cleaner.path[2] = c)
        /\ records[c] # NoRecord =>
               c \in byHash \/ \E r \in Requests : pc[r] = "hash" /\ contentOf[r] = c

\* A record whose file has expired is an old one: no commit of its bytes goes on.
Settled ==
    \A c \in Contents \ raced :
        <<records[c].dir, c>> \in stale => c \in byHash /\ ~InTheWorks(c)

\* What the cleaner knows of the path in its hands.
Cleaning ==
    LET p == cleaner.path
    IN /\ cleaner.record # NoRecord => p[1] = cleaner.record.dir
       /\ cleaner.at \in {"record", "hash", "source", "lock"} => p[1] \in Directories
       /\ cleaner.at = "unlink" /\ p \in stale /\ p[2] \notin raced
              => (cleaner.record # NoRecord <=> records[p[2]].dir = p[1])
       /\ cleaner.at = "record" /\ p[2] \notin raced
              => /\ records[p[2]].dir = p[1] /\ files[p] = "none"
                 /\ p[2] \in byHash \ promised /\ ~InTheWorks(p[2])
       /\ cleaner.at = "hash" /\ p[2] \notin raced
              => /\ records[p[2]] = NoRecord
                 /\ p[2] \in byHash \ promised /\ ~InTheWorks(p[2])

\* PromisedIdsResolve, with what it takes to hold again after a restart.
Promises ==
    /\ starts = 0 => phase # "up" /\ promised = {}
    /\ \A c \in (promised \cap Lasting) \ raced :
           IF phase = "up" THEN records[c] # NoRecord
           ELSE \E d \in Directories : files[<<d, c>>] = "whole"

OnePreview ==
    \A r, q \in Previews :
        /\ r # q /\ contentOf[r] = contentOf[q]
        /\ pc[r] \in {"encode", "replace"} /\ pc[q] \in {"encode", "replace"}
        => contentOf[r] \in raced

PartialsKept ==
    \A r \in Previews :
        contentOf[r] \notin raced =>
            /\ pc[r] = "encode" => files[Partial(r)] \in {r, "none"}
            /\ pc[r] = "replace" => files[Partial(r)] \in {"whole", "none"}

IndInv ==
    /\ ServiceTypeOK /\ Roles /\ Absent
    /\ OneWriter /\ TempsKept
    /\ FilesWhole /\ CommitsKept /\ BytesBehindRecords
    /\ Indexed /\ Settled /\ Cleaning /\ Promises
    /\ OnePreview /\ PartialsKept /\ PreviewsWhole

-----------------------------------------------------------------------------

\* A step that moves one request on, and at most adds to the races.
LEMMA PcStep ==
    ASSUME IndInv, phase = "up",
           UNCHANGED <<sources, lockVars, source>> \/ ServiceTypeOK',
           NEW r \in Requests, NEW place \in Places, Go(r, place),
           place \in {"lock", "makeLock", "acquire", "open"} => r \in Downloads,
           place = "check" => r \in Uploads \cup Downloads /\ ~Direct(r),
           place \in Previewing => r \in Previews,
           place \notin {"fetch", "share", "encode", "replace"} \cup Committing,
           pc[r] # "hash", 
           UNCHANGED <<processVars, diskVars, records, byHash, cleaner, promised, raced>>
    PROVE  IndInv'
  <1> USE DEF IndInv, Go, processVars, diskVars, ServiceTypeOK, TypeOK
  <1>0. /\ r \notin Downloads => ~Direct(r)
        /\ \A q \in Requests : pc'[q] = IF q = r THEN place ELSE pc[q]
    BY DEF Direct
  <1>1. Roles' /\ ServiceTypeOK'
    BY <1>0 DEF Roles, Committing, Previewing, lockVars
  <1>2. Absent'
    BY DEF Absent
  <1>3. OneWriter' /\ TempsKept'
    BY <1>0 DEF OneWriter, TempsKept, Temped, Committing, Direct
  <1>4. CommitsKept'
    BY <1>0 DEF CommitsKept, Committing, HomeOf
  <1>5. FilesWhole' /\ BytesBehindRecords' /\ Promises' /\ PreviewsWhole'
    BY DEF FilesWhole, BytesBehindRecords, Promises, Lasting, PreviewsWhole
  <1>6. Indexed'
    BY <1>0 DEF Indexed
  <1>7. \A c : InTheWorks(c)' => InTheWorks(c)
    BY <1>0 DEF InTheWorks, Committing
  <1>8. Settled' /\ Cleaning'
    BY <1>7 DEF Settled, Cleaning
  <1>9. OnePreview' /\ PartialsKept'
    BY <1>0 DEF OnePreview, PartialsKept, Partial
  <1> QED
    BY <1>1, <1>2, <1>3, <1>4, <1>5, <1>6, <1>8, <1>9

\* get(), by a request that does not hold a commit: it keeps the file of a record
\* from the cleaner, or is itself the race that it takes to lose it.
LEMMA GetStep ==
    ASSUME IndInv, phase = "up", NEW r \in Requests, NEW c \in Contents,
           pc[r] # "hash", Get(r, c),
           UNCHANGED <<processVars, temps, indexVars, lockVars, cleaner, source>>
    PROVE  IndInv'
  <1> USE DEF IndInv, processVars, indexVars, lockVars
  <1>a. CASE records[c] = NoRecord
    <2>1. Go(r, "failed") /\ UNCHANGED <<files, stale, promised, raced>>
      BY <1>a DEF Get, Raise
    <2> QED
      BY <2>1, PcStep DEF Places, Ended, Previewing, Committing, diskVars
  <1>b. CASE records[c] # NoRecord
    <2> USE <1>b DEF ServiceTypeOK, TypeOK
    <2> DEFINE dir == records[c].dir
    <2>0. /\ dir \in Directories /\ <<dir, c>> \in Paths
          /\ files' = [files EXCEPT ![<<dir, c>>] = IF @ = "none" THEN "torn" ELSE @]
          /\ stale' = stale \ {<<dir, c>>}
          /\ raced' = raced \cup {x \in {c} : files[<<dir, c>>] = "none"}
          /\ promised' = promised \cup {x \in {c} : files'[<<dir, c>>] # "none"}
          /\ pc' = [pc EXCEPT ![r] = "done"]
      BY DEF Get, Return, Promise, Go, Records, Paths
    <2>1. ServiceTypeOK'
      BY <2>0 DEF FileStates, Places, Ended
    <2>2. /\ raced \subseteq raced'
          /\ \A p \in Paths : p[2] \notin raced' => files'[p] = files[p]
          /\ \A q \in Requests : pc'[q] = IF q = r THEN "done" ELSE pc[q]
          /\ promised' \subseteq promised \cup {c}
      BY <2>0 DEF Paths
    <2> HIDE DEF dir
    <2>3. Roles'
      BY <2>2 DEF Roles, Previewing
    <2>4. Absent'
      BY DEF Absent
    <2>5. OneWriter' /\ TempsKept'
      BY <2>2 DEF OneWriter, TempsKept, Temped, Direct, Requests
    <2>6. FilesWhole' /\ BytesBehindRecords' /\ PreviewsWhole'
      BY <2>2 DEF FilesWhole, BytesBehindRecords, PreviewsWhole, Paths, Records
    <2>7. CommitsKept'
      <3>1. \A q \in Requests : HomeOf(q) \in Paths /\ HomeOf(q)[2] = contentOf[q]
        BY MediaAssumption DEF HomeOf, Paths, Directories
      <3>2. \A q \in Requests : HomeOf(q)' = HomeOf(q)
        BY DEF HomeOf
      <3> QED
        BY <2>0, <2>2, <3>1, <3>2 DEF CommitsKept
    <2>8. Indexed'
      BY <2>2 DEF Indexed
    <2>9. \A x : InTheWorks(x)' => InTheWorks(x)
      BY <2>2 DEF InTheWorks, Committing
    <2>10. Settled'
      BY <2>0, <2>2, <2>9 DEF Settled
    <2>11. Cleaning'
      <3> DEFINE p == cleaner.path
      <3>1. cleaner.at # "rest" => p \in Paths /\ p = <<p[1], p[2]>>
        BY DEF Paths, AtRest
      <3>2. cleaner.at = "record" /\ p[2] \notin raced' => p[2] # c
        BY <2>0, <2>2, <3>1 DEF Cleaning, dir
      <3>3. cleaner.at = "hash" /\ p[2] \notin raced' => p[2] # c
        BY <2>2 DEF Cleaning
      <3> QED
        BY <2>0, <2>2, <2>9, <3>1, <3>2, <3>3 DEF Cleaning
    <2>12. Promises'
      BY <2>2 DEF Promises, Lasting
    <2>13. OnePreview' /\ PartialsKept'
      BY <2>2, MediaAssumption DEF OnePreview, PartialsKept, Partial, Paths, Requests
    <2> QED
      BY <2>1, <2>3, <2>4, <2>5, <2>6, <2>7, <2>8, <2>10, <2>11, <2>12, <2>13
  <1> QED
    BY <1>a, <1>b


\* A download or a preview ends what it was writing, and may fail before or after.
LEMMA WriteStep ==
    ASSUME IndInv, phase = "up", NEW r \in Requests, NEW s \in {"whole", "torn"},
           NEW place \in {"check", "replace", "failed"}, Written(r, s), Go(r, place),
           pc[r] \in {"open", "fetch", "transcode", "encode"},
           place = "check" => pc[r] = "fetch" /\ s = "whole",
           place = "replace" => pc[r] = "encode" /\ (s = "whole" \/ contentOf[r] \in raced),
           UNCHANGED <<processVars, stale, indexVars, lockVars, cleaner, historyVars, source>>
    PROVE  IndInv'
  <1> USE DEF IndInv, processVars, indexVars, lockVars, historyVars, ServiceTypeOK, TypeOK
  <1>0. /\ r \notin {"none", "whole", "torn"}
        /\ \A p \in Paths : files'[p] = IF files[p] = r THEN s ELSE files[p]
        /\ \A u \in Urls : temps'[u] = IF temps[u] = r THEN s ELSE temps[u]
        /\ \A q \in Requests : pc'[q] = IF q = r THEN place ELSE pc[q]
    BY MediaAssumption DEF Written, Go
  <1>1. ServiceTypeOK'
    BY <1>0 DEF Written, Go, FileStates, Places, Locked, Previewing, Ended
  <1>2. Roles'
    BY <1>0 DEF Roles, Previewing
  <1>3. Absent'
    BY DEF Absent
  <1>4. OneWriter'
    BY <1>0 DEF OneWriter, Temped, Direct, Requests
  <1>5. TempsKept'
    BY <1>0, MediaAssumption DEF TempsKept, Direct, Requests
  <1>6. FilesWhole' /\ PreviewsWhole'
    BY <1>0 DEF FilesWhole, PreviewsWhole, Paths
  <1>7. BytesBehindRecords' /\ Promises'
    BY <1>0 DEF BytesBehindRecords, Promises, Lasting, Paths, Records
  <1>8. CommitsKept'
    <2>1. \A q \in Requests : HomeOf(q) \in Paths /\ HomeOf(q)' = HomeOf(q)
      BY MediaAssumption DEF HomeOf, Paths, Directories
    <2> QED
      BY <1>0, <2>1 DEF CommitsKept
  <1>9. Indexed'
    BY <1>0 DEF Indexed
  <1>10. \A c : InTheWorks(c)' => InTheWorks(c)
    BY <1>0 DEF InTheWorks, Committing
  <1>11. Settled'
    BY <1>10 DEF Settled
  <1>12. Cleaning'
    <2>1. cleaner.at # "rest" => cleaner.path \in Paths
      BY DEF AtRest
    <2> QED
      BY <1>0, <1>10, <2>1 DEF Cleaning
  <1>13. OnePreview' /\ PartialsKept'
    <2>1. \A q \in Previews : Partial(q) \in Paths /\ Partial(q)' = Partial(q)
      BY MediaAssumption DEF Partial, Paths, Requests
    <2> QED
      BY <1>0, <2>1, MediaAssumption DEF OnePreview, PartialsKept, Requests
  <1> QED
    BY <1>1, <1>2, <1>3, <1>4, <1>5, <1>6, <1>7, <1>8, <1>9, <1>11, <1>12, <1>13


\* The steps of a request that end it, or take it to a lock or to a download.
LEMMA UncommittedInv ==
    ASSUME IndInv, NEW r \in Requests, UNCHANGED source,
           \/ Lookup(r) \/ Upload(r) \/ BeginDownload(r)
           \/ FindLock(r) \/ MakeLock(r) \/ Acquire(r)
           \/ Extract(r) \/ Fetch(r) \/ FetchFails(r) \/ MoveFails(r) \/ ProbeFails(r)
           \/ Share(r)
    PROVE  IndInv'
  <1>0. /\ pc[r] \notin {"new"} \cup Ended => phase = "up"
        /\ contentOf[r] \in Contents
        /\ r \in Uploads => r \notin Downloads /\ ~Direct(r)
        /\ r \in Downloads => urlOf[r] \in Urls /\ sources[urlOf[r]] \in Contents \cup {NoContent}
        /\ pc[r] \in {"lock", "makeLock", "acquire", "open", "share"} => r \in Downloads
    BY MediaAssumption DEF IndInv, Absent, Idle, Direct, ServiceTypeOK, TypeOK, Roles
  <1>1. CASE Lookup(r)
    BY <1>0, <1>1, GetStep DEF Lookup, processVars, indexVars, lockVars
  <1>2. CASE Upload(r)
    BY <1>0, <1>2, PcStep DEF Upload, Places, Locked, Ended, Committing, Previewing,
      historyVars, indexVars, diskVars, processVars
  <1>3. CASE BeginDownload(r)
    <2>1. CASE sources[urlOf[r]] # NoContent
      BY <1>0, <1>3, <2>1, GetStep DEF BeginDownload, processVars, indexVars, lockVars
    <2>2. CASE sources[urlOf[r]] = NoContent
      BY <1>3, <2>2, PcStep DEF BeginDownload, Places, Previewing, Committing, historyVars,
        indexVars, diskVars
    <2> QED
      BY <2>1, <2>2
  <1>4. CASE FindLock(r)
    <2>1. PICK place \in {"acquire", "makeLock"} : Go(r, place)
      BY <1>4 DEF FindLock
    <2>2. ServiceTypeOK'
      BY <1>0, <1>4, <2>1 DEF FindLock, ServiceTypeOK, TypeOK, Go, Places, IndInv, historyVars,
        indexVars, diskVars, processVars
    <2> QED
      BY <1>0, <1>4, <2>1, <2>2, PcStep DEF FindLock, Places, Ended, Previewing, Committing,
        historyVars, indexVars
  <1>5. CASE MakeLock(r)
    <2>1. ServiceTypeOK'
      BY <1>0, <1>5 DEF MakeLock, ServiceTypeOK, TypeOK, Go, Places, IndInv, historyVars,
        indexVars, diskVars, processVars
    <2> QED
      BY <1>0, <1>5, <2>1, PcStep DEF MakeLock, Places, Ended, Previewing, Committing,
        historyVars, indexVars
  <1>6. CASE Acquire(r)
    <2>1. CASE sources[urlOf[r]] # NoContent
      BY <1>0, <1>6, <2>1, GetStep DEF Acquire, processVars, indexVars, lockVars, Ended
    <2>2. CASE sources[urlOf[r]] = NoContent
      BY <1>0, <1>6, <2>2, PcStep DEF Acquire, Places, Locked, Ended, Previewing, Committing,
        historyVars, indexVars, diskVars
    <2> QED
      BY <2>1, <2>2
  <1>7. CASE Extract(r)
    BY <1>0, <1>7, PcStep DEF Extract, Places, Locked, Ended, Committing, Previewing,
      historyVars, indexVars
  <1>8. CASE Fetch(r) \/ FetchFails(r)
    BY <1>0, <1>8, WriteStep DEF Fetch, FetchFails, Raise, Ended, processVars, indexVars,
      lockVars, historyVars
  <1>9. CASE MoveFails(r) \/ ProbeFails(r)
    BY <1>0, <1>9, PcStep DEF MoveFails, ProbeFails, Raise, Places, Ended, Previewing,
      Committing, indexVars, historyVars
  <1>10. CASE Share(r)
    <2>1. /\ Go(r, "done") /\ pc[r] = "share"
          /\ sources' = [sources EXCEPT ![urlOf[r]] = contentOf[r]]
          /\ UNCHANGED <<processVars, diskVars, records, byHash, lockVars, cleaner,
                         historyVars>>
      BY <1>10 DEF Share
    <2>2. ServiceTypeOK'
      BY <1>0, <2>1 DEF ServiceTypeOK, TypeOK, Go, Places, Ended, IndInv, lockVars,
        historyVars, diskVars, processVars
    <2> QED
      BY <1>0, <2>1, <2>2, PcStep DEF Places, Ended, Previewing, Committing, historyVars
  <1> QED
    BY <1>1, <1>2, <1>3, <1>4, <1>5, <1>6, <1>7, <1>8, <1>9, <1>10

\* The steps that a commit is made of, and open(), which may spoil another one.
LEMMA CommitInv ==
    ASSUME IndInv, NEW r \in Requests, UNCHANGED source,
           \/ Open(r) \/ Dedup(r) \/ NewBytes(r) \/ Move(r)
           \/ Index(r) \/ Hash(r) \/ Source(r)
    PROVE  IndInv'
  <1> DEFINE c == contentOf[r]
             home == HomeOf(r)
  <1>0. /\ pc[r] \notin {"new"} \cup Ended => phase = "up"
        /\ c \in Contents
        /\ home \in Paths /\ home[2] = c /\ home[1] \in Directories
        /\ r \notin {"none", "whole", "torn"}
        /\ r \in Downloads => urlOf[r] \in Urls
        /\ cleaner.at # "rest" => cleaner.path \in Paths
        /\ \A q \in Requests : HomeOf(q) \in Paths /\ HomeOf(q)' = HomeOf(q)
        /\ \A q \in Requests : HomeOf(q)[2] = contentOf[q] /\ contentOf[q] \in Contents
        /\ \A q \in Previews : Partial(q) \in Paths /\ Partial(q)' = Partial(q)
        /\ \A q \in Previews : Partial(q)[1] \notin Directories
        /\ Downloads \subseteq Requests /\ Previews \subseteq Requests
    BY MediaAssumption DEF IndInv, Absent, Idle, ServiceTypeOK, TypeOK, HomeOf, Partial, Paths,
      Directories, Requests, AtRest
  <1> USE DEF IndInv, ServiceTypeOK, TypeOK
  <1>1. CASE Open(r)
    <2> DEFINE shared == {contentOf[q] : q \in {q \in Downloads \ {r} :
                              urlOf[q] = urlOf[r] /\ pc[q] \in Temped}}
    <2>0. /\ r \in Downloads /\ phase = "up" /\ pc[r] = "open" /\ urlOf[r] \in Urls
          /\ temps' = [temps EXCEPT ![urlOf[r]] = r]
          /\ raced' = raced \cup shared /\ shared \subseteq Contents
          /\ pc' = [pc EXCEPT ![r] = "fetch"]
          /\ UNCHANGED <<processVars, files, stale, indexVars, lockVars, cleaner, promised>>
      BY <1>0, <1>1, MediaAssumption DEF Open, Direct, Ended, Go
    <2>1. \A q \in Downloads \ {r} : urlOf[q] = urlOf[r] /\ pc[q] \in Temped
                                       => contentOf[q] \in raced' /\ contentOf[r] \in raced'
      BY <2>0, MediaAssumption
    <2> HIDE DEF shared
    <2> USE DEF processVars, indexVars, lockVars
    <2>2. ServiceTypeOK'
      BY <2>0 DEF FileStates, Places, Locked
    <2>3. Roles' /\ Absent'
      BY <2>0 DEF Roles, Absent, Previewing
    <2>4. OneWriter'
      BY <1>0, <2>0, <2>1 DEF OneWriter, Temped, Direct
    <2>5. TempsKept'
      BY <1>0, <2>0, <2>1, MediaAssumption DEF TempsKept, Temped, Direct
    <2>6. FilesWhole' /\ PreviewsWhole' /\ BytesBehindRecords' /\ Promises'
      BY <2>0 DEF FilesWhole, PreviewsWhole, BytesBehindRecords, Promises, Lasting
    <2>7. CommitsKept'
      BY <1>0, <2>0 DEF CommitsKept
    <2>8. Indexed'
      BY <2>0 DEF Indexed
    <2>9. \A x : InTheWorks(x)' => InTheWorks(x)
      BY <2>0 DEF InTheWorks, Committing
    <2>10. Settled' /\ Cleaning'
      BY <2>0, <2>9 DEF Settled, Cleaning
    <2>11. OnePreview' /\ PartialsKept'
      BY <1>0, <2>0 DEF OnePreview, PartialsKept
    <2> QED
      BY <2>2, <2>3, <2>4, <2>5, <2>6, <2>7, <2>8, <2>10, <2>11
  <1>2. CASE NewBytes(r)
    <2> USE DEF processVars, diskVars, indexVars, lockVars, historyVars
    <2>0. /\ phase = "up" /\ pc[r] = "check" /\ c \notin byHash
          /\ pc' = [pc EXCEPT ![r] = "move"]
          /\ UNCHANGED <<processVars, diskVars, indexVars, lockVars, cleaner, historyVars>>
      BY <1>0, <1>2 DEF NewBytes, Ended, Go
    <2>1. ServiceTypeOK' /\ Absent'
      BY <2>0 DEF Places, Locked, Absent
    <2>2. Roles'
      BY <2>0 DEF Roles, Previewing
    <2>3. OneWriter' /\ TempsKept'
      BY <1>0, <2>0 DEF OneWriter, TempsKept, Temped, Direct
    <2>4. FilesWhole' /\ PreviewsWhole' /\ BytesBehindRecords' /\ Promises'
      BY <2>0 DEF FilesWhole, PreviewsWhole, BytesBehindRecords, Promises, Lasting
    <2>5. CommitsKept' /\ Indexed'
      BY <1>0, <2>0 DEF CommitsKept, Indexed
    <2>6. \A x : InTheWorks(x)' => InTheWorks(x) \/ x \notin byHash
      BY <2>0 DEF InTheWorks
    <2>7. Settled' /\ Cleaning'
      BY <2>0, <2>6 DEF Settled, Cleaning
    <2>8. OnePreview' /\ PartialsKept'
      BY <1>0, <2>0 DEF OnePreview, PartialsKept
    <2> QED
      BY <2>1, <2>2, <2>3, <2>4, <2>5, <2>7, <2>8
  <1>3. CASE Move(r)
    <2> DEFINE bytes == IF Direct(r) THEN temps[urlOf[r]] ELSE "whole"
    <2> USE DEF processVars, indexVars, lockVars, historyVars
    <2>0. /\ phase = "up" /\ pc[r] = "move"
          /\ files' = [files EXCEPT ![home] = bytes]
          /\ temps' = [u \in Urls |->
                           IF Direct(r) /\ u = urlOf[r] THEN "none" ELSE temps[u]]
          /\ stale' = stale \ {home}
          /\ pc' = [pc EXCEPT ![r] = "index"]
          /\ UNCHANGED <<processVars, indexVars, lockVars, cleaner, historyVars>>
      BY <1>0, <1>3 DEF Move, Ended, Go
    <2>1. bytes \in FileStates /\ (c \notin raced => bytes = "whole")
      BY <1>0, <2>0 DEF TempsKept, Direct, FileStates
    <2> HIDE DEF home, bytes
    <2>2. \A p \in Paths : files'[p] = IF p = home THEN bytes ELSE files[p]
      BY <2>0
    <2>3. ServiceTypeOK' /\ Absent'
      BY <1>0, <2>0, <2>1 DEF Places, Locked, Absent, FileStates
    <2>4. Roles'
      BY <2>0 DEF Roles, Previewing
    <2>5. OneWriter'
      BY <1>0, <2>0 DEF OneWriter, Temped, Direct
    <2>6. TempsKept'
      BY <1>0, <2>0, MediaAssumption DEF TempsKept, OneWriter, Temped, Direct
    <2>7. FilesWhole' /\ PreviewsWhole'
      BY <1>0, <2>0, <2>1, <2>2 DEF FilesWhole, PreviewsWhole, Paths, Directories
    <2>8. BytesBehindRecords' /\ Promises'
      BY <1>0, <2>0, <2>1, <2>2 DEF BytesBehindRecords, Promises, Lasting, Paths, Records
    <2>9. CommitsKept'
      BY <1>0, <2>0, <2>1, <2>2 DEF CommitsKept, home
    <2>10. Indexed'
      BY <2>0 DEF Indexed
    <2>11. InTheWorks(c) /\ \A x : InTheWorks(x)' => InTheWorks(x)
      BY <2>0 DEF InTheWorks, Committing
    <2>12. Settled' /\ Cleaning'
      BY <1>0, <2>0, <2>2, <2>11 DEF Settled, Cleaning
    <2>13. OnePreview' /\ PartialsKept'
      BY <1>0, <2>0, <2>2 DEF OnePreview, PartialsKept
    <2> QED
      BY <2>3, <2>4, <2>5, <2>6, <2>7, <2>8, <2>9, <2>10, <2>12, <2>13
  <1>4. CASE Index(r)
    <2> DEFINE record == [dir |-> home[1],
                          url |-> IF r \in Downloads THEN urlOf[r] ELSE NoUrl]
    <2> USE DEF processVars, diskVars, lockVars, historyVars
    <2>0. /\ phase = "up" /\ pc[r] = "index"
          /\ records' = [records EXCEPT ![c] = record]
          /\ pc' = [pc EXCEPT ![r] = "hash"]
          /\ UNCHANGED <<processVars, diskVars, byHash, sources, lockVars, cleaner,
                         historyVars>>
      BY <1>0, <1>4 DEF Index, Ended, Go
    <2>1. record \in Records /\ record # NoRecord /\ <<record.dir, c>> = home
      BY <1>0 DEF Records, NoRecord, Directories, Paths
    <2>2. home \notin stale /\ (c \notin raced => files[home] = "whole")
      BY <2>0 DEF CommitsKept
    <2> HIDE DEF home, record
    <2>3. ServiceTypeOK' /\ Absent'
      BY <1>0, <2>0, <2>1 DEF Places, Locked, Absent
    <2>4. Roles'
      BY <2>0 DEF Roles, Previewing
    <2>5. OneWriter' /\ TempsKept'
      BY <1>0, <2>0 DEF OneWriter, TempsKept, Temped, Direct
    <2>6. FilesWhole' /\ PreviewsWhole'
      BY <2>0 DEF FilesWhole, PreviewsWhole
    <2>7. BytesBehindRecords' /\ Promises'
      BY <1>0, <2>0, <2>1, <2>2 DEF BytesBehindRecords, Promises, Lasting
    <2>8. CommitsKept'
      BY <1>0, <2>0, <2>1 DEF CommitsKept
    <2>9. Indexed'
      BY <1>0, <2>0, <2>1 DEF Indexed
    <2>10. InTheWorks(c) /\ \A x : InTheWorks(x)' => InTheWorks(x)
      BY <2>0 DEF InTheWorks, Committing
    <2>11. Settled'
      BY <1>0, <2>0, <2>1, <2>2, <2>10 DEF Settled
    <2>12. Cleaning'
      <3> DEFINE p == cleaner.path
      <3>1. cleaner.at # "rest" => p = <<p[1], p[2]>>
        BY <1>0 DEF Paths
      <3>2. CASE cleaner.at = "unlink" /\ p \in stale /\ p[2] = c /\ c \notin raced
        <4>1. cleaner.record = NoRecord
          <5>1. SUFFICES ASSUME cleaner.record # NoRecord PROVE FALSE
            OBVIOUS
          <5>2. records[c].dir = p[1]
            BY <3>2, <5>1 DEF Cleaning
          <5>3. <<records[c].dir, c>> \in stale
            BY <3>1, <3>2, <5>2
          <5> QED
            BY <1>0, <2>10, <3>2, <5>3 DEF Settled
        <4>2. record.dir # p[1]
          BY <3>1, <3>2, <2>1, <2>2
        <4> QED
          BY <1>0, <2>0, <3>2, <4>1, <4>2 DEF Cleaning
      <3>3. CASE ~(cleaner.at = "unlink" /\ p \in stale /\ p[2] = c /\ c \notin raced)
        BY <1>0, <2>0, <2>10, <3>3 DEF Cleaning, Paths
      <3> QED
        BY <3>2, <3>3
    <2>13. OnePreview' /\ PartialsKept'
      BY <1>0, <2>0 DEF OnePreview, PartialsKept
    <2> QED
      BY <2>3, <2>4, <2>5, <2>6, <2>7, <2>8, <2>9, <2>11, <2>12, <2>13
  <1>5. CASE Hash(r) \/ Source(r)
    <2> USE DEF processVars, diskVars, lockVars
    <2>0. /\ phase = "up" /\ pc[r] \in {"hash", "source"}
          /\ pc[r] = "source" => pc' = [pc EXCEPT ![r] = "done"] /\ byHash' = byHash
          /\ pc[r] = "hash" =>
                /\ byHash' = byHash \cup {c}
                /\ pc' \in {[pc EXCEPT ![r] = "source"], [pc EXCEPT ![r] = "done"]}
                /\ pc' = [pc EXCEPT ![r] = "source"] => r \in Downloads
          /\ promised \subseteq promised' /\ promised' \subseteq promised \cup {c}
          /\ sources' \in [Urls -> Contents \cup {NoContent}]
          /\ UNCHANGED <<processVars, diskVars, records, lockVars, cleaner, raced>>
      BY <1>0, <1>5 DEF Hash, Source, Return, Promise, Ended, Go
    <2>1. ServiceTypeOK' /\ Absent'
      BY <1>0, <2>0 DEF Places, Locked, Ended, Absent
    <2>2. Roles'
      BY <2>0 DEF Roles, Previewing
    <2>3. OneWriter' /\ TempsKept'
      BY <1>0, <2>0 DEF OneWriter, TempsKept, Temped, Direct
    <2>4. FilesWhole' /\ PreviewsWhole' /\ BytesBehindRecords'
      BY <2>0 DEF FilesWhole, PreviewsWhole, BytesBehindRecords
    <2>5. c \notin raced => records[c] # NoRecord
      BY <2>0 DEF CommitsKept
    <2>6. CommitsKept' /\ Promises'
      BY <1>0, <2>0, <2>5 DEF CommitsKept, Promises, Lasting
    <2>7. Indexed'
      BY <1>0, <2>0, <2>5 DEF Indexed
    <2>8. InTheWorks(c) /\ \A x : InTheWorks(x)' => InTheWorks(x)
      BY <2>0 DEF InTheWorks, Committing
    <2>9. Settled' /\ Cleaning'
      BY <1>0, <2>0, <2>8 DEF Settled, Cleaning
    <2>10. OnePreview' /\ PartialsKept'
      BY <1>0, <2>0 DEF OnePreview, PartialsKept
    <2> QED
      BY <2>1, <2>2, <2>3, <2>4, <2>6, <2>7, <2>9, <2>10
  <1>6. CASE Dedup(r)
    <2> USE DEF processVars, indexVars, lockVars
    <2>0. /\ phase = "up" /\ pc[r] = "check"
          /\ \E place \in {"failed", "share", "done"} :
                 /\ place = "share" => r \in Downloads
                 /\ pc' = [pc EXCEPT ![r] = place]
          /\ temps' = [u \in Urls |->
                           IF Direct(r) /\ u = urlOf[r] THEN "none" ELSE temps[u]]
          /\ promised \subseteq promised'
          /\ promised' \subseteq promised \cup
                 {x \in {c} : records[x] # NoRecord /\ files[<<records[x].dir, x>>] # "none"}
          /\ UNCHANGED <<processVars, files, stale, indexVars, lockVars, cleaner, raced>>
      <3>1. temps' = [u \in Urls |->
                          IF Direct(r) /\ u = urlOf[r] THEN "none" ELSE temps[u]]
        BY <1>6 DEF Dedup, Direct
      <3>2. CASE records[c] = NoRecord
        BY <1>0, <1>6, <3>1, <3>2 DEF Dedup, Raise, Ended, Go
      <3>3. CASE records[c] # NoRecord
        <4>1. /\ files' = files
              /\ pc' = [pc EXCEPT ![r] = IF r \in Downloads THEN "share" ELSE "done"]
              /\ promised' = promised \cup {x \in {c} : files'[<<records[c].dir, x>>] # "none"}
          BY <1>6, <3>3 DEF Dedup, Promise, Go
        <4> QED
          BY <1>0, <1>6, <3>1, <3>3, <4>1 DEF Dedup, Ended
      <3> QED
        BY <3>2, <3>3
    <2>1. ServiceTypeOK' /\ Absent'
      <3>1. pc' \in [Requests -> Places]
        BY <2>0 DEF Places, Locked, Ended
      <3>2. temps' \in [Urls -> FileStates] /\ promised' \subseteq Contents
        BY <1>0, <2>0 DEF FileStates
      <3> QED
        BY <2>0, <3>1, <3>2 DEF Absent
    <2>2. Roles'
      BY <2>0 DEF Roles, Previewing
    <2>3. OneWriter'
      BY <1>0, <2>0 DEF OneWriter, Temped, Direct
    <2>4. TempsKept'
      BY <1>0, <2>0, MediaAssumption DEF TempsKept, OneWriter, Temped, Direct
    <2>5. FilesWhole' /\ PreviewsWhole' /\ BytesBehindRecords'
      BY <2>0 DEF FilesWhole, PreviewsWhole, BytesBehindRecords
    <2>6. CommitsKept' /\ Promises'
      BY <1>0, <2>0 DEF CommitsKept, Promises, Lasting
    <2>7. Indexed'
      BY <1>0, <2>0 DEF Indexed
    <2>8. \A x : InTheWorks(x)' => InTheWorks(x)
      BY <2>0 DEF InTheWorks, Committing
    <2>9. Settled' /\ Cleaning'
      <3>1. cleaner.at # "rest" => cleaner.path = <<cleaner.path[1], cleaner.path[2]>>
        BY <1>0 DEF Paths
      <3>2. cleaner.at \in {"record", "hash"} /\ cleaner.path[2] \notin raced
              => (cleaner.path[2] \in promised' <=> cleaner.path[2] \in promised)
        <4>1. CASE cleaner.path[2] # c
          BY <2>0, <4>1
        <4>2. CASE cleaner.path[2] = c /\ cleaner.at = "record" /\ c \notin raced
          <5>1. records[c].dir = cleaner.path[1] /\ files[cleaner.path] = "none"
            BY <4>2 DEF Cleaning
          <5>2. files[<<records[c].dir, c>>] = "none"
            BY <3>1, <4>2, <5>1
          <5> QED
            BY <2>0, <4>2, <5>2
        <4>3. CASE cleaner.path[2] = c /\ cleaner.at = "hash" /\ c \notin raced
          BY <2>0, <4>3 DEF Cleaning
        <4> QED
          BY <4>1, <4>2, <4>3
      <3> QED
        BY <1>0, <2>0, <2>8, <3>2 DEF Settled, Cleaning
    <2>10. OnePreview' /\ PartialsKept'
      BY <1>0, <2>0 DEF OnePreview, PartialsKept
    <2> QED
      BY <2>1, <2>2, <2>3, <2>4, <2>5, <2>6, <2>7, <2>9, <2>10
  <1> QED
    BY <1>1, <1>2, <1>3, <1>4, <1>5, <1>6

\* The steps of a preview: they touch no directory that is indexed.
LEMMA PreviewInv ==
    ASSUME IndInv, NEW r \in Requests,
           \/ BeginPreview(r) \/ ProbeCodec(r) \/ Transcode(r)
           \/ Encoded(r) \/ EncodeFails(r) \/ Replace(r) \/ Send(r)
    PROVE  IndInv'
  <1>0. /\ pc[r] \notin {"new"} \cup Ended => phase = "up"
        /\ contentOf[r] \in Contents /\ records[contentOf[r]] \in Records \cup {NoRecord}
        /\ pc[r] \in Previewing => r \in Previews
        /\ r \in Previews => ~Direct(r) /\ r \notin Downloads
        /\ \A q \in Requests : HomeOf(q) \in Paths /\ HomeOf(q)' = HomeOf(q)
        /\ \A q \in Requests : HomeOf(q)[1] \in Directories /\ contentOf[q] \in Contents
        /\ cleaner.at # "rest" => cleaner.path \in Paths
        /\ Downloads \subseteq Requests /\ Previews \subseteq Requests
        /\ r \notin {"none", "whole", "torn"}
    BY MediaAssumption DEF IndInv, Absent, Idle, ServiceTypeOK, TypeOK, Roles, Direct, HomeOf,
      Paths, Directories, Requests, AtRest
  <1>1. CASE BeginPreview(r)
    <2>1. ServiceTypeOK'
      BY <1>0, <1>1 DEF BeginPreview, IndInv, ServiceTypeOK, TypeOK, Go, Places, Previewing,
        Ended, Records, NoRecord, processVars, diskVars, indexVars, lockVars, historyVars
    <2> QED
      BY <1>0, <1>1, <2>1, PcStep DEF BeginPreview, Places, Previewing, Ended, Committing,
        indexVars, historyVars
  <1>2. CASE ProbeCodec(r) \/ Send(r)
    <2>1. PICK place \in {"done", "failed", "send", "transcode"} : Go(r, place)
      BY <1>2 DEF ProbeCodec, Send
    <2>2. /\ phase = "up" /\ pc[r] \in {"probe", "send"} /\ r \in Previews
          /\ UNCHANGED <<processVars, diskVars, indexVars, lockVars, cleaner, historyVars,
                         source>>
      BY <1>0, <1>2 DEF ProbeCodec, Send, Ended, Previewing
    <2> QED
      BY <2>1, <2>2, PcStep DEF Places, Previewing, Ended, Committing, indexVars, historyVars
  <1>3. CASE Encoded(r) \/ EncodeFails(r)
    BY <1>0, <1>3, WriteStep DEF Encoded, EncodeFails, Raise, Ended, processVars, indexVars,
      lockVars, historyVars
  <1> USE DEF IndInv, ServiceTypeOK, TypeOK, processVars, indexVars, lockVars
  <1>4. CASE Transcode(r)
    <2> DEFINE c == contentOf[r]
               both == {x \in {c} : \E q \in Previews \ {r} :
                           contentOf[q] = x /\ pc[q] \in {"encode", "replace"}}
    <2>0. /\ phase = "up" /\ pc[r] = "transcode" /\ r \in Previews /\ <<"partial", c>> \in Paths
          /\ files' = [files EXCEPT ![<<"partial", c>>] = r]
          /\ stale' \subseteq stale
          /\ raced' = raced \cup both
          /\ pc' = [pc EXCEPT ![r] = "encode"]
          /\ UNCHANGED <<processVars, temps, indexVars, lockVars, cleaner, promised, source>>
      BY <1>0, <1>4 DEF Transcode, TranscodeTo, Partial, Paths, Previewing, Ended, Go
    <2>1. \A q \in Previews \ {r} : contentOf[q] = c /\ pc[q] \in {"encode", "replace"}
                                      => c \in raced'
      BY <2>0
    <2>2. raced \subseteq raced' /\ raced' \subseteq Contents
      BY <1>0, <2>0
    <2> HIDE DEF both
    <2>3. ServiceTypeOK' /\ Absent'
      BY <2>0, <2>2 DEF FileStates, Places, Previewing, Absent
    <2>4. Roles'
      BY <1>0, <2>0 DEF Roles, Previewing
    <2>5. OneWriter' /\ TempsKept'
      BY <1>0, <2>0, <2>2 DEF OneWriter, TempsKept, Temped, Direct
    <2>6. FilesWhole' /\ PreviewsWhole' /\ BytesBehindRecords' /\ Promises'
      BY <2>0, <2>2 DEF FilesWhole, PreviewsWhole, BytesBehindRecords, Promises, Lasting, Paths,
        Directories, Records
    <2>7. CommitsKept'
      BY <1>0, <2>0, <2>2 DEF CommitsKept, Directories
    <2>8. Indexed'
      BY <2>0, <2>2 DEF Indexed
    <2>9. \A x : InTheWorks(x)' => InTheWorks(x)
      BY <2>0 DEF InTheWorks, Committing
    <2>10. Settled' /\ Cleaning'
      BY <1>0, <2>0, <2>2, <2>9 DEF Settled, Cleaning, Directories
    <2>11. OnePreview'
      BY <1>0, <2>0, <2>1, <2>2 DEF OnePreview
    <2>12. PartialsKept'
      BY <1>0, <2>0, <2>1, <2>2 DEF PartialsKept, Partial, Paths
    <2> QED
      BY <2>3, <2>4, <2>5, <2>6, <2>7, <2>8, <2>10, <2>11, <2>12
  <1>5. CASE Replace(r) /\ files[Partial(r)] = "none"
    BY <1>0, <1>5, PcStep DEF Replace, Places, Previewing, Ended, Committing, diskVars,
      historyVars
  <1>6. CASE Replace(r) /\ files[Partial(r)] # "none"
    <2> DEFINE c == contentOf[r]
               target == <<"preview", c>>
               partial == <<"partial", c>>
    <2> USE DEF historyVars
    <2>0. /\ phase = "up" /\ pc[r] = "replace" /\ r \in Previews
          /\ target \in Paths /\ partial \in Paths /\ target # partial
          /\ files' = [files EXCEPT ![target] = files[partial], ![partial] = "none"]
          /\ stale' \subseteq stale
          /\ pc' = [pc EXCEPT ![r] = "send"]
          /\ UNCHANGED <<processVars, temps, indexVars, lockVars, cleaner, historyVars, source>>
      BY <1>0, <1>6 DEF Replace, Target, Partial, Paths, Previewing, Ended, Go
    <2>1. c \notin raced => files[partial] \in {"none", "whole"}
      BY <2>0 DEF PartialsKept, Partial
    <2>2. \A p \in Paths : files'[p] = IF p = partial THEN "none"
                                       ELSE IF p = target THEN files[partial] ELSE files[p]
      BY <2>0
    <2>3. ServiceTypeOK' /\ Absent'
      BY <2>0 DEF FileStates, Places, Previewing, Absent
    <2>4. Roles'
      BY <1>0, <2>0 DEF Roles, Previewing
    <2>5. OneWriter' /\ TempsKept'
      BY <1>0, <2>0 DEF OneWriter, TempsKept, Temped, Direct
    <2>6. FilesWhole' /\ BytesBehindRecords' /\ Promises'
      BY <2>0, <2>2 DEF FilesWhole, BytesBehindRecords, Promises, Lasting, Paths, Directories, Records
    <2>7. PreviewsWhole'
      BY <2>0, <2>1, <2>2 DEF PreviewsWhole, Paths
    <2>8. CommitsKept'
      BY <1>0, <2>0, <2>2 DEF CommitsKept, Directories
    <2>9. Indexed'
      BY <2>0 DEF Indexed
    <2>10. \A x : InTheWorks(x)' => InTheWorks(x)
      BY <2>0 DEF InTheWorks, Committing
    <2>11. Settled' /\ Cleaning'
      BY <1>0, <2>0, <2>2, <2>10 DEF Settled, Cleaning, Directories
    <2>12. OnePreview' /\ PartialsKept'
      BY <1>0, <2>0, <2>2 DEF OnePreview, PartialsKept, Partial, Paths
    <2> QED
      BY <2>3, <2>4, <2>5, <2>6, <2>7, <2>8, <2>9, <2>11, <2>12
  <1> QED
    BY <1>1, <1>2, <1>3, <1>4, <1>5, <1>6


\* The steps of cleanup().
LEMMA CleanerInv ==
    ASSUME IndInv, CleanerStep, UNCHANGED source
    PROVE  IndInv'
  <1> DEFINE p == cleaner.path
             c == p[2]
  <1> USE DEF IndInv, ServiceTypeOK, TypeOK, CleanerAt, CleanerGoes
  <1>0. /\ phase = "up"
        /\ cleaner.at # "rest" =>
              /\ p \in Paths /\ p = <<p[1], c>> /\ c \in Contents
              /\ p[1] # "none" /\ cleaner.record \in Records \cup {NoRecord}
              /\ cleaner \in [at : {"lookup", "unlink", "record", "hash", "source", "lock"},
                              path : Paths, record : Records \cup {NoRecord}]
        /\ AtRest.at = "rest" /\ AtRest.record = NoRecord /\ NoRecord.dir = "none"
        /\ NoRecord \notin Records /\ \A x \in Contents : <<"none", x>> \notin stale
        /\ \A rec \in Records : rec.dir \in Directories
    <2>1. phase = "up"
      BY DEF CleanerStep, Stat, FindRecord, FindRecordRaises, Unlink, DropRecord, DropHash,
        DropSource, DropLock
    <2>2. AtRest.at = "rest" /\ AtRest.record = NoRecord /\ NoRecord.dir = "none"
      BY DEF AtRest, NoRecord
    <2>3. /\ NoRecord \notin Records /\ \A rec \in Records : rec.dir \in Directories
          /\ \A x \in Contents : <<"none", x>> \notin stale
      BY DEF NoRecord, Records, Paths, Directories
    <2>4. cleaner.at # "rest" =>
              cleaner \in [at : {"lookup", "unlink", "record", "hash", "source", "lock"},
                           path : Paths, record : Records \cup {NoRecord}]
      BY <2>2
    <2>5. \A x \in Paths : x = <<x[1], x[2]>> /\ x[2] \in Contents /\ x[1] # "none"
      BY DEF Paths, Directories
    <2> QED
      BY <2>1, <2>2, <2>3, <2>4, <2>5
  <1>1. ASSUME UNCHANGED <<processVars, diskVars, records, byHash, pc, historyVars>>,
               cleaner.at \notin {"record", "hash"}, ServiceTypeOK', Cleaning'
        PROVE  IndInv'
    <2> USE <1>1 DEF processVars, diskVars, historyVars
    <2>1. Roles' /\ Absent' /\ OneWriter' /\ TempsKept' /\ FilesWhole' /\ CommitsKept'
      BY <1>0 DEF Roles, Absent, OneWriter, TempsKept, Direct, FilesWhole, CommitsKept, HomeOf
    <2>2. BytesBehindRecords' /\ Indexed'
      BY DEF BytesBehindRecords, Indexed
    <2>3. Settled' /\ Promises'
      BY DEF Settled, InTheWorks, Promises, Lasting
    <2>4. OnePreview' /\ PartialsKept' /\ PreviewsWhole'
      BY DEF OnePreview, PartialsKept, Partial, PreviewsWhole
    <2> QED
      BY <2>1, <2>2, <2>3, <2>4
  <1>2. CASE Stat
    <2>1. PICK q \in stale : cleaner' = [AtRest EXCEPT !.path = q,
              !.at = IF q[1] \in Directories THEN "lookup" ELSE "unlink"]
      BY <1>2 DEF Stat
    <2>2. /\ cleaner'.path = q /\ cleaner'.record = NoRecord /\ q \in Paths
          /\ cleaner'.at = IF q[1] \in Directories THEN "lookup" ELSE "unlink"
          /\ cleaner' \in [at : {"lookup", "unlink"}, path : Paths, record : {NoRecord}]
      BY <2>1 DEF AtRest
    <2>3. ServiceTypeOK'
      BY <1>2, <2>2 DEF Stat, processVars, diskVars, indexVars, lockVars, historyVars
    <2>4. Cleaning'
      BY <1>0, <1>2, <2>2 DEF Cleaning, Stat, indexVars, Paths, Directories
    <2> QED
      BY <1>1, <1>2, <2>3, <2>4 DEF Stat, indexVars
  <1>3. CASE FindRecord
    <2>1. /\ cleaner'.path = p /\ cleaner'.at = "unlink"
          /\ cleaner'.record = IF records[c].dir = p[1] THEN records[c] ELSE NoRecord
          /\ cleaner' \in [at : {"unlink"}, path : Paths, record : Records \cup {NoRecord}]
      BY <1>0, <1>3 DEF FindRecord
    <2>2. ServiceTypeOK'
      BY <1>3, <2>1 DEF FindRecord, processVars, diskVars, indexVars, lockVars, historyVars
    <2>3. Cleaning'
      BY <1>0, <1>3, <2>1 DEF Cleaning, FindRecord, indexVars
    <2> QED
      BY <1>1, <1>3, <2>2, <2>3 DEF FindRecord, indexVars
  <1>4. CASE FindRecordRaises
    <2>1. ServiceTypeOK'
      BY <1>4 DEF FindRecordRaises, processVars, diskVars, indexVars, lockVars, historyVars
    <2>2. Cleaning'
      BY <1>0, <1>4 DEF Cleaning, FindRecordRaises
    <2> QED
      BY <1>1, <1>4, <2>1, <2>2 DEF FindRecordRaises, indexVars
  <1>5. CASE DropSource
    <2>1. /\ cleaner'.path = p /\ cleaner'.at = "lock" /\ cleaner'.record = cleaner.record
          /\ cleaner' \in [at : {"lock"}, path : Paths, record : Records \cup {NoRecord}]
      BY <1>0, <1>5 DEF DropSource
    <2>2. ServiceTypeOK'
      BY <1>5, <2>1 DEF DropSource, processVars, diskVars, lockVars, historyVars
    <2>3. Cleaning'
      BY <1>5, <2>1 DEF Cleaning, DropSource
    <2> QED
      BY <1>1, <1>5, <2>2, <2>3 DEF DropSource
  <1>6. CASE DropLock
    <2>1. ServiceTypeOK'
      BY <1>6 DEF DropLock, processVars, diskVars, indexVars, historyVars
    <2>2. Cleaning'
      BY <1>0, <1>6 DEF Cleaning, DropLock
    <2> QED
      BY <1>1, <1>6, <2>1, <2>2 DEF DropLock, indexVars
  <1>7. CASE Unlink
    <2> USE DEF processVars, indexVars, lockVars
    <2>0. /\ cleaner.at = "unlink" /\ p \in Paths
          /\ files' = [files EXCEPT ![p] = "none"]
          /\ stale' = stale \ {p}
          /\ promised' = promised \ {x \in {c} : records[x].dir = p[1]}
          /\ raced' = raced \cup {x \in {c} : p \notin stale /\ p[1] \in Directories}
          /\ cleaner.record = NoRecord => cleaner' = AtRest
          /\ cleaner.record # NoRecord => /\ cleaner'.at = "record" /\ cleaner'.path = p
                                          /\ cleaner'.record = cleaner.record
          /\ UNCHANGED <<processVars, temps, indexVars, lockVars, pc, source>>
      BY <1>0, <1>7 DEF Unlink
    <2>1. \A x \in Paths : files'[x] = IF x = p THEN "none" ELSE files[x]
      BY <2>0
    <2>2. raced \subseteq raced' /\ (c \notin raced' /\ p[1] \in Directories => p \in stale)
      BY <2>0
    <2>3. c \notin raced' /\ p[1] \in Directories =>
            /\ cleaner.record # NoRecord <=> records[c].dir = p[1]
            /\ records[c].dir = p[1] => c \in byHash /\ ~InTheWorks(c)
      <3>1. c \notin raced' /\ p[1] \in Directories =>
                (cleaner.record # NoRecord <=> records[c].dir = p[1])
        BY <2>0, <2>2 DEF Cleaning
      <3>2. c \notin raced' /\ p[1] \in Directories /\ records[c].dir = p[1]
                => <<records[c].dir, c>> \in stale
        BY <1>0, <2>0, <2>2
      <3>3. c \notin raced' /\ p[1] \in Directories /\ records[c].dir = p[1]
                => c \in byHash /\ ~InTheWorks(c)
        BY <1>0, <2>0, <2>2, <3>2 DEF Settled
      <3> QED
        BY <3>1, <3>3
    <2>4. cleaner.record # NoRecord => p[1] = cleaner.record.dir /\ p[1] \in Directories
      BY <1>0, <2>0 DEF Cleaning
    <2>5. ServiceTypeOK'
      BY <1>0, <1>7, <2>0 DEF Unlink, FileStates
    <2>6. Roles' /\ Absent' /\ OneWriter' /\ TempsKept'
      BY <1>0, <2>0, <2>2 DEF Roles, Absent, OneWriter, TempsKept, Direct
    <2>7. FilesWhole' /\ PreviewsWhole'
      BY <2>1, <2>2 DEF FilesWhole, PreviewsWhole, Paths
    <2>8. CommitsKept'
      <3>1. \A q \in Requests :
                /\ HomeOf(q) \in Paths /\ HomeOf(q)' = HomeOf(q)
                /\ HomeOf(q)[1] \in Directories /\ HomeOf(q)[2] = contentOf[q]
        BY MediaAssumption DEF HomeOf, Paths, Directories
      <3>2. \A q \in Requests : pc[q] \in {"index", "hash", "source"} /\ HomeOf(q) = p
                                  => contentOf[q] \in raced'
        BY <2>2, <3>1 DEF CommitsKept
      <3> QED
        BY <2>0, <2>1, <2>2, <3>1, <3>2 DEF CommitsKept
    <2>9. BytesBehindRecords'
      <3> SUFFICES ASSUME NEW x \in Contents \ raced', records[x] # NoRecord
                   PROVE  \/ files'[<<records[x].dir, x>>] = "whole"
                          \/ cleaner'.at = "record" /\ cleaner'.path = <<records[x].dir, x>>
        BY <2>0 DEF BytesBehindRecords
      <3>1. <<records[x].dir, x>> \in Paths /\ records[x].dir \in Directories
        BY <1>0 DEF Paths, Records
      <3>2. CASE <<records[x].dir, x>> = p
        BY <1>0, <2>0, <2>3, <3>1, <3>2
      <3>3. CASE <<records[x].dir, x>> # p
        BY <2>0, <2>1, <2>2, <3>1, <3>3 DEF BytesBehindRecords
      <3> QED
        BY <3>2, <3>3
    <2>10. Indexed'
      BY <2>0, <2>2 DEF Indexed, AtRest
    <2>11. \A x : InTheWorks(x)' <=> InTheWorks(x)
      BY <2>0 DEF InTheWorks
    <2>12. Settled'
      BY <2>0, <2>2, <2>11 DEF Settled
    <2>13. Cleaning'
      <3>1. CASE cleaner.record = NoRecord
        BY <1>0, <2>0, <3>1 DEF Cleaning
      <3>2. CASE cleaner.record # NoRecord
        <4>1. c \notin raced' =>
                /\ records[c].dir = p[1] /\ c \in byHash /\ ~InTheWorks(c)
                /\ files'[p] = "none" /\ c \notin promised'
          BY <2>0, <2>1, <2>3, <2>4, <3>2
        <4> QED
          BY <2>0, <2>4, <2>11, <3>2, <4>1 DEF Cleaning
      <3> QED
        BY <3>1, <3>2
    <2>14. Promises'
      BY <1>0, <2>0, <2>2 DEF Promises, Lasting
    <2>15. OnePreview' /\ PartialsKept'
      <3>1. \A q \in Previews : Partial(q) \in Paths /\ Partial(q)' = Partial(q)
        BY MediaAssumption DEF Partial, Paths, Requests
      <3> QED
        BY <2>0, <2>1, <2>2, <3>1 DEF OnePreview, PartialsKept
    <2> QED
      BY <2>5, <2>6, <2>7, <2>8, <2>9, <2>10, <2>12, <2>13, <2>14, <2>15
  <1>8. CASE DropRecord
    <2> USE DEF processVars, diskVars, lockVars, historyVars
    <2>0. /\ cleaner.at = "record" /\ p \in Paths /\ c \in Contents
          /\ records' = [records EXCEPT ![c] = NoRecord]
          /\ cleaner'.at = "hash" /\ cleaner'.path = p /\ cleaner'.record = cleaner.record
          /\ UNCHANGED <<processVars, diskVars, byHash, sources, lockVars, pc, historyVars>>
      BY <1>0, <1>8 DEF DropRecord
    <2>1. c \notin raced => c \in byHash \ promised /\ ~InTheWorks(c)
      BY <2>0 DEF Cleaning
    <2>2. ServiceTypeOK'
      BY <1>0, <1>8, <2>0 DEF DropRecord
    <2>3. Roles' /\ Absent' /\ OneWriter' /\ TempsKept' /\ FilesWhole'
      BY <1>0, <2>0 DEF Roles, Absent, OneWriter, TempsKept, Direct, FilesWhole
    <2>4. CommitsKept'
      BY <2>0, <2>1 DEF CommitsKept, HomeOf, InTheWorks, Committing
    <2>5. BytesBehindRecords'
      BY <1>0, <2>0 DEF BytesBehindRecords
    <2>6. Indexed' /\ Promises'
      BY <1>0, <2>0, <2>1 DEF Indexed, Promises, Lasting
    <2>7. Settled'
      BY <1>0, <2>0 DEF Settled, InTheWorks
    <2>8. Cleaning'
      BY <2>0, <2>1 DEF Cleaning, InTheWorks
    <2>9. OnePreview' /\ PartialsKept' /\ PreviewsWhole'
      BY <2>0 DEF OnePreview, PartialsKept, Partial, PreviewsWhole
    <2> QED
      BY <2>2, <2>3, <2>4, <2>5, <2>6, <2>7, <2>8, <2>9
  <1>9. CASE DropHash
    <2> USE DEF processVars, diskVars, lockVars, historyVars
    <2>0. /\ cleaner.at = "hash" /\ p \in Paths /\ c \in Contents
          /\ byHash' = byHash \ {c}
          /\ \/ cleaner' = AtRest
             \/ /\ cleaner'.at = "source" /\ cleaner'.path = p
                /\ cleaner'.record = cleaner.record
          /\ UNCHANGED <<processVars, diskVars, records, sources, lockVars, pc, historyVars>>
      BY <1>0, <1>9 DEF DropHash
    <2>1. c \notin raced => records[c] = NoRecord
      BY <2>0 DEF Cleaning
    <2>2. ServiceTypeOK'
      BY <1>0, <1>9, <2>0 DEF DropHash
    <2>3. Roles' /\ Absent' /\ OneWriter' /\ TempsKept' /\ FilesWhole'
      BY <1>0, <2>0 DEF Roles, Absent, OneWriter, TempsKept, Direct, FilesWhole
    <2>4. CommitsKept'
      BY <2>0 DEF CommitsKept, HomeOf
    <2>5. BytesBehindRecords'
      BY <2>0 DEF BytesBehindRecords
    <2>6. Indexed' /\ Promises'
      BY <1>0, <2>0, <2>1 DEF Indexed, Promises, Lasting
    <2>7. Settled'
      BY <1>0, <2>0, <2>1 DEF Settled, InTheWorks
    <2>8. Cleaning'
      BY <1>0, <2>0 DEF Cleaning
    <2>9. OnePreview' /\ PartialsKept' /\ PreviewsWhole'
      BY <2>0 DEF OnePreview, PartialsKept, Partial, PreviewsWhole
    <2> QED
      BY <2>2, <2>3, <2>4, <2>5, <2>6, <2>7, <2>8, <2>9
  <1> QED
    BY <1>2, <1>3, <1>4, <1>5, <1>6, <1>7, <1>8, <1>9 DEF CleanerStep

\* Time passes, and the process starts or ends.
LEMMA ProcessInv ==
    ASSUME IndInv, UNCHANGED source, Start \/ Crash \/ \E p \in Paths : Age(p)
    PROVE  IndInv'
  <1> USE DEF IndInv, ServiceTypeOK, TypeOK
  <1>0. /\ AtRest.at = "rest" /\ AtRest.record = NoRecord /\ NoRecord.dir = "none"
        /\ \A x \in Contents : <<"none", x>> \notin stale /\ <<"none", x>> \notin Paths
        /\ \A rec \in Records : rec.dir \in Directories
        /\ Downloads \subseteq Requests /\ Previews \subseteq Requests
        /\ \A rec \in Records : rec # NoRecord
    BY DEF AtRest, NoRecord, Paths, Directories, Records, Requests
  <1>1. \* What an idle process keeps, whatever it starts with.
        ASSUME Idle', ServiceTypeOK', Absent', raced' = raced, FilesWhole', PreviewsWhole',
               BytesBehindRecords', Promises',
               \A x \in Contents \ raced : x \in byHash' <=> records'[x] # NoRecord
        PROVE  IndInv'
    <2>1. /\ cleaner'.at = "rest" /\ cleaner'.record = NoRecord
          /\ \A r \in Requests : pc'[r] \in {"new", "done", "failed"}
      BY <1>0, <1>1 DEF Idle, Ended
    <2>2. Roles' /\ OneWriter' /\ TempsKept' /\ CommitsKept' /\ OnePreview' /\ PartialsKept'
      BY <1>0, <2>1 DEF Roles, OneWriter, TempsKept, CommitsKept, OnePreview, PartialsKept,
        Previewing, Temped
    <2>3. Indexed' /\ Cleaning'
      BY <1>1, <2>1 DEF Indexed, Cleaning
    <2>4. \A x : ~InTheWorks(x)'
      BY <2>1 DEF InTheWorks, Committing
    <2>5. Settled'
      BY <1>0, <1>1, <2>4 DEF Settled, Paths, Directories
    <2> QED
      BY <1>1, <2>2, <2>3, <2>5
  <1>2. CASE \E p \in Paths : Age(p)
    <2> USE DEF processVars, indexVars, lockVars, historyVars
    <2>0. /\ Idle /\ stale' \subseteq Paths /\ stale' \in SUBSET Paths
          /\ UNCHANGED <<processVars, files, temps, indexVars, lockVars, pc, cleaner, historyVars>>
      BY <1>2 DEF Age
    <2>1. ServiceTypeOK' /\ Absent' /\ Idle'
      BY <2>0 DEF Absent, Idle
    <2>2. FilesWhole' /\ PreviewsWhole' /\ BytesBehindRecords' /\ Promises'
      BY <2>0 DEF FilesWhole, PreviewsWhole, BytesBehindRecords, Promises, Lasting
    <2>3. \A x \in Contents \ raced : x \in byHash <=> records[x] # NoRecord
      BY <1>0, <2>0 DEF Indexed, Idle, Ended
    <2> QED
      BY <1>1, <2>0, <2>1, <2>2, <2>3
  <1>3. CASE Start
    <2> USE DEF diskVars, lockVars, historyVars
    <2>0. /\ Idle /\ phase # "up" /\ starts' \in 0..MaxStarts
          /\ UNCHANGED <<diskVars, sources, lockVars, pc, cleaner, historyVars>>
          /\ LoadsExisting \/ LoadRaises
      BY <1>3, MediaAssumption DEF Start, Absent
    <2>1. Idle' /\ FilesWhole' /\ PreviewsWhole'
      BY <2>0 DEF Idle, FilesWhole, PreviewsWhole
    <2>9. starts' # 0 /\ promised \cap Lasting' \subseteq Lasting \cap Recognised
      <3>1. starts \in Nat /\ starts' = starts + 1
        BY <1>3, MediaAssumption DEF Start
      <3>2. starts = 0 => promised = {}
        BY DEF Promises
      <3> QED
        BY <2>0, <3>1, <3>2 DEF Lasting
    <2>2. CASE LoadsExisting
      <3> DEFINE In(d) == [dir |-> d, url |-> NoUrl]
      <3>1. In("uploads") \in Records /\ In("downloads") \in Records
        BY DEF Records, Directories
      <3>2. \A x \in Contents :
              /\ records'[x] \in {In("uploads"), In("downloads"), NoRecord}
              /\ records'[x] # NoRecord => files[<<records'[x].dir, x>>] = "whole"
              /\ records'[x] = NoRecord /\ x \in Recognised =>
                     \A d \in Directories : files[<<d, x>>] # "whole"
        BY <1>0, <2>2, <3>1 DEF LoadsExisting, Directories
      <3>3. records' \in [Contents -> Records \cup {NoRecord}] /\ byHash' \subseteq Contents
        BY <2>2, <3>1, MediaAssumption DEF LoadsExisting
      <3>4. ServiceTypeOK' /\ Absent'
        BY <2>0, <2>2, <3>3 DEF Absent, LoadsExisting
      <3>5. BytesBehindRecords' /\ Promises'
        <4>1. phase' = "up"
          BY <2>2 DEF LoadsExisting
        <4>2. BytesBehindRecords'
          BY <2>0, <3>2 DEF BytesBehindRecords
        <4>3. \A x \in (promised \cap Lasting) \ raced :
                  \E d \in Directories : files[<<d, x>>] = "whole"
          BY <2>0 DEF Promises, Lasting
        <4>4. \A x \in (promised' \cap Lasting') \ raced' : records'[x] # NoRecord
          <5> SUFFICES ASSUME NEW x \in (promised \cap Lasting') \ raced
                       PROVE  records'[x] # NoRecord
            BY <2>0
          <5>1. \E d \in Directories : files[<<d, x>>] = "whole"
            BY <2>9, <4>3
          <5> QED BY <2>9, <3>2, <5>1
        <4> QED
          BY <2>9, <4>1, <4>2, <4>4 DEF Promises
      <3>6. \A x \in Contents : x \in byHash' <=> records'[x] # NoRecord
        BY <1>0, <2>2, <3>1 DEF LoadsExisting
      <3> QED
        BY <1>1, <2>0, <2>1, <3>4, <3>5, <3>6
    <2>3. CASE LoadRaises
      <3>1. /\ phase' = "failed" /\ byHash' = {}
            /\ records' = [x \in Contents |-> NoRecord]
        BY <2>3 DEF LoadRaises
      <3>2. ServiceTypeOK' /\ Absent'
        BY <2>0, <2>1, <3>1 DEF Absent
      <3>3. BytesBehindRecords' /\ Promises'
        BY <2>0, <2>9, <3>1 DEF BytesBehindRecords, Promises
      <3> QED
        BY <1>1, <2>0, <2>1, <3>1, <3>2, <3>3
    <2> QED
      BY <2>0, <2>2, <2>3
  <1>4. CASE Crash
    <2> USE DEF historyVars
    <2>0. /\ phase = "up" /\ phase' = "down" /\ cleaner' = AtRest
          /\ \A r \in Requests : pc'[r] \in {"new", "done", "failed"}
          /\ pc' \in [Requests -> Places]
          /\ byHash' = {} /\ records' = [c \in Contents |-> NoRecord]
          /\ UNCHANGED <<starts, stale, historyVars>>
      BY <1>4 DEF Crash, Places, Ended
    <2>1. /\ files' \in [Paths -> FileStates] /\ temps' \in [Urls -> FileStates]
          /\ \A p \in Paths : files[p] \in {"none", "whole"} => files'[p] = files[p]
      BY <1>4, MediaAssumption DEF Crash, FileStates
    <2>2. ServiceTypeOK' /\ Absent' /\ Idle'
      BY <1>4, <2>0, <2>1 DEF Crash, NoSources, NoLocks, NoWants, Absent, Idle, Ended
    <2>3. FilesWhole' /\ PreviewsWhole'
      BY <2>0, <2>1 DEF FilesWhole, PreviewsWhole, Paths
    <2>4. BytesBehindRecords'
      BY <2>0 DEF BytesBehindRecords
    <2>5. Promises'
      <3> SUFFICES ASSUME NEW x \in (promised \cap Lasting) \ raced
                   PROVE  \E d \in Directories : files'[<<d, x>>] = "whole"
        BY <2>0 DEF Promises, Lasting
      <3>1. records[x] \in Records /\ <<records[x].dir, x>> \in Paths
        BY <1>0, <2>0 DEF Promises, Lasting, Paths
      <3>2. ~(cleaner.at = "record" /\ cleaner.path = <<records[x].dir, x>>)
        BY DEF Cleaning
      <3>3. files[<<records[x].dir, x>>] = "whole"
        BY <1>0, <3>1, <3>2 DEF BytesBehindRecords
      <3> QED
        BY <1>0, <2>1, <3>1, <3>3
    <2> QED
      BY <1>1, <2>0, <2>2, <2>3, <2>4, <2>5
  <1> QED
    BY <1>2, <1>3, <1>4

-----------------------------------------------------------------------------

\* The invariant that carries the others: what the commits, the cleaner and the
\* previews that are on their way know of files and records, whoever overlaps.
THEOREM Invariance == ServiceSpec => []IndInv
  <1>1. ServiceInit => IndInv
    <2> SUFFICES ASSUME ServiceInit PROVE IndInv
      OBVIOUS
    <2> USE DEF ServiceInit, Init, IndInv
    <2>1. \A r \in Requests : pc[r] \in {"new", "done"}
      OBVIOUS
    <2>2. ServiceTypeOK
      BY MediaAssumption DEF ServiceTypeOK, TypeOK, FileStates, Places, Ended, NoSources,
        NoLocks, NoWants
    <2>3. Roles /\ Absent /\ OneWriter /\ TempsKept /\ CommitsKept /\ OnePreview /\ PartialsKept
      BY <2>1 DEF Roles, Absent, Idle, Ended, OneWriter, TempsKept, CommitsKept, OnePreview,
        PartialsKept, Previewing, Temped, Requests
    <2>4. FilesWhole /\ PreviewsWhole
      BY DEF FilesWhole, PreviewsWhole, Paths
    <2>5. BytesBehindRecords /\ Indexed /\ Settled /\ Cleaning /\ Promises
      BY DEF BytesBehindRecords, Indexed, Settled, Cleaning, Promises, Lasting, AtRest
    <2> QED
      BY <2>2, <2>3, <2>4, <2>5
  <1>2. IndInv /\ [ServiceNext]_serviceVars => IndInv'
    <2> SUFFICES ASSUME IndInv, [ServiceNext]_serviceVars PROVE IndInv'
      OBVIOUS
    <2>1. ASSUME NEW r \in Requests, ServiceStep(r) PROVE IndInv'
      BY <2>1, UncommittedInv, CommitInv, PreviewInv DEF ServiceStep, RequestStep
    <2>2. CASE CleanerStep /\ UNCHANGED source
      BY <2>2, CleanerInv
    <2>3. CASE (Start \/ Crash \/ \E p \in Paths : Age(p)) /\ UNCHANGED source
      BY <2>3, ProcessInv
    <2>4. CASE UNCHANGED serviceVars
      BY <2>4 DEF serviceVars, vars, processVars, diskVars, indexVars, lockVars, historyVars,
        IndInv, ServiceTypeOK, TypeOK, Roles, Absent, Idle, OneWriter, TempsKept, Direct,
        FilesWhole, CommitsKept, HomeOf, BytesBehindRecords, Indexed, Settled, Cleaning,
        InTheWorks, Promises, Lasting, OnePreview, PartialsKept, Partial, PreviewsWhole
    <2> QED
      BY <2>1, <2>2, <2>3, <2>4 DEF ServiceNext
  <1> QED
    BY <1>1, <1>2, PTL DEF ServiceSpec

\* Every variable keeps its type: no url or media id takes the place of another,
\* and the cleaner has a path and a record whenever it is past its stat().
THEOREM TypeCorrect == ServiceSpec => []ServiceTypeOK
  BY Invariance, PTL DEF IndInv

\* Between requests _by_hash and _records know the same media, so that no commit
\* raises KeyError.
THEOREM Agree == ServiceSpec => []IndexesAgree
  <1>1. IndInv => IndexesAgree
    BY DEF IndInv, Indexed, IndexesAgree, Idle, AtRest, Ended
  <1> QED
    BY <1>1, Invariance, PTL

\* A record has its bytes behind it, but for the moment between unlink() and the
\* removal of the record.
THEOREM Behind == ServiceSpec => []BytesBehindRecords
  BY Invariance, PTL DEF IndInv

\* A media id that a client was given resolves until its file is cleaned up,
\* after any number of crashes and restarts.
THEOREM Resolve == ServiceSpec => []PromisedIdsResolve
  <1>1. IndInv => PromisedIdsResolve
    BY DEF IndInv, Promises, Lasting, PromisedIdsResolve
  <1> QED
    BY <1>1, Invariance, PTL

\* No preview in the cache is ever a part of one, unless one of the three races hit it.
THEOREM Whole == ServiceSpec => []PreviewsWhole
  BY Invariance, PTL DEF IndInv


===============================================================================
