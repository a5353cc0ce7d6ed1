--------------------------- MODULE BrowserPreview ---------------------------
(***************************************************************************)
(* MediaStore with its previews: GET /media/{id}/preview, MediaStore.preview *)
(* and browser_preview.py.  Each preview runs on a thread of its own and   *)
(* transcodes a video whose codec browsers do not play to a temporary path *)
(* that depends on nothing but the media id, next to its place in the      *)
(* cache.  Cleanup visits both paths as any other.                         *)
(***************************************************************************)
EXTENDS MediaStore

CONSTANT BrowserSafe    \* videos that are shown as they are

ASSUME PreviewAssumption == BrowserSafe \subseteq Videos

VARIABLE source     \* the directory of the record that a preview has found

serviceVars == <<vars, source>>

ServiceTypeOK == TypeOK /\ source \in [Previews -> Directories \cup {"none"}]

ServiceInit == Init /\ source = [r \in Previews |-> "none"]

Target(r) == <<"preview", contentOf[r]>>
Partial(r) == <<"partial", contentOf[r]>>

-----------------------------------------------------------------------------

\* The record is looked up, but its file is not touched: that a video is watched
\* does not keep it.
BeginPreview(r) ==
    LET record == records[contentOf[r]]
    IN /\ r \in Previews /\ pc[r] = "new" /\ phase = "up"
       /\ source' = [source EXCEPT ![r] = record.dir]
       /\ Go(r, IF record = NoRecord THEN "failed"
                ELSE IF contentOf[r] \in Videos THEN "probe" ELSE "done")
       /\ UNCHANGED <<processVars, diskVars, indexVars, lockVars, cleaner, historyVars>>

\* ffprobe names the codec, or fails if the file is gone or not readable.
ProbeCodec(r) ==
    LET file == files[<<source[r], contentOf[r]>>]
    IN /\ pc[r] = "probe"
       /\ \/ file # "whole" /\ Go(r, "failed")
          \/ /\ file # "none"
             /\ Go(r, IF contentOf[r] \in BrowserSafe THEN "done"
                      ELSE IF files[Target(r)] # "none" THEN "send" ELSE "transcode")
       /\ UNCHANGED <<processVars, diskVars, indexVars, lockVars, cleaner, historyVars,
                      source>>

\* ffmpeg -y opens the temporary path, which another preview may have open too.
TranscodeTo(r, path) ==
    /\ pc[r] = "transcode"
    /\ files[<<source[r], contentOf[r]>>] # "none"
    /\ files' = [files EXCEPT ![path] = r]
    /\ stale' = stale \ {path}
    /\ raced' = raced \cup {c \in {contentOf[r]} : \E q \in Previews \ {r} :
           contentOf[q] = c /\ pc[q] \in {"encode", "replace"}}
    /\ Go(r, "encode")
    /\ UNCHANGED <<processVars, temps, indexVars, lockVars, cleaner, promised, source>>

\* Mutant: ffmpeg writes to the place in the cache, as it does for clips.
TranscodeInPlace(r) == TranscodeTo(r, Target(r))

Transcode(r) == TranscodeTo(r, Partial(r))

\* What comes of a video that a race has damaged is open.
Encoded(r) ==
    /\ pc[r] = "encode"
    /\ \/ Written(r, "whole")
       \/ contentOf[r] \in raced /\ Written(r, "torn")
    /\ Go(r, "replace")
    /\ UNCHANGED <<processVars, stale, indexVars, lockVars, cleaner, historyVars, source>>

\* The video is gone, or ffmpeg fails on the way.
EncodeFails(r) ==
    /\ pc[r] \in {"transcode", "encode"}
    /\ Written(r, "torn")
    /\ Raise(r)
    /\ UNCHANGED <<processVars, stale, indexVars, lockVars, cleaner, raced, source>>

\* temporary.replace(target), unless another preview or the cleaner was quicker.
Replace(r) ==
    /\ pc[r] = "replace"
    /\ IF files[Partial(r)] = "none"
       THEN Go(r, "failed") /\ UNCHANGED <<files, stale>>
       ELSE /\ files' = [files EXCEPT ![Target(r)] = files[Partial(r)],
                                      ![Partial(r)] = "none"]
            /\ stale' = stale \ {Target(r), Partial(r)}
            /\ Go(r, "send")
    /\ UNCHANGED <<processVars, temps, indexVars, lockVars, cleaner, historyVars, source>>

\* FileResponse looks for the file once more.
Send(r) ==
    /\ pc[r] = "send"
    /\ Go(r, IF files[Target(r)] = "none" THEN "failed" ELSE "done")
    /\ UNCHANGED <<processVars, diskVars, indexVars, lockVars, cleaner, historyVars,
                   source>>

ServiceStep(r) ==
    \/ RequestStep(r) /\ UNCHANGED source
    \/ BeginPreview(r) \/ ProbeCodec(r) \/ Transcode(r)
    \/ Encoded(r) \/ EncodeFails(r) \/ Replace(r) \/ Send(r)

ServiceNext ==
    \/ \E r \in Requests : ServiceStep(r)
    \/ CleanerStep /\ UNCHANGED source
    \/ (Start \/ Crash \/ \E p \in Paths : Age(p)) /\ UNCHANGED source

\* As in MediaStore; ffprobe and ffmpeg end.
ServiceSpec ==
    /\ ServiceInit /\ [][ServiceNext]_serviceVars
    /\ WF_serviceVars(\E r \in Requests : pc[r] # "new" /\ ServiceStep(r))
    /\ WF_serviceVars(CleanerStep /\ UNCHANGED source)

-----------------------------------------------------------------------------

\* A preview in the cache is complete, whatever crashes, failed transcodings and
\* cleanups came before it, and is so from its first moment: what is there is
\* sent to everybody until it expires.  Not so if two previews of one video have
\* been written at the same time.
PreviewsWhole ==
    \A c \in Contents \ raced : files[<<"preview", c>>] \in {"none", "whole"}

=============================================================================
