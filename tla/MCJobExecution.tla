--------------------------- MODULE MCJobExecution ---------------------------
(* JobExecution on small instances. *)
EXTENDS JobExecution

MCDuration == [long |-> 5, short |-> 3, odd |-> Unknown]

\* Batches of 3 texts, 2 images or 1 video.
MCLimit == [text |-> 3, image |-> 2, video |-> 1]

Plain(type) ==
    [type |-> type, media |-> "none", chunk |-> 0, overlap |-> 0, from |-> 0, to |-> 0]
Video(v, chunk, overlap) ==
    [Plain("video") EXCEPT !.media = v, !.chunk = chunk, !.overlap = overlap]
Segment(v, from, to) ==
    [Plain("video_segment") EXCEPT !.media = v, !.from = from, !.to = to]

\* A clip that two of the payloads want.
MCWatched == [media |-> "short", from |-> 0, to |-> 2]

Embed(items, asked, top_k) ==
    [kind |-> "embedding", input |-> items, query |-> asked, top_k |-> top_k]
Score(asked, documents, top_k) ==
    [kind |-> "reranking", input |-> documents, query |-> <<asked>>, top_k |-> top_k]

\* Chunks that are as long as the video, longer, or leave a tail of one second,
\* with and without overlap, and those that are refused; segments and clips in
\* common; results cut short.
MCPayloads ==
    {Embed(<<>>, <<Plain("text")>>, 1),
     Embed(<<Plain("text"), Plain("image"), Plain("image"), Plain("image")>>, <<>>, 1),
     Embed(<<Video("long", 2, 2)>>, <<>>, 1), Embed(<<Video("odd", 2, 0)>>, <<>>, 1),
     Embed(<<Video("short", 2, 0), Video("short", 3, 0)>>, <<Plain("text")>>, 8),
     Embed(<<Video("long", 3, 1), Video("short", 4, 0), Plain("text"), Plain("video")>>,
           <<Segment("short", 0, 2)>>, 2),
     Score(Plain("text"), <<Video("long", 3, 0), Segment("short", 0, 2)>>, 1),
     Score(Plain("image"), <<>>, 1), Score(Plain("image"), <<Segment("short", 2, 1)>>, 1)}

=============================================================================
