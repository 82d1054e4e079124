------------------------ MODULE MCYouTubeOperations -------------------------
(* Two callers, an operation or two of every kind, and a cache that can hold two  *)
(* of their results: whatever one request leaves there, another may find.        *)
EXTENDS YouTubeOperations, TLC

CONSTANTS c1, c2

Wish(op, about, option, limit) ==
    [op |-> op, about |-> about, option |-> option, limit |-> limit]

MCLower == "@Artist" :> "@artist" @@ "@artist" :> "@artist"
MCSearchTopics == "gaming" :> [about |-> "q", option |-> "view_count"]
MCWishes ==
    {Wish("search", "q", "view_count", 0), Wish("search", "q", "relevance", 0),
     Wish("search", Blank, "relevance", 0), Wish("live", Blank, Absent, 0),
     Wish("topic", "gaming", Absent, 0), Wish("topic", "music", Absent, 0),
     Wish("shorts", Absent, Absent, -1), Wish("channel_videos", "@Artist", Absent, 0),
     Wish("playlist_videos", "RD1", Absent, 9)}

Symmetry == Permutations({c1, c2})
=============================================================================
