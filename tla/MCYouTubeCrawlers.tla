------------------------- MODULE MCYouTubeCrawlers --------------------------
EXTENDS YouTubeCrawlers, TLC

CONSTANTS s1, s2, s3, p1, p2, v1, v2, v3, v4

MCShorts == {s1, s2, s3}
MCPositions == {p1, p2}

\* Lists of up to four entries.  Videos differ in nothing but their names, so lists
\* in which they first occur in this order are enough.
MCVideos == <<v1, v2, v3, v4>>
MCInputs ==
    {raw \in UpTo(4, ToSet(MCVideos) \cup {Blank, Malformed}) :
        \A n \in DOMAIN raw : \A k \in 2 .. 4 :
            raw[n] = MCVideos[k] => \E m \in 1 .. n - 1 : raw[m] = MCVideos[k - 1]}
MCVideoSet == ToSet(MCVideos)
=============================================================================
