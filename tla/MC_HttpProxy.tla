---------------------------- MODULE MC_HttpProxy ----------------------------
EXTENDS HttpProxy

\* The instance is one that PausedHasWaker is proved for.
ASSUME FillsHolds == Fills

Media(framing, size) ==
    [head |-> FALSE, m3u |-> FALSE, fits |-> TRUE, valid |-> TRUE,
     framing |-> framing, size |-> size]

Playlist(framing, size) == [Media(framing, size) EXCEPT !.m3u = TRUE]

AllResponses ==
    {Media("length", 15), Media("close", 15),
     [Media("length", 3) EXCEPT !.head = TRUE],
     [Media("length", 3) EXCEPT !.fits = FALSE],
     [Media("length", 3) EXCEPT !.valid = FALSE],
     Playlist("length", 6), Playlist("chunked", 6), Playlist("close", 9)}
=============================================================================
