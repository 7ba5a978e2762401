---------------------------- MODULE MC_Channels ----------------------------
EXTENDS Channels

Url(to, label, kind) == [to |-> to, label |-> label, kind |-> kind]
Entry(title, urls, catchup) == [title |-> title, urls |-> urls, catchup |-> catchup]

\* Channels of one title, one that is called as the second of them would be, one
\* with a second source, and one with a source that the proxy does not know.
Inline ==
    [epg |-> "guideA",
     entries |-> <<Entry(<<"A">>, <<Url("a1", <<>>, "known")>>, None)>>]
First ==
    [epg |-> "guideB",
     entries |-> <<Entry(<<"A">>, <<Url("x1", <<>>, "known"), Url("x2", <<"UHD">>, "known")>>, "x3"),
                   Entry(<<"A", "2">>, <<Url("x4", <<>>, "foreign"), Url("x5", <<>>, "known")>>, None)>>]
Third ==
    [epg |-> None,
     entries |-> <<Entry(<<"A", "2">>, <<Url("x6", <<>>, "known")>>, None),
                   Entry(<<"A">>, <<Url("x7", <<>>, "known")>>, None)>>]
Other == [epg |-> "guideA", entries |-> <<Entry(<<"B">>, <<Url("y1", <<>>, "known")>>, None)>>]

SomeLists == [listX |-> <<First, [epg |-> None, entries |-> <<>>], Third>>, listY |-> <<Other>>]
SomeGuides == [guideA |-> 1, guideB |-> 2]
SomeGzipped == {<<"guideB", 2>>}
Delays == <<1, 2>>

Config(url, interval, inline) == [url |-> url, interval |-> interval, inline |-> inline]
SomeConfigs == {Config("listX", 2, Inline), Config("listY", 0, None), Config(None, 2, Inline)}
=============================================================================
