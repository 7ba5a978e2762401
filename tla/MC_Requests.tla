---- MODULE MC_Requests ----
EXTENDS Requests

MCFields == <<"maxclients", "hostname", "xff", "r2h-token", "workers", "status-page-path", "player-page-path",
              "app-path-prefix", "cors-allow-origin", "setting-page-path", "web-auth-user", "web-auth-password",
              "web-auth-require-local">>
MCDefault == [k \in ToSet(MCFields) |->
    CASE k = "maxclients" -> "5" [] k = "workers" -> "1" [] k \in Flags -> "off" [] k = "status-page-path" -> "/status"
      [] k = "player-page-path" -> "/player" [] k = "setting-page-path" -> "/setting" [] OTHER -> ""]
MCNormal == "tv" :> "/tv" @@ "st/" :> "/st"
MCSegments == "/status" :> <<"status">> @@ "/player" :> <<"player">> @@ "/setting" :> <<"setting">>
    @@ "/tv" :> <<"tv">> @@ "/st" :> <<"st">> @@ "/" :> <<>>

S(k, v) == SetLine(k, v)
H(n) == HeadLine(n)
B(n, p) == BindLine([node |-> n, port |-> p])
Note == [l |-> "note", id |-> 1]
M(top, id) == [l |-> "m3u", top |-> top, id |-> id]
Opt(k, v) == [o |-> "set", key |-> k, v |-> v]

F1 == <<Note, H("global"), S("maxclients", "7"), Note, S("r2h-token", "t1"), S("maxclients", "bad"),
        H("bind"), B("*", "80"), B("h", "81"), B("/s", ""), H("services"), M(TRUE, 1), M(FALSE, 2)>>
F2 == <<H("services"), M(TRUE, 1), M(FALSE, 2), H("global"), S("app-path-prefix", "tv"), S("other", "x"),
        H("bind"), B("*", "5140"), H("global"), S("app-path-prefix", ""), S("xff", "on"), S("workers", "7"),
        S("status-page-path", "st/")>>
\* Lists in the last section, and in the last but one.
F3 == <<H("global"), S("maxclients", "7"), H("services"), M(TRUE, 1), M(FALSE, 2)>>
F4 == <<H("services"), M(TRUE, 1), M(FALSE, 2), H("global"), S("xff", "on")>>
\* What requests meet: every gate, and a root page.
W1 == <<H("global"), S("r2h-token", "a$b"), S("app-path-prefix", "tv"), S("web-auth-user", "u"),
        S("web-auth-password", "p"), S("xff", "on"), S("status-page-path", "/"), S("cors-allow-origin", "*"),
        S("hostname", "h"), H("bind"), B("*", "80"), H("services"), M(TRUE, 1), M(FALSE, 2), M(FALSE, 3), M(FALSE, 4)>>
W2 == <<H("global"), S("web-auth-user", "u"), S("web-auth-password", "p"), S("web-auth-require-local", "on")>>
W3 == <<S("web-auth-user", "u")>>
MCFiles == {F1, F2, F3, F4, <<>>, W1, W2, W3}

Both == <<Opt("r2h-token", "t2"), [o |-> "config"], Opt("workers", "2"), Opt("maxclients", "bad")>>
Ports == <<[o |-> "listen", at |-> [node |-> "v6", port |-> "90"]],
           [o |-> "listen", at |-> [node |-> "/s", port |-> ""]], Opt("xff", "on"), Opt("status-page-path", "st/")>>
MCCommands == [f \in MCFiles |-> CASE f \in {F1, F2} -> {<<>>, Both, Ports} [] OTHER -> {<<>>}]

Whole(edits, listen) == [whole |-> TRUE, edits |-> edits, listen |-> listen]
Some(edits) == [whole |-> FALSE, edits |-> edits, listen |-> <<>>]
Form1 == Whole(<<>>, <<>>)
Form2 == Whole("r2h-token" :> "t3" @@ "maxclients" :> "bad" @@ "app-path-prefix" :> "tv",
               <<[shape |-> "bracketed", host |-> "v6", port |-> "80"]>>)
Form3 == Some("r2h-token" :> "" @@ "web-auth-user" :> "u")
FormW == Some("r2h-token" :> "t" @@ "web-auth-require-local" :> "on" @@ "xff" :> "off")
MCForms == [f \in MCFiles |->
    CASE f \in {F1, F2, <<>>} -> {Form1, Form2, Form3}
      [] f \in {F3, F4} -> {Form1} [] f = W2 -> {FormW} [] OTHER -> {}]
MCMaxSaves == [f \in MCFiles |-> CASE f = W1 -> 0 [] OTHER -> 2]

Get == [head |-> 1, bad |-> 0, length |-> 0, extra |-> 0, method |-> "GET", path |-> <<>>, slashless |-> FALSE,
        undecodable |-> FALSE, unmergeable |-> FALSE, host |-> "h", hops |-> <<>>, query |-> "", cookie |-> "",
        ua |-> "", bare |-> FALSE, auth |-> <<>>, from |-> "near", etag |-> "none", body |-> "good", form |-> NoForm]
Post == [Get EXCEPT !.method = "POST", !.length = 1]
SaveReq(f) == [Post EXCEPT !.path = <<"setting", "api", "save-config">>, !.form = f, !.query = "t1"]

To(path) == [Get EXCEPT !.path = path, !.cookie = "a$b"]
Pieces == {[Post EXCEPT !.head = h, !.length = b, !.extra = x, !.path = <<"api", "clear-logs">>, !.cookie = "a$b"] :
              h \in 1..3, b \in {0, 1, 3, 4}, x \in 0..1} \cup {[Get EXCEPT !.head = 2, !.bad = 2]}
Paths1 == {To(p) : p \in {<<>>, <<"tv">>, <<"tv", "player">>, <<"player">>, <<"sse">>, <<"status.webmanifest">>,
    <<"tv", "setting", "api", "get-config">>, <<"setting">>, <<"api", "nothing">>, <<"setting", "api", "nothing">>,
    <<"playlist.m3u">>, <<"epg.xml">>, <<"tv", "epg.xml.gz">>, <<"ch">>, <<"tv", "web">>, <<"nothing">>,
    <<"rtp", "x">>, <<"assets", "a">>, <<"assets", "b">>, <<"assets", "c">>}}
Odd == {[To(<<"rt">>) EXCEPT !.method = "HEAD"], [To(<<"ch">>) EXCEPT !.method = "HEAD"],
        [To(<<"web">>) EXCEPT !.unmergeable = TRUE], [To(<<"web">>) EXCEPT !.undecodable = TRUE],
        [To(<<"x">>) EXCEPT !.slashless = TRUE], [To(<<"x">>) EXCEPT !.host = ""], [Get EXCEPT !.method = "OPTIONS"],
        [To(<<"assets", "b">>) EXCEPT !.etag = "match"], [To(<<"epg.xml">>) EXCEPT !.etag = "match"],
        [To(<<"x">>) EXCEPT !.hops = <<"banned", "far">>]}
Apis == {[To(<<"api", n>>) EXCEPT !.method = mm, !.body = b] : n \in {"disconnect", "log-level"}, mm \in {"POST", "PUT"}, b \in {"good", "bad"}}
Tokens == {[Get EXCEPT !.path = <<"playlist.m3u">>, !.query = q, !.cookie = ck, !.ua = u] :
              q \in {"", "a$b", "t", "t$b"}, ck \in {"", "a$b", "t"}, u \in {"", "t", "a$b"}}
Creds == {[To(p) EXCEPT !.from = fr, !.hops = hs, !.auth = au] : p \in {<<"setting">>, <<"api", "log-level">>, <<"web">>},
              fr \in {"near", "far", "unix"}, hs \in {<<>>, <<"near", "far">>, <<"far", "near">>},
              au \in {<<>>, <<"u", "p">>, <<"u", "x">>}}
Saves(fs) == {SaveReq(f) : f \in fs}
Changing == {[SaveReq(FormW) EXCEPT !.auth = au, !.length = b, !.method = mm] :
                b \in 0..1, mm \in {"POST", "GET"}, au \in {<<>>, <<"u", "p">>}}
    \cup {[Get EXCEPT !.path = p, !.auth = au, !.cookie = t] :
                p \in {<<"status">>, <<"nothing">>}, au \in {<<>>, <<"u", "p">>}, t \in {"", "t", "t1"}}
Signalling == {[Post EXCEPT !.path = <<"status", "api", n>>, !.method = mm] :
                  n \in {"reload-config", "restart-workers"}, mm \in {"POST", "PUT"}}
MCRequests == [f \in MCFiles |->
    CASE f = W1 -> Pieces \cup Paths1 \cup Odd \cup Apis \cup Tokens \cup Creds
      [] f = W2 -> Changing [] f = W3 -> Signalling
      [] f = F1 -> Saves({Form2}) [] f = F2 -> Saves({Form1, Form3}) [] OTHER -> {}]
MCServices == 2 :> [path |-> <<"ch">>, kind |-> "multicast"] @@ 3 :> [path |-> <<"web">>, kind |-> "http"]
    @@ 4 :> [path |-> <<"rt">>, kind |-> "rtsp"]
MCDynamic == "rtp" :> "multicast" @@ "rtsp" :> "rtsp"
MCAssets == <<"a">> :> TRUE @@ <<"b">> :> FALSE
MCHosts == "h" :> "h"
MCLabels == "a$b" :> "a" @@ "t$b" :> "t"
====
