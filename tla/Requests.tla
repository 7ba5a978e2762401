------------------------------ MODULE Requests ------------------------------
(***************************************************************************)
(* One worker and its clients' requests: reading one that arrives in       *)
(* pieces, the gates it passes, and where it is routed (connection.c,      *)
(* http.c, fork_web.c, the handlers of status.c and embedded_web.c), over  *)
(* the configuration of the module Settings, which a request can change.   *)
(*                                                                         *)
(* A request is a record: the units its head and its body take, the        *)
(* segments of its path, and what it carries to be let in.  What is read   *)
(* but decides nothing (names, formatting, display) is left out; an answer *)
(* is its code and what it gives, and is then on its way: how it leaves    *)
(* the send queue is the module Connection, streams are the modules of     *)
(* their protocols.                                                        *)
(***************************************************************************)
EXTENDS Settings

CONSTANTS
    Here,       \* the worker
    Inbuf,      \* INBUF_SIZE, in units
    BodyMax,    \* HTTP_REQUEST_BODY_MAX_SIZE, in units
    Requests,   \* [file started with -> the requests of clients]
    Segments,   \* [kept path of a page, or prefix -> its segments]
    Hosts,      \* [hostname setting -> the host it names]
    Labels,     \* [value with a '$' -> the part before it]
    Local,      \* addresses of the local network
    Banned,     \* addresses that were just disconnected
    Services,   \* [line of the inline list -> its path and kind]
    Dynamic,    \* [first segment of a udpxy path -> kind of service], {} with --noudpxy
    Assets,     \* [embedded file -> whether its name has a hash]
    Guide       \* what the EPG cache holds: "none", "plain" or "gzip"

ASSUME RequestsAssumption == Here \in Workers /\ Inbuf \in Nat \ {0} /\ BodyMax \in Nat /\ DOMAIN Requests = Files

VARIABLE conn   \* the connection

vars == <<settingsVars, conn>>

NoConn == [at |-> "none", req |-> <<>>, sent |-> 0, net |-> 0, edge |-> FALSE, in |-> 0, headed |-> FALSE,
           body |-> 0, keeps |-> {}, left |-> FALSE, answer |-> "none", what |-> "none"]
Dropped(at) == [NoConn EXCEPT !.at = at]

Conf == proc[Here].conf
-----------------------------------------------------------------------------
(* The gates.                                                              *)

Cut(v) == IF v \in DOMAIN Labels THEN Labels[v] ELSE v

HostAccepted(r) ==
    \/ Conf["hostname"] = ""
    \/ Conf["hostname"] \in DOMAIN Hosts /\ r.host # "" /\ r.host = Hosts[Conf["hostname"]]

\* The address a client goes by: the first hop, which it may have made up.
AddressOf(r) ==
    IF (Conf["hostname"] # "" \/ Conf["xff"] = "on") /\ r.hops # <<>> THEN Head(r.hops) ELSE r.from

\* Bare paths stay reachable when a prefix is set.
StrippedPath(r) ==
    LET prefix == IF Conf["app-path-prefix"] = "" THEN <<>> ELSE Segments[Conf["app-path-prefix"]]
    IN  IF IsPrefix(prefix, r.path) THEN SubSeq(r.path, Len(prefix) + 1, Len(r.path)) ELSE r.path

\* The first source that has a token decides.
TokenSource(r) == CASE r.query # "" -> "query" [] r.cookie # "" -> "cookie" [] r.ua # "" -> "ua" [] OTHER -> "none"

TokenAccepted(r) ==
    LET token == Conf["r2h-token"]
    IN  CASE TokenSource(r) = "query" -> Cut(r.query) = token \/ (token \in DOMAIN Labels /\ r.query = token)
          [] TokenSource(r) = "cookie" -> r.cookie = token
          [] TokenSource(r) = "ua" -> r.ua = token
          [] OTHER -> FALSE

PageRoute(k) == Segments[Conf[k]]
StatusRoute == PageRoute("status-page-path")
SettingRoute == PageRoute("setting-page-path")
Under(route, path) == IsStrictPrefix(route, path)

\* Behind a proxy of the local network the last hop counts, which that proxy added.
IsClientLocalByFirstHop(r) ==
    r.from \in Local /\ (Conf["xff"] = "on" /\ r.hops # <<>> => Head(r.hops) \in Local)

IsClientLocal(r) ==
    r.from \in Local /\ (Conf["xff"] = "on" /\ r.hops # <<>> => Last(r.hops) \in Local)

InWebAuthScope(path) ==
    \/ path \in {StatusRoute, Append(StatusRoute, "sse"), PageRoute("player-page-path"), SettingRoute}
    \/ Under(Append(StatusRoute, "api"), path) \/ Under(Append(SettingRoute, "api"), path)

WebAuthOn == Conf["web-auth-user"] # "" /\ Conf["web-auth-password"] # ""
WebAuthValid(r) == r.auth = <<Conf["web-auth-user"], Conf["web-auth-password"]>>
WebAuthAccepted(r, path) ==
    \/ ~WebAuthOn \/ ~InWebAuthScope(path) \/ WebAuthValid(r)
    \/ Conf["web-auth-require-local"] # "on" /\ IsClientLocal(r)
-----------------------------------------------------------------------------
(* Where a request goes: the outcomes it can have.                         *)

Gives(what, code) == [what |-> what, answer |-> code, at |-> "answered"]
Refusal(code) == Gives("refusal", code)
Page(what) == {Gives(what, "200")}

\* If-None-Match.
Revalidated(r, what) == {Gives(what, IF r.etag = "match" THEN "304" ELSE "200")}

AssetOutcome(r, path) ==
    CASE Tail(path) \notin DOMAIN Assets -> {Refusal("404")}
      [] Assets[Tail(path)] -> Page("asset")
      [] OTHER -> Revalidated(r, "asset")

PlaylistOutcome(r) ==
    IF proc[Here].list = <<>> THEN {Refusal("404")} ELSE Revalidated(r, "playlist")

GuideOutcome(r, gz) ==
    IF Guide = "none" \/ (gz /\ Guide # "gzip") THEN {Refusal("404")} ELSE Revalidated(r, "guide")

Allowed(r, methods, codes) ==
    {IF r.method \in methods THEN Gives("api", code) ELSE Gives("api", "400") : code \in codes}

Signals(r, name) == IF r.method = "POST" THEN {[Gives("api", "200") EXCEPT !.at = name]} ELSE {Gives("api", "400")}

StatusApi(r, name) ==
    CASE name = <<"disconnect">> -> Allowed(r, {"POST", "DELETE"}, {IF r.body = "good" THEN "200" ELSE "400"})
      [] name = <<"log-level">> -> Allowed(r, {"PUT", "PATCH"}, {IF r.body = "good" THEN "200" ELSE "400"})
      [] name = <<"clear-logs">> -> Allowed(r, {"POST"}, {"200", "503"})
      [] name = <<"reload-config">> -> Signals(r, "HUP")
      [] name = <<"restart-workers">> -> Signals(r, "USR1")
      [] OTHER -> {Refusal("404")}

SaveOutcome(r) ==
    IF r.method = "POST" /\ r.length > 0 /\ Acceptable(Posted(Here, r.form))
    THEN {[what |-> "save", answer |-> "none", at |-> "saving"]}
    ELSE {Gives("save", "400")}

SettingApi(r, name) ==
    CASE name = <<"get-config">> -> Page("get-config")
      [] name = <<"save-config">> -> SaveOutcome(r)
      [] OTHER -> {Refusal("404")}

\* The kind of service a path leads to, as a set that is empty if none.
ServicesAt(path) ==
    LET listed == {ln.id : ln \in ToSet(proc[Here].list)} \cap DOMAIN Services
        named == {Services[id].kind : id \in {i \in listed : Services[i].path = path}}
    IN  IF named # {} \/ path = <<>> \/ path[1] \notin DOMAIN Dynamic THEN named ELSE {Dynamic[path[1]]}

Streams(what) == {Refusal("503"), [what |-> what, answer |-> "none", at |-> "streaming"]}

ServiceOutcome(r, path) ==
    CASE r.undecodable -> {Refusal("400")}
      [] ServicesAt(path) = {} -> {Refusal("404")}
      [] r.unmergeable -> {Refusal("500")}
      [] r.method = "HEAD" /\ "multicast" \in ServicesAt(path) -> Page("service")
      [] OTHER -> Streams("service")

PageOutcome(r, path) ==
    CASE path \in {<<"status.webmanifest">>, <<"player.webmanifest">>} -> Page("manifest")
      [] ~WebAuthAccepted(r, path) -> {Refusal("401")}
      [] path = SettingRoute -> Page("setting")
      [] Under(Append(SettingRoute, "api"), path) ->
            SettingApi(r, SubSeq(path, Len(SettingRoute) + 2, Len(path)))
      [] path = StatusRoute -> Page("status")
      [] path = PageRoute("player-page-path") -> Page("player")
      [] path = <<"playlist.m3u">> -> PlaylistOutcome(r)
      [] path \in {<<"epg.xml">>, <<"epg.xml.gz">>} -> GuideOutcome(r, path = <<"epg.xml.gz">>)
      [] path = Append(StatusRoute, "sse") -> Page("sse")
      [] Under(Append(StatusRoute, "api"), path) ->
            StatusApi(r, SubSeq(path, Len(StatusRoute) + 2, Len(path)))
      [] OTHER -> ServiceOutcome(r, path)

Outcomes(r) ==
    LET path == StrippedPath(r)
    IN  CASE r.slashless \/ ~HostAccepted(r) -> {Refusal("400")}
          [] AddressOf(r) \in Banned -> {Refusal("429")}
          [] Conf["cors-allow-origin"] # "" /\ r.method = "OPTIONS" -> {Gives("preflight", "204")}
          [] Len(path) > 1 /\ path[1] = "assets" -> AssetOutcome(r, path)
          [] Conf["r2h-token"] # "" /\ ~TokenAccepted(r) -> {Refusal("401")}
          [] OTHER -> PageOutcome(r, path)
-----------------------------------------------------------------------------
(* Reading.  The event comes once for what has arrived since the last one. *)

Open == conn.at \in {"waiting", "handling"}
Units(r) == r.head + r.length + r.extra

Arrive(r) ==
    /\ conn.at \in {"none", "over", "lost"}
    /\ r.form # NoForm => saves < MaxSaves[origin]
    /\ conn' = [NoConn EXCEPT !.at = "waiting", !.req = r] /\ UNCHANGED settingsVars

ClientSends ==
    /\ Open /\ ~conn.left /\ conn.sent < Units(conn.req)
    /\ conn' = [conn EXCEPT !.sent = @ + 1, !.net = @ + 1, !.edge = TRUE]
    /\ UNCHANGED settingsVars

ClientLeaves ==
    /\ conn.at \in {"waiting", "handling", "streaming"} /\ ~conn.left
    /\ conn' = [conn EXCEPT !.left = TRUE] /\ UNCHANGED settingsVars

\* Hanging up closes the connection whatever has arrived.
HangUp ==
    /\ conn.at \in {"waiting", "streaming"} /\ conn.left
    /\ conn' = Dropped("over") /\ UNCHANGED settingsVars

Wake ==
    /\ conn.at = "waiting" /\ conn.edge /\ ~conn.left
    /\ conn' = [conn EXCEPT !.at = "handling", !.edge = FALSE] /\ UNCHANGED settingsVars

\* What a proxied source will be sent of what the client carries, filtered as the head is read.
KeptHeaders(r) ==
    {h \in {"password", "cookie", "ua"} :
        CASE h = "password" -> r.auth # <<>>
          [] h = "cookie" -> r.cookie # "" /\ Conf["r2h-token"] = ""
          [] h = "ua" -> r.ua # "" /\ (r.bare \/ Conf["r2h-token"] = "")}

HeadParsed(c) ==
    CASE c.headed -> c
      [] c.req.bad \in 1..c.in \/ (c.in < c.req.head /\ c.in >= Inbuf) -> Dropped("over")
      [] c.in < c.req.head -> c
      [] OTHER -> [c EXCEPT !.headed = TRUE, !.in = @ - c.req.head, !.keeps = KeptHeaders(c.req)]

BodyParsed(c) ==
    CASE ~c.headed -> c
      [] c.req.length > BodyMax -> Dropped("over")
      [] OTHER -> LET n == Min({c.in, c.req.length - c.body})
                  IN  [c EXCEPT !.in = @ - n, !.body = @ + n,
                                !.at = IF c.body + n = c.req.length THEN "routed" ELSE @]

Parsed(c) == BodyParsed(HeadParsed(c))

\* Routing, and the change it makes: the last of the password's headers goes with the gate it opened.
Routed(c) ==
    \E out \in Outcomes(c.req) :
        /\ conn' = [c EXCEPT !.at = IF out.at \in {"HUP", "USR1"} THEN "answered" ELSE out.at,
                             !.answer = out.answer, !.what = out.what, !.in = 0, !.net = 0, !.edge = FALSE,
                             !.keeps = IF WebAuthOn /\ WebAuthValid(c.req) THEN @ \ {"password"} ELSE @]
        /\ CASE out.at = "saving" -> StartSave(Here, Read(Posted(Here, c.req.form)))
             [] out.at \in {"HUP", "USR1"} -> /\ asked' = asked \cup {out.at}
                                              /\ UNCHANGED <<cmd, files, proc, signal, saver, origin, owed, raced, bounds>>
             [] OTHER -> UNCHANGED settingsVars

\* The buffer is never full here: a head that fills it is refused, a body is taken out of it.
ReadOnceAndWait ==
    /\ conn.at = "handling"
    /\ \E n \in {Min({conn.net, Inbuf - conn.in})} : \E c \in {Parsed([conn EXCEPT !.net = @ - n, !.in = @ + n])} :
        CASE n > 0 /\ c.at = "routed" -> Routed(c)
          [] OTHER -> /\ conn' = IF c.at = "handling" THEN [c EXCEPT !.at = "waiting"] ELSE c
                      /\ UNCHANGED settingsVars

ReadOnce ==
    /\ conn.at = "handling"
    /\ \E n \in {Min({conn.net, Inbuf - conn.in})} : \E c \in {Parsed([conn EXCEPT !.net = @ - n, !.in = @ + n])} :
        CASE n = 0 -> /\ conn' = IF conn.left THEN Dropped("over") ELSE [conn EXCEPT !.at = "waiting"]
                      /\ UNCHANGED settingsVars
          [] n > 0 /\ c.at = "routed" -> Routed(c)
          [] OTHER -> conn' = c /\ UNCHANGED settingsVars

SaveAnswered ==
    /\ conn.at = "saving" /\ ~Busy(Here)
    /\ conn' = [conn EXCEPT !.at = "answered", !.answer = IF saver[Here].at = "saved" THEN "200" ELSE "500"]
    /\ UNCHANGED settingsVars

\* The first data of a stream, or its failure.
StreamAnswers ==
    /\ conn.at = "streaming"
    /\ \E code \in {"200", "503"} : conn' = [conn EXCEPT !.at = "answered", !.answer = code]
    /\ UNCHANGED settingsVars

Finish ==
    /\ conn.at = "answered" /\ conn' = NoConn /\ UNCHANGED settingsVars
-----------------------------------------------------------------------------
(* The rest of the program.  A worker acts upon signals between events.    *)

InHandler == conn.at \in {"handling", "saving"}

\* One save is left for the request under way.
SaveElsewhere ==
    /\ conn.at \in {"waiting", "handling"} /\ conn.req.form # NoForm => saves + 1 < MaxSaves[origin]
    /\ \E w \in Workers \ {Here}, f \in Forms[origin] :
        Acceptable(Posted(w, f)) /\ StartSave(w, Read(Posted(w, f)))
    /\ UNCHANGED conn

Elsewhere ==
    /\ \/ SuperReloads \/ SuperRestarts
       \/ \E w \in Workers \ {Here} : SaveStep(w) \/ WorkerReloads(w) \/ WorkerEnds(w) \/ WorkerDies(w)
    /\ UNCHANGED conn

SaveGoesOn == SaveStep(Here) /\ UNCHANGED conn
Reloads == ~InHandler /\ WorkerReloads(Here) /\ UNCHANGED conn

\* A worker that ends or dies takes its connections with it.
Replaced ==
    /\ (~InHandler /\ WorkerEnds(Here)) \/ WorkerDies(Here)
    /\ conn' = IF conn.at = "none" THEN conn ELSE Dropped("lost")

Handle == Wake \/ ReadOnce \/ SaveAnswered \/ StreamAnswers \/ Finish

Init == SettingsInit /\ conn = NoConn

Next ==
    \/ \E r \in Requests[origin] : Arrive(r)
    \/ ClientSends \/ ClientLeaves \/ HangUp \/ Handle
    \/ SaveElsewhere \/ Elsewhere \/ SaveGoesOn \/ Reloads \/ Replaced

\* A worker with something to do does it; nothing is assumed of clients.
HasWork == conn.at \notin {"none", "over", "lost", "waiting"} \/ (conn.at = "waiting" /\ conn.edge /\ ~conn.left)
Fairness == []<>~HasWork \/ []<><<Handle \/ SaveGoesOn>>_vars

Spec == Init /\ [][Next]_vars /\ Fairness
-----------------------------------------------------------------------------
Fits(r) == r.bad = 0 /\ r.head <= Inbuf /\ r.length <= BodyMax
Sent == Open /\ Fits(conn.req) /\ conn.sent >= conn.req.head + conn.req.length

(* A request that fits and is well-formed is answered once all of it was   *)
(* sent, however it was cut into pieces and whenever they came, unless the *)
(* client hangs up first or the worker ends.                               *)
WholeRequestIsAnswered == Sent ~> conn.answer # "none" \/ conn.left \/ conn.at = "lost"

\* A setting as last saved, once that has been acted upon; until then as the worker has it.
Ruling(k) == IF AtRest /\ Orderly /\ k \notin Unchecked THEN Wanted(k) ELSE Conf[k]

Credentials == <<Ruling("web-auth-user"), Ruling("web-auth-password")>>
Protected == "" \notin ToSet(Credentials)
Carried(r) == {r.query, Cut(r.query), r.cookie, r.ua}

\* Everyone the request is known to come through.
Way(r) == {r.from} \cup (IF Ruling("xff") = "on" /\ r.hops # <<>> THEN {Last(r.hops)} ELSE {})

MayHave(r, what) ==
    /\ what \notin {"asset", "preflight"} => Ruling("r2h-token") \in Carried(r) \cup {""}
    /\ what \in {"status", "sse", "api", "player", "setting", "get-config", "save"} /\ Protected =>
        r.auth = Credentials \/ (Ruling("web-auth-require-local") = "off" /\ Way(r) \subseteq Local)

Beyond(r) ==
    \/ Ruling("r2h-token") # "" /\ Carried(r) \ {""} # {Ruling("r2h-token")}
    \/ Protected /\ r.auth # Credentials

(* Pages, their interfaces, lists and services are given only to those who *)
(* bring what the settings last saved ask for, and nobody who brings       *)
(* exactly that is turned away; a password that let its client in goes no  *)
(* further.                                                                *)
OnlyTheEntitled ==
    [][ conn.at = "handling" /\ conn'.what # "none" =>
        /\ conn'.what # "refusal" => MayHave(conn.req, conn'.what)
        /\ conn'.answer = "401" => Beyond(conn.req)
        /\ Protected /\ conn.req.auth = Credentials => "password" \notin conn'.keeps ]_vars
=============================================================================
