----------------------------- MODULE Channels -----------------------------
(***************************************************************************)
(* What a worker knows of channels: the services of its configuration and  *)
(* of the external playlist, the playlist it hands out for them (m3u.c),   *)
(* the guide (epg.c), the fetches that bring both (http_fetch.c), and the  *)
(* timers and the reload that start them (worker.c, configuration.c).      *)
(*                                                                         *)
(* A tick is a second or so of a worker's loop.  A fetch is a process of   *)
(* its own, which gets its copy at some time between its start and its     *)
(* end, and several may run at once.                                       *)
(*                                                                         *)
(* Names are sequences of the parts between their slashes; texts of lines, *)
(* query parameters and the host in a URL are left out.                    *)
(***************************************************************************)
EXTENDS Integers, Sequences, FiniteSets, SequencesExt, FiniteSetsExt, Functions

CONSTANTS
    Configs,       \* what the configuration file may say: [url, interval, inline]
    Lists,         \* for each URL of a playlist what it serves, one version after another
    Guides,        \* for each URL of a guide the number of its versions
    Gzipped,       \* the guides that are compressed
    Local,         \* the URLs that begin with file://
    Offset,        \* worker_id, the seconds a worker lags behind the first
    RetryDelays,   \* m3u_retry_delays and retry_delays
    FetchTime,     \* ticks after which a fetch has ended, one way or another
    Pipes,         \* the descriptors fetches may use
    None,          \* no URL, no content
    MaxTrouble     \* bound: reloads, changes and failures in a behaviour

ASSUME ChannelsAssumption ==
    /\ Offset \in Nat /\ FetchTime \in Nat /\ MaxTrouble \in Nat
    /\ Pipes \subseteq Nat
    /\ RetryDelays \in Seq(Nat) /\ \A i \in DOMAIN RetryDelays : RetryDelays[i] > 0
    /\ None \notin DOMAIN Lists \union DOMAIN Guides

VARIABLES
    conf,       \* the settings in force, whether they come from a file
                \* (config_file_path), and the time since the last update
    playlist,   \* m3u_cache_t: lines, the end of the inline ones, ETag, retries
    services,   \* the list of services
    map,        \* service_map, from names to services
    epg,        \* epg_cache_t
    fetches,    \* for each pipe the fetch behind it
    site,       \* the version that is at each URL
    client,     \* what a client keeps of the playlist
    trouble

vars == <<conf, playlist, services, map, epg, fetches, site, client, trouble>>

Now == [conf |-> conf, playlist |-> playlist, services |-> services, map |-> map,
        epg |-> epg, fetches |-> fetches, trouble |-> trouble]

Becomes(x) ==
    /\ conf' = x.conf /\ playlist' = x.playlist /\ services' = x.services /\ map' = x.map
    /\ epg' = x.epg /\ fetches' = x.fetches /\ trouble' = x.trouble

Idle == [url |-> None]
NoRetry == -1
NoTag == <<"invalid">>

\* free_transformed_m3u_buffer(), which leaves the retries alone.
NoLines(p) == [p EXCEPT !.lines = <<>>, !.inlineEnd = 0, !.etag = NoTag]

\* epg_cleanup()
NoGuide == [url |-> None, data |-> None, retries |-> 0, due |-> NoRetry]

-----------------------------------------------------------------------------
(* Services. *)

Taken(x) == {x.services[i].name : i \in DOMAIN x.services}

Numerals == <<"1", "2", "3", "4", "5", "6", "7", "8", "9">>

UniqueNameByTitle(x, name) ==
    IF name \notin Taken(x) THEN name ELSE Append(name, "2")

\* find_unique_service_name().  The code counts numbers up to 999.
UniqueName(x, name) ==
    LET used == {n \in DOMAIN Numerals : Append(name, Numerals[n]) \in Taken(x)}
        next == IF used = {} THEN 2 ELSE Max(used) + 1
    IN  IF name \notin Taken(x) /\ used = {} THEN name ELSE Append(name, Numerals[next])

\* create_service_from_url(): the service is the last one of the list.
AddService(x, name, to, source) ==
    LET s == [name |-> UniqueName(x, name), to |-> to, source |-> source]
    IN  [x EXCEPT !.services = Append(@, s), !.map = (s.name :> s) @@ @]

NameOfLast(x) == Last(x.services).name

\* service_free_external()
FreeExternal(x) ==
    LET gone == {s \in ToSet(x.services) : s.source = "external"}
    IN  [x EXCEPT !.services = SelectSeq(@, LAMBDA s : s \notin gone),
                  !.map = Restrict(@, DOMAIN @ \ {s.name : s \in gone})]

\* service_free_all()
FreeAll(x) == [x EXCEPT !.services = <<>>, !.map = <<>>]

-----------------------------------------------------------------------------
(* The playlist. *)

\* append_to_transformed_m3u().  A line names the service it leads to; one that
\* is passed on as it is names none.
Line(x, name, to) ==
    [x EXCEPT !.playlist.lines = Append(@, [name |-> name, to |-> to]), !.playlist.etag = NoTag]

PassedOn == <<>>

\* is_url_recognizable(): a scheme the proxy serves, or a URL of such a proxy.
Recognizable(u) == u.kind = "known"

\* build_appended_catchup_url() and the rest: an entry with a catchup-source gets a
\* service for it with its first URL.
HasCatchup(entry, i) == i = 1 /\ entry.catchup # None

\* One URL of an entry: only the first one brings the #EXTINF line and, if the
\* entry has it, a service for what is over.
TakeUrl(x, entry, i, source) ==
    LET u == entry.urls[i]
        live == AddService(x, entry.title \o u.label, u.to, source)
        both == AddService(live, Append(NameOfLast(live), "catchup"), entry.catchup, source)
        Info(y, name) == IF i = 1 THEN Line(y, name, entry.catchup) ELSE y
    IN  CASE ~Recognizable(u) -> Line(Info(x, PassedOn), PassedOn, u.to)
          [] Recognizable(u) /\ HasCatchup(entry, i) ->
                 Line(Info(both, NameOfLast(both)), NameOfLast(live), u.to)
          [] OTHER -> Line(Info(live, PassedOn), NameOfLast(live), u.to)

TakeEntry(x, entry, source) ==
    FoldLeft(LAMBDA y, i : TakeUrl(y, entry, i, source), x, [i \in DOMAIN entry.urls |-> i])

\* m3u_parse_and_create_services(): without a URL the content counts as inline.
\* Of the header it keeps the URL of the guide, if there is one: epg_set_url().
Parse(x, content, url) ==
    LET source == IF url = None THEN "inline" ELSE "external"
        y == FoldLeft(LAMBDA z, e : TakeEntry(z, e, source), x, content.entries)
    IN  [y EXCEPT !.epg.url = IF content.epg = None THEN @ ELSE content.epg,
                  !.playlist.inlineEnd = IF source = "inline" THEN Len(y.playlist.lines) ELSE @]

ResetExternalOnly(x) ==
    [x EXCEPT !.playlist.lines = SubSeq(@, 1, x.playlist.inlineEnd)]

\* m3u_reset_external_playlist()
ResetExternal(x) ==
    IF x.playlist.inlineEnd < Len(x.playlist.lines)
    THEN [x EXCEPT !.playlist.lines = SubSeq(@, 1, x.playlist.inlineEnd), !.playlist.etag = NoTag]
    ELSE x

-----------------------------------------------------------------------------
(* Fetches. *)

\* What a callback does with a failure: try again later, a number of times.
Retry(c) ==
    IF c.retries < Len(RetryDelays)
    THEN [c EXCEPT !.retries = @ + 1, !.due = RetryDelays[c.retries + 1]]
    ELSE [c EXCEPT !.retries = 0, !.due = NoRetry]

NoMoreRetries(c) == [c EXCEPT !.retries = 0, !.due = NoRetry]

Failed == 0

\* epg_fetch_fd_callback()
EpgDone(x, url, version) ==
    IF version = Failed THEN [x EXCEPT !.epg = Retry(@)]
    ELSE [x EXCEPT !.epg = [NoMoreRetries(@) EXCEPT !.data = <<url, version>>]]

FreePipes(x) == {p \in Pipes : x.fetches[p] = Idle}

\* http_fetch_start_async_internal() with a URL that is not a file: a process is
\* started, or fails to start, and then no callback is called.
StartProcess(x, for, url) ==
    (IF FreePipes(x) = {} THEN {x}
     ELSE {[x EXCEPT !.fetches[Min(FreePipes(x))] =
                 [url |-> url, for |-> for, age |-> 0, got |-> None]]})
    \union (IF x.trouble < MaxTrouble THEN {[x EXCEPT !.trouble = @ + 1]} ELSE {})

\* A file is read at once, if it can be.
Readings(x, url) ==
    {<<x, site[url]>>}
    \union (IF x.trouble < MaxTrouble THEN {<<[x EXCEPT !.trouble = @ + 1], Failed>>} ELSE {})

\* epg_fetch_async()
FetchEpg(x) ==
    IF x.epg.url = None THEN {x}
    ELSE IF x.epg.url \in Local
         THEN {EpgDone(r[1], x.epg.url, r[2]) : r \in Readings(x, x.epg.url)}
         ELSE StartProcess(x, "epg", x.epg.url)

\* m3u_reload_async_callback() with m3u_process_and_fetch_epg(): the content is
\* attributed to the URL that is configured by now.
M3uDone(x, url, version) ==
    IF version = Failed THEN {[x EXCEPT !.playlist = Retry(@)]}
    ELSE LET y == Parse(ResetExternal(FreeExternal(x)), Lists[url][version], x.conf.url)
         IN  {[z EXCEPT !.playlist = NoMoreRetries(@)] : z \in FetchEpg(y)}

\* m3u_reload_external_async()
FetchM3u(x) ==
    IF x.conf.url = None THEN {x}
    ELSE IF x.conf.url \in Local
         THEN UNION {M3uDone(r[1], x.conf.url, r[2]) : r \in Readings(x, x.conf.url)}
         ELSE StartProcess(x, "m3u", x.conf.url)

\* The process has got its copy, or an error.
Downloads(p) ==
    /\ fetches[p] # Idle /\ fetches[p].got = None
    /\ \/ /\ fetches' = [fetches EXCEPT ![p].got = site[fetches[p].url]]
          /\ UNCHANGED trouble
       \/ /\ trouble < MaxTrouble /\ trouble' = trouble + 1
          /\ fetches' = [fetches EXCEPT ![p].got = Failed]
    /\ UNCHANGED <<conf, playlist, services, map, epg, site, client>>

\* http_fetch_handle_event() when the pipe is closed, http_fetch_cancel() if
\* anything went wrong.  The pipe is closed after the callback.
Completed(p) ==
    /\ fetches[p] # Idle /\ fetches[p].got # None
    /\ LET f == fetches[p]
       IN  \E x \in IF f.for = "m3u" THEN M3uDone(Now, f.url, f.got)
                    ELSE {EpgDone(Now, f.url, f.got)} :
              Becomes([x EXCEPT !.fetches[p] = Idle])
    /\ UNCHANGED <<site, client>>

-----------------------------------------------------------------------------
(* The tick of a worker. *)

Never == -1

\* The seconds since the last update matter up to the point from which the
\* conditions of worker_run_event_loop() repeat.  A worker whose number is not
\* less than the interval in seconds never finds it over.
Later(since) ==
    IF since = Never \/ conf.interval <= 0 THEN since
    ELSE IF since = 2 * (conf.interval + Offset) THEN since - conf.interval + 1 ELSE since + 1

IntervalIsOverLater(x) ==
    LET since == x.conf.since
    IN  /\ x.conf.interval > 0 /\ since >= x.conf.interval + Offset
        /\ since >= (since \div x.conf.interval) * x.conf.interval + 2 * Offset

IntervalIsOver(x) ==
    LET since == x.conf.since
    IN  /\ x.conf.interval > 0 /\ since >= x.conf.interval + Offset
        /\ since >= (since \div x.conf.interval) * x.conf.interval + Offset

Passed(due) == IF due > 0 THEN due - 1 ELSE due

Second(x) ==
    [x EXCEPT !.conf.since = Later(@), !.playlist.due = Passed(@), !.epg.due = Passed(@),
              !.conf.uptime = IF @ < Offset THEN @ + 1 ELSE @,
              !.fetches = [p \in Pipes |-> IF @[p] = Idle THEN Idle ELSE [@[p] EXCEPT !.age = @ + 1]]]

\* External playlist, or only the guide that the inline one names.
Update(x) ==
    LET y == [x EXCEPT !.conf.since = 0]
    IN  IF x.conf.url # None THEN FetchM3u(y) ELSE FetchEpg(y)

RetryM3u(x) == x.conf.url # None /\ x.playlist.due = 0
RetryEpg(x) == x.epg.url # None /\ x.epg.due = 0

Ticked(x) ==
    IF (x.conf.url = None /\ x.epg.url = None) \/ x.conf.interval < 0 THEN {x}
    ELSE IF RetryM3u(x) THEN FetchM3u([x EXCEPT !.playlist.due = NoRetry])
    ELSE IF RetryEpg(x) THEN FetchEpg([x EXCEPT !.epg.due = NoRetry])
    ELSE IF x.conf.since = Never THEN IF x.conf.uptime >= Offset THEN Update(x) ELSE {x}
    ELSE IF IntervalIsOver(x)
         THEN Update(IF x.conf.url # None THEN [x EXCEPT !.playlist = NoMoreRetries(@)]
                     ELSE [x EXCEPT !.epg = NoMoreRetries(@)])
    ELSE {x}

\* A process ends within its time.
InTime == \A p \in Pipes : fetches[p] # Idle => fetches[p].age < FetchTime

Tick ==
    /\ InTime
    /\ \E x \in Ticked(Second(Now)) : Becomes(x)
    /\ UNCHANGED <<site, client>>

-----------------------------------------------------------------------------
(* Reload: config_reload(). *)

\* config_cleanup()
Cleaned(x) == [FreeAll(x) EXCEPT !.epg = NoGuide]

\* config_init()
Initialised(x) ==
    [x EXCEPT !.conf = [@ EXCEPT !.url = None, !.interval = 2, !.since = Never]]

\* parse_config_file()
ParseFile(x, c) ==
    LET y == [x EXCEPT !.conf.url = c.url, !.conf.interval = c.interval, !.conf.broken = FALSE,
                       !.playlist = NoLines(@)]
    IN  IF c.inline = None THEN y ELSE Parse(y, c.inline, None)

\* The file cannot be opened: nothing of the former configuration is put back.
Unreadable(x) == [x EXCEPT !.conf.broken = TRUE]

Reload ==
    /\ trouble < MaxTrouble
    /\ LET x == [Now EXCEPT !.trouble = @ + 1]
           fresh == Initialised(Cleaned(x))
       IN  IF conf.file
           THEN \E y \in {ParseFile(fresh, c) : c \in Configs} \union {Unreadable(fresh)} : Becomes(y)
           ELSE Becomes([x EXCEPT !.conf.since = Never])
    /\ UNCHANGED <<site, client>>

-----------------------------------------------------------------------------
(* Requests. *)

\* m3u_get_etag(): the hash of the lines, renewed when it was invalidated.
Etag(p) == IF p.lines = <<>> THEN NoTag ELSE IF p.etag = NoTag THEN p.lines ELSE p.etag

\* m3u_generate_playlist(): the header with the guide, the lines.
Generated ==
    [guide |-> IF epg.url = None THEN "none" ELSE IF epg.data \in Gzipped THEN "gz" ELSE "xml",
     lines |-> playlist.lines]

NothingKept == [etag |-> NoTag, body |-> None]

\* handle_playlist_request() of a client that says which version it has: not
\* modified, the playlist, or not found.
AskPlaylist ==
    /\ playlist' = [playlist EXCEPT !.etag = Etag(playlist)]
    /\ LET tag == playlist'.etag
       IN  client' = IF tag # NoTag /\ client.etag = tag THEN client
                     ELSE IF playlist.lines = <<>> THEN NothingKept
                     ELSE [etag |-> tag, body |-> Generated]
    /\ UNCHANGED <<conf, services, map, epg, fetches, site, trouble>>

\* handle_epg_request()
EpgAnswer(compressed) ==
    IF epg.data = None \/ (compressed /\ epg.data \notin Gzipped) THEN None ELSE epg.data

SiteChanges(u) ==
    /\ trouble < MaxTrouble
    /\ site[u] < IF u \in DOMAIN Lists THEN Len(Lists[u]) ELSE Guides[u]
    /\ site' = [site EXCEPT ![u] = @ + 1] /\ trouble' = trouble + 1
    /\ UNCHANGED <<conf, playlist, services, map, epg, fetches, client>>

-----------------------------------------------------------------------------
Blank ==
    [conf |-> [url |-> None, interval |-> 2, since |-> Never, uptime |-> 0,
              file |-> TRUE, broken |-> FALSE],
     playlist |-> [lines |-> <<>>, inlineEnd |-> 0, etag |-> NoTag, retries |-> 0, due |-> NoRetry],
     services |-> <<>>, map |-> <<>>, epg |-> NoGuide,
     fetches |-> [p \in Pipes |-> Idle], trouble |-> 0]

\* A worker begins with what the supervisor has read, from a file or the command line.
Init ==
    /\ \E c \in Configs, file \in BOOLEAN :
          LET x == ParseFile(Blank, c)
          IN  /\ conf = [x.conf EXCEPT !.file = file] /\ playlist = x.playlist /\ services = x.services
              /\ map = x.map /\ epg = x.epg
    /\ fetches = Blank.fetches /\ trouble = 0
    /\ site = [u \in DOMAIN Lists \union DOMAIN Guides |-> 1]
    /\ client = NothingKept

Next ==
    \/ Tick \/ Reload \/ AskPlaylist
    \/ \E p \in Pipes : Downloads(p) \/ Completed(p)
    \/ \E u \in DOMAIN site : SiteChanges(u)

\* A tick that finds nothing to do and no time to count.
Resting == Ticked(Second(Now)) = {Now}

\* The loop ticks and takes up what has ended; a process ends.
Fairness ==
    /\ []<>(~InTime \/ Resting) \/ []<><<Tick>>_vars
    /\ \A p \in Pipes : []<>(fetches[p] = Idle) \/ []<><<fetches'[p] = Idle>>_vars

Spec == Init /\ [][Next]_vars /\ Fairness

-----------------------------------------------------------------------------
(* Properties. *)

TypeOK ==
    /\ playlist.inlineEnd \in 0..Len(playlist.lines)
    /\ {playlist.retries, epg.retries} \subseteq 0..Len(RetryDelays)
    /\ DOMAIN fetches = Pipes
    /\ client.body # None => client.body.lines # <<>>
    /\ trouble \in 0..MaxTrouble

\* A channel leads to the URL its line of the playlist was made from, whatever
\* other channels have the same title, and however lists were reloaded or fetches
\* overlapped; and no service is out of reach.  A worker whose file could not be
\* read is left with lines of services it no longer has.
ListedIsServed ==
    /\ TypeOK
    /\ \A s \in ToSet(services) : s.name \in DOMAIN map /\ map[s.name] = s
    /\ Cardinality(DOMAIN map) = Len(services)
    /\ ~conf.broken =>
         \A l \in ToSet(playlist.lines) :
            l.name # PassedOn => l.name \in DOMAIN map /\ map[l.name].to = l.to

\* A client that asks again is told that its copy has not been modified only if
\* it has the current lines.
RevalidatedIsCurrent ==
    client.etag # NoTag /\ client.etag = Etag(playlist) => client.body.lines = playlist.lines

\* When nothing fails or changes any more, a worker that updates itself has the
\* channels of the configured URL, and the guide they name, for good.
Targets(content) ==
    UNION {{u.to : u \in ToSet(e.urls)} \union ({e.catchup} \ {None}) : e \in ToSet(content.entries)}

External == SubSeq(playlist.lines, playlist.inlineEnd + 1, Len(playlist.lines))

IsCurrent ==
    /\ conf.url # None =>
         {l.to : l \in ToSet(External)} \ {None} = Targets(Lists[conf.url][site[conf.url]])
    /\ epg.url # None => EpgAnswer(epg.data \in Gzipped) = <<epg.url, site[epg.url]>>

BecomesCurrent == <>[](conf.interval > 0 => IsCurrent)
=============================================================================
