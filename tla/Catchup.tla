------------------------------ MODULE Catchup ------------------------------
(***************************************************************************)
(* Time shift: how the time a viewer asks for reaches the upstream server. *)
(*                                                                         *)
(* A playlist names a source, an RTSP or HTTP URL that may hold            *)
(* placeholders for the begin and the end of a programme (m3u.c,           *)
(* url_template.c).  The list handed to players advertises a query of the  *)
(* proxy's own instead.  The request that comes back is merged with the    *)
(* source (service.c), its times are read in whatever form the player      *)
(* writes them (timezone.c), and go upstream converted: as the value of    *)
(* the seek parameter, in the place of the placeholders, or, for RTSP, as  *)
(* the start of Range: clock (stream.c).                                   *)
(*                                                                         *)
(* Times count hours; a zone is a number of hours.  A text is the sequence *)
(* of what stands between its dashes, because dashes separate begin and    *)
(* end, stand inside ISO dates and before negative zones.  Left out: sizes *)
(* of buffers, minutes of zones, fractions of seconds, the calendar, the   *)
(* wording of placeholders, more than one placeholder between two dashes,  *)
(* dashes inside a placeholder, and multicast services.                    *)
(***************************************************************************)
EXTENDS Integers, FiniteSets, Sequences, SequencesExt, FiniteSetsExt

CONSTANTS
    Sources,        \* what playlists name, and what requests name themselves
    Requests,       \* what players ask for
    Now,            \* time()
    DefaultWindow,  \* SEEK_MODE_DEFAULT_WINDOW_SECONDS
    MaxWindow,      \* SEEK_MODE_MAX_WINDOW_SECONDS
    MinZone,        \* TIMEZONE_MIN_OFFSET_HOURS
    MaxZone         \* TIMEZONE_MAX_OFFSET_HOURS

ASSUME CatchupAssumption ==
    /\ {Now, MinZone, MaxZone} \subseteq Int /\ MinZone <= 0 /\ MaxZone >= 0
    /\ {DefaultWindow, MaxWindow} \subseteq Nat \ {0} /\ DefaultWindow <= MaxWindow

VARIABLES
    source,   \* the URL of the playlist or of the request
    conf,     \* the service made of it when the playlist was read
    phase,    \* of the viewer's request
    asked,    \* the request
    made,     \* the service made for it
    sent      \* what goes upstream

vars == <<source, conf, phase, asked, made, sent>>

----------------------------------------------------------------------------
(* Times *)

\* A time as it is written: its form, the number of the hour that is written,
\* and the zone that is written with it, if one is.  "compact" is
\* yyyyMMddHHmmss, with a zone of 0 if GMT follows.  The parts of a text:
Part(k) == [k |-> k]
TimePart(k, t) == [k |-> k, t |-> t]
Word(w) == <<[k |-> "word", w |-> w]>>

\* The text of a time.  A negative zone begins with a dash.
Written(t) ==
    LET head == [t EXCEPT !.own = {z \in @ : z >= 0}]
    IN  (IF t.form = "iso" THEN <<Part("year"), Part("month"), TimePart("rest", head)>>
         ELSE <<TimePart("time", head)>>)
        \o (IF head = t THEN <<>> ELSE <<[k |-> "zone", z |-> Max({-z : z \in t.own})]>>)

\* The zone behind a time: what follows a zone is not looked at, and what
\* follows a time without one must be a zone.
ReadZone(t, rest) ==
    IF t.own # {} \/ rest = <<>> THEN {t}
    ELSE IF Head(rest).k = "zone" THEN {[t EXCEPT !.own = {-Head(rest).z}]}
    ELSE {}

IsBasic(s) == s[1].k = "time" /\ s[1].t.form = "basic"
ReadBasic(s) == ReadZone(s[1].t, Tail(s))
ReadIso(s) ==
    IF Len(s) > 2 /\ s[1].k = "year" /\ s[2].k = "month" /\ s[3].k = "rest"
    THEN ReadZone(s[3].t, SubSeq(s, 4, Len(s))) ELSE {}

\* The times a text may be read as.  The year alone, and the month, are digits
\* and thereby seconds of the epoch.
Read(s) ==
    CASE Len(s) = 1 /\ s[1].k \in {"year", "month"} ->
            {[form |-> "epoch", at |-> 0, own |-> {}]}
      [] Len(s) = 1 /\ s[1].k = "time" /\ ~IsBasic(s) -> {s[1].t}
      [] IsBasic(s) -> ReadBasic(s)
      [] OTHER -> ReadIso(s)

\* The instant a time stands for, for a reader in the zone tz.
ToUtc(t, tz, off) ==
    t.at + off - (CASE t.form = "epoch" -> 0
                    [] t.form # "epoch" /\ t.own # {} -> Max(t.own)
                    [] OTHER -> tz)

\* The same time for a reader in UTC: one that names its zone stays in it.
ConvertedAnyway(t, tz, off) == [t EXCEPT !.at = @ + off - (IF t.form = "epoch" THEN 0 ELSE tz)]
Converted(t, tz, off) ==
    [t EXCEPT !.at = @ + off - (IF t.form = "epoch" \/ t.own # {} THEN 0 ELSE tz)]

\* A text goes over in its own form, or as it is if it is no time.
ConvertedText(s, tz, off) ==
    IF Read(s) = {} THEN s
    ELSE Written(Converted(CHOOSE t \in Read(s) : TRUE, tz, off))

\* UTC+8, UTC-5: the zone if it is one.
ReadOffset(zone) == zone \cap (MinZone .. MaxZone)

\* TZ/UTC+8 in the User-Agent; 0 if there is none.
AgentZone(agent) == IF ReadOffset(agent) = {} THEN 0 ELSE Max(agent)

\* Where a range is split: at the first dash with a time before it, and a
\* time or nothing behind it.
Splits(s) ==
    {i \in 1 .. Len(s) - 1 :
        /\ Read(SubSeq(s, 1, i)) # {}
        /\ LET end == SubSeq(s, i + 1, Len(s)) IN end = <<Part("nothing")>> \/ Read(end) # {}}

Separator(s) == IF Splits(s) = {} THEN Len(s) ELSE Min(Splits(s))

----------------------------------------------------------------------------
(* Queries and services *)

\* A parameter: its name, whether it is written in capitals, its value.
Param(n, v) == [n |-> n, upper |-> FALSE, v |-> v]

HasBraces(v) == \E i \in DOMAIN v : v[i].k = "placeholder"
Undecodable(v) == \E i \in DOMAIN v : v[i].k = "undecodable"

\* Names are compared regardless of case.
Has(q, n) == \E i \in DOMAIN q : q[i].n = n
Values(q, n) == LET of == SelectSeq(q, LAMBDA p : p.n = n) IN [i \in DOMAIN of |-> of[i].v]

\* The first instance counts.
First(q, n) ==
    IF Has(q, n) /\ ~Undecodable(Values(q, n)[1]) THEN {Values(q, n)[1]} ELSE {}

\* r2h-seek-mode, whose value is [k, range, zone, window].
Passthrough == [range |-> FALSE, zone |-> {}, window |-> DefaultWindow]
ModeOf(v) ==
    IF v[1].k = "mode" /\ v[1].range /\ ReadOffset(v[1].zone) = v[1].zone
                       /\ v[1].window \subseteq 1 .. MaxWindow
    THEN [range |-> TRUE, zone |-> v[1].zone,
          window |-> Max(v[1].window \cup (IF v[1].window = {} THEN {DefaultWindow} ELSE {}))]
    ELSE Passthrough
ModeText(m) == <<[k |-> "mode", range |-> TRUE, zone |-> m.zone, window |-> {m.window}]>>

\* r2h-seek-offset: for begin and end, or one for both.
OffsetOf(v) ==
    IF v[1].k # "offset" \/ Len(v[1].num) \notin {1, 2} THEN <<0, 0>>
    ELSE <<v[1].num[1], Last(v[1].num)>>
OffsetTextOfBegin(off) == <<[k |-> "offset", num |-> <<off[1]>>]>>
OffsetText(off) ==
    <<[k |-> "offset", num |-> IF off[1] = off[2] THEN <<off[1]>> ELSE off]>>

\* playseek before tvdr, unless the first name that ends so is another one's.
EndsIn(name, n) == name = n \/ <<name, n>> = <<"xplayseek", "playseek">>
Guess(q, n) ==
    LET ends == SelectSeq(q, LAMBDA p : EndsIn(p.n, n)) IN
    IF ends # <<>> /\ ends[1].n = n THEN {n} ELSE {}
SeekName(q) ==
    CASE First(q, "r2h-seek-name") # {} -> {v[1].w : v \in First(q, "r2h-seek-name")}
      [] First(q, "r2h-seek-name") = {} /\ Guess(q, "playseek") # {} -> {"playseek"}
      [] OTHER -> Guess(q, "tvdr")

Controls == {"r2h-seek-name", "r2h-seek-offset", "r2h-seek-mode", "r2h-ifname-fcc", "r2h-ifname",
             "r2h-token", "r2h-filename"}

\* All instances of them are taken out.
Plain(q) == SelectSeq(q, LAMBDA p : p.n \notin Controls)

\* Of the values of the seek parameter the first one without braces.
SeekValue(q, name) ==
    LET all == FlattenSeq([i \in DOMAIN q |-> IF q[i].n \in name THEN <<q[i].v>> ELSE <<>>])
        full == SelectSeq(all, LAMBDA v : ~HasBraces(v))
    IN  IF all = <<>> THEN {} ELSE {IF full # <<>> THEN full[1] ELSE all[1]}

\* What service_extract_seek_params() finds, unless a value cannot be decoded.
SeekFails(q) == \E n \in SeekName(q) : \E i \in DOMAIN Values(q, n) : Undecodable(Values(q, n)[i])
Extracted(q) ==
    IF SeekFails(q) THEN [name |-> {}, value |-> {}, off |-> <<0, 0>>, mode |-> Passthrough]
    ELSE [name |-> SeekName(q), value |-> SeekValue(q, SeekName(q)),
          off |-> IF First(q, "r2h-seek-offset") = {} THEN <<0, 0>>
                  ELSE OffsetOf(CHOOSE v \in First(q, "r2h-seek-offset") : TRUE),
          mode |-> IF First(q, "r2h-seek-mode") = {} THEN Passthrough
                   ELSE ModeOf(CHOOSE v \in First(q, "r2h-seek-mode") : TRUE)]

NoService == [type |-> "none"]

ServiceFrom(type, path, q) ==
    LET x == Extracted(q) IN
    [type |-> type, path |-> path, name |-> x.name, value |-> x.value, off |-> x.off,
     mode |-> x.mode, query |-> SelectSeq(Plain(q), LAMBDA p : p.n \notin x.name),
     ifname |-> First(q, "r2h-ifname"), fcc |-> First(q, "r2h-ifname-fcc")]

\* An RTSP service is not made if the seek value cannot be decoded; an HTTP
\* service is, and passes it on.
ServiceOf(type, path, q) ==
    IF type = "rtsp" /\ SeekFails(q) THEN NoService ELSE ServiceFrom(type, path, q)

\* All instances of a name in the request take the place of the first one in
\* the source; here names differ if their case does.
SameName(p, o) == p.n = o.n /\ p.upper = o.upper
Merged(base, over) ==
    LET Over(p) == SelectSeq(over, LAMBDA o : SameName(p, o))
        Place(i) == CASE Over(base[i]) = <<>> -> <<base[i]>>
                      [] \E j \in 1 .. i - 1 : SameName(base[j], base[i]) -> <<>>
                      [] OTHER -> Over(base[i])
    IN  FlattenSeq([i \in DOMAIN base |-> Place(i)])
        \o SelectSeq(over, LAMBDA o : ~\E i \in DOMAIN base : SameName(base[i], o))

\* What the source sets and the request does not.
Fallback(c, q, n, is, v) == IF is /\ ~Has(q, n) THEN <<Param(n, v)>> ELSE <<>>
Fallbacks(c, q) ==
    Fallback(c, q, "r2h-seek-name", c.name # {}, Word(CHOOSE n \in c.name : TRUE))
    \o Fallback(c, q, "r2h-seek-offset", c.off # <<0, 0>>, OffsetText(c.off))
    \o Fallback(c, q, "r2h-seek-mode", c.mode.range, ModeText(c.mode))
    \o Fallback(c, q, "r2h-ifname", c.ifname # {}, CHOOSE v \in c.ifname : TRUE)
    \o Fallback(c, q, "r2h-ifname-fcc", c.fcc # {}, CHOOSE v \in c.fcc : TRUE)

\* A request without a query gets a copy of the configured service.
Clone(c) ==
    [type |-> c.type, path |-> c.path, query |-> c.query, name |-> c.name, value |-> c.value,
     off |-> c.off, mode |-> c.mode, ifname |-> c.ifname, fcc |-> c.fcc]
WithRequest(c, q) ==
    IF q = <<>> THEN Clone(c) ELSE ServiceOf(c.type, c.path, Merged(c.query, q) \o Fallbacks(c, q))

----------------------------------------------------------------------------
(* What the playlist advertises *)

\* A placeholder: what it stands for, and whether it is written in UTC, in the
\* player's zone, or as a number.
Holds(parts, of) == \E i \in DOMAIN parts : parts[i].k = "placeholder" /\ parts[i].of \in of

NeedsBegin(parts) == Holds(parts, {"begin", "duration", "offset"})
NeedsEnd(parts) == Holds(parts, {"end", "duration"})

\* The dash between a part with the begin only and a part with the end.
TemplateSplits(v) ==
    {i \in 1 .. Len(v) - 1 : /\ Holds(SubSeq(v, 1, i), {"begin"})
                             /\ ~Holds(SubSeq(v, 1, i), {"end"})
                             /\ Holds(SubSeq(v, i + 1, Len(v)), {"end"})}

IsRange(v) == Holds(v, {"begin"}) /\ Holds(v, {"end"}) /\ TemplateSplits(v) # {}
BeginOf(v) ==
    CASE IsRange(v) -> SubSeq(v, 1, Min(TemplateSplits(v)))
      [] Holds(v, {"begin"}) /\ ~Holds(v, {"end"}) -> v
      [] OTHER -> <<>>
EndOf(v) ==
    CASE IsRange(v) -> SubSeq(v, Min(TemplateSplits(v)) + 1, Len(v))
      [] Holds(v, {"end"}) /\ ~Holds(v, {"begin"}) -> v
      [] OTHER -> <<>>

\* The first that is not empty; the query before the path.
FirstOf(seqs) == LET some == SelectSeq(seqs, LAMBDA s : s # <<>>)
                 IN  IF some = <<>> THEN <<>> ELSE some[1]
BeginTemplate(s) ==
    FirstOf([i \in DOMAIN s.query |-> BeginOf(s.query[i].v)]
            \o <<SelectSeq(s.path, LAMBDA p : Holds(<<p>>, {"begin"}))>>)
EndTemplate(s) ==
    FirstOf([i \in DOMAIN s.query |-> EndOf(s.query[i].v)]
            \o <<SelectSeq(s.path, LAMBDA p : Holds(<<p>>, {"end"}))>>)

\* The name of the first range, if it is the one that is set or one of the
\* names that are known.
AdvertisedNameIfKnown(s) ==
    LET ranges == SelectSeq(s.query, LAMBDA p : IsRange(p.v)) IN
    IF ranges # <<>> /\ ranges[1].n \in {"playseek", "tvdr"} THEN ranges[1].n ELSE "playseek"
AdvertisedName(s) ==
    LET ranges == SelectSeq(s.query, LAMBDA p : IsRange(p.v))
        set == Values(s.query, "r2h-seek-name")
        known == IF set # <<>> THEN {set[1][1].w} ELSE {"playseek", "tvdr"}
    IN  IF ranges # <<>> /\ ranges[1].n \in known THEN ranges[1].n ELSE "playseek"

\* The query of the address in the list: none if the source has no begin or
\* end, or if the list cannot name it.
Advertised(s) ==
    LET all == FlattenSeq([i \in DOMAIN s.query |-> s.query[i].v]) \o s.path
        begin == BeginTemplate(s)
        end == EndTemplate(s)
        default(of) == <<[k |-> "placeholder", of |-> of, as |-> "utc"]>>
        first == CASE begin # <<>> -> begin
                   [] begin = <<>> /\ NeedsBegin(all) -> default("begin")
                   [] OTHER -> <<Part("nothing")>>
        second == CASE ~NeedsEnd(all) -> <<>>
                    [] NeedsEnd(all) /\ end # <<>> -> end
                    [] OTHER -> default("end")
    IN  IF s.listed /\ (NeedsBegin(all) \/ NeedsEnd(all))
        THEN {Param(AdvertisedName(s), first \o second)} ELSE {}

----------------------------------------------------------------------------
(* What goes upstream *)

\* service_parse_seek_value(): the texts of begin and end, the instants they
\* stand for, and the start of the range if it is recent.
Seek(c, agent) ==
    LET tz == AgentZone(agent)
        text == CHOOSE v \in c.value : TRUE
        at == Separator(text)
        begin == SubSeq(text, 1, at)
        end == SubSeq(text, at + 1, Len(text))
        zone == IF c.mode.zone = {} THEN tz ELSE Max(c.mode.zone)
        recent == {u \in {ToUtc(t, zone, c.off[1]) : t \in Read(begin)} :
                        c.mode.range /\ u <= Now /\ Now - u < c.mode.window}
    IN  IF c.value \subseteq {<<Part("nothing")>>} THEN [has |-> FALSE, tz |-> tz, recent |-> {}]
        ELSE [has |-> TRUE, tz |-> tz, begin |-> begin, end |-> end, recent |-> recent,
              beginUtc |-> {ToUtc(t, tz, c.off[1]) : t \in Read(begin)},
              endUtc |-> IF end \in {<<>>, <<Part("nothing")>>} THEN {}
                         ELSE {ToUtc(t, tz, c.off[2]) : t \in Read(end)}]

\* service_convert_seek_value()
ConvertedSeek(c, s) ==
    ConvertedText(s.begin, s.tz, c.off[1])
    \o (IF s.end \in {<<>>, <<Part("nothing")>>} THEN s.end
        ELSE ConvertedText(s.end, s.tz, c.off[2]))

\* What stands for a placeholder, or {} if the viewer has not said it.
BeginOrEnd(p, s) ==
    {u + (IF p.as = "local" THEN s.tz ELSE 0) :
        u \in IF p.of = "begin" THEN s.beginUtc ELSE s.endUtc}
Keyword(p, s) ==
    CASE p.of = "duration" -> {e - b : <<b, e>> \in s.beginUtc \X s.endUtc}
      [] p.of = "offset" -> {Now - b : b \in s.beginUtc}
      [] OTHER -> {Now}
RenderedPart(p, s) ==
    IF p.k # "placeholder" THEN p
    ELSE [k |-> "rendered", of |-> p.of, as |-> p.as,
          at |-> IF p.of \in {"begin", "end"} THEN BeginOrEnd(p, s) ELSE Keyword(p, s)]
Rendered(parts, s) == [i \in DOMAIN parts |-> RenderedPart(parts[i], s)]

IsTemplate(c) == HasBraces(c.path) \/ \E i \in DOMAIN c.query : HasBraces(c.query[i].v)
Unset(parts) == \E i \in DOMAIN parts : parts[i].k = "rendered" /\ parts[i].at = {}

\* A begin or an end that is no time cannot be rendered.
Unread(s) == s.beginUtc = {} \/ (s.endUtc = {} /\ s.end \notin {<<>>, <<Part("nothing")>>})

Failed == [ok |-> FALSE]
Plainly(c, seek, clock) ==
    [ok |-> TRUE, path |-> c.path, query |-> c.query, seek |-> seek, clock |-> clock]
FromTemplate(c, s, clock) ==
    LET path == Rendered(c.path, s)
        query == [i \in DOMAIN c.query |-> [c.query[i] EXCEPT !.v = Rendered(@, s)]]
    IN  IF Unread(s) \/ Unset(path) \/ \E i \in DOMAIN query : Unset(query[i].v) THEN Failed
        ELSE [ok |-> TRUE, path |-> path, query |-> query, seek |-> {}, clock |-> clock]

Resolved(c, name, s, clock) ==
    CASE ~s.has -> Plainly(c, {}, clock)
      [] s.has /\ IsTemplate(c) -> FromTemplate(c, s, clock)
      [] OTHER -> Plainly(c, {Param(n, ConvertedSeek(c, s)) : n \in name}, clock)

\* Only RTSP has a clock, and then the seek parameter is not added.
UpstreamRtsp(c, s) == Resolved(c, IF s.recent = {} THEN c.name ELSE {}, s, s.recent)
UpstreamHttp(c, s) == Resolved(c, c.name, s, {})

----------------------------------------------------------------------------

Nothing == [none |-> TRUE]

Init ==
    /\ source \in Sources
    /\ conf = IF source.listed THEN ServiceOf(source.type, source.path, source.query)
              ELSE NoService
    /\ source.listed => conf # NoService
    /\ phase = "idle"
    /\ asked = Nothing /\ made = NoService /\ sent = Failed

\* A player asks for a channel of the list, or for a source that its request
\* names.
Ask(r) ==
    /\ phase = "idle"
    /\ phase' = "asked"
    /\ asked' = r
    /\ UNCHANGED <<source, conf, made, sent>>

\* A service that cannot be made is answered 500 or 404.
Create ==
    /\ phase = "asked"
    /\ made' = IF source.listed THEN WithRequest(conf, asked.query)
               ELSE ServiceOf(source.type, source.path, asked.query)
    /\ phase' = IF made' = NoService THEN "refused" ELSE "created"
    /\ UNCHANGED <<source, conf, asked, sent>>

\* The stream is begun; if the address cannot be made the answer is 503.
Start ==
    /\ phase = "created"
    /\ sent' = IF made.type = "rtsp" THEN UpstreamRtsp(made, Seek(made, asked.agent))
               ELSE UpstreamHttp(made, Seek(made, asked.agent))
    /\ phase' = IF sent'.ok THEN "started" ELSE "refused"
    /\ UNCHANGED <<source, conf, asked, made>>

\* The viewer leaves, the service made for it is freed.
Leave ==
    /\ phase \in {"started", "refused"}
    /\ phase' = "idle"
    /\ asked' = Nothing /\ made' = NoService /\ sent' = Failed
    /\ UNCHANGED <<source, conf>>

Next == (\E r \in Requests : Ask(r)) \/ Create \/ Start \/ Leave

Spec == Init /\ [][Next]_vars

----------------------------------------------------------------------------
(* Properties *)

\* The instant a player in the zone z means by a time it writes, and the time
\* of the same form that says so to a server in UTC.
Instant(t, z) ==
    IF t.form = "epoch" THEN t.at ELSE t.at - Max(t.own \cup (IF t.own = {} THEN {z} ELSE {}))
InUtc(t, u) == [t EXCEPT !.at = u + (IF t.form = "epoch" \/ t.own = {} THEN 0 ELSE Max(t.own))]

\* The value a player writes for a begin, and an end if it names one.
RangeText(begin, end, open) ==
    begin \o end \o (IF open THEN <<Part("nothing")>> ELSE <<>>)
SeekText(r) ==
    RangeText(FlattenSeq(SetToSeq({Written(t) : t \in r.begin})),
              FlattenSeq(SetToSeq({Written(t) : t \in r.end})), r.open)

\* The same instants, shifted as the service says, for a server in UTC.
TextInUtc(r, off, z) ==
    RangeText(FlattenSeq(SetToSeq({Written(InUtc(t, Instant(t, z) + off[1])) : t \in r.begin})),
              FlattenSeq(SetToSeq({Written(InUtc(t, Instant(t, z) + off[2])) : t \in r.end})),
              r.open)

\* What must stand for a placeholder.
Due(p, begin, end, z) ==
    CASE p.of \in {"begin", "end"} -> {u + (IF p.as = "local" THEN z ELSE 0) :
                                        u \in IF p.of = "begin" THEN begin ELSE end}
      [] p.of = "duration" -> {e - b : <<b, e>> \in begin \X end}
      [] p.of = "offset" -> {Now - b : b \in begin}
      [] OTHER -> {Now}

\* Whatever form a player writes its times in, with or without a zone of their
\* own, the server reads the instants the player meant, shifted by
\* r2h-seek-offset: in the seek parameter, in each placeholder of a template
\* and in Range: clock (service_convert_seek_value(), render_template_url(),
\* service_format_recent_seek_range()).
SeeksWhatWasMeant ==
    phase = "started" /\ asked.begin # {} /\ made.value = {SeekText(asked)} =>
        LET z == AgentZone(asked.agent)
            zone == IF made.mode.zone = {} THEN z ELSE Max(made.mode.zone)
            begin == {Instant(t, z) + made.off[1] : t \in asked.begin}
            end == {Instant(t, z) + made.off[2] : t \in asked.end}
            right(parts) == \A i \in DOMAIN parts :
                parts[i].k = "rendered" => parts[i].at = Due(parts[i], begin, end, z)
        IN  /\ \A p \in sent.seek : p.v = TextInUtc(asked, made.off, z)
            /\ sent.clock \subseteq {Instant(t, zone) + made.off[1] : t \in asked.begin}
            /\ right(sent.path)
            /\ \A i \in DOMAIN sent.query : right(sent.query[i].v)

\* A setting the request names is the request's, one it does not name is the
\* source's, and so for every parameter that goes upstream, however names are
\* written and however often they occur; without a query all of the source
\* holds (service_create_with_query_merge(), service_clone()).
RequestWins ==
    LET q == asked.query
        clean(p) == ~Undecodable(p.v)
        Setting(n, read(_), given, own) == given = IF Has(q, n) THEN read(Values(q, n)[1]) ELSE own
        Instances(s, p) == SelectSeq(s, LAMBDA o : SameName(o, p))
    IN  phase \in {"created", "started"} /\ source.listed
        /\ (\A i \in DOMAIN q : clean(q[i])) =>
            /\ q = <<>> => made = conf
            /\ Setting("r2h-seek-offset", OffsetOf, made.off, conf.off)
            /\ Setting("r2h-seek-mode", ModeOf, made.mode, conf.mode)
            /\ Setting("r2h-ifname", LAMBDA v : {v}, made.ifname, conf.ifname)
            /\ Setting("r2h-ifname-fcc", LAMBDA v : {v}, made.fcc, conf.fcc)
            /\ conf.name # {} => Setting("r2h-seek-name", LAMBDA v : {v[1].w}, made.name, conf.name)
            /\ \A p \in ToSet(made.query) :
                /\ p.n \notin Controls \cup made.name
                /\ Instances(made.query, p) = IF Instances(q, p) # <<>> THEN Instances(q, p)
                                              ELSE Instances(conf.query, p)
            /\ \A p \in ToSet(q) \cup ToSet(conf.query) :
                p.n \in Controls \cup made.name \/ Instances(made.query, p) # <<>>

\* A source whose seek name is that of its range, and that has no end alone.
Coherent(s) ==
    LET set == Values(s.query, "r2h-seek-name") IN
    /\ set # <<>> => \E p \in ToSet(s.query) :
            p.n = set[1][1].w /\ Holds(p.v, {"begin"}) /\ Holds(p.v, {"end"})
    /\ \A a \in Advertised(s) : a.v[1] # Part("nothing")

\* A player that fills in what the list advertises.
Filled(v, r) ==
    FlattenSeq([i \in DOMAIN v |->
        IF v[i].k # "placeholder" THEN <<v[i]>>
        ELSE FlattenSeq(SetToSeq({Written(t) : t \in IF v[i].of = "begin" THEN r.begin ELSE r.end}))])
Follows(r) ==
    \E a \in Advertised(source) :
        /\ r.query = <<Param(a.n, Filled(a.v, r))>>
        /\ Holds(a.v, {"end"}) => r.end # {}

\* A request that follows the list is always understood: its value is taken
\* for the time to seek to, and the address can be made of it, so that no
\* placeholder of the source is left without the time it needs
\* (extract_catchup_template_query(), service_extract_seek_params()).
AdvertisedIsUnderstood ==
    Coherent(source) /\ phase \notin {"idle", "asked"} /\ Follows(asked) =>
        /\ made.value = {asked.query[1].v}
        /\ phase # "refused"
        /\ phase = "started" => ~\E i \in DOMAIN sent.query : HasBraces(sent.query[i].v)
============================================================================
