----------------------------- MODULE MC_Catchup -----------------------------
(* Sources and requests for TLC. *)
EXTENDS Catchup

MCMinZone == -12

PH(of, as) == <<[k |-> "placeholder", of |-> of, as |-> as]>>
ModeV(range, zone, window) == <<[k |-> "mode", range |-> range, zone |-> zone, window |-> window]>>
OffV(num) == <<[k |-> "offset", num |-> num]>>
Capital(n, v) == [Param(n, v) EXCEPT !.upper = TRUE]
Bad == <<Part("undecodable")>>

Listed(type, path, query) == [listed |-> TRUE, type |-> type, path |-> path, query |-> query]

MCSources == {
    Listed("rtsp", <<>>, <<Param("x", Word("a")), Param("r2h-seek-offset", OffV(<<1, -1>>)),
        Param("y", Word("b")), Param("r2h-seek-mode", ModeV(TRUE, {1}, {3})), Param("x", Word("c"))>>),
    Listed("http", <<>>, <<Capital("x", Word("a")), Capital("r2h-ifname", Word("eth0")),
        Param("r2h-seek-name", Word("begin")), Param("begin", PH("begin", "utc") \o PH("end", "utc"))>>),
    Listed("http", <<>>, <<Param("start", PH("begin", "local")), Param("stop", PH("end", "utc")),
        Param("r2h-seek-offset", OffV(<<2>>))>>),
    Listed("rtsp", PH("begin", "epoch"), <<Param("t", PH("duration", "epoch")),
        Param("r2h-seek-mode", ModeV(TRUE, {}, {}))>>),
    Listed("rtsp", <<>>, <<Param("tvdr", PH("begin", "local") \o PH("end", "local"))>>),
    Listed("http", PH("offset", "epoch"), <<>>),
    Listed("http", PH("end", "utc"), <<>>),
    Listed("rtsp", <<>>, <<>>),
    [listed |-> FALSE, type |-> "rtsp", path |-> <<>>, query |-> <<>>],
    [listed |-> FALSE, type |-> "http", path |-> <<>>, query |-> <<>>]}

Zoneless(form, at) == [form |-> form, at |-> at, own |-> {}]
Zoned(form, at, z) == [form |-> form, at |-> at, own |-> {z}]

Forms == {"epoch", "compact", "basic", "iso"}
Times(at) ==
    {Zoneless(f, at) : f \in Forms} \cup {Zoned("compact", at, 0)}
    \cup {Zoned(f, at, z) : f \in {"basic", "iso"}, z \in {0, 2, -3}}

\* What a player may ask for: a begin; a begin and no end; a begin and an end.
Wanted == {[begin |-> {b}, end |-> {}, open |-> o] : b \in Times(Now - 3), o \in BOOLEAN}
    \cup {[begin |-> {b}, end |-> {e}, open |-> FALSE] : b \in Times(Now - 3), e \in Times(Now - 1)}
Nowhere == [begin |-> {}, end |-> {}, open |-> FALSE]

Request(w, query, agent) ==
    [begin |-> w.begin, end |-> w.end, open |-> w.open, query |-> query, agent |-> agent]

Simple == {Request(w, <<Param(n, SeekText(w))>>, agent) :
            w \in Wanted, n \in {"playseek", "tvdr", "begin"}, agent \in {{}, {2}}}

Few == {w \in Wanted : w.begin \subseteq {Zoneless("compact", Now - 3), Zoned("iso", Now - 3, -3)}
                       /\ w.end \subseteq {Zoneless("compact", Now - 1), Zoned("basic", Now - 1, 2)}}

\* What may stand beside the time, before it or behind it.
Beside == {
    <<Param("r2h-seek-offset", OffV(<<1>>))>>, <<Capital("r2h-seek-offset", OffV(<<-1, 2>>))>>,
    <<Param("r2h-seek-offset", OffV(<<1, 2, 3>>)), Param("r2h-seek-offset", OffV(<<5>>))>>,
    <<Param("r2h-seek-mode", ModeV(TRUE, {-2}, {4}))>>, <<Param("r2h-seek-mode", ModeV(TRUE, {}, {4}))>>,
    <<Capital("r2h-seek-mode", ModeV(FALSE, {}, {}))>>,
    <<Param("r2h-seek-mode", ModeV(TRUE, {MaxZone + 1}, {}))>>,
    <<Param("r2h-seek-mode", ModeV(TRUE, {0}, {MaxWindow + 1}))>>,
    <<Param("r2h-seek-name", Word("tvdr")), Param("tvdr", Written(Zoneless("epoch", Now)))>>,
    <<Capital("playseek", PH("begin", "local"))>>,
    <<Param("x", Word("d")), Param("r2h-token", Word("secret")), Param("x", Word("e"))>>,
    <<Capital("x", Word("d")), Param("r2h-ifname", Word("eth1")), Param("r2h-ifname-fcc", Word("eth2"))>>,
    <<Param("xplayseek", Word("d"))>>,
    <<Param("playseek", Bad)>>, <<Param("r2h-seek-name", Bad)>>}

Mixed == {Request(w, q, {5}) : w \in Few,
          q \in {b \o <<Param("playseek", SeekText(v))>> : v \in Few, b \in Beside}
                \cup {<<Param("playseek", SeekText(v))>> \o b : v \in Few, b \in Beside}}

MCRequests ==
    Simple \cup {r \in Mixed : \E i \in DOMAIN r.query : r.query[i].v = SeekText(r)}
    \cup {Request(Nowhere, q, {MaxZone + 1}) : q \in {<<>>} \cup Beside}
=============================================================================
