# A TLA+ model of rtp2httpd

rtp2httpd turns multicast, RTSP and HTTP television into HTTP streams.  This directory
models the parts of it whose correctness depends on the order in which packets,
requests, processes, sockets and timers act, checks the models with TLC on small
instances and proves the most important of their properties with TLAPS.  Everything is
translated from the C sources under `src/`; paths below are relative to there.

## 1. The system

A **supervisor** process (`supervisor.c`) forks one **worker** per configured
index.  Each worker (`worker.c`) is a single-threaded event loop: it waits for
ready sockets, handles a batch of events, reads the multicast sockets that are due
and runs a tick on every connection.  A connection (`connection.c`) reads one HTTP
request (`http.c`), passes its gates and is routed (`fork_web.c`) to a page, an interface,
a list or a **service** (`service.c`).  A service streams from one of four upstreams
through a **stream context** (`stream.c`): shared **multicast sources** (`multicast.c`), an
**FCC** burst that precedes the multicast (`fcc*.c`), an **RTSP** session (`rtsp.c`) or
an **HTTP proxy** session (`http_proxy.c`).  RTP packets pass a **reordering
window** (`rtp_reorder.c`), with **FEC** recovery if the source sends it
(`rtp_fec.c`), into the connection's **send queue** (`send_queue.c`), whose
entries are reference-counted buffers of the worker's **pool**
(`buffer_pool.c`).  Services come from the **configuration** (`configuration.c`), which the
settings page rewrites (`settings_api.c`), and from **playlists** (`m3u.c`) that each worker
fetches again from time to time, with their **guides** (`epg.c`).  Workers, supervisor and
the status page share **status memory** (`status.c`); signals go from workers to the
supervisor and from there to the workers.

| Component | State it keeps | Operations | What makes it correct | What is hard |
|---|---|---|---|---|
| Reordering window | slots, base, count, phase | insert, flush, forced advance | source order, no packet twice, none skipped early | 16-bit wrap, aliasing slots, an occupied slot replaced |
| FEC | groups, parity, kept slots | take parity, recover, release | recovered packet delivered in its place, groups not mixed | stale groups, slots of another round, failing allocations |
| FCC session | state, server, kept packets, termination sequence, clocks | responses, redirects, sync, burst and multicast packets, tick, clean-up | seamless hand-over, burst ended once, viewer never stuck | five kinds of datagram that race, get lost, doubled or late; failing sends and joins |
| Supervisor | table of workers, flags, configuration | spawn, reap, reload, restart, shutdown | one process per wanted index, no storms, nothing left behind | signals between any two system calls, fork windows, reused pids |
| Worker loop | fd map, connections, event batch | accept, dispatch, close, deferred close, tick | events reach the owner of the socket, no descriptor lost | descriptors reused within a batch, shared sources, TEARDOWN in the background |
| Multicast source | subscribers, window, batch, schedule of reads | join, leave, promote, deliver, read, tick | every subscriber gets the stream, data is read in time, the last one closes the socket | subscribers leave while packets are delivered, notifications given once, rates that change |
| Connection and buffers | state, send queue, watermarks, references | queue, write, pause, resume, close | no buffer freed early or never, paused upstreams resume | limits that move while queueing, partial writes |
| RTSP client | request state, redirect, keepalive, STUN, TEARDOWN | answers, media, timeouts, reconnect | one outstanding request, media forwarded to the end, bounded time | clean-up that outlives the client, answers between frames |
| HTTP proxy, fetch | request state, chunk decoder | headers, body, idle timeout | body passed through unchanged, one answer | chunk boundaries anywhere, ends while paused |
| Status memory | client slots, generations, guards, pipes | admit, publish, update, leave, disconnect, reap | a slot has one owner, a snapshot one client, a request its target | several processes without locks, slots reused, deaths at any step |
| M3U, EPG | playlist, services, caches, timers | parse, asynchronous reload, retry, revalidate | what is listed is served and becomes current | answers after a new reload, names made unique |
| Services, time shift | seek parameter, settings, templates | merge, parse, convert, render | upstream seeks what the player meant | separators inside dates and zones, duplicated and overridden parameters |
| Configuration | settings, addresses, file and copy | parse, reload, rewrite, rename, signal | what was saved is what runs, and all that changed | several workers, crashes between steps, two readers of one format |
| Requests, gates | input buffer, parser state | read, gates, route | each request answered, given only to the entitled | pieces of any size, settings that change in between |
| Pid file, Unix sockets | prepared and committed paths | prepare, commit, roll back | a failing reload changes nothing | one step of several failing |

`PROJECT.json` lists the components with what is modelled of each, and the
hazards at the lines where they bite.

## 2. Modules

| Module | Models | Notes |
|---|---|---|
| `InOrderDelivery` | what a viewer is promised | abstract: the packets handed out rise, each once |
| `ReorderWindow` | `rtp_reorder.c` as a value | one operator per C function; used by `RtpReorder`, `RtpFec`, `Fcc` and `Multicast` |
| `RtpReorder` | the window at a receiving socket | network that loses, delays and doubles; refines `InOrderDelivery` |
| `RtpFec` | `rtp_fec.c` over the window | extends `RtpReorder`, whose streams are those without FEC; groups, parity, recovery, release; refines `InOrderDelivery` |
| `Fcc` | one FCC session of either vendor, with its window and its multicast source | refines `InOrderDelivery` |
| `Multicast` | one shared source, its window and batches, and its viewers | each viewer's stream refines `InOrderDelivery` |
| `Receive` | when a worker reads its multicast sockets | notifications, tasks, rates; its specification is `ReceiveSpec`, so that `Packets_proofs` can extend it and `RtpReorder` |
| `Supervisor` | supervisor, processes, operator | |
| `Worker` | event loop, fd map, connections, subscriptions, kernel's descriptors | its specification is `WorkerSpec`, so that `Processes_proofs` can extend it and `Supervisor` |
| `Connection` | the output of a client connection as values: pool of buffers, queue, limit, watermarks, partial writes | operators; used by `HttpProxy` |
| `HttpProxy` | one proxied answer: `http_proxy.c`, the client's connection, the worker's loop around them | |
| `Rtsp` | one RTSP session: `rtsp.c`, `stun.c`, its control connection, its client | |
| `Status` | the shared status table, one access to it per step | workers, the heir of a dead one, supervisor |
| `Channels` | `m3u.c`, `epg.c`, the fetches and timers of a worker | |
| `Catchup` | time shift: a list, the request a player makes of it, what goes upstream | `service.c`, `url_template.c`, `timezone.c` |
| `Settings` | the configuration: file, command line, reload, the page that rewrites the file | used by `Requests` |
| `Requests` | one worker's requests, read in pieces, gated and routed, over `Settings` | the composition the run `Web` checks |
| `Lemmas` | facts the proofs share | remainders, the least and the ranks of a set, lists without repetitions, folds |
| `Fcc_proofs`, `HttpProxy_proofs`, `Multicast_proofs`, `Rtsp_proofs`, `Status_proofs` | theorems about the module of the same name | section 4 |
| `Packets_proofs` | theorems about `Receive` and `RtpReorder` | section 4 |
| `Processes_proofs` | theorems about `Supervisor` and `Worker` | section 4 |
| `MC_*` | values for TLC | |

**How state maps to code.**  `win.slots/base/count/phase` are `slots`,
`base_seq`, `count`, `phase` of `rtp_reorder_t`; a packet is its index in the
source's unbounded numbering and the code sees it modulo `M` = 2^16, so that
properties can speak of what the 16 bits hide.

* `Fcc`: the variables carry the names of `fcc_session_t`; `idle`, `waited` and `quiet` are
  the distances of now from `last_data_time`, `unicast_start_time` and the multicast source's
  `last_data_time`, counted in worker ticks, an `idle` of -1 being a datagram so late in the tick
  that the next tick finds it fresh; `requests`, `terms` (who was told to end the burst, and what
  `sendto()` refused), `promised` (the endpoints that accepted a burst), `fell`, `losses`, `last`
  and `out` only observe.
* `RtpFec`: `groups`, `minEnd` and `active` are the fields of `fec_context_t`; a group is its
  first packet and the parity it has got.
* `Multicast`: `src` is `mcast_source_t` with `refs`, `batch_clients`,
  `packet_subscribers` (as a set), `shared_output` and its window and batch; `view` joins
  what a viewer keeps in `mcast_session_t`, `stream_context_t` and `connection_t`; `due`, the
  packets a viewer is owed, only observes.
* `Receive`: `src` holds the fields `receive_*` and `next_receive` of each source, with its
  socket's queue and whether the poller will notify; `list` is `receive_head` and what
  follows, `batch` the events that `poller_wait()` filled.  `waited` only observes.
* `Supervisor`: `slot` is `workers[]`, the flags are the `sig_atomic_t`s, `proc` is the
  kernel's process table, and `pc` with `todo` is the place in `supervisor_run()`.
* `Worker`: `owner` is the kernel's descriptor table, `fdMap` is `fd_map`, `subs` each
  source's list of subscribers, `batch` the rest of the array of events.
* `HttpProxy`: `conn` is `connection_t` (`armed` is `write_poll_armed`, `scheduled` its place
  in the worker's list of writes, `avg`, `slow`, `since` the estimate of slowness), `pool` is
  `send_buffer_state.pool`, `sess` is `http_proxy_session_t`; `up` and `client` are
  the two sockets as the kernel has them, with `up.edge` an event that epoll has yet
  to report once.  A handler there works on the record `Now` of all of them, and
  `ret` is what the C function returns.  Memory is counted in tenths of a buffer, which
  keeps the factors 3.0, 1.5 and 0.8 of `connection.c` exact.
* `Rtsp`: `sess` is `rtsp_session_t`, `link` the control connection seen from the server
  (`todo` are the requests it has not answered, `wire` what it has sent that is unread),
  `viewer` the client's connection.  Handlers work on a record as in `HttpProxy`; where the
  network decides they are sets of records.
* `Status`: `slot` is `status_shared->clients`, `admission` and `guard` are the two owner
  fields that serve as locks, `pipe` the bytes in the notification pipes, and `proc[p].pc`
  where a process is in `status.c`, so that every access to the shared memory is a step of
  its own.  `born`, `credit`, `asked`, `granted`, `expelled` and the field `since` of a process
  (the generation a slot had when a reader took its version) only observe.
* `Channels`: `playlist` is `m3u_cache_t`, `epg` is `epg_cache_t`, `services` and `map` are the
  list and the table of services, `fetches` the child processes behind the pipes, `conf`
  the settings with the time since the last update.
* `Catchup`: `conf` and `made` are `service_t`, of the playlist and of the request; a text
  is the sequence of what stands between its dashes.
* `Settings`: `file` and `tmp` are the lines of the file and of the copy beside it; `proc` is
  what each process has parsed (`conf`, `binds`, `list`) with the `cmd_*_set` flags
  (`given`, `listens`) and the parser's sections; `saver` is where a worker is in
  `config_apply_global_settings()`.  `meant`, `meantAt`, `owed`, `raced` and
  `torn` (a truncated copy was renamed) only observe.
* `Requests`: `conn` is `connection_t` while it reads: `in` what the input buffer holds, `net`
  what the socket holds, `edge` an event not yet reported; `what` names what the answer gives.

**Grain.**  A worker is single-threaded, so one handler is one action, with
everything it calls.  Supervisor, children and workers run concurrently, so there
a step is one system call, or one access to shared memory, that another process can notice:
a save of the settings is four steps, an admission to the status table more than ten.
`Worker` splits accept into one step per client; nothing else runs between those steps
because the event stays at the head of the batch.

## 3. Runs

| Run | Question | Bounds and why they are enough |
|---|---|---|
| `RtpFec` | Does the window, with FEC or without, ever lose, repeat or swap packets it need not? | `W` = 8 slots in `M` = 64 numbers. Without FEC: streams of some 25 packets, which wrap the numbers and go round the ring three times; two packets in a row lost among the first three, later nine, more than the window holds, so that a forced advance empties the whole ring and all six branches fire; packets late by more than the window. With FEC: groups of three with two parity packets, on a port of their own or between the media, room for three groups; a repairable stream goes round the ring more than four times, a lossy one, in which recovery may fail, just over once |
| `Fcc` | Does a session deliver one seamless stream, reach the multicast, end its burst once? | both vendors, two servers, two arbitrary control messages, datagrams that keep coming and say nothing new in every state, one packet lost, dropped for want of a buffer or sent by a server that is not listened to, sends and joins that may fail, a burst two packets behind and across the wrap of 16 numbers, a wait for the sync that is longer than the timeout of a silent burst, as in the code |
| `Multicast` | Does a viewer get every timely packet once and in order, however it is served? | two viewers (symmetric), each joining plain, in a channel change or for a snapshot; a window of 4 in 32 numbers, crossed at the wrap; batches of two packets, so that every flush happens; streams that go once round the window; per behaviour two packets out of turn (or a parity packet), or one failing allocation, closing or failing source (`MaxTrouble` = 2, of which those take all) |
| `Receive` | Is a datagram ever left lying in its socket? | two sources (symmetric) with buffers for the long, the short and no delay, reads that yield at four datagrams, a rate window of two, six datagrams in six units of time (so that every source changes between notification and tasks and back), one failing read or registration |
| `Supervisor` | Do table and processes agree, are restarts limited, does it converge, does all end together? | two indexes, two pids (so that each is reused), three configurations that differ in worker count, address and another setting, any two of: signals, crashes, failing forks; then SIGTERM or SIGKILL at any point; each signal may find a child that still has the actions of its parent |
| `Worker` | Does an event ever reach a connection that is not the socket's, is a socket ever forgotten? | two connection objects, four descriptors (so that the lowest is reused at once), one shared source, three clients |
| `HttpProxy` | Is the body passed on in order, is a paused server resumed, does the client get one answer and an end? | eight kinds of request and answer (with length, chunked or until the end; HEAD; a request that cannot be built; a bad head; playlists that are rewritten), two addresses; a pool of four buffers that grows to eight, other connections taking all but one of them; three units to a buffer and eight to a flush, as 1536 bytes and 64 KiB; bodies of 15 units, twice the queue; a client whose socket takes seven |
| `Rtsp` | Do requests ever overlap, does a redirect survive the connection it left, is media forwarded to the end, does a session that was left end? | interleaved and UDP streams and the two probes (DESCRIBE and its duration); STUN and credentials present or not; two candidates of an address, one redirect, one challenge, one keepalive, two media items in a buffer of three, one free buffer |
| `Status` | Does a slot ever have two owners, a snapshot two clients, a disconnect request the wrong victim? | two slots, two worker indexes with a heir of each that dies, three pids; a page at one worker, two clients of one address that use a slot one after the other (`MaxClients` = 1), one address in the table of blocked ones, two updates and one request; each access to the shared memory a step |
| `Channels` | Does the list ever lead to the wrong source, is a client that revalidates told the truth, do list and guide become current? | three configurations (inline list with a fetched one, a local one, none fetched); three versions of the list, two of a guide, compressed or not; fetches that last longer than a reload; two pipes; any three failures |
| `Catchup` | Does the server seek what the player meant, whatever the forms, zones and settings? | ten sources over RTSP and HTTP, with every combination of seek mode, offset, name and placeholder that the code treats differently; about 1100 requests: begin alone, begin with and without an open end, each with times as epoch, compact, basic and ISO, zones none, 0, ahead and behind, one setting before or after it; day borders cannot matter because times count hours |
| `Web` | Is each request answered as its gates and its route say, is what was saved what runs, is all restarted that has to be? | eight files (duplicates, two sections, an inline list that is the last section or the last but one, none at all) and the command lines nothing, ports and several settings; two workers of which one serves; every gate and every route with about 200 requests that arrive in pieces of one and two units; two saves, one crash, writes that fail, noticed or not; the saves of two workers interleave step by step |

Properties, in words, stand above their definitions.  They come from the hazards; the type
invariant of a module is a conjunct of one of them.  Every property has a mutant of the code in
`PROJECT.json` that breaks it: a dropped guard, a missing reset, an off-by-one, a forgotten
case.  All runs pass; what the code does otherwise than it says is told in section 5.

**Assumptions on the environment**, each of which excludes something told in section 5 or
something a bound could not hold:

* `RtpReorder`: `ReachAssumption`, of two parts.  The packets that are collected before delivery
  begins, the first `InitCollect`, span less than the window: with the 32 slots and the eight
  packets of the code no more than three in a row are lost among them (`FirstLoss`), and one may be
  late by `FirstLate`, seven packets with the greatest losses, 25 with none.  After that a loss may
  be of any length (`MaxLoss`) and a packet as late (`MaxLate`) as leaves it less than half the
  number space from `base`: more than 32,000 packets.
* `RtpFec`: in a repairable stream the parity of a group arrives before its last packet, at most
  `MaxGap` packets are missing at a time, and FEC is known before delivery starts.  A lossy
  stream ends before a packet in the window is a window old (`RingIsFresh`) or a recovery finds
  its packet already there (`exact`), because the kept slots are not compared with numbers.
* `Fcc`: a burst packet overtakes at most `MaxFlight` others, and servers send no packet before
  the source has.  A packet of the burst may come from either server: once one has named an
  endpoint (`verify`) the others' are dropped, and so is any packet the pool has no buffer for;
  both count as losses, without which only `Seamless` is promised.
* `Multicast`: a packet is at most `MaxLate` behind the newest one; after the switch to FEC the
  promises hold while the ring is fresh, as above.
* `Receive`: a handler lets no datagram in between its steps (they arrive before or after).
* `HttpProxy`: what arrives fills buffers, and three quarters of the least share of a client make
  a batch (`Fills`; 48 buffers of 1536 bytes do); the pool is at most twice that share, so that
  the limit is always the same.  The proofs do without the last; `BodyInOrder` needs it (section 5).
* `Rtsp`: a redirect answers neither TEARDOWN nor a keepalive (`Redirecting`); what is promised
  of the last media is so while no keepalive is outstanding.
* `Status`: no process dies between taking a guard and giving it back (`DiesInGuard` = FALSE).
* `Channels`: what is listed is served unless a reload failed half way (`conf.broken`).
* `Catchup`: times count hours and zones whole hours; one placeholder between two dashes, no
  dash inside one; sources whose settings name the parameter they use (`Coherent`).
* `Settings`: nothing is promised after two saves overlapped (`raced`), after a copy was renamed
  whose write had failed without being noticed (`torn`), between a rename and
  its signal, or of the settings in `Unchecked` when the command line gives them; nothing of the
  inline list while exactly one section follows it, before the save or after (`Stranded`).  The
  number of workers is fixed and the file readable.  Files hold no legacy spellings and no unknown
  section inside [global].
* `Requests`: the table of blocked addresses and the guide do not change; the cookie setting and the
  rewriting of playlists are left out; one connection at a time.

**Fairness.**

* `Fcc`: only the worker's tick (`worker.c` runs it at least every 100 ms).  Servers and network owe
  nothing, nor is a datagram that has arrived sure to be read: a handler that finds no buffer
  leaves the rest in the socket (`fcc.c:420`).
* `Supervisor`: its loop, which never blocks (`waitpid` with `WNOHANG`), and each child's own
  steps; operator, crashes and failures owe nothing.
* `Worker`: the handling of a batch that was reported.
* `HttpProxy`: the worker's loop (events, writes, the tick's timeouts), a client that reads, and
  a server that ends in the end; nothing of the client's leaving.
* `Rtsp`: events of a socket that stays ready, and timeouts that have come; the server owes
  nothing.
* `Channels`: the tick while it is on time, and fetches that end (a fetch has a timeout of its
  own).
* `Requests`: handling of what a connection has to do, and each step of a save.

Most are written as `[]<>~Guard \/ []<><<step>>_vars`, which is weak fairness with the
enabling condition spelt out.  `RtpReorder`, `RtpFec`, `Multicast`, `Receive`, `Status` and
`Catchup` state none, because they promise nothing that must happen; `Receive` measures the time a
worker sleeps over a datagram instead.

**Deadlock** is checked in `Catchup` only: elsewhere sessions and supervisors end, and the
bounded sources, networks and clocks run dry.

## 4. Proofs

TLAPS proves for all values of the constants that satisfy the modules' named
assumptions (which TLC evaluates in every run):

| Theorem | States | Of |
|---|---|---|
| `DeliveryIsInOrder` | `Spec => InOrderOnce`: what leaves the window implements `InOrderDelivery` | `RtpReorder` |
| `NothingIsSkippedTooSoon` | `Spec => NoPrematureSkip`, an action property | `RtpReorder` |
| `NoDatagramIsStranded` | `ReceiveSpec => []NothingLiesUnread` | `Receive` |
| `RelayInOrder` | `Spec => []IInv`: what a client was given agrees with how far its session has come | `HttpProxy` |
| `AnsweredOnce` | `Spec => []OneAnswer` | `HttpProxy` |
| `HeldBackIsWoken` | `Fills` implies `Spec => []PausedHasWaker` | `HttpProxy` |
| `BurstIsEnded`, `JoinsBeforeTermination`, `AtMostOneTermination`, `RequestsAreBounded` | the four safety properties of a session's control messages | `Fcc` |
| `HandoverIsSeamless` | `Near` implies `Spec => []Seamless`: no gap between burst and multicast | `Fcc` |
| `EveryViewerHasOneWay` | `Spec => []OneWayEach` | `Multicast` |
| `TableAlwaysMatches`, `RestartsAreLimited` | `Spec => []TableMatches`, `Spec => []NoRestartStorm` | `Supervisor` |
| `EventsReachTheirConnection`, `NoDescriptorLeaks` | `WorkerSpec => []MapLeadsToOwner`, `WorkerSpec => []NothingLeaks` | `Worker` |
| `SessionRests` | `Spec => []IInv`: what a session keeps between two calls | `Rtsp` |
| `RequestsWaitForAnswers`, `SetupNamesWhatDescribeDid` | `Spec => []OneExchange`, `Spec => []SameEndpoint` | `Rtsp` |
| `SlotsHaveOneOwner`, `SnapshotsAreWhole`, `TheRightOneIsClosed`, `AnswersAreKept` | the four properties of the run `Status` | `Status` |

Hardly any property is inductive alone; each module has its `IInv`, which TLC checked on the
instance of the run before it was proved.

* `Packets_proofs`, the window.  It knows numbers modulo `M`, so `IInv` says that there is an
  unbounded `B` for which `base` stands: every packet held is in the slot of its number and
  between `B` and `B + W`; while packets are collected their range grows by at most `FirstLoss +
  1` a packet (or `FirstLate` once); while they are delivered, what was passed over lies a window
  behind the newest.  `Ahead` of two numbers is then the difference of what they stand for
  (`Lemmas`: numbers less than `M` apart that have one remainder are equal), so each branch of
  `rtp_reorder_insert()` is the right one.  The assumption this needs is `ReachAssumption`
  (section 3), which bounds losses tightly only while packets are collected: there the code stores
  whatever comes by its number modulo `W`, and the theorems fail without the bound (section 5).
  Once packets are delivered, a loss of a window and more is what makes the window skip, and the
  theorems cover it: `AdvanceKeeps` holds for an advance of any length.  The window with FEC,
  which keeps delivered packets in their slots, is left to TLC: its promises hold for streams of
  bounded length only.
* `Packets_proofs`, the sockets.  `ReceiveIInv` says that a source that is open and has not failed
  is armed at the poller, in the batch or has a task (`Watched`), that only a source that is read
  late may be unarmed (`Bounded`), and that a task comes due before the delay of its source is
  over (`Due`).  A descriptor that is closed and opened again meets it because closing unlinks the
  task and opening arms anew.
* `Fcc_proofs`.  `IInv` ties the count of terminations to `fcc_term_sent`, the requests to
  `redirect_count`, and says that a session that has joined is in one of the two multicast
  states (`OnlyForward`).  From that, no response can start a new burst after the join,
  because responses count only in REQUESTED; so the termination, which needs a
  joined source, is never followed by another request.  Each handler's lemma
  reduces to one of four shapes: clean-up (`CleanupKeeps`), a forward move
  (`Moves`), no change (`Stays`), or the first multicast packet (`McastKeeps`).
  `OneTermination` and `BoundedRequests` are proved and no longer in a run.  `EndsBurst` needs to
  know who may be bursting: `Informed` says that only the server in use has promised a burst, in
  REQUESTED not even that one, so that a redirect leaves no promise behind, and that a
  termination which was sent went to the server in use.

  `Seamless` needs to know what the window holds.  `Core` says that, while nothing has been
  lost, the packets of the burst that have arrived are those sent and not under way
  (`Received`), that the window has exactly those of them that are not handed out yet, each in
  the slot of its number (`Holds`), and that the packet `base` stands for is the one after the
  last that was handed out (`InStep`).  A packet that is missing is therefore under way, and
  the at most `MaxFlight` that can overtake it fit into the window behind it: `seq` is never a
  window ahead of `base` (`Reach`), so the forced advance and the give-up, which make gaps, do not
  happen.  What is kept of the multicast is consecutive because the socket delivers in order
  (`Kept`), and the session switches over only when the burst has got to the first packet kept
  (`Joint`).  The hypothesis `Near` is what separates the code from that promise: fewer than half
  the sequence numbers between burst and multicast, and overtaking that fits into the
  window; `MC_Fcc` has TLC evaluate it.  Loops are not unfolded:
  `flush_consecutive()` is described by its result (`FlushKeeps`), and what a flush reports as
  newest by a lemma about runs of consecutive numbers (`NewestOfRun`).
* `HttpProxy_proofs`.  As in `Rtsp`, a call passes a record through its operators; `Mid` says what
  holds of it on the way, `Settled` what holds when the call is over, and `IInv` says that `Now` is
  settled.  `OneAnswer` seems to need only that a 503 is sent before any headers (`Single`, `Blank`),
  but a pool that is dry, or a limit that is reached, cuts an answer short anywhere.  If that
  happens to the headers themselves, part of a head may be queued with `headersSent` unset, and the
  call that fails goes on to send a 503.  What saves the client is that the 503 does not fit either:
  a connection that has just refused a buffer refuses the next one (`Stuck`), because nothing in
  between gives one back, an expansion of the pool after an expansion does nothing
  (`ExpandedOnce`), and a connection is not called slow at once (`Calm`).
  `PausedHasWaker` compares two counts: a server is paused on the capacity of what is queued,
  writing begins on its payload.  While nobody is told to write, all that is queued are whole
  buffers of the body, less than a batch of them (`Lazy`); a queue long enough to pause the server
  is then longer than a batch, so the call that pauses it has told somebody (`Pause`).  That rests on
  `Payload` adding up (`PayloadAdds`), on reads that leave whole buffers behind (`Aligned`), and on
  `Fills`; without `Fills` the property fails, as section 5 tells, and `MC_HttpProxy` has TLC evaluate
  it.  A write that ends below the low mark resumes the server in the same call, a write that does
  not leaves the connection armed or scheduled.
* `Multicast_proofs`.  `OneWayEach` is inductive as it stands, once it is read as a statement
  about what a call works on between any two of its steps (`Good`): `IInv` says it of
  `Now`.  So each operator that a call is composed of has a lemma of its own: a fan-out, a flush,
  an append or a delivery leaves everybody served as they were (`SameWays`), a promotion, the
  switch to in-band FEC, a join and a departure change the lists and the counters together, and
  `BecomesGood` carries the result over to the next state.  A call appends what comes out of the
  window packet by packet, with a fold; `Lemmas` shows that such a fold is well defined
  (`FoldExists`) and keeps what each of its steps keeps (`FoldedStays`).  That nobody is counted
  twice when promoted rests on `ready` being disjoint from the viewers of the batches, that the
  source is freed with its last viewer on `refs` being the number of those attached.
* `Processes_proofs`, the supervisor.  `IInv` adds that an index about to be
  spawned has no process (`Vacant`), which makes `spawn_worker()` safe
  (`SpawnKeeps`); a reload establishes it by skipping the indexes whose former
  worker has not been reaped, the other loops by their guards.  Signals only
  change what a process will do (`TermShape`), never whose it is.
  `NoRestartStorm` compares two lists: the code counts the restarts it has noted, the
  property the workers that have started.  `Limits` says that both are in order and that the
  k-th newest of the restarts is no older than the k-th newest of the workers (`Paced`), so that
  a worker which is still in the window has its restart there too, all but the first
  (`GoodAged`).  It rests on each caller of `spawn_worker()`: the first loop starts workers
  of which there has been none, the loop over postponed restarts turns to an index once and
  only if it may be restarted, and a failing `fork()` adds to the restarts alone
  (`GoodRestart`).
* `Processes_proofs`, the worker.  `WorkerIInv` says that the tables are inverse to each other:
  what a connection has as its socket or session the kernel has as its descriptor (`Registered`),
  a source's list and its viewers name each other (`Subscribed`), the fd map names for each
  descriptor a connection that may handle it (`Mapped`), and a freed object has nothing
  (`Cleared`).  The hard step is a viewer that leaves a shared source whose events the map sends
  to it: the entry passes to another viewer before the object is freed.
* `Rtsp_proofs`.  A call of the session passes a record through many operators, several
  sets of outcomes and two loops, so the invariant is stated of such a record (`Good`), each
  operator has a lemma that says which part of it can change (`SameCourse`: only the media side;
  `SameBytes`: nothing of the connection), and `IInv` says that `Now` is good and rests in no
  passing state.  What goes out is prepared exactly in the states that send it (`PendRight`); a
  request that waits for its answer, in the server, on the wire or in the buffer, is there only
  while `awaiting_response` is set, unless the session is being torn down (`Counts`); and
  because answers carry no name, that an answer which names a transport is one to SETUP needs
  that none is anywhere outside AWAITING_SETUP (`SetupRight`).  An answer that is there in part
  is followed by its rest (`Whole`), which is what lets the parser take one answer a call.
  `SameEndpoint` needs that nothing changes the mapping between DESCRIBE and SETUP:
  `NamedRight` holds because STUN is never under way there, and a second DESCRIBE, after a
  challenge or a redirect, names the mapping anew.  The step that breaks most attempts is the
  connection that is replaced inside a call: what the old one still held is gone with it, and a
  request may be left prepared while the session connects, but never SETUP.  Both theorems hold
  for any `Redirecting`, also where `LeftMeansGone` does not (section 5).
* `Status_proofs`.  A status table without locks is right because of what each of its writers
  leaves alone.  `IInv` says of a slot that it names only the client registered under its
  generation, who has not been accounted for (`SlotRight`), and of a client that its number is
  its own (`BornRight`); of a process that it owns the slots of its connections and the one it
  is placed in (`Owns`), that a version is odd just while its owner writes (`Writes`), and that
  the client on its way in has no number yet (`Registers`); of a reader, step by step, what it
  may conclude from the version and the generation it has read (`Reads`): until the generation
  is read again the copy names somebody registered under this or a later one, after that under
  this one; and if the version is unchanged and the slot was this client's all along, both
  halves are of one update.  The steps of others are `Harmless` to a reader if they leave the
  slot nobody's, a later generation's, or at a later version; each writer's lemma shows that.
  Deaths need no argument of their own but one: a dead process owns what it owned until
  `status_reap_worker()` has erased it, and only then its index is used again.  TLC had found
  no counterexample to the unconditional form of `SnapshotIsOneClient` with a single update;
  the attempt to prove it found one (section 5), and the run now makes two.

The proofs do not use the fairness conditions.  Left to TLC:

* all liveness (`ReachesMcast`, `Converges`, `EndsTogether`, `Settles`, `LeftMeansGone`,
  `LastMediaIsForwarded`, `BecomesCurrent`, `WholeRequestIsAnswered`), which needs ENABLED or
  fairness;
* `Whole` and the refinements of `InOrderDelivery` in `RtpFec` and `Fcc`;
* `InOrderOnce` and `NothingDueIsLost` of `Multicast`, which relate windows to each other and to
  the batch packet by packet;
* everything about `Channels`, `Catchup`, `Settings` and `Requests`, whose models are functions
  of texts and lists;
* `BodyInOrder` of `HttpProxy`, which follows each unit of the body through the queue and holds
  only where the limit never falls (section 5).

## 5. Met while modelling

The models follow the code, so the properties promise what it does and their
assumptions leave the following out.  Line numbers name where it happens.

**Window and FEC.**  A duplicate that replaces an occupied slot is counted twice, so `count` may
exceed the packets held (`rtp_reorder.c:272`).  After a forced advance the packet at `base_seq`
may already be in the window and waits for the next arrival (`:256`).  First packets a window or
more apart share slots while the window collects (`:103`): one of them is turned away, and one
that is held too far from the base is handed out in another's place.  With FEC, delivered packets
stay in their slots, "overwritten when ring buffer wraps around" (`:102`), but no loop compares
numbers: a packet that is still missing a round later is replaced by the stale one in its slot.  A
recovery that finds its packet in the window advances the base without lowering `count` (`:297`),
so a later flush runs past the newest packet into stale slots, and the next real packet is late.
A forced advance passes repairable holes without an attempt and groups without releasing them;
recovery is tried once per early media packet and never when parity arrives.  Evicting the oldest
of the 32 groups releases packets that were not delivered; an allocation that fails after an
eviction leaves `min_end_seq` stale, without harm.  Parity before the first media packet is
compared with base 0.  A hole that lasts longer than the window less a group meets slots that were
reused.  A recovered packet that was shorter than its group's longest keeps the padding.

**FCC.**  The result of `mcast_session_join()` is ignored when a session falls back
(`fcc.c:354`, against the promise of `fcc.h:40`), and nothing retries: the session stays in
MCAST_ACTIVE with no source.  Burst packets that overtake the response are delivered in
REQUESTED with the sync-wait clock not running; every datagram of the session's server puts the
timeouts off, whatever it holds (`fcc.c:445`), so one that keeps sending keeps the session in
REQUESTED, UNICAST_PENDING or MCAST_REQUESTED for good.  `ReachesMcast` says so (`HeldUp`); in
UNICAST_ACTIVE alone the wait is bounded.  A server that was left by a redirect is told nothing
when the session ends, only the one in use is (`:286`): if it bursts all the same, nobody stops it.
A handler that finds the pool empty drops one datagram and leaves the others unread (`:420`), and
once a server has named an endpoint, packets from elsewhere are dropped (`:440`): either leaves a
gap that nothing reports.

**Supervisor and worker.**  Only SIGHUP is blocked around `fork()`: a SIGTERM that arrives before
the child has restored its signal actions sets the child's copy of the stop flag and the worker
lives on (`supervisor.c:179`), with the index and the addresses it was given.  So SIGUSR1 does not
always terminate "all worker processes" (`docs/en/reference/configuration.md:327`), a reload may
leave a worker on the former addresses, and one too many is not ended; a shutdown that comes so
early waits for SIGKILL.  `EndsTogether` and `Converges` make an exception of such a worker.  If
`fork()` fails in a restart, the slot keeps pid 0 without `rate_limited`, which no later pass
looks at (`supervisor.c:367`, against `supervisor.h:22`).  A worker that cannot open the
configuration on SIGHUP goes on with defaults (`worker.c:341`).  A hang-up left in the batch
closes a new client whose socket got the number of one closed earlier in the batch (`worker.c:471`
and `:254`).  A client that shuts down its sending side is closed before it is answered
(`worker.c:471`).  If the pool is dry when a session fails, its 503 does not fit and nothing ends
the connection (`worker.c:549`).

**Connection and HTTP proxy.**  The high mark that pauses a server counts the capacity of the
queued buffers, the threshold that starts writing counts their payload; with reads below some 1365
bytes and a limit of 96 KiB (`-b 128`) the server is paused before anything was scheduled to be
written, and nothing resumes it (`connection.c:1323`, `:423`). `connection_queue_buffer()`
computes the limit anew after the read was allowed (`connection.c:1283`): if the client is found
slow in this call, or the buffer that was taken for the read expands the pool to its greatest size
or lifts its use over 85 %, the buffer that was just filled is dropped (`:1293`). Receiving that
fails in `http_proxy_resume_upstream()` is ignored (`http_proxy.c:181`), so the body goes on
behind the gap, although "dropping bytes mid-stream would corrupt the response body" (`:928`).
With `MaxBuffers` = 14, `InitialBuffers` = 10, `LowWatermark` = 0, `HighWatermark` = 12,
`BaseBuffers` = 14, `ActiveStreams` = 4, `OthersMax` = 4, `Candidates` = 1 and one body of 45
units in one segment, TLC finds `BodyInOrder` violated so in sixteen steps: the queue reaches the
high mark, two writes bring it below the low one, meanwhile other connections take what was given
back, and the resumed relay expands the pool.  The same ignored failure is why `Settles` has its
condition.  A server that ends before its head is complete leaves an empty answer, without a 503
(`:1000`); a reset that finds reading paused completes the session without what had arrived
(`:1396`); a playlist cut short of its Content-Length is rewritten and sent as if complete
(`:878`).  The slow clamp takes the limit below the "lower bound" of `connection.c:434`.

**RTSP.**  A challenge (401) to OPTIONS, SETUP or PLAY leaves the session in a sending state whose
write event nobody asks for and which has no timeout.  An end of the connection met behind
buffered frames while a keepalive is outstanding is never acted on (`rtsp.c:1106` and
`:1150`); with an empty buffer it is an error.  A request of the server while an answer is
awaited is an error.  TEARDOWN over a half-sent keepalive garbles both; a client that leaves in
SENDING_PLAY or AWAITING_PLAY gets its server no TEARDOWN; a redirect that answers TEARDOWN or
a keepalive starts the session again, up to PLAY, for a client that has gone (`rtsp.c:3476` does
not ask whether `teardown_requested` is set): with such a server in `Redirecting`,
`LeftMeansGone` fails.  The address that STUN found is advertised again after a redirect.

**Status.**  `status_reap_worker()` does not give back `blocked_ip_owner_pid` (`status.c:697`,
against `supervisor.c:348`), so a worker that dies holding it stops the table of blocked
addresses.  The pipes' writing ends block, though `status.c:751` calls EAGAIN acceptable.  A
disconnect request is lost when a slower worker writes an older generation over it.
`snapshot_client()` reads `data_version` before `generation` (`status.c:260`), and the version begins at
0 for each client: if a slot changes hands between the two reads, and the new client's version
has come as far as the old one's, a page accepts a snapshot that holds half of an update
(against "the most recently published queue snapshot", `docs/en/reference/benchmark.md:114`;
`SnapshotIsOneClient` says it of slots that did not change hands there).  The
events' cursor advances though the payload was not queued.  Bytes are lost if a worker
dies between clearing `active` and adding them to the total.

**Lists and guides.**  A fetch begun before a reload installs the former list (`m3u.c:1736`, against
`docs/en/reference/configuration.md` on reloads); the guide of the old URL is kept likewise, and
when a new list names none.  A fetch that cannot be started calls nobody back, so no retry is
scheduled, although `m3u.c:1766` says it is handled.  A reload that fails in a worker "keeps
old config" (`configuration.c:1203`) after it was reset, and the list names services that
are gone.  The ETag covers neither the header nor the base URL of the list.  A worker whose index is at
least the interval never updates (`worker.c:653`).  Names that end in a number of more than three
digits are not recognised by `find_unique_service_name()`.

**Time shift.**  The configured seek value is left out when a request has any query and kept when
it has none.  A zone written without a colon (`+0800`) is misread (`%3d%c%2d`), and `-0500`
is taken for the end of a range.  A source with only an end placeholder advertises a value
that can never be parsed (`m3u.c:627`); one whose `r2h-seek-name` is not the name of
its range advertises `playseek`, which the service ignores (`url_template.c:60`,
`service.c:574`).  A first parameter whose name ends in `playseek` or `tvdr` hides the real one
(`service.c:584`).  An undecodable value costs an HTTP service all its settings, an RTSP service the
request.

**Configuration.**  An inline list followed by exactly one other section header is never parsed
(`configuration.c:842`), and a save that appends such a section, [bind] to a file that has none
(`settings_api.c:336`), thereby loses it.  `workers`, `external-m3u` and
`external-m3u-update-interval` in the file override the command line (`configuration.c:550`,
`:726`, `:734`, against `docs/en/reference/configuration.md:7`).  Two workers that save at once
share one copy: a truncated file may be renamed, one of them answers 500 though its content is in
place.  The results of `fflush()`, `fsync()` and `fclose()` are ignored (`settings_api.c:357`),
and `fwrite()` has only filled a buffer by then: on a full disk the truncated copy is renamed over
the file, the reload is signalled and 200 answered, and what came after the cut is gone.  After
that (`torn`) `RunsWhatWasSaved` and `NothingElseIsLost` promise nothing.  A save without `listen`
sets [bind] to `* 5140`; its comments are dropped; several addresses change their order with each
save, so that all workers are restarted though nothing changed.  A section the program does not
know ends [global] for the rewriter and not for the parser.  A crash between rename and SIGHUP
leaves a saved file that does not run.

**Requests.**  The token is removed from forwarded headers as the settings are when the head is
read, not when it is routed; a User-Agent that is nothing but the token is forwarded as it is
(`http.c:414`).  A `$label` after a token that contains `$` makes the token unrecognisable.
Heads that cannot be parsed and bodies that are too large are closed without an answer.

## 6. Plan and limits

Modelled so far: the packet path from the socket to the client's queue, all four upstreams, the
processes, the lists and the settings.  Of the proofs, what is left is order in
`Multicast` (that the windows of a viewer and of the source stand for the same packet whenever
their bases agree) and `BodyInOrder` of `HttpProxy` (what is queued is what was read and not yet
sent).

Left to model: reference counts of buffer views and the ages of pool segments; the same queue
under a stream that drops; the chunked decoder against "the body, unchanged"; pid file
and Unix sockets (prepare, commit, roll back); the periodic rejoin of a multicast group; requests
of several connections at a time.

Not modelled, and not planned: Reed-Solomon arithmetic (by its effect in `RtpFec`), the
formatting of pages, logs and their ring, the web player and tools, generated and vendored
data (`embedded_web_data.h`, `minimp3.h`), packaging.
