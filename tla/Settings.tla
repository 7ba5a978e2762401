------------------------------ MODULE Settings ------------------------------
(***************************************************************************)
(* The configuration: how a process takes it from its command line and the *)
(* file, how the settings page rewrites the file, and how what was saved   *)
(* reaches the supervisor and its workers (configuration.c,                *)
(* settings_api.c, the fork_config part of fork_web.c).                    *)
(*                                                                         *)
(* The file is a sequence of lines; a value is a name, and what its parser *)
(* makes of it is all that is kept.  Settings that are absent, NULL or the *)
(* empty string mean the same to their users and are all "" here.  A save  *)
(* reads the file, writes a copy beside it, renames the copy and signals   *)
(* the supervisor: every one of these is a step, other processes run in    *)
(* between, and the worker may die at each.                                *)
(***************************************************************************)
EXTENDS Integers, FiniteSets, SequencesExt

CONSTANTS
    Workers,    \* the worker processes
    Super,      \* the supervisor
    Fields,     \* the settings the page shows, in the order of its table
    Default,    \* the value of each when nothing sets it
    Numerals,   \* the values a setting with a range accepts
    Normal,     \* values that are a page's path, with the form it is kept in
    Paths, V6Nodes,  \* the listening addresses that are a socket's path, and those of IPv6
    Files, Commands, \* what the program may be started with, and [file -> command lines]
    Forms,      \* [file started with -> what clients may post]
    MaxSaves,   \* [file started with -> saves]
    MaxCrashes,
    WritesMayFail

ASSUME SettingsAssumption ==
    /\ Super \notin Workers /\ Default \in [ToSet(Fields) -> STRING]
    /\ MaxSaves \in [Files -> Nat] /\ MaxCrashes \in Nat /\ WritesMayFail \in BOOLEAN

VARIABLES
    cmd,     \* the command line
    file,    \* the lines of the file
    tmp,     \* those of the copy beside it, or NoFile
    proc,    \* [process -> what it took from them]
    asked,   \* the signals the supervisor has to act upon
    signal,  \* [worker -> the signal it has to act upon]
    saver,   \* [worker -> the save it is at]
    origin,  \* the file the program was started with
    meant,   \* [setting -> the value last asked for in the file]
    meantAt, \* the addresses last asked for
    owed,    \* whether a save has changed the file and not signalled it (yet)
    raced,   \* whether two workers have ever saved at the same time
    torn,    \* whether the file has ever been replaced by a part of its copy
    saves, crashes

files == <<file, tmp, meant, meantAt, torn>>
bounds == <<saves, crashes>>
settingsVars == <<cmd, files, proc, asked, signal, saver, origin, owed, raced, bounds>>

Keys == ToSet(Fields)
NoFile == <<[l |-> "none"]>>
NoForm == [no |-> "form"]
-----------------------------------------------------------------------------
(* One setting.                                                            *)

Numbers == {"maxclients", "workers", "buffer-pool-max-size", "udp-rcvbuf-size",
            "mcast-rejoin-interval", "fcc-listen-port-range"}
Flags == {"xff", "video-snapshot", "use-relative-path-in-m3u", "web-auth-require-local"}
PagePaths == {"status-page-path", "player-page-path", "setting-page-path"}

\* Settings the file sets even if the command line has.
Unchecked == {"workers", "external-m3u", "external-m3u-update-interval"}

Normalised(v) == IF v \in DOMAIN Normal THEN Normal[v] ELSE v

Number(v, old) == IF v \in Numerals THEN v ELSE old
Flag(v) == IF v = "on" THEN "on" ELSE "off"
PagePath(v, old) == IF v = "" THEN old ELSE Normalised(v)
Prefix(v) == Normalised(v)

\* What a setting becomes when a parser meets v.
Stored(k, v, old) ==
    CASE k \in Numbers -> Number(v, old)
      [] k \in Flags -> Flag(v)
      [] k \in PagePaths -> PagePath(v, old)
      [] k = "app-path-prefix" -> Prefix(v)
      [] OTHER -> v

\* The former spelling of two names.
KeyOf(name) == CASE name = "access_log" -> "access-log" [] name = "log_format" -> "log-format" [] OTHER -> name
-----------------------------------------------------------------------------
(* Reading the file.  A parse goes line by line through p, which holds what*)
(* the process has so far and, of the parser, the section it is in and the *)
(* one it was in before.                                                   *)

Sections == {"global", "bind", "services"}

\* The inline playlist becomes services.
Flush(p) == [p EXCEPT !.list = @ \o p.buf, !.buf = <<>>]

EnterSection(p, name) ==
    LET q == IF p.prev = "services" THEN Flush(p) ELSE p
    IN  IF name \in Sections THEN [q EXCEPT !.prev = p.sec, !.sec = name] ELSE q

BindLineRead(p, ln) ==
    IF ln.l # "bind" \/ (ln.at.port = "" /\ ln.at.node \notin Paths) THEN p
    ELSE [p EXCEPT !.binds = <<ln.at>> \o @]

ServicesLineRead(p, ln) ==
    IF ln.l = "m3u" /\ (ln.top \/ p.buf # <<>>) THEN [p EXCEPT !.buf = Append(@, ln)] ELSE p

MaySet(p, k) == k \in Keys /\ (k \notin p.given \/ k \in Unchecked)

GlobalLineRead(p, ln) ==
    IF ln.l = "set" /\ MaySet(p, KeyOf(ln.key))
    THEN [p EXCEPT !.conf[KeyOf(ln.key)] = Stored(KeyOf(ln.key), ln.v, @)]
    ELSE p

LineRead(p, ln) ==
    CASE ln.l = "note" /\ p.sec # "services" -> p
      [] ln.l = "head" -> EnterSection(p, ln.name)
      [] p.sec = "bind" -> IF p.listens THEN p ELSE BindLineRead(p, ln)
      [] p.sec = "services" -> ServicesLineRead(p, ln)
      [] p.sec = "global" -> GlobalLineRead(p, ln)
      [] OTHER -> p

FileParsed(p, lines) ==
    LET q == FoldLeft(LineRead, [p EXCEPT !.sec = "none", !.prev = "none"], lines)
    IN  IF q.sec = "services" THEN Flush(q) ELSE q

\* What config_cleanup() and config_init() leave: the settings of the command line.
Reset(p) ==
    [p EXCEPT !.conf = [k \in Keys |-> IF k \in p.given THEN p.conf[k] ELSE Default[k]],
              !.binds = IF p.listens THEN @ ELSE <<>>, !.list = <<>>]

Reloaded(p, lines) == FileParsed(Reset(p), lines)
-----------------------------------------------------------------------------
(* The command line, in its order.                                         *)

Given(p, k, v) == [p EXCEPT !.conf[k] = v, !.given = @ \cup {k}]

NumberOption(p, k, v) == IF v \in Numerals THEN Given(p, k, v) ELSE p
PathOption(p, k, v) == Given(p, k, Stored(k, v, p.conf[k]))

ListenOption(p, at) ==
    [p EXCEPT !.binds = (IF at.port = "" /\ at.node \notin Paths THEN <<>> ELSE <<at>>)
                            \o (IF p.listens THEN @ ELSE <<>>),
              !.listens = TRUE]

OptionRead(lines, p, o) ==
    CASE o.o = "config" -> FileParsed([p EXCEPT !.file = TRUE], lines)
      [] o.o = "listen" -> ListenOption(p, o.at)
      [] o.o = "set" /\ o.key \in Numbers -> NumberOption(p, o.key, o.v)
      [] o.o = "set" /\ o.key \in PagePaths \cup {"app-path-prefix"} -> PathOption(p, o.key, o.v)
      [] OTHER -> Given(p, o.key, o.v)

Blank == [conf |-> Default, binds |-> <<>>, list |-> <<>>, buf |-> <<>>, given |-> {}, listens |-> FALSE,
          sec |-> "none", prev |-> "none", file |-> FALSE]

\* A file no option names is read after the options.
StartedUp(options, lines) ==
    LET p == FoldLeft(LAMBDA q, o : OptionRead(lines, q, o), Blank, options)
    IN  IF p.file THEN p ELSE FileParsed([p EXCEPT !.file = TRUE], lines)
-----------------------------------------------------------------------------
(* Rewriting the file for a form: settings by name, "" to remove one, and  *)
(* the listening addresses.                                                *)

SetLine(k, v) == [l |-> "set", key |-> k, v |-> v]
HeadLine(name) == [l |-> "head", name |-> name]
BindLine(at) == [l |-> "bind", at |-> at]

\* The settings the file did not have yet, at the end of a [global] section.
Unapplied(s) ==
    LET left == SelectSeq(Fields, LAMBDA k : k \in DOMAIN s.form.set \ s.applied /\ s.form.set[k] # "")
    IN  [i \in DOMAIN left |-> SetLine(left[i], s.form.set[left[i]])]

AllApplied(s) == [s EXCEPT !.applied = @ \cup {k \in DOMAIN s.form.set : s.form.set[k] # ""}]

ListenLines(form) ==
    IF form.listen = <<>> THEN <<BindLine([node |-> "*", port |-> "5140"])>>
    ELSE [i \in DOMAIN form.listen |-> BindLine(form.listen[i])]

\* The end of a section, or of the file.
Leave(s) ==
    CASE s.in = "global" -> [AllApplied(s) EXCEPT !.out = @ \o Unapplied(s)]
      [] s.in = "bind" -> [s EXCEPT !.out = @ \o ListenLines(s.form)]
      [] OTHER -> s

HeadRewritten(s, ln) ==
    LET q == Leave(s) IN [q EXCEPT !.in = ln.name, !.had = @ \cup {ln.name}, !.out = Append(@, ln)]

SettingRewrittenOnce(s, ln) ==
    LET value == s.form.set[ln.key]
    IN  IF ln.key \in s.applied THEN [s EXCEPT !.out = Append(@, ln)]
        ELSE [s EXCEPT !.applied = @ \cup {ln.key}, !.out = IF value = "" THEN @ ELSE Append(@, SetLine(ln.key, value))]

SettingRewritten(s, ln) ==
    LET value == s.form.set[ln.key]
    IN  [s EXCEPT !.applied = @ \cup {ln.key},
                  !.out = IF ln.key \notin s.applied /\ value # "" THEN Append(@, SetLine(ln.key, value)) ELSE @]

LineRewritten(s, ln) ==
    CASE ln.l = "head" -> HeadRewritten(s, ln)
      [] s.in = "bind" -> s
      [] s.in = "global" /\ ln.l = "set" /\ ln.key \in DOMAIN s.form.set -> SettingRewritten(s, ln)
      [] OTHER -> [s EXCEPT !.out = Append(@, ln)]

Rewritten(lines, form) ==
    LET blank == [form |-> form, in |-> "none", had |-> {}, applied |-> {}, out |-> <<>>]
        s == Leave(FoldLeft(LineRewritten, blank, lines))
    IN  s.out \o (IF "global" \in s.had THEN <<>> ELSE <<HeadLine("global")>> \o Unapplied(s))
              \o (IF "bind" \in s.had THEN <<>> ELSE <<HeadLine("bind")>> \o ListenLines(form))
-----------------------------------------------------------------------------
(* The page.  An address is shown as text and comes back as text.          *)

AddressText(at) ==
    CASE at.node \in Paths -> [shape |-> "path", host |-> at.node, port |-> ""]
      [] at.node = "*" -> [shape |-> "port", host |-> "", port |-> at.port]
      [] at.node \in V6Nodes -> [shape |-> "bracketed", host |-> at.node, port |-> at.port]
      [] OTHER -> [shape |-> "colon", host |-> at.node, port |-> at.port]

\* The address a line of the form stands for, as a set that is empty if none.
TextAddress(t) ==
    CASE t.shape = "path" -> {[node |-> t.host, port |-> ""]}
      [] t.shape = "port" -> {[node |-> "*", port |-> t.port]}
      [] t.shape \in {"bracketed", "colon"} /\ t.port # "" /\ t.host # "" -> {[node |-> t.host, port |-> t.port]}
      [] OTHER -> {}

Shown(p) == [set |-> p.conf, listen |-> [i \in DOMAIN p.binds |-> AddressText(p.binds[i])]]

\* What is posted by the page, with some fields edited, or by a client that names only those.
Posted(w, f) ==
    LET page == Shown(proc[w])
    IN  IF f.whole THEN [set |-> f.edits @@ page.set, listen |-> IF f.listen = <<>> THEN page.listen ELSE f.listen]
        ELSE [set |-> f.edits, listen |-> f.listen]

Acceptable(form) == \A i \in DOMAIN form.listen : TextAddress(form.listen[i]) # {}

Read(form) == [form EXCEPT !.listen = [i \in DOMAIN form.listen |-> CHOOSE at \in TextAddress(form.listen[i]) : TRUE]]
-----------------------------------------------------------------------------
(* A save, a step at a time.                                               *)

Saving == {"read", "opened", "written", "renamed"}
Unrenamed == {"read", "opened", "written"}
Busy(w) == saver[w].at \in Saving

Idle == [at |-> "idle", form |-> NoForm, out |-> <<>>, fd |-> "none"]
At(w, at) == [saver EXCEPT ![w].at = at]
Ended(w, at) == [saver EXCEPT ![w] = [Idle EXCEPT !.at = at]]

StartSave(w, form) ==
    /\ ~Busy(w) /\ saves < MaxSaves[origin] /\ saves' = saves + 1
    /\ saver' = [saver EXCEPT ![w] =
        [at |-> "read", form |-> form, out |-> Rewritten(file, form), fd |-> "none"]]
    /\ raced' = (raced \/ \E v \in Workers \ {w} : saver[v].at \in Unrenamed)
    /\ UNCHANGED <<cmd, files, proc, asked, signal, origin, owed, crashes>>

OpenInPlace(w) ==
    /\ saver[w].at = "read"
    /\ file' = <<>> /\ saver' = [saver EXCEPT ![w].at = "opened", ![w].fd = "file"]
    /\ UNCHANGED <<cmd, tmp, meant, meantAt, torn, proc, asked, signal, origin, owed, raced, bounds>>

OpenCopy(w) ==
    /\ saver[w].at = "read"
    /\ \/ tmp' = <<>> /\ saver' = [saver EXCEPT ![w].at = "opened", ![w].fd = "copy"]
       \/ WritesMayFail /\ UNCHANGED tmp /\ saver' = Ended(w, "failed")
    /\ UNCHANGED <<cmd, file, meant, meantAt, torn, proc, asked, signal, origin, owed, raced, bounds>>

\* The files other workers write to once the copy is renamed, or removed.
FdsAfter(renamed) ==
    [v \in Workers |-> [saver[v] EXCEPT !.fd =
        CASE @ = "copy" -> (IF renamed THEN "file" ELSE "gone")
          [] @ = "file" -> (IF renamed THEN "gone" ELSE "file")
          [] OTHER -> @]]

\* A write that fails leaves a part of it: none, or half.
Parts(lines) == {SubSeq(lines, 1, n) : n \in {0, Len(lines) \div 2}}

\* fwrite() tells of what it could not write itself, and the copy is removed; of
\* what fflush(), fsync() and fclose() could not, nobody hears.
WriteCopy(w) ==
    /\ saver[w].at = "opened"
    /\ \/ /\ \E lines \in {saver[w].out} \cup (IF WritesMayFail THEN Parts(saver[w].out) ELSE {}) :
                /\ tmp' = IF saver[w].fd = "copy" THEN lines ELSE tmp
                /\ file' = IF saver[w].fd = "file" THEN lines ELSE file
          /\ saver' = At(w, "written")
       \/ /\ WritesMayFail /\ tmp' = NoFile
          /\ file' = IF saver[w].fd = "file" THEN <<>> ELSE file
          /\ saver' = [FdsAfter(FALSE) EXCEPT ![w] = [Idle EXCEPT !.at = "failed"]]
    /\ UNCHANGED <<cmd, meant, meantAt, torn, proc, asked, signal, origin, owed, raced, bounds>>

RenameCopy(w) ==
    /\ saver[w].at = "written"
    /\ IF tmp = NoFile
       THEN saver' = Ended(w, "failed") /\ UNCHANGED <<files, owed>>
       ELSE /\ file' = tmp /\ tmp' = NoFile
            /\ torn' = (torn \/ tmp # saver[w].out)
            /\ saver' = [FdsAfter(TRUE) EXCEPT ![w].at = "renamed"]
            /\ meant' = saver[w].form.set @@ meant
            /\ meantAt' = {ListenLines(saver[w].form)[i].at : i \in DOMAIN ListenLines(saver[w].form)}
            /\ owed' = TRUE
    /\ UNCHANGED <<cmd, proc, asked, signal, origin, raced, bounds>>

SignalReload(w) ==
    /\ saver[w].at = "renamed"
    /\ asked' = asked \cup {"HUP"} /\ owed' = FALSE /\ saver' = Ended(w, "saved")
    /\ UNCHANGED <<cmd, files, proc, signal, origin, raced, bounds>>
-----------------------------------------------------------------------------
(* The processes.                                                          *)

\* Two lists are the same if they name the same addresses in the same order.
SuperReloads ==
    /\ "HUP" \in asked /\ asked' = asked \ {"HUP"}
    /\ LET p == Reloaded(proc[Super], file)
       IN  /\ proc' = [proc EXCEPT ![Super] = p]
           /\ signal' = [w \in Workers |->
                IF p.binds # proc[Super].binds \/ signal[w] = "term" THEN "term" ELSE "hup"]
    /\ UNCHANGED <<cmd, files, saver, origin, owed, raced, bounds>>

SuperRestarts ==
    /\ "USR1" \in asked /\ asked' = asked \ {"USR1"}
    /\ signal' = [w \in Workers |-> "term"]
    /\ UNCHANGED <<cmd, files, proc, saver, origin, owed, raced, bounds>>

WorkerReloads(w) ==
    /\ ~Busy(w) /\ signal[w] = "hup"
    /\ proc' = [proc EXCEPT ![w] = Reloaded(@, file)]
    /\ signal' = [signal EXCEPT ![w] = "none"]
    /\ UNCHANGED <<cmd, files, asked, saver, origin, owed, raced, bounds>>

\* In place of a worker that ends the supervisor forks a new one.
Forked(w) ==
    /\ proc' = [proc EXCEPT ![w] = proc[Super]]
    /\ signal' = [signal EXCEPT ![w] = "none"]

WorkerEnds(w) ==
    /\ ~Busy(w) /\ signal[w] = "term" /\ Forked(w)
    /\ UNCHANGED <<cmd, files, asked, saver, origin, owed, raced, bounds>>

WorkerDies(w) ==
    /\ Busy(w) /\ crashes < MaxCrashes /\ crashes' = crashes + 1
    /\ Forked(w) /\ saver' = [saver EXCEPT ![w] = Idle]
    /\ UNCHANGED <<cmd, files, asked, origin, owed, raced, saves>>
-----------------------------------------------------------------------------
(* What the file says of a setting, without a parser.                      *)

SectionAt(lines, i) ==
    LET heads == {j \in 1..i : lines[j].l = "head" /\ lines[j].name \in Sections}
    IN  IF heads = {} THEN "none" ELSE lines[CHOOSE j \in heads : \A h \in heads : h <= j].name

Counts(k, v) == (k \in Numbers => v \in Numerals) /\ (k \in PagePaths => v # "")

Says(lines, k) ==
    LET told == {i \in DOMAIN lines : lines[i].l = "set" /\ SectionAt(lines, i) = "global"
                                       /\ lines[i].key = k /\ Counts(k, lines[i].v)}
    IN  IF told = {} THEN "" ELSE lines[CHOOSE i \in told : \A j \in told : j <= i].v

Listens(lines) == {lines[i].at : i \in {j \in DOMAIN lines : lines[j].l = "bind" /\ SectionAt(lines, j) = "bind"}}

Wanted(k) ==
    LET told == {i \in DOMAIN cmd : cmd[i].o = "set" /\ cmd[i].key = k /\ Counts(k, cmd[i].v)}
        value == IF told = {} THEN meant[k] ELSE cmd[CHOOSE i \in told : \A j \in told : j <= i].v
    IN  IF value = "" THEN Default[k] ELSE Stored(k, value, Default[k])

\* The lines no form may touch, and the section each is in.
Kept(lines) ==
    LET own(i) == \/ lines[i].l = "head" \/ SectionAt(lines, i) = "bind"
                  \/ lines[i].l = "set" /\ lines[i].key \in Keys /\ SectionAt(lines, i) = "global"
        marked == [i \in DOMAIN lines |-> [line |-> lines[i], in |-> SectionAt(lines, i), own |-> own(i)]]
    IN  SelectSeq(marked, LAMBDA m : ~m.own)
-----------------------------------------------------------------------------
SettingsInit ==
    /\ file \in Files /\ cmd \in Commands[file] /\ tmp = NoFile
    /\ proc = [p \in Workers \cup {Super} |-> StartedUp(cmd, file)]
    /\ asked = {} /\ signal = [w \in Workers |-> "none"]
    /\ saver = [w \in Workers |-> Idle]
    /\ origin = file /\ meant = [k \in Keys |-> Says(file, k)] /\ meantAt = Listens(file)
    /\ owed = FALSE /\ raced = FALSE /\ torn = FALSE /\ saves = 0 /\ crashes = 0

SaveStep(w) == OpenCopy(w) \/ WriteCopy(w) \/ RenameCopy(w) \/ SignalReload(w)
-----------------------------------------------------------------------------
AtRest == asked = {} /\ ~owed /\ \A w \in Workers : signal[w] = "none"

\* What no property speaks of: two saves at the same time, which share the copy,
\* and a copy renamed although a part of it was not written.
Orderly == ~raced /\ ~torn

\* An inline playlist is parsed at the second head after its own, or at the end of
\* the file if it is in the last section; one that is followed by a single other
\* section never is (configuration.c:843, 905).
Stranded(lines) ==
    LET heads == SelectSeq(lines, LAMBDA ln : ln.l = "head" /\ ln.name \in Sections)
    IN  Len(heads) > 1 /\ heads[Len(heads) - 1].name = "services" /\ Last(heads).name # "services"

(* Once the signals of the last save have been acted upon every process    *)
(* runs what was saved, whatever it ran before: the last value of every    *)
(* setting, the default of one removed or out of range, the command line's *)
(* of one it gave.  (Nothing is said of `Unchecked` ones it gave, or when  *)
(* the saves were not `Orderly`.)                                          *)
RunsWhatWasSaved ==
    AtRest /\ Orderly =>
        \A p \in DOMAIN proc :
            /\ \A k \in Keys \ (Unchecked \cap proc[p].given) : proc[p].conf[k] = Wanted(k)
            /\ proc[p].listens \/ ToSet(proc[p].binds) = meantAt

(* Whatever save is under way, failed with the worker's knowledge or was   *)
(* cut short by its end, the file has every other line it was started      *)
(* with, in the same section, and the channels listed in it are served,    *)
(* unless the list is or becomes `Stranded`: so it does once the page has  *)
(* appended [bind] to a file that had none and ended with its channels.    *)
NothingElseIsLost ==
    Orderly => /\ Kept(file) = Kept(origin)
               /\ ~Stranded(file) /\ ~Stranded(origin) =>
                      \A p \in DOMAIN proc : proc[p].list = StartedUp(cmd, origin).list
=============================================================================
