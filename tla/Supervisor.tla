----------------------------- MODULE Supervisor -----------------------------
(***************************************************************************)
(* The supervisor process and its workers (supervisor.c): it forks one     *)
(* worker per index, reaps and restarts the ones that end, no more than a  *)
(* few times in a while, and reloads the configuration.                    *)
(*                                                                         *)
(* One step is one call that other processes can notice: a waitpid() with  *)
(* the restart it leads to, a fork(), a round of signals.  A child starts  *)
(* as a copy of the supervisor and becomes a worker in steps of its own.   *)
(***************************************************************************)
EXTENDS Integers, Sequences, FiniteSets, FiniteSetsExt

CONSTANTS
    MaxWorkers,    \* STATUS_MAX_WORKERS
    Pids,          \* process numbers, used again once a process is reaped
    NoPid,         \* workers[i].pid = 0
    Configs,       \* what the configuration file may say: [workers, bind]
    FirstConfig,
    Missing,       \* a file that cannot be opened
    Defaults,      \* what config_init() leaves behind
    MaxRestarts,   \* MAX_RESTARTS_IN_WINDOW
    WindowPasses,  \* RESTART_WINDOW_SEC, in passes of the monitoring loop
    MaxEvents,     \* bound: SIGHUPs, SIGUSR1s, workers that end without being
                   \* told to and failing fork() calls, all together
    FilesMayVanish,\* the operator may remove the file
    SuperMayDie    \* the supervisor may be killed

ASSUME SupervisorAssumption ==
    /\ MaxWorkers \in Nat \ {0}
    /\ NoPid \notin Pids
    /\ FirstConfig \in Configs /\ Missing \notin Configs /\ Defaults \notin Configs
    /\ \A c \in Configs : c.workers \in 1..MaxWorkers
    /\ MaxRestarts \in Nat \ {0} /\ WindowPasses \in Nat
    /\ MaxEvents \in Nat
    /\ {FilesMayVanish, SuperMayDie} \subseteq BOOLEAN

VARIABLES
    pc,        \* where supervisor_run() is
    todo,      \* the indexes its present loop still has to spawn
    slot,      \* workers[]
    config,    \* the supervisor's configuration; desired_workers follows it
    file,      \* the configuration file
    stop, reload, restart,   \* the flags its signal handlers set
    proc,      \* the processes
    events,    \* signals and crashes so far
    forkFails  \* failing fork() calls so far

super == <<pc, todo, slot, config>>
flags == <<stop, reload, restart>>
bounds == <<events, forkFails>>
vars == <<super, file, flags, proc, bounds>>

Indexes == 0..(MaxWorkers - 1)
Files == Configs \union (IF FilesMayVanish THEN {Missing} ELSE {})

\* forked: the supervisor's signal actions are still in place, SIGHUP blocked;
\* bare: default actions; guarded: ends with its parent; running: run_worker();
\* stopping: out of its event loop; zombie: ended, not reaped.
NoProc == [st |-> "free"]
Alive(p) == proc[p].st \notin {"free", "zombie"}

EmptySlot == [pid |-> NoPid, recent |-> <<>>, limited |-> FALSE, retiring |-> FALSE,
              starts |-> <<>>]

Init ==
    /\ pc = "start" /\ todo = 0..(FirstConfig.workers - 1)
    /\ slot = [i \in Indexes |-> EmptySlot]
    /\ config = FirstConfig /\ file = FirstConfig
    /\ stop = FALSE /\ reload = FALSE /\ restart = FALSE
    /\ proc = [p \in Pids |-> NoProc]
    /\ events = 0 /\ forkFails = 0

MoreMayHappen == events + forkFails < MaxEvents

Desired(i) == i < config.workers

-----------------------------------------------------------------------------
(* The table of workers and the signals sent to them. *)

\* restart_times holds the restarts; recent the ages, in passes of the loop,
\* of the ones restart_allowed() counts; starts, which no code reads, those of
\* all the workers an index has started since it was added.
RestartAllowedOnceMore(i) == Len(slot[i].recent) <= MaxRestarts

RestartAllowed(i) == Len(slot[i].recent) < MaxRestarts

AddNow(ages) == <<0>> \o ages

Recorded(s) == [s EXCEPT !.recent = AddNow(@)]

Forked(i) == [st |-> "forked", idx |-> i, cfg |-> config, listen |-> config.bind,
              hup |-> FALSE, told |-> "no"]

\* spawn_worker(): s is the slot of i as the caller has left it, ps the
\* processes.  A failing fork() leaves both as they are.
SpawnWorker(i, s, ps) ==
    \/ \E p \in {q \in Pids : ps[q] = NoProc} :
         /\ proc' = [ps EXCEPT ![p] = Forked(i)]
         /\ slot' = [slot EXCEPT ![i] = [s EXCEPT !.pid = p, !.retiring = FALSE,
                                                  !.starts = AddNow(s.starts)]]
         /\ UNCHANGED forkFails
    \/ /\ MoreMayHappen /\ forkFails' = forkFails + 1
       /\ slot' = [slot EXCEPT ![i] = s] /\ proc' = ps

\* What SIGTERM does to a process.  A child that still has the supervisor's
\* handler only sets its copy of the supervisor's flag, which it never reads.
Term(pr) ==
    CASE pr.st = "forked" -> [pr EXCEPT !.told = "unheard"]
      [] pr.st \in {"bare", "guarded"} -> [pr EXCEPT !.told = "heard", !.st = "zombie"]
      [] pr.st = "running" -> [pr EXCEPT !.told = "heard", !.st = "stopping"]
      [] OTHER -> pr

Hangup(pr) == IF pr.st \in {"free", "zombie"} THEN pr ELSE [pr EXCEPT !.hup = TRUE]

Tracked == {slot[i].pid : i \in Indexes} \ {NoPid}

\* broadcast_signal_to_workers().
TermAll(ps) == [p \in Pids |-> IF p \in Tracked THEN Term(ps[p]) ELSE ps[p]]

HangupAll(ps) == [p \in Pids |-> IF p \in Tracked THEN Hangup(ps[p]) ELSE ps[p]]

\* The test at the top of the monitoring loop.
Top == IF stop THEN "stop" ELSE "reap"

-----------------------------------------------------------------------------
(* supervisor_run(). *)

\* The first spawn of every worker.
StartWorker ==
    /\ pc = "start"
    /\ IF todo = {} \/ stop
       THEN pc' = Top /\ todo' = {} /\ UNCHANGED <<slot, proc, forkFails>>
       ELSE /\ SpawnWorker(Min(todo), slot[Min(todo)], proc)
            /\ todo' = todo \ {Min(todo)}
            /\ UNCHANGED pc
    /\ UNCHANGED <<config, file, flags, events>>

ReapIgnoringRetired(p) ==
    LET i == proc[p].idx
        ended == [slot[i] EXCEPT !.pid = NoPid]
        gone == [proc EXCEPT ![p] = NoProc]
    IN  /\ pc = "reap" /\ proc[p].st = "zombie"
        /\ IF ~stop /\ RestartAllowed(i)
           THEN SpawnWorker(i, [Recorded(ended) EXCEPT !.limited = FALSE], gone)
           ELSE /\ slot' = [slot EXCEPT ![i] = [ended EXCEPT !.limited = ~stop]]
                /\ proc' = gone /\ UNCHANGED forkFails
        /\ UNCHANGED <<pc, todo, config, file, flags, events>>

\* waitpid() returns a worker: it is restarted if it is still wanted, and if it
\* has not been restarted too often.
Reap(p) ==
    LET i == proc[p].idx
        ended == [slot[i] EXCEPT !.pid = NoPid]
        gone == [proc EXCEPT ![p] = NoProc]
        wanted == ~stop /\ Desired(i) /\ ~slot[i].retiring
    IN  /\ pc = "reap" /\ proc[p].st = "zombie"
        /\ IF wanted /\ RestartAllowed(i)
           THEN SpawnWorker(i, [Recorded(ended) EXCEPT !.limited = FALSE], gone)
           ELSE /\ slot' = [slot EXCEPT ![i] = IF wanted THEN [ended EXCEPT !.limited = TRUE] ELSE ended]
                /\ proc' = gone /\ UNCHANGED forkFails
        /\ UNCHANGED <<pc, todo, config, file, flags, events>>

ReapNone ==
    /\ pc = "reap" /\ \A p \in Pids : proc[p].st # "zombie"
    /\ pc' = "limited"
    /\ todo' = {i \in Indexes : /\ Desired(i) /\ slot[i].limited /\ slot[i].pid = NoPid
                                /\ ~slot[i].retiring /\ RestartAllowed(i)}
    /\ UNCHANGED <<slot, config, file, flags, proc, bounds>>

\* Workers whose restart had to wait.
RestartLimited ==
    /\ pc = "limited"
    /\ IF todo = {} \/ stop
       THEN pc' = "reload" /\ todo' = {} /\ UNCHANGED <<slot, proc, forkFails>>
       ELSE LET i == Min(todo)
            IN  /\ SpawnWorker(i, [Recorded(slot[i]) EXCEPT !.limited = FALSE], proc)
                /\ todo' = todo \ {i}
                /\ UNCHANGED pc
    /\ UNCHANGED <<config, file, flags, events>>

\* A file that cannot be read, or set up, leaves the configuration as it was.
\* Depending on what failed the rest of the pass is skipped.
ReloadFails ==
    /\ pc = "reload" /\ reload /\ file \notin Configs
    /\ reload' = FALSE
    /\ pc' \in {"restart", Top}
    /\ UNCHANGED <<todo, slot, config, file, stop, restart, proc, bounds>>

\* More workers: an index whose former worker has not been reaped yet gets its
\* new one when it is.
Grow(new) ==
    /\ slot' = [i \in Indexes |-> IF i \in config.workers..(new.workers - 1)
                                  THEN [slot[i] EXCEPT !.retiring = FALSE] ELSE slot[i]]
    /\ todo' = {i \in config.workers..(new.workers - 1) : slot[i].pid = NoPid}

\* Fewer workers.
Retire(new) ==
    /\ slot' = [i \in Indexes |-> IF i \in new.workers..(config.workers - 1)
                                  THEN [slot[i] EXCEPT !.retiring = TRUE, !.limited = FALSE]
                                  ELSE slot[i]]
    /\ todo' = {}

Reload ==
    /\ pc = "reload" /\ reload /\ file \in Configs
    /\ reload' = FALSE /\ config' = file /\ pc' = "grow"
    /\ IF file.workers > config.workers THEN Grow(file) ELSE Retire(file)
    /\ LET retired == {slot[i].pid : i \in file.workers..(config.workers - 1)}
           told == [p \in Pids |-> IF p \in retired THEN Term(proc[p]) ELSE proc[p]]
       IN  proc' = IF file.bind # config.bind THEN TermAll(told)
                                              ELSE HangupAll(told)
    /\ UNCHANGED <<file, stop, restart, bounds>>

NoReload ==
    /\ pc = "reload" /\ ~reload
    /\ pc' = "restart"
    /\ UNCHANGED <<todo, slot, config, file, flags, proc, bounds>>

\* The workers a reload adds.
SpawnNew ==
    /\ pc = "grow"
    /\ IF todo = {}
       THEN pc' = "restart" /\ UNCHANGED <<todo, slot, proc, forkFails>>
       ELSE /\ SpawnWorker(Min(todo), [slot[Min(todo)] EXCEPT !.starts = <<>>], proc)
            /\ todo' = todo \ {Min(todo)}
            /\ UNCHANGED pc
    /\ UNCHANGED <<config, file, flags, events>>

\* SIGUSR1 has asked for new workers.
RestartWorkers ==
    /\ pc = "restart"
    /\ restart' = FALSE
    /\ proc' = IF restart THEN TermAll(proc) ELSE proc
    /\ pc' = "sleep"
    /\ UNCHANGED <<todo, slot, config, file, stop, reload, bounds>>

\* A pass later.  The newest are first, and the last ones drop out of the window.
Aged(ages) ==
    LET kept == {k \in DOMAIN ages : ages[k] < WindowPasses}
    IN  [k \in 1..Cardinality(kept) |-> ages[k] + 1]

\* 100 ms pass.
Sleep ==
    /\ pc = "sleep" /\ pc' = Top
    /\ slot' = [i \in Indexes |-> [slot[i] EXCEPT !.recent = Aged(@), !.starts = Aged(@)]]
    /\ UNCHANGED <<todo, config, file, flags, proc, bounds>>

Shutdown ==
    /\ pc = "stop"
    /\ proc' = TermAll(proc)
    /\ pc' = "drain"
    /\ UNCHANGED <<todo, slot, config, file, flags, bounds>>

DrainKeepingPid(p) ==
    /\ pc = "drain" /\ proc[p].st = "zombie"
    /\ proc' = [proc EXCEPT ![p] = NoProc]
    /\ UNCHANGED <<pc, todo, slot, config, file, flags, bounds>>

\* The supervisor waits for its workers, for five seconds.
Drain(p) ==
    /\ pc = "drain" /\ proc[p].st = "zombie"
    /\ slot' = [slot EXCEPT ![proc[p].idx].pid = NoPid]
    /\ proc' = [proc EXCEPT ![p] = NoProc]
    /\ UNCHANGED <<pc, todo, config, file, flags, bounds>>

\* What a process knew is gone with it.
Forgets ==
    /\ todo' = {} /\ slot' = [i \in Indexes |-> EmptySlot]
    /\ stop' = FALSE /\ reload' = FALSE /\ restart' = FALSE

\* All have ended, or the five seconds have: SIGKILL for those that are left.
Kill ==
    /\ pc = "drain" /\ pc' = "done"
    /\ proc' = [p \in Pids |-> IF p \in Tracked THEN NoProc ELSE proc[p]]
    /\ Forgets
    /\ UNCHANGED <<config, file, bounds>>

Supervise ==
    \/ StartWorker \/ ReapNone \/ RestartLimited \/ ReloadFails \/ Reload \/ NoReload
    \/ SpawnNew \/ RestartWorkers \/ Sleep \/ Shutdown \/ Kill
    \/ \E p \in Pids : Reap(p) \/ Drain(p)

-----------------------------------------------------------------------------
(* A child of the supervisor. *)

Orphan == pc = "dead"

\* A process ends; nobody waits for a child of a dead supervisor but init.
End(p) == proc' = [proc EXCEPT ![p] = IF Orphan THEN NoProc ELSE [@ EXCEPT !.st = "zombie"]]

Becomes(p, from, to) == proc[p].st = from /\ proc' = [proc EXCEPT ![p].st = to]

\* The default signal actions, the SIGHUP handler, then SIGHUP is let through.
RestoreHandlers(p) == Becomes(p, "forked", "bare")

\* From here on the death of the parent is a SIGTERM.
SetDeathSignal(p) == Becomes(p, "bare", "guarded")

NoParentCheck(p) == Becomes(p, "guarded", "running")

\* The parent may have died before that.
CheckParent(p) ==
    IF Orphan THEN proc[p].st = "guarded" /\ End(p) ELSE Becomes(p, "guarded", "running")

\* SIGHUP in a worker: it reads the file for itself.  config_reload() has
\* reset the configuration before it finds that the file cannot be opened.
WorkerReload(p) ==
    /\ proc[p].st = "running" /\ proc[p].hup
    /\ proc' = [proc EXCEPT ![p].hup = FALSE,
                            ![p].cfg = IF file \in Configs THEN file ELSE Defaults]

WorkerStops(p) == proc[p].st = "stopping" /\ End(p)

Child(p) ==
    /\ RestoreHandlers(p) \/ SetDeathSignal(p) \/ CheckParent(p) \/ WorkerReload(p) \/ WorkerStops(p)
    /\ UNCHANGED <<super, file, flags, bounds>>

\* A worker ends by itself: a crash, a listener that cannot be bound.
Crash(p) ==
    /\ proc[p].st = "running"
    /\ MoreMayHappen /\ events' = events + 1
    /\ End(p)
    /\ UNCHANGED <<super, file, flags, forkFails>>

-----------------------------------------------------------------------------
(* The operator. *)

Running == pc \notin {"done", "dead"}

Sighup ==
    /\ Running /\ MoreMayHappen /\ events' = events + 1
    /\ file' \in Files /\ reload' = TRUE
    /\ UNCHANGED <<super, stop, restart, proc, forkFails>>

Sigusr1 ==
    /\ Running /\ MoreMayHappen /\ events' = events + 1
    /\ restart' = TRUE
    /\ UNCHANGED <<super, file, stop, reload, proc, forkFails>>

Sigterm ==
    /\ Running /\ ~stop /\ stop' = TRUE
    /\ UNCHANGED <<super, file, reload, restart, proc, bounds>>

\* SIGKILL: the kernel sends the death signal to the children that asked for
\* it, and the ones that have ended already are reaped by init.
SupervisorDies ==
    /\ SuperMayDie /\ Running /\ pc' = "dead"
    /\ proc' = [p \in Pids |->
                  CASE proc[p].st \in {"zombie", "guarded"} -> NoProc
                    [] proc[p].st = "running" -> Term(proc[p])
                    [] OTHER -> proc[p]]
    /\ Forgets
    /\ UNCHANGED <<config, file, bounds>>

Next == \/ Supervise
        \/ \E p \in Pids : Child(p) \/ Crash(p)
        \/ Sighup \/ Sigusr1 \/ Sigterm \/ SupervisorDies

\* The supervisor's loop never blocks, and a process is scheduled.
Fairness == WF_vars(Supervise) /\ \A p \in Pids : WF_vars(Child(p))

Spec == Init /\ [][Next]_vars /\ Fairness
-----------------------------------------------------------------------------
Ages == Seq(0..WindowPasses)

Slots == [pid : Pids \union {NoPid}, recent : Ages, limited : BOOLEAN, retiring : BOOLEAN,
          starts : Ages]

Processes ==
    {NoProc} \union
    [st : {"forked", "bare", "guarded", "running", "stopping", "zombie"}, idx : Indexes,
     cfg : Configs \union {Defaults}, listen : {c.bind : c \in Configs}, hup : BOOLEAN,
     told : {"no", "unheard", "heard"}]

TypeOK ==
    /\ pc \in {"start", "reap", "limited", "reload", "grow", "restart", "sleep", "stop",
               "drain", "done", "dead"}
    /\ todo \subseteq Indexes
    /\ slot \in [Indexes -> Slots]
    /\ config \in Configs /\ file \in Configs \union {Missing}
    /\ {stop, reload, restart} \subseteq BOOLEAN
    /\ proc \in [Pids -> Processes]
    /\ events \in Nat /\ forkFails \in Nat /\ events + forkFails <= MaxEvents

\* As long as the supervisor lives the table and the processes agree: a worker
\* index, which names a slot of the shared status memory and its pipe, has one
\* process; none is lost sight of; and no signal goes to a process number that
\* has been reaped and may belong to somebody else.
TableMatches ==
    pc # "dead" =>
        /\ \A p \in Pids : proc[p] # NoProc => slot[proc[p].idx].pid = p
        /\ \A i \in Indexes : slot[i].pid # NoPid =>
              proc[slot[i].pid] # NoProc /\ proc[slot[i].pid].idx = i

\* supervisor.h:12: restarts are limited to prevent restart storms.  Whatever
\* ends its workers, an index starts no more than MaxRestarts of them in a
\* window besides its first.
NoRestartStorm == TypeOK /\ \A i \in Indexes : Len(slot[i].starts) <= MaxRestarts + 1

\* When signals and crashes have come to an end, there is a worker for every
\* wanted index and for no other; each of them listens where the supervisor's
\* configuration says and, if the file can be read, runs that configuration.  Not
\* so a worker whose SIGTERM came while it still had the supervisor's signal
\* actions (supervisor.c:179): it runs on, with the index and the addresses it had.
Converges ==
    <>[](Running /\ ~stop /\ forkFails = 0 =>
           \A i \in Indexes :
               LET w == proc[slot[i].pid]
               IN  IF slot[i].pid = NoPid
                   THEN ~Desired(i)
                   ELSE /\ w.st = "running"
                        /\ w.told # "unheard" =>
                               /\ Desired(i) /\ w.listen = config.bind
                               /\ file \in Configs => w.cfg = config)

\* A supervisor that is told to stop does, even if a worker does not listen, and
\* no worker outlives it, not even if it is killed: the check of the parent and
\* the death signal leave no gap between them.  A worker that is sent SIGTERM, for
\* a restart, a change of the listen addresses or because there are too many, ends
\* unless the signal came before it had restored the default actions: "terminates
\* all worker processes" (docs/en/reference/configuration.md:327) is then not kept.
EndsTogether ==
    /\ stop \/ ~Running ~> ~Running /\ \A p \in Pids : proc[p] = NoProc
    /\ \A p \in Pids : LET told == proc[p] # NoProc /\ proc[p].told = "heard" IN told ~> ~told
=============================================================================
