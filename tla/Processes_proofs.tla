--------------------------- MODULE Processes_proofs ---------------------------
(***************************************************************************)
(* The processes of the program: the supervisor and the event loop of a    *)
(* worker.  For any number of workers, process numbers, configurations and *)
(* limits, the supervisor's table and its processes agree at every step,   *)
(* and no index is restarted more often than it may be.  For any           *)
(* descriptors, connections, sources and clients of a worker, the fd map   *)
(* leads to the connection a socket belongs to, and no socket is forgotten.*)
(***************************************************************************)
EXTENDS Supervisor, Worker, Lemmas

(* Part 1: the supervisor. *)

\* What the proof needs of the types: the fields it reads and assigns.
Shapes(sl, ps) ==
    /\ DOMAIN sl = Indexes
    /\ \A i \in Indexes : "pid" \in DOMAIN sl[i] /\ sl[i].pid \in Pids \union {NoPid}
    /\ DOMAIN ps = Pids
    /\ \A p \in Pids : \/ ps[p] = NoProc
                       \/ /\ "st" \in DOMAIN ps[p]
                          /\ ps[p].st # "free" /\ ps[p].idx \in Indexes

Match(sl, ps) ==
    /\ \A p \in Pids : ps[p] # NoProc => sl[ps[p].idx].pid = p
    /\ \A i \in Indexes : sl[i].pid # NoPid =>
          ps[sl[i].pid] # NoProc /\ ps[sl[i].pid].idx = i

\* An index that is going to be spawned has no process.
Vacant == pc \in {"start", "limited", "grow"} => \A i \in todo : slot[i].pid = NoPid

IInv ==
    /\ todo \subseteq Indexes /\ config \in Configs
    /\ Shapes(slot, proc)
    /\ pc # "dead" => Match(slot, proc)
    /\ Vacant

-----------------------------------------------------------------------------
\* The index a loop over the table turns to next is one that is left.
LEMMA FirstOfLoop ==
    ASSUME NEW S \in SUBSET Indexes, S # {}
    PROVE  Min(S) \in S /\ Min(S) \in Indexes
<1>1. Indexes \subseteq Nat
  BY SupervisorAssumption DEF Indexes
<1>2. Min(S) \in S
  BY <1>1, MinIsLeast
<1>q. QED BY <1>2

\* spawn_worker() for an index that has no process, whatever else the caller
\* has changed in its slot.
LEMMA SpawnKeeps ==
    ASSUME NEW i \in Indexes, NEW s, NEW ps,
           Shapes(slot, ps), "pid" \in DOMAIN s, s.pid = NoPid,
           \A p \in Pids : ps[p] # NoProc => ps[p].idx # i /\ slot[ps[p].idx].pid = p,
           \A j \in Indexes \ {i} : slot[j].pid # NoPid =>
              ps[slot[j].pid] # NoProc /\ ps[slot[j].pid].idx = j,
           SpawnWorker(i, s, ps)
    PROVE  /\ Shapes(slot', proc') /\ Match(slot', proc')
           /\ \A j \in Indexes \ {i} : slot'[j] = slot[j]
<1>1. CASE slot' = [slot EXCEPT ![i] = s] /\ proc' = ps
  <2>1. \A j \in Indexes : slot'[j] = IF j = i THEN s ELSE slot[j]
    BY <1>1 DEF Shapes
  <2>2. DOMAIN slot' = Indexes
    BY <1>1 DEF Shapes
  <2>3. Shapes(slot', proc')
    BY <1>1, <2>1, <2>2 DEF Shapes
  <2>4. Match(slot', proc')
    BY <1>1, <2>1 DEF Match, Shapes
  <2>q. QED BY <2>1, <2>3, <2>4
<1>2. ASSUME NEW p \in Pids, ps[p] = NoProc,
             proc' = [ps EXCEPT ![p] = Forked(i)],
             slot' = [slot EXCEPT ![i] = [s EXCEPT !.pid = p, !.retiring = FALSE,
                                                   !.starts = AddNow(s.starts)]]
      PROVE  /\ Shapes(slot', proc') /\ Match(slot', proc')
             /\ \A j \in Indexes \ {i} : slot'[j] = slot[j]
  <2>1. /\ DOMAIN slot' = Indexes
        /\ \A j \in Indexes \ {i} : slot'[j] = slot[j]
        /\ "pid" \in DOMAIN slot'[i] /\ slot'[i].pid = p
    BY <1>2 DEF Shapes
  <2>2. /\ DOMAIN proc' = Pids
        /\ \A q \in Pids \ {p} : proc'[q] = ps[q]
        /\ proc'[p] = Forked(i)
    BY <1>2 DEF Shapes
  <2>3. /\ Forked(i) # NoProc /\ "st" \in DOMAIN Forked(i)
        /\ Forked(i).st = "forked" /\ Forked(i).idx = i
    BY DEF Forked, NoProc
  <2>4. Shapes(slot', proc')
    BY <2>1, <2>2, <2>3 DEF Shapes
  <2>5. \A q \in Pids : proc'[q] # NoProc => slot'[proc'[q].idx].pid = q
    BY <2>1, <2>2, <2>3 DEF Shapes
  <2>6. \A j \in Indexes \ {i} : slot'[j].pid # NoPid =>
           proc'[slot'[j].pid] # NoProc /\ proc'[slot'[j].pid].idx = j
    BY <1>2, <2>1, <2>2 DEF Shapes
  <2>7. proc'[slot'[i].pid] # NoProc /\ proc'[slot'[i].pid].idx = i
    BY <2>1, <2>2, <2>3
  <2>q. QED BY <2>1, <2>4, <2>5, <2>6, <2>7 DEF Match
<1>q. QED BY <1>1, <1>2 DEF SpawnWorker

\* A step of one of the spawning loops.
LEMMA LoopKeeps ==
    ASSUME IInv, pc \in {"start", "limited", "grow"}, todo # {},
           NEW s, "pid" \in DOMAIN s, s.pid = slot[Min(todo)].pid,
           SpawnWorker(Min(todo), s, proc), todo' = todo \ {Min(todo)}, UNCHANGED <<pc, config>>
    PROVE  IInv'
<1>1. Min(todo) \in todo /\ todo \subseteq Indexes /\ Min(todo) \in Indexes
  BY FirstOfLoop DEF IInv
<1>2. Shapes(slot, proc) /\ Match(slot, proc)
  BY DEF IInv
<1>3. \A i \in todo : slot[i].pid = NoPid
  BY DEF IInv, Vacant
<1>4. NoPid \notin Pids
  BY SupervisorAssumption
<1>5. \A p \in Pids : proc[p] # NoProc =>
         proc[p].idx # Min(todo) /\ slot[proc[p].idx].pid = p
  BY <1>1, <1>2, <1>3, <1>4 DEF Match
<1>6. \A j \in Indexes \ {Min(todo)} : slot[j].pid # NoPid =>
         proc[slot[j].pid] # NoProc /\ proc[slot[j].pid].idx = j
  BY <1>2 DEF Match
<1>7. /\ Shapes(slot', proc') /\ Match(slot', proc')
      /\ \A j \in Indexes \ {Min(todo)} : slot'[j] = slot[j]
  BY <1>1, <1>2, <1>3, <1>5, <1>6, SpawnKeeps
<1>q. QED BY <1>1, <1>3, <1>7 DEF IInv, Vacant

\* A step after which nothing is to be spawned, and the processes, although
\* they may have changed, are the same ones and have the same index.
LEMMA SameProcesses ==
    ASSUME IInv, pc # "dead" \/ pc' = "dead",
           DOMAIN slot' = Indexes,
           \A i \in Indexes : "pid" \in DOMAIN slot'[i] /\ slot'[i].pid = slot[i].pid,
           DOMAIN proc' = Pids,
           \A p \in Pids : IF proc[p] = NoProc THEN proc'[p] = NoProc
                           ELSE /\ proc'[p] # NoProc /\ "st" \in DOMAIN proc'[p]
                                /\ proc'[p].st # "free" /\ proc'[p].idx = proc[p].idx,
           todo' \subseteq Indexes, config' \in Configs, Vacant'
    PROVE  IInv'
<1>1. Shapes(slot', proc')
  BY DEF IInv, Shapes
<1>2. ASSUME pc' # "dead" PROVE Match(slot', proc')
  BY <1>2 DEF IInv, Shapes, Match
<1>q. QED BY <1>1, <1>2 DEF IInv

\* A step of the supervisor that only moves on.
LEMMA SameTable ==
    ASSUME IInv, pc # "dead" \/ pc' = "dead", UNCHANGED <<slot, proc>>,
           todo' \subseteq Indexes, config' \in Configs, Vacant'
    PROVE  IInv'
BY DEF IInv, Shapes, Match

\* Signals change what a process is about to do, not whose it is.
LEMMA TermShape ==
    ASSUME NEW r, "st" \in DOMAIN r, r.st # "free"
    PROVE  /\ Term(r) # NoProc /\ "st" \in DOMAIN Term(r)
           /\ Term(r).st # "free" /\ Term(r).idx = r.idx
<1>1. \/ Term(r) = r
      \/ Term(r) = [r EXCEPT !.told = "unheard"]
      \/ Term(r) = [r EXCEPT !.told = "heard", !.st = "zombie"]
      \/ Term(r) = [r EXCEPT !.told = "heard", !.st = "stopping"]
  BY DEF Term
<1>2. CASE Term(r) = r
  BY <1>2 DEF NoProc
<1>3. CASE Term(r) = [r EXCEPT !.told = "unheard"]
  BY <1>3 DEF NoProc
<1>4. ASSUME NEW st \in {"zombie", "stopping"},
             Term(r) = [r EXCEPT !.told = "heard", !.st = st]
      PROVE  /\ Term(r) # NoProc /\ "st" \in DOMAIN Term(r)
             /\ Term(r).st # "free" /\ Term(r).idx = r.idx
  <2> DEFINE t == [r EXCEPT !.told = "heard"]
  <2>1. "st" \in DOMAIN t /\ t.idx = r.idx
    OBVIOUS
  <2>2. Term(r) = [t EXCEPT !.st = st]
    BY <1>4
  <2> HIDE DEF t
  <2>q. QED BY <2>1, <2>2 DEF NoProc
<1>q. QED BY <1>1, <1>2, <1>3, <1>4

\* The same of SIGHUP, which only sets a flag.
LEMMA HangupShape ==
    ASSUME NEW r, "st" \in DOMAIN r, r.st # "free"
    PROVE  /\ Hangup(r) # NoProc /\ "st" \in DOMAIN Hangup(r)
           /\ Hangup(r).st # "free" /\ Hangup(r).idx = r.idx
BY DEF Hangup, NoProc

\* No signal makes a process out of none.
LEMMA FreeShape == Term(NoProc) = NoProc /\ Hangup(NoProc) = NoProc
BY DEF Term, Hangup, NoProc

-----------------------------------------------------------------------------
\* A worker that has been reaped leaves its index without a process, and the
\* index may get a new one in the same step.
LEMMA ReapKeeps ==
    ASSUME IInv, NEW p \in Pids, Reap(p)
    PROVE  IInv'
<1> DEFINE i == proc[p].idx
           ended == [slot[i] EXCEPT !.pid = NoPid]
           rest == [proc EXCEPT ![p] = NoProc]
<1>1. /\ pc = "reap" /\ proc[p].st = "zombie" /\ UNCHANGED <<pc, todo, config>>
  BY DEF Reap
<1>2. Shapes(slot, proc) /\ Match(slot, proc) /\ todo \subseteq Indexes /\ config \in Configs
  BY <1>1 DEF IInv
<1>3. proc[p] # NoProc
  BY <1>1 DEF NoProc
<1>4. i \in Indexes /\ slot[i].pid = p
  BY <1>2, <1>3 DEF Shapes, Match
<1>5. NoPid \notin Pids
  BY SupervisorAssumption
<1>6. /\ rest[p] = NoProc /\ \A q \in Pids \ {p} : rest[q] = proc[q]
      /\ DOMAIN rest = Pids
  BY <1>2 DEF Shapes
<1>7. Shapes(slot, rest)
  BY <1>2, <1>6 DEF Shapes
<1>8. \A q \in Pids : rest[q] # NoProc => rest[q].idx # i /\ slot[rest[q].idx].pid = q
  BY <1>2, <1>4, <1>6 DEF Match
<1>9. \A j \in Indexes \ {i} : slot[j].pid # NoPid =>
         rest[slot[j].pid] # NoProc /\ rest[slot[j].pid].idx = j
  BY <1>2, <1>6 DEF Match, Shapes
<1>10. "pid" \in DOMAIN ended /\ ended.pid = NoPid
  BY <1>2, <1>4 DEF Shapes
<1> HIDE DEF i, ended, rest
<1>11. ASSUME SpawnWorker(i, [Recorded(ended) EXCEPT !.limited = FALSE], rest)
       PROVE  IInv'
  <2> DEFINE s == [Recorded(ended) EXCEPT !.limited = FALSE]
  <2>1. "pid" \in DOMAIN s /\ s.pid = NoPid
    BY <1>10 DEF Recorded
  <2> HIDE DEF s
  <2>2. Shapes(slot', proc') /\ Match(slot', proc')
    BY <1>4, <1>7, <1>8, <1>9, <1>11, <2>1, SpawnKeeps DEF s
  <2>q. QED BY <1>1, <1>2, <2>2 DEF IInv, Vacant
<1>12. ASSUME NEW s, s = ended \/ s = [ended EXCEPT !.limited = TRUE],
              slot' = [slot EXCEPT ![i] = s], proc' = rest
       PROVE  IInv'
  <2>1. "pid" \in DOMAIN s /\ s.pid = NoPid
    BY <1>10, <1>12
  <2>2. /\ DOMAIN slot' = Indexes
        /\ \A j \in Indexes : slot'[j] = IF j = i THEN s ELSE slot[j]
    BY <1>2, <1>4, <1>12 DEF Shapes
  <2>3. Shapes(slot', proc')
    BY <1>7, <1>12, <2>1, <2>2 DEF Shapes
  <2>4. Match(slot', proc')
    BY <1>4, <1>8, <1>9, <1>12, <2>1, <2>2, <1>7 DEF Match, Shapes
  <2>q. QED BY <1>1, <1>2, <2>3, <2>4 DEF IInv, Vacant
<1>q. QED BY <1>11, <1>12 DEF Reap, i, ended, rest

\* The supervisor waits for one worker after the other to end.
LEMMA DrainKeeps ==
    ASSUME IInv, NEW p \in Pids, Drain(p)
    PROVE  IInv'
<1> DEFINE i == proc[p].idx
<1>1. /\ pc = "drain" /\ proc[p].st = "zombie" /\ UNCHANGED <<pc, todo, config>>
      /\ slot' = [slot EXCEPT ![i].pid = NoPid]
      /\ proc' = [proc EXCEPT ![p] = NoProc]
  BY DEF Drain
<1>2. Shapes(slot, proc) /\ Match(slot, proc) /\ todo \subseteq Indexes /\ config \in Configs
  BY <1>1 DEF IInv
<1>3. i \in Indexes /\ slot[i].pid = p
  BY <1>1, <1>2 DEF Shapes, Match, NoProc
<1>4. /\ proc'[p] = NoProc /\ \A q \in Pids \ {p} : proc'[q] = proc[q]
      /\ DOMAIN proc' = Pids
  BY <1>1, <1>2 DEF Shapes
<1> HIDE DEF i
<1>5. /\ DOMAIN slot' = Indexes
      /\ \A j \in Indexes \ {i} : slot'[j] = slot[j]
      /\ "pid" \in DOMAIN slot'[i] /\ slot'[i].pid = NoPid
  BY <1>1, <1>2, <1>3 DEF Shapes
<1>6. Shapes(slot', proc')
  BY <1>2, <1>4, <1>5 DEF Shapes
<1>7. NoPid \notin Pids
  BY SupervisorAssumption
<1>8. Match(slot', proc')
  BY <1>2, <1>3, <1>4, <1>5, <1>7 DEF Match, Shapes
<1>q. QED BY <1>1, <1>2, <1>6, <1>8 DEF IInv, Vacant

\* What a supervisor that has ended leaves behind is an empty table.
LEMMA Forgotten ==
    ASSUME Forgets
    PROVE  /\ todo' = {} /\ DOMAIN slot' = Indexes
           /\ \A i \in Indexes : "pid" \in DOMAIN slot'[i] /\ slot'[i].pid = NoPid
BY DEF Forgets, EmptySlot

\* After SIGKILL nobody is left: every process is in the table.
LEMMA KillKeeps ==
    ASSUME IInv, Kill
    PROVE  IInv'
<1>1. /\ pc = "drain" /\ pc' = "done" /\ UNCHANGED config /\ Forgets
      /\ proc' = [p \in Pids |-> IF p \in Tracked THEN NoProc ELSE proc[p]]
  BY DEF Kill
<1>2. Shapes(slot, proc) /\ Match(slot, proc) /\ config \in Configs
  BY <1>1 DEF IInv
<1>3. NoPid \notin Pids
  BY SupervisorAssumption
<1>4. \A p \in Pids : proc'[p] = NoProc
  BY <1>1, <1>2, <1>3 DEF Shapes, Match, Tracked
<1>5. /\ todo' = {} /\ DOMAIN slot' = Indexes
      /\ \A i \in Indexes : "pid" \in DOMAIN slot'[i] /\ slot'[i].pid = NoPid
  BY <1>1, Forgotten
<1>6. Shapes(slot', proc') /\ Match(slot', proc')
  BY <1>1, <1>4, <1>5 DEF Shapes, Match
<1>q. QED BY <1>1, <1>2, <1>5, <1>6 DEF IInv, Vacant

-----------------------------------------------------------------------------
\* A process that the step leaves, or changes in a way that leaves it its index.
SameOwner(p) ==
    IF proc[p] = NoProc THEN proc'[p] = NoProc
    ELSE /\ proc'[p] # NoProc /\ "st" \in DOMAIN proc'[p]
         /\ proc'[p].st # "free" /\ proc'[p].idx = proc[p].idx

\* A process that is left alone keeps its index.
LEMMA UnchangedOwner ==
    ASSUME IInv, NEW p \in Pids, proc'[p] = proc[p]
    PROVE  SameOwner(p)
BY DEF IInv, Shapes, SameOwner

\* A process sent SIGTERM keeps its index.
LEMMA TermOwner ==
    ASSUME IInv, NEW p \in Pids, proc'[p] = Term(proc[p])
    PROVE  SameOwner(p)
<1>1. CASE proc[p] = NoProc
  BY <1>1, FreeShape DEF SameOwner
<1>2. CASE proc[p] # NoProc
  BY <1>2, TermShape DEF SameOwner, IInv, Shapes
<1>q. QED BY <1>1, <1>2

\* A process sent SIGHUP, after SIGTERM or alone, keeps its index.
LEMMA HangupOwner ==
    ASSUME IInv, NEW p \in Pids, proc'[p] = Hangup(Term(proc[p])) \/ proc'[p] = Hangup(proc[p])
    PROVE  SameOwner(p)
<1>1. CASE proc[p] = NoProc
  BY <1>1, FreeShape DEF SameOwner
<1>2. CASE proc[p] # NoProc
  <2>1. "st" \in DOMAIN proc[p] /\ proc[p].st # "free"
    BY <1>2 DEF IInv, Shapes
  <2>2. /\ "st" \in DOMAIN Term(proc[p]) /\ Term(proc[p]).st # "free"
        /\ Term(proc[p]).idx = proc[p].idx
    BY <2>1, TermShape
  <2>q. QED BY <1>2, <2>1, <2>2, HangupShape DEF SameOwner
<1>q. QED BY <1>1, <1>2

\* SameProcesses for a step of the supervisor that does not touch the table.
LEMMA OwnersKeep ==
    ASSUME IInv, pc # "dead" \/ pc' = "dead",
           DOMAIN slot' = Indexes,
           \A i \in Indexes : "pid" \in DOMAIN slot'[i] /\ slot'[i].pid = slot[i].pid,
           DOMAIN proc' = Pids, \A p \in Pids : SameOwner(p),
           todo' \subseteq Indexes, config' \in Configs, Vacant'
    PROVE  IInv'
BY SameProcesses DEF SameOwner

\* The pids of a table that is left alone.
LEMMA SlotsKept ==
    ASSUME IInv, UNCHANGED slot
    PROVE  /\ DOMAIN slot' = Indexes
           /\ \A i \in Indexes : "pid" \in DOMAIN slot'[i] /\ slot'[i].pid = slot[i].pid
BY DEF IInv, Shapes

-----------------------------------------------------------------------------
\* supervisor_run() starting the next of the first workers.
LEMMA StartKeeps ==
    ASSUME IInv, StartWorker
    PROVE  IInv'
<1>1. pc = "start" /\ todo \subseteq Indexes /\ config \in Configs
  BY DEF StartWorker, IInv
<1>2. CASE todo = {} \/ stop
  BY <1>1, <1>2, SameTable DEF StartWorker, Vacant
<1>3. CASE ~(todo = {} \/ stop)
  <2>1. Min(todo) \in Indexes
    BY <1>1, <1>3, FirstOfLoop
  <2>2. "pid" \in DOMAIN slot[Min(todo)]
    BY <2>1 DEF IInv, Shapes
  <2>q. QED BY <1>1, <1>3, <2>2, LoopKeeps DEF StartWorker
<1>q. QED BY <1>2, <1>3

\* waitpid() finding nobody to reap.
LEMMA ReapNoneKeeps ==
    ASSUME IInv, ReapNone
    PROVE  IInv'
<1>1. Vacant' /\ todo' \subseteq Indexes /\ config' \in Configs
  BY DEF ReapNone, Vacant, IInv
<1>q. QED BY <1>1, SameTable DEF ReapNone

\* The retry of a worker whose restart had been put off.
LEMMA LimitedKeeps ==
    ASSUME IInv, RestartLimited
    PROVE  IInv'
<1>1. pc = "limited" /\ todo \subseteq Indexes /\ config \in Configs
  BY DEF RestartLimited, IInv
<1>2. CASE todo = {} \/ stop
  BY <1>1, <1>2, SameTable DEF RestartLimited, Vacant
<1>3. CASE ~(todo = {} \/ stop)
  <2> DEFINE s == [Recorded(slot[Min(todo)]) EXCEPT !.limited = FALSE]
  <2>1. Min(todo) \in Indexes
    BY <1>1, <1>3, FirstOfLoop
  <2>2. "pid" \in DOMAIN slot[Min(todo)]
    BY <2>1 DEF IInv, Shapes
  <2>3. "pid" \in DOMAIN s /\ s.pid = slot[Min(todo)].pid
    BY <2>2 DEF Recorded
  <2>4. /\ SpawnWorker(Min(todo), s, proc)
        /\ todo' = todo \ {Min(todo)} /\ UNCHANGED <<pc, config>>
    BY <1>3 DEF RestartLimited
  <2> HIDE DEF s
  <2>q. QED BY <1>1, <1>3, <2>3, <2>4, LoopKeeps
<1>q. QED BY <1>2, <1>3

\* A worker more, after a reload that asks for more of them.
LEMMA SpawnNewKeeps ==
    ASSUME IInv, SpawnNew
    PROVE  IInv'
<1>1. pc = "grow" /\ todo \subseteq Indexes /\ config \in Configs
  BY DEF SpawnNew, IInv
<1>2. CASE todo = {}
  BY <1>1, <1>2, SameTable DEF SpawnNew, Vacant
<1>3. CASE todo # {}
  <2> DEFINE s == [slot[Min(todo)] EXCEPT !.starts = <<>>]
  <2>1. Min(todo) \in Indexes
    BY <1>1, <1>3, FirstOfLoop
  <2>2. "pid" \in DOMAIN slot[Min(todo)]
    BY <2>1 DEF IInv, Shapes
  <2>3. "pid" \in DOMAIN s /\ s.pid = slot[Min(todo)].pid
    BY <2>2
  <2>4. /\ SpawnWorker(Min(todo), s, proc)
        /\ todo' = todo \ {Min(todo)} /\ UNCHANGED <<pc, config>>
    BY <1>3 DEF SpawnNew
  <2> HIDE DEF s
  <2>q. QED BY <1>1, <1>3, <2>3, <2>4, LoopKeeps
<1>q. QED BY <1>2, <1>3

\* A reload changes flags in the table and sends signals; the indexes that it
\* is going to spawn are the ones whose former worker has been reaped.
LEMMA ReloadKeeps ==
    ASSUME IInv, Reload
    PROVE  IInv'
<1> DEFINE retired == {slot[i].pid : i \in file.workers..(config.workers - 1)}
           told == [p \in Pids |-> IF p \in retired THEN Term(proc[p]) ELSE proc[p]]
<1>1. /\ pc = "reload" /\ pc' = "grow" /\ file \in Configs
      /\ Grow(file) \/ Retire(file)
      /\ proc' = TermAll(told) \/ proc' = HangupAll(told)
  BY DEF Reload
<1>2. DOMAIN slot = Indexes /\ \A i \in Indexes : "pid" \in DOMAIN slot[i]
  BY DEF IInv, Shapes
<1>3. /\ DOMAIN slot' = Indexes
      /\ \A i \in Indexes : "pid" \in DOMAIN slot'[i] /\ slot'[i].pid = slot[i].pid
  BY <1>1, <1>2 DEF Grow, Retire
<1>4. config' \in Configs /\ todo' \subseteq Indexes
  <2>1. /\ config.workers \in 1..MaxWorkers /\ file.workers \in 1..MaxWorkers
        /\ MaxWorkers \in Nat
    BY <1>1, SupervisorAssumption DEF IInv
  <2>2. config.workers..(file.workers - 1) \subseteq Indexes
    BY <2>1 DEF Indexes
  <2>3. todo' = {} \/ todo' \subseteq config.workers..(file.workers - 1)
    BY <1>1 DEF Grow, Retire
  <2>q. QED BY <1>1, <2>2, <2>3 DEF Reload
<1>5. Vacant'
  <2> SUFFICES ASSUME NEW i \in todo' PROVE slot'[i].pid = NoPid
    BY DEF Vacant
  <2>1. i \in Indexes /\ slot[i].pid = NoPid
    BY <1>1, <1>4 DEF Grow, Retire
  <2>q. QED BY <1>3, <2>1
<1>6. \A p \in Pids : told[p] = proc[p] \/ told[p] = Term(proc[p])
  OBVIOUS
<1>8. CASE proc' = TermAll(told)
  <2>1. DOMAIN proc' = Pids
    BY <1>8 DEF TermAll, HangupAll
  <2>2. ASSUME NEW p \in Pids PROVE SameOwner(p)
    <3>1. proc'[p] = told[p] \/ proc'[p] = Term(told[p])
      BY <1>8 DEF TermAll, HangupAll
    <3>2. \/ proc'[p] = proc[p] \/ proc'[p] = Term(proc[p])
          \/ proc'[p] = Term(Term(proc[p]))
      BY <1>6, <3>1
    <3>3. CASE proc'[p] = Term(Term(proc[p]))
      <4>1. CASE proc[p] = NoProc
        BY <3>3, <4>1, FreeShape DEF SameOwner
      <4>2. CASE proc[p] # NoProc
        <5>1. "st" \in DOMAIN proc[p] /\ proc[p].st # "free"
          BY <4>2 DEF IInv, Shapes
        <5>2. /\ "st" \in DOMAIN Term(proc[p]) /\ Term(proc[p]).st # "free"
              /\ Term(proc[p]).idx = proc[p].idx
          BY <5>1, TermShape
        <5>q. QED BY <3>3, <4>2, <5>2, TermShape DEF SameOwner
      <4>q. QED BY <4>1, <4>2
    <3>q. QED BY <3>2, <3>3, UnchangedOwner, TermOwner
  <2>q. QED BY <1>1, <1>3, <1>4, <1>5, <2>1, <2>2, OwnersKeep
<1>9. CASE proc' = HangupAll(told)
  <2>1. DOMAIN proc' = Pids
    BY <1>9 DEF TermAll, HangupAll
  <2>2. ASSUME NEW p \in Pids PROVE SameOwner(p)
    <3>1. proc'[p] = told[p] \/ proc'[p] = Hangup(told[p])
      BY <1>9 DEF TermAll, HangupAll
    <3>q. QED BY <1>6, <3>1, UnchangedOwner, TermOwner, HangupOwner
  <2>q. QED BY <1>1, <1>3, <1>4, <1>5, <2>1, <2>2, OwnersKeep
<1>q. QED BY <1>1, <1>8, <1>9

\* SIGUSR1: every worker is told to end, and the table stays.
LEMMA RestartKeeps ==
    ASSUME IInv, RestartWorkers
    PROVE  IInv'
<1>1. /\ pc = "restart" /\ pc' = "sleep" /\ UNCHANGED <<todo, slot, config>>
      /\ proc' = TermAll(proc) \/ proc' = proc
  BY DEF RestartWorkers
<1>2. todo' \subseteq Indexes /\ config' \in Configs /\ Vacant'
  BY <1>1 DEF IInv, Vacant
<1>3. CASE proc' = TermAll(proc)
  <2>1. DOMAIN proc' = Pids
    BY <1>3 DEF TermAll, HangupAll
  <2>2. ASSUME NEW p \in Pids PROVE SameOwner(p)
    <3>1. proc'[p] = proc[p] \/ proc'[p] = Term(proc[p])
      BY <1>3 DEF TermAll, HangupAll
    <3>q. QED BY <3>1, UnchangedOwner, TermOwner
  <2>q. QED BY <1>1, <1>2, <2>1, <2>2, SlotsKept, OwnersKeep
<1>4. CASE proc' = proc
  BY <1>1, <1>2, <1>4, SameTable
<1>q. QED BY <1>1, <1>3, <1>4

\* SIGTERM: the workers are told to end, and the supervisor waits for them.
LEMMA ShutdownKeeps ==
    ASSUME IInv, Shutdown
    PROVE  IInv'
<1>1. /\ pc = "stop" /\ pc' = "drain" /\ UNCHANGED <<todo, slot, config>>
      /\ proc' = TermAll(proc)
  BY DEF Shutdown
<1>2. todo' \subseteq Indexes /\ config' \in Configs /\ Vacant'
  BY <1>1 DEF IInv, Vacant
<1>3. DOMAIN proc' = Pids
  BY <1>1 DEF TermAll, HangupAll
<1>4. ASSUME NEW p \in Pids PROVE SameOwner(p)
  <2>1. proc'[p] = proc[p] \/ proc'[p] = Term(proc[p])
    BY <1>1 DEF TermAll, HangupAll
  <2>q. QED BY <2>1, UnchangedOwner, TermOwner
<1>q. QED BY <1>1, <1>2, <1>3, <1>4, SlotsKept, OwnersKeep

\* The wait between two passes, which only makes everything older.
LEMMA SleepKeeps ==
    ASSUME IInv, Sleep
    PROVE  IInv'
<1>1. /\ pc = "sleep" /\ pc' \in {"stop", "reap"} /\ UNCHANGED <<todo, config, proc>>
      /\ slot' = [i \in Indexes |-> [slot[i] EXCEPT !.recent = Aged(@), !.starts = Aged(@)]]
  BY DEF Sleep, Top
<1>2. todo' \subseteq Indexes /\ config' \in Configs /\ Vacant'
  BY <1>1 DEF IInv, Vacant
<1>3. \A i \in Indexes : "pid" \in DOMAIN slot[i]
  BY DEF IInv, Shapes
<1>4. /\ DOMAIN slot' = Indexes
      /\ \A i \in Indexes : "pid" \in DOMAIN slot'[i] /\ slot'[i].pid = slot[i].pid
  BY <1>1, <1>3
<1>5. DOMAIN proc' = Pids /\ \A p \in Pids : SameOwner(p)
  BY <1>1, UnchangedOwner DEF IInv, Shapes
<1>q. QED BY <1>1, <1>2, <1>4, <1>5, OwnersKeep

-----------------------------------------------------------------------------
\* A process that changes one of its own fields keeps its index; if it ends it
\* stays until it is reaped, unless nobody is there to do that.
LEMMA OwnField ==
    ASSUME IInv, NEW p \in Pids, proc[p].st # "free", UNCHANGED super,
           \/ \E st \in {"bare", "guarded", "running", "zombie"} :
                proc' = [proc EXCEPT ![p].st = st]
           \/ \E c : proc' = [proc EXCEPT ![p].hup = FALSE, ![p].cfg = c]
    PROVE  IInv'
<1>1. DOMAIN proc = Pids /\ "st" \in DOMAIN proc[p] /\ proc[p] # NoProc
  BY DEF IInv, Shapes, NoProc
<1>2. DOMAIN proc' = Pids /\ \A q \in Pids \ {p} : proc'[q] = proc[q]
  BY <1>1
<1>3. SameOwner(p)
  <2>1. ASSUME NEW st \in {"bare", "guarded", "running", "zombie"},
               proc' = [proc EXCEPT ![p].st = st]
        PROVE  SameOwner(p)
    <3>1. proc'[p] = [proc[p] EXCEPT !.st = st]
      BY <1>1, <2>1
    <3>2. "st" \in DOMAIN proc'[p] /\ proc'[p].st = st /\ proc'[p].idx = proc[p].idx
      BY <1>1, <3>1
    <3>3. proc'[p] # NoProc
      BY <3>2 DEF NoProc
    <3>q. QED BY <1>1, <3>2, <3>3 DEF SameOwner
  <2>2. ASSUME NEW c, proc' = [proc EXCEPT ![p].hup = FALSE, ![p].cfg = c]
        PROVE  SameOwner(p)
    <3> DEFINE h == [proc[p] EXCEPT !.hup = FALSE]
    <3>1. "st" \in DOMAIN h /\ h.st = proc[p].st /\ h.idx = proc[p].idx
      BY <1>1
    <3>2. proc'[p] = [h EXCEPT !.cfg = c]
      BY <1>1, <2>2
    <3> HIDE DEF h
    <3>3. "st" \in DOMAIN proc'[p] /\ proc'[p].st = proc[p].st /\ proc'[p].idx = proc[p].idx
      BY <3>1, <3>2
    <3>4. proc'[p] # NoProc
      BY <3>3 DEF NoProc
    <3>q. QED BY <1>1, <3>3, <3>4 DEF SameOwner
  <2>q. QED BY <2>1, <2>2
<1>4. \A q \in Pids : SameOwner(q)
  BY <1>2, <1>3, UnchangedOwner
<1>5. /\ UNCHANGED <<pc, todo, slot, config>>
      /\ todo' \subseteq Indexes /\ config' \in Configs /\ Vacant'
  BY DEF super, IInv, Vacant
<1>q. QED BY <1>2, <1>4, <1>5, SlotsKept, OwnersKeep

\* A worker that ends is a zombie, under the same index.
LEMMA EndKeeps ==
    ASSUME IInv, NEW p \in Pids, proc[p].st # "free", UNCHANGED super, End(p)
    PROVE  IInv'
<1>1. CASE pc = "dead"
  <2>1. /\ pc' = "dead" /\ UNCHANGED <<todo, slot, config>>
        /\ proc' = [proc EXCEPT ![p] = NoProc]
    BY <1>1 DEF super, End, Orphan
  <2>2. Shapes(slot', proc')
    BY <2>1 DEF IInv, Shapes
  <2>q. QED BY <2>1, <2>2 DEF IInv, Vacant
<1>2. CASE pc # "dead"
  <2>1. proc' = [proc EXCEPT ![p].st = "zombie"]
    BY <1>2 DEF End, Orphan
  <2>q. QED BY <2>1, OwnField
<1>q. QED BY <1>1, <1>2

\* The steps of a worker between fork() and its end.
LEMMA ChildKeeps ==
    ASSUME IInv, NEW p \in Pids, Child(p)
    PROVE  IInv'
<1>1. UNCHANGED super
  BY DEF Child
<1>2. CASE RestoreHandlers(p)
  BY <1>1, <1>2, OwnField DEF RestoreHandlers, Becomes
<1>3. CASE SetDeathSignal(p)
  BY <1>1, <1>3, OwnField DEF SetDeathSignal, Becomes
<1>4. CASE CheckParent(p)
  <2>1. CASE Orphan
    BY <1>1, <1>4, <2>1, EndKeeps DEF CheckParent
  <2>2. CASE ~Orphan
    BY <1>1, <1>4, <2>2, OwnField DEF CheckParent, Becomes
  <2>q. QED BY <2>1, <2>2
<1>5. CASE WorkerReload(p)
  <2>1. /\ proc[p].st = "running"
        /\ \E c : proc' = [proc EXCEPT ![p].hup = FALSE, ![p].cfg = c]
    BY <1>5 DEF WorkerReload
  <2>q. QED BY <1>1, <2>1, OwnField
<1>6. CASE WorkerStops(p)
  BY <1>1, <1>6, EndKeeps DEF WorkerStops
<1>q. QED BY <1>2, <1>3, <1>4, <1>5, <1>6 DEF Child

\* SIGKILL to the supervisor: what is left are its children, whose entries
\* nobody reads any more.
LEMMA DiesKeeps ==
    ASSUME IInv, SupervisorDies
    PROVE  IInv'
<1>1. /\ pc' = "dead" /\ UNCHANGED config /\ Forgets /\ DOMAIN proc' = Pids
      /\ \A p \in Pids : \/ proc'[p] = NoProc
                         \/ proc'[p] = Term(proc[p])
                         \/ proc'[p] = proc[p]
  BY DEF SupervisorDies
<1>2. \A p \in Pids : proc'[p] = NoProc \/ SameOwner(p)
  BY <1>1, UnchangedOwner, TermOwner
<1>3. Shapes(slot', proc')
  <2>1. \A p \in Pids : \/ proc'[p] = NoProc
                        \/ /\ "st" \in DOMAIN proc'[p]
                           /\ proc'[p].st # "free" /\ proc'[p].idx \in Indexes
    BY <1>2 DEF SameOwner, IInv, Shapes
  <2>q. QED BY <1>1, <2>1, Forgotten DEF Shapes
<1>q. QED BY <1>1, <1>3, Forgotten DEF IInv, Vacant

\* The table starts empty, and so do the processes.
LEMMA Initially == Init => IInv
<1> SUFFICES ASSUME Init PROVE IInv
  OBVIOUS
<1>1. todo \subseteq Indexes /\ config \in Configs
  <2>1. FirstConfig \in Configs /\ FirstConfig.workers \in 1..MaxWorkers /\ MaxWorkers \in Nat
    BY SupervisorAssumption
  <2>2. 0..(FirstConfig.workers - 1) \subseteq Indexes
    BY <2>1 DEF Indexes
  <2>q. QED BY <2>1, <2>2 DEF Init
<1>2. slot = [i \in Indexes |-> EmptySlot] /\ proc = [p \in Pids |-> NoProc]
  BY DEF Init
<1>3. "pid" \in DOMAIN EmptySlot /\ EmptySlot.pid = NoPid
  BY DEF EmptySlot
<1>4. Shapes(slot, proc) /\ Match(slot, proc)
  BY <1>2, <1>3 DEF Shapes, Match
<1>5. Vacant
  <2>1. \A i \in todo : slot[i] = EmptySlot
    BY <1>1, <1>2
  <2>q. QED BY <1>3, <2>1 DEF Vacant
<1>q. QED BY <1>1, <1>4, <1>5 DEF IInv

\* Every step of the supervisor, of a worker or of a signal keeps IInv.
LEMMA Inductive == IInv /\ [Next]_vars => IInv'
<1> SUFFICES ASSUME IInv, [Next]_vars PROVE IInv'
  OBVIOUS
<1>1. CASE StartWorker
  BY <1>1, StartKeeps
<1>2. CASE ReapNone
  BY <1>2, ReapNoneKeeps
<1>3. CASE RestartLimited
  BY <1>3, LimitedKeeps
<1>4. CASE ReloadFails
  <2>1. Vacant' /\ todo' \subseteq Indexes /\ config' \in Configs /\ pc # "dead"
    BY <1>4 DEF ReloadFails, Top, Vacant, IInv
  <2>q. QED BY <1>4, <2>1, SameTable DEF ReloadFails
<1>5. CASE Reload
  BY <1>5, ReloadKeeps
<1>6. CASE NoReload
  <2>1. Vacant' /\ todo' \subseteq Indexes /\ config' \in Configs /\ pc # "dead"
    BY <1>6 DEF NoReload, Vacant, IInv
  <2>q. QED BY <1>6, <2>1, SameTable DEF NoReload
<1>7. CASE SpawnNew
  BY <1>7, SpawnNewKeeps
<1>8. CASE RestartWorkers
  BY <1>8, RestartKeeps
<1>9. CASE Sleep
  BY <1>9, SleepKeeps
<1>10. CASE Shutdown
  BY <1>10, ShutdownKeeps
<1>11. CASE Kill
  BY <1>11, KillKeeps
<1>12. ASSUME NEW p \in Pids, Reap(p) \/ Drain(p) PROVE IInv'
  BY <1>12, ReapKeeps, DrainKeeps
<1>13. ASSUME NEW p \in Pids, Child(p) \/ Crash(p) PROVE IInv'
  <2>1. CASE Child(p)
    BY <2>1, ChildKeeps
  <2>2. CASE Crash(p)
    BY <2>2, EndKeeps DEF Crash
  <2>q. QED BY <1>13, <2>1, <2>2
<1>14. CASE Sighup \/ Sigusr1 \/ Sigterm
  <2>1. UNCHANGED <<super, proc>>
    BY <1>14 DEF Sighup, Sigusr1, Sigterm
  <2>q. QED BY <2>1 DEF super, IInv, Shapes, Match, Vacant
<1>15. CASE SupervisorDies
  BY <1>15, DiesKeeps
<1>16. CASE UNCHANGED vars
  BY <1>16 DEF vars, super, IInv, Shapes, Match, Vacant
<1>q. QED
  BY <1>1, <1>2, <1>3, <1>4, <1>5, <1>6, <1>7, <1>8, <1>9, <1>10, <1>11, <1>12, <1>13,
     <1>14, <1>15, <1>16 DEF Next, Supervise

\* IInv holds of every behaviour.
THEOREM Invariance == Spec => []IInv
BY Initially, Inductive, PTL DEF Spec

\* However many workers, reloads, crashes, failing forks and reused process
\* numbers there are, the supervisor's table names exactly its processes, each
\* under its own index: it never signals, and never forgets, another one.
THEOREM TableAlwaysMatches == Spec => []TableMatches
<1>1. IInv => TableMatches
  BY DEF IInv, Match, TableMatches
<1>q. QED BY <1>1, Invariance, PTL

-----------------------------------------------------------------------------
(* The limit on restarts. *)

\* The newest first.
Sorted(s) == \A j, k \in 1..Len(s) : j <= k => s[j] <= s[k]

\* The workers an index has started lately besides the first are restarts that
\* record_restart() has noted, the k-th newest not before the k-th newest.
Paced(s) ==
    /\ Sorted(s.recent) /\ Sorted(s.starts)
    /\ Len(s.recent) <= MaxRestarts
    /\ Len(s.starts) <= Len(s.recent) + 1
    /\ \A k \in 1..(Len(s.starts) - 1) : s.recent[k] <= s.starts[k]

\* A list of numbers that is passed over by a pass, from its end.
LEMMA AgedIsPrefix ==
    ASSUME NEW a \in Ages, Sorted(a)
    PROVE  /\ Aged(a) \in Ages /\ Sorted(Aged(a)) /\ Len(Aged(a)) \in Nat /\ Len(Aged(a)) <= Len(a)
           /\ \A k \in 1..Len(Aged(a)) : Aged(a)[k] = a[k] + 1
           /\ \A k \in 1..Len(a) : k <= Len(Aged(a)) <=> a[k] < WindowPasses
<1> DEFINE n == Len(a)
           kept == {k \in DOMAIN a : a[k] < WindowPasses}
           m == Cardinality(kept)
           b == [k \in 1..m |-> a[k] + 1]
<1>1. n \in Nat /\ DOMAIN a = 1..n /\ WindowPasses \in Nat
      /\ \A k \in 1..n : a[k] \in 0..WindowPasses
  BY LenProperties, ElementOfSeq, SupervisorAssumption DEF Ages
<1>2. \A j, k \in 1..n : j <= k => a[j] <= a[k]
  BY DEF Sorted
<1>3. Aged(a) = b
  BY DEF Aged
<1>4. kept \in SUBSET (1..n) /\ \A k \in 1..n : k \in kept <=> a[k] < WindowPasses
  BY <1>1
<1> HIDE DEF n, kept
<1>5. m \in 0..n /\ kept = 1..m
  <2>1. CASE kept = {}
    <3>1. m = 0
      BY <2>1, FS_EmptySet
    <3>2. 1..0 = {} /\ 0 \in 0..n
      BY <1>1
    <3>q. QED BY <2>1, <3>1, <3>2
  <2>2. CASE kept # {}
    <3>1. PICK t \in kept : \A y \in kept : t >= y
      BY <1>1, <1>4, <2>2, MaxIsGreatest
    <3>2. t \in 1..n /\ a[t] < WindowPasses
      BY <1>4, <3>1
    <3>3. kept \subseteq 1..t
      BY <1>4, <3>1
    <3>4. ASSUME NEW k \in 1..t PROVE k \in kept
      <4>1. k \in 1..n /\ k <= t
        BY <1>1, <3>2
      <4>2. a[k] <= a[t] /\ a[k] \in Int /\ a[t] \in Int
        BY <1>1, <1>2, <3>2, <4>1
      <4>3. a[k] < WindowPasses
        BY <1>1, <3>2, <4>2
      <4>q. QED BY <1>4, <4>1, <4>3
    <3>5. kept = 1..t
      BY <3>3, <3>4
    <3>6. Cardinality(1..t) = t
      BY <3>2, FS_Interval
    <3>q. QED BY <3>2, <3>5, <3>6
  <2>q. QED BY <2>1, <2>2
<1> HIDE DEF m
<1>6. ASSUME NEW k \in 1..m PROVE a[k] + 1 \in 0..WindowPasses
  <2>1. k \in 1..n /\ k \in kept
    BY <1>1, <1>5
  <2>2. a[k] < WindowPasses /\ a[k] \in 0..WindowPasses
    BY <1>1, <1>4, <2>1
  <2>q. QED BY <1>1, <2>2
<1>7. b \in Ages /\ Len(b) = m
  <2>1. b \in [1..m -> 0..WindowPasses]
    BY <1>6
  <2>2. b \in Ages
    BY <1>5, <2>1, IsASeq DEF Ages
  <2>3. DOMAIN b = 1..m /\ DOMAIN b = 1..Len(b) /\ Len(b) \in Nat /\ m \in Nat
    BY <1>5, <2>2, LenProperties DEF Ages
  <2>q. QED BY <2>2, <2>3
<1>8. Sorted(b)
  <2>1. ASSUME NEW j \in 1..m, NEW k \in 1..m, j <= k PROVE b[j] <= b[k]
    <3>1. j \in 1..n /\ k \in 1..n
      BY <1>1, <1>5
    <3>2. a[j] <= a[k] /\ a[j] \in Int /\ a[k] \in Int
      BY <1>1, <1>2, <2>1, <3>1
    <3>q. QED BY <3>2
  <2>q. QED BY <1>7, <2>1 DEF Sorted
<1>9. \A k \in 1..n : k <= m <=> a[k] < WindowPasses
  <2>1. ASSUME NEW k \in 1..n PROVE k <= m <=> k \in 1..m
    BY <1>1, <1>5
  <2>q. QED BY <1>4, <1>5, <2>1
<1>10. \A k \in 1..m : b[k] = a[k] + 1
  OBVIOUS
<1> HIDE DEF b
<1>11. m \in Nat /\ m <= n
  BY <1>1, <1>5
<1>q. QED BY <1>3, <1>7, <1>8, <1>9, <1>10, <1>11 DEF n

\* A list of numbers to which the newest is added.
LEMMA NowIsNewest ==
    ASSUME NEW a \in Ages, Sorted(a)
    PROVE  /\ AddNow(a) \in Ages /\ Sorted(AddNow(a)) /\ Len(AddNow(a)) = Len(a) + 1
           /\ AddNow(a)[1] = 0 /\ \A k \in 1..Len(a) : AddNow(a)[k + 1] = a[k]
<1> DEFINE n == Len(a)
           b == <<0>> \o a
<1>1. n \in Nat /\ WindowPasses \in Nat /\ \A k \in 1..n : a[k] \in 0..WindowPasses
  BY LenProperties, ElementOfSeq, SupervisorAssumption DEF Ages
<1>2. <<0>> \in Ages /\ Len(<<0>>) = 1 /\ <<0>>[1] = 0
  BY <1>1 DEF Ages
<1>3. b \in Ages /\ Len(b) = 1 + n
      /\ \A k \in 1..(1 + n) : b[k] = IF k <= 1 THEN <<0>>[k] ELSE a[k - 1]
  BY <1>2, ConcatProperties DEF Ages
<1> HIDE DEF b
<1>4. b[1] = 0
  <2>1. 1 \in 1..(1 + n)
    BY <1>1
  <2>q. QED BY <1>2, <1>3, <2>1
<1>5. ASSUME NEW k \in 1..n PROVE b[k + 1] = a[k]
  <2>1. k + 1 \in 1..(1 + n) /\ ~(k + 1 <= 1) /\ (k + 1) - 1 = k
    BY <1>1
  <2>q. QED BY <1>3, <2>1
<1>6. Sorted(b)
  <2>1. ASSUME NEW j \in 1..(1 + n), NEW k \in 1..(1 + n), j <= k PROVE b[j] <= b[k]
    <3>1. CASE j = 1 /\ k = 1
      BY <1>4, <3>1
    <3>2. CASE j = 1 /\ k # 1
      <4>1. k - 1 \in 1..n /\ (k - 1) + 1 = k
        BY <1>1, <3>2
      <4>2. b[k] = a[k - 1] /\ a[k - 1] \in 0..WindowPasses
        BY <1>1, <1>5, <4>1
      <4>3. b[k] \in 0..WindowPasses
        BY <4>2
      <4>q. QED BY <1>1, <1>4, <3>2, <4>3
    <3>3. CASE j # 1
      <4>1. j - 1 \in 1..n /\ (j - 1) + 1 = j /\ k - 1 \in 1..n /\ (k - 1) + 1 = k /\ j - 1 <= k - 1
        BY <1>1, <2>1, <3>3
      <4>2. b[j] = a[j - 1] /\ b[k] = a[k - 1]
        BY <1>5, <4>1
      <4>3. a[j - 1] <= a[k - 1]
        BY <4>1 DEF Sorted, n
      <4>q. QED BY <4>2, <4>3
    <3>q. QED BY <3>1, <3>2, <3>3
  <2>q. QED BY <1>3, <2>1 DEF Sorted
<1>q. QED BY <1>1, <1>3, <1>4, <1>5, <1>6 DEF AddNow, b, n

\* A slot whose numbers are in order.
Good(s) == s \in Slots /\ Paced(s)

\* What spawn_worker() leaves in a slot.
Started(s, p) == [s EXCEPT !.pid = p, !.retiring = FALSE, !.starts = AddNow(s.starts)]

\* Only the two lists of a slot matter.
LEMMA SamePace ==
    ASSUME NEW s, Good(s), NEW t \in Slots, t.recent = s.recent, t.starts = s.starts
    PROVE  Good(t)
BY DEF Good, Paced

\* A slot whose worker has ended, or is not wanted, or wanted again.
LEMMA GoodFields ==
    ASSUME NEW s, Good(s), NEW b \in BOOLEAN
    PROVE  /\ Good([s EXCEPT !.pid = NoPid]) /\ Good([s EXCEPT !.limited = b])
           /\ Good([s EXCEPT !.retiring = b])
           /\ Good([s EXCEPT !.retiring = TRUE, !.limited = FALSE])
<1>1. s \in Slots
  BY DEF Good
<1>2. [s EXCEPT !.pid = NoPid] \in Slots /\ [s EXCEPT !.limited = b] \in Slots
      /\ [s EXCEPT !.retiring = b] \in Slots
      /\ [s EXCEPT !.retiring = TRUE, !.limited = FALSE] \in Slots
  BY <1>1 DEF Slots
<1>3. ASSUME NEW t \in Slots, t \in {[s EXCEPT !.pid = NoPid], [s EXCEPT !.limited = b],
               [s EXCEPT !.retiring = b], [s EXCEPT !.retiring = TRUE, !.limited = FALSE]}
      PROVE  t.recent = s.recent /\ t.starts = s.starts
  BY <1>1, <1>3 DEF Slots
<1>q. QED BY <1>2, <1>3, SamePace

\* A slot a pass later: if the k-th newest of the workers is still in the
\* window, so is the k-th newest of the restarts.
LEMMA GoodAged ==
    ASSUME NEW s, Good(s)
    PROVE  Good([s EXCEPT !.recent = Aged(s.recent), !.starts = Aged(s.starts)])
<1> DEFINE r == s.recent
           a == s.starts
           t == [s EXCEPT !.recent = Aged(r), !.starts = Aged(a)]
<1>1. s \in Slots /\ r \in Ages /\ a \in Ages /\ Sorted(r) /\ Sorted(a)
  BY DEF Good, Slots, Paced
<1>2. /\ Aged(r) \in Ages /\ Sorted(Aged(r)) /\ Len(Aged(r)) \in Nat /\ Len(Aged(r)) <= Len(r)
      /\ \A k \in 1..Len(Aged(r)) : Aged(r)[k] = r[k] + 1
      /\ \A k \in 1..Len(r) : k <= Len(Aged(r)) <=> r[k] < WindowPasses
  BY <1>1, AgedIsPrefix
<1>3. /\ Aged(a) \in Ages /\ Sorted(Aged(a)) /\ Len(Aged(a)) \in Nat /\ Len(Aged(a)) <= Len(a)
      /\ \A k \in 1..Len(Aged(a)) : Aged(a)[k] = a[k] + 1
      /\ \A k \in 1..Len(a) : k <= Len(Aged(a)) <=> a[k] < WindowPasses
  BY <1>1, AgedIsPrefix
<1>4. Len(r) <= MaxRestarts /\ Len(a) <= Len(r) + 1
      /\ \A k \in 1..(Len(a) - 1) : r[k] <= a[k]
  BY DEF Good, Paced
<1>5. /\ Len(r) \in Nat /\ Len(a) \in Nat /\ WindowPasses \in Nat /\ MaxRestarts \in Nat
      /\ \A k \in 1..Len(r) : r[k] \in 0..WindowPasses
      /\ \A k \in 1..Len(a) : a[k] \in 0..WindowPasses
  BY <1>1, LenProperties, ElementOfSeq, SupervisorAssumption DEF Ages
<1>6. t \in Slots /\ t.recent = Aged(r) /\ t.starts = Aged(a)
  BY <1>1, <1>2, <1>3 DEF Slots
<1> HIDE DEF r, a, t
<1>7. ASSUME NEW k \in 1..(Len(Aged(a)) - 1)
      PROVE  k <= Len(Aged(r)) /\ Aged(r)[k] <= Aged(a)[k]
  <2>1. k \in 1..(Len(a) - 1) /\ k \in 1..Len(a) /\ k \in 1..Len(r)
        /\ k <= Len(Aged(a)) /\ k \in 1..Len(Aged(a))
    BY <1>3, <1>4, <1>5
  <2>2. r[k] <= a[k] /\ a[k] < WindowPasses
    BY <1>3, <1>4, <2>1
  <2>3. r[k] < WindowPasses
    BY <1>5, <2>1, <2>2
  <2>4. k <= Len(Aged(r)) /\ k \in 1..Len(Aged(r))
    BY <1>2, <2>1, <2>3
  <2>5. Aged(r)[k] = r[k] + 1 /\ Aged(a)[k] = a[k] + 1
    BY <1>2, <1>3, <2>1, <2>4
  <2>q. QED BY <1>5, <2>1, <2>2, <2>4, <2>5
<1>8. Len(Aged(a)) <= Len(Aged(r)) + 1
  <2>1. CASE Len(Aged(a)) >= 2
    <3>1. Len(Aged(a)) - 1 \in 1..(Len(Aged(a)) - 1)
      BY <1>3, <2>1
    <3>2. Len(Aged(a)) - 1 <= Len(Aged(r))
      BY <1>7, <3>1
    <3>q. QED BY <1>2, <1>3, <3>2
  <2>2. CASE ~(Len(Aged(a)) >= 2)
    BY <1>2, <1>3, <2>2
  <2>q. QED BY <2>1, <2>2
<1>9. Len(Aged(r)) <= MaxRestarts
  BY <1>2, <1>4, <1>5
<1>10. Good(t)
  BY <1>2, <1>3, <1>6, <1>7, <1>8, <1>9 DEF Good, Paced
<1>q. QED BY <1>10 DEF t, r, a

\* record_restart(), and the worker that is then started or, if fork() fails,
\* is not.
LEMMA GoodRestart ==
    ASSUME NEW s, Good(s), Len(s.recent) < MaxRestarts
    PROVE  LET r == [Recorded(s) EXCEPT !.limited = FALSE]
           IN  Good(r) /\ \A p \in Pids : Good(Started(r, p))
<1> DEFINE r == [Recorded(s) EXCEPT !.limited = FALSE]
           e == s.recent
           a == s.starts
           f == AddNow(e)
           b == AddNow(a)
<1>1. s \in Slots /\ e \in Ages /\ a \in Ages /\ Sorted(e) /\ Sorted(a)
  BY DEF Good, Slots, Paced
<1>2. /\ f \in Ages /\ Sorted(f) /\ Len(f) = Len(e) + 1
      /\ f[1] = 0 /\ \A k \in 1..Len(e) : f[k + 1] = e[k]
  BY <1>1, NowIsNewest
<1>3. /\ b \in Ages /\ Sorted(b) /\ Len(b) = Len(a) + 1
      /\ b[1] = 0 /\ \A k \in 1..Len(a) : b[k + 1] = a[k]
  BY <1>1, NowIsNewest
<1>4. Len(e) < MaxRestarts /\ Len(a) <= Len(e) + 1
      /\ \A k \in 1..(Len(a) - 1) : e[k] <= a[k]
  BY DEF Good, Paced
<1>5. /\ Len(e) \in Nat /\ Len(a) \in Nat /\ WindowPasses \in Nat /\ MaxRestarts \in Nat
      /\ \A k \in 1..Len(e) : e[k] \in 0..WindowPasses
      /\ \A k \in 1..Len(a) : a[k] \in 0..WindowPasses
  BY <1>1, LenProperties, ElementOfSeq, SupervisorAssumption DEF Ages
<1>6. r \in Slots /\ r.recent = f /\ r.starts = a
  BY <1>1, <1>2 DEF Slots, Recorded
<1>7. \A j, k \in 1..Len(e) : j <= k => e[j] <= e[k]
  BY <1>1 DEF Sorted
<1> HIDE DEF r, e, a, f, b
<1>8. ASSUME NEW k \in 1..(Len(a) - 1) PROVE f[k] <= a[k]
  <2>1. k \in 1..Len(a) /\ k \in 1..Len(e)
    BY <1>4, <1>5
  <2>2. CASE k = 1
    BY <1>2, <1>5, <2>1, <2>2
  <2>3. CASE k # 1
    <3>1. k - 1 \in 1..Len(e) /\ (k - 1) + 1 = k /\ k - 1 <= k
      BY <1>5, <2>1, <2>3
    <3>2. f[k] = e[k - 1] /\ e[k - 1] <= e[k] /\ e[k] <= a[k]
      BY <1>2, <1>4, <1>7, <2>1, <3>1
    <3>q. QED BY <1>5, <2>1, <3>1, <3>2
  <2>q. QED BY <2>2, <2>3
<1>9. Good(r)
  BY <1>1, <1>2, <1>4, <1>5, <1>6, <1>8 DEF Good, Paced
<1>10. ASSUME NEW k \in 1..(Len(b) - 1) PROVE f[k] <= b[k]
  <2>1. k \in 1..Len(a)
    BY <1>3
  <2>2. CASE k = 1
    BY <1>2, <1>3, <2>2
  <2>3. CASE k # 1
    <3>1. k - 1 \in 1..(Len(a) - 1) /\ k - 1 \in 1..Len(a) /\ k - 1 \in 1..Len(e)
          /\ (k - 1) + 1 = k
      BY <1>4, <1>5, <2>1, <2>3
    <3>2. f[k] = e[k - 1] /\ b[k] = a[k - 1] /\ e[k - 1] <= a[k - 1]
      BY <1>2, <1>3, <1>4, <3>1
    <3>q. QED BY <3>2
  <2>q. QED BY <2>2, <2>3
<1>11. ASSUME NEW p \in Pids PROVE Good(Started(r, p))
  <2> DEFINE t == Started(r, p)
  <2>1. t \in Slots /\ t.recent = f /\ t.starts = b
    BY <1>3, <1>6 DEF Slots, Started, b
  <2> HIDE DEF t
  <2>2. Good(t)
    BY <1>2, <1>3, <1>4, <1>5, <1>10, <2>1 DEF Good, Paced
  <2>q. QED BY <2>2 DEF t
<1>q. QED BY <1>9, <1>11 DEF r

\* The first worker of an index.
LEMMA GoodFirst ==
    ASSUME NEW s, Good(s), s.starts = <<>>, NEW p \in Pids
    PROVE  Good(Started(s, p))
<1> DEFINE t == Started(s, p)
           b == AddNow(s.starts)
<1>1. s \in Slots /\ s.recent \in Ages /\ s.starts \in Ages /\ Sorted(s.recent) /\ Sorted(s.starts)
      /\ Len(s.recent) <= MaxRestarts
  BY DEF Good, Slots, Paced
<1>2. b \in Ages /\ Sorted(b) /\ Len(b) = Len(s.starts) + 1
  BY <1>1, NowIsNewest
<1>3. Len(s.starts) = 0 /\ Len(s.recent) \in Nat
  BY <1>1, LenProperties DEF Ages
<1>4. t \in Slots /\ t.recent = s.recent /\ t.starts = b
  BY <1>1, <1>2 DEF Slots, Started
<1> HIDE DEF t, b
<1>5. Len(b) = 1 /\ Len(b) <= Len(s.recent) + 1 /\ 1..(Len(b) - 1) = {}
  BY <1>2, <1>3
<1>6. Paced(t)
  BY <1>1, <1>2, <1>4, <1>5 DEF Paced
<1>q. QED BY <1>4, <1>6 DEF Good, t

\* An index that is added starts with an empty list.
LEMMA GoodEmptied ==
    ASSUME NEW s, Good(s)
    PROVE  Good([s EXCEPT !.starts = <<>>])
<1> DEFINE t == [s EXCEPT !.starts = <<>>]
<1>1. s \in Slots /\ s.recent \in Ages /\ Sorted(s.recent) /\ Len(s.recent) <= MaxRestarts
  BY DEF Good, Slots, Paced
<1>2. <<>> \in Ages /\ Len(<<>>) = 0 /\ Len(s.recent) \in Nat
  BY <1>1, LenProperties DEF Ages
<1>3. t \in Slots /\ t.recent = s.recent /\ t.starts = <<>>
  BY <1>1, <1>2 DEF Slots
<1> HIDE DEF t
<1>4. Sorted(<<>>)
  BY <1>2 DEF Sorted
<1>5. Good(t)
  BY <1>1, <1>2, <1>3, <1>4 DEF Good, Paced
<1>q. QED BY <1>5 DEF t

-----------------------------------------------------------------------------
\* Every slot is in order.
AllGood(sl) == sl \in [Indexes -> Slots] /\ \A i \in Indexes : Good(sl[i])

\* The first worker of an index is not a restart, and the loop over the indexes
\* whose restart had to wait only turns to those that may be restarted now.
Limits ==
    /\ TypeOK /\ AllGood(slot)
    /\ pc = "start" => \A i \in todo : slot[i].starts = <<>>
    /\ pc = "limited" => \A i \in todo : Len(slot[i].recent) < MaxRestarts

\* A table nobody has written to is in order.
LEMMA EmptyInOrder ==
    ASSUME NEW sl, sl = [i \in Indexes |-> EmptySlot]
    PROVE  AllGood(sl) /\ \A i \in Indexes : sl[i].starts = <<>>
<1>1. <<>> \in Ages /\ Len(<<>>) = 0
  BY DEF Ages
<1>2. EmptySlot \in Slots /\ EmptySlot.recent = <<>> /\ EmptySlot.starts = <<>>
  BY <1>1 DEF EmptySlot, Slots
<1>3. Sorted(<<>>) /\ MaxRestarts \in Nat
  BY <1>1, SupervisorAssumption DEF Sorted
<1>4. Good(EmptySlot)
  BY <1>1, <1>2, <1>3 DEF Good, Paced
<1>q. QED BY <1>2, <1>4 DEF AllGood

\* So what has ended leaves a table that is in order.
LEMMA ForgottenLimits ==
    ASSUME Limits, Forgets, pc' \in {"done", "dead"}, UNCHANGED <<config, file, bounds>>,
           proc' \in [Pids -> Processes]
    PROVE  Limits'
<1>1. slot' = [i \in Indexes |-> EmptySlot] /\ todo' = {}
  BY DEF Forgets
<1>2. AllGood(slot')
  BY <1>1, EmptyInOrder
<1>3. {stop', reload', restart'} \subseteq BOOLEAN
  BY Zenon DEF Forgets
<1>q. QED BY <1>1, <1>2, <1>3 DEF Limits, TypeOK, AllGood, bounds

Bounded == events \in Nat /\ forkFails \in Nat /\ events + forkFails <= MaxEvents

\* What signals leave of a process is a process.
LEMMA TermTyped ==
    ASSUME NEW r \in Processes
    PROVE  Term(r) \in Processes /\ Hangup(r) \in Processes
<1>1. CASE r = NoProc
  <2>1. Term(r) = NoProc /\ Hangup(r) = NoProc
    BY <1>1, FreeShape
  <2>q. QED BY <1>1, <2>1
<1>2. CASE r # NoProc
  <2> DEFINE t == [r EXCEPT !.told = "heard"]
             u == [r EXCEPT !.told = "unheard"]
  <2>1. u \in Processes /\ t \in Processes /\ t # NoProc /\ [r EXCEPT !.hup = TRUE] \in Processes
    BY <1>2 DEF Processes, NoProc
  <2>2. [t EXCEPT !.st = "zombie"] \in Processes /\ [t EXCEPT !.st = "stopping"] \in Processes
    <3> HIDE DEF t
    <3>q. QED BY <2>1 DEF Processes
  <2>3. \/ Term(r) = r
        \/ Term(r) = u
        \/ Term(r) = [t EXCEPT !.st = "zombie"]
        \/ Term(r) = [t EXCEPT !.st = "stopping"]
    BY DEF Term
  <2>4. Term(r) \in Processes
    BY <2>1, <2>2, <2>3
  <2>5. Hangup(r) \in Processes
    BY <2>1 DEF Hangup
  <2>q. QED BY <2>4, <2>5
<1>q. QED BY <1>1, <1>2

\* Every process in order stays so under a round of signals.
LEMMA RoundTyped ==
    ASSUME NEW ps \in [Pids -> Processes]
    PROVE  TermAll(ps) \in [Pids -> Processes] /\ HangupAll(ps) \in [Pids -> Processes]
BY TermTyped DEF TermAll, HangupAll

\* spawn_worker() with a slot that is in order whether the fork succeeds or not.
LEMMA SpawnTyped ==
    ASSUME Limits, NEW i \in Indexes, NEW s, Good(s), \A p \in Pids : Good(Started(s, p)),
           NEW ps \in [Pids -> Processes], SpawnWorker(i, s, ps), UNCHANGED events
    PROVE  /\ AllGood(slot') /\ proc' \in [Pids -> Processes] /\ Bounded'
           /\ \A j \in Indexes \ {i} : slot'[j] = slot[j]
<1>1. AllGood(slot) /\ config \in Configs /\ Bounded /\ MaxEvents \in Nat
  BY SupervisorAssumption DEF Limits, TypeOK, Bounded
<1>2. Forked(i) \in Processes
  BY <1>1 DEF Forked, Processes
<1>3. ASSUME NEW t, Good(t), slot' = [slot EXCEPT ![i] = t]
      PROVE  AllGood(slot') /\ \A j \in Indexes \ {i} : slot'[j] = slot[j]
  <2>1. t \in Slots
    BY <1>3 DEF Good
  <2>q. QED BY <1>1, <1>3, <2>1 DEF AllGood
<1>4. ASSUME NEW p \in Pids, proc' = [ps EXCEPT ![p] = Forked(i)],
             slot' = [slot EXCEPT ![i] = Started(s, p)], UNCHANGED forkFails
      PROVE  /\ AllGood(slot') /\ proc' \in [Pids -> Processes] /\ Bounded'
             /\ \A j \in Indexes \ {i} : slot'[j] = slot[j]
  BY <1>1, <1>2, <1>3, <1>4 DEF Bounded
<1>5. ASSUME MoreMayHappen, forkFails' = forkFails + 1, slot' = [slot EXCEPT ![i] = s], proc' = ps
      PROVE  /\ AllGood(slot') /\ proc' \in [Pids -> Processes] /\ Bounded'
             /\ \A j \in Indexes \ {i} : slot'[j] = slot[j]
  <2>1. Bounded'
    BY <1>1, <1>5 DEF Bounded, MoreMayHappen
  <2>2. AllGood(slot') /\ \A j \in Indexes \ {i} : slot'[j] = slot[j]
    BY <1>3, <1>5
  <2>3. proc' \in [Pids -> Processes]
    BY <1>5
  <2>q. QED BY <2>1, <2>2, <2>3
<1>6. \/ \E p \in Pids : /\ proc' = [ps EXCEPT ![p] = Forked(i)]
                         /\ slot' = [slot EXCEPT ![i] = Started(s, p)]
                         /\ UNCHANGED forkFails
      \/ /\ MoreMayHappen /\ forkFails' = forkFails + 1
         /\ slot' = [slot EXCEPT ![i] = s] /\ proc' = ps
  BY Zenon DEF SpawnWorker, Started
<1>q. QED BY <1>4, <1>5, <1>6

-----------------------------------------------------------------------------
\* Starting the next of the first workers, of which there has been none.
LEMMA StartLimits ==
    ASSUME Limits, StartWorker
    PROVE  Limits'
<1>1. /\ pc = "start" /\ todo \subseteq Indexes /\ AllGood(slot) /\ TypeOK
      /\ \A i \in todo : slot[i].starts = <<>>
      /\ UNCHANGED <<config, file, flags, events>>
  BY DEF StartWorker, Limits, TypeOK
<1>2. CASE todo = {} \/ stop
  <2>1. pc' \in {"stop", "reap"} /\ todo' = {} /\ UNCHANGED <<slot, proc, forkFails>>
    BY <1>2 DEF StartWorker, Top
  <2>q. QED BY <1>1, <2>1 DEF Limits, TypeOK, flags
<1>3. CASE ~(todo = {} \/ stop)
  <2> DEFINE i == Min(todo)
  <2>1. i \in todo /\ i \in Indexes
    BY <1>1, <1>3, FirstOfLoop
  <2>2. /\ SpawnWorker(i, slot[i], proc) /\ todo' = todo \ {i} /\ pc' = pc
    BY <1>3 DEF StartWorker
  <2> HIDE DEF i
  <2>3. Good(slot[i]) /\ \A p \in Pids : Good(Started(slot[i], p))
    BY <1>1, <2>1, GoodFirst DEF AllGood
  <2>4. /\ AllGood(slot') /\ proc' \in [Pids -> Processes] /\ Bounded'
        /\ \A j \in Indexes \ {i} : slot'[j] = slot[j]
    BY <1>1, <2>1, <2>2, <2>3, SpawnTyped DEF TypeOK
  <2>5. TypeOK'
    BY <1>1, <2>2, <2>4 DEF TypeOK, AllGood, Bounded, flags
  <2>q. QED BY <1>1, <2>2, <2>4, <2>5 DEF Limits
<1>q. QED BY <1>2, <1>3

\* A worker that is reaped is restarted, and its restart noted, or is not.
LEMMA ReapLimits ==
    ASSUME Limits, NEW p \in Pids, Reap(p)
    PROVE  Limits'
<1> DEFINE i == proc[p].idx
           ended == [slot[i] EXCEPT !.pid = NoPid]
           rest == [proc EXCEPT ![p] = NoProc]
<1>1. /\ pc = "reap" /\ TypeOK /\ AllGood(slot) /\ proc[p].st = "zombie"
      /\ UNCHANGED <<pc, todo, config, file, flags, events>>
  BY DEF Reap, Limits
<1>2. i \in Indexes
  <2>1. proc[p] \in Processes /\ proc[p] # NoProc
    BY <1>1 DEF TypeOK, NoProc
  <2>q. QED BY <2>1 DEF Processes
<1>3. rest \in [Pids -> Processes]
  BY <1>1 DEF TypeOK, Processes
<1>4. Good(ended) /\ Good([ended EXCEPT !.limited = TRUE]) /\ ended.recent = slot[i].recent
  <2>1. Good(slot[i]) /\ slot[i] \in Slots
    BY <1>1, <1>2 DEF AllGood
  <2>2. Good(ended)
    BY <2>1, GoodFields
  <2>3. ended.recent = slot[i].recent
    BY <2>1 DEF Slots
  <2> HIDE DEF ended
  <2>4. Good([ended EXCEPT !.limited = TRUE])
    BY <2>2, GoodFields
  <2>q. QED BY <2>2, <2>3, <2>4
<1> HIDE DEF i, ended, rest
<1>5. AllGood(slot') /\ proc' \in [Pids -> Processes] /\ Bounded'
  <2>1. CASE RestartAllowed(i) /\ SpawnWorker(i, [Recorded(ended) EXCEPT !.limited = FALSE], rest)
    <3> DEFINE r == [Recorded(ended) EXCEPT !.limited = FALSE]
    <3>1. Len(ended.recent) < MaxRestarts
      BY <1>4, <2>1 DEF RestartAllowed
    <3>2. Good(r) /\ \A q \in Pids : Good(Started(r, q))
      BY <1>4, <3>1, GoodRestart
    <3>3. SpawnWorker(i, r, rest)
      BY <2>1
    <3> HIDE DEF r
    <3>q. QED BY <1>1, <1>2, <1>3, <3>2, <3>3, SpawnTyped
  <2>2. ASSUME NEW s, s = ended \/ s = [ended EXCEPT !.limited = TRUE],
               slot' = [slot EXCEPT ![i] = s], proc' = rest, UNCHANGED forkFails
        PROVE  AllGood(slot') /\ proc' \in [Pids -> Processes] /\ Bounded'
    <3>1. Good(s)
      BY <1>4, <2>2
    <3>2. s \in Slots
      BY <3>1 DEF Good
    <3>3. AllGood(slot')
      BY <1>1, <1>2, <2>2, <3>1, <3>2 DEF AllGood
    <3>q. QED BY <1>1, <1>3, <2>2, <3>3 DEF TypeOK, Bounded
  <2>3. \/ RestartAllowed(i) /\ SpawnWorker(i, [Recorded(ended) EXCEPT !.limited = FALSE], rest)
        \/ \E s : /\ s = ended \/ s = [ended EXCEPT !.limited = TRUE]
                  /\ slot' = [slot EXCEPT ![i] = s] /\ proc' = rest /\ UNCHANGED forkFails
    BY DEF Reap, i, ended, rest
  <2>q. QED BY <2>1, <2>2, <2>3
<1>q. QED BY <1>1, <1>5 DEF Limits, TypeOK, AllGood, Bounded, flags

\* The restarts that had to wait: each index of the loop is turned to once.
LEMMA LimitedLimits ==
    ASSUME Limits, RestartLimited
    PROVE  Limits'
<1>1. /\ pc = "limited" /\ todo \subseteq Indexes /\ AllGood(slot) /\ TypeOK
      /\ \A i \in todo : Len(slot[i].recent) < MaxRestarts
      /\ UNCHANGED <<config, file, flags, events>>
  BY DEF RestartLimited, Limits, TypeOK
<1>2. CASE todo = {} \/ stop
  <2>1. pc' = "reload" /\ todo' = {} /\ UNCHANGED <<slot, proc, forkFails>>
    BY <1>2 DEF RestartLimited
  <2>q. QED BY <1>1, <2>1 DEF Limits, TypeOK, flags
<1>3. CASE ~(todo = {} \/ stop)
  <2> DEFINE i == Min(todo)
             r == [Recorded(slot[i]) EXCEPT !.limited = FALSE]
  <2>1. i \in todo /\ i \in Indexes
    BY <1>1, <1>3, FirstOfLoop
  <2>2. /\ SpawnWorker(i, r, proc) /\ todo' = todo \ {i} /\ pc' = pc
    BY <1>3 DEF RestartLimited
  <2> HIDE DEF i
  <2>3. Good(slot[i]) /\ Len(slot[i].recent) < MaxRestarts
    BY <1>1, <2>1 DEF AllGood
  <2>4. Good(r) /\ \A p \in Pids : Good(Started(r, p))
    BY <2>3, GoodRestart
  <2> HIDE DEF r
  <2>5. /\ AllGood(slot') /\ proc' \in [Pids -> Processes] /\ Bounded'
        /\ \A j \in Indexes \ {i} : slot'[j] = slot[j]
    BY <1>1, <2>1, <2>2, <2>4, SpawnTyped DEF TypeOK
  <2>6. TypeOK'
    BY <1>1, <2>2, <2>5 DEF TypeOK, AllGood, Bounded, flags
  <2>q. QED BY <1>1, <2>2, <2>5, <2>6 DEF Limits
<1>q. QED BY <1>2, <1>3

\* A worker of an index that is added: its list begins anew.
LEMMA SpawnNewLimits ==
    ASSUME Limits, SpawnNew
    PROVE  Limits'
<1>1. /\ pc = "grow" /\ todo \subseteq Indexes /\ AllGood(slot) /\ TypeOK
      /\ UNCHANGED <<config, file, flags, events>>
  BY DEF SpawnNew, Limits, TypeOK
<1>2. CASE todo = {}
  <2>1. pc' = "restart" /\ UNCHANGED <<todo, slot, proc, forkFails>>
    BY <1>2 DEF SpawnNew
  <2>q. QED BY <1>1, <2>1 DEF Limits, TypeOK, flags
<1>3. CASE todo # {}
  <2> DEFINE i == Min(todo)
             s == [slot[i] EXCEPT !.starts = <<>>]
  <2>1. i \in todo /\ i \in Indexes
    BY <1>1, <1>3, FirstOfLoop
  <2>2. /\ SpawnWorker(i, s, proc) /\ todo' = todo \ {i} /\ pc' = pc
    BY <1>3 DEF SpawnNew
  <2> HIDE DEF i
  <2>3. Good(slot[i]) /\ slot[i] \in Slots
    BY <1>1, <2>1 DEF AllGood
  <2>4. Good(s)
    BY <2>3, GoodEmptied
  <2>5. s.starts = <<>>
    BY <2>3 DEF Slots
  <2> HIDE DEF s
  <2>6. \A p \in Pids : Good(Started(s, p))
    BY <2>4, <2>5, GoodFirst
  <2>7. /\ AllGood(slot') /\ proc' \in [Pids -> Processes] /\ Bounded'
    BY <1>1, <2>1, <2>2, <2>4, <2>6, SpawnTyped DEF TypeOK
  <2>8. TypeOK'
    BY <1>1, <2>2, <2>7 DEF TypeOK, AllGood, Bounded, flags
  <2>q. QED BY <1>1, <2>2, <2>7, <2>8 DEF Limits
<1>q. QED BY <1>2, <1>3

\* A reload leaves the lists alone.
LEMMA ReloadLimits ==
    ASSUME Limits, Reload
    PROVE  Limits'
<1> DEFINE retired == {slot[i].pid : i \in file.workers..(config.workers - 1)}
           told == [p \in Pids |-> IF p \in retired THEN Term(proc[p]) ELSE proc[p]]
<1>1. /\ pc' = "grow" /\ file \in Configs /\ config' = file /\ reload' = FALSE
      /\ Grow(file) \/ Retire(file)
      /\ proc' = TermAll(told) \/ proc' = HangupAll(told)
      /\ UNCHANGED <<file, stop, restart, bounds>>
  BY DEF Reload
<1>2. TypeOK /\ AllGood(slot)
  BY DEF Limits
<1>3. todo' \subseteq Indexes
  <2>1. /\ config.workers \in 1..MaxWorkers /\ file.workers \in 1..MaxWorkers
        /\ MaxWorkers \in Nat
    BY <1>1, <1>2, SupervisorAssumption DEF TypeOK
  <2>2. config.workers..(file.workers - 1) \subseteq Indexes
    BY <2>1 DEF Indexes
  <2>3. todo' = {} \/ todo' \subseteq config.workers..(file.workers - 1)
    BY <1>1 DEF Grow, Retire
  <2>q. QED BY <2>2, <2>3
<1>4. told \in [Pids -> Processes]
  BY <1>2, TermTyped DEF TypeOK
<1> HIDE DEF told
<1>5. proc' \in [Pids -> Processes]
  BY <1>1, <1>4, RoundTyped
<1>6. ASSUME NEW i \in Indexes
      PROVE  /\ Good(slot[i]) /\ Good([slot[i] EXCEPT !.retiring = FALSE])
             /\ Good([slot[i] EXCEPT !.retiring = TRUE, !.limited = FALSE])
  BY <1>2, GoodFields DEF AllGood
<1>7. /\ slot' = [i \in Indexes |-> slot'[i]]
      /\ \A i \in Indexes : Good(slot'[i])
  <2>1. CASE Grow(file)
    BY <1>6, <2>1 DEF Grow
  <2>2. CASE Retire(file)
    BY <1>6, <2>2 DEF Retire
  <2>q. QED BY <1>1, <2>1, <2>2
<1>8. AllGood(slot')
  BY <1>7 DEF AllGood, Good
<1>q. QED BY <1>1, <1>2, <1>3, <1>5, <1>8 DEF Limits, TypeOK, AllGood, bounds

\* Each pass makes every entry older.
LEMMA SleepLimits ==
    ASSUME Limits, Sleep
    PROVE  Limits'
<1>1. /\ pc' \in {"stop", "reap"} /\ UNCHANGED <<todo, config, file, flags, proc, bounds>>
      /\ slot' = [i \in Indexes |-> [slot[i] EXCEPT !.recent = Aged(slot[i].recent),
                                                    !.starts = Aged(slot[i].starts)]]
  <2>1. ASSUME NEW i \in Indexes
        PROVE  [slot[i] EXCEPT !.recent = Aged(@), !.starts = Aged(@)]
               = [slot[i] EXCEPT !.recent = Aged(slot[i].recent), !.starts = Aged(slot[i].starts)]
    BY DEF Limits, TypeOK, Slots
  <2>q. QED BY <2>1 DEF Sleep, Top
<1>2. TypeOK /\ AllGood(slot)
  BY DEF Limits
<1>3. \A i \in Indexes : Good(slot[i])
  BY <1>2 DEF AllGood
<1>4. \A i \in Indexes : Good([slot[i] EXCEPT !.recent = Aged(slot[i].recent),
                                              !.starts = Aged(slot[i].starts)])
  BY <1>3, GoodAged
<1>5. slot' = [i \in Indexes |-> slot'[i]] /\ \A i \in Indexes : Good(slot'[i])
  BY <1>1, <1>4
<1>6. AllGood(slot')
  BY <1>5 DEF AllGood, Good
<1>q. QED BY <1>1, <1>2, <1>6 DEF Limits, TypeOK, AllGood, bounds, flags

\* Reaping after the monitoring loop, and the end.
LEMMA DrainLimits ==
    ASSUME Limits, Kill \/ \E p \in Pids : Drain(p)
    PROVE  Limits'
<1>1. TypeOK /\ AllGood(slot)
  BY DEF Limits
<1>2. \A i \in Indexes : Good(slot[i]) /\ Good([slot[i] EXCEPT !.pid = NoPid])
  BY <1>1, GoodFields DEF AllGood
<1>3. CASE Kill
  <2>1. /\ pc' = "done" /\ Forgets /\ UNCHANGED <<config, file, bounds>>
        /\ proc' \in [Pids -> Processes]
    BY <1>1, <1>3 DEF Kill, TypeOK, Processes
  <2>q. QED BY <2>1, ForgottenLimits
<1>4. ASSUME NEW p \in Pids, Drain(p) PROVE Limits'
  <2> DEFINE i == proc[p].idx
  <2>1. /\ pc = "drain" /\ UNCHANGED <<pc, todo, config, file, flags, bounds>>
        /\ slot' = [slot EXCEPT ![i] = [slot[i] EXCEPT !.pid = NoPid]]
        /\ proc' \in [Pids -> Processes] /\ proc[p].st = "zombie"
    BY <1>1, <1>4 DEF Drain, TypeOK, Processes
  <2>2. i \in Indexes
    <3>1. proc[p] \in Processes /\ proc[p] # NoProc
      BY <1>1, <2>1 DEF TypeOK, NoProc
    <3>q. QED BY <3>1 DEF Processes
  <2> HIDE DEF i
  <2>3. slot' = [j \in Indexes |-> slot'[j]] /\ \A j \in Indexes : Good(slot'[j])
    BY <1>1, <1>2, <2>1, <2>2 DEF AllGood
  <2>4. AllGood(slot')
    BY <2>3 DEF AllGood, Good
  <2>q. QED BY <1>1, <2>1, <2>4 DEF Limits, TypeOK, AllGood, bounds, flags
<1>q. QED BY <1>3, <1>4

\* The steps of the supervisor that leave the table alone.
LEMMA OtherLimits ==
    ASSUME Limits,
           ReapNone \/ ReloadFails \/ NoReload \/ RestartWorkers \/ Shutdown
    PROVE  Limits'
<1>1. TypeOK /\ AllGood(slot)
  BY DEF Limits
<1>2. TermAll(proc) \in [Pids -> Processes]
  BY <1>1, RoundTyped DEF TypeOK
<1>3. CASE ReapNone
  BY <1>1, <1>3 DEF ReapNone, RestartAllowed, Limits, TypeOK, bounds, flags
<1>4. CASE ReloadFails
  BY <1>1, <1>4 DEF ReloadFails, Top, Limits, TypeOK, bounds, flags
<1>5. CASE NoReload
  BY <1>1, <1>5 DEF NoReload, Limits, TypeOK, bounds, flags
<1>6. CASE RestartWorkers
  BY <1>1, <1>2, <1>6 DEF RestartWorkers, Limits, TypeOK, bounds
<1>7. CASE Shutdown
  BY <1>1, <1>2, <1>7 DEF Shutdown, Limits, TypeOK, bounds, flags
<1>q. QED BY <1>3, <1>4, <1>5, <1>6, <1>7

\* The processes do not touch the table.
LEMMA ProcessLimits ==
    ASSUME Limits, UNCHANGED <<super, file, flags>>, proc' \in [Pids -> Processes], Bounded'
    PROVE  Limits'
BY DEF Limits, TypeOK, Bounded, super, flags

\* A process that ends.
LEMMA EndTyped ==
    ASSUME Limits, NEW p \in Pids, proc[p].st # "free", End(p)
    PROVE  proc' \in [Pids -> Processes]
<1>1. proc \in [Pids -> Processes] /\ proc[p] # NoProc
  BY DEF Limits, TypeOK, NoProc
<1>2. NoProc \in Processes /\ [proc[p] EXCEPT !.st = "zombie"] \in Processes
  BY <1>1 DEF Processes
<1>q. QED BY <1>1, <1>2 DEF End

\* The steps of a worker.
LEMMA ChildLimits ==
    ASSUME Limits, NEW p \in Pids, Child(p)
    PROVE  Limits'
<1>1. UNCHANGED <<super, file, flags, bounds>> /\ proc \in [Pids -> Processes] /\ Bounded
  BY DEF Child, Limits, TypeOK, Bounded
<1>2. ASSUME NEW st \in {"bare", "guarded", "running"}, proc[p].st # "free",
             proc' = [proc EXCEPT ![p].st = st]
      PROVE  proc' \in [Pids -> Processes]
  <2>1. proc[p] \in Processes /\ proc[p] # NoProc
    BY <1>1, <1>2 DEF NoProc
  <2>2. [proc[p] EXCEPT !.st = st] \in Processes
    BY <2>1 DEF Processes
  <2>q. QED BY <1>1, <1>2, <2>2
<1>3. proc' \in [Pids -> Processes]
  <2>1. CASE RestoreHandlers(p)
    BY <1>2, <2>1 DEF RestoreHandlers, Becomes
  <2>2. CASE SetDeathSignal(p)
    BY <1>2, <2>2 DEF SetDeathSignal, Becomes
  <2>3. CASE CheckParent(p)
    <3>1. CASE Orphan
      BY <2>3, <3>1, EndTyped DEF CheckParent
    <3>2. CASE ~Orphan
      BY <1>2, <2>3, <3>2 DEF CheckParent, Becomes
    <3>q. QED BY <3>1, <3>2
  <2>4. CASE WorkerReload(p)
    <3>1. PICK c \in Configs \union {Defaults} :
             proc[p].st = "running" /\ proc' = [proc EXCEPT ![p].hup = FALSE, ![p].cfg = c]
      BY <2>4 DEF WorkerReload
    <3>2. proc[p] \in Processes /\ proc[p] # NoProc
      BY <1>1, <3>1 DEF NoProc
    <3> DEFINE h == [proc[p] EXCEPT !.hup = FALSE]
    <3>3. h \in Processes /\ h # NoProc
      BY <3>2 DEF Processes, NoProc
    <3>4. proc' = [proc EXCEPT ![p] = [h EXCEPT !.cfg = c]]
      BY <1>1, <3>1
    <3> HIDE DEF h
    <3>5. [h EXCEPT !.cfg = c] \in Processes
      BY <3>1, <3>3 DEF Processes
    <3>q. QED BY <1>1, <3>4, <3>5
  <2>5. CASE WorkerStops(p)
    BY <2>5, EndTyped DEF WorkerStops
  <2>q. QED BY <2>1, <2>2, <2>3, <2>4, <2>5 DEF Child
<1>q. QED BY <1>1, <1>3, ProcessLimits DEF bounds, Bounded

\* A worker that ends by itself, within the bound.
LEMMA CrashLimits ==
    ASSUME Limits, NEW p \in Pids, Crash(p)
    PROVE  Limits'
<1>1. proc' \in [Pids -> Processes]
  BY EndTyped DEF Crash
<1>2. UNCHANGED <<super, file, flags>> /\ Bounded'
  BY SupervisorAssumption DEF Crash, Limits, TypeOK, Bounded, MoreMayHappen
<1>q. QED BY <1>1, <1>2, ProcessLimits

\* The operator's signals, and the death of the supervisor.
LEMMA SignalLimits ==
    ASSUME Limits, Sighup \/ Sigusr1 \/ Sigterm \/ SupervisorDies
    PROVE  Limits'
<1>1. TypeOK /\ MaxEvents \in Nat
  BY SupervisorAssumption DEF Limits
<1>2. CASE Sighup
  BY <1>1, <1>2 DEF Sighup, MoreMayHappen, Files, Limits, TypeOK, super
<1>3. CASE Sigusr1
  BY <1>1, <1>3 DEF Sigusr1, MoreMayHappen, Limits, TypeOK, super
<1>4. CASE Sigterm
  BY <1>1, <1>4 DEF Sigterm, Limits, TypeOK, super, bounds
<1>5. CASE SupervisorDies
  <2>1. \A p \in Pids : Term(proc[p]) \in Processes /\ NoProc \in Processes
    BY <1>1, TermTyped DEF TypeOK, Processes
  <2>2. proc' \in [Pids -> Processes] /\ pc' = "dead" /\ Forgets
        /\ UNCHANGED <<config, file, bounds>>
    BY <1>1, <1>5, <2>1 DEF SupervisorDies, TypeOK
  <2>q. QED BY <2>2, ForgottenLimits
<1>q. QED BY <1>2, <1>3, <1>4, <1>5

\* No worker has been started, and no restart noted.
LEMMA LimitsInitially == Init => Limits
<1> SUFFICES ASSUME Init PROVE Limits
  OBVIOUS
<1>1. todo \subseteq Indexes /\ config \in Configs
  BY Initially DEF IInv
<1>2. slot = [i \in Indexes |-> EmptySlot] /\ proc = [p \in Pids |-> NoProc]
  BY DEF Init
<1>3. AllGood(slot) /\ proc \in [Pids -> Processes] /\ \A i \in Indexes : slot[i].starts = <<>>
  BY <1>2, EmptyInOrder DEF Processes
<1>4. TypeOK
  <2>1. pc = "start" /\ file \in Configs /\ stop = FALSE /\ reload = FALSE /\ restart = FALSE
        /\ events = 0 /\ forkFails = 0 /\ MaxEvents \in Nat
    BY SupervisorAssumption DEF Init
  <2>2. {stop, reload, restart} \subseteq BOOLEAN
    BY Zenon, <2>1
  <2>q. QED BY <1>1, <1>3, <2>1, <2>2 DEF TypeOK, AllGood
<1>5. \A i \in todo : slot[i].starts = <<>>
  BY <1>1, <1>3
<1>q. QED BY <1>3, <1>4, <1>5 DEF Init, Limits

\* Every step keeps Limits.
LEMMA LimitsInductive == Limits /\ [Next]_vars => Limits'
<1> SUFFICES ASSUME Limits, [Next]_vars PROVE Limits'
  OBVIOUS
<1>1. CASE Supervise
  BY <1>1, StartLimits, ReapLimits, LimitedLimits, SpawnNewLimits, ReloadLimits, SleepLimits,
     DrainLimits, OtherLimits DEF Supervise
<1>2. ASSUME NEW p \in Pids, Child(p) \/ Crash(p) PROVE Limits'
  BY <1>2, ChildLimits, CrashLimits
<1>3. CASE Sighup \/ Sigusr1 \/ Sigterm \/ SupervisorDies
  BY <1>3, SignalLimits
<1>4. CASE UNCHANGED vars
  BY <1>4 DEF vars, super, flags, bounds, Limits, TypeOK
<1>q. QED BY <1>1, <1>2, <1>3, <1>4 DEF Next

\* Whatever ends the workers, however long the window and however many restarts
\* are allowed in it, no index is started more often than that besides its first
\* worker: the restarts that are noted are enough to bound the workers that start.
THEOREM RestartsAreLimited == Spec => []NoRestartStorm
<1>1. Limits => NoRestartStorm
  <2> SUFFICES ASSUME Limits, NEW i \in Indexes PROVE Len(slot[i].starts) <= MaxRestarts + 1
    BY DEF NoRestartStorm, Limits
  <2>1. slot[i] \in Slots /\ Paced(slot[i])
    BY DEF Limits, AllGood, Good
  <2>2. Len(slot[i].starts) \in Nat /\ Len(slot[i].recent) \in Nat /\ MaxRestarts \in Nat
    BY <2>1, LenProperties, SupervisorAssumption DEF Slots, Ages
  <2>q. QED BY <2>1, <2>2 DEF Paced
<1>q. QED BY <1>1, LimitsInitially, LimitsInductive, PTL DEF Spec

-----------------------------------------------------------------------------
(* Part 2: a worker's event loop. *)

\* The kernel's table, the poller and the connections name the same sockets.
Registered ==
    /\ polled = {f \in Fds : owner[f] # None}
    /\ \A f \in Fds, c \in Conns :
          /\ owner[f] = <<"client", c>> <=> conn[c].fd = f
          /\ owner[f] = <<"rtsp", c>> <=> conn[c].rtsp = f

\* A source's list and its viewers name each other.
Subscribed ==
    \A g \in Groups :
       /\ IsInjective(subs[g])
       /\ \A c \in Conns : c \in ToSet(subs[g]) <=> conn[c].group = g

\* Who is found in the fd map, for each kind of socket.
Mapped ==
    \A f \in Fds :
       /\ owner[f] = None => fdMap[f] = None
       /\ \A c \in Conns : owner[f] \in {<<"client", c>>, <<"rtsp", c>>} => fdMap[f] = c
       /\ \A g \in Groups : owner[f] = <<"source", g>> =>
             fdMap[f] # None /\ conn[fdMap[f]].group = g

\* A freed object owns nothing, one that awaits its request no upstream; only a
\* client that has a socket can hang up.
Cleared ==
    \A c \in Conns : /\ conn[c].st = "free" => conn[c] = NoConn
                     /\ conn[c].st = "reading" => conn[c].rtsp = None /\ conn[c].group = None
                     /\ c \in gone => conn[c].fd # None

Counted == backlog <= clients

WorkerIInv == WorkerTypeOK /\ Registered /\ Subscribed /\ Mapped /\ Cleared /\ Counted

-----------------------------------------------------------------------------
\* None is nothing else, and the kinds of owners differ.
LEMMA NoneIsNobody ==
    /\ None \notin Fds /\ None \notin Conns /\ None \notin Groups /\ None # Listener
    /\ \A c \in Conns : <<"client", c>> # None /\ <<"rtsp", c>> # None
    /\ \A g \in Groups : <<"source", g>> # None
    /\ Listener \notin Fds
BY WorkerAssumption

\* The kernel gives out a descriptor that is free.
LEMMA LowestIsFree ==
    ASSUME WorkerTypeOK, Free # {}
    PROVE  Min(Free) \in Fds /\ owner[Min(Free)] = None
<1>1. Free \subseteq Nat
  BY WorkerAssumption DEF Free
<1>q. QED BY <1>1, MinIsLeast DEF Free

\* The invariant does not depend on the batch nor on who may hang up next.
LEMMA HandledKeeps ==
    ASSUME WorkerIInv, batch # <<>>, Rest, UNCHANGED <<backlog, clients>>
    PROVE  batch' \in Seq((Fds \union {Listener}) \X {"in", "hup"}) /\ backlog' \in 0..MaxClients
           /\ clients' \in 0..MaxClients /\ Counted'
BY HeadTailProperties DEF WorkerIInv, WorkerTypeOK, Rest, Counted

\* What is to be shown of the sockets, apart from batch and counters.
Tables ==
    /\ owner \in [Fds -> Owners] /\ fdMap \in [Fds -> Conns \union {None}] /\ polled \subseteq Fds
    /\ conn \in [Conns -> [st : {"free", "reading", "streaming", "closing", "teardown"},
                           fd : Fds \union {None}, rtsp : Fds \union {None},
                           group : Groups \union {None}]]
    /\ subs \in [Groups -> Seq(Conns)]
    /\ gone \subseteq Conns
    /\ Registered /\ Subscribed /\ Mapped /\ Cleared

\* What the lemmas about the tables need of the invariant.
LEMMA TablesOfInv ==
    WorkerIInv => Tables
BY DEF WorkerIInv, WorkerTypeOK, Tables

\* Whose socket it is, of one descriptor and one connection.
LEMMA WhoseSocket ==
    ASSUME Tables, NEW f \in Fds, NEW d \in Conns
    PROVE  /\ owner[f] = <<"client", d>> <=> conn[d].fd = f
           /\ owner[f] = <<"rtsp", d>> <=> conn[d].rtsp = f
BY DEF Tables, Registered

\* What LeaveGroup() promises: the list is without the connection, and a socket
\* of its source is shut or belongs to one that is left.
LEMMA LeaveGroupLeaves ==
    ASSUME Tables, NEW c \in Conns
    PROVE  LET l == LeaveGroup(c)
           IN  /\ l.subs \in [Groups -> Seq(Conns)]
               /\ l.fdMap \in [Fds -> Conns \union {None}]
               /\ \A g \in Groups : /\ IsInjective(l.subs[g])
                                    /\ ToSet(l.subs[g]) = ToSet(subs[g]) \ {c}
               /\ \A f \in Fds : f \in l.shut =>
                     \E g \in Groups : owner[f] = <<"source", g>> /\ conn[c].group = g
               /\ l.shut \subseteq Fds
               /\ \A f \in Fds :
                     \/ l.fdMap[f] = fdMap[f] /\ (f \in l.shut \/ conn[c].group = None
                                                  \/ owner[f] # <<"source", conn[c].group>>)
                     \/ /\ owner[f] = <<"source", conn[c].group>> /\ conn[c].group \in Groups
                        /\ l.fdMap[f] \in ToSet(l.subs[conn[c].group])
<1>1. CASE conn[c].group = None
  <2>1. LeaveGroup(c) = [subs |-> subs, shut |-> {}, fdMap |-> fdMap]
    BY <1>1 DEF LeaveGroup
  <2>2. \A g \in Groups : c \notin ToSet(subs[g])
    BY <1>1, NoneIsNobody DEF Tables, Subscribed
  <2>q. QED BY <1>1, <2>1, <2>2 DEF Tables, Subscribed
<1>2. CASE conn[c].group # None
  <2> DEFINE g == conn[c].group
             left == RemoveFirst(subs[g], c)
  <2>1. g \in Groups
    BY <1>2 DEF Tables
  <2>2. LeaveGroup(c) = Detach(c)
    BY <1>2 DEF LeaveGroup
  <2>3. subs[g] \in Seq(Conns) /\ IsInjective(subs[g]) /\ c \in ToSet(subs[g])
    BY <2>1 DEF Tables, Subscribed
  <2>4. left \in Seq(Conns) /\ IsInjective(left) /\ ToSet(left) = ToSet(subs[g]) \ {c}
    BY <2>3, UnlinkedList
  <2>5. \A h \in Groups \ {g} : c \notin ToSet(subs[h])
    BY <2>1 DEF Tables, Subscribed
  <2>6. /\ Detach(c).subs = [subs EXCEPT ![g] = left]
        /\ Detach(c).shut = IF left = <<>> THEN SourceFds(g) ELSE {}
        /\ Detach(c).fdMap = IF left = <<>> THEN fdMap
                             ELSE [f \in Fds |-> IF f \in SourceFds(g) THEN Head(left) ELSE fdMap[f]]
    BY DEF Detach
  <2>7. left # <<>> => Head(left) \in ToSet(left)
    <3>1. left # <<>> => Head(left) = left[1] /\ 1 \in DOMAIN left
      BY <2>4, LenProperties, HeadTailProperties
    <3>q. QED BY <3>1 DEF ToSet
  <2> HIDE DEF left
  <2>8. \A f \in Fds : f \in SourceFds(g) <=> owner[f] = <<"source", g>>
    BY DEF SourceFds
  <2>9. ToSet(left) \subseteq Conns /\ SourceFds(g) \subseteq Fds
    BY <2>4, LenProperties, ElementOfSeq DEF ToSet, SourceFds
  <2> HIDE DEF g
  <2>10. \A h \in Groups : [subs EXCEPT ![g] = left][h] = IF h = g THEN left ELSE subs[h]
    BY <2>1 DEF Tables
  <2>11. /\ Detach(c).subs \in [Groups -> Seq(Conns)]
         /\ \A h \in Groups : /\ IsInjective(Detach(c).subs[h])
                              /\ ToSet(Detach(c).subs[h]) = ToSet(subs[h]) \ {c}
    <3>1. Detach(c).subs \in [Groups -> Seq(Conns)]
      BY <2>1, <2>4, <2>6 DEF Tables
    <3>2. ASSUME NEW h \in Groups
          PROVE  IsInjective(Detach(c).subs[h]) /\ ToSet(Detach(c).subs[h]) = ToSet(subs[h]) \ {c}
      <4>1. CASE h = g
        BY <4>1, <2>4, <2>6, <2>10
      <4>2. CASE h # g
        BY <4>2, <2>5, <2>6, <2>10 DEF Tables, Subscribed
      <4>q. QED BY <4>1, <4>2
    <3>q. QED BY <3>1, <3>2
  <2>12. CASE left = <<>>
    <3>1. Detach(c).fdMap = fdMap /\ Detach(c).shut = SourceFds(g)
      BY <2>12, <2>6
    <3>q. QED BY <3>1, <2>1, <2>2, <2>8, <2>9, <2>11 DEF Tables, g
  <2>13. CASE left # <<>>
    <3>1. /\ Detach(c).shut = {}
          /\ Detach(c).fdMap = [f \in Fds |-> IF f \in SourceFds(g) THEN Head(left) ELSE fdMap[f]]
      BY <2>13, <2>6
    <3>2. Head(left) \in ToSet(left) /\ Head(left) \in Conns /\ Detach(c).subs[g] = left
      BY <2>13, <2>7, <2>9, <2>6, <2>10, <2>1
    <3>3. Detach(c).fdMap \in [Fds -> Conns \union {None}]
      BY <3>1, <3>2 DEF Tables
    <3>4. \A f \in Fds : \/ Detach(c).fdMap[f] = fdMap[f] /\ owner[f] # <<"source", g>>
                         \/ owner[f] = <<"source", g>> /\ Detach(c).fdMap[f] \in ToSet(Detach(c).subs[g])
      BY <3>1, <3>2, <2>8
    <3>q. QED BY <3>1, <3>3, <3>4, <2>1, <2>2, <2>11 DEF g
  <2>q. QED BY <2>12, <2>13
<1>q. QED BY <1>1, <1>2

-----------------------------------------------------------------------------
\* A connection object is freed, with its sockets and perhaps its source's.
LEMMA FreedKeeps ==
    ASSUME Tables, NEW c \in Conns, Freed(c)
    PROVE  Tables'
<1> DEFINE l == LeaveGroup(c)
           shut == Sockets(c) \union l.shut
<1>1. /\ l.subs \in [Groups -> Seq(Conns)]
      /\ l.fdMap \in [Fds -> Conns \union {None}]
      /\ \A g \in Groups : IsInjective(l.subs[g]) /\ ToSet(l.subs[g]) = ToSet(subs[g]) \ {c}
      /\ \A f \in Fds : f \in l.shut =>
            \E g \in Groups : owner[f] = <<"source", g>> /\ conn[c].group = g
      /\ l.shut \subseteq Fds
      /\ \A f \in Fds :
            \/ l.fdMap[f] = fdMap[f] /\ (f \in l.shut \/ conn[c].group = None
                                         \/ owner[f] # <<"source", conn[c].group>>)
            \/ /\ owner[f] = <<"source", conn[c].group>> /\ conn[c].group \in Groups
               /\ l.fdMap[f] \in ToSet(l.subs[conn[c].group])
  BY LeaveGroupLeaves
<1> HIDE DEF l
<1>2. \A f \in Fds : f \in Sockets(c) <=> owner[f] = <<"client", c>> \/ owner[f] = <<"rtsp", c>>
  BY NoneIsNobody DEF Sockets, Tables, Registered
<1>3. shut \subseteq Fds
  BY <1>1 DEF Sockets, Tables
<1>4. /\ owner' = Closed(owner, shut) /\ fdMap' = Closed(l.fdMap, shut) /\ polled' = polled \ shut
      /\ subs' = l.subs /\ conn' = [conn EXCEPT ![c] = NoConn] /\ gone' = gone \ {c}
  BY DEF Freed, l
<1> HIDE DEF shut
<1>5. /\ owner' \in [Fds -> Owners] /\ fdMap' \in [Fds -> Conns \union {None}]
      /\ \A f \in Fds : /\ owner'[f] = IF f \in shut THEN None ELSE owner[f]
                        /\ fdMap'[f] = IF f \in shut THEN None ELSE l.fdMap[f]
  BY <1>1, <1>4 DEF Closed, Tables, Owners
<1>6. /\ conn' \in [Conns -> [st : {"free", "reading", "streaming", "closing", "teardown"},
                              fd : Fds \union {None}, rtsp : Fds \union {None},
                              group : Groups \union {None}]]
      /\ \A d \in Conns : conn'[d] = IF d = c THEN NoConn ELSE conn[d]
  BY <1>4 DEF Tables, NoConn
<1>7. \A f \in Fds : f \in shut <=> f \in Sockets(c) \/ f \in l.shut
  BY DEF shut
<1>8. Registered'
  <2>1. ASSUME NEW f \in Fds, NEW d \in Conns
        PROVE  /\ owner'[f] = <<"client", d>> <=> conn'[d].fd = f
               /\ owner'[f] = <<"rtsp", d>> <=> conn'[d].rtsp = f
    <3>1. CASE d = c
      <4>1. conn'[d].fd = None /\ conn'[d].rtsp = None
        BY <3>1, <1>6 DEF NoConn
      <4>2. conn'[d].fd # f /\ conn'[d].rtsp # f
        BY <4>1, NoneIsNobody
      <4>3. f \in shut => owner'[f] = None
        BY <1>5
      <4>4. f \notin shut => owner'[f] = owner[f] /\ f \notin Sockets(c)
        BY <1>5, <1>7
      <4>5. owner'[f] # <<"client", d>> /\ owner'[f] # <<"rtsp", d>>
        BY <3>1, <4>3, <4>4, <1>2, NoneIsNobody
      <4>q. QED BY <4>2, <4>5
    <3>2. CASE d # c
      <4>1. f \in shut => owner[f] # <<"client", d>> /\ owner[f] # <<"rtsp", d>>
        BY <3>2, <1>1, <1>2, <1>7
      <4>2. conn'[d] = conn[d]
        BY <3>2, <1>6
      <4>5. (owner[f] = <<"client", d>> <=> conn[d].fd = f) /\ (owner[f] = <<"rtsp", d>> <=> conn[d].rtsp = f)
        BY WhoseSocket
      <4>3. CASE f \in shut
        <5>1. owner'[f] = None
          BY <4>3, <1>5
        <5>q. QED BY <5>1, <4>1, <4>2, <4>3, <4>5, NoneIsNobody
      <4>4. CASE f \notin shut
        <5>1. owner'[f] = owner[f]
          BY <4>4, <1>5
        <5>q. QED BY <5>1, <4>2, <4>5
      <4>q. QED BY <4>3, <4>4
    <3>q. QED BY <3>1, <3>2
  <2>2. polled' = {f \in Fds : owner'[f] # None}
    BY <1>3, <1>4, <1>5 DEF Tables, Registered
  <2>q. QED BY <2>1, <2>2 DEF Registered
<1>9. Subscribed'
  <2>1. ASSUME NEW g \in Groups, NEW d \in Conns
        PROVE  d \in ToSet(subs'[g]) <=> conn'[d].group = g
    BY <1>1, <1>4, <1>6, NoneIsNobody DEF Tables, Subscribed, NoConn
  <2>q. QED BY <2>1, <1>1, <1>4 DEF Subscribed
<1>10. Mapped'
  <2>1. SUFFICES ASSUME NEW f \in Fds
                 PROVE  /\ owner'[f] = None => fdMap'[f] = None
                        /\ \A d \in Conns : owner'[f] \in {<<"client", d>>, <<"rtsp", d>>} => fdMap'[f] = d
                        /\ \A g \in Groups : owner'[f] = <<"source", g>> =>
                              fdMap'[f] # None /\ conn'[fdMap'[f]].group = g
    BY DEF Mapped
  <2>2. CASE f \in shut
    BY <2>2, <1>5, NoneIsNobody
  <2>3. CASE f \notin shut
    <3>1. owner'[f] = owner[f] /\ fdMap'[f] = l.fdMap[f] /\ f \notin l.shut /\ f \notin Sockets(c)
      BY <2>3, <1>5, <1>7
    <3>2. CASE l.fdMap[f] = fdMap[f] /\ (conn[c].group = None \/ owner[f] # <<"source", conn[c].group>>)
      <4>1. ASSUME NEW g \in Groups, owner[f] = <<"source", g>>
            PROVE  fdMap[f] # None /\ conn'[fdMap[f]].group = g
        <5>1. fdMap[f] # None /\ conn[fdMap[f]].group = g /\ fdMap[f] \in Conns
          BY <4>1 DEF Tables, Mapped
        <5>2. fdMap[f] # c
          BY <3>2, <4>1, <5>1, NoneIsNobody
        <5>q. QED BY <5>1, <5>2, <1>6
      <4>q. QED BY <3>1, <3>2, <4>1 DEF Tables, Mapped
    <3>3. CASE /\ owner[f] = <<"source", conn[c].group>> /\ conn[c].group \in Groups
               /\ l.fdMap[f] \in ToSet(l.subs[conn[c].group])
      <4>1. l.fdMap[f] \in ToSet(subs[conn[c].group]) /\ l.fdMap[f] # c
        BY <3>3, <1>1
      <4>2. l.fdMap[f] \in Conns
        BY <4>1, <1>1, <3>3, NoneIsNobody DEF Tables, Subscribed, ToSet
      <4>3. conn'[l.fdMap[f]].group = conn[c].group /\ l.fdMap[f] # None
        BY <4>1, <4>2, <1>6, <3>3, NoneIsNobody DEF Tables, Subscribed
      <4>q. QED BY <3>1, <3>3, <4>3, NoneIsNobody
    <3>q. QED BY <3>1, <3>2, <3>3, <1>1
  <2>q. QED BY <2>2, <2>3
<1>11. Cleared'
  <2>1. NoConn.st = "free" /\ c \notin gone'
    BY <1>4 DEF NoConn
  <2>2. \A d \in Conns : d # c => conn'[d] = conn[d] /\ (d \in gone' => d \in gone)
    BY <1>4, <1>6
  <2>3. conn'[c] = NoConn
    BY <1>6
  <2>q. QED BY <2>1, <2>2, <2>3 DEF Tables, Cleared
<1>q. QED BY <1>1, <1>3, <1>4, <1>5, <1>6, <1>8, <1>9, <1>10, <1>11 DEF Tables

\* The client's socket is closed while the TEARDOWN goes on.
LEMMA DeferredKeeps ==
    ASSUME Tables, NEW c \in Conns, conn[c].st = "streaming", Deferred(c)
    PROVE  Tables'
<1> DEFINE shut == {conn[c].fd}
<1>1. \A f \in Fds : f \in shut <=> owner[f] = <<"client", c>>
  BY DEF Tables, Registered
<1>2. /\ owner' = Closed(owner, shut) /\ fdMap' = Closed(fdMap, shut) /\ polled' = polled \ shut
      /\ conn' = [conn EXCEPT ![c].st = "teardown", ![c].fd = None]
      /\ gone' = gone \ {c} /\ subs' = subs
  BY DEF Deferred
<1> HIDE DEF shut
<1>3. /\ owner' \in [Fds -> Owners] /\ fdMap' \in [Fds -> Conns \union {None}]
      /\ \A f \in Fds : /\ owner'[f] = IF f \in shut THEN None ELSE owner[f]
                        /\ fdMap'[f] = IF f \in shut THEN None ELSE fdMap[f]
  BY <1>2 DEF Closed, Tables, Owners
<1>4. /\ conn' \in [Conns -> [st : {"free", "reading", "streaming", "closing", "teardown"},
                              fd : Fds \union {None}, rtsp : Fds \union {None},
                              group : Groups \union {None}]]
      /\ \A d \in Conns \ {c} : conn'[d] = conn[d]
      /\ conn'[c].st = "teardown" /\ conn'[c].fd = None
      /\ conn'[c].rtsp = conn[c].rtsp /\ conn'[c].group = conn[c].group
  BY <1>2 DEF Tables
<1>5. Registered'
  <2>1. ASSUME NEW f \in Fds, NEW d \in Conns
        PROVE  /\ owner'[f] = <<"client", d>> <=> conn'[d].fd = f
               /\ owner'[f] = <<"rtsp", d>> <=> conn'[d].rtsp = f
    <3>1. CASE f \in shut
      <4>1. owner[f] = <<"client", c>> /\ owner'[f] = None
        BY <3>1, <1>1, <1>3
      <4>2. conn'[d].fd # f
        BY <4>1, <1>4, NoneIsNobody DEF Tables, Registered
      <4>3. conn'[d].rtsp # f
        BY <4>1, <1>4 DEF Tables, Registered
      <4>q. QED BY <4>1, <4>2, <4>3, NoneIsNobody
    <3>2. CASE f \notin shut
      BY <3>2, <1>1, <1>3, <1>4, NoneIsNobody DEF Tables, Registered
    <3>q. QED BY <3>1, <3>2
  <2>2. polled' = {f \in Fds : owner'[f] # None}
    BY <1>2, <1>3 DEF Tables, Registered
  <2>q. QED BY <2>1, <2>2 DEF Registered
<1>6. Subscribed'
  BY <1>2, <1>4 DEF Tables, Subscribed
<1>7. Mapped'
  <2>1. \A d \in Conns : conn'[d].group = conn[d].group
    BY <1>4
  <2>2. SUFFICES ASSUME NEW f \in Fds
                 PROVE  /\ owner'[f] = None => fdMap'[f] = None
                        /\ \A d \in Conns : owner'[f] \in {<<"client", d>>, <<"rtsp", d>>} => fdMap'[f] = d
                        /\ \A g \in Groups : owner'[f] = <<"source", g>> =>
                              fdMap'[f] # None /\ conn'[fdMap'[f]].group = g
    BY DEF Mapped
  <2>3. CASE f \in shut
    <3>1. owner'[f] = None /\ fdMap'[f] = None
      BY <2>3, <1>3
    <3>q. QED BY <3>1, NoneIsNobody
  <2>4. CASE f \notin shut
    <3>1. owner'[f] = owner[f] /\ fdMap'[f] = fdMap[f]
      BY <2>4, <1>3
    <3>2. ASSUME NEW g \in Groups, owner[f] = <<"source", g>>
          PROVE  fdMap[f] # None /\ conn'[fdMap[f]].group = g
      <4>1. fdMap[f] # None /\ conn[fdMap[f]].group = g /\ fdMap[f] \in Conns
        BY <3>2 DEF Tables, Mapped
      <4>q. QED BY <4>1, <2>1
    <3>q. QED BY <3>1, <3>2 DEF Tables, Mapped
  <2>q. QED BY <2>3, <2>4
<1>8. Cleared'
  BY <1>2, <1>4 DEF Tables, Cleared
<1>q. QED BY <1>2, <1>3, <1>4, <1>5, <1>6, <1>7, <1>8 DEF Tables

\* A probe's answer closes the RTSP socket only.
LEMMA ProbeKeeps ==
    ASSUME Tables, NEW c \in Conns, conn[c].st = "streaming", ProbeAnswered(c)
    PROVE  Tables'
<1> DEFINE shut == {conn[c].rtsp}
<1>1. \A f \in Fds : f \in shut <=> owner[f] = <<"rtsp", c>>
  BY DEF Tables, Registered
<1>2. /\ owner' = Closed(owner, shut) /\ fdMap' = Closed(fdMap, shut) /\ polled' = polled \ shut
      /\ conn' = [conn EXCEPT ![c].st = "closing", ![c].rtsp = None]
      /\ gone' = gone /\ subs' = subs
  BY DEF ProbeAnswered
<1> HIDE DEF shut
<1>3. /\ owner' \in [Fds -> Owners] /\ fdMap' \in [Fds -> Conns \union {None}]
      /\ \A f \in Fds : /\ owner'[f] = IF f \in shut THEN None ELSE owner[f]
                        /\ fdMap'[f] = IF f \in shut THEN None ELSE fdMap[f]
  BY <1>2 DEF Closed, Tables, Owners
<1>4. /\ conn' \in [Conns -> [st : {"free", "reading", "streaming", "closing", "teardown"},
                              fd : Fds \union {None}, rtsp : Fds \union {None},
                              group : Groups \union {None}]]
      /\ \A d \in Conns \ {c} : conn'[d] = conn[d]
      /\ conn'[c].st = "closing" /\ conn'[c].rtsp = None
      /\ conn'[c].fd = conn[c].fd /\ conn'[c].group = conn[c].group
  BY <1>2 DEF Tables
<1>5. Registered'
  <2>1. ASSUME NEW f \in Fds, NEW d \in Conns
        PROVE  /\ owner'[f] = <<"client", d>> <=> conn'[d].fd = f
               /\ owner'[f] = <<"rtsp", d>> <=> conn'[d].rtsp = f
    <3>1. CASE f \in shut
      <4>1. owner[f] = <<"rtsp", c>> /\ owner'[f] = None
        BY <3>1, <1>1, <1>3
      <4>2. conn'[d].rtsp # f
        BY <4>1, <1>4, NoneIsNobody DEF Tables, Registered
      <4>3. conn'[d].fd # f
        BY <4>1, <1>4 DEF Tables, Registered
      <4>q. QED BY <4>1, <4>2, <4>3, NoneIsNobody
    <3>2. CASE f \notin shut
      BY <3>2, <1>1, <1>3, <1>4, NoneIsNobody DEF Tables, Registered
    <3>q. QED BY <3>1, <3>2
  <2>2. polled' = {f \in Fds : owner'[f] # None}
    BY <1>2, <1>3 DEF Tables, Registered
  <2>q. QED BY <2>1, <2>2 DEF Registered
<1>6. Subscribed'
  BY <1>2, <1>4 DEF Tables, Subscribed
<1>7. Mapped'
  <2>1. \A d \in Conns : conn'[d].group = conn[d].group
    BY <1>4
  <2>2. SUFFICES ASSUME NEW f \in Fds
                 PROVE  /\ owner'[f] = None => fdMap'[f] = None
                        /\ \A d \in Conns : owner'[f] \in {<<"client", d>>, <<"rtsp", d>>} => fdMap'[f] = d
                        /\ \A g \in Groups : owner'[f] = <<"source", g>> =>
                              fdMap'[f] # None /\ conn'[fdMap'[f]].group = g
    BY DEF Mapped
  <2>3. CASE f \in shut
    <3>1. owner'[f] = None /\ fdMap'[f] = None
      BY <2>3, <1>3
    <3>q. QED BY <3>1, NoneIsNobody
  <2>4. CASE f \notin shut
    <3>1. owner'[f] = owner[f] /\ fdMap'[f] = fdMap[f]
      BY <2>4, <1>3
    <3>2. ASSUME NEW g \in Groups, owner[f] = <<"source", g>>
          PROVE  fdMap[f] # None /\ conn'[fdMap[f]].group = g
      <4>1. fdMap[f] # None /\ conn[fdMap[f]].group = g /\ fdMap[f] \in Conns
        BY <3>2 DEF Tables, Mapped
      <4>q. QED BY <4>1, <2>1
    <3>q. QED BY <3>1, <3>2 DEF Tables, Mapped
  <2>q. QED BY <2>3, <2>4
<1>8. Cleared'
  BY <1>2, <1>4 DEF Tables, Cleared
<1>q. QED BY <1>2, <1>3, <1>4, <1>5, <1>6, <1>7, <1>8 DEF Tables

\* Closing a connection, at once or after its TEARDOWN, keeps the tables right.
LEMMA CloseKeeps ==
    ASSUME Tables, NEW c \in Conns, Close(c)
    PROVE  Tables'
BY FreedKeeps, DeferredKeeps DEF Close

-----------------------------------------------------------------------------
\* The sockets that a new one leaves as they are.
LEMMA OpenedKeeps ==
    ASSUME Tables, NEW n \in Fds, owner[n] = None, NEW c \in Conns, NEW who \in Owners, who # None,
           owner' = [owner EXCEPT ![n] = who], fdMap' = [fdMap EXCEPT ![n] = c],
           polled' = polled \union {n}
    PROVE  /\ owner' \in [Fds -> Owners] /\ fdMap' \in [Fds -> Conns \union {None}]
           /\ polled' \subseteq Fds /\ polled' = {f \in Fds : owner'[f] # None}
           /\ owner'[n] = who /\ fdMap'[n] = c
           /\ \A f \in Fds \ {n} : owner'[f] = owner[f] /\ fdMap'[f] = fdMap[f]
           /\ \A d \in Conns : conn[d].fd # n /\ conn[d].rtsp # n
<1>1. \A d \in Conns : conn[d].fd # n /\ conn[d].rtsp # n
  BY WhoseSocket, NoneIsNobody
<1>2. /\ owner' \in [Fds -> Owners] /\ fdMap' \in [Fds -> Conns \union {None}]
      /\ owner'[n] = who /\ fdMap'[n] = c
      /\ \A f \in Fds \ {n} : owner'[f] = owner[f] /\ fdMap'[f] = fdMap[f]
  BY DEF Tables
<1>3. polled' = {f \in Fds : owner'[f] # None}
  BY <1>2 DEF Tables, Registered
<1>q. QED BY <1>1, <1>2, <1>3

\* A new client's socket.
LEMMA AcceptKeeps ==
    ASSUME WorkerIInv, Accept
    PROVE  Tables'
<1> DEFINE n == Min(Free)
<1>1. n \in Fds /\ owner[n] = None
  BY LowestIsFree DEF Accept, WorkerIInv
<1>2. PICK c \in Conns :
         /\ ~Live(c)
         /\ owner' = [owner EXCEPT ![n] = <<"client", c>>]
         /\ fdMap' = [fdMap EXCEPT ![n] = c]
         /\ polled' = polled \union {n}
         /\ conn' = [conn EXCEPT ![c] = [NoConn EXCEPT !.st = "reading", !.fd = n]]
  BY DEF Accept
<1> HIDE DEF n
<1>3. Tables /\ subs' = subs /\ gone' = gone
  BY TablesOfInv DEF Accept
<1>4. conn[c] = NoConn
  BY <1>2, <1>3 DEF Live, Tables, Cleared
<1>5. <<"client", c>> \in Owners /\ <<"client", c>> # None
  BY NoneIsNobody DEF Owners
<1>6. /\ owner' \in [Fds -> Owners] /\ fdMap' \in [Fds -> Conns \union {None}]
      /\ polled' \subseteq Fds /\ polled' = {f \in Fds : owner'[f] # None}
      /\ owner'[n] = <<"client", c>> /\ fdMap'[n] = c
      /\ \A f \in Fds \ {n} : owner'[f] = owner[f] /\ fdMap'[f] = fdMap[f]
      /\ \A d \in Conns : conn[d].fd # n /\ conn[d].rtsp # n
  BY <1>1, <1>2, <1>3, <1>5, OpenedKeeps
<1>7. /\ conn' \in [Conns -> [st : {"free", "reading", "streaming", "closing", "teardown"},
                              fd : Fds \union {None}, rtsp : Fds \union {None},
                              group : Groups \union {None}]]
      /\ \A d \in Conns \ {c} : conn'[d] = conn[d]
      /\ conn'[c] = [st |-> "reading", fd |-> n, rtsp |-> None, group |-> None]
  BY <1>1, <1>2, <1>3 DEF Tables, NoConn
<1>8. conn[c].fd = None /\ conn[c].rtsp = None /\ conn[c].group = None
  BY <1>4 DEF NoConn
<1>9. Registered'
  <2>1. ASSUME NEW f \in Fds, NEW d \in Conns
        PROVE  /\ owner'[f] = <<"client", d>> <=> conn'[d].fd = f
               /\ owner'[f] = <<"rtsp", d>> <=> conn'[d].rtsp = f
    <3>1. (owner[f] = <<"client", d>> <=> conn[d].fd = f) /\ (owner[f] = <<"rtsp", d>> <=> conn[d].rtsp = f)
      BY <1>3, WhoseSocket
    <3>2. CASE f = n
      <4>1. d # c => conn'[d].fd # n /\ conn'[d].rtsp # n
        BY <1>6, <1>7
      <4>2. conn'[c].fd = n /\ conn'[c].rtsp # n
        BY <1>1, <1>7, NoneIsNobody
      <4>q. QED BY <3>2, <4>1, <4>2, <1>6
    <3>3. CASE f # n /\ d = c
      <4>1. conn'[c].fd # f /\ conn'[c].rtsp # f
        BY <3>3, <1>7, NoneIsNobody
      <4>2. owner'[f] = owner[f] /\ conn[d].fd # f /\ conn[d].rtsp # f
        BY <3>3, <1>6, <1>8, NoneIsNobody
      <4>q. QED BY <3>1, <3>3, <4>1, <4>2
    <3>4. CASE f # n /\ d # c
      BY <3>1, <3>4, <1>6, <1>7
    <3>q. QED BY <3>2, <3>3, <3>4
  <2>q. QED BY <2>1, <1>6 DEF Registered
<1>10. Subscribed'
  BY <1>3, <1>7, <1>8, NoneIsNobody DEF Tables, Subscribed
<1>11. Mapped'
  <2>1. SUFFICES ASSUME NEW f \in Fds
                 PROVE  /\ owner'[f] = None => fdMap'[f] = None
                        /\ \A d \in Conns : owner'[f] \in {<<"client", d>>, <<"rtsp", d>>} => fdMap'[f] = d
                        /\ \A g \in Groups : owner'[f] = <<"source", g>> =>
                              fdMap'[f] # None /\ conn'[fdMap'[f]].group = g
    BY DEF Mapped
  <2>2. CASE f = n
    BY <2>2, <1>6, NoneIsNobody
  <2>3. CASE f # n
    <3>1. owner'[f] = owner[f] /\ fdMap'[f] = fdMap[f]
      BY <2>3, <1>6
    <3>2. ASSUME NEW g \in Groups, owner[f] = <<"source", g>>
          PROVE  fdMap[f] # None /\ conn'[fdMap[f]].group = g
      <4>1. fdMap[f] # None /\ conn[fdMap[f]].group = g /\ fdMap[f] \in Conns
        BY <1>3, <3>2 DEF Tables, Mapped
      <4>2. fdMap[f] # c
        BY <4>1, <1>8, NoneIsNobody
      <4>q. QED BY <4>1, <4>2, <1>7
    <3>q. QED BY <3>1, <3>2, <1>3 DEF Tables, Mapped
  <2>q. QED BY <2>2, <2>3
<1>12. Cleared'
  <2>1. n # None
    BY <1>1, NoneIsNobody
  <2>q. QED BY <2>1, <1>3, <1>7 DEF Tables, Cleared
<1>q. QED BY <1>3, <1>6, <1>7, <1>9, <1>10, <1>11, <1>12 DEF Tables

\* An RTSP session's socket, for a connection that has none.
LEMMA PlayRtspKeeps ==
    ASSUME WorkerIInv, NEW c \in Conns, conn[c].st = "reading", PlayRtsp(c), UNCHANGED gone
    PROVE  Tables'
<1> DEFINE n == Min(Free)
<1>1. n \in Fds /\ owner[n] = None
  BY LowestIsFree DEF PlayRtsp, WorkerIInv
<1>2. /\ owner' = [owner EXCEPT ![n] = <<"rtsp", c>>]
      /\ fdMap' = [fdMap EXCEPT ![n] = c]
      /\ polled' = polled \union {n}
      /\ conn' = [conn EXCEPT ![c].st = "streaming", ![c].rtsp = n]
      /\ subs' = subs /\ gone' = gone
  BY DEF PlayRtsp
<1> HIDE DEF n
<1>3. Tables
  BY TablesOfInv
<1>4. conn[c].rtsp = None /\ conn[c].group = None
  BY <1>3 DEF Tables, Cleared
<1>5. <<"rtsp", c>> \in Owners /\ <<"rtsp", c>> # None
  BY NoneIsNobody DEF Owners
<1>6. /\ owner' \in [Fds -> Owners] /\ fdMap' \in [Fds -> Conns \union {None}]
      /\ polled' \subseteq Fds /\ polled' = {f \in Fds : owner'[f] # None}
      /\ owner'[n] = <<"rtsp", c>> /\ fdMap'[n] = c
      /\ \A f \in Fds \ {n} : owner'[f] = owner[f] /\ fdMap'[f] = fdMap[f]
      /\ \A d \in Conns : conn[d].fd # n /\ conn[d].rtsp # n
  BY <1>1, <1>2, <1>3, <1>5, OpenedKeeps
<1>7. /\ conn' \in [Conns -> [st : {"free", "reading", "streaming", "closing", "teardown"},
                              fd : Fds \union {None}, rtsp : Fds \union {None},
                              group : Groups \union {None}]]
      /\ \A d \in Conns \ {c} : conn'[d] = conn[d]
      /\ conn'[c].st = "streaming" /\ conn'[c].fd = conn[c].fd
      /\ conn'[c].rtsp = n /\ conn'[c].group = conn[c].group
  BY ZenonT(60), <1>1, <1>2, <1>3 DEF Tables
<1>9. Registered'
  <2>1. ASSUME NEW f \in Fds, NEW d \in Conns
        PROVE  /\ owner'[f] = <<"client", d>> <=> conn'[d].fd = f
               /\ owner'[f] = <<"rtsp", d>> <=> conn'[d].rtsp = f
    <3>1. (owner[f] = <<"client", d>> <=> conn[d].fd = f) /\ (owner[f] = <<"rtsp", d>> <=> conn[d].rtsp = f)
      BY <1>3, WhoseSocket
    <3>2. CASE f = n
      <4>1. d # c => conn'[d].fd # n /\ conn'[d].rtsp # n
        BY <1>6, <1>7
      <4>2. conn'[c].rtsp = n /\ conn'[c].fd # n
        BY <1>6, <1>7
      <4>q. QED BY <3>2, <4>1, <4>2, <1>6
    <3>3. CASE f # n /\ d = c
      <4>1. conn'[c].rtsp # f /\ conn[c].rtsp # f
        BY <3>3, <1>4, <1>7, NoneIsNobody
      <4>2. owner'[f] = owner[f] /\ conn'[c].fd = conn[c].fd
        BY <3>3, <1>6, <1>7
      <4>q. QED BY <3>1, <3>3, <4>1, <4>2
    <3>4. CASE f # n /\ d # c
      BY <3>1, <3>4, <1>6, <1>7
    <3>q. QED BY <3>2, <3>3, <3>4
  <2>q. QED BY <2>1, <1>6 DEF Registered
<1>8. \A d \in Conns : conn'[d].group = conn[d].group /\ conn'[d].fd = conn[d].fd
  BY <1>7
<1>10. Subscribed'
  BY <1>2, <1>3, <1>8 DEF Tables, Subscribed
<1>11. Mapped'
  <2>1. SUFFICES ASSUME NEW f \in Fds
                 PROVE  /\ owner'[f] = None => fdMap'[f] = None
                        /\ \A d \in Conns : owner'[f] \in {<<"client", d>>, <<"rtsp", d>>} => fdMap'[f] = d
                        /\ \A g \in Groups : owner'[f] = <<"source", g>> =>
                              fdMap'[f] # None /\ conn'[fdMap'[f]].group = g
    BY DEF Mapped
  <2>2. CASE f = n
    BY <2>2, <1>6, NoneIsNobody
  <2>3. CASE f # n
    <3>1. owner'[f] = owner[f] /\ fdMap'[f] = fdMap[f]
      BY <2>3, <1>6
    <3>2. ASSUME NEW g \in Groups, owner[f] = <<"source", g>>
          PROVE  fdMap[f] # None /\ conn'[fdMap[f]].group = g
      <4>1. fdMap[f] # None /\ conn[fdMap[f]].group = g /\ fdMap[f] \in Conns
        BY <1>3, <3>2 DEF Tables, Mapped
      <4>q. QED BY <4>1, <1>8
    <3>q. QED BY <3>1, <3>2, <1>3 DEF Tables, Mapped
  <2>q. QED BY <2>2, <2>3
<1>12. Cleared'
  BY <1>2, <1>3, <1>7, <1>8 DEF Tables, Cleared
<1>q. QED BY <1>2, <1>3, <1>6, <1>7, <1>9, <1>10, <1>11, <1>12 DEF Tables

\* A viewer joins a source, which is opened if it is the first one.
LEMMA WatchKeeps ==
    ASSUME WorkerIInv, NEW c \in Conns, NEW g \in Groups, conn[c].st = "reading", Watch(c, g),
           UNCHANGED gone
    PROVE  Tables'
<1>1. Tables
  BY TablesOfInv
<1>2. conn[c].rtsp = None /\ conn[c].group = None
  BY <1>1 DEF Tables, Cleared
<1>3. /\ conn' = [conn EXCEPT ![c].st = "streaming", ![c].group = g]
      /\ subs' = [subs EXCEPT ![g] = <<c>> \o subs[g]] /\ gone' = gone
  BY DEF Watch
<1>4. /\ conn' \in [Conns -> [st : {"free", "reading", "streaming", "closing", "teardown"},
                              fd : Fds \union {None}, rtsp : Fds \union {None},
                              group : Groups \union {None}]]
      /\ \A d \in Conns : conn'[d].fd = conn[d].fd /\ conn'[d].rtsp = conn[d].rtsp
      /\ \A d \in Conns \ {c} : conn'[d] = conn[d]
      /\ conn'[c].st = "streaming" /\ conn'[c].group = g
  BY <1>1, <1>3 DEF Tables
<1>5. subs[g] \in Seq(Conns) /\ IsInjective(subs[g]) /\ c \notin ToSet(subs[g])
  BY <1>1, <1>2, NoneIsNobody DEF Tables, Subscribed
<1>6. /\ <<c>> \o subs[g] \in Seq(Conns) /\ IsInjective(<<c>> \o subs[g])
      /\ ToSet(<<c>> \o subs[g]) = ToSet(subs[g]) \union {c}
  BY <1>5, PushedList
<1>7. /\ subs' \in [Groups -> Seq(Conns)] /\ subs'[g] = <<c>> \o subs[g]
      /\ \A h \in Groups \ {g} : subs'[h] = subs[h]
  BY <1>1, <1>3, <1>6 DEF Tables
<1>8. Subscribed'
  <2>1. ASSUME NEW h \in Groups
        PROVE  IsInjective(subs'[h]) /\ \A d \in Conns : d \in ToSet(subs'[h]) <=> conn'[d].group = h
    <3>1. CASE h = g
      <4>1. \A d \in Conns : d \in ToSet(subs[g]) <=> conn[d].group = g
        BY <1>1 DEF Tables, Subscribed
      <4>q. QED BY <3>1, <4>1, <1>4, <1>6, <1>7
    <3>2. CASE h # g
      <4>1. IsInjective(subs[h]) /\ \A d \in Conns : d \in ToSet(subs[h]) <=> conn[d].group = h
        BY <1>1 DEF Tables, Subscribed
      <4>2. conn[c].group # h /\ conn'[c].group # h
        BY <3>2, <1>2, <1>4, NoneIsNobody
      <4>3. subs'[h] = subs[h] /\ \A d \in Conns \ {c} : conn'[d].group = conn[d].group
        BY <3>2, <1>4, <1>7
      <4>q. QED BY <4>1, <4>2, <4>3
    <3>q. QED BY <3>1, <3>2
  <2>q. QED BY <2>1 DEF Subscribed
<1>9. Cleared'
  BY <1>1, <1>3, <1>4 DEF Tables, Cleared
<1>10. \A f \in Fds : \A h \in Groups : owner[f] = <<"source", h>> =>
           fdMap[f] \in Conns /\ fdMap[f] # None /\ conn'[fdMap[f]].group = h
  <2>1. ASSUME NEW f \in Fds, NEW h \in Groups, owner[f] = <<"source", h>>
        PROVE  fdMap[f] \in Conns /\ fdMap[f] # None /\ conn'[fdMap[f]].group = h
    <3>1. fdMap[f] # None /\ conn[fdMap[f]].group = h /\ fdMap[f] \in Conns
      BY <2>1, <1>1 DEF Tables, Mapped
    <3>2. fdMap[f] # c
      BY <3>1, <1>2, NoneIsNobody
    <3>q. QED BY <3>1, <3>2, <1>4
  <2>q. QED BY <2>1
<1>11. CASE subs[g] = <<>>
  <2> DEFINE n == Min(Free)
  <2>1. n \in Fds /\ owner[n] = None
    BY <1>11, LowestIsFree DEF Watch, WorkerIInv
  <2>2. /\ owner' = [owner EXCEPT ![n] = <<"source", g>>] /\ fdMap' = [fdMap EXCEPT ![n] = c]
        /\ polled' = polled \union {n}
    BY <1>11 DEF Watch
  <2> HIDE DEF n
  <2>3. <<"source", g>> \in Owners /\ <<"source", g>> # None
    BY NoneIsNobody DEF Owners
  <2>4. /\ owner' \in [Fds -> Owners] /\ fdMap' \in [Fds -> Conns \union {None}]
        /\ polled' \subseteq Fds /\ polled' = {f \in Fds : owner'[f] # None}
        /\ owner'[n] = <<"source", g>> /\ fdMap'[n] = c
        /\ \A f \in Fds \ {n} : owner'[f] = owner[f] /\ fdMap'[f] = fdMap[f]
        /\ \A d \in Conns : conn[d].fd # n /\ conn[d].rtsp # n
    BY <1>1, <2>1, <2>2, <2>3, OpenedKeeps
  <2>5. Registered'
    <3>1. ASSUME NEW f \in Fds, NEW d \in Conns
          PROVE  /\ owner'[f] = <<"client", d>> <=> conn'[d].fd = f
                 /\ owner'[f] = <<"rtsp", d>> <=> conn'[d].rtsp = f
      <4>1. /\ owner[f] = <<"client", d>> <=> conn[d].fd = f
            /\ owner[f] = <<"rtsp", d>> <=> conn[d].rtsp = f
        BY <1>1, WhoseSocket
      <4>2. CASE f = n
        BY <4>2, <2>4, <1>4
      <4>3. CASE f # n
        BY <4>1, <4>3, <2>4, <1>4
      <4>q. QED BY <4>2, <4>3
    <3>q. QED BY <3>1, <2>4 DEF Registered
  <2>6. Mapped'
    <3>1. SUFFICES ASSUME NEW f \in Fds
                   PROVE  /\ owner'[f] = None => fdMap'[f] = None
                          /\ \A d \in Conns : owner'[f] \in {<<"client", d>>, <<"rtsp", d>>} => fdMap'[f] = d
                          /\ \A h \in Groups : owner'[f] = <<"source", h>> =>
                                fdMap'[f] # None /\ conn'[fdMap'[f]].group = h
      BY DEF Mapped
    <3>2. CASE f = n
      BY <3>2, <2>4, <1>4, NoneIsNobody
    <3>3. CASE f # n
      <4>1. owner'[f] = owner[f] /\ fdMap'[f] = fdMap[f]
        BY <3>3, <2>4
      <4>q. QED BY <4>1, <1>1, <1>10 DEF Tables, Mapped
    <3>q. QED BY <3>2, <3>3
  <2>q. QED BY <1>3, <1>4, <1>7, <1>8, <1>9, <1>1, <2>4, <2>5, <2>6 DEF Tables
<1>12. CASE subs[g] # <<>>
  <2>1. /\ fdMap' = [f \in Fds |-> IF f \in SourceFds(g) THEN c ELSE fdMap[f]]
        /\ owner' = owner /\ polled' = polled
    BY <1>12 DEF Watch
  <2>2. \A f \in Fds : fdMap'[f] = IF owner[f] = <<"source", g>> THEN c ELSE fdMap[f]
    BY <2>1 DEF SourceFds
  <2>3. fdMap' \in [Fds -> Conns \union {None}]
    BY <1>1, <2>1 DEF Tables
  <2>4. Registered'
    BY <2>1, <1>1, <1>4 DEF Tables, Registered
  <2>5. Mapped'
    <3>1. SUFFICES ASSUME NEW f \in Fds
                   PROVE  /\ owner'[f] = None => fdMap'[f] = None
                          /\ \A d \in Conns : owner'[f] \in {<<"client", d>>, <<"rtsp", d>>} => fdMap'[f] = d
                          /\ \A h \in Groups : owner'[f] = <<"source", h>> =>
                                fdMap'[f] # None /\ conn'[fdMap'[f]].group = h
      BY DEF Mapped
    <3>2. CASE owner[f] = <<"source", g>>
      <4>1. owner'[f] = <<"source", g>> /\ fdMap'[f] = c
        BY <3>2, <2>1, <2>2
      <4>2. c # None /\ conn'[c].group = g /\ owner'[f] # None
        BY <4>1, <1>4, NoneIsNobody
      <4>3. \A d \in Conns : owner'[f] \notin {<<"client", d>>, <<"rtsp", d>>}
        BY <4>1
      <4>4. \A h \in Groups : owner'[f] = <<"source", h>> => h = g
        BY <4>1
      <4>q. QED BY <4>1, <4>2, <4>3, <4>4
    <3>3. CASE owner[f] # <<"source", g>>
      <4>1. owner'[f] = owner[f] /\ fdMap'[f] = fdMap[f]
        BY <3>3, <2>1, <2>2
      <4>2. /\ owner[f] = None => fdMap[f] = None
            /\ \A d \in Conns : owner[f] \in {<<"client", d>>, <<"rtsp", d>>} => fdMap[f] = d
        BY <1>1 DEF Tables, Mapped
      <4>q. QED BY <4>1, <4>2, <1>10
    <3>q. QED BY <3>2, <3>3
  <2>q. QED BY <1>3, <1>4, <1>7, <1>8, <1>9, <1>1, <2>1, <2>3, <2>4, <2>5 DEF Tables
<1>q. QED BY <1>11, <1>12

-----------------------------------------------------------------------------
\* What the poller returns is a list of events of descriptors.
LEMMA PollReturnsEvents ==
    ASSUME WorkerIInv, Poll
    PROVE  batch' \in Seq((Fds \union {Listener}) \X {"in", "hup"})
<1> DEFINE E == (Fds \union {Listener}) \X {"in", "hup"}
<1>1. PICK some \in SUBSET Ready : batch' \in SetToSeqs(some)
  BY DEF Poll
<1>2. Ready \subseteq E
  <2>1. \A c \in gone : conn[c].fd \in Fds
    BY DEF WorkerIInv, WorkerTypeOK, Cleared
  <2>2. polled \subseteq Fds
    BY DEF WorkerIInv, WorkerTypeOK
  <2>q. QED BY <2>1, <2>2 DEF Ready
<1>3. IsFiniteSet(E)
  <2>1. IsFiniteSet(Fds) /\ IsFiniteSet({Listener}) /\ IsFiniteSet({"in"}) /\ IsFiniteSet({"hup"})
    BY FS_Singleton, WorkerAssumption
  <2>2. IsFiniteSet(Fds \union {Listener}) /\ IsFiniteSet({"in"} \union {"hup"})
    BY <2>1, FS_Union
  <2>3. {"in"} \union {"hup"} = {"in", "hup"}
    OBVIOUS
  <2>4. IsFiniteSet({"in", "hup"})
    BY <2>2, <2>3
  <2>q. QED BY <2>2, <2>4, FS_Product
<1>4. some \subseteq E
  BY <1>2
<1> HIDE DEF E
<1>5. Cardinality(some) \in Nat
  BY <1>3, <1>4, FS_Subset, FS_CardinalityType
<1>6. batch' \in [1..Cardinality(some) -> some]
  BY <1>1 DEF SetToSeqs
<1>7. batch' \in [1..Cardinality(some) -> E]
  BY <1>4, <1>6
<1>8. batch' \in Seq(E)
  BY <1>5, <1>7, IsASeq
<1>q. QED BY <1>8 DEF E

\* A step of the handler, of any connection and descriptor.
LEMMA HandleKeeps ==
    ASSUME WorkerIInv, Handle
    PROVE  WorkerIInv'
<1>0. Tables
  BY TablesOfInv
<1>t. Tables' /\ batch' \in Seq((Fds \union {Listener}) \X {"in", "hup"})
      /\ backlog' \in 0..MaxClients /\ clients' \in 0..MaxClients /\ Counted' => WorkerIInv'
  BY DEF Tables, WorkerIInv, WorkerTypeOK
<1>s. UNCHANGED <<fds, conn, subs, gone>> => Tables'
  BY <1>0 DEF Tables, fds, Registered, Subscribed, Mapped, Cleared
<1>1. CASE Accept
  <2>1. batch' = batch /\ clients' = clients /\ backlog' = backlog - 1 /\ backlog > 0
    BY <1>1 DEF Accept
  <2>2. batch \in Seq((Fds \union {Listener}) \X {"in", "hup"}) /\ backlog \in 0..MaxClients
        /\ clients \in 0..MaxClients /\ backlog <= clients /\ MaxClients \in Nat
    BY WorkerAssumption DEF WorkerIInv, WorkerTypeOK, Counted
  <2>3. backlog' \in 0..MaxClients /\ backlog' <= clients'
    BY <2>1, <2>2
  <2>q. QED BY <1>1, <1>t, <2>1, <2>2, <2>3, AcceptKeeps DEF Counted
<1>2. CASE AcceptDone
  <2>1. batch # <<>> /\ Rest /\ UNCHANGED <<backlog, clients>> /\ UNCHANGED <<fds, conn, subs, gone>>
    BY <1>2 DEF AcceptDone, Event
  <2>q. QED BY <2>1, <1>s, <1>t, HandledKeeps
<1>3. ASSUME NEW f \in Fds, Unclaimed(f)
      PROVE  WorkerIInv'
  <2>1. batch # <<>> /\ Rest /\ UNCHANGED <<backlog, clients>> /\ UNCHANGED <<fds, conn, subs, gone>>
    BY <1>3 DEF Unclaimed, Event
  <2>q. QED BY <2>1, <1>s, <1>t, HandledKeeps
<1>4. ASSUME NEW c \in Conns, ClientGone(c)
      PROVE  WorkerIInv'
  <2>1. batch # <<>> /\ Rest /\ UNCHANGED <<backlog, clients>> /\ Close(c)
    BY <1>4 DEF ClientGone, Event
  <2>2. Tables'
    BY <1>0, <2>1, CloseKeeps
  <2>q. QED BY <2>1, <2>2, <1>t, HandledKeeps
<1>5. ASSUME NEW c \in Conns, ClientData(c)
      PROVE  WorkerIInv'
  <2>1. batch # <<>> /\ Rest /\ UNCHANGED <<backlog, clients>>
    BY <1>5 DEF ClientData, Event
  <2>2. CASE UNCHANGED <<fds, conn, subs, gone>>
    BY <2>1, <2>2, <1>s, <1>t, HandledKeeps
  <2>3. CASE Close(c)
    <3>1. Tables'
      BY <1>0, <2>3, CloseKeeps
    <3>q. QED BY <2>1, <3>1, <1>t, HandledKeeps
  <2>4. ASSUME conn[c].st = "reading", UNCHANGED gone, NEW g \in Groups, Watch(c, g)
        PROVE  WorkerIInv'
    <3>1. Tables'
      BY <2>4, WatchKeeps
    <3>q. QED BY <2>1, <3>1, <1>t, HandledKeeps
  <2>5. CASE conn[c].st = "reading" /\ UNCHANGED gone /\ PlayRtsp(c)
    <3>1. Tables'
      BY <2>5, PlayRtspKeeps
    <3>q. QED BY <2>1, <3>1, <1>t, HandledKeeps
  <2>6. CASE conn[c].st = "reading" /\ conn' = [conn EXCEPT ![c].st = "closing"]
             /\ UNCHANGED <<fds, subs, gone>>
    <3>1. /\ conn' \in [Conns -> [st : {"free", "reading", "streaming", "closing", "teardown"},
                                  fd : Fds \union {None}, rtsp : Fds \union {None},
                                  group : Groups \union {None}]]
          /\ \A d \in Conns : /\ conn'[d].fd = conn[d].fd /\ conn'[d].rtsp = conn[d].rtsp
                              /\ conn'[d].group = conn[d].group
          /\ conn'[c].st = "closing" /\ \A d \in Conns \ {c} : conn'[d] = conn[d]
      BY <1>0, <2>6 DEF Tables
    <3>2. /\ owner' = owner /\ fdMap' = fdMap /\ polled' = polled /\ subs' = subs /\ gone' = gone
      BY <2>6 DEF fds
    <3>3. Registered' /\ Subscribed'
      BY <1>0, <3>1, <3>2 DEF Tables, Registered, Subscribed
    <3>4. Cleared'
      BY <1>0, <3>1, <3>2 DEF Tables, Cleared
    <3>5. Mapped'
      <4>1. SUFFICES ASSUME NEW f \in Fds
                     PROVE  /\ owner[f] = None => fdMap[f] = None
                            /\ \A d \in Conns : owner[f] \in {<<"client", d>>, <<"rtsp", d>>} => fdMap[f] = d
                            /\ \A g \in Groups : owner[f] = <<"source", g>> =>
                                  fdMap[f] # None /\ conn'[fdMap[f]].group = g
        BY <3>2 DEF Mapped
      <4>2. ASSUME NEW g \in Groups, owner[f] = <<"source", g>>
            PROVE  fdMap[f] # None /\ conn'[fdMap[f]].group = g
        <5>1. fdMap[f] # None /\ conn[fdMap[f]].group = g /\ fdMap[f] \in Conns
          BY <1>0, <4>2 DEF Tables, Mapped
        <5>q. QED BY <5>1, <3>1
      <4>q. QED BY <1>0, <4>2 DEF Tables, Mapped
    <3>6. Tables'
      BY <1>0, <3>1, <3>2, <3>3, <3>4, <3>5 DEF Tables
    <3>q. QED BY <2>1, <3>6, <1>t, HandledKeeps
  <2>q. QED BY <1>5, <2>2, <2>3, <2>4, <2>5, <2>6 DEF ClientData
<1>6. ASSUME NEW c \in Conns, NEW f \in Fds, Upstream(c, f)
      PROVE  WorkerIInv'
  <2>1. batch # <<>> /\ Rest /\ UNCHANGED <<backlog, clients>>
        /\ \/ UNCHANGED <<fds, conn, subs, gone>> \/ Close(c)
           \/ conn[c].st = "streaming" /\ ProbeAnswered(c)
    BY <1>6 DEF Upstream, Event
  <2>2. Tables'
    BY <1>0, <1>s, <2>1, CloseKeeps, ProbeKeeps
  <2>q. QED BY <2>1, <2>2, <1>t, HandledKeeps
<1>q. QED BY <1>1, <1>2, <1>3, <1>4, <1>5, <1>6 DEF Handle

-----------------------------------------------------------------------------
\* The invariant holds of a worker that has just started.
LEMMA InitIsRight ==
    WorkerInit => WorkerIInv
<1> SUFFICES ASSUME WorkerInit PROVE WorkerIInv
  OBVIOUS
<1>1. WorkerTypeOK
  <2>1. <<>> \in Seq(Conns) /\ <<>> \in Seq((Fds \union {Listener}) \X {"in", "hup"})
    OBVIOUS
  <2>2. 0 \in 0..MaxClients
    BY WorkerAssumption
  <2>q. QED BY <2>1, <2>2 DEF WorkerInit, WorkerTypeOK, Owners, NoConn
<1>2. \A c \in Conns : conn[c] = NoConn /\ conn[c].fd = None /\ conn[c].rtsp = None
                       /\ conn[c].group = None /\ conn[c].st = "free"
  BY DEF WorkerInit, NoConn
<1>3. \A f \in Fds : owner[f] = None /\ fdMap[f] = None
  BY DEF WorkerInit
<1>4. Registered
  BY <1>2, <1>3, NoneIsNobody DEF WorkerInit, Registered
<1>5. Subscribed
  <2>1. IsInjective(<<>>) /\ ToSet(<<>>) = {}
    BY DEF IsInjective, ToSet
  <2>q. QED BY <2>1, <1>2, NoneIsNobody DEF WorkerInit, Subscribed
<1>6. Mapped
  BY <1>3, NoneIsNobody DEF Mapped
<1>7. Cleared
  BY <1>2 DEF WorkerInit, Cleared
<1>q. QED BY <1>1, <1>4, <1>5, <1>6, <1>7 DEF WorkerIInv, WorkerInit, Counted

\* No step breaks it.
LEMMA NextKeeps ==
    WorkerIInv /\ [WorkerNext]_workerVars => WorkerIInv'
<1> SUFFICES ASSUME WorkerIInv, [WorkerNext]_workerVars PROVE WorkerIInv'
  OBVIOUS
<1>0. Tables
  BY TablesOfInv
<1>t. Tables' /\ batch' \in Seq((Fds \union {Listener}) \X {"in", "hup"})
      /\ backlog' \in 0..MaxClients /\ clients' \in 0..MaxClients /\ Counted' => WorkerIInv'
  BY DEF Tables, WorkerIInv, WorkerTypeOK
<1>u. /\ batch \in Seq((Fds \union {Listener}) \X {"in", "hup"})
      /\ backlog \in 0..MaxClients /\ clients \in 0..MaxClients /\ backlog <= clients
      /\ MaxClients \in Nat
  BY WorkerAssumption DEF WorkerIInv, WorkerTypeOK, Counted
<1>s. UNCHANGED <<fds, conn, subs, gone>> => Tables'
  BY <1>0 DEF Tables, fds, Registered, Subscribed, Mapped, Cleared
<1>1. CASE Connect
  <2>1. /\ clients < MaxClients /\ clients' = clients + 1 /\ backlog' = backlog + 1
        /\ batch' = batch /\ UNCHANGED <<fds, conn, subs, gone>>
    BY <1>1 DEF Connect
  <2>2. backlog' \in 0..MaxClients /\ clients' \in 0..MaxClients /\ backlog' <= clients'
    BY <2>1, <1>u
  <2>q. QED BY <2>1, <2>2, <1>s, <1>t, <1>u DEF Counted
<1>2. CASE Poll
  <2>1. UNCHANGED <<fds, conn, subs, backlog, clients, gone>>
    BY <1>2 DEF Poll
  <2>q. QED BY <1>2, <2>1, <1>s, <1>t, <1>u, PollReturnsEvents DEF Counted
<1>3. CASE Handle
  BY <1>3, HandleKeeps
<1>4. ASSUME NEW c \in Conns, HangUp(c)
      PROVE  WorkerIInv'
  <2>1. /\ conn[c].fd # None /\ gone' = gone \union {c}
        /\ owner' = owner /\ fdMap' = fdMap /\ polled' = polled /\ conn' = conn /\ subs' = subs
        /\ UNCHANGED <<backlog, clients, batch>>
    BY <1>4 DEF HangUp, fds
  <2>2. Registered' /\ Subscribed' /\ Mapped'
    BY <1>0, <2>1 DEF Tables, Registered, Subscribed, Mapped
  <2>3. Cleared'
    BY <1>0, <2>1 DEF Tables, Cleared
  <2>4. Tables'
    BY <1>0, <2>1, <2>2, <2>3 DEF Tables
  <2>q. QED BY <2>1, <2>4, <1>t, <1>u DEF Counted
<1>5. ASSUME NEW c \in Conns, Tick(c)
      PROVE  WorkerIInv'
  <2>1. Close(c) /\ UNCHANGED <<backlog, clients, batch>>
    BY <1>5 DEF Tick
  <2>2. Tables'
    BY <1>0, <2>1, CloseKeeps
  <2>q. QED BY <2>1, <2>2, <1>t, <1>u DEF Counted
<1>6. CASE UNCHANGED workerVars
  <2>1. UNCHANGED <<fds, conn, subs, gone>> /\ UNCHANGED <<backlog, clients, batch>>
    BY <1>6 DEF workerVars
  <2>q. QED BY <2>1, <1>s, <1>t, <1>u DEF Counted
<1>q. QED BY <1>1, <1>2, <1>3, <1>4, <1>5, <1>6 DEF WorkerNext

\* The invariant gives the two properties.
LEMMA InvLeads ==
    WorkerIInv => MapLeadsToOwner
<1> SUFFICES ASSUME WorkerIInv, NEW f \in Fds, fdMap[f] # None
             PROVE  /\ Live(fdMap[f])
                    /\ owner[f] \in {<<"client", fdMap[f]>>, <<"rtsp", fdMap[f]>>,
                                     <<"source", conn[fdMap[f]].group>>}
  BY DEF MapLeadsToOwner, WorkerIInv
<1>0. Tables
  BY TablesOfInv
<1>1. fdMap[f] \in Conns /\ owner[f] # None /\ owner[f] \in Owners
  BY <1>0 DEF Tables, Mapped
<1>2. conn[fdMap[f]].st = "free" => /\ conn[fdMap[f]].fd = None /\ conn[fdMap[f]].rtsp = None
                                    /\ conn[fdMap[f]].group = None
  BY <1>0, <1>1 DEF Tables, Cleared, NoConn
<1>3. ASSUME NEW c \in Conns, owner[f] \in {<<"client", c>>, <<"rtsp", c>>}
      PROVE  fdMap[f] = c /\ (conn[c].fd = f \/ conn[c].rtsp = f)
  BY <1>0, <1>3, WhoseSocket DEF Tables, Mapped
<1>4. ASSUME NEW g \in Groups, owner[f] = <<"source", g>>
      PROVE  conn[fdMap[f]].group = g
  BY <1>0, <1>4 DEF Tables, Mapped
<1>5. \/ \E c \in Conns : owner[f] \in {<<"client", c>>, <<"rtsp", c>>}
      \/ \E g \in Groups : owner[f] = <<"source", g>>
  BY <1>1 DEF Owners
<1>6. CASE \E c \in Conns : owner[f] \in {<<"client", c>>, <<"rtsp", c>>}
  BY <1>6, <1>2, <1>3, NoneIsNobody DEF Live
<1>7. CASE \E g \in Groups : owner[f] = <<"source", g>>
  BY <1>7, <1>2, <1>4, NoneIsNobody DEF Live
<1>q. QED BY <1>5, <1>6, <1>7

\* No open descriptor is without its connection.
LEMMA InvKeepsAll ==
    WorkerIInv => NothingLeaks
<1> SUFFICES ASSUME WorkerIInv, NEW f \in Fds, owner[f] # None
             PROVE  /\ f \in polled /\ fdMap[f] # None
                    /\ \E c \in Conns : \/ owner[f] = <<"client", c>> /\ conn[c].fd = f
                                        \/ owner[f] = <<"rtsp", c>> /\ conn[c].rtsp = f
                                        \/ owner[f] = <<"source", conn[c].group>>
  BY DEF NothingLeaks
<1>0. Tables
  BY TablesOfInv
<1>1. owner[f] \in Owners /\ fdMap[f] \in Conns \union {None} /\ f \in polled
  BY <1>0 DEF Tables, Registered
<1>2. \/ \E c \in Conns : owner[f] = <<"client", c>> \/ owner[f] = <<"rtsp", c>>
      \/ \E g \in Groups : owner[f] = <<"source", g>>
  BY <1>1 DEF Owners
<1>3. ASSUME NEW c \in Conns, owner[f] = <<"client", c>> \/ owner[f] = <<"rtsp", c>>
      PROVE  fdMap[f] = c /\ (owner[f] = <<"client", c>> => conn[c].fd = f)
             /\ (owner[f] = <<"rtsp", c>> => conn[c].rtsp = f)
  BY <1>0, <1>3, WhoseSocket DEF Tables, Mapped
<1>4. ASSUME NEW g \in Groups, owner[f] = <<"source", g>>
      PROVE  fdMap[f] # None /\ conn[fdMap[f]].group = g
  BY <1>0, <1>4 DEF Tables, Mapped
<1>5. CASE \E c \in Conns : owner[f] = <<"client", c>> \/ owner[f] = <<"rtsp", c>>
  BY <1>1, <1>3, <1>5, NoneIsNobody
<1>6. CASE \E g \in Groups : owner[f] = <<"source", g>>
  <2>1. PICK g \in Groups : owner[f] = <<"source", g>>
    BY <1>6
  <2>2. fdMap[f] # None /\ conn[fdMap[f]].group = g /\ fdMap[f] \in Conns
    BY <1>1, <1>4, <2>1
  <2>q. QED BY <1>1, <2>1, <2>2
<1>q. QED BY <1>2, <1>5, <1>6

-----------------------------------------------------------------------------
\* At every moment of a worker's life.
LEMMA AlwaysRight ==
    WorkerSpec => []WorkerIInv
BY InitIsRight, NextKeeps, PTL DEF WorkerSpec

\* An event is handled by the connection whose socket or source it is of, and
\* never by one that has been freed (worker.c: fd_map lookups).
THEOREM EventsReachTheirConnection ==
    WorkerSpec => []MapLeadsToOwner
BY AlwaysRight, InvLeads, PTL

\* Every open descriptor is polled, found in the fd map and owned by a
\* connection whose end closes it (worker_close_and_free_connection()).
THEOREM NoDescriptorLeaks ==
    WorkerSpec => []NothingLeaks
BY AlwaysRight, InvKeepsAll, PTL
=============================================================================
