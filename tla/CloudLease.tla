----------------------------- MODULE CloudLease -----------------------------
(***************************************************************************)
(* scripts/cloud_lease: launchers that rent a billed GPU instance and must *)
(* give it back, and the reaper `cloud-status --reap` that destroys what   *)
(* they leave behind.                                                      *)
(*                                                                         *)
(* A launcher (lease.py Lease.run) provisions, writes a local record,      *)
(* boots, stages, runs and tears down; a signal, an exception or SIGKILL   *)
(* can strike between any two of its steps.  The reaper (status.py) reads  *)
(* the records, lists the provider, judges and destroys in separate steps, *)
(* so what it acts on may be stale.                                        *)
(***************************************************************************)
EXTENDS Naturals, FiniteSets

CONSTANTS
  Launchers,      \* processes running `cloud-lease lease` with the same --name
  Reapers,        \* processes running `cloud-status`
  Instances,      \* provider instance ids, never reused by the provider
  Hosts,          \* machines (or pid namespaces) with a STATE_DIR of their own
  Pids,           \* process ids
  None,           \* Python's None
  HostOf,         \* host of each launcher and reaper
  PidOf,          \* pid of each launcher
  Checkpointing,  \* a.checkpoint_dir and a.remote_out are both given
  MaxAttempts,    \* _destroy_with_retry(attempts=4)
  MaxSignals,     \* bound: catchable signals delivered to one launcher
  Faults          \* what the provider may do wrong, see FaultKinds

\* list_silent: GET fails, http.request returns (0 | 5xx, {..}) and list_live []
\* list_raise:  GET or the decoding of its answer raises out of list_live
\* late_create: a POST its client gave up on still creates an instance
\* preempt:     the provider takes an instance away (--spot)
\* wedge:       the remote answers no more, and an rsync has no timeout
FaultKinds == {"list_silent", "list_raise", "late_create", "preempt", "wedge"}

ASSUME ConstantsAssumption ==
  /\ HostOf \in [Launchers \cup Reapers -> Hosts]
  /\ PidOf \in [Launchers -> Pids]
  /\ None \notin Instances /\ None \notin Pids /\ None \notin Launchers
  /\ Checkpointing \in BOOLEAN
  /\ MaxAttempts \in Nat \ {0} /\ MaxSignals \in Nat
  /\ Faults \subseteq FaultKinds

VARIABLES
  inst,      \* provider: "unborn", "live" (billing) or "gone"
  owner,     \* the launcher whose POST created the instance (fixes its label)
  record,    \* STATE_DIR/<provider>-<id>.json of each host: the pid in it
  pc,        \* where Lease.run() is
  id,        \* self.instance_id
  posted,    \* the POST has left the launcher and is not answered yet
  ready,     \* self.instance is set (wait_ready returned)
  sync,      \* the _sync_loop thread: "off", "wait" or "pull"
  todo,      \* instances the teardown still has to destroy
  victim,    \* the one _destroy_with_retry is working on
  tries,     \* failed attempts on it
  warned,    \* a WARN that the instance may still be billing was printed
  signals,   \* catchable signals delivered so far
  rpc,       \* where the reaper is
  snap,      \* its records, read at the start of reconcile()
  seen,      \* what list_live() answered
  targets    \* reapable rows (STRAY, ORPHAN) not tried yet

provider == <<inst, owner>>
launcher == <<pc, id, posted, ready, sync, todo, victim, tries, warned, signals>>
reaper   == <<rpc, snap, seen, targets>>
vars     == <<provider, record, launcher, reaper>>

Body   == {"provision", "posted", "record", "boot", "stage", "run"}
Masked == {"sweep", "final_sync", "wedged", "destroy", "unrecord"}
Ended  == {"exited", "escaped", "killed"}
Alive  == Body \cup Masked \cup {"except", "finally"}
PCs    == {"idle"} \cup Alive \cup Ended

\* self.label: the --name is the same for all launchers, the pid is not.
LabelOf(p) == PidOf[p]
\* Bug: the pid suffix is not compared.
LabelledBug(i, label) == owner[i] # None
Labelled(i, label) == owner[i] # None /\ LabelOf(owner[i]) = label

\* os.kill(pid, 0) on host h
PidAlive(h, n) ==
  \E p \in Launchers : HostOf[p] = h /\ PidOf[p] = n /\ pc[p] \in Alive

LiveSet == {i \in Instances : inst[i] = "live"}
NoRecords == [i \in Instances |-> None]

Init ==
  /\ inst = [i \in Instances |-> "unborn"]
  /\ owner = [i \in Instances |-> None]
  /\ record = [h \in Hosts |-> NoRecords]
  /\ pc = [p \in Launchers |-> "idle"]
  /\ id = [p \in Launchers |-> None]
  /\ posted = [p \in Launchers |-> FALSE]
  /\ ready = [p \in Launchers |-> FALSE]
  /\ sync = [p \in Launchers |-> "off"]
  /\ todo = [p \in Launchers |-> {}]
  /\ victim = [p \in Launchers |-> None]
  /\ tries = [p \in Launchers |-> 0]
  /\ warned = [p \in Launchers |-> FALSE]
  /\ signals = [p \in Launchers |-> 0]
  /\ rpc = [r \in Reapers |-> "idle"]
  /\ snap = [r \in Reapers |-> NoRecords]
  /\ seen = [r \in Reapers |-> {}]
  /\ targets = [r \in Reapers |-> {}]

-----------------------------------------------------------------------------
(* The provider *)

Goto(p, l) == pc' = [pc EXCEPT ![p] = l]

\* The process is over: its daemon thread dies with it.
End(p, how) == Goto(p, how) /\ sync' = [sync EXCEPT ![p] = "off"]

Terminate(i) == inst' = [inst EXCEPT ![i] = "gone"]

\* The POST of p takes effect, normally while p waits for the answer.
ProviderCreates(p) ==
  /\ posted[p]
  /\ pc[p] = "posted" \/ "late_create" \in Faults
  /\ \E i \in Instances :
       /\ inst[i] = "unborn"
       /\ inst' = [inst EXCEPT ![i] = "live"]
       /\ owner' = [owner EXCEPT ![i] = p]
  /\ posted' = [posted EXCEPT ![p] = FALSE]
  /\ UNCHANGED <<record, pc, id, ready, sync, todo, victim, tries, warned,
                 signals, reaper>>

\* The request is refused or never arrives.
ProviderDrops(p) ==
  /\ posted[p]
  /\ posted' = [posted EXCEPT ![p] = FALSE]
  /\ UNCHANGED <<provider, record, pc, id, ready, sync, todo, victim, tries,
                 warned, signals, reaper>>

\* A spot instance is taken away.
Preempt(i) ==
  /\ "preempt" \in Faults /\ inst[i] = "live"
  /\ Terminate(i)
  /\ UNCHANGED <<owner, record, launcher, reaper>>

-----------------------------------------------------------------------------
(* The launcher: Lease.run() *)

\* A process starts; its pid is free on its host.  The try block is entered
\* and the label set before anything can be billed.
Start(p) ==
  /\ pc[p] = "idle"
  /\ ~PidAlive(HostOf[p], PidOf[p])
  /\ Goto(p, "provision")
  /\ UNCHANGED <<provider, record, id, posted, ready, sync, todo, victim,
                 tries, warned, signals, reaper>>

\* backend.provision: the POST goes out.
Post(p) ==
  /\ pc[p] = "provision"
  /\ Goto(p, "posted")
  /\ posted' = [posted EXCEPT ![p] = TRUE]
  /\ UNCHANGED <<provider, record, id, ready, sync, todo, victim, tries,
                 warned, signals, reaper>>

\* provision() returns and self.instance_id is assigned.
GotId(p) ==
  /\ pc[p] = "posted" /\ ~posted[p]
  /\ \E i \in Instances : owner[i] = p /\ id' = [id EXCEPT ![p] = i]
  /\ Goto(p, "record")
  /\ UNCHANGED <<provider, record, posted, ready, sync, todo, victim, tries,
                 warned, signals, reaper>>

\* state.write: one atomic os.replace.
WriteRecord(p) ==
  /\ pc[p] = "record"
  /\ record' = [record EXCEPT ![HostOf[p]][id[p]] = PidOf[p]]
  /\ Goto(p, "boot")
  /\ UNCHANGED <<provider, id, posted, ready, sync, todo, victim, tries,
                 warned, signals, reaper>>

\* wait_ready answers with the instance's coordinates.
WaitReady(p) ==
  /\ pc[p] = "boot" /\ inst[id[p]] = "live"
  /\ ready' = [ready EXCEPT ![p] = TRUE]
  /\ Goto(p, "stage")
  /\ UNCHANGED <<provider, record, id, posted, sync, todo, victim, tries,
                 warned, signals, reaper>>

\* wait_ssh, rsync, uploads; then the checkpoint thread starts.
Stage(p) ==
  /\ pc[p] = "stage" /\ inst[id[p]] = "live"
  /\ sync' = [sync EXCEPT ![p] = IF Checkpointing THEN "wait" ELSE "off"]
  /\ Goto(p, "run")
  /\ UNCHANGED <<provider, record, id, posted, ready, todo, victim, tries,
                 warned, signals, reaper>>

\* run_detached returned for the last time: _stop.set(), return rc.
Finish(p) ==
  /\ pc[p] = "run"
  /\ Goto(p, "finally")
  /\ UNCHANGED <<provider, record, id, posted, ready, sync, todo, victim,
                 tries, warned, signals, reaper>>

\* Any step of the body raises: HttpError, TimeoutError, CalledProcessError...
Fail(p) ==
  /\ pc[p] \in Body
  /\ Goto(p, "finally")
  /\ UNCHANGED <<provider, record, id, posted, ready, sync, todo, victim,
                 tries, warned, signals, reaper>>

\* except KeyboardInterrupt: _stop.set(); return 130.
HandleInterrupt(p) ==
  /\ pc[p] = "except"
  /\ Goto(p, "finally")
  /\ UNCHANGED <<provider, record, id, posted, ready, sync, todo, victim,
                 tries, warned, signals, reaper>>

\* The _sync_loop thread: waits, pulls, and ends once _stop is set.  _stop is
\* set on every way out of "run".
SyncThread(p) ==
  /\ \/ /\ sync[p] = "wait" /\ pc[p] = "run"
        /\ sync' = [sync EXCEPT ![p] = "pull"]
     \/ /\ sync[p] = "pull"
        /\ sync' = [sync EXCEPT ![p] = "wait"]
     \/ /\ sync[p] = "wait" /\ pc[p] # "run"
        /\ sync' = [sync EXCEPT ![p] = "off"]
  /\ UNCHANGED <<provider, record, pc, id, posted, ready, todo, victim, tries,
                 warned, signals, reaper>>

-----------------------------------------------------------------------------
(* Teardown: signals are blocked from EnterTeardown on *)

\* _teardown(): _tore_down and the signal mask, then the branch on the id.
EnterTeardown(p) ==
  /\ pc[p] = "finally"
  /\ \/ id[p] = None /\ Goto(p, "sweep") /\ UNCHANGED <<todo, victim>>
     \/ /\ id[p] # None
        /\ Goto(p, IF ready[p] /\ Checkpointing THEN "final_sync" ELSE "destroy")
        /\ todo' = [todo EXCEPT ![p] = {id[p]}]
        /\ victim' = [victim EXCEPT ![p] = id[p]]
  /\ UNCHANGED <<provider, record, id, posted, ready, sync, tries, warned,
                 signals, reaper>>

\* rsync_down(check=False); its failure is swallowed.
FinalSync(p) ==
  /\ pc[p] = "final_sync"
  /\ Goto(p, "destroy")
  /\ UNCHANGED <<provider, record, id, posted, ready, sync, todo, victim,
                 tries, warned, signals, reaper>>

\* It does not return.  (A wedged body step holds up nothing but itself.)
SyncHangs(p) ==
  /\ pc[p] = "final_sync" /\ "wedge" \in Faults
  /\ Goto(p, "wedged")
  /\ UNCHANGED <<provider, record, id, posted, ready, sync, todo, victim,
                 tries, warned, signals, reaper>>

AttemptsLeft(p) == tries[p] + 1 < MaxAttempts
\* Bug: a victim that was dealt with stays in the list.
OtherVictimsBug(p) == todo[p]
OtherVictims(p) == todo[p] \ {victim[p]}

\* Go on with the next instance of the sweep, or leave the process.
NextVictim(p, left) ==
  /\ todo' = [todo EXCEPT ![p] = left]
  /\ tries' = [tries EXCEPT ![p] = 0]
  /\ \/ /\ left = {}
        /\ victim' = [victim EXCEPT ![p] = None]
        /\ End(p, "exited")
     \/ /\ \E i \in left : victim' = [victim EXCEPT ![p] = i]
        /\ Goto(p, "destroy")
        /\ UNCHANGED sync

\* Bug: the sweep trusts the local records, not the labels at the provider.
SweptByBug(p) == {i \in LiveSet : record[HostOf[p]][i] = PidOf[p]}
SweptBy(p) == {i \in LiveSet : Labelled(i, LabelOf(p))}

\* _sweep_orphans_by_label with an answer from list_live.
Sweep(p) ==
  /\ pc[p] = "sweep"
  /\ \/ NextVictim(p, SweptBy(p))
     \/ "list_silent" \in Faults /\ NextVictim(p, {})
  /\ UNCHANGED <<provider, record, id, posted, ready, warned, signals, reaper>>

\* list_live raised: WARN and return.
SweepFails(p) ==
  /\ pc[p] = "sweep" /\ "list_raise" \in Faults
  /\ warned' = [warned EXCEPT ![p] = TRUE]
  /\ End(p, "exited")
  /\ UNCHANGED <<provider, record, id, posted, ready, todo, victim, tries,
                 signals, reaper>>

\* backend.destroy returned (a 404 counts: destroy is idempotent).
DestroyOk(p) ==
  /\ pc[p] = "destroy"
  /\ Terminate(victim[p])
  /\ Goto(p, "unrecord")
  /\ UNCHANGED <<owner, record, id, posted, ready, sync, todo, victim, tries,
                 warned, signals, reaper>>

\* backend.destroy raised: the DELETE had no effect, or its answer was lost.
DestroyFails(p) ==
  /\ pc[p] = "destroy"
  /\ UNCHANGED inst \/ Terminate(victim[p])
  /\ \/ /\ AttemptsLeft(p)
        /\ tries' = [tries EXCEPT ![p] = @ + 1]
        /\ UNCHANGED <<pc, sync, todo, victim, warned>>
     \/ /\ ~AttemptsLeft(p)
        /\ warned' = [warned EXCEPT ![p] = TRUE]
        /\ NextVictim(p, OtherVictims(p))
  /\ UNCHANGED <<owner, record, id, posted, ready, signals, reaper>>

\* state.remove
Unrecord(p) ==
  /\ pc[p] = "unrecord"
  /\ record' = [record EXCEPT ![HostOf[p]][victim[p]] = None]
  /\ NextVictim(p, OtherVictims(p))
  /\ UNCHANGED <<provider, id, posted, ready, warned, signals, reaper>>

-----------------------------------------------------------------------------
(* Interruptions of a launcher *)

\* pthread_sigmask blocks the signals of the main thread only: with _sync_loop
\* still there the kernel delivers to it, and CPython runs the handler in the
\* main thread all the same.
Deliverable(p) == pc[p] \in Alive \ Masked \/ sync[p] # "off"

\* _on_signal raises KeyboardInterrupt in the main thread.
Signal(p) ==
  /\ signals[p] < MaxSignals /\ Deliverable(p)
  /\ signals' = [signals EXCEPT ![p] = @ + 1]
  /\ \/ pc[p] \in Body /\ Goto(p, "except") /\ UNCHANGED sync
     \/ pc[p] = "except" /\ Goto(p, "finally") /\ UNCHANGED sync
     \/ pc[p] \in {"finally"} \cup Masked /\ End(p, "escaped")
  /\ UNCHANGED <<provider, record, id, posted, ready, todo, victim, tries,
                 warned, reaper>>

\* SIGKILL, OOM or power loss.
Kill(p) ==
  /\ pc[p] \in Alive
  /\ End(p, "killed")
  /\ UNCHANGED <<provider, record, id, posted, ready, todo, victim, tries,
                 warned, signals, reaper>>

-----------------------------------------------------------------------------
(* The reaper: status.py *)

RGoto(r, l) == rpc' = [rpc EXCEPT ![r] = l]

\* status.run returns and its locals go.
Return(r) ==
  /\ RGoto(r, "idle")
  /\ snap' = [snap EXCEPT ![r] = NoRecords]
  /\ seen' = [seen EXCEPT ![r] = {}]
  /\ targets' = [targets EXCEPT ![r] = {}]

\* records = state.all_records()
ReadRecords(r) ==
  /\ rpc[r] = "idle"
  /\ snap' = [snap EXCEPT ![r] = record[HostOf[r]]]
  /\ RGoto(r, "list")
  /\ UNCHANGED <<provider, record, launcher, seen, targets>>

\* backend.list_live() answers.
ListLive(r) ==
  /\ rpc[r] = "list"
  /\ seen' = [seen EXCEPT ![r] = LiveSet]
  /\ RGoto(r, "judge")
  /\ UNCHANGED <<provider, record, launcher, snap, targets>>

\* It answers [] for a failed GET, or raises and the provider is `continue`d
\* past: either way no record is popped for it.
ListLiveFails(r) ==
  /\ rpc[r] = "list" /\ Faults \cap {"list_silent", "list_raise"} # {}
  /\ seen' = [seen EXCEPT ![r] = {}]
  /\ RGoto(r, "judge")
  /\ UNCHANGED <<provider, record, launcher, snap, targets>>

\* Bugs: a live instance without a record is not a row; the launcher's pid is
\* not looked at; a dead launcher makes a record stale.
IsStrayBug(r, i)  == FALSE
IsOrphanBug(r, i) == i \in seen[r] /\ snap[r][i] # None
IsStaleBug(r, i)  == snap[r][i] # None /\ ~PidAlive(HostOf[r], snap[r][i])

IsStray(r, i)  == i \in seen[r] /\ snap[r][i] = None
IsOrphan(r, i) ==
  /\ i \in seen[r] /\ snap[r][i] # None
  /\ ~PidAlive(HostOf[r], snap[r][i])
IsStale(r, i)  == i \notin seen[r] /\ snap[r][i] # None

Reapable(r) == {i \in Instances : IsStray(r, i) \/ IsOrphan(r, i)}

\* The rows: STALE records are removed, STRAY and ORPHAN are reaped if --reap.
Judge(r) ==
  /\ rpc[r] = "judge"
  /\ record' = [record EXCEPT ![HostOf[r]] =
                  [i \in Instances |-> IF IsStale(r, i) THEN None ELSE @[i]]]
  /\ \/ /\ Reapable(r) # {}                        \* --reap
        /\ RGoto(r, "reap")
        /\ targets' = [targets EXCEPT ![r] = Reapable(r)]
        /\ UNCHANGED <<snap, seen>>
     \/ Return(r)                                  \* nothing, or no --reap
  /\ UNCHANGED <<provider, launcher>>

NextTarget(r, i) ==
  \/ /\ targets[r] # {i}
     /\ targets' = [targets EXCEPT ![r] = @ \ {i}]
     /\ UNCHANGED <<rpc, snap, seen>>
  \/ targets[r] = {i} /\ Return(r)

\* destroy() then state.remove()
ReapOk(r, i) ==
  /\ rpc[r] = "reap" /\ i \in targets[r]
  /\ Terminate(i)
  /\ record' = [record EXCEPT ![HostOf[r]][i] = None]
  /\ NextTarget(r, i)
  /\ UNCHANGED <<owner, launcher>>

\* destroy() raised, with or without effect: rc = 1, go on with the next.
ReapFails(r, i) ==
  /\ rpc[r] = "reap" /\ i \in targets[r]
  /\ UNCHANGED inst \/ Terminate(i)
  /\ NextTarget(r, i)
  /\ UNCHANGED <<owner, record, launcher>>

\* The operator interrupts cloud-status.
ReaperDies(r) ==
  /\ rpc[r] # "idle"
  /\ Return(r)
  /\ UNCHANGED <<provider, record, launcher>>

-----------------------------------------------------------------------------
TeardownAct(p) ==
  \/ HandleInterrupt(p) \/ EnterTeardown(p) \/ FinalSync(p) \/ Sweep(p)
  \/ SweepFails(p) \/ DestroyOk(p) \/ DestroyFails(p) \/ Unrecord(p)

LauncherStep(p) ==
  \/ Start(p) \/ Post(p) \/ GotId(p) \/ WriteRecord(p) \/ WaitReady(p)
  \/ Stage(p) \/ Finish(p) \/ Fail(p) \/ SyncThread(p) \/ SyncHangs(p)
  \/ TeardownAct(p)

ReaperStep(r) ==
  \/ ReadRecords(r) \/ ListLive(r) \/ ListLiveFails(r) \/ Judge(r)
  \/ \E i \in Instances : ReapOk(r, i) \/ ReapFails(r, i)
  \/ ReaperDies(r)

Next ==
  \/ \E p \in Launchers : \/ LauncherStep(p) \/ Signal(p) \/ Kill(p)
                          \/ ProviderCreates(p) \/ ProviderDrops(p)
  \/ \E r \in Reapers : ReaperStep(r)
  \/ \E i \in Instances : Preempt(i)

Spec == Init /\ [][Next]_vars

\* What a schedule owes.  A teardown goes on, its http calls being bounded, unless
\* its rsync is wedged; nothing is owed by the body, whose copies and command may
\* take for ever.  A request is answered or dropped.  The operator keeps running
\* `cloud-status --reap`: a run that is again and again possible with an answered
\* list_live, with --reap and with a destroy that succeeds happens.
Fairness ==
  /\ \A p \in Launchers : /\ WF_vars(TeardownAct(p))
                           /\ WF_vars(ProviderDrops(p))
  /\ \A r \in Reapers :
       /\ WF_vars(ReadRecords(r)) /\ WF_vars(Judge(r))
       /\ SF_vars(ListLive(r))
       /\ SF_vars(Judge(r) /\ rpc'[r] = "reap")
       /\ \A i \in Instances : SF_vars(ReapOk(r, i))

FairSpec == Spec /\ Fairness

-----------------------------------------------------------------------------
(* Properties *)

MaybePid == Pids \cup {None}

\* Type invariant.  That tries stays below MaxAttempts is the retry loop's bound.
TypeOK ==
  /\ inst \in [Instances -> {"unborn", "live", "gone"}]
  /\ owner \in [Instances -> Launchers \cup {None}]
  /\ record \in [Hosts -> [Instances -> MaybePid]]
  /\ pc \in [Launchers -> PCs]
  /\ id \in [Launchers -> Instances \cup {None}]
  /\ posted \in [Launchers -> BOOLEAN]
  /\ ready \in [Launchers -> BOOLEAN]
  /\ sync \in [Launchers -> {"off", "wait", "pull"}]
  /\ todo \in [Launchers -> SUBSET Instances]
  /\ victim \in [Launchers -> Instances \cup {None}]
  /\ tries \in [Launchers -> 0 .. MaxAttempts - 1]
  /\ warned \in [Launchers -> BOOLEAN]
  /\ signals \in [Launchers -> 0 .. MaxSignals]
  /\ rpc \in [Reapers -> {"idle", "list", "judge", "reap"}]
  /\ snap \in [Reapers -> [Instances -> MaybePid]]
  /\ seen \in [Reapers -> SUBSET Instances]
  /\ targets \in [Reapers -> SUBSET Instances]

\* A launcher that ran its teardown to the end, whatever interrupted it before
\* and wherever, either left none of its instances billing or said that it may
\* have (lease.py _teardown, _destroy_with_retry, _sweep_orphans_by_label).
CleanExitReleases ==
  \A p \in Launchers : pc[p] = "exited" /\ ~warned[p] =>
    \A i \in Instances : owner[i] = p => inst[i] = "gone"

\* While an instance bills, nobody removes the record the reaper needs to tell
\* an attended lease from a leak: not the teardown before the provider confirmed
\* the destroy, not a reaper working from a stale listing (status.py reconcile).
RecordOutlivesInstance ==
  [][\A h \in Hosts, i \in Instances :
       record[h][i] # None /\ record'[h][i] = None => inst'[i] = "gone"]_vars

\* Once the record is written, no reaper on that host, however stale what it
\* read, has that lease among its targets while the launcher is alive, unless it
\* read the records before the write (status.py ORPHAN; state.pid_alive).
ReapSparesRecorded ==
  \A r \in Reapers : \A i \in targets[r] :
    snap[r][i] # None => pc[owner[i]] \in Ended

\* No reaper is about to destroy an instance whose launcher is alive and at work,
\* record written: status.py calls it OK.  Does not hold, see README: a lease born
\* between the reaper's two reads looks STRAY to it.
ReapSparesAttended ==
  \A r \in Reapers : \A i \in targets[r] :
    pc[owner[i]] \notin {"boot", "stage", "run"}

\* A launcher's teardown destroys no instance of another launcher that is still
\* alive: the label sweep finds only what this process created (lease.py label).
LauncherDestroysOwn ==
  \A p, q \in Launchers :
    pc[p] \in {"destroy", "unrecord"} /\ owner[victim[p]] = q
      => p = q \/ pc[q] \in Ended

\* Every exit but SIGKILL goes through the teardown (lease.py's opening text).
\* Does not hold, see README: a signal lands in `finally` before the mask is set.
OnlySigkillSkipsTeardown == \A p \in Launchers : pc[p] # "escaped"

\* "Block the catchable signals so a second Ctrl-C / SIGTERM / SIGHUP can't unwind
\* out of destroy()" (lease.py:48): nothing but SIGKILL gets a launcher out of its
\* teardown before the end.  Does not hold: the checkpoint thread takes the signal.
TeardownUninterrupted ==
  [][\A p \in Launchers : pc[p] \in Masked /\ pc'[p] # pc[p]
       => pc'[p] \in Masked \cup {"exited", "killed"}]_vars

\* Where the reaper takes an instance for attended: its owner's pid is in use.
LooksAttended(i) == \E p \in Launchers : owner[i] = p /\ PidAlive(HostOf[p], PidOf[p])

\* Whatever a launcher leaves billing when it ends - killed, interrupted inside
\* its teardown, out of destroy attempts, or created after it gave up - is
\* destroyed if the operator keeps reaping, unless a later process keeps the dead
\* launcher's pid and makes the leak look attended (status.py).
LeakEventuallyReaped ==
  \A i \in Instances :
    (inst[i] = "live" /\ owner[i] # None /\ pc[owner[i]] \in Ended)
      ~> (inst[i] = "gone" \/ LooksAttended(i))

\* A teardown ends, however many instances it sweeps up and however their
\* destroys fail, except in a final rsync that hangs (lease.py attempts).
TeardownEnds ==
  \A p \in Launchers : pc[p] = "finally" ~> pc[p] \in Ended \cup {"wedged"}

\* "GUARANTEED destroy on any exit path" (lease.py:4): a teardown that knows an
\* instance gets rid of it or says that it may have failed, short of SIGKILL.
\* Does not hold: the final rsync comes before the destroy and has no timeout.
DestroyGuaranteed ==
  \A p \in Launchers, i \in Instances :
    (pc[p] = "finally" /\ id[p] = i)
      ~> (inst[i] = "gone" \/ warned[p] \/ pc[p] \in {"escaped", "killed"})
=============================================================================
