-------------------------- MODULE CloudLeaseProofs --------------------------
(***************************************************************************)
(* Machine-checked proofs about CloudLease, for any set of launchers,      *)
(* reapers, instances, hosts and pids and any retry and signal bounds.     *)
(*                                                                         *)
(*   TypeCorrect, RecordsCorrect, NoAttendedVerdict : any provider         *)
(*   RecordOutlives                                 : sound listings       *)
(*   TeardownOwn                                    : one pid namespace    *)
(*   CleanExit                : no silent listing, no late creation        *)
(***************************************************************************)
EXTENDS CloudLeaseInv, TLAPS

-----------------------------------------------------------------------------
(* Types *)

LEMMA NextVictimType ==
  ASSUME TypeOK, NEW p \in Launchers, NEW left \in SUBSET Instances,
         NextVictim(p, left)
  PROVE  /\ pc' \in [Launchers -> PCs]
         /\ sync' \in [Launchers -> {"off", "wait", "pull"}]
         /\ todo' \in [Launchers -> SUBSET Instances]
         /\ victim' \in [Launchers -> Instances \cup {None}]
         /\ tries' \in [Launchers -> 0 .. MaxAttempts - 1]
<1> USE ConstantsAssumption
    DEF TypeOK, PCs, Alive, Masked, Ended, NextVictim, Goto, End
<1>1. CASE End(p, "exited") /\ victim' = [victim EXCEPT ![p] = None]
  BY <1>1
<1>2. CASE /\ \E i \in left : victim' = [victim EXCEPT ![p] = i]
           /\ Goto(p, "destroy") /\ UNCHANGED sync
  BY <1>2
<1> QED
  BY <1>1, <1>2

LEMMA ReturnType ==
  ASSUME TypeOK, NEW r \in Reapers, Return(r)
  PROVE  /\ rpc' \in [Reapers -> {"idle", "list", "judge", "reap"}]
         /\ snap' \in [Reapers -> [Instances -> MaybePid]]
         /\ seen' \in [Reapers -> SUBSET Instances]
         /\ targets' \in [Reapers -> SUBSET Instances]
  BY DEF TypeOK, Return, RGoto, NoRecords, MaybePid

LEMMA NextTargetType ==
  ASSUME TypeOK, NEW r \in Reapers, NEW i \in Instances, NextTarget(r, i)
  PROVE  /\ rpc' \in [Reapers -> {"idle", "list", "judge", "reap"}]
         /\ snap' \in [Reapers -> [Instances -> MaybePid]]
         /\ seen' \in [Reapers -> SUBSET Instances]
         /\ targets' \in [Reapers -> SUBSET Instances]
<1>1. CASE Return(r)
  BY <1>1, ReturnType
<1>2. CASE ~Return(r)
  <2>1. targets' = [targets EXCEPT ![r] = @ \ {i}] /\ UNCHANGED <<rpc, snap, seen>>
    BY <1>2 DEF NextTarget
  <2>2. targets \in [Reapers -> SUBSET Instances]
    BY DEF TypeOK
  <2>3. targets' \in [Reapers -> SUBSET Instances]
    BY <2>1, <2>2
  <2>4. /\ rpc \in [Reapers -> {"idle", "list", "judge", "reap"}]
        /\ snap \in [Reapers -> [Instances -> MaybePid]]
        /\ seen \in [Reapers -> SUBSET Instances]
    BY DEF TypeOK
  <2> QED
    BY <2>1, <2>3, <2>4
<1> QED
  BY <1>1, <1>2

LEMMA TerminateType ==
  ASSUME TypeOK, NEW i, Terminate(i)
  PROVE  inst' \in [Instances -> {"unborn", "live", "gone"}]
  BY DEF TypeOK, Terminate

LEMMA TypeStep ==
  ASSUME TypeOK, [Next]_vars
  PROVE  TypeOK'
<1> USE ConstantsAssumption
<1>1. ASSUME NEW p \in Launchers,
             \/ Start(p) \/ Post(p) \/ GotId(p) \/ WaitReady(p) \/ Stage(p)
             \/ Finish(p) \/ Fail(p) \/ HandleInterrupt(p) \/ SyncThread(p)
             \/ FinalSync(p) \/ SyncHangs(p) \/ SweepFails(p) \/ Kill(p)
      PROVE  TypeOK'
  <2> USE DEF TypeOK, PCs, Alive, Body, Masked, Ended, Goto, End, provider, reaper
  <2>1. CASE Start(p)
    BY <2>1 DEF Start
  <2>2. CASE Post(p)
    BY <2>2 DEF Post
  <2>3. CASE GotId(p)
    BY <2>3 DEF GotId
  <2>4. CASE WaitReady(p)
    BY <2>4 DEF WaitReady
  <2>5. CASE Stage(p)
    BY <2>5 DEF Stage
  <2>6. CASE Finish(p) \/ Fail(p) \/ HandleInterrupt(p)
    BY <2>6 DEF Finish, Fail, HandleInterrupt
  <2>7. CASE SyncThread(p)
    BY <2>7 DEF SyncThread
  <2>8. CASE FinalSync(p) \/ SyncHangs(p)
    BY <2>8 DEF FinalSync, SyncHangs
  <2>9. CASE SweepFails(p)
    BY <2>9 DEF SweepFails
  <2>10. CASE Kill(p)
    BY <2>10 DEF Kill
  <2> QED
    BY <1>1, <2>1, <2>2, <2>3, <2>4, <2>5, <2>6, <2>7, <2>8, <2>9, <2>10
<1>2. ASSUME NEW p \in Launchers, WriteRecord(p)
      PROVE  TypeOK'
  BY <1>2 DEF TypeOK, PCs, Alive, Body, Goto, MaybePid, WriteRecord, provider, reaper
<1>3. ASSUME NEW p \in Launchers, EnterTeardown(p)
      PROVE  TypeOK'
  <2>1. pc' \in [Launchers -> PCs]
    <3>1. \E l \in {"sweep", "final_sync", "destroy"} : Goto(p, l)
      BY <1>3 DEF EnterTeardown
    <3> QED
      BY <3>1 DEF TypeOK, Goto, PCs, Alive, Masked
  <2>2. /\ todo' \in [Launchers -> SUBSET Instances]
        /\ victim' \in [Launchers -> Instances \cup {None}]
    <3>1. CASE id[p] = None
      BY <1>3, <3>1 DEF TypeOK, EnterTeardown
    <3>2. CASE id[p] # None
      <4>1. id[p] \in Instances
        BY <3>2 DEF TypeOK
      <4>2. /\ todo' = [todo EXCEPT ![p] = {id[p]}]
            /\ victim' = [victim EXCEPT ![p] = id[p]]
        BY <1>3, <3>2 DEF EnterTeardown
      <4> QED
        BY <4>1, <4>2 DEF TypeOK
    <3> QED
      BY <3>1, <3>2
  <2> QED
    BY <1>3, <2>1, <2>2 DEF TypeOK, EnterTeardown, provider, reaper
<1>4. ASSUME NEW p \in Launchers, Sweep(p)
      PROVE  TypeOK'
  <2>1. SweptBy(p) \in SUBSET Instances /\ {} \in SUBSET Instances
    BY DEF SweptBy, LiveSet
  <2>2. PICK left \in SUBSET Instances : NextVictim(p, left)
    BY <1>4, <2>1 DEF Sweep
  <2> QED
    BY <1>4, <2>2, NextVictimType DEF TypeOK, Sweep, provider, reaper
<1>5. ASSUME NEW p \in Launchers, DestroyOk(p)
      PROVE  TypeOK'
  BY <1>5 DEF TypeOK, PCs, Alive, Masked, Goto, Terminate, DestroyOk, reaper
<1>6. ASSUME NEW p \in Launchers, DestroyFails(p)
      PROVE  TypeOK'
  <2>1. OtherVictims(p) \in SUBSET Instances
    BY DEF OtherVictims, TypeOK
  <2>2. inst' \in [Instances -> {"unborn", "live", "gone"}]
    BY <1>6, TerminateType DEF TypeOK, DestroyFails
  <2>3. CASE /\ AttemptsLeft(p)
             /\ tries' = [tries EXCEPT ![p] = @ + 1]
             /\ UNCHANGED <<pc, sync, todo, victim, warned>>
    BY <1>6, <2>2, <2>3 DEF AttemptsLeft, TypeOK, DestroyFails, reaper
  <2>4. CASE /\ warned' = [warned EXCEPT ![p] = TRUE]
             /\ NextVictim(p, OtherVictims(p))
    BY <1>6, <2>1, <2>2, <2>4, NextVictimType DEF TypeOK, DestroyFails, reaper
  <2> QED
    BY <1>6, <2>3, <2>4 DEF DestroyFails
<1>7. ASSUME NEW p \in Launchers, Unrecord(p)
      PROVE  TypeOK'
  <2>1. OtherVictims(p) \in SUBSET Instances
    BY DEF OtherVictims, TypeOK
  <2>2. record' \in [Hosts -> [Instances -> MaybePid]]
    BY <1>7 DEF TypeOK, Unrecord, MaybePid
  <2> QED
    BY <1>7, <2>1, <2>2, NextVictimType DEF TypeOK, Unrecord, provider, reaper
<1>8. ASSUME NEW p \in Launchers, Signal(p)
      PROVE  TypeOK'
  <2>1. pc' \in [Launchers -> PCs] /\ sync' \in [Launchers -> {"off", "wait", "pull"}]
    BY <1>8 DEF TypeOK, Signal, End, Goto, PCs, Alive, Ended
  <2>2. signals' \in [Launchers -> 0 .. MaxSignals]
    BY <1>8 DEF TypeOK, Signal
  <2> QED
    BY <1>8, <2>1, <2>2 DEF Signal, TypeOK, provider, reaper
<1>9. ASSUME NEW p \in Launchers, ProviderCreates(p) \/ ProviderDrops(p)
      PROVE  TypeOK'
  <2>1. CASE ProviderCreates(p)
    BY <2>1 DEF TypeOK, ProviderCreates, reaper
  <2>2. CASE ProviderDrops(p)
    BY <2>2 DEF TypeOK, ProviderDrops, provider, reaper
  <2> QED
    BY <1>9, <2>1, <2>2
<1>10. ASSUME NEW r \in Reapers,
              ReadRecords(r) \/ ListLive(r) \/ ListLiveFails(r) \/ ReaperDies(r)
       PROVE  TypeOK'
  <2>1. CASE ReadRecords(r)
    BY <2>1 DEF TypeOK, ReadRecords, RGoto, provider, launcher
  <2>2. CASE ListLive(r) \/ ListLiveFails(r)
    <3>1. \E s \in SUBSET Instances : seen' = [seen EXCEPT ![r] = s]
      BY <2>2 DEF ListLive, ListLiveFails, LiveSet
    <3>2. RGoto(r, "judge") /\ UNCHANGED <<provider, record, launcher, snap, targets>>
      BY <2>2 DEF ListLive, ListLiveFails
    <3> QED
      BY <3>1, <3>2 DEF TypeOK, RGoto, provider, launcher
  <2>3. CASE ReaperDies(r)
    BY <2>3, ReturnType DEF TypeOK, ReaperDies, provider, launcher
  <2> QED
    BY <1>10, <2>1, <2>2, <2>3
<1>11. ASSUME NEW r \in Reapers, Judge(r)
       PROVE  TypeOK'
  <2>1. record' \in [Hosts -> [Instances -> MaybePid]]
    BY <1>11 DEF TypeOK, Judge, MaybePid
  <2>2. CASE Return(r)
    BY <1>11, <2>1, <2>2, ReturnType DEF TypeOK, Judge, provider, launcher
  <2>3. CASE /\ RGoto(r, "reap")
             /\ targets' = [targets EXCEPT ![r] = Reapable(r)]
             /\ UNCHANGED <<snap, seen>>
    <3>1. targets' \in [Reapers -> SUBSET Instances]
      BY <2>3 DEF TypeOK, Reapable
    <3>2. UNCHANGED <<provider, launcher>>
      BY <1>11 DEF Judge
    <3> QED
      BY <2>1, <2>3, <3>1, <3>2 DEF TypeOK, RGoto, provider, launcher
  <2> QED
    BY <1>11, <2>2, <2>3 DEF Judge
<1>12. ASSUME NEW r \in Reapers, NEW i \in Instances, ReapOk(r, i) \/ ReapFails(r, i)
       PROVE  TypeOK'
  <2>1. inst' \in [Instances -> {"unborn", "live", "gone"}]
    BY <1>12, TerminateType DEF TypeOK, ReapOk, ReapFails
  <2>2. record' \in [Hosts -> [Instances -> MaybePid]]
    <3>1. CASE ReapOk(r, i)
      BY <3>1 DEF TypeOK, ReapOk, MaybePid
    <3>2. CASE ReapFails(r, i)
      BY <3>2 DEF TypeOK, ReapFails
    <3> QED
      BY <1>12, <3>1, <3>2
  <2>3. NextTarget(r, i) /\ UNCHANGED <<owner, launcher>>
    BY <1>12 DEF ReapOk, ReapFails
  <2> QED
    BY <2>1, <2>2, <2>3, NextTargetType DEF TypeOK, launcher
<1>13. ASSUME NEW i \in Instances, Preempt(i)
       PROVE  TypeOK'
  BY <1>13 DEF TypeOK, Preempt, Terminate, launcher, reaper
<1>14. CASE UNCHANGED vars
  BY <1>14 DEF TypeOK, vars, provider, launcher, reaper
<1> QED
  BY <1>1, <1>2, <1>3, <1>4, <1>5, <1>6, <1>7, <1>8, <1>9, <1>10, <1>11, <1>12,
     <1>13, <1>14 DEF Next, LauncherStep, TeardownAct, ReaperStep

\* Every reachable state is well typed; in particular the retry counter never
\* reaches MaxAttempts (lease.py _destroy_with_retry).
THEOREM TypeCorrect == Spec => []TypeOK
<1>1. Init => TypeOK
  BY ConstantsAssumption DEF Init, TypeOK, NoRecords, PCs, MaybePid
<1> QED
  BY <1>1, TypeStep, PTL DEF Spec

-----------------------------------------------------------------------------
(* Which actions write which variable *)

LEMMA OwnerChange ==
  [Next]_vars => owner' = owner \/ \E p \in Launchers : ProviderCreates(p)
  BY DEF Next, LauncherStep, TeardownAct, ReaperStep, Start, Post, GotId, WriteRecord,
      WaitReady, Stage, Finish, Fail, HandleInterrupt, SyncThread,
      EnterTeardown, FinalSync, SyncHangs, Sweep, SweepFails, DestroyOk, DestroyFails,
      Unrecord, Signal, Kill, ProviderDrops, Preempt, ReadRecords, ListLive,
      ListLiveFails, Judge, ReapOk, ReapFails, ReaperDies, vars, provider,
      launcher, reaper

LEMMA InstChange ==
  [Next]_vars =>
    \/ inst' = inst
    \/ \E p \in Launchers : ProviderCreates(p)
    \/ \E i \in Instances : Terminate(i)
    \/ \E p \in Launchers : Terminate(victim[p])
  BY DEF Next, LauncherStep, TeardownAct, ReaperStep, Start, Post, GotId, WriteRecord,
      WaitReady, Stage, Finish, Fail, HandleInterrupt, SyncThread,
      EnterTeardown, FinalSync, SyncHangs, Sweep, SweepFails, DestroyOk, DestroyFails,
      Unrecord, Signal, Kill, ProviderDrops, Preempt, ReadRecords, ListLive,
      ListLiveFails, Judge, ReapOk, ReapFails, ReaperDies, vars, provider,
      launcher, reaper

LEMMA IdChange ==
  [Next]_vars => id' = id \/ \E p \in Launchers : GotId(p)
  BY DEF Next, LauncherStep, TeardownAct, ReaperStep, Start, Post, WriteRecord, WaitReady,
      Stage, Finish, Fail, HandleInterrupt, SyncThread, EnterTeardown,
      FinalSync, SyncHangs, Sweep, SweepFails, DestroyOk, DestroyFails, Unrecord,
      Signal, Kill, ProviderCreates, ProviderDrops, Preempt, ReadRecords,
      ListLive, ListLiveFails, Judge, ReapOk, ReapFails, ReaperDies, vars,
      provider, launcher, reaper

LEMMA PostedChange ==
  [Next]_vars => \/ posted' = posted
                 \/ \E p \in Launchers : Post(p)
                 \/ \E p \in Launchers : posted' = [posted EXCEPT ![p] = FALSE]
  BY DEF Next, LauncherStep, TeardownAct, ReaperStep, Start, GotId, WriteRecord, WaitReady,
      Stage, Finish, Fail, HandleInterrupt, SyncThread, EnterTeardown,
      FinalSync, SyncHangs, Sweep, SweepFails, DestroyOk, DestroyFails, Unrecord,
      Signal, Kill, ProviderCreates, ProviderDrops, Preempt, ReadRecords,
      ListLive, ListLiveFails, Judge, ReapOk, ReapFails, ReaperDies, vars,
      provider, launcher, reaper

LEMMA RecordChange ==
  [Next]_vars => \/ record' = record
                 \/ \E p \in Launchers : WriteRecord(p) \/ Unrecord(p)
                 \/ \E r \in Reapers : Judge(r) \/ \E i \in Instances : ReapOk(r, i)
  BY DEF Next, LauncherStep, TeardownAct, ReaperStep, Start, Post, GotId, WaitReady, Stage,
      Finish, Fail, HandleInterrupt, SyncThread, EnterTeardown, FinalSync, SyncHangs,
      Sweep, SweepFails, DestroyOk, DestroyFails, Signal, Kill,
      ProviderCreates, ProviderDrops, Preempt, ReadRecords, ListLive,
      ListLiveFails, ReapFails, ReaperDies, vars, provider, launcher, reaper

LEMMA SnapChange ==
  [Next]_vars =>
    \/ UNCHANGED <<rpc, snap, seen, targets>>
    \/ \E r \in Reapers : \/ ReadRecords(r) \/ ListLive(r) \/ ListLiveFails(r)
                          \/ Judge(r) \/ Return(r)
                          \/ \E i \in Instances : NextTarget(r, i)
  BY DEF Next, LauncherStep, TeardownAct, ReaperStep, Start, Post, GotId, WriteRecord,
      WaitReady, Stage, Finish, Fail, HandleInterrupt, SyncThread,
      EnterTeardown, FinalSync, SyncHangs, Sweep, SweepFails, DestroyOk, DestroyFails,
      Unrecord, Signal, Kill, ProviderCreates, ProviderDrops, Preempt,
      ReapOk, ReapFails, ReaperDies, vars, provider, launcher, reaper

-----------------------------------------------------------------------------
(* What every step keeps *)

LEMMA OwnerStays ==
  ASSUME TypeOK, Births, [Next]_vars, NEW i \in Instances, owner[i] # None
  PROVE  owner'[i] = owner[i]
  BY OwnerChange DEF TypeOK, Births, ProviderCreates

LEMMA InstStays ==
  ASSUME TypeOK, [Next]_vars, NEW i \in Instances
  PROVE  /\ inst[i] # "unborn" => inst'[i] # "unborn"
         /\ inst[i] = "gone" => inst'[i] = "gone"
  BY InstChange DEF TypeOK, ProviderCreates, Terminate

\* Where a launcher that has sent its POST, or died, may go.
Started == (Alive \cup Ended) \ {"provision"}

LEMMA LauncherMoves ==
  ASSUME NEW p \in Launchers, LauncherStep(p)
  PROVE  \/ pc' = pc
         \/ Start(p)
         \/ /\ pc[p] \notin Ended /\ pc[p] # "idle"
            /\ \E l \in Started : Goto(p, l)
<1> USE DEF Started, Alive, Body, Masked, Ended
<1>1. ASSUME NEW left, NextVictim(p, left)
      PROVE  \E l \in Started : Goto(p, l)
  BY <1>1 DEF NextVictim, End
<1>2. CASE Post(p) \/ GotId(p) \/ WriteRecord(p) \/ WaitReady(p) \/ Stage(p)
  BY <1>2 DEF Post, GotId, WriteRecord, WaitReady, Stage
<1>3. CASE Finish(p) \/ Fail(p) \/ HandleInterrupt(p) \/ SyncThread(p)
  BY <1>3 DEF Finish, Fail, HandleInterrupt, SyncThread
<1>4. CASE EnterTeardown(p)
  BY <1>4 DEF EnterTeardown
<1>5. CASE FinalSync(p) \/ SyncHangs(p) \/ SweepFails(p) \/ DestroyOk(p)
  BY <1>5 DEF FinalSync, SyncHangs, SweepFails, DestroyOk, End
<1>6. CASE Sweep(p) \/ DestroyFails(p) \/ Unrecord(p)
  BY <1>1, <1>6 DEF Sweep, DestroyFails, Unrecord
<1> QED
  BY <1>2, <1>3, <1>4, <1>5, <1>6 DEF LauncherStep, TeardownAct

LEMMA InterruptMoves ==
  ASSUME NEW p \in Launchers, Signal(p) \/ Kill(p)
  PROVE  /\ pc[p] \notin Ended /\ pc[p] # "idle"
         /\ \E l \in Started : Goto(p, l)
  BY DEF Started, Alive, Body, Masked, Ended, End, Signal, Kill

LEMMA PcChange ==
  [Next]_vars =>
    pc' = pc \/ \E p \in Launchers : LauncherStep(p) \/ Signal(p) \/ Kill(p)
  BY DEF Next, ReaperStep, ProviderCreates, ProviderDrops, Preempt,
      ReadRecords, ListLive, ListLiveFails, Judge, ReapOk, ReapFails,
      ReaperDies, vars, provider, launcher, reaper

LEMMA PcStays ==
  ASSUME TypeOK, [Next]_vars, NEW q \in Launchers
  PROVE  /\ pc[q] # "idle" => pc'[q] # "idle"
         /\ pc[q] \notin {"idle", "provision"} => pc'[q] \notin {"idle", "provision"}
         /\ pc[q] \in Ended => pc'[q] = pc[q]
<1>1. \/ pc' = pc
      \/ \E p \in Launchers : Start(p)
      \/ \E p \in Launchers, l \in Started :
           /\ pc[p] \notin Ended /\ pc[p] # "idle"
           /\ Goto(p, l)
  BY LauncherMoves, InterruptMoves, PcChange
<1>2. CASE pc' = pc
  BY <1>2
<1>3. CASE \E p \in Launchers : Start(p)
  BY <1>3 DEF TypeOK, Start, Goto, Ended
<1>4. CASE \E p \in Launchers, l \in Started :
             /\ pc[p] \notin Ended /\ pc[p] # "idle"
             /\ Goto(p, l)
  BY <1>4 DEF TypeOK, Goto, Started, Alive, Body, Masked, Ended
<1> QED
  BY <1>1, <1>2, <1>3, <1>4

-----------------------------------------------------------------------------
(* Records tell who launched what, and no verdict on a record is wrong *)

LEMMA BirthsStep ==
  ASSUME TypeOK, Births, [Next]_vars
  PROVE  Births'
<1>1. ASSUME NEW i \in Instances, owner'[i] # None
      PROVE  inst'[i] # "unborn" /\ pc'[owner'[i]] # "idle"
  <2>1. CASE owner[i] # None
    <3>1. owner'[i] = owner[i] /\ owner[i] \in Launchers
      BY <2>1, OwnerStays DEF TypeOK
    <3> QED
      BY <2>1, <3>1, InstStays, PcStays DEF Births
  <2>2. CASE owner[i] = None
    <3>1. PICK p \in Launchers : ProviderCreates(p)
      BY <1>1, <2>2, OwnerChange
    <3>2. owner'[i] = p /\ inst'[i] = "live" /\ pc' = pc
      BY <1>1, <2>2, <3>1 DEF TypeOK, ProviderCreates
    <3> QED
      BY <3>1, <3>2 DEF Births, ProviderCreates
  <2> QED
    BY <2>1, <2>2
<1>2. ASSUME NEW p \in Launchers, posted'[p]
      PROVE  pc'[p] \notin {"idle", "provision"}
  <2>1. CASE posted[p]
    BY <2>1, PcStays DEF Births
  <2>2. CASE ~posted[p]
    <3>1. PICK q \in Launchers : Post(q)
      BY <1>2, <2>2, PostedChange DEF TypeOK
    <3>2. p = q
      BY <1>2, <2>2, <3>1 DEF TypeOK, Post
    <3> QED
      BY <3>1, <3>2 DEF TypeOK, Post, Goto
  <2> QED
    BY <2>1, <2>2
<1> QED
  BY <1>1, <1>2 DEF Births

LEMMA IdsStep ==
  ASSUME TypeOK, Births, Ids, [Next]_vars
  PROVE  Ids'
<1> SUFFICES ASSUME NEW p \in Launchers, id'[p] # None
             PROVE  owner'[id'[p]] = p
  BY DEF Ids
<1>1. id'[p] \in Instances
  BY TypeStep DEF TypeOK
<1>2. owner[id'[p]] = p
  BY IdChange DEF TypeOK, Ids, GotId
<1> QED
  BY <1>1, <1>2, OwnerStays, ConstantsAssumption

LEMMA TrueRecordStays ==
  ASSUME TypeOK, Births, [Next]_vars, NEW i \in Instances, NEW h, NEW n,
         TrueRecord(h, i, n)
  PROVE  TrueRecord(h, i, n)'
  BY OwnerStays DEF TrueRecord

LEMMA RecordsStep ==
  ASSUME RecordInv, [Next]_vars
  PROVE  RecordsTrue'
<1> USE DEF RecordInv
<1> SUFFICES ASSUME NEW h \in Hosts, NEW i \in Instances, record'[h][i] # None
             PROVE  TrueRecord(h, i, record[h][i])'
  BY DEF RecordsTrue
<1>1. \/ record'[h][i] = record[h][i]
      \/ \E p \in Launchers : WriteRecord(p) /\ h = HostOf[p] /\ i = id[p]
  <2>1. CASE record' = record
    BY <2>1
  <2>2. CASE \E p \in Launchers : WriteRecord(p)
    <3>1. PICK p \in Launchers : WriteRecord(p)
      BY <2>2
    <3>2. \/ record'[h][i] = record[h][i]
          \/ h = HostOf[p] /\ i = id[p]
      BY <3>1 DEF TypeOK, WriteRecord
    <3> QED
      BY <3>1, <3>2
  <2>3. CASE \E p \in Launchers : Unrecord(p)
    BY <2>3 DEF TypeOK, Unrecord
  <2>4. CASE \E r \in Reapers : Judge(r)
    BY <2>4 DEF TypeOK, Judge
  <2>5. CASE \E r \in Reapers, j \in Instances : ReapOk(r, j)
    BY <2>5 DEF TypeOK, ReapOk
  <2> QED
    BY <2>1, <2>2, <2>3, <2>4, <2>5, RecordChange
<1>2. CASE record'[h][i] = record[h][i]
  <2>1. TrueRecord(h, i, record[h][i])
    BY <1>2 DEF RecordsTrue
  <2> QED
    BY <1>2, <2>1, OwnerStays DEF TrueRecord
<1>3. CASE \E p \in Launchers : WriteRecord(p) /\ h = HostOf[p] /\ i = id[p]
  <2>1. PICK p \in Launchers : WriteRecord(p) /\ h = HostOf[p] /\ i = id[p]
    BY <1>3
  <2>2. record'[h][i] = PidOf[p] /\ owner[i] = p /\ p # None
    BY <2>1, ConstantsAssumption DEF TypeOK, WriteRecord, Ids
  <2> QED
    BY <2>1, <2>2, OwnerStays DEF TrueRecord
<1> QED
  BY <1>1, <1>2, <1>3

LEMMA SnapsStep ==
  ASSUME RecordInv, [Next]_vars
  PROVE  SnapsTrue'
<1> USE DEF RecordInv
<1> SUFFICES ASSUME NEW r \in Reapers, NEW i \in Instances, snap'[r][i] # None
             PROVE  TrueRecord(HostOf[r], i, snap[r][i])'
  BY DEF SnapsTrue
<1>1. snap'[r][i] = snap[r][i] \/ snap'[r][i] = record[HostOf[r]][i]
  <2>1. CASE snap' = snap
    BY <2>1
  <2>2. CASE \E s \in Reapers : ReadRecords(s)
    BY <2>2 DEF TypeOK, ReadRecords
  <2>3. CASE \E s \in Reapers : Return(s)
    BY <2>3 DEF TypeOK, Return, NoRecords
  <2> QED
    BY <2>1, <2>2, <2>3, SnapChange DEF ListLive, ListLiveFails, Judge, NextTarget
<1>2. HostOf[r] \in Hosts
  BY ConstantsAssumption
<1>3. TrueRecord(HostOf[r], i, snap'[r][i])
  BY <1>1, <1>2 DEF SnapsTrue, RecordsTrue
<1> QED
  BY <1>3, OwnerStays DEF TrueRecord

LEMMA TargetsStep ==
  ASSUME TypeOK, TargetsOnlyInReap, [Next]_vars
  PROVE  TargetsOnlyInReap'
<1> USE DEF TypeOK, TargetsOnlyInReap
<1>1. CASE UNCHANGED <<rpc, snap, seen, targets>>
  BY <1>1
<1>2. CASE \E r \in Reapers : ReadRecords(r) \/ ListLive(r) \/ ListLiveFails(r)
  BY <1>2 DEF ReadRecords, ListLive, ListLiveFails, RGoto
<1>3. CASE \E r \in Reapers : Return(r)
  BY <1>3 DEF Return, RGoto
<1>4. ASSUME NEW r \in Reapers, Judge(r)
      PROVE  TargetsOnlyInReap'
  BY <1>3, <1>4 DEF Judge, RGoto
<1>5. ASSUME NEW r \in Reapers, NEW i \in Instances, NextTarget(r, i)
      PROVE  TargetsOnlyInReap'
  BY <1>3, <1>5 DEF NextTarget
<1> QED
  BY <1>1, <1>2, <1>3, <1>4, <1>5, SnapChange

LEMMA RecordStep ==
  ASSUME RecordInv, [Next]_vars
  PROVE  RecordInv'
  BY TypeStep, BirthsStep, IdsStep, RecordsStep, SnapsStep, TargetsStep
  DEF RecordInv

LEMMA RecordInit == Init => RecordInv
<1> SUFFICES ASSUME Init
             PROVE  RecordInv
  OBVIOUS
<1>1. TypeOK
  BY ConstantsAssumption DEF Init, TypeOK, NoRecords, PCs, MaybePid
<1>2. Births /\ Ids /\ RecordsTrue /\ SnapsTrue /\ TargetsOnlyInReap
  BY ConstantsAssumption
  DEF Init, Births, Ids, RecordsTrue, SnapsTrue, TargetsOnlyInReap, NoRecords
<1> QED
  BY <1>1, <1>2 DEF RecordInv

\* The records on disk and the ones a reaper read name the host and the pid of
\* the launcher that owns the instance (state.py write, status.py reconcile).
THEOREM RecordsCorrect == Spec => []RecordInv
  BY RecordInit, RecordStep, PTL DEF Spec

LEMMA VerdictStep ==
  ASSUME RecordInv, ReapSparesRecorded, [Next]_vars
  PROVE  ReapSparesRecorded'
<1> SUFFICES ASSUME NEW r \in Reapers, NEW i \in targets'[r], snap'[r][i] # None
             PROVE  pc'[owner'[i]] \in Ended
  BY DEF ReapSparesRecorded
<1> USE DEF RecordInv
<1>1. i \in Instances /\ HostOf[r] \in Hosts
  BY TypeStep, ConstantsAssumption DEF TypeOK
<1>2. CASE i \in targets[r] /\ snap'[r] = snap[r]
  <2>1. TrueRecord(HostOf[r], i, snap[r][i]) /\ pc[owner[i]] \in Ended
    BY <1>1, <1>2 DEF SnapsTrue, ReapSparesRecorded
  <2>2. owner[i] \in Launchers /\ owner'[i] = owner[i]
    BY <1>1, <2>1, OwnerStays DEF TrueRecord, TypeOK
  <2> QED
    BY <2>1, <2>2, PcStays
<1>3. CASE ~(i \in targets[r] /\ snap'[r] = snap[r])
  <2>1. Judge(r) /\ i \in Reapable(r) /\ snap' = snap
    <3>1. CASE UNCHANGED <<rpc, snap, seen, targets>>
      BY <1>3, <3>1
    <3>2. ASSUME NEW s \in Reapers, ReadRecords(s)
          PROVE  FALSE
      BY <1>3, <3>2 DEF TypeOK, ReadRecords, TargetsOnlyInReap
    <3>3. ASSUME NEW s \in Reapers, ListLive(s) \/ ListLiveFails(s)
          PROVE  FALSE
      BY <1>3, <3>3 DEF ListLive, ListLiveFails
    <3>4. ASSUME NEW s \in Reapers, Return(s)
          PROVE  FALSE
      BY <1>3, <3>4 DEF TypeOK, Return
    <3>5. ASSUME NEW s \in Reapers, NEW j \in Instances, NextTarget(s, j)
          PROVE  FALSE
      BY <1>3, <3>4, <3>5 DEF TypeOK, NextTarget
    <3>6. ASSUME NEW s \in Reapers, Judge(s)
          PROVE  Judge(r) /\ i \in Reapable(r) /\ snap' = snap
      <4>1. CASE Return(s)
        BY <3>4, <4>1
      <4>2. CASE ~Return(s)
        <5>1. targets' = [targets EXCEPT ![s] = Reapable(s)] /\ snap' = snap
          BY <3>6, <4>2 DEF Judge
        <5>2. s = r
          BY <1>3, <5>1 DEF TypeOK
        <5> QED
          BY <3>6, <5>1, <5>2 DEF TypeOK
      <4> QED
        BY <4>1, <4>2
    <3> QED
      BY <3>1, <3>2, <3>3, <3>4, <3>5, <3>6, <1>3, SnapChange
  <2>2. TrueRecord(HostOf[r], i, snap[r][i]) /\ ~PidAlive(HostOf[r], snap[r][i])
    BY <1>1, <2>1 DEF Reapable, IsStray, IsOrphan, SnapsTrue
  <2>3. owner[i] \in Launchers /\ owner'[i] = owner[i]
    BY <1>1, <2>2, OwnerStays DEF TrueRecord, TypeOK
  <2>4. pc[owner[i]] \notin Alive /\ pc[owner[i]] # "idle"
    BY <1>1, <2>2, <2>3 DEF PidAlive, TrueRecord, Births
  <2>5. pc[owner[i]] \in Ended
    BY <2>3, <2>4 DEF TypeOK, PCs
  <2> QED
    BY <2>3, <2>5, PcStays
<1> QED
  BY <1>2, <1>3

\* For every provider behaviour: an instance whose record a reaper read is among
\* its targets only when the launcher that wrote the record is over (status.py
\* ORPHAN), however old the reading and however the pids are reused.
THEOREM NoAttendedVerdict == Spec => []ReapSparesRecorded
<1>1. Init => ReapSparesRecorded
  BY DEF Init, ReapSparesRecorded
<1> QED
  BY <1>1, RecordsCorrect, VerdictStep, PTL DEF Spec

-----------------------------------------------------------------------------
(* What a teardown does to its own list, and nobody else to it *)

Down == {"final_sync", "destroy", "unrecord", "exited"}

LEMMA OtherSteps ==
  ASSUME TypeOK, [Next]_vars, NEW q \in Launchers,
         ~ \E p \in Launchers :
             \/ EnterTeardown(p) \/ FinalSync(p) \/ DestroyOk(p) \/ Sweep(p)
             \/ SweepFails(p) \/ DestroyFails(p) \/ Unrecord(p)
  PROVE  /\ UNCHANGED <<todo, victim, warned>>
         /\ pc'[q] = pc[q] \/ pc'[q] \notin Down
<1>1. UNCHANGED <<todo, victim, warned>>
  BY DEF Next, LauncherStep, TeardownAct, ReaperStep, Start, Post, GotId, WriteRecord,
      WaitReady, Stage, Finish, Fail, HandleInterrupt, SyncThread, SyncHangs, Signal, Kill,
      ProviderCreates, ProviderDrops, Preempt, ReadRecords, ListLive,
      ListLiveFails, Judge, ReapOk, ReapFails, ReaperDies, vars, provider,
      launcher, reaper
<1>2. ASSUME NEW p \in Launchers, LauncherStep(p)
      PROVE  pc' = pc \/ \E l \in PCs \ Down : Goto(p, l)
  BY <1>2 DEF LauncherStep, TeardownAct, Start, Post, GotId, WriteRecord, WaitReady, Stage,
      Finish, Fail, HandleInterrupt, SyncThread, SyncHangs, PCs, Alive,
      Body, Masked, Down
<1>3. ASSUME NEW p \in Launchers, Signal(p) \/ Kill(p)
      PROVE  pc' = pc \/ \E l \in PCs \ Down : Goto(p, l)
  BY <1>3 DEF Signal, Kill, End, PCs, Alive, Body, Ended, Down
<1>4. pc' = pc \/ \E p \in Launchers, l \in PCs \ Down : Goto(p, l)
  BY <1>2, <1>3, PcChange
<1> QED
  BY <1>1, <1>4 DEF TypeOK, Goto

LEMMA TeardownMoves ==
  ASSUME TypeOK, [Next]_vars, NEW q \in Launchers
  PROVE  \/ EnterTeardown(q) \/ FinalSync(q) \/ DestroyOk(q) \/ Sweep(q)
         \/ SweepFails(q) \/ DestroyFails(q) \/ Unrecord(q)
         \/ /\ todo'[q] = todo[q] /\ victim'[q] = victim[q] /\ warned'[q] = warned[q]
            /\ pc'[q] = pc[q] \/ pc'[q] \notin Down
<1> USE DEF TypeOK
<1>1. ASSUME NEW p \in Launchers, p # q,
             EnterTeardown(p) \/ FinalSync(p) \/ DestroyOk(p)
      PROVE  UNCHANGED <<todo[q], victim[q], warned[q], pc[q]>>
  BY <1>1 DEF EnterTeardown, FinalSync, DestroyOk, Goto
<1>2. ASSUME NEW p \in Launchers, NEW left, p # q, NextVictim(p, left)
      PROVE  UNCHANGED <<todo[q], victim[q], pc[q]>>
  BY <1>2 DEF NextVictim, Goto, End
<1>3. ASSUME NEW p \in Launchers, p # q, Sweep(p) \/ Unrecord(p)
      PROVE  UNCHANGED <<todo[q], victim[q], warned[q], pc[q]>>
  BY <1>2, <1>3 DEF Sweep, Unrecord
<1>4. ASSUME NEW p \in Launchers, p # q, SweepFails(p)
      PROVE  UNCHANGED <<todo[q], victim[q], warned[q], pc[q]>>
  BY <1>4 DEF SweepFails, End, Goto
<1>5. ASSUME NEW p \in Launchers, p # q, DestroyFails(p)
      PROVE  UNCHANGED <<todo[q], victim[q], warned[q], pc[q]>>
  BY <1>2, <1>5 DEF DestroyFails
<1> QED
  BY <1>1, <1>3, <1>4, <1>5, OtherSteps

LEMMA NextVictimMoves ==
  ASSUME TypeOK, NEW p \in Launchers, NEW left, NextVictim(p, left)
  PROVE  /\ todo'[p] = left
         /\ \/ left = {} /\ pc'[p] = "exited"
            \/ left # {} /\ pc'[p] = "destroy" /\ victim'[p] \in left
  BY DEF TypeOK, NextVictim, End, Goto

LEMMA VictimListedStep ==
  ASSUME TypeOK, VictimListed, [Next]_vars
  PROVE  VictimListed'
<1> SUFFICES ASSUME NEW p \in Launchers, pc'[p] \in {"final_sync", "destroy", "unrecord"}
             PROVE  victim'[p] \in todo'[p]
  BY DEF VictimListed
<1>1. CASE EnterTeardown(p)
  BY <1>1 DEF TypeOK, EnterTeardown, Goto
<1>2. CASE FinalSync(p) \/ SyncHangs(p) \/ DestroyOk(p)
  BY <1>2 DEF TypeOK, FinalSync, SyncHangs, DestroyOk, Goto, VictimListed
<1>3. CASE Sweep(p) \/ Unrecord(p)
  BY <1>3, NextVictimMoves DEF Sweep, Unrecord
<1>4. CASE DestroyFails(p)
  BY <1>4, NextVictimMoves DEF DestroyFails, VictimListed
<1>5. CASE SweepFails(p)
  BY <1>5 DEF TypeOK, SweepFails, End, Goto
<1> QED
  BY <1>1, <1>2, <1>3, <1>4, <1>5, TeardownMoves DEF VictimListed, Down

LEMMA DestroyedFirstStep ==
  ASSUME TypeOK, VictimListed, DestroyedFirst, [Next]_vars
  PROVE  DestroyedFirst'
<1> SUFFICES ASSUME NEW p \in Launchers, pc'[p] = "unrecord"
             PROVE  inst'[victim'[p]] = "gone"
  BY DEF DestroyedFirst
<1>1. CASE DestroyOk(p)
  BY <1>1 DEF TypeOK, DestroyOk, Terminate, VictimListed
<1>2. CASE EnterTeardown(p) \/ FinalSync(p) \/ SyncHangs(p)
  BY <1>2 DEF TypeOK, EnterTeardown, FinalSync, SyncHangs, Goto
<1>3. CASE Sweep(p) \/ Unrecord(p)
  BY <1>3, NextVictimMoves DEF Sweep, Unrecord
<1>4. CASE DestroyFails(p)
  BY <1>4, NextVictimMoves DEF DestroyFails
<1>5. CASE SweepFails(p)
  BY <1>5 DEF TypeOK, SweepFails, End, Goto
<1>6. CASE pc[p] = "unrecord" /\ victim'[p] = victim[p]
  <2>1. victim[p] \in Instances
    BY <1>6 DEF TypeOK, VictimListed
  <2> QED
    BY <1>6, <2>1, InstStays DEF DestroyedFirst
<1> QED
  BY <1>1, <1>2, <1>3, <1>4, <1>5, <1>6, TeardownMoves DEF Down

LEMMA TeardownInit == Init => TeardownInv
  BY DEF Init, TeardownInv, VictimListed, DestroyedFirst

LEMMA TeardownStep ==
  ASSUME TypeOK, TeardownInv, [Next]_vars
  PROVE  TeardownInv'
  BY VictimListedStep, DestroyedFirstStep DEF TeardownInv

-----------------------------------------------------------------------------
(* A record outlives its instance *)

LEMMA SoundSeenStep ==
  ASSUME RecordInv, SoundSeen, [Next]_vars,
         Faults \cap {"list_silent", "list_raise"} = {}
  PROVE  SoundSeen'
<1> USE DEF RecordInv
<1> SUFFICES ASSUME NEW r \in Reapers, NEW i \in Instances,
                    rpc'[r] = "judge", snap'[r][i] # None, i \notin seen'[r]
             PROVE  inst'[i] = "gone"
  BY DEF SoundSeen
<1>1. CASE rpc[r] = "judge" /\ snap'[r] = snap[r] /\ seen'[r] = seen[r]
  BY <1>1, InstStays DEF SoundSeen
<1>2. CASE ListLive(r)
  <2>1. snap[r][i] # None /\ i \notin LiveSet /\ inst' = inst
    BY <1>2 DEF ListLive, TypeOK, provider
  <2>2. inst[i] # "unborn"
    BY <2>1 DEF SnapsTrue, TrueRecord, Births
  <2> QED
    BY <2>1, <2>2 DEF LiveSet, TypeOK
<1>3. \/ rpc[r] = "judge" /\ snap'[r] = snap[r] /\ seen'[r] = seen[r]
      \/ ListLive(r)
  <2>1. CASE UNCHANGED <<rpc, snap, seen, targets>>
    BY <2>1
  <2>2. ASSUME NEW s \in Reapers, ReadRecords(s)
        PROVE  rpc[r] = "judge" /\ snap'[r] = snap[r] /\ seen'[r] = seen[r]
    BY <2>2 DEF TypeOK, ReadRecords, RGoto
  <2>3. ASSUME NEW s \in Reapers, ListLive(s), s # r
        PROVE  rpc[r] = "judge" /\ snap'[r] = snap[r] /\ seen'[r] = seen[r]
    BY <2>3 DEF TypeOK, ListLive, RGoto
  <2>4. ASSUME NEW s \in Reapers, ListLiveFails(s)
        PROVE  FALSE
    BY <2>4 DEF ListLiveFails
  <2>5. ASSUME NEW s \in Reapers, Return(s)
        PROVE  rpc[r] = "judge" /\ snap'[r] = snap[r] /\ seen'[r] = seen[r]
    BY <2>5 DEF TypeOK, Return, RGoto
  <2>6. ASSUME NEW s \in Reapers, Judge(s)
        PROVE  rpc[r] = "judge" /\ snap'[r] = snap[r] /\ seen'[r] = seen[r]
    BY <2>5, <2>6 DEF TypeOK, Judge, RGoto
  <2>7. ASSUME NEW s \in Reapers, NEW j \in Instances, NextTarget(s, j)
        PROVE  rpc[r] = "judge" /\ snap'[r] = snap[r] /\ seen'[r] = seen[r]
    BY <2>5, <2>7 DEF NextTarget
  <2> QED
    BY <2>1, <2>2, <2>3, <2>4, <2>5, <2>6, <2>7, SnapChange
<1> QED
  BY <1>1, <1>2, <1>3

LEMMA RecordGone ==
  ASSUME RecordInv, TeardownInv, SoundSeen, [Next]_vars,
         NEW h \in Hosts, NEW i \in Instances,
         record[h][i] # None, record'[h][i] = None
  PROVE  inst'[i] = "gone"
<1> USE DEF RecordInv, TeardownInv
<1>1. ASSUME NEW p \in Launchers, WriteRecord(p)
      PROVE  FALSE
  <2>1. PidOf[p] # None
    BY ConstantsAssumption
  <2> QED
    BY <1>1, <2>1 DEF TypeOK, WriteRecord
<1>2. ASSUME NEW p \in Launchers, Unrecord(p)
      PROVE  inst'[i] = "gone"
  <2>1. i = victim[p] /\ inst' = inst
    BY <1>2 DEF TypeOK, Unrecord, provider
  <2> QED
    BY <1>2, <2>1 DEF DestroyedFirst, Unrecord
<1>3. ASSUME NEW r \in Reapers, Judge(r)
      PROVE  inst'[i] = "gone"
  <2>1. IsStale(r, i) /\ inst' = inst /\ rpc[r] = "judge"
    BY <1>3 DEF TypeOK, Judge, provider
  <2> QED
    BY <2>1 DEF IsStale, SoundSeen
<1>4. ASSUME NEW r \in Reapers, NEW j \in Instances, ReapOk(r, j)
      PROVE  inst'[i] = "gone"
  <2>1. i = j
    BY <1>4 DEF TypeOK, ReapOk
  <2> QED
    BY <1>4, <2>1 DEF TypeOK, ReapOk, Terminate
<1> QED
  BY <1>1, <1>2, <1>3, <1>4, RecordChange

\* If listings are sound, nobody - teardown or reaper, however stale what it
\* read - removes the record of an instance that still bills (status.py STALE,
\* lease.py destroy before state.remove).
THEOREM RecordOutlives ==
  ASSUME Faults \cap {"list_silent", "list_raise"} = {}
  PROVE  Spec => RecordOutlivesInstance
<1> DEFINE Inv == RecordInv /\ TeardownInv /\ SoundSeen
<1>1. Init => Inv
  BY RecordInit, TeardownInit DEF Init, SoundSeen
<1>2. Inv /\ [Next]_vars => Inv'
  BY RecordStep, TeardownStep, SoundSeenStep DEF RecordInv
<1>3. Inv /\ [Next]_vars =>
        [\A h \in Hosts, i \in Instances :
           record[h][i] # None /\ record'[h][i] = None => inst'[i] = "gone"]_vars
  BY RecordGone
<1> QED
  BY <1>1, <1>2, <1>3, PTL DEF Spec, RecordOutlivesInstance

-----------------------------------------------------------------------------
(* A teardown destroys its own instances only *)

LEMMA StaysAlive ==
  ASSUME TypeOK, [Next]_vars, NEW p \in Launchers, pc'[p] \in Alive
  PROVE  pc[p] \in Alive \/ Start(p)
<1>1. CASE pc[p] = "idle"
  <2>1. PICK q \in Launchers : LauncherStep(q) \/ Signal(q) \/ Kill(q)
    BY <1>1, PcChange DEF Alive, Body, Masked
  <2>2. p = q \/ Start(q)
    <3>1. CASE \E l : Goto(q, l)
      BY <1>1, <2>1, <3>1 DEF TypeOK, Goto, Alive, Body, Masked
    <3>2. CASE pc' = pc
      BY <1>1, <3>2 DEF Alive, Body, Masked
    <3> QED
      BY <2>1, <3>1, <3>2, LauncherMoves, InterruptMoves
  <2>3. CASE Start(q)
    BY <1>1, <2>3 DEF TypeOK, Start, Goto, Alive, Body, Masked
  <2>4. CASE p = q /\ ~Start(q)
    BY <1>1, <2>1, <2>4, LauncherMoves, InterruptMoves DEF Alive, Body, Masked
  <2> QED
    BY <2>2, <2>3, <2>4
<1>2. CASE pc[p] \in Ended
  BY <1>2, PcStays DEF Alive, Body, Masked, Ended
<1> QED
  BY <1>1, <1>2 DEF TypeOK, PCs

LEMMA ExclusiveStep ==
  ASSUME TypeOK, Exclusive, [Next]_vars
  PROVE  Exclusive'
<1>1. ASSUME NEW p \in Launchers, NEW q \in Launchers, p # q, Start(p),
             pc'[q] \in Alive, HostOf[p] = HostOf[q], PidOf[p] = PidOf[q]
      PROVE  FALSE
  <2>1. pc[q] \in Alive
    BY <1>1 DEF TypeOK, Start, Goto
  <2> QED
    BY <1>1, <2>1 DEF Start, PidAlive
<1> QED
  BY <1>1, StaysAlive DEF Exclusive

\* One label never stands for launchers of two hosts: everything runs on one
\* machine, or the pids in use are disjoint.
OnePidSpace ==
  \A p, q \in Launchers : PidOf[p] = PidOf[q] => HostOf[p] = HostOf[q]

LEMMA OwnVictimsStep ==
  ASSUME RecordInv, Exclusive, OwnVictims, OnePidSpace, [Next]_vars
  PROVE  OwnVictims'
<1> USE DEF RecordInv
<1> SUFFICES ASSUME NEW p \in Launchers, NEW i \in todo'[p]
             PROVE  owner'[i] # None /\ (owner'[i] = p \/ pc'[owner'[i]] \in Ended)
  BY DEF OwnVictims
<1>1. i \in Instances
  BY TypeStep DEF TypeOK
<1>2. ASSUME owner[i] # None, owner[i] = p \/ pc[owner[i]] \in Ended
      PROVE  owner'[i] # None /\ (owner'[i] = p \/ pc'[owner'[i]] \in Ended)
  BY <1>1, <1>2, OwnerStays, PcStays DEF TypeOK
<1>3. CASE i \in todo[p]
  BY <1>2, <1>3 DEF OwnVictims
<1>4. CASE EnterTeardown(p) /\ i \notin todo[p]
  <2>1. i = id[p] /\ id[p] # None
    BY <1>4 DEF TypeOK, EnterTeardown
  <2> QED
    BY <1>2, <2>1, ConstantsAssumption DEF Ids
<1>5. CASE Sweep(p)
  <2>1. i \in SweptBy(p) /\ pc[p] \in Alive
    BY <1>5, NextVictimMoves DEF Sweep, Alive, Masked
  <2>2. owner[i] \in Launchers /\ owner[i] # None /\ PidOf[owner[i]] = PidOf[p]
    BY <1>1, <2>1 DEF SweptBy, Labelled, LabelOf, TypeOK
  <2>3. HostOf[owner[i]] = HostOf[p]
    BY <2>2 DEF OnePidSpace
  <2>4. owner[i] = p \/ pc[owner[i]] \notin Alive
    BY <2>1, <2>2, <2>3 DEF Exclusive
  <2>5. pc[owner[i]] # "idle"
    BY <1>1, <2>2 DEF Births
  <2> QED
    BY <1>2, <2>2, <2>4, <2>5 DEF TypeOK, PCs
<1>6. CASE Unrecord(p)
  <2>1. i \in OtherVictims(p)
    BY <1>6, NextVictimMoves DEF Unrecord
  <2> QED
    BY <1>3, <2>1 DEF OtherVictims
<1>7. CASE DestroyFails(p)
  <2>1. i \in todo[p] \/ i \in OtherVictims(p)
    BY <1>7, NextVictimMoves DEF DestroyFails
  <2> QED
    BY <1>3, <2>1 DEF OtherVictims
<1>8. CASE FinalSync(p) \/ SyncHangs(p) \/ DestroyOk(p) \/ SweepFails(p)
  BY <1>3, <1>8 DEF FinalSync, SyncHangs, DestroyOk, SweepFails
<1> QED
  BY <1>3, <1>4, <1>5, <1>6, <1>7, <1>8, TeardownMoves

\* On one machine a teardown destroys no instance of a launcher that is alive,
\* though a pid, and so a label, may come again later (lease.py label and sweep).
THEOREM TeardownOwn ==
  ASSUME OnePidSpace
  PROVE  Spec => []LauncherDestroysOwn
<1> DEFINE Inv == RecordInv /\ TeardownInv /\ Exclusive /\ OwnVictims
<1>1. Init => Inv
  <2>1. Init => Exclusive /\ OwnVictims
    BY DEF Init, Exclusive, OwnVictims, Alive, Body, Masked
  <2> QED
    BY <2>1, RecordInit, TeardownInit
<1>2. Inv /\ [Next]_vars => Inv'
  BY RecordStep, TeardownStep, ExclusiveStep, OwnVictimsStep DEF RecordInv
<1>3. Inv => LauncherDestroysOwn
  BY DEF TeardownInv, VictimListed, OwnVictims, LauncherDestroysOwn
<1> QED
  BY <1>1, <1>2, <1>3, PTL DEF Spec

-----------------------------------------------------------------------------
(* A launcher that finishes its teardown has given everything back *)

LEMMA OneEachStep ==
  ASSUME RecordInv, OneEach, [Next]_vars
  PROVE  OneEach'
<1> USE DEF RecordInv
<1>1. ASSUME NEW p \in Launchers, posted'[p] \/ pc'[p] = "provision",
             NEW i \in Instances, owner'[i] = p
      PROVE  FALSE
  <2>1. p # None
    BY ConstantsAssumption
  <2>2. CASE owner[i] = p
    <3>1. pc[p] \notin {"idle", "provision"} /\ ~posted[p]
      BY <2>1, <2>2 DEF Births, OneEach
    <3>2. posted'[p]
      BY <1>1, <3>1, PcStays
    <3>3. \E q \in Launchers : Post(q)
      BY <3>1, <3>2, PostedChange DEF TypeOK
    <3> QED
      BY <3>1, <3>2, <3>3 DEF TypeOK, Post
  <2>3. CASE owner[i] # p
    <3>1. PICK q \in Launchers : ProviderCreates(q)
      BY <1>1, <2>3, OwnerChange
    <3>2. p = q
      BY <1>1, <2>3, <3>1 DEF TypeOK, ProviderCreates
    <3> QED
      BY <1>1, <3>1, <3>2 DEF TypeOK, ProviderCreates, Births
  <2> QED
    BY <2>2, <2>3
<1>2. ASSUME NEW i \in Instances, NEW j \in Instances,
             owner'[i] # None, owner'[i] = owner'[j]
      PROVE  i = j
  <2>1. CASE owner' = owner
    BY <1>2, <2>1 DEF OneEach
  <2>2. ASSUME NEW p \in Launchers, ProviderCreates(p)
        PROVE  i = j
    <3>1. \A k \in Instances : owner[k] # p
      BY <2>2 DEF ProviderCreates, OneEach
    <3>2. PICK n \in Instances : owner' = [owner EXCEPT ![n] = p]
      BY <2>2 DEF ProviderCreates
    <3> QED
      BY <1>2, <3>1, <3>2 DEF TypeOK, OneEach
  <2> QED
    BY <2>1, <2>2, OwnerChange
<1> QED
  BY <1>1, <1>2 DEF OneEach

LEMMA AccountedStep ==
  ASSUME RecordInv, TeardownInv, OneEach, Accounted, [Next]_vars,
         Faults \cap {"list_silent", "late_create"} = {}
  PROVE  Accounted'
<1> USE DEF RecordInv
<1> DEFINE Counted(q, i) ==
      /\ pc[q] \in {"final_sync", "destroy", "unrecord"} => i \in todo[q] \/ warned[q]
      /\ pc[q] = "exited" => warned[q]
<1> SUFFICES ASSUME NEW i \in Instances, owner'[i] # None, inst'[i] = "live"
             PROVE  Counted(owner[i], i)'
  BY DEF Accounted
<1>1. CASE owner[i] = None
  <2>1. PICK p \in Launchers : ProviderCreates(p)
    BY <1>1, OwnerChange
  <2>2. owner'[i] = p /\ pc'[p] = "posted"
    BY <1>1, <2>1 DEF TypeOK, ProviderCreates
  <2> QED
    BY <2>2
<1>2. CASE owner[i] # None
  <2>1. PICK q \in Launchers : owner[i] = q /\ owner'[i] = q
    BY <1>2, OwnerStays DEF TypeOK
  <2>2. inst[i] = "live"
    BY <1>2, InstStays DEF TypeOK, Births
  <2>3. Counted(q, i)
    BY <1>2, <2>1, <2>2 DEF Accounted
  <2> SUFFICES Counted(q, i)'
    BY <2>1
  <2>4. CASE EnterTeardown(q)
    <3>1. pc'[q] = "sweep" \/ (pc'[q] \in {"final_sync", "destroy"} /\ id[q] # None /\ todo'[q] = {id[q]})
      BY <2>1, <2>4 DEF TypeOK, EnterTeardown, Goto
    <3>2. id[q] # None => id[q] = i
      BY <1>2, <2>1 DEF Ids, OneEach, TypeOK
    <3> QED
      BY <2>1, <3>1, <3>2
  <2>5. CASE FinalSync(q) \/ DestroyOk(q)
    BY <2>1, <2>3, <2>5 DEF TypeOK, FinalSync, SyncHangs, DestroyOk, Goto
  <2>6. CASE Sweep(q)
    <3>1. i \in SweptBy(q) /\ NextVictim(q, SweptBy(q))
      BY <1>2, <2>1, <2>2, <2>6 DEF Sweep, SweptBy, LiveSet, Labelled
    <3> QED
      BY <2>1, <3>1, NextVictimMoves
  <2>7. CASE SweepFails(q)
    BY <2>1, <2>7 DEF TypeOK, SweepFails
  <2>8. CASE DestroyFails(q)
    <3>1. warned'[q] \/ (pc'[q] = "destroy" /\ todo'[q] = todo[q] /\ warned'[q] = warned[q])
      BY <2>1, <2>8 DEF TypeOK, DestroyFails
    <3> QED
      BY <2>1, <2>3, <2>8, <3>1 DEF DestroyFails
  <2>9. CASE Unrecord(q)
    <3>1. i # victim[q]
      BY <2>1, <2>2, <2>9 DEF TeardownInv, DestroyedFirst, Unrecord
    <3>2. i \in OtherVictims(q) \/ warned[q]
      BY <2>3, <2>9, <3>1 DEF OtherVictims, Unrecord
    <3>3. NextVictim(q, OtherVictims(q)) /\ warned' = warned
      BY <2>9 DEF Unrecord
    <3> QED
      BY <2>1, <3>2, <3>3, NextVictimMoves
  <2>10. CASE /\ todo'[q] = todo[q] /\ warned'[q] = warned[q]
              /\ pc'[q] = pc[q] \/ pc'[q] \notin Down
    BY <2>3, <2>10 DEF Down
  <2> QED
    BY <2>1, <2>4, <2>5, <2>6, <2>7, <2>8, <2>9, <2>10, TeardownMoves
<1> QED
  BY <1>1, <1>2

\* If a failed listing is noticed and no request takes effect after its client
\* gave up, a launcher that reached the end of its teardown - through whatever
\* signals and failures - left nothing billing without a warning (lease.py).
THEOREM CleanExit ==
  ASSUME Faults \cap {"list_silent", "late_create"} = {}
  PROVE  Spec => []CleanExitReleases
<1> DEFINE Inv == RecordInv /\ TeardownInv /\ OneEach /\ Accounted
<1>1. Init => Inv
  <2>1. Init => OneEach /\ Accounted
    BY ConstantsAssumption DEF Init, OneEach, Accounted
  <2> QED
    BY <2>1, RecordInit, TeardownInit
<1>2. Inv /\ [Next]_vars => Inv'
  BY RecordStep, TeardownStep, OneEachStep, AccountedStep DEF RecordInv
<1>3. Inv => CleanExitReleases
  <2> SUFFICES ASSUME Inv, NEW p \in Launchers, pc[p] = "exited", ~warned[p],
                      NEW i \in Instances, owner[i] = p
               PROVE  inst[i] = "gone"
    BY DEF CleanExitReleases
  <2>1. owner[i] # None
    BY ConstantsAssumption
  <2> QED
    BY <2>1 DEF RecordInv, TypeOK, Births, Accounted
<1> QED
  BY <1>1, <1>2, <1>3, PTL DEF Spec
=============================================================================
