---------------------------- MODULE CloudLeaseInv ----------------------------
(***************************************************************************)
(* The inductive invariants behind the safety properties of CloudLease,    *)
(* in the groups CloudLeaseProofs proves them in.                          *)
(***************************************************************************)
EXTENDS CloudLease

\* An owned instance was created, and only a launcher that reached its POST has
\* a request at the provider.
Births ==
  /\ \A i \in Instances :
       owner[i] # None => inst[i] # "unborn" /\ pc[owner[i]] # "idle"
  /\ \A p \in Launchers : posted[p] => pc[p] \notin {"idle", "provision"}

\* A launcher's id is that of an instance of its own.
Ids == \A p \in Launchers : id[p] # None => owner[id[p]] = p

\* n is what the owner of i would write on host h.
TrueRecord(h, i, n) ==
  owner[i] # None /\ HostOf[owner[i]] = h /\ PidOf[owner[i]] = n

RecordsTrue ==
  \A h \in Hosts, i \in Instances :
    record[h][i] # None => TrueRecord(h, i, record[h][i])

SnapsTrue ==
  \A r \in Reapers, i \in Instances :
    snap[r][i] # None => TrueRecord(HostOf[r], i, snap[r][i])

\* A reaper has targets only while it reaps.
TargetsOnlyInReap ==
  \A r \in Reapers : rpc[r] # "reap" => targets[r] = {}

\* Group 1: whatever the provider does, records say who launched what.
RecordInv == TypeOK /\ Births /\ Ids /\ RecordsTrue /\ SnapsTrue /\ TargetsOnlyInReap

\* A teardown works on instances it listed, and removes a record only after the
\* destroy.
VictimListed ==
  \A p \in Launchers :
    pc[p] \in {"final_sync", "destroy", "unrecord"} => victim[p] \in todo[p]

DestroyedFirst ==
  \A p \in Launchers : pc[p] = "unrecord" => inst[victim[p]] = "gone"

\* What was recorded and is missing from the listing is gone.
SoundSeen ==
  \A r \in Reapers, i \in Instances :
    rpc[r] = "judge" /\ snap[r][i] # None /\ i \notin seen[r] => inst[i] = "gone"

\* Group 2: a teardown's bookkeeping.
TeardownInv == VictimListed /\ DestroyedFirst

\* A live pid belongs to one process of its host.
Exclusive ==
  \A p, q \in Launchers :
    pc[p] \in Alive /\ pc[q] \in Alive /\ HostOf[p] = HostOf[q] /\ PidOf[p] = PidOf[q]
      => p = q

OwnVictims ==
  \A p \in Launchers : \A i \in todo[p] :
    owner[i] # None /\ (owner[i] = p \/ pc[owner[i]] \in Ended)

\* A launcher creates one instance at most, and none before its POST.
OneEach ==
  /\ \A i, j \in Instances : owner[i] # None /\ owner[i] = owner[j] => i = j
  /\ \A p \in Launchers : posted[p] \/ pc[p] = "provision" =>
       \A i \in Instances : owner[i] # p

\* A live instance of a launcher past the start of its teardown is still on the
\* list, or was warned of.
Accounted ==
  \A i \in Instances : owner[i] # None /\ inst[i] = "live" =>
    LET p == owner[i] IN
    /\ pc[p] \in {"final_sync", "destroy", "unrecord"} => i \in todo[p] \/ warned[p]
    /\ pc[p] = "exited" => warned[p]
=============================================================================
