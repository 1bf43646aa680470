------------------------------ MODULE GpuLease ------------------------------
(***************************************************************************)
(* scripts/gpu-lease.sh and scripts/gpu-status.sh: agents share the cards  *)
(* of one box through one flock per card.                                  *)
(*                                                                         *)
(* An flock belongs to an open file description.  The script opens it, the *)
(* command it runs and the background holder of --detach inherit it, and   *)
(* the card is free again when the last of them has closed it.  The .info  *)
(* file beside each lock is a label for people, written and removed apart  *)
(* from the lock.                                                          *)
(***************************************************************************)
EXTENDS Naturals, FiniteSets

CONSTANTS
  Jobs,       \* runs of gpu-lease.sh
  Probes,     \* runs of gpu-status.sh
  NCards,     \* LEASABLE cards, tried in ascending order
  Want,       \* -n of each job
  Mode,       \* "wait", "nowait" or "timeout" of each job
  Detached,   \* jobs with --detach
  Contained,  \* jobs whose workload lives in containers of the docker daemon
  Mortal,     \* jobs whose script may be killed (Ctrl-C, SIGKILL)
  Faults,     \* what else may go wrong, see FaultKinds
  None

\* partial_up: `up -d` fails after it started some containers
\* blind_ps:   30 tries of `compose -p ... ps -q` name no container of a job that
\*             has some: docker errors, or containers of another project
\* restart:    docker wait returns though a container is up again, or was all along
\* kill_cli:   the docker CLI that waits for a container is killed
FaultKinds == {"partial_up", "blind_ps", "restart", "kill_cli"}

ASSUME LeaseAssumption ==
  /\ NCards \in Nat
  /\ Want \in [Jobs -> 1 .. NCards]
  /\ Mode \in [Jobs -> {"wait", "nowait", "timeout"}]
  /\ Detached \subseteq Contained /\ Contained \subseteq Jobs
  /\ Mortal \subseteq Jobs
  /\ Faults \subseteq FaultKinds
  /\ None \notin Jobs

Cards == 1 .. NCards

VARIABLES
  pc,      \* where the script (or after it the holder) of each job is
  next,    \* the card the pass of try_acquire comes to
  cards,   \* held_cards, later the device list of the command's environment
  script, cmd, holder,   \* cards whose lock file these processes have open
  left,    \* cards the current loop of the script still has to treat
  over,    \* the command was run: the release is the last one
  work,    \* the workload: "none", "up", "stray" (up, and nobody waits for its end
           \* any more) or "down"
  info,    \* gpu<c>.info: the job named in it
  at,      \* gpu-status: the card it comes to, 0 when it is not running
  grip     \* gpu-status has the lock of that card

fds  == <<script, cmd, holder>>
job  == <<pc, next, cards, fds, left, over, work>>
probe == <<at, grip>>
vars == <<job, info, probe>>

Scripted == {"try", "close", "rm", "sleep", "label", "run", "resolve"}
PCs == Scripted \cup {"idle", "busy", "held", "unlabel", "done", "killed"}

\* The job is past try_acquire: its locks are a lease.
Leased(j) == pc[j] = "label" \/ over[j]

\* Whoever waited for the workload of j, or was to, does so no longer.
LetGo(j) == IF work[j] = "up" THEN [work EXCEPT ![j] = "stray"] ELSE work

\* The lock goes with the last copy of the descriptor.
Held(j) == script[j] \cup cmd[j] \cup holder[j]

IsFreeBug(c) == \A j \in Jobs : c \notin script[j]

IsFree(c) ==
  /\ \A j \in Jobs : c \notin Held(j)
  /\ \A q \in Probes : ~(grip[q] /\ at[q] = c)

Lowest(S) == CHOOSE c \in S : \A d \in S : c <= d

Init ==
  /\ pc = [j \in Jobs |-> "idle"]
  /\ next = [j \in Jobs |-> 1]
  /\ cards = [j \in Jobs |-> {}]
  /\ script = [j \in Jobs |-> {}]
  /\ cmd = [j \in Jobs |-> {}]
  /\ holder = [j \in Jobs |-> {}]
  /\ left = [j \in Jobs |-> {}]
  /\ over = [j \in Jobs |-> FALSE]
  /\ work = [j \in Jobs |-> "none"]
  /\ info = [c \in Cards |-> None]
  /\ at = [q \in Probes |-> 0]
  /\ grip = [q \in Probes |-> FALSE]

Goto(j, l) == pc' = [pc EXCEPT ![j] = l]

-----------------------------------------------------------------------------
(* Acquisition *)

\* try_acquire begins, first or after a sleep.
BeginPass(j) ==
  /\ pc[j] \in {"idle", "sleep"}
  /\ Goto(j, "try")
  /\ cards' = [cards EXCEPT ![j] = {}]
  /\ UNCHANGED <<next, fds, left, over, work, info, probe>>

EnoughBug(j) == cards[j] # {}

Enough(j) == Cardinality(cards[j]) >= Want[j]

\* flock -n -x on the next card: got it, or close the fd and go on.
TryCard(j) ==
  /\ pc[j] = "try" /\ ~Enough(j) /\ next[j] \in Cards
  /\ \/ /\ IsFree(next[j])
        /\ script' = [script EXCEPT ![j] = @ \cup {next[j]}]
        /\ cards' = [cards EXCEPT ![j] = @ \cup {next[j]}]
     \/ /\ ~IsFree(next[j])
        /\ UNCHANGED <<script, cards>>
  /\ next' = [next EXCEPT ![j] = @ + 1]
  /\ UNCHANGED <<pc, cmd, holder, left, over, work, info, probe>>

\* Exactly N cards: the lease is granted.
Acquired(j) ==
  /\ pc[j] = "try" /\ Enough(j)
  /\ Goto(j, "label")
  /\ left' = [left EXCEPT ![j] = cards[j]]
  /\ next' = [next EXCEPT ![j] = 1]
  /\ UNCHANGED <<cards, fds, over, work, info, probe>>

FallShortBug(j) ==
  /\ pc[j] = "try" /\ ~Enough(j) /\ next[j] \notin Cards
  /\ Goto(j, "rm")
  /\ next' = [next EXCEPT ![j] = 1]
  /\ UNCHANGED <<cards, fds, left, over, work, info, probe>>

\* Fewer: release_held.
FallShort(j) ==
  /\ pc[j] = "try" /\ ~Enough(j) /\ next[j] \notin Cards
  /\ Goto(j, "close")
  /\ left' = [left EXCEPT ![j] = cards[j]]
  /\ next' = [next EXCEPT ![j] = 1]
  /\ UNCHANGED <<cards, fds, over, work, info, probe>>

-----------------------------------------------------------------------------
(* release_held: close the fds, then remove the labels *)

CloseFd(j) ==
  /\ pc[j] = "close" /\ left[j] # {}
  /\ left' = [left EXCEPT ![j] = @ \ {Lowest(@)}]
  /\ script' = [script EXCEPT ![j] = @ \ {Lowest(left[j])}]
  /\ UNCHANGED <<cmd, holder, pc, next, cards, over, work, info, probe>>

ClosedAll(j) ==
  /\ pc[j] = "close" /\ left[j] = {}
  /\ left' = [left EXCEPT ![j] = cards[j]]
  /\ Goto(j, "rm")
  /\ UNCHANGED <<next, cards, fds, over, work, info, probe>>

RmInfo(j) ==
  /\ pc[j] = "rm" /\ left[j] # {}
  /\ info' = [info EXCEPT ![Lowest(left[j])] = None]
  /\ left' = [left EXCEPT ![j] = @ \ {Lowest(@)}]
  /\ UNCHANGED <<pc, next, cards, fds, over, work, probe>>

\* After the last release the script exits; after a short pass it exits 75 or
\* sleeps, as the mode says (timeout: the time may or may not be up).
Released(j) ==
  /\ pc[j] = "rm" /\ left[j] = {}
  /\ \/ over[j] /\ Goto(j, "done")
     \/ ~over[j] /\ Mode[j] # "wait" /\ Goto(j, "busy")
     \/ ~over[j] /\ Mode[j] # "nowait" /\ Goto(j, "sleep")
  /\ UNCHANGED <<next, cards, fds, left, over, work, info, probe>>

-----------------------------------------------------------------------------
(* The lease *)

\* The descriptive sidecar of the next card.
WriteInfo(j) ==
  /\ pc[j] = "label" /\ left[j] # {}
  /\ info' = [info EXCEPT ![Lowest(left[j])] = j]
  /\ left' = [left EXCEPT ![j] = @ \ {Lowest(@)}]
  /\ UNCHANGED <<pc, next, cards, fds, over, work, probe>>

Running(j) == cmd[j] # {}

\* The command starts and inherits the fds.  The workload is up with it, or
\* when the containers it asks for are.
RunCommand(j) ==
  /\ pc[j] = "label" /\ left[j] = {}
  /\ Goto(j, "run")
  /\ cmd' = [cmd EXCEPT ![j] = script[j]]
  /\ over' = [over EXCEPT ![j] = TRUE]
  /\ work' = [work EXCEPT ![j] = IF j \in Contained THEN "none" ELSE "up"]
  /\ UNCHANGED <<script, holder, next, cards, left, info, probe>>

\* dockerd starts the containers of a command that is still there.
ContainersUp(j) ==
  /\ j \in Contained /\ Running(j) /\ work[j] = "none"
  /\ work' = [work EXCEPT ![j] = "up"]
  /\ UNCHANGED <<pc, next, cards, fds, left, over, info, probe>>

\* The workload comes to its end.  A foreground command ends with it.
WorkEnds(j) ==
  /\ work[j] \in {"up", "stray"}
  /\ work' = [work EXCEPT ![j] = "down"]
  /\ UNCHANGED <<pc, next, cards, fds, left, over, info, probe>>

\* The command exits and closes what it inherited.
CommandExits(j) == cmd' = [cmd EXCEPT ![j] = {}] /\ UNCHANGED <<script, holder>>

\* The foreground command exits: with its workload, or without having one.
ForegroundEnds(j) ==
  /\ j \notin Detached /\ Running(j)
  /\ work[j] = "down" \/ (j \in Contained /\ work[j] = "none")
  /\ CommandExits(j)
  /\ UNCHANGED <<pc, next, cards, left, over, work, info, probe>>

\* trap release_held EXIT, after the command.
CommandSeen(j) ==
  /\ pc[j] = "run" /\ j \notin Detached /\ ~Running(j)
  /\ Goto(j, "close")
  /\ left' = [left EXCEPT ![j] = cards[j]]
  /\ UNCHANGED <<next, cards, fds, over, work, info, probe>>

-----------------------------------------------------------------------------
(* --detach *)

\* `up -d` returns 0, its containers up or already down again...
UpReturns(j) ==
  /\ j \in Detached /\ Running(j) /\ work[j] # "none"
  /\ CommandExits(j)
  /\ \/ pc[j] = "run" /\ Goto(j, "resolve") /\ UNCHANGED work
     \/ pc[j] # "run" /\ UNCHANGED pc /\ work' = LetGo(j)   \* the script is dead
  /\ UNCHANGED <<next, cards, left, over, info, probe>>

\* ...or fails, having started nothing, or not everything.
UpFails(j) ==
  /\ j \in Detached /\ Running(j)
  /\ work[j] = "up" => "partial_up" \in Faults
  /\ CommandExits(j)
  /\ work' = LetGo(j)
  /\ \/ pc[j] = "run" /\ Goto(j, "close") /\ left' = [left EXCEPT ![j] = cards[j]]
     \/ pc[j] # "run" /\ UNCHANGED <<pc, left>>
  /\ UNCHANGED <<next, cards, over, info, probe>>

HandOverBug(j) ==
  /\ pc[j] = "resolve" /\ work[j] = "up"
  /\ script' = [script EXCEPT ![j] = {}]
  /\ Goto(j, "held")
  /\ UNCHANGED <<cmd, holder, next, cards, left, over, work, info, probe>>

\* docker compose ps -q names containers: the holder is forked with the fds,
\* the script exits.
HandOver(j) ==
  /\ pc[j] = "resolve" /\ work[j] = "up"
  /\ holder' = [holder EXCEPT ![j] = script[j]]
  /\ script' = [script EXCEPT ![j] = {}]
  /\ UNCHANGED cmd
  /\ Goto(j, "held")
  /\ UNCHANGED <<next, cards, left, over, work, info, probe>>

\* It names none, for whatever reason (2>/dev/null || true): a warning,
\* release_held, exit 1.
NoContainer(j) ==
  /\ pc[j] = "resolve"
  /\ work[j] = "down" \/ "blind_ps" \in Faults
  /\ Goto(j, "close")
  /\ left' = [left EXCEPT ![j] = cards[j]]
  /\ work' = LetGo(j)
  /\ UNCHANGED <<next, cards, fds, over, info, probe>>

\* docker wait returns: the containers stopped, and were perhaps restarted, or
\* the daemon is gone.
WaitReturns(j) ==
  /\ pc[j] = "held"
  /\ work[j] = "down" \/ "restart" \in Faults
  /\ Goto(j, "unlabel")
  /\ work' = LetGo(j)
  /\ UNCHANGED <<next, cards, fds, left, over, info, probe>>

\* rm -f $infos, one command.
HolderRm(j) ==
  /\ pc[j] = "unlabel" /\ \E c \in cards[j] : info[c] # None
  /\ info' = [c \in Cards |-> IF c \in cards[j] THEN None ELSE info[c]]
  /\ UNCHANGED <<job, probe>>

HolderExits(j) ==
  /\ pc[j] = "unlabel" /\ \A c \in cards[j] : info[c] = None
  /\ holder' = [holder EXCEPT ![j] = {}]
  /\ Goto(j, "done")
  /\ UNCHANGED <<script, cmd, next, cards, left, over, work, info, probe>>

-----------------------------------------------------------------------------
(* Sudden ends *)

\* The script dies; the kernel closes its fds, its children live on.  Once
\* `up -d` has returned nobody but the script knows of the containers.
KillScript(j) ==
  /\ j \in Mortal /\ pc[j] \in Scripted
  /\ script' = [script EXCEPT ![j] = {}]
  /\ Goto(j, "killed")
  /\ work' = IF pc[j] = "resolve" THEN LetGo(j) ELSE work
  /\ UNCHANGED <<cmd, holder, next, cards, left, over, info, probe>>

\* SIGTERM to the script while the command runs: bash runs the EXIT trap and
\* dies without waiting.
Terminated(j) ==
  /\ j \in Mortal \ Detached /\ pc[j] = "run"
  /\ Goto(j, "close")
  /\ left' = [left EXCEPT ![j] = cards[j]]
  /\ UNCHANGED <<next, cards, fds, over, work, info, probe>>

\* The docker CLI of a foreground `compose run` dies; the container does not.
KillCli(j) ==
  /\ "kill_cli" \in Faults /\ j \in Contained \ Detached /\ Running(j)
  /\ CommandExits(j)
  /\ work' = LetGo(j)
  /\ UNCHANGED <<pc, next, cards, left, over, info, probe>>

-----------------------------------------------------------------------------
(* gpu-status.sh *)

\* A probe comes to its first card, or to the next one.
GoOn(q) == at' = [at EXCEPT ![q] = IF @ < NCards THEN @ + 1 ELSE 0]

ProbeStart(q) ==
  /\ at[q] = 0 /\ NCards > 0
  /\ GoOn(q)
  /\ UNCHANGED <<job, info, grip>>

ProbeTryBug(q) ==
  /\ at[q] # 0 /\ ~grip[q]
  /\ grip' = [grip EXCEPT ![q] = TRUE]
  /\ UNCHANGED <<at, job, info>>

ProbeTry(q) ==
  /\ at[q] # 0 /\ ~grip[q]
  /\ \/ IsFree(at[q]) /\ grip' = [grip EXCEPT ![q] = TRUE] /\ UNCHANGED at
     \/ ~IsFree(at[q]) /\ GoOn(q) /\ UNCHANGED grip      \* BUSY, print its label
  /\ UNCHANGED <<job, info>>

\* FREE: any label is stale.
ProbeRm(q) ==
  /\ grip[q] /\ info[at[q]] # None
  /\ info' = [info EXCEPT ![at[q]] = None]
  /\ UNCHANGED <<job, probe>>

ProbeClose(q) ==
  /\ grip[q] /\ info[at[q]] = None
  /\ grip' = [grip EXCEPT ![q] = FALSE]
  /\ GoOn(q)
  /\ UNCHANGED <<job, info>>

-----------------------------------------------------------------------------
ScriptStep(j) ==
  \/ BeginPass(j) \/ TryCard(j) \/ Acquired(j) \/ FallShort(j)
  \/ CloseFd(j) \/ ClosedAll(j) \/ RmInfo(j) \/ Released(j)
  \/ WriteInfo(j) \/ RunCommand(j) \/ CommandSeen(j)
  \/ HandOver(j) \/ NoContainer(j) \/ WaitReturns(j)
  \/ HolderRm(j) \/ HolderExits(j)

CommandStep(j) ==
  ContainersUp(j) \/ WorkEnds(j) \/ ForegroundEnds(j) \/ UpReturns(j) \/ UpFails(j)

ProbeStep(q) == ProbeStart(q) \/ ProbeTry(q) \/ ProbeRm(q) \/ ProbeClose(q)

Next ==
  \/ \E j \in Jobs : \/ ScriptStep(j) \/ CommandStep(j)
                     \/ KillScript(j) \/ Terminated(j) \/ KillCli(j)
  \/ \E q \in Probes : ProbeStep(q)

Spec == Init /\ [][Next]_vars

\* Processes that can take a step get the processor; a workload may run for ever.
Fairness ==
  \A j \in Jobs : /\ WF_vars(ScriptStep(j))
                  /\ WF_vars(ForegroundEnds(j) \/ UpReturns(j) \/ UpFails(j) \/ ContainersUp(j))

FairSpec == Spec /\ Fairness

-----------------------------------------------------------------------------
(* Properties *)

TypeOK ==
  /\ pc \in [Jobs -> PCs]
  /\ next \in [Jobs -> 1 .. NCards + 1]
  /\ cards \in [Jobs -> SUBSET Cards]
  /\ script \in [Jobs -> SUBSET Cards]
  /\ cmd \in [Jobs -> SUBSET Cards]
  /\ holder \in [Jobs -> SUBSET Cards]
  /\ left \in [Jobs -> SUBSET Cards]
  /\ over \in [Jobs -> BOOLEAN]
  /\ work \in [Jobs -> {"none", "up", "stray", "down"}]
  /\ info \in [Cards -> Jobs \cup {None}]
  /\ at \in [Probes -> 0 .. NCards]
  /\ grip \in [Probes -> BOOLEAN]

\* A card a workload runs on is BUSY for as long as anybody is left to wait for
\* its end: through the hand-over from script to holder, deaths of the script, and
\* the trap that closes the script's descriptors while the command goes on.
UsedIsBusy == \A j \in Jobs : work[j] = "up" => cards[j] \subseteq Held(j)

\* What the locks are for: whatever was let go before, jobs come and go one at a
\* time on the cards, each with the number of cards it asked for.
using == [j \in Jobs |-> IF work[j] = "up" THEN cards[j] ELSE {}]
Arbiter == INSTANCE DeviceArbiter
OneJobPerCard == Arbiter!Spec

\* "Lock lifetime == container lifetime" (gpu-lease.sh:24): the cards of a workload
\* that runs are locked.  Does not hold, see README: a script that finds no
\* container releases the lease with the containers up.
LockIsLifetime ==
  \A j \in Jobs : work[j] \in {"up", "stray"} => cards[j] \subseteq Held(j)

\* gpu-status cleans up labels of crashed holders only: the label of a locked
\* card is removed by a process of the locker's own job, or by a release_held.
ProbeSparesHolder ==
  [][job' = job =>
       \A c \in Cards, j \in Jobs :
         (c \in Held(j) /\ info'[c] # info[c]) => pc[j] = "unlabel"]_vars

\* No lock outlives its purpose: one without a workload that somebody waits for
\* is released, whoever crashed, was killed, failed or fell short.
LocksComeBack ==
  \A j \in Jobs : (Held(j) # {} /\ work[j] # "up") ~> (Held(j) = {} \/ work[j] = "up")

\* gpu-status names the job that works on a BUSY card: once written, the label
\* stays while the job's command runs.  Does not hold, see README: the job before
\* it on the card closes its lock first and removes the label afterwards.
LabelStays ==
  [][\A j \in Jobs, c \in Cards :
       (pc[j] = "run" /\ pc'[j] = "run" /\ info[c] = j) => info'[c] = j]_vars
=============================================================================
