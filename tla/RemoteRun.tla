----------------------------- MODULE RemoteRun ------------------------------
(***************************************************************************)
(* The training command of a cloud lease on its box: ssh.py run_detached   *)
(* starts it in a session of its own and polls it over connections that    *)
(* may drop; lease.py starts it again when it fails.  On the box a shell   *)
(* runs the trainer, then writes the exit code to _run.rc and ends.        *)
(***************************************************************************)
EXTENDS Integers, FiniteSets

CONSTANTS
    Restarts,     \* --restart-on-crash
    MaxSilent,    \* failed polls in a row that max_unreachable outlasts
    MaxOutput,    \* bound on the log of one run
    Codes,        \* exit codes of the trainer
    Faults        \* of "drop", "outage", "reboot", "kill_shell", "reuse"

ASSUME ParamsAssumption ==
    /\ Restarts \in Nat /\ MaxSilent \in Nat /\ MaxOutput \in Nat
    /\ Codes \subseteq 0..123

VARIABLES
    pc,           \* the launcher
    attempt,      \* of the restart loop
    seen,         \* what the poll has read so far: [pid, rc]
    printed,      \* offset of run_detached: log output shown
    silent,       \* polls that failed since last_ok
    rets,         \* what run_detached returned for each attempt
    runs,         \* the shell and trainer of each attempt: [st, code, out]
    rcFile,       \* _run.rc
    reused        \* attempts whose pid another process got

vars == <<pc, attempt, seen, printed, silent, rets, runs, rcFile, reused>>
box  == <<runs, rcFile, reused>>

Missing    == -1
Unfinished == -2
Unreachable == 124

Attempts == 0..Restarts

Run ==
    [st : {"none", "running", "exited", "written", "gone", "orphan", "lost"},
     code : Codes \cup {Missing}, out : 0..MaxOutput]

NoRun == [st |-> "none", code |-> Missing, out |-> 0]

Init ==
    /\ pc = "wait" /\ attempt = 0
    /\ seen = [pid |-> "ALIVE", rc |-> Missing]
    /\ printed = 0 /\ silent = 0
    /\ rets = [i \in Attempts |-> Unfinished]
    /\ runs = [i \in Attempts |-> NoRun]
    /\ rcFile = Missing /\ reused = {}

-----------------------------------------------------------------------------
(* The box *)

\* What `kill -0` says of the shell's pid.
Alive(i) == runs[i].st \in {"running", "exited", "written"} \/ i \in reused

Training(i) == runs[i].st \in {"running", "orphan"}

launcher == <<pc, attempt, seen, printed, silent, rets>>

Writes(i) ==
    /\ Training(i) /\ runs[i].out < MaxOutput
    /\ runs' = [runs EXCEPT ![i].out = @ + 1]
    /\ UNCHANGED <<launcher, rcFile, reused>>

Exit(i) ==
    /\ runs[i].st = "running"
    /\ \E c \in Codes : runs' = [runs EXCEPT ![i].st = "exited", ![i].code = c]
    /\ UNCHANGED <<launcher, rcFile, reused>>

\* `echo $? > _run.rc`, by path: the file may be that of a later attempt
WriteRc(i) ==
    /\ runs[i].st = "exited"
    /\ rcFile' = runs[i].code
    /\ runs' = [runs EXCEPT ![i].st = "written"]
    /\ UNCHANGED <<launcher, reused>>

ShellEnds(i) ==
    /\ runs[i].st = "written"
    /\ runs' = [runs EXCEPT ![i].st = "gone"]
    /\ UNCHANGED <<launcher, rcFile, reused>>

\* The shell is killed and its trainer lives on.
KillShell(i) ==
    /\ "kill_shell" \in Faults /\ runs[i].st = "running"
    /\ runs' = [runs EXCEPT ![i].st = "orphan"]
    /\ UNCHANGED <<launcher, rcFile, reused>>

OrphanEnds(i) ==
    /\ runs[i].st = "orphan"
    /\ runs' = [runs EXCEPT ![i].st = "lost"]
    /\ UNCHANGED <<launcher, rcFile, reused>>

Up == {i \in Attempts : runs[i].st \in {"running", "exited", "written", "orphan"}}

Reboot ==
    /\ "reboot" \in Faults /\ Up # {}
    /\ runs' = [i \in Attempts |-> IF i \in Up THEN [runs[i] EXCEPT !.st = "lost"] ELSE runs[i]]
    /\ reused' = {}
    /\ UNCHANGED <<launcher, rcFile>>

PidReused(i) ==
    /\ "reuse" \in Faults /\ i \notin reused
    /\ runs[i].st \in {"gone", "lost", "orphan"}
    /\ reused' = reused \cup {i}
    /\ UNCHANGED <<launcher, runs, rcFile>>

-----------------------------------------------------------------------------
(* The launcher *)

\* wait_ssh: the box answers before the deadline, or TimeoutError
WaitSsh ==
    /\ pc = "wait"
    /\ pc' \in {"launch", "raised"}
    /\ UNCHANGED <<attempt, seen, printed, silent, rets, box>>

\* mutant: the files of the last run are not removed
LaunchBug ==
    /\ pc = "launch"
    /\ runs' = [runs EXCEPT ![attempt].st = "running"]
    /\ rcFile' = rcFile
    /\ pc' = "poll" /\ printed' = 0 /\ silent' = 0
    /\ UNCHANGED <<attempt, seen, rets, reused>>

Launch ==
    /\ pc = "launch"
    /\ runs' = [runs EXCEPT ![attempt].st = "running"]
    /\ rcFile' = Missing
    /\ pc' = "poll" /\ printed' = 0 /\ silent' = 0
    /\ UNCHANGED <<attempt, seen, rets, reused>>

\* the connection breaks before or after the shell has started
LaunchFails ==
    /\ pc = "launch" /\ "drop" \in Faults
    /\ \/ UNCHANGED <<runs, rcFile>>
       \/ runs' = [runs EXCEPT ![attempt].st = "running"] /\ rcFile' = Missing
    /\ pc' = "raised"
    /\ UNCHANGED <<attempt, seen, printed, silent, rets, reused>>

\* One poll is three commands on the box: kill -0, cat _run.rc, tail _run.log.
ProbePid ==
    /\ pc = "poll"
    /\ seen' = [pid |-> IF Alive(attempt) THEN "ALIVE" ELSE "DEAD", rc |-> Missing]
    /\ pc' = "rc"
    /\ UNCHANGED <<attempt, printed, silent, rets, box>>

ProbeRc ==
    /\ pc = "rc"
    /\ seen' = [seen EXCEPT !.rc = rcFile]
    /\ pc' = "log"
    /\ UNCHANGED <<attempt, printed, silent, rets, box>>

Return(code) == pc' = "returned" /\ rets' = [rets EXCEPT ![attempt] = code]

\* mutant: the output that came with the news of the end is not shown
ProbeLogBug ==
    /\ pc = "log"
    /\ printed' = IF seen.pid = "ALIVE" THEN runs[attempt].out ELSE printed
    /\ silent' = 0
    /\ \/ seen.pid = "ALIVE" /\ pc' = "poll" /\ UNCHANGED rets
       \/ seen.pid = "DEAD" /\ seen.rc # Missing /\ Return(seen.rc)
       \/ seen.pid = "DEAD" /\ seen.rc = Missing /\ pc' = "again" /\ UNCHANGED rets
    /\ UNCHANGED <<attempt, seen, box>>

ProbeLog ==
    /\ pc = "log"
    /\ printed' = runs[attempt].out
    /\ silent' = 0
    /\ \/ seen.pid = "ALIVE" /\ pc' = "poll" /\ UNCHANGED rets
       \/ seen.pid = "DEAD" /\ seen.rc # Missing /\ Return(seen.rc)
       \/ seen.pid = "DEAD" /\ seen.rc = Missing /\ pc' = "again" /\ UNCHANGED rets
    /\ UNCHANGED <<attempt, seen, box>>

\* mutant: last_ok is set by failed polls too
DropBug ==
    /\ pc \in {"poll", "rc", "log"} /\ "drop" \in Faults
    /\ silent' = 0 /\ pc' = "poll"
    /\ UNCHANGED <<attempt, seen, printed, rets, box>>

\* A poll fails: what it has read so far is dropped, and the outage goes on.
Drop ==
    /\ pc \in {"poll", "rc", "log"} /\ "drop" \in Faults
    /\ IF silent < MaxSilent
         THEN silent' = silent + 1 /\ pc' = "poll" /\ UNCHANGED rets
         ELSE "outage" \in Faults /\ Return(Unreachable) /\ UNCHANGED silent
    /\ UNCHANGED <<attempt, seen, printed, box>>

\* mutant: no code counts as a crash
AgainBug ==
    /\ pc = "again"
    /\ \/ rcFile # Missing /\ Return(rcFile)
       \/ rcFile = Missing /\ Return(1)
       \/ "drop" \in Faults /\ Return(1)
    /\ UNCHANGED <<attempt, seen, printed, silent, box>>

\* The second look for an exit code; no code counts as 0.
Again ==
    /\ pc = "again"
    /\ \/ rcFile # Missing /\ Return(rcFile)
       \/ rcFile = Missing /\ Return(0)
       \/ "drop" \in Faults /\ Return(0)
    /\ UNCHANGED <<attempt, seen, printed, silent, box>>

Relaunch ==
    /\ pc = "returned" /\ rets[attempt] # 0 /\ attempt < Restarts
    /\ attempt' = attempt + 1 /\ pc' = "launch"
    /\ UNCHANGED <<seen, printed, silent, rets, box>>

Stop ==
    /\ pc = "returned" /\ (rets[attempt] = 0 \/ attempt >= Restarts)
    /\ pc' = "ended"
    /\ UNCHANGED <<attempt, seen, printed, silent, rets, box>>

Over == pc \in {"ended", "raised"} /\ UNCHANGED vars

-----------------------------------------------------------------------------

Poll == ProbePid \/ ProbeRc \/ ProbeLog \/ Drop \/ Again

BoxStep ==
    \/ \E i \in Attempts : \/ Writes(i) \/ Exit(i) \/ WriteRc(i) \/ ShellEnds(i)
                           \/ KillShell(i) \/ OrphanEnds(i) \/ PidReused(i)
    \/ Reboot

Next == WaitSsh \/ Launch \/ LaunchFails \/ Poll \/ Relaunch \/ Stop \/ BoxStep \/ Over

Spec == Init /\ [][Next]_vars

\* The launcher keeps polling, a poll answers or its timeout fails it, and the
\* shell goes on to the end.  A trainer need not end.
FairSpec ==
    /\ Spec
    /\ WF_vars(Poll) /\ WF_vars(Launch) /\ WF_vars(Relaunch \/ Stop)
    /\ \A i \in Attempts : WF_vars(WriteRc(i)) /\ WF_vars(ShellEnds(i))

-----------------------------------------------------------------------------
(* Properties *)

\* Type invariant.
TypeOK ==
    /\ pc \in {"wait", "launch", "poll", "rc", "log", "again", "returned", "ended", "raised"}
    /\ attempt \in Attempts
    /\ seen \in [pid : {"ALIVE", "DEAD"}, rc : Codes \cup {Missing}]
    /\ printed \in 0..MaxOutput /\ silent \in 0..MaxSilent
    /\ rets \in [Attempts -> Codes \cup {0, Unreachable, Unfinished}]
    /\ runs \in [Attempts -> Run]
    /\ rcFile \in Codes \cup {Missing}
    /\ reused \subseteq Attempts

\* Attempts the launcher gave up on while their trainer may go on.
Abandoned == {i \in Attempts : rets[i] = Unreachable}

\* A returned code is the trainer's, if the shell came to its end: dropped polls,
\* a pid used again, and files of the attempt before do not change it; and no crash
\* is made up.  After an attempt that was given up nothing of this holds.
HonestExit ==
    Abandoned = {} =>
        \A i \in Attempts :
            /\ rets[i] # Unfinished /\ runs[i].st = "gone" => rets[i] = runs[i].code
            /\ rets[i] \notin {Unfinished, 0} => rets[i] = runs[i].code

\* When an attempt returns, all its output has been shown, also what was written
\* between two polls and while the connection was down; and nothing twice.
LogComplete ==
    /\ pc \notin {"wait", "launch", "raised"} => printed <= runs[attempt].out
    /\ pc \in {"returned", "ended"} /\ rets[attempt] # Unreachable
         /\ runs[attempt].st = "gone" => printed = runs[attempt].out

\* Restarting never puts a second trainer beside one that runs, as long as no
\* attempt was given up: not after a killed shell and not after a reboot.
OneTrainer == Abandoned = {} => Cardinality({i \in Attempts : Training(i)}) <= 1

\* The end of a shell is noticed, unless another process has its pid.
DeathNoticed ==
    \A i \in Attempts :
        (attempt = i /\ pc = "poll" /\ runs[i].st \in {"gone", "lost", "orphan"})
            ~> (rets[i] # Unfinished \/ i \in reused)

\* ssh.py:66: run_detached returns "the command's real exit code once it finishes".
\* Does not hold, see README: a shell that was given up writes into the _run.rc of
\* the next attempt, and a missing code counts as 0.
RealExit ==
    \A i \in Attempts : rets[i] \notin {Unfinished, Unreachable} => rets[i] = runs[i].code

=============================================================================
