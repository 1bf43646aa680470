--------------------------- MODULE RemoteRunProofs ---------------------------
(***************************************************************************)
(* Proofs about RemoteRun for every number of restarts, any length of log  *)
(* and any mixture of dropped polls, reboots, killed shells and reused     *)
(* pids: exit codes are the trainer's, the log is shown to its end, and    *)
(* trainers do not meet, as long as no attempt was given up.               *)
(***************************************************************************)
EXTENDS RemoteRun, FiniteSetTheorems, TLAPS

Dead(i) == runs[i].st \in {"gone", "lost", "orphan"}

\* Attempts come one after the other, each launched once.
Order ==
    /\ \A i \in Attempts : i > attempt => runs[i].st = "none" /\ rets[i] = Unfinished
    /\ pc \in {"wait", "launch"} => runs[attempt].st = "none"
    /\ pc \in {"poll", "rc", "log", "again", "returned", "ended"} => runs[attempt].st # "none"
    /\ pc \in {"returned", "ended"} <=> rets[attempt] # Unfinished
    /\ \A i \in Attempts : runs[i].st \in {"none", "running", "orphan"} => runs[i].code = Missing
    /\ \A i \in Attempts : runs[i].st \in {"exited", "written", "gone"} => runs[i].code \in Codes

\* A shell that was seen dead is dead, and stays so.
DeadSeen ==
    /\ pc \in {"rc", "log"} /\ seen.pid = "DEAD" => Dead(attempt)
    /\ pc = "again" => Dead(attempt)
    /\ \A i \in Attempts : rets[i] \notin {Unfinished, Unreachable} => Dead(i)

Shown ==
    /\ pc \notin {"wait", "launch", "raised"} => printed <= runs[attempt].out
    /\ pc \in {"again", "returned", "ended"} /\ rets[attempt] # Unreachable
         /\ runs[attempt].st = "gone" => printed = runs[attempt].out

\* What _run.rc holds while no earlier shell can write to it.
Files ==
    /\ \A i \in Attempts : i < attempt => runs[i].st \in {"gone", "lost"}
    /\ pc \notin {"wait", "launch", "raised"} =>
         /\ runs[attempt].st \in {"written", "gone"} => rcFile = runs[attempt].code
         /\ runs[attempt].st \in {"running", "exited", "orphan"} => rcFile = Missing
         /\ runs[attempt].st = "lost" => rcFile \in {Missing, runs[attempt].code}
    /\ pc = "log" /\ seen.pid = "DEAD" => seen.rc = rcFile
    /\ pc = "again" => rcFile = Missing
    /\ runs[attempt].st = "orphan" /\ rets[attempt] # Unfinished => rets[attempt] = 0

IInv ==
    /\ TypeOK
    /\ Order
    /\ DeadSeen
    /\ Shown
    /\ Abandoned = {} => Files /\ HonestExit

LEMMA InitInv == Init => IInv
<1>. SUFFICES ASSUME Init PROVE IInv
  OBVIOUS
<1>. USE ParamsAssumption DEF Attempts, Missing, Unfinished, Unreachable
<1>1. \A i \in Attempts : runs[i] = NoRun /\ rets[i] = Unfinished
  BY DEF Init
<1>2. NoRun \in Run /\ NoRun.st = "none" /\ NoRun.code = Missing
  BY DEF NoRun, Run
<1>3. 0 \in Attempts /\ attempt = 0 /\ pc = "wait"
  BY DEF Init
<1>4. TypeOK
  BY <1>1, <1>2 DEF Init, TypeOK
<1>5. Order
  BY <1>1, <1>2, <1>3 DEF Order
<1>6. DeadSeen /\ Shown
  BY <1>1, <1>3 DEF DeadSeen, Shown
<1>7. Files /\ HonestExit
  BY <1>1, <1>2, <1>3 DEF Files, HonestExit
<1>. QED BY <1>4, <1>5, <1>6, <1>7 DEF IInv

\* The state of one run changes.
LEMMA RunMoves ==
    ASSUME TypeOK, NEW i \in Attempts,
           NEW x \in {"running", "exited", "written", "gone", "orphan", "lost"},
           runs' = [runs EXCEPT ![i].st = x]
    PROVE  /\ runs' \in [Attempts -> Run]
           /\ runs'[i].st = x /\ runs'[i].code = runs[i].code /\ runs'[i].out = runs[i].out
           /\ \A j \in Attempts \ {i} : runs'[j] = runs[j]
<1>1. runs \in [Attempts -> Run] /\ runs[i] \in Run
  BY DEF TypeOK
<1>2. [runs[i] EXCEPT !.st = x] \in Run
  BY <1>1 DEF Run
<1>. QED BY <1>1, <1>2 DEF Run

LEMMA RunExits ==
    ASSUME TypeOK, NEW i \in Attempts, NEW c \in Codes,
           runs' = [runs EXCEPT ![i].st = "exited", ![i].code = c]
    PROVE  /\ runs' \in [Attempts -> Run]
           /\ runs'[i].st = "exited" /\ runs'[i].code = c /\ runs'[i].out = runs[i].out
           /\ \A j \in Attempts \ {i} : runs'[j] = runs[j]
<1>1. runs \in [Attempts -> Run] /\ runs[i] \in Run
  BY DEF TypeOK
<1>2. [[runs[i] EXCEPT !.st = "exited"] EXCEPT !.code = c] \in Run
  BY <1>1 DEF Run
<1>. QED BY <1>1, <1>2 DEF Run

LEMMA RunPrints ==
    ASSUME TypeOK, NEW i \in Attempts, runs[i].out < MaxOutput,
           runs' = [runs EXCEPT ![i].out = @ + 1]
    PROVE  /\ runs' \in [Attempts -> Run]
           /\ runs'[i].st = runs[i].st /\ runs'[i].code = runs[i].code
           /\ runs'[i].out = runs[i].out + 1
           /\ \A j \in Attempts \ {i} : runs'[j] = runs[j]
<1>1. runs \in [Attempts -> Run] /\ runs[i] \in Run /\ runs[i].out \in 0..MaxOutput
  BY DEF TypeOK, Run
<1>2. [runs[i] EXCEPT !.out = @ + 1] \in Run
  BY <1>1, ParamsAssumption DEF Run
<1>. QED BY <1>1, <1>2 DEF Run

LEMMA TypeStep == IInv /\ [Next]_vars => TypeOK'
<1>. SUFFICES ASSUME IInv, [Next]_vars PROVE TypeOK'
  OBVIOUS
<1>. USE ParamsAssumption
<1>0. TypeOK /\ attempt \in Attempts /\ rets \in [Attempts -> Codes \cup {0, Unreachable, Unfinished}]
  BY DEF IInv, TypeOK
<1>a. ASSUME UNCHANGED launcher, runs' \in [Attempts -> Run],
             rcFile' \in Codes \cup {Missing}, reused' \subseteq Attempts
      PROVE  TypeOK'
  BY <1>0, <1>a DEF TypeOK, launcher
<1>b. ASSUME NEW r \in Codes \cup {0, Unreachable}, Return(r)
      PROVE  rets' \in [Attempts -> Codes \cup {0, Unreachable, Unfinished}] /\ pc' = "returned"
  BY <1>0, <1>b DEF Return
<1>1. CASE WaitSsh \/ Stop
  BY <1>0, <1>1 DEF TypeOK, WaitSsh, Stop, box
<1>2. CASE Launch \/ LaunchFails
  <2>1. runs' \in [Attempts -> Run] /\ rcFile' \in Codes \cup {Missing}
    BY <1>0, <1>2, RunMoves DEF Launch, LaunchFails, TypeOK
  <2>. QED BY <1>0, <1>2, <2>1 DEF TypeOK, Launch, LaunchFails
<1>3. CASE ProbePid \/ ProbeRc
  BY <1>0, <1>3 DEF TypeOK, ProbePid, ProbeRc, box
<1>4. CASE ProbeLog
  <2>1. runs[attempt].out \in 0..MaxOutput
    BY <1>0 DEF TypeOK, Run
  <2>2. rets' \in [Attempts -> Codes \cup {0, Unreachable, Unfinished}]
    BY <1>0, <1>b, <1>4 DEF ProbeLog, TypeOK
  <2>3. pc' \in {"poll", "returned", "again"}
    BY <1>4 DEF ProbeLog, Return
  <2>. QED BY <1>0, <1>4, <2>1, <2>2, <2>3 DEF TypeOK, ProbeLog, box
<1>5. CASE Drop
  <2>1. CASE silent < MaxSilent
    BY <1>0, <1>5, <2>1 DEF TypeOK, Drop, box
  <2>2. CASE ~(silent < MaxSilent)
    <3>1. Return(Unreachable) /\ UNCHANGED <<silent, attempt, seen, printed, runs, rcFile, reused>>
      BY <1>5, <2>2 DEF Drop, box
    <3>. QED BY <1>0, <1>b, <3>1 DEF TypeOK
  <2>. QED BY <2>1, <2>2
<1>6. CASE Again
  <2>1. rets' \in [Attempts -> Codes \cup {0, Unreachable, Unfinished}] /\ pc' = "returned"
    BY <1>0, <1>b, <1>6 DEF Again, TypeOK
  <2>. QED BY <1>0, <1>6, <2>1 DEF TypeOK, Again, box
<1>7. CASE Relaunch
  BY <1>0, <1>7 DEF TypeOK, Relaunch, box, Attempts
<1>8. ASSUME NEW i \in Attempts,
             Writes(i) \/ Exit(i) \/ ShellEnds(i) \/ KillShell(i) \/ OrphanEnds(i)
      PROVE  TypeOK'
  <2>1. runs' \in [Attempts -> Run]
    <3>1. CASE Writes(i)
      BY <1>0, <3>1, RunPrints DEF Writes
    <3>2. CASE Exit(i)
      BY <1>0, <3>2, RunExits DEF Exit
    <3>3. CASE ShellEnds(i) \/ KillShell(i) \/ OrphanEnds(i)
      BY <1>0, <3>3, RunMoves DEF ShellEnds, KillShell, OrphanEnds
    <3>. QED BY <1>8, <3>1, <3>2, <3>3
  <2>2. UNCHANGED launcher /\ UNCHANGED rcFile /\ UNCHANGED reused
    BY <1>8 DEF Writes, Exit, ShellEnds, KillShell, OrphanEnds
  <2>. QED BY <1>0, <1>a, <2>1, <2>2 DEF TypeOK
<1>9. ASSUME NEW i \in Attempts, WriteRc(i) PROVE TypeOK'
  <2>1. runs' \in [Attempts -> Run] /\ runs[i].code \in Codes \cup {Missing}
    BY <1>0, <1>9, RunMoves DEF WriteRc, TypeOK, Run
  <2>. QED BY <1>0, <1>9, <1>a, <2>1 DEF WriteRc, TypeOK
<1>10. ASSUME NEW i \in Attempts, PidReused(i) PROVE TypeOK'
  BY <1>0, <1>10, <1>a DEF PidReused, TypeOK
<1>11. CASE Reboot
  <2>1. \A i \in Attempts : [runs[i] EXCEPT !.st = "lost"] \in Run /\ runs[i] \in Run
    BY <1>0 DEF TypeOK, Run
  <2>. QED BY <1>0, <1>11, <1>a, <2>1 DEF Reboot, TypeOK
<1>12. CASE UNCHANGED vars
  BY <1>0, <1>12 DEF vars, TypeOK
<1>. QED BY <1>1, <1>2, <1>3, <1>4, <1>5, <1>6, <1>7, <1>8, <1>9, <1>10, <1>11, <1>12
         DEF Next, Poll, BoxStep, Over

-----------------------------------------------------------------------------
(* What the box may do to a run while the launcher does nothing. *)

Ends(i, x) == runs'[i].st = x /\ runs'[i].code = runs[i].code /\ runs'[i].out = runs[i].out

Goes(i) ==
    \/ runs'[i] = runs[i]
    \/ /\ Training(i) /\ runs'[i].st = runs[i].st /\ runs'[i].code = runs[i].code
       /\ runs'[i].out = runs[i].out + 1
    \/ runs[i].st = "running" /\ runs'[i].st = "exited" /\ runs'[i].code \in Codes
         /\ runs'[i].out = runs[i].out
    \/ runs[i].st = "exited" /\ Ends(i, "written") /\ rcFile' = runs[i].code
    \/ runs[i].st = "written" /\ Ends(i, "gone")
    \/ runs[i].st = "running" /\ Ends(i, "orphan")
    \/ runs[i].st \in {"running", "exited", "written", "orphan"} /\ Ends(i, "lost")

BoxGoes ==
    /\ UNCHANGED launcher
    /\ \A i \in Attempts : Goes(i)
    /\ \/ rcFile' = rcFile
       \/ \E i \in Attempts : runs[i].st = "exited" /\ Ends(i, "written") /\ rcFile' = runs[i].code

LEMMA BoxEffect == ASSUME TypeOK, BoxStep PROVE BoxGoes
<1>1. ASSUME NEW i \in Attempts, Writes(i) PROVE BoxGoes
  <2>1. runs[i].out < MaxOutput /\ runs' = [runs EXCEPT ![i].out = @ + 1] /\ Training(i)
        /\ UNCHANGED launcher /\ UNCHANGED rcFile
    BY <1>1 DEF Writes
  <2>. QED BY <2>1, RunPrints DEF BoxGoes, Goes
<1>2. ASSUME NEW i \in Attempts, Exit(i) PROVE BoxGoes
  <2>1. PICK c \in Codes : runs' = [runs EXCEPT ![i].st = "exited", ![i].code = c]
    BY <1>2 DEF Exit
  <2>2. runs[i].st = "running" /\ UNCHANGED launcher /\ UNCHANGED rcFile
    BY <1>2 DEF Exit
  <2>. QED BY <2>1, <2>2, RunExits DEF BoxGoes, Goes
<1>3. ASSUME NEW i \in Attempts, WriteRc(i) PROVE BoxGoes
  <2>1. runs' = [runs EXCEPT ![i].st = "written"] /\ UNCHANGED launcher
        /\ runs[i].st = "exited" /\ rcFile' = runs[i].code
    BY <1>3 DEF WriteRc
  <2>. QED BY <2>1, RunMoves DEF BoxGoes, Goes, Ends
<1>4. ASSUME NEW i \in Attempts, ShellEnds(i) \/ KillShell(i) \/ OrphanEnds(i) PROVE BoxGoes
  <2>1. UNCHANGED launcher /\ UNCHANGED rcFile
    BY <1>4 DEF ShellEnds, KillShell, OrphanEnds
  <2>2. \/ runs[i].st = "written" /\ runs' = [runs EXCEPT ![i].st = "gone"]
        \/ runs[i].st = "running" /\ runs' = [runs EXCEPT ![i].st = "orphan"]
        \/ runs[i].st = "orphan" /\ runs' = [runs EXCEPT ![i].st = "lost"]
    BY <1>4 DEF ShellEnds, KillShell, OrphanEnds
  <2>. QED BY <2>1, <2>2, RunMoves DEF BoxGoes, Goes, Ends
<1>5. ASSUME NEW i \in Attempts, PidReused(i) PROVE BoxGoes
  BY <1>5 DEF PidReused, BoxGoes, Goes
<1>6. CASE Reboot
  <2>1. \A i \in Attempts : runs[i] \in Run
    BY DEF TypeOK
  <2>2. \A i \in Attempts : i \in Up => Ends(i, "lost")
    BY <1>6, <2>1 DEF Reboot, Ends, Run
  <2>3. \A i \in Attempts : i \notin Up => runs'[i] = runs[i]
    BY <1>6 DEF Reboot
  <2>. QED BY <1>6, <2>2, <2>3 DEF Reboot, BoxGoes, Goes, Up
<1>. QED BY <1>1, <1>2, <1>3, <1>4, <1>5, <1>6 DEF BoxStep

\* A run that the box has not started, or has ended, does not come back.
LEMMA BoxFrame ==
    ASSUME BoxGoes, NEW i \in Attempts
    PROVE  /\ runs[i].st = "none" <=> runs'[i].st = "none"
           /\ runs[i].st \in {"none", "gone", "lost"} => runs'[i] = runs[i]
           /\ Dead(i) => runs'[i].st \in {runs[i].st, "lost"} /\ runs'[i].code = runs[i].code
           /\ Dead(i) => Dead(i)' /\ (runs'[i].st = "gone" => runs'[i] = runs[i])
  BY DEF BoxGoes, Goes, Ends, Dead, Training

LEMMA BoxInv == ASSUME IInv, BoxStep PROVE Order' /\ DeadSeen' /\ Shown'
<1>1. TypeOK /\ Order /\ DeadSeen /\ Shown
  BY DEF IInv
<1>2. BoxGoes /\ UNCHANGED <<pc, attempt, seen, printed, silent, rets>>
  BY <1>1, BoxEffect DEF BoxGoes, launcher
<1>3. attempt \in Attempts /\ runs[attempt].out \in Nat /\ printed \in Nat
  BY <1>1, ParamsAssumption DEF TypeOK, Run
<1>4. Order'
  <2>1. \A i \in Attempts : Goes(i)
    BY <1>2 DEF BoxGoes
  <2>2. \A i \in Attempts : runs'[i].st \in {"none", "running", "orphan"} => runs'[i].code = Missing
    BY <1>1, <2>1 DEF Order, Goes, Ends, Training
  <2>3. \A i \in Attempts : runs'[i].st \in {"exited", "written", "gone"} => runs'[i].code \in Codes
    BY <1>1, <2>1 DEF Order, Goes, Ends, Training
  <2>. QED BY <1>1, <1>2, <1>3, <2>2, <2>3, BoxFrame DEF Order
<1>5. DeadSeen'
  BY <1>1, <1>2, <1>3, BoxFrame DEF DeadSeen
<1>6. Shown'
  <2>1. Goes(attempt)
    BY <1>2, <1>3 DEF BoxGoes
  <2>2. runs'[attempt].out >= runs[attempt].out /\ runs'[attempt].out \in Nat
    BY <1>3, <2>1 DEF Goes, Ends
  <2>3. pc \in {"again", "returned", "ended"} /\ rets[attempt] # Unreachable => Dead(attempt)
    BY <1>1, <1>3 DEF DeadSeen, Order
  <2>. QED BY <1>1, <1>2, <1>3, <2>2, <2>3, BoxFrame DEF Shown
<1>. QED BY <1>4, <1>5, <1>6

LEMMA BoxFiles ==
    ASSUME IInv, BoxStep, Abandoned' = {}
    PROVE  Files' /\ HonestExit'
<1>1. TypeOK /\ Order /\ DeadSeen /\ Shown
  BY DEF IInv
<1>2. BoxGoes /\ UNCHANGED <<pc, attempt, seen, printed, silent, rets>>
  BY <1>1, BoxEffect DEF BoxGoes, launcher
<1>3. attempt \in Attempts
  BY <1>1 DEF TypeOK
<1>4. Abandoned = {} /\ Files /\ HonestExit
  BY <1>2 DEF IInv, Abandoned
<1>5. \A i \in Attempts : rets[i] # Unreachable
  BY <1>4 DEF Abandoned
<1>6. \A i \in Attempts : rets[i] # Unfinished => Dead(i)
  BY <1>1, <1>5 DEF DeadSeen
<1>7. \A i \in Attempts : runs[i].st = "exited" => i = attempt
  BY <1>1, <1>3, <1>4, ParamsAssumption DEF Order, Files, TypeOK, Attempts
<1>8. \/ rcFile' = rcFile
      \/ runs[attempt].st = "exited" /\ Ends(attempt, "written") /\ rcFile' = runs[attempt].code
  BY <1>2, <1>3, <1>7 DEF BoxGoes
<1>9. Goes(attempt)
  BY <1>2, <1>3 DEF BoxGoes
<1>10. Dead(attempt) => rcFile' = rcFile
  BY <1>8 DEF Dead
<1>11. Files'
  <2>1. \A i \in Attempts : i < attempt => runs'[i].st \in {"gone", "lost"}
    BY <1>2, <1>4, BoxFrame DEF Files
  <2>2. pc \notin {"wait", "launch", "raised"} =>
         /\ runs'[attempt].st \in {"written", "gone"} => rcFile' = runs'[attempt].code
         /\ runs'[attempt].st \in {"running", "exited", "orphan"} => rcFile' = Missing
         /\ runs'[attempt].st = "lost" => rcFile' \in {Missing, runs'[attempt].code}
    <3>1. ASSUME pc \notin {"wait", "launch", "raised"}
          PROVE  /\ runs[attempt].st # "none"
                 /\ runs[attempt].st \in {"written", "gone"} => rcFile = runs[attempt].code
                 /\ runs[attempt].st \in {"running", "exited", "orphan"} => rcFile = Missing
                 /\ runs[attempt].st = "lost" => rcFile \in {Missing, runs[attempt].code}
      BY <1>1, <1>4, <3>1 DEF Files, Order, TypeOK
    <3>. QED BY <1>8, <1>9, <3>1 DEF Goes, Ends, Training
  <2>3. pc = "log" /\ seen.pid = "DEAD" => seen.rc = rcFile'
    BY <1>1, <1>4, <1>10 DEF Files, DeadSeen
  <2>4. pc = "again" => rcFile' = Missing
    BY <1>1, <1>4, <1>10 DEF Files, DeadSeen
  <2>5. runs'[attempt].st = "orphan" /\ rets[attempt] # Unfinished => rets[attempt] = 0
    BY <1>2, <1>3, <1>4, <1>6, BoxFrame DEF Files
  <2>. QED BY <1>2, <2>1, <2>2, <2>3, <2>4, <2>5 DEF Files
<1>12. HonestExit'
  <2>1. Abandoned = {} => \A i \in Attempts :
          /\ rets[i] # Unfinished /\ runs[i].st = "gone" => rets[i] = runs[i].code
          /\ rets[i] \notin {Unfinished, 0} => rets[i] = runs[i].code
    BY <1>4 DEF HonestExit
  <2>2. \A i \in Attempts :
          /\ rets[i] # Unfinished /\ runs'[i].st = "gone" => rets[i] = runs'[i].code
          /\ rets[i] \notin {Unfinished, 0} => rets[i] = runs'[i].code
    BY <1>2, <1>4, <1>6, <2>1, BoxFrame
  <2>. QED BY <1>2, <2>2 DEF HonestExit
<1>. QED BY <1>11, <1>12

-----------------------------------------------------------------------------
(* The steps of the launcher. *)

\* A launch starts the shell of a new attempt; the other steps leave the box alone.
Launches ==
    /\ runs' \in [Attempts -> Run]
    /\ runs'[attempt].st = "running" /\ runs'[attempt].code = runs[attempt].code
    /\ \A j \in Attempts \ {attempt} : runs'[j] = runs[j]

LEMMA LaunchInv ==
    ASSUME IInv, Launch \/ LaunchFails
    PROVE  Order' /\ DeadSeen' /\ Shown' /\ (Abandoned' = {} => Files' /\ HonestExit')
<1>1. TypeOK /\ Order /\ DeadSeen /\ Shown /\ attempt \in Attempts
  BY DEF IInv, TypeOK
<1>2. pc = "launch" /\ runs[attempt].st = "none" /\ rets[attempt] = Unfinished /\ UNCHANGED <<attempt, rets>>
      /\ \A i \in Attempts : i > attempt => runs[i].st = "none" /\ rets[i] = Unfinished
  BY <1>1 DEF Launch, LaunchFails, Order
<1>3. \/ Launches /\ rcFile' = Missing /\ pc' = "poll" /\ printed' = 0
      \/ Launches /\ pc' = "raised"
      \/ UNCHANGED <<runs, rcFile>> /\ pc' = "raised"
  BY <1>1, RunMoves DEF Launch, LaunchFails, Launches
<1>4. attempt' = attempt /\ rets' = rets
  BY <1>2
<1>5. \A i \in Attempts : i # attempt => runs'[i] = runs[i]
  BY <1>3 DEF Launches
<1>6. runs'[attempt].st \in {"none", "running"} /\ runs'[attempt].code = Missing
  BY <1>1, <1>2, <1>3 DEF Launches, Order
<1>7. pc' \in {"poll", "raised"} /\ (pc' = "poll" => runs'[attempt].st = "running" /\ rcFile' = Missing)
  BY <1>3 DEF Launches
<1>8. Order'
  BY <1>1, <1>2, <1>4, <1>5, <1>6, <1>7, ParamsAssumption DEF Order, Attempts
<1>9. DeadSeen'
  BY <1>1, <1>2, <1>4, <1>5, <1>6, <1>7 DEF DeadSeen, Dead
<1>10. Shown'
  <2>1. pc' = "poll" => printed' = 0 /\ runs'[attempt] \in Run
    BY <1>1, <1>3 DEF Launches
  <2>. QED BY <1>4, <1>7, <2>1, ParamsAssumption DEF Shown, Run
<1>11. ASSUME Abandoned' = {} PROVE Files' /\ HonestExit'
  <2>1. Abandoned = {} /\ Files /\ HonestExit
    BY <1>4, <1>11 DEF IInv, Abandoned
  <2>2. Files'
    BY <1>1, <1>2, <1>4, <1>5, <1>6, <1>7, <2>1 DEF Files, TypeOK, Attempts
  <2>3. HonestExit'
    BY <1>2, <1>4, <1>5, <1>6, <2>1 DEF HonestExit
  <2>. QED BY <2>2, <2>3
<1>. QED BY <1>8, <1>9, <1>10, <1>11

LEMMA PollInv ==
    ASSUME IInv, WaitSsh \/ ProbePid \/ ProbeRc
    PROVE  Order' /\ DeadSeen' /\ Shown' /\ (Abandoned' = {} => Files' /\ HonestExit')
<1>1. TypeOK /\ Order /\ DeadSeen /\ Shown /\ attempt \in Attempts
  BY DEF IInv, TypeOK
<1>2. UNCHANGED <<attempt, printed, silent, rets, runs, rcFile, reused>>
  BY DEF WaitSsh, ProbePid, ProbeRc, box
<1>3. \/ pc = "wait" /\ pc' \in {"launch", "raised"}
      \/ pc = "poll" /\ pc' = "rc" /\ seen' = [pid |-> IF Alive(attempt) THEN "ALIVE" ELSE "DEAD", rc |-> Missing]
      \/ pc = "rc" /\ pc' = "log" /\ seen' = [seen EXCEPT !.rc = rcFile]
  BY DEF WaitSsh, ProbePid, ProbeRc
<1>4. Order' /\ Shown'
  BY <1>1, <1>2, <1>3 DEF Order, Shown
<1>5. DeadSeen'
  <2>1. pc = "poll" /\ seen'.pid = "DEAD" => Dead(attempt)
    BY <1>1, <1>3 DEF Order, TypeOK, Run, Dead, Alive
  <2>2. pc = "rc" => seen'.pid = seen.pid
    BY <1>1, <1>3 DEF TypeOK
  <2>. QED BY <1>1, <1>2, <1>3, <2>1, <2>2 DEF DeadSeen, Dead
<1>6. ASSUME Abandoned' = {} PROVE Files' /\ HonestExit'
  <2>1. Abandoned = {} /\ Files /\ HonestExit
    BY <1>2, <1>6 DEF IInv, Abandoned
  <2>2. pc = "rc" => seen'.rc = rcFile'
    BY <1>1, <1>2, <1>3 DEF TypeOK
  <2>3. pc = "wait" => runs[attempt].st = "none"
    BY <1>1 DEF Order
  <2>. QED BY <1>2, <1>3, <2>1, <2>2, <2>3 DEF Files, HonestExit, Abandoned
<1>. QED BY <1>4, <1>5, <1>6

\* A poll that concludes: the code returned is 124, or the shell is dead.
LEMMA ReturnInv ==
    ASSUME IInv, NEW r \in Codes \cup {0, Unreachable}, Return(r),
           UNCHANGED <<attempt, runs, rcFile>>, pc \in {"poll", "rc", "log", "again"},
           r # Unreachable => Dead(attempt),
           printed' <= runs[attempt].out,
           r # Unreachable /\ runs[attempt].st = "gone" => printed' = runs[attempt].out,
           Abandoned = {} /\ r # Unreachable =>
               /\ runs[attempt].st = "gone" => r = runs[attempt].code
               /\ r # 0 => r = runs[attempt].code
               /\ runs[attempt].st = "orphan" => r = 0
    PROVE  Order' /\ DeadSeen' /\ Shown' /\ (Abandoned' = {} => Files' /\ HonestExit')
<1>1. TypeOK /\ Order /\ DeadSeen /\ Shown /\ attempt \in Attempts
  BY DEF IInv, TypeOK
<1>2. rets' = [rets EXCEPT ![attempt] = r] /\ pc' = "returned"
  BY DEF Return
<1>3. rets'[attempt] = r /\ \A i \in Attempts \ {attempt} : rets'[i] = rets[i]
  BY <1>1, <1>2 DEF TypeOK
<1>4. r # Unfinished
  BY ParamsAssumption DEF Unfinished, Unreachable
<1>5. Order'
  BY <1>1, <1>2, <1>3, <1>4, ParamsAssumption DEF Order, Attempts
<1>6. DeadSeen'
  BY <1>1, <1>2, <1>3 DEF DeadSeen, Dead
<1>7. Shown'
  BY <1>2, <1>3 DEF Shown
<1>8. ASSUME Abandoned' = {} PROVE Files' /\ HonestExit'
  <2>1. r # Unreachable /\ Abandoned = {}
    BY <1>1, <1>3, <1>4, <1>8 DEF Abandoned, Order, Unreachable, Unfinished
  <2>2. Files /\ HonestExit
    BY <2>1 DEF IInv
  <2>3. Files'
    BY <1>1, <1>2, <1>3, <2>1, <2>2 DEF Files, Order
  <2>4. HonestExit'
    BY <1>3, <2>1, <2>2 DEF HonestExit
  <2>. QED BY <2>3, <2>4
<1>. QED BY <1>5, <1>6, <1>7, <1>8

LEMMA LookInv ==
    ASSUME IInv, ProbeLog \/ Drop \/ Again
    PROVE  Order' /\ DeadSeen' /\ Shown' /\ (Abandoned' = {} => Files' /\ HonestExit')
<1>1. TypeOK /\ Order /\ DeadSeen /\ Shown /\ attempt \in Attempts
  BY DEF IInv, TypeOK
<1>2. UNCHANGED <<attempt, runs, rcFile>> /\ runs[attempt] \in Run /\ runs[attempt].out \in Nat
  BY <1>1, ParamsAssumption DEF ProbeLog, Drop, Again, box, TypeOK, Run
<1>3. rcFile \in Codes \cup {Missing} /\ seen.rc \in Codes \cup {Missing} /\ seen.pid \in {"ALIVE", "DEAD"}
  BY <1>1 DEF TypeOK
<1>4. Missing # 0 /\ \A c \in Codes : c # Missing /\ c # Unreachable
  BY ParamsAssumption DEF Missing, Unreachable
<1>5. CASE ProbeLog /\ (seen.pid = "ALIVE" \/ seen.rc = Missing)
  <2>1. /\ printed' = runs[attempt].out /\ UNCHANGED <<rets, seen>> /\ pc = "log"
        /\ \/ seen.pid = "ALIVE" /\ pc' = "poll"
           \/ seen.pid = "DEAD" /\ seen.rc = Missing /\ pc' = "again"
    BY <1>5, <1>3 DEF ProbeLog
  <2>2. Order' /\ DeadSeen' /\ Shown'
    BY <1>1, <1>2, <2>1 DEF Order, DeadSeen, Dead, Shown
  <2>3. ASSUME Abandoned' = {} PROVE Files' /\ HonestExit'
    BY <1>2, <2>1, <2>3 DEF IInv, Abandoned, Files, HonestExit
  <2>. QED BY <2>2, <2>3
<1>6. CASE ProbeLog /\ seen.pid = "DEAD" /\ seen.rc # Missing
  <2>1. Return(seen.rc) /\ printed' = runs[attempt].out /\ pc = "log" /\ seen.rc \in Codes
    BY <1>6, <1>3 DEF ProbeLog
  <2>2. Dead(attempt)
    BY <1>1, <1>6, <2>1 DEF DeadSeen
  <2>3. Abandoned = {} =>
               /\ runs[attempt].st = "gone" => seen.rc = runs[attempt].code
               /\ seen.rc # 0 => seen.rc = runs[attempt].code
               /\ runs[attempt].st = "orphan" => seen.rc = 0
    BY <1>6, <2>1, <2>2 DEF IInv, Files, Dead
  <2>. QED BY <1>2, <2>1, <2>2, <2>3, ReturnInv
<1>7. CASE Drop
  <2>1. UNCHANGED printed /\ pc \in {"poll", "rc", "log"}
    BY <1>7 DEF Drop
  <2>2. CASE silent < MaxSilent
    <3>1. pc' = "poll" /\ UNCHANGED rets
      BY <1>7, <2>2 DEF Drop
    <3>2. Order' /\ DeadSeen' /\ Shown'
      BY <1>1, <1>2, <2>1, <3>1 DEF Order, DeadSeen, Dead, Shown
    <3>3. ASSUME Abandoned' = {} PROVE Files' /\ HonestExit'
      BY <1>2, <2>1, <3>1, <3>3 DEF IInv, Abandoned, Files, HonestExit
    <3>. QED BY <3>2, <3>3
  <2>3. CASE ~(silent < MaxSilent)
    <3>1. Return(Unreachable)
      BY <1>7, <2>3 DEF Drop
    <3>2. printed <= runs[attempt].out
      BY <1>1, <2>1 DEF Shown
    <3>. QED BY <1>2, <2>1, <3>1, <3>2, ReturnInv
  <2>. QED BY <2>2, <2>3
<1>8. CASE Again
  <2>1. pc = "again" /\ UNCHANGED printed
        /\ \/ rcFile # Missing /\ Return(rcFile)
           \/ Return(0)
    BY <1>8 DEF Again
  <2>2. Dead(attempt) /\ printed <= runs[attempt].out
        /\ (runs[attempt].st = "gone" => printed = runs[attempt].out)
    BY <1>1, <2>1 DEF DeadSeen, Shown, Order, Unfinished, Unreachable
  <2>3. Abandoned = {} => rcFile = Missing /\ runs[attempt].st # "gone"
    BY <1>1, <1>4, <2>1 DEF IInv, Files, Order
  <2>4. CASE rcFile # Missing /\ Return(rcFile)
    <3>1. rcFile \in Codes
      BY <1>3, <2>4
    <3>. QED BY <1>2, <2>1, <2>2, <2>3, <2>4, <3>1, ReturnInv
  <2>5. CASE Return(0)
    <3>1. 0 # Unreachable
      BY DEF Unreachable
    <3>. QED BY <1>2, <2>1, <2>2, <2>3, <2>5, <3>1, ReturnInv
  <2>. QED BY <2>1, <2>4, <2>5
<1>. QED BY <1>3, <1>5, <1>6, <1>7, <1>8

LEMMA LoopInv ==
    ASSUME IInv, Relaunch \/ Stop
    PROVE  Order' /\ DeadSeen' /\ Shown' /\ (Abandoned' = {} => Files' /\ HonestExit')
<1>1. TypeOK /\ Order /\ DeadSeen /\ Shown /\ attempt \in Attempts
  BY DEF IInv, TypeOK
<1>2. UNCHANGED <<printed, rets, runs, rcFile>> /\ pc = "returned"
  BY DEF Relaunch, Stop, box
<1>3. CASE Stop
  <2>1. pc' = "ended" /\ UNCHANGED attempt
    BY <1>3 DEF Stop
  <2>2. Order' /\ DeadSeen' /\ Shown'
    BY <1>1, <1>2, <2>1 DEF Order, DeadSeen, Dead, Shown
  <2>3. ASSUME Abandoned' = {} PROVE Files' /\ HonestExit'
    BY <1>2, <2>1, <2>3 DEF IInv, Abandoned, Files, HonestExit
  <2>. QED BY <2>2, <2>3
<1>4. CASE Relaunch
  <2>1. pc' = "launch" /\ attempt' = attempt + 1 /\ attempt + 1 \in Attempts /\ rets[attempt] # 0
    BY <1>1, <1>4, ParamsAssumption DEF Relaunch, Attempts
  <2>2. attempt + 1 > attempt /\ attempt \in Nat
    BY <1>1, ParamsAssumption DEF Attempts
  <2>3. runs[attempt + 1].st = "none" /\ rets[attempt + 1] = Unfinished
    BY <1>1, <2>1, <2>2 DEF Order
  <2>4. Order'
    <3>1. \A i \in Attempts : i > attempt + 1 => i > attempt
      BY <2>2, ParamsAssumption DEF Attempts
    <3>. QED BY <1>1, <1>2, <2>1, <2>3, <3>1 DEF Order
  <2>5. DeadSeen' /\ Shown'
    BY <1>1, <1>2, <2>1 DEF DeadSeen, Dead, Shown
  <2>6. ASSUME Abandoned' = {} PROVE Files' /\ HonestExit'
    <3>1. Abandoned = {} /\ Files /\ HonestExit
      BY <1>2, <2>6 DEF IInv, Abandoned
    <3>2. rets[attempt] # Unreachable /\ rets[attempt] # Unfinished
      BY <1>1, <1>2, <3>1 DEF Abandoned, Order
    <3>3. runs[attempt].st \in {"gone", "lost"}
      BY <1>1, <2>1, <3>1, <3>2 DEF DeadSeen, Dead, Files
    <3>4. \A i \in Attempts : i < attempt + 1 => i = attempt \/ i < attempt
      BY <2>2, ParamsAssumption DEF Attempts
    <3>5. Files'
      BY <1>2, <2>1, <2>3, <3>1, <3>3, <3>4 DEF Files
    <3>. QED BY <1>2, <3>1, <3>5 DEF HonestExit, Abandoned
  <2>. QED BY <2>4, <2>5, <2>6
<1>. QED BY <1>3, <1>4

LEMMA Inductive == IInv /\ [Next]_vars => IInv'
<1>. SUFFICES ASSUME IInv, [Next]_vars PROVE IInv'
  OBVIOUS
<1>1. TypeOK'
  BY TypeStep
<1>2. CASE BoxStep
  BY <1>1, <1>2, BoxInv, BoxFiles DEF IInv
<1>3. CASE Launch \/ LaunchFails
  BY <1>1, <1>3, LaunchInv DEF IInv
<1>4. CASE WaitSsh \/ ProbePid \/ ProbeRc
  BY <1>1, <1>4, PollInv DEF IInv
<1>5. CASE ProbeLog \/ Drop \/ Again
  BY <1>1, <1>5, LookInv DEF IInv
<1>6. CASE Relaunch \/ Stop
  BY <1>1, <1>6, LoopInv DEF IInv
<1>7. CASE UNCHANGED vars
  BY <1>1, <1>7 DEF vars, IInv, Order, DeadSeen, Dead, Shown, Files, HonestExit, Abandoned
<1>. QED BY <1>2, <1>3, <1>4, <1>5, <1>6, <1>7 DEF Next, Poll, Over

\* The inductive invariant holds in every reachable state.
THEOREM Invariance == Spec => []IInv
<1>1. Init => IInv
  BY InitInv
<1>2. IInv /\ [Next]_vars => IInv'
  BY Inductive
<1>. QED BY <1>1, <1>2, PTL DEF Spec

\* The launcher, the attempts and the files of the box keep their shapes.
THEOREM TypeCorrect == Spec => []TypeOK
<1>1. IInv => TypeOK
  BY DEF IInv
<1>. QED BY <1>1, Invariance, PTL

\* While no attempt was given up, the code run_detached returns is the one the
\* trainer ended with, whatever polls were dropped and whatever pids were reused.
THEOREM ExitIsHonest == Spec => []HonestExit
<1>1. IInv => HonestExit
  BY DEF IInv, HonestExit
<1>. QED BY <1>1, Invariance, PTL

\* run_detached shows the log of the run, never past its end, and all of it before
\* it returns the code of a run that came to its end.
THEOREM LogIsComplete == Spec => []LogComplete
<1>1. IInv => LogComplete
  BY DEF IInv, Shown, LogComplete
<1>. QED BY <1>1, Invariance, PTL

\* The restart loop never puts two trainers on the box while no attempt was given up.
THEOREM TrainersDoNotMeet == Spec => []OneTrainer
<1>1. ASSUME IInv, Abandoned = {}
      PROVE  Cardinality({i \in Attempts : Training(i)}) <= 1
  <2>1. \A i \in Attempts : Training(i) => i = attempt
    BY <1>1, ParamsAssumption DEF IInv, TypeOK, Order, Files, Training, Attempts
  <2>2. {i \in Attempts : Training(i)} \subseteq {attempt}
    BY <2>1
  <2>3. IsFiniteSet({attempt}) /\ Cardinality({attempt}) = 1
    BY FS_Singleton
  <2>. QED BY <2>2, <2>3, FS_Subset
<1>2. IInv => OneTrainer
  BY <1>1 DEF OneTrainer
<1>. QED BY <1>2, Invariance, PTL

=============================================================================
