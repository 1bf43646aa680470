--------------------------- MODULE GpuLeaseProofs ---------------------------
(***************************************************************************)
(* Machine-checked proofs about GpuLease, for any box, jobs and probes.    *)
(*                                                                         *)
(* All of them hold whatever dies, fails or is restarted.                  *)
(***************************************************************************)
EXTENDS GpuLeaseInv, FiniteSetTheorems, TLAPS

-----------------------------------------------------------------------------
(* Types *)

LEMMA TypeStep ==
  ASSUME TypeOK, [Next]_vars
  PROVE  TypeOK'
<1> USE LeaseAssumption
    DEF TypeOK, PCs, Scripted, Cards, Goto, CommandExits, LetGo, GoOn, fds, job, probe, vars
<1>1. ASSUME NEW j \in Jobs,
             \/ ScriptStep(j) \/ CommandStep(j)
             \/ KillScript(j) \/ Terminated(j) \/ KillCli(j)
      PROVE  TypeOK'
  <2>1. CASE BeginPass(j)
    BY <2>1 DEF BeginPass
  <2>2. CASE TryCard(j)
    <3>1. CASE IsFree(next[j])
      <4>1. next[j] + 1 \in 1 .. NCards + 1
        BY <2>2 DEF TryCard
      <4>2. /\ script' = [script EXCEPT ![j] = @ \cup {next[j]}]
            /\ cards' = [cards EXCEPT ![j] = @ \cup {next[j]}]
            /\ next[j] \in Cards
        BY <2>2, <3>1 DEF TryCard
      <4>3. script' \in [Jobs -> SUBSET Cards]
        BY <4>2
      <4>4. cards' \in [Jobs -> SUBSET Cards]
        BY <4>2
      <4> QED
        BY <2>2, <3>1, <4>1, <4>3, <4>4 DEF TryCard
    <3>2. CASE ~IsFree(next[j])
      <4>1. next[j] + 1 \in 1 .. NCards + 1
        BY <2>2 DEF TryCard
      <4> QED
        BY <2>2, <3>2, <4>1 DEF TryCard
    <3> QED
      BY <3>1, <3>2
  <2>3. CASE Acquired(j)
    BY <2>3 DEF Acquired
  <2>4. CASE FallShort(j)
    BY <2>4 DEF FallShort
  <2>5. CASE CloseFd(j)
    BY <2>5 DEF CloseFd
  <2>6. CASE ClosedAll(j)
    BY <2>6 DEF ClosedAll
  <2>7. CASE RmInfo(j)
    BY <2>7 DEF RmInfo
  <2>8. CASE Released(j)
    BY <2>8 DEF Released
  <2>9. CASE WriteInfo(j)
    BY <2>9 DEF WriteInfo
  <2>10. CASE RunCommand(j)
    BY <2>10 DEF RunCommand
  <2>11. CASE CommandSeen(j)
    BY <2>11 DEF CommandSeen
  <2>12. CASE HandOver(j)
    BY <2>12 DEF HandOver
  <2>13. CASE NoContainer(j)
    BY <2>13 DEF NoContainer
  <2>14. CASE WaitReturns(j)
    BY <2>14 DEF WaitReturns
  <2>15. CASE HolderRm(j)
    BY <2>15 DEF HolderRm
  <2>16. CASE HolderExits(j)
    BY <2>16 DEF HolderExits
  <2>17. CASE ContainersUp(j)
    BY <2>17 DEF ContainersUp
  <2>18. CASE WorkEnds(j)
    BY <2>18 DEF WorkEnds
  <2>19. CASE ForegroundEnds(j)
    BY <2>19 DEF ForegroundEnds
  <2>20. CASE UpReturns(j)
    BY <2>20 DEF UpReturns
  <2>21. CASE UpFails(j)
    <3>1. CASE pc[j] = "run"
      <4>1. /\ pc' = [pc EXCEPT ![j] = "close"]
            /\ left' = [left EXCEPT ![j] = cards[j]]
        BY <2>21, <3>1 DEF UpFails
      <4>2. left' \in [Jobs -> SUBSET Cards] /\ pc' \in [Jobs -> PCs]
        BY <4>1
      <4> QED
        BY <2>21, <4>2 DEF UpFails
    <3>2. CASE pc[j] # "run"
      BY <2>21, <3>2 DEF UpFails
    <3> QED
      BY <3>1, <3>2
  <2>22. CASE KillScript(j)
    BY <2>22 DEF KillScript
  <2>23. CASE Terminated(j)
    BY <2>23 DEF Terminated
  <2>24. CASE KillCli(j)
    BY <2>24 DEF KillCli
  <2> QED
    BY <1>1, <2>1, <2>2, <2>3, <2>4, <2>5, <2>6, <2>7, <2>8, <2>9, <2>10, <2>11, <2>12, <2>13, <2>14, <2>15, <2>16, <2>17, <2>18, <2>19, <2>20, <2>21, <2>22, <2>23, <2>24
       DEF ScriptStep, CommandStep
<1>2. ASSUME NEW q \in Probes, ProbeStep(q)
      PROVE  TypeOK'
  <2>1. CASE ProbeStart(q)
    BY <2>1 DEF ProbeStart
  <2>2. CASE ProbeTry(q)
    <3>1. CASE IsFree(at[q])
      BY <2>2, <3>1 DEF ProbeTry
    <3>2. CASE ~IsFree(at[q])
      <4>1. /\ at' = [at EXCEPT ![q] = IF @ < NCards THEN @ + 1 ELSE 0]
            /\ UNCHANGED <<job, info, grip>>
        BY <2>2, <3>2 DEF ProbeTry
      <4>2. at' \in [Probes -> 0 .. NCards]
        BY <4>1
      <4> QED
        BY <4>1, <4>2
    <3> QED
      BY <3>1, <3>2
  <2>3. CASE ProbeRm(q)
    BY <2>3 DEF ProbeRm
  <2>4. CASE ProbeClose(q)
    BY <2>4 DEF ProbeClose
  <2> QED
    BY <1>2, <2>1, <2>2, <2>3, <2>4 DEF ProbeStep
<1>3. CASE UNCHANGED vars
  BY <1>3 DEF vars
<1> QED
  BY <1>1, <1>2, <1>3 DEF Next

\* Every variable stays in its range: the passes of try_acquire and of
\* gpu-status stop at the last card.
THEOREM TypeCorrect == Spec => []TypeOK
<1>1. Init => TypeOK
  BY LeaseAssumption DEF Init, TypeOK, PCs, Cards
<1> QED
  BY <1>1, TypeStep, PTL DEF Spec
LEMMA BookStep ==
  ASSUME TypeOK, ScriptFds, Inherited, Once, [Next]_vars
  PROVE  (ScriptFds /\ Inherited /\ Once)'
<1> USE LeaseAssumption
    DEF TypeOK, ScriptFds, Inherited, Once, Running, PCs, Scripted, Goto, CommandExits, LetGo, fds, job, probe, vars
<1>1. ASSUME NEW j \in Jobs,
             \/ ScriptStep(j) \/ CommandStep(j)
             \/ KillScript(j) \/ Terminated(j) \/ KillCli(j)
      PROVE  (ScriptFds /\ Inherited /\ Once)'
  <2>1. CASE BeginPass(j)
    BY <2>1 DEF BeginPass
  <2>2. CASE TryCard(j)
    <3>1. /\ UNCHANGED <<pc, cmd, holder, left, over, work>>
          /\ pc[j] = "try" /\ cmd[j] = {} /\ holder[j] = {}
      BY <2>2 DEF TryCard
    <3>2. \/ UNCHANGED <<script, cards>>
          \/ /\ script' = [script EXCEPT ![j] = script[j] \cup {next[j]}]
             /\ cards' = [cards EXCEPT ![j] = cards[j] \cup {next[j]}]
      BY <2>2 DEF TryCard
    <3>3. CASE UNCHANGED <<script, cards>>
      BY <3>1, <3>3
    <3>4. CASE /\ script' = [script EXCEPT ![j] = script[j] \cup {next[j]}]
               /\ cards' = [cards EXCEPT ![j] = cards[j] \cup {next[j]}]
      <4>1. ScriptFds'
        <5> SUFFICES ASSUME NEW k \in Jobs
                     PROVE  /\ pc'[k] \in {"try", "label", "run", "resolve"} => script'[k] = cards'[k]
                            /\ pc'[k] = "close" => script'[k] = left'[k] /\ script'[k] \subseteq cards'[k]
                            /\ pc'[k] \notin Scripted \/ pc'[k] \in {"rm", "sleep"} => script'[k] = {}
          OBVIOUS
        <5>1. CASE k = j
          BY <3>1, <3>4, <5>1
        <5>2. CASE k # j
          <6>1. script'[k] = script[k] /\ cards'[k] = cards[k]
            BY <3>4, <5>2
          <6> QED
            BY <3>1, <6>1
        <5> QED
          BY <5>1, <5>2
      <4>2. Inherited'
        BY <3>1, <3>4
      <4>3. Once'
        BY <3>1, <3>4
      <4> QED
        BY <4>1, <4>2, <4>3
    <3> QED
      BY <3>2, <3>3, <3>4
  <2>3. CASE Acquired(j)
    BY <2>3 DEF Acquired
  <2>4. CASE FallShort(j)
    BY <2>4 DEF FallShort
  <2>5. CASE CloseFd(j)
    <3> DEFINE c == Lowest(left[j])
    <3>1. /\ script' = [script EXCEPT ![j] = script[j] \ {c}]
          /\ left' = [left EXCEPT ![j] = left[j] \ {c}]
          /\ UNCHANGED <<pc, cards, cmd, holder, over, work>>
          /\ pc[j] = "close"
      BY <2>5 DEF CloseFd
    <3> HIDE DEF c
    <3>2. ScriptFds'
      <4> SUFFICES ASSUME NEW k \in Jobs
                   PROVE  /\ pc'[k] \in {"try", "label", "run", "resolve"} => script'[k] = cards'[k]
                          /\ pc'[k] = "close" => script'[k] = left'[k] /\ script'[k] \subseteq cards'[k]
                          /\ pc'[k] \notin Scripted \/ pc'[k] \in {"rm", "sleep"} => script'[k] = {}
        OBVIOUS
      <4>1. CASE k = j
        <5>1. script'[k] = script[k] \ {c} /\ left'[k] = left[k] \ {c}
          BY <3>1, <4>1
        <5> QED
          BY <3>1, <4>1, <5>1
      <4>2. CASE k # j
        BY <3>1, <4>2
      <4> QED
        BY <4>1, <4>2
    <3>3. Inherited'
      BY <3>1
    <3>4. Once'
      BY <3>1
    <3> QED
      BY <3>2, <3>3, <3>4
  <2>6. CASE ClosedAll(j)
    BY <2>6 DEF ClosedAll
  <2>7. CASE RmInfo(j)
    BY <2>7 DEF RmInfo
  <2>8. CASE Released(j)
    BY <2>8 DEF Released
  <2>9. CASE WriteInfo(j)
    BY <2>9 DEF WriteInfo
  <2>10. CASE RunCommand(j)
    BY <2>10 DEF RunCommand
  <2>11. CASE CommandSeen(j)
    BY <2>11 DEF CommandSeen
  <2>12. CASE HandOver(j)
    <3>1. ScriptFds'
      BY <2>12 DEF HandOver
    <3>2. Inherited'
      <4>1. ASSUME NEW k \in Jobs
            PROVE  /\ cmd'[k] \in {{}, cards'[k]}
                   /\ cmd'[k] # {} => over'[k]
                   /\ holder'[k] = IF pc'[k] \in {"held", "unlabel"} THEN cards'[k] ELSE {}
        <5>1. CASE k = j
          BY <2>12, <5>1 DEF HandOver
        <5>2. CASE k # j
          BY <2>12, <5>2 DEF HandOver
        <5> QED
          BY <5>1, <5>2
      <4> QED
        BY <4>1
    <3>3. Once'
      BY <2>12 DEF HandOver
    <3> QED
      BY <3>1, <3>2, <3>3
  <2>13. CASE NoContainer(j)
    BY <2>13 DEF NoContainer
  <2>14. CASE WaitReturns(j)
    BY <2>14 DEF WaitReturns
  <2>15. CASE HolderRm(j)
    BY <2>15 DEF HolderRm
  <2>16. CASE HolderExits(j)
    <3>1. ScriptFds'
      BY <2>16 DEF HolderExits
    <3>2. Inherited'
      <4>1. ASSUME NEW k \in Jobs
            PROVE  /\ cmd'[k] \in {{}, cards'[k]}
                   /\ cmd'[k] # {} => over'[k]
                   /\ holder'[k] = IF pc'[k] \in {"held", "unlabel"} THEN cards'[k] ELSE {}
        <5>1. CASE k = j
          BY <2>16, <5>1 DEF HolderExits
        <5>2. CASE k # j
          BY <2>16, <5>2 DEF HolderExits
        <5> QED
          BY <5>1, <5>2
      <4> QED
        BY <4>1
    <3>3. Once'
      BY <2>16 DEF HolderExits
    <3> QED
      BY <3>1, <3>2, <3>3
  <2>17. CASE ContainersUp(j)
    BY <2>17 DEF ContainersUp
  <2>18. CASE WorkEnds(j)
    BY <2>18 DEF WorkEnds
  <2>19. CASE ForegroundEnds(j)
    BY <2>19 DEF ForegroundEnds
  <2>20. CASE UpReturns(j)
    BY <2>20 DEF UpReturns
  <2>21. CASE UpFails(j)
    BY <2>21 DEF UpFails
  <2>22. CASE KillScript(j)
    BY <2>22 DEF KillScript
  <2>23. CASE Terminated(j)
    BY <2>23 DEF Terminated
  <2>24. CASE KillCli(j)
    BY <2>24 DEF KillCli
  <2> QED
    BY <1>1, <2>1, <2>2, <2>3, <2>4, <2>5, <2>6, <2>7, <2>8, <2>9, <2>10, <2>11, <2>12, <2>13, <2>14, <2>15, <2>16, <2>17, <2>18, <2>19, <2>20, <2>21, <2>22, <2>23, <2>24
       DEF ScriptStep, CommandStep
<1>2. ASSUME NEW q \in Probes, ProbeStep(q)
      PROVE  (ScriptFds /\ Inherited /\ Once)'
  <2>1. CASE ProbeStart(q)
    BY <2>1 DEF ProbeStart
  <2>2. CASE ProbeTry(q)
    BY <2>2 DEF ProbeTry
  <2>3. CASE ProbeRm(q)
    BY <2>3 DEF ProbeRm
  <2>4. CASE ProbeClose(q)
    BY <2>4 DEF ProbeClose
  <2> QED
    BY <1>2, <2>1, <2>2, <2>3, <2>4 DEF ProbeStep
<1>3. CASE UNCHANGED vars
  BY <1>3 DEF vars
<1> QED
  BY <1>1, <1>2, <1>3 DEF Next

LEMMA FiniteCards ==
  ASSUME TypeOK, NEW j \in Jobs
  PROVE  IsFiniteSet(cards[j]) /\ Cardinality(cards[j]) \in Nat
<1>1. IsFiniteSet(1 .. NCards)
  BY LeaseAssumption, FS_Interval
<1>2. cards[j] \in SUBSET (1 .. NCards)
  BY DEF TypeOK, Cards
<1>3. IsFiniteSet(cards[j])
  BY <1>1, <1>2, FS_Subset
<1> QED
  BY <1>3, FS_CardinalityType

LEMMA FullStep ==
  ASSUME TypeOK, Once, FullLease, [Next]_vars
  PROVE  FullLease'
<1> USE LeaseAssumption
    DEF TypeOK, Once, FullLease, Leased, PCs, Scripted, Cards, Goto, CommandExits, LetGo, fds, job, probe, vars
<1>1. ASSUME NEW j \in Jobs,
             \/ ScriptStep(j) \/ CommandStep(j)
             \/ KillScript(j) \/ Terminated(j) \/ KillCli(j)
      PROVE  FullLease'
  <2>1. CASE BeginPass(j)
    BY <2>1, FS_EmptySet DEF BeginPass
  <2>2. CASE TryCard(j)
    <3>1. /\ pc[j] = "try" /\ UNCHANGED <<pc, over>>
          /\ next' = [next EXCEPT ![j] = next[j] + 1]
          /\ ~(Cardinality(cards[j]) >= Want[j])
      BY <2>2 DEF TryCard, Enough
    <3>2. CASE UNCHANGED cards
      BY <3>1, <3>2
    <3>3. CASE cards' = [cards EXCEPT ![j] = cards[j] \cup {next[j]}]
      <4>1. next[j] \notin cards[j]
        BY <3>1
      <4>2. /\ Cardinality(cards[j] \cup {next[j]}) = Cardinality(cards[j]) + 1
            /\ Cardinality(cards[j]) \in Nat
        BY <4>1, FiniteCards, FS_AddElement
      <4>3. Cardinality(cards'[j]) <= Want[j]
        BY <3>1, <3>3, <4>2
      <4>4. cards'[j] \subseteq 1 .. (next'[j] - 1)
        BY <3>1, <3>3
      <4> QED
        BY <3>1, <3>3, <4>3, <4>4
    <3> QED
      BY <2>2, <3>2, <3>3 DEF TryCard
  <2>3. CASE Acquired(j)
    <3>1. Cardinality(cards[j]) \in Nat
      BY FiniteCards
    <3>2. Cardinality(cards[j]) = Want[j]
      BY <2>3, <3>1 DEF Acquired, Enough
    <3> QED
      BY <2>3, <3>2 DEF Acquired
  <2>4. CASE FallShort(j)
    BY <2>4 DEF FallShort
  <2>5. CASE CloseFd(j)
    BY <2>5 DEF CloseFd
  <2>6. CASE ClosedAll(j)
    BY <2>6 DEF ClosedAll
  <2>7. CASE RmInfo(j)
    BY <2>7 DEF RmInfo
  <2>8. CASE Released(j)
    BY <2>8 DEF Released
  <2>9. CASE WriteInfo(j)
    BY <2>9 DEF WriteInfo
  <2>10. CASE RunCommand(j)
    BY <2>10 DEF RunCommand
  <2>11. CASE CommandSeen(j)
    BY <2>11 DEF CommandSeen
  <2>12. CASE HandOver(j)
    BY <2>12 DEF HandOver
  <2>13. CASE NoContainer(j)
    BY <2>13 DEF NoContainer
  <2>14. CASE WaitReturns(j)
    BY <2>14 DEF WaitReturns
  <2>15. CASE HolderRm(j)
    BY <2>15 DEF HolderRm
  <2>16. CASE HolderExits(j)
    BY <2>16 DEF HolderExits
  <2>17. CASE ContainersUp(j)
    BY <2>17 DEF ContainersUp
  <2>18. CASE WorkEnds(j)
    BY <2>18 DEF WorkEnds
  <2>19. CASE ForegroundEnds(j)
    BY <2>19 DEF ForegroundEnds
  <2>20. CASE UpReturns(j)
    BY <2>20 DEF UpReturns
  <2>21. CASE UpFails(j)
    BY <2>21 DEF UpFails
  <2>22. CASE KillScript(j)
    BY <2>22 DEF KillScript
  <2>23. CASE Terminated(j)
    BY <2>23 DEF Terminated
  <2>24. CASE KillCli(j)
    BY <2>24 DEF KillCli
  <2> QED
    BY <1>1, <2>1, <2>2, <2>3, <2>4, <2>5, <2>6, <2>7, <2>8, <2>9, <2>10, <2>11, <2>12, <2>13, <2>14, <2>15, <2>16, <2>17, <2>18, <2>19, <2>20, <2>21, <2>22, <2>23, <2>24
       DEF ScriptStep, CommandStep
<1>2. ASSUME NEW q \in Probes, ProbeStep(q)
      PROVE  FullLease'
  <2>1. CASE ProbeStart(q)
    BY <2>1 DEF ProbeStart
  <2>2. CASE ProbeTry(q)
    BY <2>2 DEF ProbeTry
  <2>3. CASE ProbeRm(q)
    BY <2>3 DEF ProbeRm
  <2>4. CASE ProbeClose(q)
    BY <2>4 DEF ProbeClose
  <2> QED
    BY <1>2, <2>1, <2>2, <2>3, <2>4 DEF ProbeStep
<1>3. CASE UNCHANGED vars
  BY <1>3 DEF vars
<1> QED
  BY <1>1, <1>2, <1>3 DEF Next

\* The set of locks of a job grows by a successful flock only.
LEMMA HeldStep ==
  ASSUME TypeOK, ScriptFds, Inherited, Once, [Next]_vars
  PROVE  \A k \in Jobs :
           \/ Held(k)' \subseteq Held(k)
           \/ TryCard(k) /\ IsFree(next[k]) /\ Held(k)' = Held(k) \cup {next[k]}
<1> DEFINE Grows(k) == \/ Held(k)' \subseteq Held(k)
                       \/ TryCard(k) /\ IsFree(next[k]) /\ Held(k)' = Held(k) \cup {next[k]}
<1> SUFFICES ASSUME NEW k \in Jobs
             PROVE  Grows(k)
  OBVIOUS
<1> USE LeaseAssumption
    DEF TypeOK, ScriptFds, Inherited, Once, Held, Running, Scripted, Goto, CommandExits, LetGo, fds, job, probe, vars
<1>1. ASSUME NEW j \in Jobs,
             \/ ScriptStep(j) \/ CommandStep(j)
             \/ KillScript(j) \/ Terminated(j) \/ KillCli(j)
      PROVE  Grows(k)
  <2>1. CASE BeginPass(j)
    BY <2>1 DEF BeginPass
  <2>2. CASE TryCard(j)
    <3>1. UNCHANGED <<cmd, holder>>
      BY <2>2 DEF TryCard
    <3>2. CASE UNCHANGED script
      BY <3>1, <3>2
    <3>3. CASE /\ IsFree(next[j])
               /\ script' = [script EXCEPT ![j] = script[j] \cup {next[j]}]
      <4>1. CASE k = j
        BY <2>2, <3>1, <3>3, <4>1
      <4>2. CASE k # j
        BY <3>1, <3>3, <4>2
      <4> QED
        BY <4>1, <4>2
    <3> QED
      BY <2>2, <3>2, <3>3 DEF TryCard
  <2>3. CASE Acquired(j)
    BY <2>3 DEF Acquired
  <2>4. CASE FallShort(j)
    BY <2>4 DEF FallShort
  <2>5. CASE CloseFd(j)
    BY <2>5 DEF CloseFd
  <2>6. CASE ClosedAll(j)
    BY <2>6 DEF ClosedAll
  <2>7. CASE RmInfo(j)
    BY <2>7 DEF RmInfo
  <2>8. CASE Released(j)
    BY <2>8 DEF Released
  <2>9. CASE WriteInfo(j)
    BY <2>9 DEF WriteInfo
  <2>10. CASE RunCommand(j)
    BY <2>10 DEF RunCommand
  <2>11. CASE CommandSeen(j)
    BY <2>11 DEF CommandSeen
  <2>12. CASE HandOver(j)
    BY <2>12 DEF HandOver
  <2>13. CASE NoContainer(j)
    BY <2>13 DEF NoContainer
  <2>14. CASE WaitReturns(j)
    BY <2>14 DEF WaitReturns
  <2>15. CASE HolderRm(j)
    BY <2>15 DEF HolderRm
  <2>16. CASE HolderExits(j)
    BY <2>16 DEF HolderExits
  <2>17. CASE ContainersUp(j)
    BY <2>17 DEF ContainersUp
  <2>18. CASE WorkEnds(j)
    BY <2>18 DEF WorkEnds
  <2>19. CASE ForegroundEnds(j)
    BY <2>19 DEF ForegroundEnds
  <2>20. CASE UpReturns(j)
    BY <2>20 DEF UpReturns
  <2>21. CASE UpFails(j)
    BY <2>21 DEF UpFails
  <2>22. CASE KillScript(j)
    BY <2>22 DEF KillScript
  <2>23. CASE Terminated(j)
    BY <2>23 DEF Terminated
  <2>24. CASE KillCli(j)
    BY <2>24 DEF KillCli
  <2> QED
    BY <1>1, <2>1, <2>2, <2>3, <2>4, <2>5, <2>6, <2>7, <2>8, <2>9, <2>10, <2>11, <2>12, <2>13, <2>14, <2>15, <2>16, <2>17, <2>18, <2>19, <2>20, <2>21, <2>22, <2>23, <2>24
       DEF ScriptStep, CommandStep
<1>2. ASSUME NEW q \in Probes, ProbeStep(q)
      PROVE  Grows(k)
  <2>1. CASE ProbeStart(q)
    BY <2>1 DEF ProbeStart
  <2>2. CASE ProbeTry(q)
    BY <2>2 DEF ProbeTry
  <2>3. CASE ProbeRm(q)
    BY <2>3 DEF ProbeRm
  <2>4. CASE ProbeClose(q)
    BY <2>4 DEF ProbeClose
  <2> QED
    BY <1>2, <2>1, <2>2, <2>3, <2>4 DEF ProbeStep
<1>3. CASE UNCHANGED vars
  BY <1>3 DEF vars
<1> QED
  BY <1>1, <1>2, <1>3 DEF Next

\* Locks of probes, likewise; one process moves at a time.
LEMMA GripStep ==
  ASSUME TypeOK, Exclusive, [Next]_vars
  PROVE  \/ UNCHANGED probe
         \/ \E q \in Probes : UNCHANGED job /\
              \/ /\ ~grip'[q]
                 /\ \A r \in Probes \ {q} : grip'[r] = grip[r] /\ at'[r] = at[r]
              \/ /\ at[q] \in Cards /\ IsFree(at[q]) /\ UNCHANGED at
                 /\ grip' = [grip EXCEPT ![q] = TRUE]
<1> DEFINE Moves == \E q \in Probes : UNCHANGED job /\
              \/ /\ ~grip'[q]
                 /\ \A r \in Probes \ {q} : grip'[r] = grip[r] /\ at'[r] = at[r]
              \/ /\ at[q] \in Cards /\ IsFree(at[q]) /\ UNCHANGED at
                 /\ grip' = [grip EXCEPT ![q] = TRUE]
<1> SUFFICES UNCHANGED probe \/ Moves
  OBVIOUS
<1> USE DEF TypeOK, Exclusive, Cards, GoOn, fds, job, probe, vars
<1>1. ASSUME NEW j \in Jobs,
             \/ ScriptStep(j) \/ CommandStep(j)
             \/ KillScript(j) \/ Terminated(j) \/ KillCli(j)
      PROVE  UNCHANGED probe \/ Moves
  <2>1. CASE BeginPass(j)
    BY <2>1 DEF BeginPass
  <2>2. CASE TryCard(j)
    BY <2>2 DEF TryCard
  <2>3. CASE Acquired(j)
    BY <2>3 DEF Acquired
  <2>4. CASE FallShort(j)
    BY <2>4 DEF FallShort
  <2>5. CASE CloseFd(j)
    BY <2>5 DEF CloseFd
  <2>6. CASE ClosedAll(j)
    BY <2>6 DEF ClosedAll
  <2>7. CASE RmInfo(j)
    BY <2>7 DEF RmInfo
  <2>8. CASE Released(j)
    BY <2>8 DEF Released
  <2>9. CASE WriteInfo(j)
    BY <2>9 DEF WriteInfo
  <2>10. CASE RunCommand(j)
    BY <2>10 DEF RunCommand
  <2>11. CASE CommandSeen(j)
    BY <2>11 DEF CommandSeen
  <2>12. CASE HandOver(j)
    BY <2>12 DEF HandOver
  <2>13. CASE NoContainer(j)
    BY <2>13 DEF NoContainer
  <2>14. CASE WaitReturns(j)
    BY <2>14 DEF WaitReturns
  <2>15. CASE HolderRm(j)
    BY <2>15 DEF HolderRm
  <2>16. CASE HolderExits(j)
    BY <2>16 DEF HolderExits
  <2>17. CASE ContainersUp(j)
    BY <2>17 DEF ContainersUp
  <2>18. CASE WorkEnds(j)
    BY <2>18 DEF WorkEnds
  <2>19. CASE ForegroundEnds(j)
    BY <2>19 DEF ForegroundEnds
  <2>20. CASE UpReturns(j)
    BY <2>20 DEF UpReturns
  <2>21. CASE UpFails(j)
    BY <2>21 DEF UpFails
  <2>22. CASE KillScript(j)
    BY <2>22 DEF KillScript
  <2>23. CASE Terminated(j)
    BY <2>23 DEF Terminated
  <2>24. CASE KillCli(j)
    BY <2>24 DEF KillCli
  <2> QED
    BY <1>1, <2>1, <2>2, <2>3, <2>4, <2>5, <2>6, <2>7, <2>8, <2>9, <2>10, <2>11, <2>12, <2>13, <2>14, <2>15, <2>16, <2>17, <2>18, <2>19, <2>20, <2>21, <2>22, <2>23, <2>24
       DEF ScriptStep, CommandStep
<1>2. ASSUME NEW q \in Probes, ProbeStep(q)
      PROVE  UNCHANGED probe \/ Moves
  <2>1. CASE ProbeStart(q)
    BY <2>1 DEF ProbeStart
  <2>2. CASE ProbeTry(q)
    <3>1. CASE IsFree(at[q])
      <4>1. /\ grip' = [grip EXCEPT ![q] = TRUE] /\ UNCHANGED <<at, job>>
        BY <2>2, <3>1 DEF ProbeTry
      <4>2. at[q] \in Cards
        BY <2>2 DEF ProbeTry
      <4> QED
        BY <3>1, <4>1, <4>2
    <3>2. CASE ~IsFree(at[q])
      BY <2>2, <3>2 DEF ProbeTry
    <3> QED
      BY <3>1, <3>2
  <2>3. CASE ProbeRm(q)
    BY <2>3 DEF ProbeRm
  <2>4. CASE ProbeClose(q)
    BY <2>4 DEF ProbeClose
  <2> QED
    BY <1>2, <2>1, <2>2, <2>3, <2>4 DEF ProbeStep
<1>3. CASE UNCHANGED vars
  BY <1>3 DEF vars
<1> QED
  BY <1>1, <1>2, <1>3 DEF Next

LEMMA ExclusiveStep ==
  ASSUME TypeOK, ScriptFds, Inherited, Once, Exclusive, [Next]_vars
  PROVE  Exclusive'
<1>1. CASE UNCHANGED probe /\ \A k \in Jobs : Held(k)' \subseteq Held(k)
  BY <1>1 DEF Exclusive, probe
<1>2. ASSUME NEW k \in Jobs, TryCard(k), IsFree(next[k]), Held(k)' = Held(k) \cup {next[k]}
      PROVE  Exclusive'
  <2>1. UNCHANGED probe /\ \A l \in Jobs \ {k} : Held(l)' = Held(l)
    <3>1. UNCHANGED probe
      BY <1>2 DEF TryCard
    <3>2. ASSUME NEW l \in Jobs \ {k}
          PROVE  script'[l] = script[l] /\ cmd'[l] = cmd[l] /\ holder'[l] = holder[l]
      <4>1. UNCHANGED <<cmd, holder>>
        BY <1>2 DEF TryCard
      <4>2. script' = script \/ script' = [script EXCEPT ![k] = script[k] \cup {next[k]}]
        BY <1>2 DEF TryCard
      <4>3. script'[l] = script[l]
        BY <4>2 DEF TypeOK
      <4> QED
        BY <4>1, <4>3
    <3> QED
      BY <3>1, <3>2 DEF Held
  <2>2. \A l \in Jobs : next[k] \notin Held(l)
    BY <1>2 DEF IsFree
  <2>3. \A q \in Probes : grip[q] => at[q] # next[k]
    BY <1>2 DEF IsFree
  <2>4. \A l, m \in Jobs : l # m => Held(l)' \cap Held(m)' = {}
    <3> SUFFICES ASSUME NEW l \in Jobs, NEW m \in Jobs, l # m
                 PROVE  Held(l)' \cap Held(m)' = {}
      OBVIOUS
    <3>1. Held(l) \cap Held(m) = {}
      BY DEF Exclusive
    <3>2. CASE l = k
      BY <1>2, <2>1, <2>2, <3>1, <3>2
    <3>3. CASE m = k
      BY <1>2, <2>1, <2>2, <3>1, <3>3
    <3>4. CASE l # k /\ m # k
      BY <2>1, <3>1, <3>4
    <3> QED
      BY <3>2, <3>3, <3>4
  <2>5. \A q \in Probes, l \in Jobs : grip'[q] => at'[q] \notin Held(l)'
    BY <1>2, <2>1, <2>3 DEF Exclusive, probe
  <2> QED
    BY <2>1, <2>4, <2>5 DEF Exclusive, probe
<1>3. ASSUME NEW q \in Probes, UNCHANGED job,
             \/ /\ ~grip'[q]
                /\ \A r \in Probes \ {q} : grip'[r] = grip[r] /\ at'[r] = at[r]
             \/ /\ at[q] \in Cards /\ IsFree(at[q]) /\ UNCHANGED at
                /\ grip' = [grip EXCEPT ![q] = TRUE]
      PROVE  Exclusive'
  <2>1. \A l \in Jobs : Held(l)' = Held(l)
    BY <1>3 DEF Held, fds, job
  <2>2. CASE /\ ~grip'[q]
             /\ \A r \in Probes \ {q} : grip'[r] = grip[r] /\ at'[r] = at[r]
    BY <2>1, <2>2 DEF Exclusive
  <2>3. CASE /\ at[q] \in Cards /\ IsFree(at[q]) /\ UNCHANGED at
             /\ grip' = [grip EXCEPT ![q] = TRUE]
    BY <2>1, <2>3 DEF Exclusive, IsFree, TypeOK
  <2> QED
    BY <1>3, <2>2, <2>3
<1> QED
  BY <1>1, <1>2, <1>3, HeldStep, GripStep

LEMMA LockStep ==
  ASSUME TypeOK, LockInv, [Next]_vars
  PROVE  LockInv'
BY BookStep, FullStep, ExclusiveStep DEF LockInv

\* Locks are exclusive and account for the lease of every job, whichever
\* scripts die and whatever fails or is restarted: what the script opened, the
\* command and the holder inherited as a whole, and every lease is of -n cards.
THEOREM LocksCorrect == Spec => []LockInv
<1>1. Init => LockInv
  BY LeaseAssumption
  DEF Init, LockInv, ScriptFds, Inherited, FullLease, Once, Exclusive, Held, Leased, Running, Scripted
<1>2. TypeOK /\ LockInv /\ [Next]_vars => LockInv'
  BY LockStep
<1> QED
  BY <1>1, <1>2, TypeCorrect, PTL DEF Spec

-----------------------------------------------------------------------------
(* The workloads *)

LEMMA BackedStep ==
  ASSUME TypeOK, ScriptFds, Inherited, FullLease, Once, Backed, [Next]_vars
  PROVE  Backed'
<1> USE LeaseAssumption
    DEF TypeOK, ScriptFds, Inherited, Once, Backed, Running, Scripted, Goto, CommandExits, LetGo, fds, job, probe, vars
<1>1. ASSUME NEW j \in Jobs,
             \/ ScriptStep(j) \/ CommandStep(j)
             \/ KillScript(j) \/ Terminated(j) \/ KillCli(j)
      PROVE  Backed'
  <2>1. CASE BeginPass(j)
    BY <2>1 DEF BeginPass
  <2>2. CASE TryCard(j)
    BY <2>2 DEF TryCard
  <2>3. CASE Acquired(j)
    BY <2>3 DEF Acquired
  <2>4. CASE FallShort(j)
    BY <2>4 DEF FallShort
  <2>5. CASE CloseFd(j)
    BY <2>5 DEF CloseFd
  <2>6. CASE ClosedAll(j)
    BY <2>6 DEF ClosedAll
  <2>7. CASE RmInfo(j)
    BY <2>7 DEF RmInfo
  <2>8. CASE Released(j)
    BY <2>8 DEF Released
  <2>9. CASE WriteInfo(j)
    BY <2>9 DEF WriteInfo
  <2>10. CASE RunCommand(j)
    <3>1. cards[j] # {}
      <4>1. Cardinality(cards[j]) = Want[j]
        BY <2>10 DEF RunCommand, FullLease, Leased
      <4>2. Want[j] # 0
        BY LeaseAssumption
      <4> QED
        BY <4>1, <4>2, FS_EmptySet
    <3>2. script[j] = cards[j]
      BY <2>10 DEF RunCommand
    <3> QED
      BY <2>10, <3>1, <3>2 DEF RunCommand
  <2>11. CASE CommandSeen(j)
    BY <2>11 DEF CommandSeen
  <2>12. CASE HandOver(j)
    BY <2>12 DEF HandOver
  <2>13. CASE NoContainer(j)
    BY <2>13 DEF NoContainer
  <2>14. CASE WaitReturns(j)
    BY <2>14 DEF WaitReturns
  <2>15. CASE HolderRm(j)
    BY <2>15 DEF HolderRm
  <2>16. CASE HolderExits(j)
    BY <2>16 DEF HolderExits
  <2>17. CASE ContainersUp(j)
    BY <2>17 DEF ContainersUp
  <2>18. CASE WorkEnds(j)
    BY <2>18 DEF WorkEnds
  <2>19. CASE ForegroundEnds(j)
    BY <2>19 DEF ForegroundEnds
  <2>20. CASE UpReturns(j)
    BY <2>20 DEF UpReturns
  <2>21. CASE UpFails(j)
    BY <2>21 DEF UpFails
  <2>22. CASE KillScript(j)
    BY <2>22 DEF KillScript
  <2>23. CASE Terminated(j)
    BY <2>23 DEF Terminated
  <2>24. CASE KillCli(j)
    BY <2>24 DEF KillCli
  <2> QED
    BY <1>1, <2>1, <2>2, <2>3, <2>4, <2>5, <2>6, <2>7, <2>8, <2>9, <2>10, <2>11, <2>12, <2>13, <2>14, <2>15, <2>16, <2>17, <2>18, <2>19, <2>20, <2>21, <2>22, <2>23, <2>24
       DEF ScriptStep, CommandStep
<1>2. ASSUME NEW q \in Probes, ProbeStep(q)
      PROVE  Backed'
  <2>1. CASE ProbeStart(q)
    BY <2>1 DEF ProbeStart
  <2>2. CASE ProbeTry(q)
    BY <2>2 DEF ProbeTry
  <2>3. CASE ProbeRm(q)
    BY <2>3 DEF ProbeRm
  <2>4. CASE ProbeClose(q)
    BY <2>4 DEF ProbeClose
  <2> QED
    BY <1>2, <2>1, <2>2, <2>3, <2>4 DEF ProbeStep
<1>3. CASE UNCHANGED vars
  BY <1>3 DEF vars
<1> QED
  BY <1>1, <1>2, <1>3 DEF Next

LEMMA BackedIsHeld ==
  ASSUME LockInv, Backed
  PROVE  UsedIsBusy
BY DEF LockInv, ScriptFds, Inherited, Backed, UsedIsBusy, Running, Held

LEMMA BackedCorrect == Spec => []Backed
<1>1. Init => Backed
  BY DEF Init, Backed, Running
<1>2. TypeOK /\ LockInv /\ Backed /\ [Next]_vars => Backed'
  BY BackedStep DEF LockInv
<1> QED
  BY <1>1, <1>2, TypeCorrect, LocksCorrect, PTL DEF Spec

\* The cards of a running workload are locked as long as anybody waits for its
\* end, whoever is killed, fails or gives up on it.
THEOREM UsedCorrect == Spec => []UsedIsBusy
BY BackedCorrect, LocksCorrect, BackedIsHeld, PTL

\* A step of the box starts a workload on cards nobody uses, ends one, or
\* leaves them all alone.
LEMMA ArbiterStep ==
  ASSUME TypeOK, LockInv, UsedIsBusy, [Next]_vars
  PROVE  [Arbiter!Next]_using
<1> USE LeaseAssumption DEF TypeOK
<1>1. CASE UNCHANGED using
  BY <1>1
<1>2. ASSUME NEW j \in Jobs, NEW w \in {"stray", "down"},
             work' = [work EXCEPT ![j] = w], cards' = cards
      PROVE  [Arbiter!Next]_using
  <2>1. using' = [using EXCEPT ![j] = {}]
    <3>1. ASSUME NEW k \in Jobs
          PROVE  (IF work'[k] = "up" THEN cards'[k] ELSE {})
                   = IF k = j THEN {} ELSE IF work[k] = "up" THEN cards[k] ELSE {}
      BY <1>2
    <3> QED
      BY <3>1 DEF using
  <2>2. CASE using[j] = {}
    <3>1. using = [k \in Jobs |-> using[k]]
      BY DEF using
    <3> HIDE DEF using
    <3>2. using' = using
      BY <2>1, <2>2, <3>1
    <3> QED
      BY <3>2
  <2>3. CASE using[j] # {}
    BY <2>1, <2>3 DEF Arbiter!Drop, Arbiter!Next
  <2> QED
    BY <2>2, <2>3
<1>3. ASSUME NEW j \in Jobs, work[j] = "none", work' = [work EXCEPT ![j] = "up"],
             UNCHANGED cards, cards[j] \subseteq Held(j), Leased(j)
      PROVE  [Arbiter!Next]_using
  <2>1. using[j] = {} /\ using' = [using EXCEPT ![j] = cards[j]]
    BY <1>3 DEF using
  <2>2. ASSUME NEW k \in Jobs
        PROVE  cards[j] \cap using[k] = {}
    <3>1. CASE k = j
      BY <2>1, <3>1
    <3>2. CASE k # j
      <4>1. using[k] \subseteq Held(k)
        BY DEF using, UsedIsBusy
      <4>2. Held(j) \cap Held(k) = {}
        BY <3>2 DEF LockInv, Exclusive
      <4> QED
        BY <1>3, <4>1, <4>2
    <3> QED
      BY <3>1, <3>2
  <2>3. cards[j] \subseteq Arbiter!Free
    BY <2>2 DEF Arbiter!Free
  <2>4. Cardinality(cards[j]) = Want[j]
    BY <1>3 DEF LockInv, FullLease
  <2>5. Arbiter!Grab(j, cards[j])
    <3>1. Arbiter!Cardinality(cards[j]) = Cardinality(cards[j])
      BY Zenon DEF Arbiter!Cardinality, Cardinality, Arbiter!IsFiniteSet, IsFiniteSet
    <3> QED
      BY <2>1, <2>3, <2>4, <3>1 DEF Arbiter!Grab
  <2>6. cards[j] \in SUBSET Cards
    OBVIOUS
  <2> QED
    BY <2>5, <2>6 DEF Arbiter!Next
<1> USE DEF Goto, CommandExits, LetGo, fds, job, probe, vars
<1>4. ASSUME NEW j \in Jobs, RunCommand(j)
      PROVE  [Arbiter!Next]_using
  <2>1. CASE j \in Contained
    BY <1>4, <1>1, <2>1 DEF RunCommand, using, LockInv, Once
  <2>2. CASE j \notin Contained
    <3>1. script[j] = cards[j] /\ work[j] = "none" /\ Leased(j)
      BY <1>4 DEF RunCommand, LockInv, ScriptFds, Once, Leased
    <3> QED
      BY <1>4, <1>3, <2>2, <3>1 DEF RunCommand, Held
  <2> QED
    BY <2>1, <2>2
<1>5. ASSUME NEW j \in Jobs, ContainersUp(j)
      PROVE  [Arbiter!Next]_using
  <2>1. cmd[j] = cards[j] /\ Leased(j)
    BY <1>5 DEF ContainersUp, Running, LockInv, Inherited, Leased
  <2> QED
    BY <1>5, <1>3, <2>1 DEF ContainersUp, Held
<1>6. ASSUME NEW j \in Jobs, BeginPass(j) \/ TryCard(j)
      PROVE  UNCHANGED using
  <2>1. work[j] # "up" /\ UNCHANGED work
    BY <1>6 DEF BeginPass, TryCard, LockInv, Once
  <2>2. \A k \in Jobs : k # j => cards'[k] = cards[k]
    BY <1>6 DEF BeginPass, TryCard
  <2> QED
    BY <2>1, <2>2 DEF using
<1>7. ASSUME NEW j \in Jobs, work' = LetGo(j), UNCHANGED cards
      PROVE  UNCHANGED <<work, cards>> \/ work' = [work EXCEPT ![j] = "stray"]
  BY <1>7 DEF LetGo
<1>8. ASSUME NEW j \in Jobs, WorkEnds(j)
      PROVE  [Arbiter!Next]_using
  BY <1>2, <1>8 DEF WorkEnds
<1>9. \/ UNCHANGED <<work, cards>>
      \/ \E j \in Jobs : \/ BeginPass(j) \/ TryCard(j) \/ WorkEnds(j)
                         \/ RunCommand(j) \/ ContainersUp(j)
                         \/ work' = [work EXCEPT ![j] = "stray"] /\ cards' = cards
  <2>1. ASSUME NEW j \in Jobs, ScriptStep(j)
        PROVE  \/ UNCHANGED <<work, cards>> \/ BeginPass(j) \/ TryCard(j) \/ RunCommand(j)
               \/ work' = LetGo(j) /\ UNCHANGED cards
    BY <2>1 DEF ScriptStep, Acquired, FallShort, CloseFd, ClosedAll, RmInfo, Released,
                WriteInfo, CommandSeen, HandOver, NoContainer, WaitReturns, HolderRm, HolderExits
  <2>2. ASSUME NEW j \in Jobs, CommandStep(j)
        PROVE  \/ UNCHANGED <<work, cards>> \/ WorkEnds(j) \/ ContainersUp(j)
               \/ work' = LetGo(j) /\ UNCHANGED cards
    BY <2>2 DEF CommandStep, ForegroundEnds, UpReturns, UpFails
  <2>3. ASSUME NEW j \in Jobs, KillScript(j) \/ Terminated(j) \/ KillCli(j)
        PROVE  UNCHANGED <<work, cards>> \/ (work' = LetGo(j) /\ UNCHANGED cards)
    BY <2>3 DEF KillScript, Terminated, KillCli
  <2>4. ASSUME NEW q \in Probes, ProbeStep(q)
        PROVE  UNCHANGED <<work, cards>>
    BY <2>4 DEF ProbeStep, ProbeStart, ProbeTry, ProbeRm, ProbeClose
  <2> QED
    BY <1>7, <2>1, <2>2, <2>3, <2>4 DEF Next
<1>10. CASE UNCHANGED <<work, cards>>
  BY <1>1, <1>10 DEF using
<1>11. ASSUME NEW j \in Jobs, work' = [work EXCEPT ![j] = "stray"], cards' = cards
       PROVE  [Arbiter!Next]_using
  BY <1>2, <1>11
<1> QED
  BY <1>1, <1>4, <1>5, <1>6, <1>8, <1>9, <1>10, <1>11

\* The locks implement the arbiter, apart from workloads that were let go: jobs
\* take turns on every card, and each runs on as many as it asked for.
THEOREM Arbitrates == Spec => OneJobPerCard
<1>1. Init => Arbiter!Init
  BY DEF Init, Arbiter!Init, using
<1>2. TypeOK /\ LockInv /\ UsedIsBusy /\ [Next]_vars => [Arbiter!Next]_using
  BY ArbiterStep
<1> QED
  BY <1>1, <1>2, TypeCorrect, LocksCorrect, UsedCorrect, PTL
  DEF Spec, OneJobPerCard, Arbiter!Spec

-----------------------------------------------------------------------------
\* The loops over held_cards take the cards one by one: the next is one of them.
\* (A set without a least element would let n |-> n + 1 map the finite set of
\* its lower bounds into itself without 0.)
LEMMA LowestIn ==
  ASSUME NEW n \in Nat, NEW S \in SUBSET (1 .. n), S # {}
  PROVE  Lowest(S) \in S
<1> DEFINE Below == {m \in 0 .. n : \A d \in S : m < d}
           Succ  == [m \in Below |-> m + 1]
<1>1. IsFiniteSet(Below)
  BY FS_Interval, FS_Subset, 0 \in Int, n \in Int
<1>2. 0 \in Below
  OBVIOUS
<1>3. IsFiniteSet(Below \ {0}) /\ Cardinality(Below \ {0}) < Cardinality(Below)
  <2>1. /\ IsFiniteSet(Below \ {0})
        /\ Cardinality(Below \ {0}) = Cardinality(Below) - 1
    BY <1>1, <1>2, FS_RemoveElement
  <2>2. Cardinality(Below) \in Nat
    BY <1>1, FS_CardinalityType
  <2> HIDE DEF Below
  <2> QED
    BY <2>1, <2>2
<1>4. \E m \in Below : m + 1 \notin Below
  <2> SUFFICES ASSUME \A m \in Below : m + 1 \in Below
               PROVE  FALSE
    OBVIOUS
  <2>1. Succ \in [Below -> Below \ {0}]
    OBVIOUS
  <2>2. PICK x \in Below, y \in Below : x # y /\ Succ[x] = Succ[y]
    <3> HIDE DEF Below, Succ
    <3> QED
      BY <1>1, <1>3, <2>1, FS_PigeonHole
  <2> QED
    BY <2>2
<1>5. PICK m \in Below : m + 1 \notin Below
  BY <1>4
<1>6. m + 1 \in S /\ \A d \in S : m + 1 <= d
  <2>1. m \in 0 .. n /\ \A d \in S : m < d
    BY <1>5
  <2>2. m + 1 \in 0 .. n
    <3>1. PICK d \in S : d \in 1 .. n /\ m < d
      BY <2>1
    <3> HIDE DEF Below
    <3> QED
      BY <2>1, <3>1
  <2>3. PICK d \in S : ~(m + 1 < d)
    BY <1>5, <2>2
  <2>4. d = m + 1
    BY <2>1, <2>3
  <2> QED
    BY <2>1, <2>4
<1> QED
  BY <1>6 DEF Lowest

-----------------------------------------------------------------------------
(* The labels *)

\* Whoever removes a label in a step that moves no job is the holder of a
\* detached lease, after its own cards, or a probe that has the lock.
LEMMA SparingStep ==
  ASSUME TypeOK, LockInv, [Next]_vars, job' = job,
         NEW c \in Cards, NEW k \in Jobs, c \in Held(k), info'[c] # info[c]
  PROVE  pc[k] = "unlabel"
<1> USE LeaseAssumption DEF TypeOK, job
<1>1. ASSUME NEW j \in Jobs, left[j] # {}, left' = [left EXCEPT ![j] = @ \ {Lowest(@)}]
      PROVE  FALSE
  <2>1. Lowest(left[j]) \in left[j]
    <3>1. NCards \in Nat /\ left[j] \in SUBSET (1 .. NCards)
      BY DEF Cards
    <3> QED
      BY <1>1, <3>1, LowestIn
  <2> QED
    BY <1>1, <2>1
<1>2. ASSUME NEW j \in Jobs, RmInfo(j) \/ WriteInfo(j)
      PROVE  FALSE
  BY <1>1, <1>2 DEF RmInfo, WriteInfo
<1>3. ASSUME NEW j \in Jobs, HolderRm(j)
      PROVE  pc[k] = "unlabel"
  <2>1. pc[j] = "unlabel" /\ c \in cards[j]
    BY <1>3 DEF HolderRm
  <2>2. c \in Held(j)
    BY <2>1 DEF LockInv, Inherited, Held
  <2>3. k = j
    BY <2>2 DEF LockInv, Exclusive
  <2> QED
    BY <2>1, <2>3
<1>4. ASSUME NEW q \in Probes, ProbeRm(q)
      PROVE  FALSE
  <2>1. grip[q] /\ c = at[q]
    BY <1>4 DEF ProbeRm
  <2> QED
    BY <2>1 DEF LockInv, Exclusive
<1>5. CASE \E j \in Jobs : \/ ScriptStep(j) \/ CommandStep(j)
                            \/ KillScript(j) \/ Terminated(j) \/ KillCli(j)
  BY <1>2, <1>3, <1>5
  DEF ScriptStep, CommandStep, BeginPass, TryCard, Acquired, FallShort, CloseFd, ClosedAll,
      Released, RunCommand, CommandSeen, HandOver, NoContainer, WaitReturns, HolderExits,
      ContainersUp, WorkEnds, ForegroundEnds, UpReturns, UpFails, KillScript, Terminated, KillCli
<1>6. CASE \E q \in Probes : ProbeStep(q)
  BY <1>4, <1>6 DEF ProbeStep, ProbeStart, ProbeTry, ProbeClose
<1>7. CASE UNCHANGED vars
  BY <1>7 DEF vars
<1> QED
  BY <1>5, <1>6, <1>7 DEF Next

\* gpu-status removes no label of a card that is held, whatever the jobs do and
\* whatever dies meanwhile.
THEOREM ProbeSpares == Spec => ProbeSparesHolder
<1>1. TypeOK /\ LockInv /\ [Next]_vars =>
        [job' = job => \A c \in Cards, j \in Jobs :
           (c \in Held(j) /\ info'[c] # info[c]) => pc[j] = "unlabel"]_vars
  BY SparingStep
<1> QED
  BY <1>1, TypeCorrect, LocksCorrect, PTL DEF Spec, ProbeSparesHolder
=============================================================================
