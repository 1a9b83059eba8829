--------------------------- MODULE WatchdogProofs ---------------------------
(* Theorems about Watchdog and WatchdogHistory, and the refinement of      *)
(* Supervision, for every value of the constants that WatchdogAssumption   *)
(* allows.                                                                 *)
EXTENDS WatchdogHistory, WatchdogRefinement, TLAPS

(* The loops over the programs of process_monitor and process_keepalive    *)
(* never leave prog_list (lines 316 and 399).                              *)
LEMMA NextIndex ==
    ASSUME TypeOK
    PROVE  /\ 1 \in Programs
           /\ i < NumPrograms => i + 1 \in Programs
           /\ k < NumPrograms => k + 1 \in Programs
  BY WatchdogAssumption DEF TypeOK, Programs

(* A saturating counter stays below its limit (lines 441 and 443).         *)
LEMMA SaturateBounded ==
    ASSUME NEW limit \in Nat, NEW n \in 0..limit
    PROVE  Saturate(n, limit) \in 0..limit
  BY DEF Saturate

(* The statistics start at zero, the switches as the file says.            *)
LEMMA InitType == Init => TypeOK
  <1> SUFFICES ASSUME Init PROVE TypeOK
    OBVIOUS
  <1>1. running \in [Programs -> SUBSET Pids]
    <2>1. {{}} \cup {{x} : x \in Pids} \subseteq SUBSET Pids
      OBVIOUS
    <2> QED
      BY <2>1, Zenon DEF Init
  <1>2. 1 \in Programs
    BY WatchdogAssumption DEF Programs
  <1>3. /\ keepalive_failed_times \in [Programs -> 0..(MaxKeepalive + 1)]
        /\ reboot_failed_times \in [Programs -> 0..MaxRebootFailed]
        /\ elapsed \in [Programs -> 0..(Delay + 1)]
        /\ loaded \in 0..MaxKeepalive
        /\ slept \in 0..Delay
    BY WatchdogAssumption DEF Init
  <1>4. /\ dameon_switch \in [Programs -> BOOLEAN]
        /\ safe_restart \in [Programs -> BOOLEAN]
        /\ state \in [Programs -> {"idle", "busy"}]
        /\ pid \in [Threads -> Pids \cup {NoPid}]
    BY DEF Init
  <1> QED
    BY <1>1, <1>2, <1>3, <1>4 DEF Init, TypeOK, MainPC, RecvPC

(* A step of the main thread keeps the types.                              *)
LEMMA MainStepType == TypeOK /\ MainStep => TypeOK'
  <1> SUFFICES ASSUME TypeOK, MainStep PROVE TypeOK'
    OBVIOUS
  <1> USE NextIndex, WatchdogAssumption
      DEF TypeOK, MainPC, RecvPC, config, stats, recvvars, world, MainGoto,
          MonitorNext, KeepaliveNext
  <1>1. CASE MonitorSwitch
    BY <1>1 DEF MonitorSwitch
  <1>2. CASE MonitorSafe
    BY <1>2 DEF MonitorSafe
  <1>3. CASE Reboot
    BY <1>3 DEF Reboot
  <1>4. CASE Status
    BY <1>4 DEF Status
  <1>5. CASE MemPid
    BY <1>5 DEF MemPid, Pidof, Threads
  <1>6. CASE Mem
    BY <1>6 DEF Mem, Threads
  <1>7. CASE MainPidof
    BY <1>7 DEF MainPidof, Pidof, Threads
  <1>8. CASE MainKill
    BY <1>8 DEF MainKill, Kill, Threads
  <1>9. CASE MainStart
    BY <1>9 DEF MainStart, Start
  <1>10. CASE Account
    <2>1. reboot_failed_times' \in [Programs -> 0..MaxRebootFailed]
      <3>1. Saturate(reboot_failed_times[i], MaxRebootFailed)
              \in 0..MaxRebootFailed
        BY SaturateBounded
      <3> QED
        BY <1>10, <3>1 DEF Account
    <2>2. elapsed' \in [Programs -> 0..(Delay + 1)]
      BY <1>10 DEF Account
    <2> QED
      BY <1>10, <2>1, <2>2 DEF Account, ClearRequest
  <1>11. CASE KeepaliveSwitch
    BY <1>11 DEF KeepaliveSwitch
  <1>12. CASE KeepaliveLoad
    BY <1>12 DEF KeepaliveLoad, KeepaliveExpired
  <1>13. CASE KeepaliveStore
    BY <1>13 DEF KeepaliveStore
  <1>14. CASE KeepaliveTimeout
    BY <1>14 DEF KeepaliveTimeout
  <1>15. CASE Wake
    BY <1>15 DEF Wake
  <1> QED
    BY <1>1, <1>2, <1>3, <1>4, <1>5, <1>6, <1>7, <1>8, <1>9, <1>10, <1>11,
       <1>12, <1>13, <1>14, <1>15 DEF MainStep

(* A step of the datagram thread keeps the types.                          *)
LEMMA RecvStepType == TypeOK /\ RecvStep => TypeOK'
  <1> SUFFICES ASSUME TypeOK, RecvStep PROVE TypeOK'
    OBVIOUS
  <1> USE NextIndex, WatchdogAssumption
      DEF TypeOK, MainPC, RecvPC, config, stats, mainvars, world, RecvGoto,
          Done
  <1>1. CASE ExecSwitch
    BY <1>1 DEF ExecSwitch, SetSwitch
  <1>2. CASE ExecSafeBusy
    BY <1>2 DEF ExecSafeBusy
  <1>3. CASE ExecSafeIdle
    BY <1>3 DEF ExecSafeIdle
  <1>4. CASE ExecForce
    BY <1>4 DEF ExecForce, SetSwitch
  <1>5. CASE ExecClose
    BY <1>5 DEF ExecClose, SetSwitch
  <1>6. CASE AskConnected
    BY <1>6 DEF AskConnected, Pidof, Threads
  <1>7. CASE AskRefused
    BY <1>7 DEF AskRefused
  <1>8. CASE ConnectionLost
    BY <1>8 DEF ConnectionLost, HangUp, Threads
  <1>9. CASE RecvPidof
    BY <1>9 DEF RecvPidof, Pidof, Threads
  <1>10. CASE RecvKill
    BY <1>10 DEF RecvKill, Kill, Threads
  <1>11. CASE RecvStart
    <2>1. running' \in [Programs -> SUBSET Pids]
      BY <1>11 DEF RecvStart, Start
    <2>2. elapsed' \in [Programs -> 0..(Delay + 1)]
      BY <1>11 DEF RecvStart
    <2> QED
      BY <1>11, <2>1, <2>2 DEF RecvStart, Start
  <1> QED
    BY <1>1, <1>2, <1>3, <1>4, <1>5, <1>6, <1>7, <1>8, <1>9, <1>10, <1>11
       DEF RecvStep

(* So does anything the environment does.                                  *)
LEMMA OtherStepType ==
    ASSUME TypeOK,
           Message \/ ReceiveError \/ AutoprintReply \/ Exit \/ Tick
             \/ Reload \/ PowerDown
    PROVE  TypeOK'
  <1> USE NextIndex, WatchdogAssumption
      DEF TypeOK, MainPC, RecvPC, config, stats, mainvars, recvvars, world
  <1>1. ASSUME NEW c \in Commands, NEW p \in Programs, RecvCommand(c, p)
        PROVE  TypeOK'
    BY <1>1 DEF RecvCommand
  <1>2. ASSUME NEW c \in Commands, RecvAll(c)
        PROVE  TypeOK'
    BY <1>2 DEF RecvAll
  <1>3. ASSUME NEW p \in Programs, NEW s \in Reports, Keepalive(p, s)
        PROVE  TypeOK'
    BY <1>3 DEF Keepalive
  <1>4. CASE ReceiveError
    BY <1>4 DEF ReceiveError
  <1>5. CASE AutoprintReply
    BY <1>5 DEF AutoprintReply, HangUp, Done, Threads
  <1>6. CASE Exit
    BY <1>6 DEF Exit
  <1>7. CASE Tick
    <2>1. \A p \in Programs :
            Saturate(elapsed[p], Delay + 1) \in 0..(Delay + 1)
      BY SaturateBounded
    <2>2. Saturate(slept, Delay) \in 0..Delay
      BY SaturateBounded
    <2>3. elapsed' \in [Programs -> 0..(Delay + 1)]
      BY <1>7, <2>1 DEF Tick
    <2>4. slept' \in 0..Delay
      BY <1>7, <2>2 DEF Tick
    <2> QED
      BY <1>7, <2>3, <2>4 DEF Tick
  <1>8. CASE Reload
    BY <1>8 DEF Reload
  <1>9. CASE PowerDown
    BY <1>9 DEF PowerDown
  <1> QED
    BY <1>1, <1>2, <1>3, <1>4, <1>5, <1>6, <1>7, <1>8, <1>9 DEF Message

LEMMA NextType == TypeOK /\ [Next]_vars => TypeOK'
  <1> SUFFICES ASSUME TypeOK, [Next]_vars PROVE TypeOK'
    OBVIOUS
  <1>1. CASE Next
    BY <1>1, MainStepType, RecvStepType, OtherStepType DEF Next
  <1>2. CASE UNCHANGED vars
    BY <1>2 DEF vars, config, stats, mainvars, recvvars, world, TypeOK
  <1> QED
    BY <1>1, <1>2

(* Every variable keeps its range: in particular the unlocked increment of *)
(* keepalive_failed_times never exceeds MaxKeepalive + 1 (lines 321-327).  *)
THEOREM TypeCorrect == Spec => []TypeOK
  BY InitType, NextType, PTL DEF Spec

-----------------------------------------------------------------------------
(* SingleInstance.                                                         *)

(* While the restarts of p do not overlap, a step keeps p's instances at   *)
(* one: main thread.                                                       *)
LEMMA MainUndisturbed ==
    ASSUME TypeOK, MainStep, NEW p \in Programs, Undisturbed(p),
           ~OverlapNow(p)'
    PROVE  Undisturbed(p)'
  <1> USE DEF TypeOK, Undisturbed, Single, config, stats, recvvars, world,
              MainGoto, MonitorNext, KeepaliveNext, Threads
  <1>1. CASE MainPidof
    BY <1>1 DEF MainPidof, Pidof
  <1>2. CASE MainKill
    BY <1>2 DEF MainKill, Kill, OverlapNow, Restarting
  <1>3. CASE MainStart
    BY <1>3 DEF MainStart, Start, OverlapNow, Restarting
  <1>4. CASE MemPid
    BY <1>4 DEF MemPid, Pidof
  <1>5. CASE Mem
    BY <1>5 DEF Mem
  <1>6. CASE MonitorSwitch \/ MonitorSafe \/ Reboot \/ Status
    BY <1>6 DEF MonitorSwitch, MonitorSafe, Reboot, Status
  <1>7. CASE Account \/ Wake
    BY <1>7 DEF Account, Wake
  <1>8. CASE KeepaliveSwitch \/ KeepaliveLoad \/ KeepaliveStore
               \/ KeepaliveTimeout
    BY <1>8 DEF KeepaliveSwitch, KeepaliveLoad, KeepaliveStore,
                KeepaliveTimeout
  <1> QED
    BY <1>1, <1>2, <1>3, <1>4, <1>5, <1>6, <1>7, <1>8 DEF MainStep

(* ... datagram thread ...                                                 *)
LEMMA RecvUndisturbed ==
    ASSUME TypeOK, RecvStep, NEW p \in Programs, Undisturbed(p),
           ~OverlapNow(p)'
    PROVE  Undisturbed(p)'
  <1> USE DEF TypeOK, Undisturbed, Single, config, stats, mainvars, world,
              RecvGoto, Done, Threads
  <1>1. CASE RecvPidof
    BY <1>1 DEF RecvPidof, Pidof
  <1>2. CASE RecvKill
    BY <1>2 DEF RecvKill, Kill, OverlapNow, Restarting
  <1>3. CASE RecvStart
    BY <1>3 DEF RecvStart, Start, OverlapNow, Restarting
  <1>4. CASE ExecSwitch \/ ExecSafeBusy \/ ExecSafeIdle
    BY <1>4 DEF ExecSwitch, ExecSafeBusy, ExecSafeIdle
  <1>5. CASE ExecForce \/ ExecClose
    BY <1>5 DEF ExecForce, ExecClose
  <1>6. CASE AskConnected
    BY <1>6 DEF AskConnected, Pidof
  <1>7. CASE AskRefused \/ ConnectionLost
    BY <1>7 DEF AskRefused, ConnectionLost, HangUp
  <1> QED
    BY <1>1, <1>2, <1>3, <1>4, <1>5, <1>6, <1>7 DEF RecvStep

(* ... environment.                                                        *)
LEMMA OtherUndisturbed ==
    ASSUME TypeOK, NEW p \in Programs, Undisturbed(p), ~OverlapNow(p)',
           Message \/ ReceiveError \/ AutoprintReply \/ Exit \/ Tick
             \/ Reload \/ PowerDown
    PROVE  Undisturbed(p)'
  <1> USE DEF TypeOK, Undisturbed, Single, config, stats, mainvars, recvvars,
              world, Threads
  <1>1. CASE Message
    BY <1>1 DEF Message, RecvCommand, RecvAll, Keepalive
  <1>2. CASE ReceiveError
    BY <1>2 DEF ReceiveError
  <1>3. CASE AutoprintReply
    BY <1>3 DEF AutoprintReply, HangUp, Done
  <1>4. CASE Exit
    BY <1>4 DEF Exit
  <1>5. CASE Tick \/ Reload
    BY <1>5 DEF Tick, Reload
  <1>6. CASE PowerDown
    BY <1>6 DEF PowerDown
  <1> QED
    BY <1>1, <1>2, <1>3, <1>4, <1>5, <1>6

LEMMA RestartInvStep ==
    ASSUME TypeOK, RestartInv, [HNext]_hvars
    PROVE  RestartInv'
  <1>1. CASE HNext
    <2> SUFFICES ASSUME NEW p \in Programs, ~overlapped'[p]
                 PROVE  Undisturbed(p)'
      BY DEF RestartInv
    <2>1. ~OverlapNow(p)'
      BY <1>1 DEF HNext, HistoryNext
    <2>2. CASE ~overlapped[p]
      <3>1. Undisturbed(p)
        BY <2>2 DEF RestartInv
      <3> QED
        BY <1>1, <2>1, <3>1, MainUndisturbed, RecvUndisturbed,
           OtherUndisturbed DEF HNext, Next
    <2>3. CASE overlapped[p]
      <3>1. ~Restarting("main", p)' /\ ~Restarting("recv", p)' /\ Single(p)'
        BY <1>1, <2>3 DEF HNext, HistoryNext
      <3> QED
        BY <2>1, <3>1 DEF Undisturbed, Restarting
    <2> QED
      BY <2>2, <2>3
  <1>2. CASE UNCHANGED hvars
    BY <1>2 DEF hvars, history, vars, mainvars, recvvars, world, RestartInv,
                Undisturbed, Single, OverlapNow, Restarting
  <1> QED
    BY <1>1, <1>2

(* The history variables only watch: HSpec has the types of Spec.          *)
LEMMA HistoryType == HSpec => []TypeOK
  <1>1. HInit => Init
    BY DEF HInit
  <1>2. [HNext]_hvars => [Next]_vars
    BY DEF HNext, hvars
  <1> QED
    BY <1>1, <1>2, TypeCorrect, PTL DEF HSpec, Spec

(* At most one instance of every program, unless the two threads' restarts *)
(* of it overlapped (process_restart, lines 208-251).                      *)
THEOREM SingleInstanceHolds == HSpec => []SingleInstance
  <1>1. HInit => RestartInv
    <2> SUFFICES ASSUME HInit, NEW p \in Programs
                 PROVE  Undisturbed(p)
      BY DEF RestartInv
    <2>1. Single(p)
      BY DEF HInit, Init, Single
    <2> QED
      BY <2>1 DEF HInit, Init, Undisturbed, OverlapNow, Restarting
  <1>2. RestartInv => SingleInstance
    BY DEF RestartInv, Undisturbed, SingleInstance
  <1> QED
    BY <1>1, <1>2, HistoryType, RestartInvStep, PTL DEF HSpec

-----------------------------------------------------------------------------
(* LateRestartOnce.                                                        *)

(* Only the main thread moves its own program counter; a halt of the       *)
(* machine stops it.                                                       *)
LEMMA OnlyMainMoves == Next => MainStep \/ PowerDown \/ UNCHANGED <<mpc, i>>
  <1> USE DEF mainvars
  <1>1. RecvStep => UNCHANGED <<mpc, i>>
    BY DEF RecvStep, ExecSwitch, ExecSafeBusy, ExecSafeIdle, ExecForce,
           ExecClose, AskConnected, AskRefused, ConnectionLost, HangUp,
           RecvPidof, RecvKill, RecvStart
  <1>2. Message => UNCHANGED <<mpc, i>>
    BY DEF Message, RecvCommand, RecvAll, Keepalive
  <1> QED
    BY <1>1, <1>2 DEF Next, ReceiveError, AutoprintReply, HangUp, Exit, Tick,
                      Reload

LEMMA LateInvStep ==
    ASSUME TypeOK, LateInv, [HNext]_hvars
    PROVE  LateInv'
  <1>1. CASE HNext
    <2> SUFFICES ASSUME NEW p \in Programs
                 PROVE  /\ late'[p] \in 0..1
                        /\ Committed(p)' => late'[p] = 0
                        /\ dameon_switch'[p] => late'[p] = 0
      BY DEF LateInv
    <2>1. late'[p] = IF dameon_switch'[p] THEN 0
                     ELSE IF i = p /\ mpc = "start"
                               /\ mpc' \notin {"start", "down"}
                            THEN Saturate(late[p], 2) ELSE late[p]
      BY <1>1, Zenon DEF HNext, HistoryNext
    <2>2. late[p] \in 0..1 /\ (Committed(p) => late[p] = 0)
             /\ (dameon_switch[p] => late[p] = 0)
      BY DEF LateInv
    <2>3. Committed(p)' => (Committed(p) \/ dameon_switch[p])
                           /\ ~(mpc = "start" /\ mpc' # "start")
      <3>1. CASE MainStep
        BY <3>1 DEF MainStep, MonitorSwitch, MonitorSafe, Reboot, Status,
             MemPid, Mem, MainPidof, MainKill, MainStart, Account,
             KeepaliveSwitch, KeepaliveLoad, KeepaliveStore, KeepaliveTimeout,
             Wake, MainGoto, MonitorNext, KeepaliveNext, SwitchedOn, Committed
      <3>2. CASE UNCHANGED <<mpc, i>>
        BY <3>2 DEF Committed
      <3>3. CASE PowerDown
        BY <3>3 DEF PowerDown, Committed
      <3> QED
        BY <1>1, <3>1, <3>2, <3>3, OnlyMainMoves DEF HNext
    <2> QED
      BY <2>1, <2>2, <2>3 DEF Saturate, Committed
  <1>2. CASE UNCHANGED hvars
    BY <1>2 DEF hvars, history, vars, config, mainvars, LateInv, Committed
  <1> QED
    BY <1>1, <1>2

(* Once a program's switch is off the main thread starts it at most once   *)
(* more, whatever it was doing (lines 316-318 and 399-401).                *)
THEOREM LateRestartOnceHolds == HSpec => []LateRestartOnce
  <1>1. HInit => LateInv
    BY DEF HInit, HistoryInit, LateInv
  <1>2. LateInv => LateRestartOnce
    BY DEF LateInv, LateRestartOnce
  <1> QED
    BY <1>1, <1>2, HistoryType, LateInvStep, PTL DEF HSpec

-----------------------------------------------------------------------------
(* TimeoutJustified.                                                       *)

(* A step increments a counter, resets it or leaves it (lines 323, 327 and *)
(* 692).                                                                   *)
LEMMA CounterSteps ==
    ASSUME TypeOK, Next, NEW p \in Programs
    PROVE  \/ i = p /\ KeepaliveStore
           \/ keepalive_failed_times'[p] \in {0, keepalive_failed_times[p]}
  <1> USE DEF TypeOK, stats
  <1>1. CASE MainStep
    BY <1>1 DEF MainStep, MonitorSwitch, MonitorSafe, Reboot, Status, MemPid,
         Mem, MainPidof, MainKill, MainStart, Account, KeepaliveSwitch,
         KeepaliveLoad, KeepaliveStore, KeepaliveTimeout, Wake
  <1>2. CASE RecvStep
    BY <1>2 DEF RecvStep, ExecSwitch, ExecSafeBusy, ExecSafeIdle, ExecForce,
         ExecClose, AskConnected, AskRefused, ConnectionLost, HangUp,
         RecvPidof, RecvKill, RecvStart
  <1>3. CASE Message
    BY <1>3 DEF Message, RecvCommand, RecvAll, Keepalive
  <1> QED
    BY <1>1, <1>2, <1>3 DEF Next, ReceiveError, AutoprintReply, HangUp, Exit,
         Tick, Reload, PowerDown

(* The store is reached by the load, and nothing but the store leaves it.  *)
LEMMA StoreSteps ==
    ASSUME TypeOK, Next
    PROVE  /\ mpc' = "keepalive_store"
                => KeepaliveLoad \/ UNCHANGED <<mpc, i, loaded>>
           /\ mpc = "keepalive_store" /\ mpc' \notin {mpc, "down"}
                => KeepaliveStore
           /\ mpc = "keepalive_store" /\ mpc' = "down"
                => UNCHANGED keepalive_failed_times
  <1> USE DEF TypeOK, stats, mainvars
  <1>1. CASE MainStep
    BY <1>1 DEF MainStep, MonitorSwitch, MonitorSafe, Reboot, Status, MemPid,
         Mem, MainPidof, MainKill, MainStart, Account, KeepaliveSwitch,
         KeepaliveLoad, KeepaliveStore, KeepaliveTimeout, Wake, MainGoto,
         MonitorNext, KeepaliveNext
  <1>2. CASE RecvStep
    BY <1>2 DEF RecvStep, ExecSwitch, ExecSafeBusy, ExecSafeIdle, ExecForce,
         ExecClose, AskConnected, AskRefused, ConnectionLost, HangUp,
         RecvPidof, RecvKill, RecvStart
  <1>3. CASE Message
    BY <1>3 DEF Message, RecvCommand, RecvAll, Keepalive
  <1> QED
    BY <1>1, <1>2, <1>3 DEF Next, ReceiveError, AutoprintReply, HangUp, Exit,
         Tick, Reload, PowerDown

LEMMA MissedInvStep ==
    ASSUME TypeOK, MissedInv, [HNext]_hvars
    PROVE  MissedInv'
  <1>1. CASE HNext
    <2> USE WatchdogAssumption DEF TypeOK
    <2> DEFINE Stored(p) == /\ i = p /\ mpc = "keepalive_store"
                            /\ mpc' # mpc /\ mpc' # "down"
    <2>1. \A p \in Programs :
            missed'[p] =
              IF Stored(p) THEN Saturate(missed[p], MaxKeepalive + 1)
              ELSE IF keepalive_failed_times'[p] = 0
                        /\ ~(i = p /\ mpc = "keepalive_store")
                     THEN 0 ELSE missed[p]
      BY <1>1, Zenon DEF HNext, HistoryNext
    <2>2. ASSUME NEW p \in Programs
          PROVE  /\ missed'[p] \in 0..(MaxKeepalive + 1)
                 /\ keepalive_failed_times'[p] <= missed'[p]
      <3>1. /\ missed[p] \in 0..(MaxKeepalive + 1)
            /\ keepalive_failed_times[p] <= missed[p]
            /\ keepalive_failed_times[p] \in Nat
        BY DEF MissedInv
      <3>2. CASE Stored(p)
        <4>1. KeepaliveStore
          BY <1>1, <3>2, StoreSteps DEF HNext
        <4>2. keepalive_failed_times'[p] = loaded + 1 /\ loaded <= missed[p]
          BY <3>2, <4>1 DEF KeepaliveStore, MissedInv
        <4> QED
          BY <2>1, <3>1, <3>2, <4>2 DEF Saturate
      <3>3. CASE ~Stored(p)
        <4>1. keepalive_failed_times'[p] \in {0, keepalive_failed_times[p]}
          <5>1. CASE i = p /\ KeepaliveStore
            BY <3>3, <5>1 DEF KeepaliveStore, KeepaliveNext
          <5> QED
            BY <1>1, <5>1, CounterSteps DEF HNext
        <4> QED
          BY <2>1, <3>1, <3>3, <4>1
      <3> QED
        BY <3>2, <3>3
    <2>3. ASSUME mpc' = "keepalive_store"
          PROVE  loaded' <= missed'[i']
      <3>1. CASE KeepaliveLoad
        <4>1. /\ loaded' = keepalive_failed_times[i] /\ i' = i
              /\ keepalive_failed_times'[i] = keepalive_failed_times[i]
              /\ ~Stored(i)
          BY <2>3, <3>1 DEF KeepaliveLoad, MainGoto, stats
        <4> QED
          BY <2>2, <4>1
      <3>2. CASE UNCHANGED <<mpc, i, loaded>>
        <4>1. mpc = "keepalive_store" /\ loaded <= missed[i]
          BY <2>3, <3>2 DEF MissedInv
        <4>2. missed'[i] = missed[i]
          BY <2>1, <3>2, <4>1
        <4> QED
          BY <3>2, <4>1, <4>2
      <3> QED
        BY <1>1, <2>3, <3>1, <3>2, StoreSteps DEF HNext
    <2> QED
      BY <2>2, <2>3 DEF MissedInv
  <1>2. CASE UNCHANGED hvars
    BY <1>2 DEF hvars, history, vars, stats, mainvars, MissedInv
  <1> QED
    BY <1>1, <1>2

(* No program is restarted for keepalive timeout before more than          *)
(* MaxKeepalive checks went by without a keepalive that counted (line 321).*)
THEOREM TimeoutJustifiedHolds == HSpec => TimeoutJustified
  <1>1. HInit => MissedInv
    BY WatchdogAssumption DEF HInit, HistoryInit, Init, MissedInv
  <1>2. TypeOK /\ MissedInv /\ [HNext]_hvars
          => [(mpc # "keepalive_timeout" /\ mpc' = "keepalive_timeout")
                => missed[i] > MaxKeepalive]_hvars
    <2> SUFFICES ASSUME TypeOK, MissedInv, HNext,
                        mpc # "keepalive_timeout",
                        mpc' = "keepalive_timeout"
                 PROVE  missed[i] > MaxKeepalive
      OBVIOUS
    <2>1. KeepaliveLoad
      <3>1. MainStep
        BY OnlyMainMoves DEF HNext, PowerDown
      <3> QED
        BY <3>1 DEF MainStep, MonitorSwitch, MonitorSafe, Reboot, Status,
             MemPid, Mem, MainPidof, MainKill, MainStart, Account,
             KeepaliveSwitch, KeepaliveStore, KeepaliveTimeout, Wake,
             MainGoto, MonitorNext, KeepaliveNext
    <2>2. keepalive_failed_times[i] > MaxKeepalive
      BY <2>1, WatchdogAssumption DEF KeepaliveLoad, KeepaliveExpired,
           MainGoto, TypeOK
    <2> QED
      BY <2>2, WatchdogAssumption DEF MissedInv, TypeOK
  <1> QED
    BY <1>1, <1>2, HistoryType, MissedInvStep, PTL DEF HSpec, TimeoutJustified

-----------------------------------------------------------------------------
(* Watchdog implements Supervision.                                        *)

(* The branch of the main thread's restart, as Supervision has it.         *)
Kind == IF why = "safe" THEN "safe" ELSE "restart"

JobOf(s, p, x, n) == [stage |-> s, prog |-> p, pid |-> x, kind |-> n]

(* What the mapping makes of each place of the two threads.                *)
MainTable ==
    /\ mpc \in {"monitor_safe", "reboot", "status", "keepalive_load",
                "keepalive_timeout"}
         => MainJob = JobOf("looked", i, NoPid, Kind)
    /\ mpc = "pidof"   => MainJob = JobOf("find", i, NoPid, Kind)
    /\ mpc = "kill"    => MainJob = JobOf("kill", i, pid["main"], Kind)
    /\ mpc = "start"   => MainJob = JobOf("start", i, NoPid, Kind)
    /\ mpc = "account" => MainJob = JobOf("settle", i, NoPid, Kind)
    /\ mpc \in {"monitor_switch", "mem_pid", "mem", "keepalive_switch",
                "keepalive_store", "sleep", "crashed", "down"}
         => MainJob = Sup!NoJob

Order == IF cmd = "CLOSE" THEN "close" ELSE "restart"

RecvTable ==
    /\ rpc = "pidof" => RecvJob = JobOf("find", k, NoPid, Order)
    /\ rpc = "kill"  => RecvJob = JobOf("kill", k, pid["recv"], Order)
    /\ rpc = "start" => RecvJob = JobOf("start", k, NoPid, Order)
    /\ rpc \in {"recv", "exec", "ask", "reply", "exited"}
         => RecvJob = Sup!NoJob

LEMMA JobTables == MainTable /\ MainTable' /\ RecvTable /\ RecvTable'
  <1>1. MainTable /\ MainTable'
    BY DEF MainTable, MainJob, MainStage, Job, JobOf, Kind, Sup!NoJob
  <1>2. RecvTable /\ RecvTable'
    BY DEF RecvTable, RecvJob, RecvStage, Job, JobOf, Order, Sup!NoJob
  <1> QED
    BY <1>1, <1>2

-----------------------------------------------------------------------------
(* The branch that restarts is set only inside the restart.                *)
WhyInv ==
    mpc \notin {"pidof", "kill", "start", "account", "down"} => why = "none"

LEMMA WhyInvStep == TypeOK /\ WhyInv /\ [Next]_vars => WhyInv'
  <1> SUFFICES ASSUME TypeOK, WhyInv, [Next]_vars PROVE WhyInv'
    OBVIOUS
  <1> USE DEF WhyInv, TypeOK, MainPC
  <1>1. CASE MainStep
    BY <1>1 DEF MainStep, MonitorSwitch, MonitorSafe, Reboot, Status, MemPid,
         Mem, MainPidof, MainKill, MainStart, Account, KeepaliveSwitch,
         KeepaliveLoad, KeepaliveStore, KeepaliveTimeout, Wake, MainGoto,
         MonitorNext, KeepaliveNext
  <1>2. CASE RecvStep \/ Message \/ AutoprintReply
    BY <1>2 DEF RecvStep, ExecSwitch, ExecSafeBusy, ExecSafeIdle, ExecForce,
         ExecClose, AskConnected, AskRefused, ConnectionLost, HangUp,
         RecvPidof, RecvKill, RecvStart, Message, RecvCommand, RecvAll,
         Keepalive, AutoprintReply, mainvars
  <1>3. CASE ReceiveError \/ Exit \/ Tick \/ Reload \/ PowerDown
    BY <1>3 DEF ReceiveError, Exit, Tick, Reload, PowerDown, mainvars
  <1>4. CASE UNCHANGED vars
    BY <1>4 DEF vars, mainvars
  <1> QED
    BY <1>1, <1>2, <1>3, <1>4 DEF Next

-----------------------------------------------------------------------------
(* The steps of the main thread.                                           *)

(* What the datagram thread is doing is left alone by them.                *)
LEMMA RecvJobKept ==
    ASSUME TypeOK, UNCHANGED recvvars, pid'["recv"] = pid["recv"]
    PROVE  RecvJob' = RecvJob
  BY JobTables DEF RecvTable, recvvars, Order, TypeOK, RecvPC

LEMMA Stutter ==
    ASSUME UNCHANGED <<config, running>>, Alive' = Alive,
           MainJob' = MainJob, RecvJob' = RecvJob
    PROVE  UNCHANGED Sup!svars
  BY DEF Sup!svars, config

(* It turns to a program whose switch is on (lines 318 and 401).           *)
LEMMA LookStep ==
    ASSUME TypeOK, WhyInv,
           MonitorSwitch \/ KeepaliveSwitch
    PROVE  [Sup!SNext]_Sup!svars
  <1>1. /\ UNCHANGED <<config, running>> /\ RecvJob' = RecvJob
        /\ Alive /\ Alive' /\ MainJob = Sup!NoJob /\ i \in Programs
    BY JobTables, RecvJobKept
       DEF MonitorSwitch, KeepaliveSwitch, MonitorNext, KeepaliveNext,
           MainGoto, world, Alive, MainTable, TypeOK
  <1>2. CASE dameon_switch[i]
    <2>1. MainJob' = JobOf("looked", i, NoPid, "restart")
      BY <1>2, JobTables DEF MonitorSwitch, KeepaliveSwitch, SwitchedOn,
         MainGoto, MainTable, WhyInv, Kind
    <2>2. /\ UNCHANGED <<dameon_switch, safe_restart, running>>
          /\ Alive' = Alive
      BY <1>1 DEF config, Alive
    <2>3. Sup!Doing("main", "idle")
      BY <1>1 DEF Sup!Doing, Sup!NoJob, Threads
    <2>4. Sup!Become("main", Sup!Work("looked", i, "restart"))
      BY <1>1, <2>1 DEF Sup!Become, Sup!Work, JobOf, Threads
    <2>5. Sup!Look(i)
      BY <1>2, <2>2, <2>3, <2>4, Zenon DEF Sup!Look
    <2> QED
      BY <1>1, <2>5 DEF Sup!SNext
  <1>3. CASE ~dameon_switch[i]
    <2>1. MainJob' = Sup!NoJob
      BY <1>3, JobTables DEF MonitorSwitch, KeepaliveSwitch, SwitchedOn,
         MonitorNext, KeepaliveNext, MainTable
    <2> QED
      BY <1>1, <2>1, Stutter
  <1> QED
    BY <1>2, <1>3

(* It turns away again.                                                    *)
LEMMA LeaveStep ==
    ASSUME Alive, Alive', MainJob.stage = "looked", MainJob' = Sup!NoJob,
           RecvJob' = RecvJob, UNCHANGED <<config, running>>
    PROVE  Sup!SNext
  <1>1. UNCHANGED <<dameon_switch, safe_restart>> /\ Alive' = Alive
    BY DEF config, Alive
  <1>2. Sup!Leave
    BY <1>1 DEF Sup!Leave, Sup!Doing, Sup!Become, Threads
  <1> QED
    BY <1>2 DEF Sup!SNext

(* It begins a restart (lines 322, 405, 420 and 438).                      *)
LEMMA BeginStep ==
    ASSUME Alive, Alive', NEW n \in {"restart", "safe"},
           n = "safe" => safe_restart[i],
           MainJob = JobOf("looked", i, NoPid, "restart"),
           MainJob' = JobOf("find", i, NoPid, n),
           RecvJob' = RecvJob, UNCHANGED <<config, running>>
    PROVE  Sup!SNext
  <1>1. /\ UNCHANGED <<dameon_switch, safe_restart, running>>
        /\ Alive' = Alive
    BY DEF config, Alive
  <1>2. MainJob.stage = "looked" /\ MainJob.prog = i
    BY DEF JobOf
  <1>3. MainJob' = [stage |-> "find", prog |-> MainJob.prog,
                    pid |-> NoPid, kind |-> n]
    BY <1>2 DEF JobOf
  <1>4. n = "safe" => safe_restart[MainJob.prog]
    BY <1>2
  <1>7. Sup!Begin(n)
    BY <1>1, <1>2, <1>3, <1>4
       DEF Sup!Begin, Sup!Doing, Sup!Become, Sup!Work, Threads
  <1> QED
    BY <1>7 DEF Sup!SNext

(* process_monitor looks at the pending request, the failed restarts and   *)
(* the program itself (lines 320-325 and 416-438).                         *)
LEMMA MonitorStep ==
    ASSUME TypeOK, WhyInv, MonitorSafe \/ Reboot \/ Status
    PROVE  [Sup!SNext]_Sup!svars
  <1>1. /\ UNCHANGED <<config, running>> /\ RecvJob' = RecvJob
        /\ Alive /\ Alive' /\ MainJob = JobOf("looked", i, NoPid, "restart")
    BY JobTables, RecvJobKept
       DEF MonitorSafe, Reboot, Status, MainGoto, world, Alive, MainTable,
           WhyInv, Kind
  <1>2. CASE MonitorSafe /\ safe_restart[i]
    <2>1. MainJob' = JobOf("find", i, NoPid, "safe")
      BY <1>2, JobTables DEF MonitorSafe, MainGoto, MainTable, Kind
    <2> QED
      BY <1>1, <1>2, <2>1, BeginStep
  <1>3. CASE Reboot \/ (MonitorSafe /\ ~safe_restart[i])
    <2>1. MainJob' = MainJob
      BY <1>1, <1>3, JobTables
         DEF MonitorSafe, Reboot, MainGoto, MainTable, WhyInv, Kind
    <2> QED
      BY <1>1, <2>1, Stutter DEF Alive
  <1>4. CASE Status /\ running[i] = {}
    <2>1. MainJob' = JobOf("find", i, NoPid, "restart")
      BY <1>4, JobTables DEF Status, MainGoto, MainTable, Kind
    <2> QED
      BY <1>1, <2>1, BeginStep
  <1>5. CASE Status /\ running[i] # {}
    <2>1. MainJob' = Sup!NoJob
      BY <1>5, JobTables DEF Status, MainGoto, MainTable
    <2>2. MainJob.stage = "looked"
      BY <1>1 DEF JobOf
    <2> QED
      BY <1>1, <2>1, <2>2, LeaveStep
  <1> QED
    BY <1>2, <1>3, <1>4, <1>5

(* process_keepalive compares the counter, and resets it before a restart  *)
(* (lines 401-406).                                                        *)
LEMMA KeepaliveStep ==
    ASSUME TypeOK, WhyInv, KeepaliveLoad \/ KeepaliveTimeout
    PROVE  [Sup!SNext]_Sup!svars
  <1>1. /\ UNCHANGED <<config, running>> /\ RecvJob' = RecvJob
        /\ Alive /\ Alive' /\ MainJob = JobOf("looked", i, NoPid, "restart")
    BY JobTables, RecvJobKept
       DEF KeepaliveLoad, KeepaliveTimeout, MainGoto, world, Alive,
           MainTable, WhyInv, Kind
  <1>2. CASE KeepaliveLoad /\ mpc' = "keepalive_timeout"
    <2>1. MainJob' = MainJob
      BY <1>1, <1>2, JobTables
         DEF KeepaliveLoad, MainGoto, MainTable, WhyInv, Kind
    <2> QED
      BY <1>1, <2>1, Stutter DEF Alive
  <1>3. CASE KeepaliveLoad /\ mpc' = "keepalive_store"
    <2>1. MainJob' = Sup!NoJob
      BY <1>3, JobTables DEF MainTable
    <2>2. MainJob.stage = "looked"
      BY <1>1 DEF JobOf
    <2> QED
      BY <1>1, <2>1, <2>2, LeaveStep
  <1>4. CASE KeepaliveTimeout
    <2>1. MainJob' = JobOf("find", i, NoPid, "restart")
      BY <1>4, JobTables DEF KeepaliveTimeout, MainGoto, MainTable, Kind
    <2> QED
      BY <1>1, <2>1, BeginStep
  <1>5. KeepaliveLoad => mpc' \in {"keepalive_timeout", "keepalive_store"}
    BY DEF KeepaliveLoad, MainGoto
  <1> QED
    BY <1>2, <1>3, <1>4, <1>5

(* What it does on no program's behalf, and how it can end (line 297).     *)
LEMMA QuietStep ==
    ASSUME TypeOK, WhyInv, MemPid \/ Mem \/ KeepaliveStore \/ Wake
    PROVE  [Sup!SNext]_Sup!svars
  <1>1. /\ UNCHANGED <<config, running>> /\ Alive
        /\ MainJob = Sup!NoJob /\ MainJob' = Sup!NoJob
    BY JobTables
       DEF MemPid, Mem, KeepaliveStore, Wake, Pidof, MonitorNext,
           KeepaliveNext, MainGoto, world, Alive, MainTable
  <1>2. RecvJob' = RecvJob
    <2>1. pid'["recv"] = pid["recv"]
      BY DEF MemPid, Mem, KeepaliveStore, Wake, Pidof, world, TypeOK, Threads
    <2> QED
      BY <2>1, RecvJobKept DEF MemPid, Mem, KeepaliveStore, Wake
  <1>3. CASE Alive'
    BY <1>1, <1>2, <1>3, Stutter
  <1>4. CASE ~Alive'
    <2>1. /\ UNCHANGED <<dameon_switch, safe_restart, running>>
          /\ Alive' = FALSE
      BY <1>1, <1>4 DEF config, Alive
    <2>2. Sup!Down
      BY <1>1, <1>2, <2>1 DEF Sup!Down, Sup!Become, Threads
    <2> QED
      BY <2>2 DEF Sup!SNext
  <1> QED
    BY <1>3, <1>4

(* process_restart by the main thread: pidof (line 209) ...                *)
LEMMA MainFindStep == TypeOK /\ MainPidof => Sup!Find("main")
  <1> SUFFICES ASSUME TypeOK, MainPidof PROVE Sup!Find("main")
    OBVIOUS
  <1>1. /\ UNCHANGED <<dameon_switch, safe_restart, running>>
        /\ Alive /\ Alive' = Alive
    BY DEF MainPidof, Pidof, MainGoto, config, Alive
  <1>2. PICK x \in IF running[i] = {} THEN {NoPid} ELSE running[i] :
          pid' = [pid EXCEPT !["main"] = x]
    BY DEF MainPidof, Pidof
  <1>3. pid'["main"] = x /\ pid'["recv"] = pid["recv"]
    BY <1>2 DEF TypeOK, Threads
  <1>4. RecvJob' = RecvJob
    BY <1>3, RecvJobKept DEF MainPidof
  <1>5. MainJob = JobOf("find", i, NoPid, Kind)
    BY JobTables DEF MainPidof, MainTable
  <1>6. MainJob' = JobOf("kill", i, x, Kind)
    BY <1>3, JobTables DEF MainPidof, MainGoto, MainTable, Kind
  <1> QED
    BY <1>1, <1>4, <1>5, <1>6
       DEF Sup!Find, Sup!Doing, Sup!Become, Sup!Advance, Threads,
           JobOf

(* ... kill (line 215) ...                                                 *)
LEMMA MainKillStep == TypeOK /\ MainKill => Sup!Kill("main")
  <1> SUFFICES ASSUME TypeOK, MainKill PROVE Sup!Kill("main")
    OBVIOUS
  <1>1. /\ UNCHANGED <<dameon_switch, safe_restart>>
        /\ Alive /\ Alive' = Alive
        /\ running' = [running EXCEPT ![i] = @ \ {pid["main"]}]
    BY DEF MainKill, Kill, MainGoto, config, Alive
  <1>2. pid'["recv"] = pid["recv"]
    BY DEF MainKill, Kill, TypeOK, Threads
  <1>3. RecvJob' = RecvJob
    BY <1>2, RecvJobKept DEF MainKill
  <1>4. MainJob = JobOf("kill", i, pid["main"], Kind)
    BY JobTables DEF MainKill, MainTable
  <1>5. MainJob' = JobOf("start", i, NoPid, Kind)
    BY JobTables DEF MainKill, MainGoto, MainTable, Kind
  <1>7. MainJob.kind # "close"
    BY <1>4 DEF Kind, JobOf
  <1> QED
    BY <1>1, <1>3, <1>4, <1>5, <1>7
       DEF Sup!Kill, Sup!Doing, Sup!Become, Sup!Advance, Threads,
           JobOf

(* The pids an abstract thread holds are among those the code's holds.     *)
LEMMA HeldPids ==
    ASSUME TypeOK, NEW x \in Pids, x \notin {pid[t] : t \in Threads}
    PROVE  x # MainJob.pid /\ x # RecvJob.pid
  BY WatchdogAssumption DEF MainJob, RecvJob, Job, TypeOK, Threads

(* ... and the command line (line 221).                                    *)
LEMMA MainStartStep == TypeOK /\ MainStart => Sup!Start("main")
  <1> SUFFICES ASSUME TypeOK, MainStart PROVE Sup!Start("main")
    OBVIOUS
  <1>1. /\ UNCHANGED <<dameon_switch, safe_restart>>
        /\ Alive /\ Alive' = Alive
    BY DEF MainStart, MainGoto, KeepaliveNext, config, Alive
  <1>2. RecvJob' = RecvJob
    BY RecvJobKept DEF MainStart, Start
  <1>3. MainJob = JobOf("start", i, NoPid, Kind)
    BY JobTables DEF MainStart, MainTable
  <1> DEFINE job == [t \in Threads |-> IF t = "main" THEN MainJob ELSE RecvJob]
             p   == job["main"].prog
  <1>4. p = i /\ job["main"].kind = Kind
    BY <1>3 DEF JobOf, Threads
  <1>5. \/ \E x \in Pids \ (running[p]
                               \cup {job[u].pid : u \in Sup!Threads}) :
             running' = [running EXCEPT ![p] = @ \cup {x}]
        \/ UNCHANGED running
    <2>1. {job[u].pid : u \in Sup!Threads} = {MainJob.pid, RecvJob.pid}
      BY DEF Threads, Sup!Threads
    <2> HIDE DEF job, p
    <2> QED
      BY <1>4, <2>1, HeldPids DEF MainStart, Start
  <1>6. \/ Sup!Become("main", Sup!Advance(job["main"], "settle", NoPid))
        \/ job["main"].kind # "safe" /\ Sup!Become("main", Sup!NoJob)
    <2>1. CASE why = "timeout"
      <3>1. MainJob' = Sup!NoJob
        BY <2>1, JobTables DEF MainStart, KeepaliveNext, MainTable
      <3> QED
        BY <1>2, <1>4, <2>1, <3>1 DEF Kind, Sup!Become, Threads
    <2>2. CASE why # "timeout"
      <3>1. MainJob' = JobOf("settle", i, NoPid, Kind)
        BY <2>2, JobTables DEF MainStart, MainGoto, MainTable, Kind
      <3> QED
        BY <1>2, <1>4, <3>1
           DEF JobOf, Sup!Become, Sup!Advance, Threads
    <2> QED
      BY <2>1, <2>2
  <1>7. Sup!Doing("main", "start")
    BY <1>1, <1>3 DEF JobOf, Sup!Doing, Threads
  <1> HIDE DEF p
  <1> QED
    BY <1>1, <1>5, <1>6, <1>7 DEF Sup!Start, p

(* The bookkeeping after it (lines 407-411 and 424-446).                   *)
LEMMA AccountStep == TypeOK /\ Account => Sup!Settle
  <1> SUFFICES ASSUME TypeOK, Account PROVE Sup!Settle
    OBVIOUS
  <1>1. /\ UNCHANGED <<dameon_switch, running>> /\ Alive /\ Alive' = Alive
    BY DEF Account, MonitorNext, Alive, world
  <1>2. RecvJob' = RecvJob
    BY RecvJobKept DEF Account, world
  <1>3. MainJob = JobOf("settle", i, NoPid, Kind)
    BY JobTables DEF Account, MainTable
  <1>4. MainJob' = Sup!NoJob
    BY JobTables DEF Account, MonitorNext, MainTable
  <1>5. safe_restart' = IF Kind = "safe"
                          THEN [safe_restart EXCEPT ![i] = FALSE]
                          ELSE safe_restart
    BY DEF Account, ClearRequest, Kind
  <1> QED
    BY <1>1, <1>2, <1>3, <1>4, <1>5
       DEF Sup!Settle, Sup!Doing, Sup!Become, Threads, JobOf

LEMMA MainRefines ==
    TypeOK /\ WhyInv /\ MainStep => [Sup!SNext]_Sup!svars
  <1> SUFFICES ASSUME TypeOK, WhyInv, MainStep PROVE [Sup!SNext]_Sup!svars
    OBVIOUS
  <1>1. CASE MainPidof \/ MainKill \/ MainStart
    <2>1. Sup!ThreadStep("main")
      BY <1>1, MainFindStep, MainKillStep, MainStartStep DEF Sup!ThreadStep
    <2> QED
      BY <2>1 DEF Sup!SNext, Threads, Sup!Threads
  <1>2. CASE Account
    BY <1>2, AccountStep DEF Sup!SNext
  <1> QED
    BY <1>1, <1>2, LookStep, MonitorStep, KeepaliveStep, QuietStep
       DEF MainStep

-----------------------------------------------------------------------------
(* The steps of the datagram thread.                                       *)

(* What the main thread is doing is left alone by them.                    *)
LEMMA MainJobKept ==
    ASSUME TypeOK, UNCHANGED <<mpc, i, why>>, pid'["main"] = pid["main"]
    PROVE  MainJob' = MainJob
  BY JobTables DEF MainTable, Kind, TypeOK, MainPC

(* A command sets a switch, or postpones a restart (lines 586-600).        *)
LEMMA SettingStep ==
    TypeOK /\ (ExecSwitch \/ ExecSafeBusy) => Sup!SNext
  <1> SUFFICES ASSUME TypeOK, ExecSwitch \/ ExecSafeBusy PROVE Sup!SNext
    OBVIOUS
  <1>1. /\ UNCHANGED running /\ Alive /\ Alive' = Alive /\ k \in Programs
        /\ MainJob' = MainJob
    BY MainJobKept DEF ExecSwitch, ExecSafeBusy, mainvars, world, Alive, TypeOK
  <1>2. RecvJob = Sup!NoJob /\ RecvJob' = Sup!NoJob
    BY JobTables DEF ExecSwitch, ExecSafeBusy, Done, RecvTable
  <1>3. CASE ExecSwitch
    <2>1. dameon_switch' \in [Programs -> BOOLEAN] /\ UNCHANGED safe_restart
      BY <1>3 DEF ExecSwitch, SetSwitch, TypeOK
    <2>2. Sup!Switch
      BY <1>1, <1>2, <2>1 DEF Sup!Switch
    <2> QED
      BY <2>2 DEF Sup!SNext
  <1>4. CASE ExecSafeBusy
    <2>1. /\ safe_restart' = [safe_restart EXCEPT ![k] = TRUE]
          /\ UNCHANGED dameon_switch
      BY <1>4 DEF ExecSafeBusy
    <2>2. Sup!Request(k)
      BY <1>1, <1>2, <2>1
         DEF Sup!Request, Sup!Doing, Sup!NoJob, Threads
    <2> QED
      BY <1>1, <2>2 DEF Sup!SNext
  <1> QED
    BY <1>3, <1>4

(* A command has a program restarted or closed (lines 601-621).            *)
LEMMA OrderStep ==
    TypeOK /\ (ExecSafeIdle \/ ExecForce \/ ExecClose)
        => [Sup!SNext]_Sup!svars
  <1> SUFFICES ASSUME TypeOK, ExecSafeIdle \/ ExecForce \/ ExecClose
               PROVE  [Sup!SNext]_Sup!svars
    OBVIOUS
  <1>1. /\ UNCHANGED <<safe_restart, running>> /\ Alive /\ Alive' = Alive
        /\ k \in Programs /\ MainJob' = MainJob
    BY MainJobKept
       DEF ExecSafeIdle, ExecForce, ExecClose, mainvars, world, config,
           Alive, TypeOK
  <1>2. RecvJob = Sup!NoJob
    BY JobTables DEF ExecSafeIdle, ExecForce, ExecClose, RecvTable
  <1>3. CASE rpc' = "ask"
    <2>1. ExecSafeIdle
      BY <1>3 DEF ExecSafeIdle, ExecForce, ExecClose, RecvGoto
    <2>2. RecvJob' = RecvJob /\ UNCHANGED dameon_switch
      BY <1>2, <1>3, <2>1, JobTables DEF ExecSafeIdle, RecvTable, config
    <2> QED
      BY <1>1, <2>2, Stutter DEF config
  <1>4. CASE rpc' = "pidof"
    <2>1. RecvJob' = JobOf("find", k, NoPid, Order)
      BY <1>4, JobTables
         DEF ExecSafeIdle, ExecForce, ExecClose, RecvGoto, RecvTable, Order
    <2>2. dameon_switch' \in
            IF Order = "close" THEN {[dameon_switch EXCEPT ![k] = FALSE]}
            ELSE {dameon_switch, [dameon_switch EXCEPT ![k] = TRUE]}
      BY DEF ExecSafeIdle, ExecForce, ExecClose, SetSwitch, Order, config
    <2>3. Sup!Order(k, Order)
      BY <1>1, <1>2, <2>1, <2>2
         DEF Sup!Order, Sup!Doing, Sup!Become, Sup!Work, Sup!NoJob, Threads,
             JobOf
    <2>4. Order \in {"restart", "close"}
      BY DEF Order
    <2> QED
      BY <1>1, <2>3, <2>4 DEF Sup!SNext
  <1>5. rpc' \in {"ask", "pidof"}
    BY DEF ExecSafeIdle, ExecForce, ExecClose, RecvGoto
  <1> QED
    BY <1>3, <1>4, <1>5

(* Talking to autoprint, and the datagrams themselves, touch no program    *)
(* (lines 360-393 and 571-583).                                            *)
LEMMA TalkStep ==
    TypeOK /\ (AskConnected \/ AskRefused \/ ConnectionLost
                \/ AutoprintReply \/ Message \/ ReceiveError)
        => UNCHANGED Sup!svars
  <1> SUFFICES ASSUME TypeOK,
                      AskConnected \/ AskRefused \/ ConnectionLost
                        \/ AutoprintReply \/ Message \/ ReceiveError
               PROVE  UNCHANGED Sup!svars
    OBVIOUS
  <1> USE DEF AskConnected, AskRefused, ConnectionLost, AutoprintReply,
          Message, RecvAll, RecvCommand, Keepalive, ReceiveError, HangUp,
          Pidof, mainvars, recvvars, world, config
  <1>1. /\ UNCHANGED <<config, running>> /\ Alive' = Alive
        /\ UNCHANGED <<mpc, i, why>> /\ pid'["main"] = pid["main"]
    BY DEF Alive, TypeOK, Threads
  <1>2. RecvJob = Sup!NoJob /\ RecvJob' = Sup!NoJob
    BY JobTables DEF RecvTable, RecvGoto, Done
  <1> QED
    BY <1>1, <1>2, MainJobKept, Stutter

(* process_restart and process_kill by the datagram thread.                *)
LEMMA RecvFindStep == TypeOK /\ RecvPidof => Sup!Find("recv")
  <1> SUFFICES ASSUME TypeOK, RecvPidof PROVE Sup!Find("recv")
    OBVIOUS
  <1>1. /\ UNCHANGED <<dameon_switch, safe_restart, running>>
        /\ Alive /\ Alive' = Alive
    BY DEF RecvPidof, Pidof, mainvars, config, Alive
  <1>2. PICK x \in IF running[k] = {} THEN {NoPid} ELSE running[k] :
          pid' = [pid EXCEPT !["recv"] = x]
    BY DEF RecvPidof, Pidof
  <1>3. pid'["recv"] = x /\ pid'["main"] = pid["main"]
    BY <1>2 DEF TypeOK, Threads
  <1>4. MainJob' = MainJob
    BY <1>3, MainJobKept DEF RecvPidof, mainvars
  <1>5. RecvJob = JobOf("find", k, NoPid, Order)
    BY JobTables DEF RecvPidof, RecvTable
  <1>6. RecvJob' = JobOf("kill", k, x, Order)
    BY <1>3, JobTables DEF RecvPidof, RecvGoto, RecvTable, Order
  <1> QED
    BY <1>1, <1>4, <1>5, <1>6
       DEF Sup!Find, Sup!Doing, Sup!Become, Sup!Advance, Threads, JobOf

LEMMA RecvKillStep == TypeOK /\ RecvKill => Sup!Kill("recv")
  <1> SUFFICES ASSUME TypeOK, RecvKill PROVE Sup!Kill("recv")
    OBVIOUS
  <1>1. /\ UNCHANGED <<dameon_switch, safe_restart>>
        /\ Alive /\ Alive' = Alive
        /\ running' = [running EXCEPT ![k] = @ \ {pid["recv"]}]
    BY DEF RecvKill, Kill, mainvars, config, Alive
  <1>2. pid'["main"] = pid["main"]
    BY DEF RecvKill, Kill, TypeOK, Threads
  <1>3. MainJob' = MainJob
    BY <1>2, MainJobKept DEF RecvKill, mainvars
  <1>4. RecvJob = JobOf("kill", k, pid["recv"], Order)
    BY JobTables DEF RecvKill, RecvTable
  <1>5. RecvJob' = IF Order = "close" THEN Sup!NoJob
                   ELSE JobOf("start", k, NoPid, Order)
    BY JobTables DEF RecvKill, Done, RecvGoto, RecvTable, Order
  <1> QED
    BY <1>1, <1>3, <1>4, <1>5
       DEF Sup!Kill, Sup!Doing, Sup!Become, Sup!Advance, Threads, JobOf

LEMMA RecvStartStep == TypeOK /\ RecvStart => Sup!Start("recv")
  <1> SUFFICES ASSUME TypeOK, RecvStart PROVE Sup!Start("recv")
    OBVIOUS
  <1>1. /\ UNCHANGED <<dameon_switch, safe_restart>>
        /\ Alive /\ Alive' = Alive
    BY DEF RecvStart, mainvars, config, Alive
  <1>2. MainJob' = MainJob
    BY MainJobKept DEF RecvStart, Start, mainvars
  <1>3. RecvJob = JobOf("start", k, NoPid, Order) /\ RecvJob' = Sup!NoJob
    BY JobTables DEF RecvStart, Done, RecvTable
  <1> DEFINE job == [t \in Threads |-> IF t = "main" THEN MainJob ELSE RecvJob]
             p   == job["recv"].prog
  <1>4. p = k /\ job["recv"].kind # "safe"
    BY <1>3 DEF JobOf, Order, Threads
  <1>5. \/ \E x \in Pids \ (running[p]
                               \cup {job[u].pid : u \in Sup!Threads}) :
             running' = [running EXCEPT ![p] = @ \cup {x}]
        \/ UNCHANGED running
    <2>1. {job[u].pid : u \in Sup!Threads} = {MainJob.pid, RecvJob.pid}
      BY DEF Threads, Sup!Threads
    <2> HIDE DEF job, p
    <2> QED
      BY <1>4, <2>1, HeldPids DEF RecvStart, Start
  <1>6. Sup!Become("recv", Sup!NoJob)
    BY <1>2, <1>3 DEF Sup!Become, Threads
  <1>7. Sup!Doing("recv", "start")
    BY <1>1, <1>3 DEF JobOf, Sup!Doing, Threads
  <1> HIDE DEF p
  <1> QED
    BY <1>1, <1>4, <1>5, <1>6, <1>7 DEF Sup!Start, p

LEMMA RecvRefines ==
    TypeOK /\ (RecvStep \/ Message \/ ReceiveError \/ AutoprintReply)
        => [Sup!SNext]_Sup!svars
  <1>1. TypeOK /\ (RecvPidof \/ RecvKill \/ RecvStart)
          => Sup!ThreadStep("recv")
    BY RecvFindStep, RecvKillStep, RecvStartStep DEF Sup!ThreadStep
  <1>2. Sup!ThreadStep("recv") => Sup!SNext
    BY DEF Sup!SNext, Sup!Threads
  <1> QED
    BY <1>1, <1>2, SettingStep, OrderStep, TalkStep DEF RecvStep

-----------------------------------------------------------------------------
(* The environment.                                                        *)

LEMMA EnvironmentRefines ==
    TypeOK /\ (Exit \/ Tick \/ Reload \/ PowerDown)
        => [Sup!SNext]_Sup!svars
  <1> SUFFICES ASSUME TypeOK, Exit \/ Tick \/ Reload \/ PowerDown
               PROVE  [Sup!SNext]_Sup!svars
    OBVIOUS
  <1>1. RecvJob' = RecvJob /\ UNCHANGED safe_restart
    BY RecvJobKept DEF Exit, Tick, Reload, PowerDown, config, world
  <1>2. CASE Exit
    <2>1. UNCHANGED <<dameon_switch, mpc, pid>> /\ MainJob' = MainJob
      BY <1>2, MainJobKept DEF Exit, mainvars, config
    <2>2. PICK p \in Programs : \E x \in running[p] :
            running' = [running EXCEPT ![p] = @ \ {x}]
      BY <1>2 DEF Exit
    <2>3. Sup!Exit(p)
      BY <1>1, <2>1, <2>2 DEF Sup!Exit, Alive
    <2> QED
      BY <2>3 DEF Sup!SNext
  <1>3. CASE Tick
    <2>1. UNCHANGED <<config, running, mpc>> /\ MainJob' = MainJob
      BY <1>3, MainJobKept DEF Tick, world
    <2> QED
      BY <1>1, <2>1, Stutter DEF Alive
  <1>4. CASE Reload
    <2>1. /\ UNCHANGED <<running, mpc>> /\ MainJob' = MainJob /\ Alive
          /\ dameon_switch' \in [Programs -> BOOLEAN]
      BY <1>4, MainJobKept DEF Reload, world
    <2>2. Alive' = Alive
      BY <2>1 DEF Alive
    <2>3. Sup!Switch
      BY <1>1, <2>1, <2>2 DEF Sup!Switch
    <2> QED
      BY <2>3 DEF Sup!SNext
  <1>5. CASE PowerDown
    <2>1. /\ UNCHANGED dameon_switch /\ Alive
          /\ running' = [p \in Programs |-> {}]
      BY <1>5 DEF PowerDown, config
    <2>2. Alive' = FALSE
      BY <1>5 DEF PowerDown, Alive
    <2>3. MainJob' = Sup!NoJob
      BY <1>5, JobTables DEF PowerDown, MainTable
    <2>4. Sup!Down
      BY <1>1, <2>1, <2>2, <2>3 DEF Sup!Down, Sup!Become, Threads
    <2> QED
      BY <2>4 DEF Sup!SNext
  <1> QED
    BY <1>2, <1>3, <1>4, <1>5

-----------------------------------------------------------------------------
LEMMA InitRefines == Init => Sup!Init
  <1> SUFFICES ASSUME Init PROVE Sup!Init
    OBVIOUS
  <1>1. MainJob = Sup!NoJob /\ RecvJob = Sup!NoJob
    BY JobTables DEF Init, MainTable, RecvTable
  <1>2. Alive = TRUE
    BY DEF Init, Alive
  <1> QED
    BY <1>1, <1>2 DEF Init, Sup!Init, Threads, Sup!Threads

(* The two threads of yinkad do to the programs only what Supervision      *)
(* allows: a program is looked up, killed and started only inside a        *)
(* restart that its switch or a command called for, a postponed request is *)
(* cleared only after the restart made for it (all of lines 208-447 and    *)
(* 571-684).                                                               *)
THEOREM RefinesSupervision == Spec => ImplementsSupervision
  <1>1. Init => WhyInv
    BY DEF Init, WhyInv
  <1>2. TypeOK /\ WhyInv /\ [Next]_vars => [Sup!SNext]_Sup!svars
    <2> SUFFICES ASSUME TypeOK, WhyInv, [Next]_vars
                 PROVE  [Sup!SNext]_Sup!svars
      OBVIOUS
    <2>1. CASE UNCHANGED vars
      <3>1. RecvJob' = RecvJob /\ MainJob' = MainJob
        BY <2>1, RecvJobKept, MainJobKept DEF vars, mainvars, world
      <3> QED
        BY <2>1, <3>1, Stutter DEF vars, mainvars, world, Alive
    <2> QED
      BY <2>1, MainRefines, RecvRefines, EnvironmentRefines DEF Next
  <1> QED
    BY <1>1, <1>2, InitRefines, WhyInvStep, TypeCorrect, PTL
       DEF Spec, ImplementsSupervision, Sup!SSpec
=============================================================================
