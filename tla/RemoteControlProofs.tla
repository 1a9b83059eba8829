------------------------ MODULE RemoteControlProofs -------------------------
(* Theorems about RemoteControl, for every value of the constants that     *)
(* RemoteAssumption allows, however many messages arrive.                  *)
EXTENDS RemoteControl, TLAPS

(* Zero and the default are unsigned shorts (RemoteAssumption).            *)
LEMMA Shorts ==
    /\ 0 \in 0..(Modulus - 1)
    /\ DefaultMinutes \in 0..(Modulus - 1) /\ DefaultMinutes # 0
  BY RemoteAssumption

(* A minute is taken off without a wrap, except from zero (line 347).      *)
LEMMA DecrementType ==
    ASSUME NEW n \in 0..(Modulus - 1)
    PROVE  /\ Decrement(n) \in 0..(Modulus - 1)
           /\ n # 0 => Decrement(n) = n - 1
  BY RemoteAssumption DEF Decrement

(* The minutes of a message are unsigned shorts, too.                      *)
LEMMA MessageType ==
    ASSUME NEW m \in Messages \cup {None}
    PROVE  /\ m.enable \in BOOLEAN /\ m.minutes \in 0..(Modulus - 1)
           /\ m.minutes \in Minutes \cup {0}
  <1>1. CASE m \in Messages
    BY <1>1, RemoteAssumption DEF Messages
  <1>2. CASE m = None
    BY <1>2, Shorts DEF None
  <1> QED
    BY <1>1, <1>2

LEMMA InitType == Init => TypeOK
  <1> SUFFICES ASSUME Init PROVE TypeOK
    OBVIOUS
  <1>1. enable_remain_time \in 0..(Modulus - 1) /\ loaded \in 0..(Modulus - 1)
    BY Shorts DEF Init
  <1>2. messages \in 0..MaxMessages
    BY RemoteAssumption DEF Init
  <1> QED
    BY <1>1, <1>2 DEF Init, TypeOK

LEMMA HistoryType ==
    ASSUME TypeOK
    PROVE  /\ WatchRace => raced' \in BOOLEAN
           /\ KillTunnel => tunnel' \in BOOLEAN /\ stale' \in BOOLEAN
  <1>1. WatchRace => raced' \in BOOLEAN
    BY Zenon DEF WatchRace
  <1>2. KillTunnel => tunnel' \in BOOLEAN /\ stale' \in BOOLEAN
    BY Zenon DEF KillTunnel
  <1> QED
    BY <1>1, <1>2

LEMMA NextType == TypeOK /\ [Next]_vars => TypeOK'
  <1> SUFFICES ASSUME TypeOK, [Next]_vars PROVE TypeOK'
    OBVIOUS
  <1> USE RemoteAssumption, HistoryType, Shorts
      DEF TypeOK, remote, Messages, Same
  <1>1. CASE MainStep
    <2>1. CASE Minute \/ Load
      BY <2>1 DEF Minute, Load
    <2>2. CASE Store
      BY <2>2, DecrementType DEF Store
    <2>3. CASE ExpireKill
      BY <2>3 DEF ExpireKill
    <2>4. CASE ExpireDisable \/ ExpireZero
      BY <2>4 DEF ExpireDisable, ExpireZero
    <2> QED
      BY <1>1, <2>1, <2>2, <2>3, <2>4 DEF MainStep
  <1>2. CASE Receive
    BY <1>2 DEF Receive
  <1>3. CASE RecvStep
    <2>1. CASE SetRemain
      BY <2>1, MessageType DEF SetRemain
    <2>2. CASE SetDefault \/ SetFlag
      BY <2>2 DEF SetDefault, SetFlag
    <2>3. CASE Disable
      BY <2>3 DEF Disable
    <2> QED
      BY <1>3, <2>1, <2>2, <2>3 DEF RecvStep
  <1>4. CASE RemoteStep
    BY <1>4 DEF RemoteStep, Poll, Open, TunnelEnded, ClearFlag
  <1>5. CASE TunnelExit
    BY <1>5 DEF TunnelExit
  <1>6. CASE UNCHANGED vars
    BY <1>6 DEF vars
  <1> QED
    BY <1>1, <1>2, <1>3, <1>4, <1>5, <1>6 DEF Next

(* Every variable keeps its range: enable_remain_time stays an unsigned    *)
(* short, whatever the threads write over each other (lines 344-355, 739). *)
THEOREM TypeCorrect == Spec => []TypeOK
  BY InitType, NextType, PTL DEF Spec

-----------------------------------------------------------------------------
(* The inductive invariant.                                                *)

(* No tunnel is open, and none is going to be before the flag is set.      *)
Closed == ~tunnel /\ ~(flag /\ tpc \in {"poll", "open"})

(* The remote control thread, which alone opens tunnels, does so for a     *)
(* flag that it clears only afterwards (lines 492-498).                    *)
ThreadInv ==
    /\ tpc # "poll" => flag
    /\ tunnel => tpc = "wait"

(* The main thread, undisturbed, from its look at is_enable to the end of  *)
(* the minute (lines 346-353).                                             *)
MainInv ==
    /\ mpc \in {"load", "store"} => is_enable /\ Granted(enable_remain_time)
    /\ mpc = "store" => loaded = enable_remain_time
    /\ mpc = "zero" => ~is_enable
    /\ mpc \in {"disable", "zero"} /\ ~stale => Closed

(* The datagram thread, undisturbed, while it carries out a message (lines *)
(* 739-748).                                                               *)
RecvInv ==
    /\ rpc # "recv" => is_enable = msg.enable
    /\ rpc \in {"default", "flag"} => is_enable
    /\ rpc = "flag" => Granted(enable_remain_time)
    /\ rpc = "kill" /\ is_enable => Granted(enable_remain_time)

(* Between their handlers.                                                 *)
RestInv ==
    mpc = "idle" /\ rpc = "recv" =>
        /\ is_enable => Granted(enable_remain_time)
        /\ ~is_enable /\ ~stale => Closed

RemoteInv ==
    /\ ThreadInv
    /\ ~raced => /\ mpc = "idle" \/ rpc = "recv"
                 /\ MainInv /\ RecvInv /\ RestInv

-----------------------------------------------------------------------------
(* Each group of steps keeps it.                                           *)

(* Where nothing races, at most one of the two handlers is under way; and  *)
(* where a race has just ended, everything is off.                         *)
LEMMA Undisturbed ==
    ASSUME WatchRace, ~raced'
    PROVE  /\ mpc' = "idle" \/ rpc' = "recv"
           /\ ~raced \/ Off'
  BY DEF WatchRace

(* When everything is off there is nothing left to show.                   *)
LEMMA OffInv ==
    ASSUME Off', ThreadInv'
    PROVE  RemoteInv'
  BY DEF Off, RemoteInv, MainInv, RecvInv, RestInv, Closed

(* One minute less of what was granted is still granted, unless it is none.*)
LEMMA GrantedStep ==
    ASSUME NEW n \in 0..(Modulus - 1), Granted(n)
    PROVE  Decrement(n) = 0 \/ Granted(Decrement(n))
  <1>1. PICK g \in Minutes \cup {DefaultMinutes} : n \in 1..g
    BY DEF Granted
  <1>2. g \in Nat /\ Decrement(n) = n - 1
    BY <1>1, RemoteAssumption, DecrementType
  <1> QED
    BY <1>1, <1>2 DEF Granted

(* What a message asks for is granted, unless it is none.                  *)
LEMMA GrantedMessage ==
    /\ \A n \in Minutes : n > 0 => Granted(n)
    /\ Granted(DefaultMinutes)
  <1>1. ASSUME NEW n \in Minutes \cup {DefaultMinutes}, n > 0
        PROVE  Granted(n)
    <2>1. n \in 1..n
      BY <1>1, RemoteAssumption
    <2> QED
      BY <2>1 DEF Granted
  <1> QED
    BY <1>1, Shorts

LEMMA MainStepInv ==
    ASSUME TypeOK, RemoteInv, MainStep
    PROVE  RemoteInv'
  <1> USE DEF MainStep, remote, Same
  <1>1. WatchRace
    BY DEF Minute, Load, Store, ExpireKill, ExpireDisable, ExpireZero
  <1>2. ThreadInv'
    BY DEF RemoteInv, ThreadInv, Minute, Load, Store, ExpireKill,
           ExpireDisable, ExpireZero, KillTunnel
  <1> SUFFICES ASSUME ~raced', ~Off'
               PROVE  MainInv' /\ RecvInv' /\ RestInv'
    BY <1>1, <1>2, Undisturbed, OffInv DEF RemoteInv
  <1>3. ~raced /\ (mpc' = "idle" \/ rpc' = "recv")
    BY <1>1, Undisturbed
  <1>4. MainInv /\ RecvInv /\ RestInv /\ (mpc = "idle" \/ rpc = "recv")
    BY <1>3 DEF RemoteInv
  <1>5. mpc # "idle" \/ mpc' # "idle"
    BY DEF Minute, Load, Store, ExpireKill, ExpireDisable, ExpireZero
  <1>6. rpc' = rpc /\ rpc = "recv"
    BY <1>3, <1>4, <1>5 DEF Minute, Load, Store, ExpireKill, ExpireDisable,
       ExpireZero
  <1> USE <1>4, <1>6 DEF MainInv, RecvInv, RestInv
  <1>7. CASE Minute
    BY <1>7 DEF Minute
  <1>8. CASE Load
    BY <1>8 DEF Load
  <1>9. CASE Store
    BY <1>9, GrantedStep DEF Store, TypeOK
  <1>10. CASE ExpireKill
    BY <1>10 DEF ExpireKill, KillTunnel, Closed
  <1>11. CASE ExpireDisable
    BY <1>11 DEF ExpireDisable, Closed
  <1>12. CASE ExpireZero
    BY <1>12 DEF ExpireZero, Closed
  <1> QED
    BY <1>7, <1>8, <1>9, <1>10, <1>11, <1>12

LEMMA RecvStepInv ==
    ASSUME TypeOK, RemoteInv, Receive \/ RecvStep
    PROVE  RemoteInv'
  <1> USE DEF RecvStep, remote, Same
  <1>1. WatchRace
    BY DEF Receive, SetRemain, SetDefault, SetFlag, Disable
  <1>2. ThreadInv'
    BY DEF RemoteInv, ThreadInv, Receive, SetRemain, SetDefault, SetFlag,
           Disable, KillTunnel
  <1> SUFFICES ASSUME ~raced', ~Off'
               PROVE  MainInv' /\ RecvInv' /\ RestInv'
    BY <1>1, <1>2, Undisturbed, OffInv DEF RemoteInv
  <1>3. ~raced /\ (mpc' = "idle" \/ rpc' = "recv")
    BY <1>1, Undisturbed
  <1>4. MainInv /\ RecvInv /\ RestInv /\ (mpc = "idle" \/ rpc = "recv")
    BY <1>3 DEF RemoteInv
  <1>5. rpc # "recv" \/ rpc' # "recv"
    BY DEF Receive, SetRemain, SetDefault, SetFlag, Disable
  <1>6. mpc' = mpc /\ mpc = "idle"
    BY <1>3, <1>4, <1>5 DEF Receive, SetRemain, SetDefault, SetFlag, Disable
  <1> USE <1>4, <1>6 DEF MainInv, RecvInv, RestInv
  <1>7. CASE Receive
    BY <1>7 DEF Receive
  <1>8. CASE SetRemain
    <2>1. msg.minutes \in Nat /\ (msg.minutes > 0 => Granted(msg.minutes))
      BY MessageType, GrantedMessage, RemoteAssumption DEF TypeOK
    <2> QED
      BY <1>8, <2>1 DEF SetRemain
  <1>9. CASE SetDefault
    BY <1>9, GrantedMessage DEF SetDefault
  <1>10. CASE SetFlag
    BY <1>10 DEF SetFlag
  <1>11. CASE Disable
    BY <1>11 DEF Disable, KillTunnel, Closed
  <1> QED
    BY <1>7, <1>8, <1>9, <1>10, <1>11

LEMMA RemoteStepInv ==
    ASSUME TypeOK, RemoteInv, RemoteStep \/ TunnelExit
    PROVE  RemoteInv'
  <1> USE DEF RemoteStep, remote, Same
  <1>1. WatchRace
    BY DEF Poll, Open, TunnelEnded, ClearFlag, TunnelExit
  <1>2. ThreadInv'
    BY DEF RemoteInv, ThreadInv, Poll, Open, TunnelEnded, ClearFlag,
           TunnelExit
  <1> SUFFICES ASSUME ~raced', ~Off'
               PROVE  MainInv' /\ RecvInv' /\ RestInv'
    BY <1>1, <1>2, Undisturbed, OffInv DEF RemoteInv
  <1>3. UNCHANGED <<mpc, rpc, msg, loaded, is_enable, enable_remain_time>>
    BY DEF Poll, Open, TunnelEnded, ClearFlag, TunnelExit
  <1>4. ThreadInv /\ MainInv /\ RecvInv /\ RestInv
    BY <1>1, Undisturbed DEF RemoteInv
  <1>5. Closed /\ ~stale => Closed'
    BY <1>4 DEF Closed, ThreadInv, Poll, Open, TunnelEnded, ClearFlag,
                TunnelExit
  <1>6. stale' = stale \/ Closed'
    BY <1>4 DEF Closed, ThreadInv, Poll, Open, TunnelEnded, ClearFlag,
                TunnelExit
  <1>7. Granted(enable_remain_time)' <=> Granted(enable_remain_time)
    BY <1>3 DEF Granted
  <1> QED
    BY <1>3, <1>4, <1>5, <1>6, <1>7 DEF MainInv, RecvInv, RestInv

LEMMA RemoteInvInit == Init => RemoteInv
  BY DEF Init, RemoteInv, ThreadInv, MainInv, RecvInv, RestInv, Closed

LEMMA RemoteInvStep == TypeOK /\ RemoteInv /\ [Next]_vars => RemoteInv'
  <1> SUFFICES ASSUME TypeOK, RemoteInv, [Next]_vars PROVE RemoteInv'
    OBVIOUS
  <1>1. CASE Next
    BY <1>1, MainStepInv, RecvStepInv, RemoteStepInv DEF Next
  <1>2. CASE UNCHANGED vars
    BY <1>2 DEF vars, remote, RemoteInv, ThreadInv, MainInv, RecvInv, RestInv,
                Closed, Granted
  <1> QED
    BY <1>1, <1>2

(* Remote control, while enabled, has minutes left, and no more than were  *)
(* granted, but for a message handled during a minute tick (lines 347-351  *)
(* and 739-743).                                                           *)
THEOREM TimerArmedHolds == Spec => []TimerArmed
  <1>1. RemoteInv => TimerArmed
    BY DEF RemoteInv, RestInv, TimerArmed, Quiet
  <1> QED
    BY <1>1, TypeCorrect, RemoteInvInit, RemoteInvStep, PTL DEF Spec

(* A tunnel is open only while remote control is enabled, but for the two  *)
(* races (lines 493-496 and 745-748).                                      *)
THEOREM TunnelWatchedHolds == Spec => []TunnelWatched
  <1>1. RemoteInv => TunnelWatched
    BY DEF RemoteInv, RestInv, TunnelWatched, Quiet, Closed
  <1> QED
    BY <1>1, TypeCorrect, RemoteInvInit, RemoteInvStep, PTL DEF Spec

(* A minute that nothing has disturbed takes one off what is left: the     *)
(* unsigned counter does not pass zero (line 347).                         *)
THEOREM MinuteTaken ==
    Spec => [][Store /\ ~raced
                 => enable_remain_time' = enable_remain_time - 1]_vars
  <1>1. ASSUME TypeOK, RemoteInv, Store, ~raced
        PROVE  enable_remain_time' = enable_remain_time - 1
    <2>1. loaded = enable_remain_time /\ Granted(loaded)
      BY <1>1 DEF RemoteInv, MainInv, Store
    <2>2. loaded \in 0..(Modulus - 1) /\ loaded # 0
      BY <1>1, <2>1, RemoteAssumption DEF Granted, TypeOK
    <2> QED
      BY <1>1, <2>1, <2>2, DecrementType DEF Store
  <1> QED
    BY <1>1, TypeCorrect, RemoteInvInit, RemoteInvStep, PTL DEF Spec
=============================================================================
