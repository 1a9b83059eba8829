-------------------------- MODULE XinputGateProofs ---------------------------
(* Theorems about XinputGate, for every value of the constants that        *)
(* XinputAssumption allows: any devices, however many messages.            *)
EXTENDS XinputGate, TLAPS

(* Zero and the default are unsigned shorts (XinputAssumption).            *)
LEMMA Shorts ==
    /\ 0 \in 0..(Modulus - 1)
    /\ DefaultMinutes \in 0..(Modulus - 1) /\ DefaultMinutes # 0
  BY XinputAssumption

(* A minute is taken off without a wrap, except from zero (line 334).      *)
LEMMA DecrementType ==
    ASSUME NEW n \in 0..(Modulus - 1)
    PROVE  /\ Decrement(n) \in 0..(Modulus - 1)
           /\ n # 0 => Decrement(n) = n - 1
  BY XinputAssumption DEF Decrement

(* The minutes of a message are unsigned shorts, too.                      *)
LEMMA MessageType ==
    ASSUME NEW m \in Messages \cup {None}
    PROVE  /\ m.enable \in BOOLEAN /\ m.minutes \in 0..(Modulus - 1)
           /\ m.minutes \in Minutes \cup {0}
  <1>1. CASE m \in Messages
    BY <1>1, XinputAssumption DEF Messages
  <1>2. CASE m = None
    BY <1>2, Shorts DEF None
  <1> QED
    BY <1>1, <1>2

(* The script leaves every device that is there in one state.              *)
LEMMA SwitchType ==
    ASSUME TypeOK, NEW s \in {"denied", "allowed"}, SwitchDevices(s)
    PROVE  device' \in [Devices -> {"absent", "denied", "allowed"}]
  BY DEF SwitchDevices, TypeOK

LEMMA DeniedAll ==
    ASSUME TypeOK, SwitchDevices("denied")
    PROVE  Allowed' = {}
  BY DEF SwitchDevices, TypeOK, Allowed

LEMMA InitType == Init => TypeOK
  <1> SUFFICES ASSUME Init PROVE TypeOK
    OBVIOUS
  <1>1. enable_remain_time \in 0..(Modulus - 1) /\ loaded \in 0..(Modulus - 1)
    BY Shorts DEF Init
  <1>2. messages \in 0..MaxMessages
    BY XinputAssumption DEF Init
  <1> QED
    BY <1>1, <1>2 DEF Init, TypeOK

LEMMA HistoryType ==
    ASSUME TypeOK
    PROVE  /\ WatchRace => raced' \in BOOLEAN
           /\ Removed => leftover' \in BOOLEAN
  <1>1. WatchRace => raced' \in BOOLEAN
    BY Zenon DEF WatchRace
  <1>2. Removed => leftover' \in BOOLEAN
    BY Zenon DEF Removed
  <1> QED
    BY <1>1, <1>2

LEMMA NextType == TypeOK /\ [Next]_vars => TypeOK'
  <1> SUFFICES ASSUME TypeOK, [Next]_vars PROVE TypeOK'
    OBVIOUS
  <1> USE XinputAssumption, HistoryType, Shorts, SwitchType
      DEF TypeOK, gate, Messages, Unchanged, RecvGoto, RecvDone
  <1>1. CASE MainStep
    <2>1. CASE Minute \/ Load
      BY <2>1 DEF Minute, Load
    <2>2. CASE Store
      BY <2>2, DecrementType DEF Store
    <2>3. CASE ExpireDeny
      BY <2>3 DEF ExpireDeny
    <2>4. CASE ExpireDisable \/ ExpireZero
      BY <2>4 DEF ExpireDisable, ExpireZero
    <2> QED
      BY <1>1, <2>1, <2>2, <2>3, <2>4 DEF MainStep
  <1>2. CASE Control
    BY <1>2 DEF Control
  <1>3. CASE RecvStep
    <2>1. CASE SetRemain
      BY <2>1, MessageType DEF SetRemain
    <2>2. CASE SetDefault
      BY <2>2 DEF SetDefault
    <2>3. CASE ControlAllow
      BY <2>3 DEF ControlAllow
    <2>4. CASE Deny
      BY <2>4 DEF Deny
    <2>5. CASE Removed
      <3>1. leftover' \in BOOLEAN /\ raced' \in BOOLEAN
        BY <2>5 DEF Removed
      <3> QED
        BY <2>5, <3>1 DEF Removed
    <2>6. CASE RemovedZero
      BY <2>6 DEF RemovedZero
    <2>7. CASE Added \/ AddedRemain
      BY <2>7 DEF Added, AddedRemain
    <2> QED
      BY <1>3, <2>1, <2>2, <2>3, <2>4, <2>5, <2>6, <2>7 DEF RecvStep
  <1>4. ASSUME NEW d \in Devices, Report(d)
        PROVE  TypeOK'
    BY <1>4 DEF Report
  <1>5. ASSUME NEW d \in Devices, Plug(d) \/ Unplug(d)
        PROVE  TypeOK'
    BY <1>5 DEF Plug, Unplug
  <1>6. CASE UNCHANGED vars
    BY <1>6 DEF vars
  <1> QED
    BY <1>1, <1>2, <1>3, <1>4, <1>5, <1>6 DEF Next

(* Every variable keeps its range: enable_remain_time stays an unsigned    *)
(* short, whatever the threads write over each other (lines 331-342, 723). *)
THEOREM TypeCorrect == Spec => []TypeOK
  BY InitType, NextType, PTL DEF Spec

-----------------------------------------------------------------------------
(* The inductive invariant.                                                *)

(* The only devices that work are those whose arrival is to be handled.    *)
Gated == \A d \in Allowed : reports[d] = "added"

(* The main thread, undisturbed, from its look at is_enable to the end of  *)
(* the minute (lines 333-340).                                             *)
MainInv ==
    /\ mpc \in {"load", "store"} => is_enable /\ Granted(enable_remain_time)
    /\ mpc = "store" => loaded = enable_remain_time
    /\ mpc = "zero" => ~is_enable
    /\ mpc \in {"disable", "zero"} => Gated

(* The datagram thread, undisturbed, while it carries out a message or a   *)
(* report (lines 702-732).                                                 *)
RecvInv ==
    /\ rpc = "remain" => is_enable = msg.enable
    /\ rpc \in {"default", "allow", "added_remain"} => is_enable
    /\ rpc = "allow" => Granted(enable_remain_time)
    /\ rpc \in {"deny", "added", "added_remain"} /\ is_enable
         => Granted(enable_remain_time)
    /\ rpc = "zero" => ~is_enable /\ (~leftover => Gated)

(* Between their handlers.                                                 *)
RestInv ==
    mpc = "idle" /\ rpc = "recv" =>
        /\ is_enable => Granted(enable_remain_time)
        /\ ~is_enable /\ ~leftover => Gated

GateInv ==
    ~raced => /\ mpc = "idle" \/ rpc = "recv"
              /\ MainInv /\ RecvInv /\ RestInv

-----------------------------------------------------------------------------
(* Each group of steps keeps it.                                           *)

(* Where nothing races, at most one of the two handlers is under way; and  *)
(* where a race has just ended, the gate is closed and no device works.    *)
LEMMA Undisturbed ==
    ASSUME WatchRace, ~raced'
    PROVE  /\ mpc' = "idle" \/ rpc' = "recv"
           /\ ~raced \/ (/\ ~is_enable' /\ Allowed' = {}
                         /\ mpc' = "idle" /\ rpc' = "recv")
  BY DEF WatchRace

LEMMA ClosedInv ==
    ASSUME ~is_enable', Allowed' = {}, mpc' = "idle", rpc' = "recv"
    PROVE  GateInv'
  BY DEF GateInv, MainInv, RecvInv, RestInv, Gated

(* One minute less of what was granted is still granted, unless it is none.*)
LEMMA GrantedStep ==
    ASSUME NEW n \in 0..(Modulus - 1), Granted(n)
    PROVE  Decrement(n) = 0 \/ Granted(Decrement(n))
  <1>1. PICK g \in Minutes \cup {DefaultMinutes} : n \in 1..g
    BY DEF Granted
  <1>2. g \in Nat /\ Decrement(n) = n - 1
    BY <1>1, XinputAssumption, DecrementType
  <1> QED
    BY <1>1, <1>2 DEF Granted

(* What a message asks for is granted, unless it is none.                  *)
LEMMA GrantedMessage ==
    /\ \A n \in Minutes : n > 0 => Granted(n)
    /\ Granted(DefaultMinutes)
  <1>1. ASSUME NEW n \in Minutes \cup {DefaultMinutes}, n > 0
        PROVE  Granted(n)
    <2>1. n \in 1..n
      BY <1>1, XinputAssumption
    <2> QED
      BY <2>1 DEF Granted
  <1> QED
    BY <1>1, Shorts

LEMMA MainStepInv ==
    ASSUME TypeOK, GateInv, MainStep
    PROVE  GateInv'
  <1> USE DEF MainStep, gate, Unchanged
  <1>1. WatchRace
    BY DEF Minute, Load, Store, ExpireDeny, ExpireDisable, ExpireZero
  <1> SUFFICES ASSUME ~raced', ~raced
               PROVE  /\ mpc' = "idle" \/ rpc' = "recv"
                      /\ MainInv' /\ RecvInv' /\ RestInv'
    BY <1>1, Undisturbed, ClosedInv DEF GateInv
  <1>2. /\ mpc' = "idle" \/ rpc' = "recv"
        /\ mpc = "idle" \/ rpc = "recv"
        /\ MainInv /\ RecvInv /\ RestInv
    BY <1>1, Undisturbed DEF GateInv
  <1>3. mpc # "idle" \/ mpc' # "idle"
    BY DEF Minute, Load, Store, ExpireDeny, ExpireDisable, ExpireZero
  <1>4. rpc' = rpc /\ rpc = "recv"
    BY <1>2, <1>3 DEF Minute, Load, Store, ExpireDeny, ExpireDisable,
       ExpireZero
  <1> USE <1>2, <1>4 DEF MainInv, RecvInv, RestInv
  <1>5. CASE Minute
    BY <1>5 DEF Minute
  <1>6. CASE Load
    BY <1>6 DEF Load
  <1>7. CASE Store
    BY <1>7, GrantedStep DEF Store, TypeOK
  <1>8. CASE ExpireDeny
    <2>1. Gated'
      BY <1>8, DeniedAll DEF ExpireDeny, Gated
    <2> QED
      BY <1>8, <2>1 DEF ExpireDeny
  <1>9. CASE ExpireDisable
    BY <1>9 DEF ExpireDisable, Gated, Allowed
  <1>10. CASE ExpireZero
    BY <1>10 DEF ExpireZero, Gated, Allowed
  <1> QED
    BY <1>5, <1>6, <1>7, <1>8, <1>9, <1>10

LEMMA RecvStepInv ==
    ASSUME TypeOK, GateInv,
           \/ Control \/ RecvStep
           \/ \E d \in Devices : Report(d)
    PROVE  GateInv'
  <1> USE DEF RecvStep, gate, Unchanged, RecvGoto, RecvDone
  <1> DEFINE Handlers == \/ Control \/ SetRemain \/ SetDefault \/ ControlAllow
                         \/ Deny \/ Removed \/ RemovedZero \/ Added
                         \/ AddedRemain \/ \E d \in Devices : Report(d)
  <1>1. Handlers
    OBVIOUS
  <1>2. WatchRace /\ mpc' = mpc /\ (rpc # "recv" \/ rpc' # "recv")
    BY <1>1 DEF Control, SetRemain, SetDefault, ControlAllow, Deny, Removed,
                RemovedZero, Added, AddedRemain, Report, TypeOK
  <1> SUFFICES ASSUME ~raced', ~raced
               PROVE  /\ mpc' = "idle" \/ rpc' = "recv"
                      /\ MainInv' /\ RecvInv' /\ RestInv'
    BY <1>2, Undisturbed, ClosedInv DEF GateInv
  <1>3. /\ mpc' = "idle" \/ rpc' = "recv"
        /\ mpc = "idle" \/ rpc = "recv"
        /\ MainInv /\ RecvInv /\ RestInv
    BY <1>2, Undisturbed DEF GateInv
  <1>4. mpc' = "idle" /\ mpc = "idle"
    BY <1>2, <1>3
  <1> USE <1>3, <1>4 DEF MainInv, RecvInv, RestInv
  <1>5. CASE Control
    BY <1>5 DEF Control
  <1>6. CASE SetRemain
    <2>1. msg.minutes \in Nat /\ (msg.minutes > 0 => Granted(msg.minutes))
      BY MessageType, GrantedMessage, XinputAssumption DEF TypeOK
    <2> QED
      BY <1>6, <2>1 DEF SetRemain
  <1>7. CASE SetDefault
    BY <1>7, GrantedMessage DEF SetDefault
  <1>8. CASE ControlAllow
    BY <1>8 DEF ControlAllow
  <1>9. CASE Deny
    <2>1. Gated'
      BY <1>9, DeniedAll DEF Deny, Gated
    <2> QED
      BY <1>9, <2>1 DEF Deny
  <1>10. CASE Removed
    <2>1. ~leftover' => Gated'
      BY <1>10 DEF Removed, Gated, Allowed
    <2> QED
      BY <1>10, <2>1 DEF Removed
  <1>11. CASE RemovedZero
    BY <1>11 DEF RemovedZero, Gated, Allowed
  <1>12. CASE Added
    BY <1>12 DEF Added
  <1>13. CASE AddedRemain
    BY <1>13 DEF AddedRemain, Granted
  <1>14. CASE \E d \in Devices : Report(d)
    BY <1>14 DEF Report, TypeOK
  <1> QED
    BY <1>1, <1>5, <1>6, <1>7, <1>8, <1>9, <1>10, <1>11, <1>12, <1>13, <1>14

(* A device that is plugged in is reported.                                *)
LEMMA PlugInv ==
    ASSUME TypeOK, GateInv, NEW d \in Devices, Plug(d) \/ Unplug(d)
    PROVE  GateInv'
  <1> USE DEF gate
  <1>1. WatchRace
    BY DEF Plug, Unplug
  <1> SUFFICES ASSUME ~raced', ~raced
               PROVE  /\ mpc' = "idle" \/ rpc' = "recv"
                      /\ MainInv' /\ RecvInv' /\ RestInv'
    BY <1>1, Undisturbed, ClosedInv DEF GateInv
  <1>2. UNCHANGED <<mpc, rpc, msg, loaded, is_enable, enable_remain_time,
                    leftover>>
    BY DEF Plug, Unplug
  <1>3. (mpc = "idle" \/ rpc = "recv") /\ MainInv /\ RecvInv /\ RestInv
    BY DEF GateInv
  <1>4. Gated => Gated'
    BY DEF Plug, Unplug, Gated, Allowed, TypeOK
  <1>5. Granted(enable_remain_time)' <=> Granted(enable_remain_time)
    BY <1>2 DEF Granted
  <1> QED
    BY <1>2, <1>3, <1>4, <1>5 DEF MainInv, RecvInv, RestInv

LEMMA GateInvInit == Init => GateInv
  <1>1. Init => Allowed = {}
    BY DEF Init, Allowed
  <1> QED
    BY <1>1 DEF Init, GateInv, MainInv, RecvInv, RestInv, Gated

LEMMA GateInvStep == TypeOK /\ GateInv /\ [Next]_vars => GateInv'
  <1> SUFFICES ASSUME TypeOK, GateInv, [Next]_vars PROVE GateInv'
    OBVIOUS
  <1>1. CASE Next
    BY <1>1, MainStepInv, RecvStepInv, PlugInv DEF Next
  <1>2. CASE UNCHANGED vars
    BY <1>2 DEF vars, gate, GateInv, MainInv, RecvInv, RestInv, Gated,
                Allowed, Granted
  <1> QED
    BY <1>1, <1>2

(* An open gate has minutes left, and no more than were granted, but for a *)
(* message handled during a minute tick (lines 334-338 and 723-727).       *)
THEOREM TimerArmedHolds == Spec => []TimerArmed
  <1>1. GateInv => TimerArmed
    BY DEF GateInv, RestInv, TimerArmed, Quiet
  <1> QED
    BY <1>1, TypeCorrect, GateInvInit, GateInvStep, PTL DEF Spec

(* However many devices are plugged and pulled, one works only while the   *)
(* gate is open or its arrival is to be handled, but for the race and the  *)
(* removal of another (lines 700-732).                                     *)
THEOREM DevicesGatedHolds == Spec => []DevicesGated
  <1>1. GateInv => DevicesGated
    BY DEF GateInv, RestInv, DevicesGated, Quiet, Gated
  <1> QED
    BY <1>1, TypeCorrect, GateInvInit, GateInvStep, PTL DEF Spec

(* A minute that nothing has disturbed takes one off what is left: the     *)
(* unsigned counter does not pass zero (line 334).                         *)
THEOREM MinuteTaken ==
    Spec => [][Store /\ ~raced
                 => enable_remain_time' = enable_remain_time - 1]_vars
  <1>1. ASSUME TypeOK, GateInv, Store, ~raced
        PROVE  enable_remain_time' = enable_remain_time - 1
    <2>1. loaded = enable_remain_time /\ Granted(loaded)
      BY <1>1 DEF GateInv, MainInv, Store
    <2>2. loaded \in 0..(Modulus - 1) /\ loaded # 0
      BY <1>1, <2>1, XinputAssumption DEF Granted, TypeOK
    <2> QED
      BY <1>1, <2>1, <2>2, DecrementType DEF Store
  <1> QED
    BY <1>1, TypeCorrect, GateInvInit, GateInvStep, PTL DEF Spec
=============================================================================
