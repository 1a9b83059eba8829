----------------------------- MODULE XinputGate ------------------------------
(***************************************************************************)
(* The input-device gate in yinkad.c: USB keyboards and mice are denied,   *)
(* except for the minutes a control message allows them.  The datagram     *)
(* thread (process_data_receive, lines 700-736) and the main thread        *)
(* (check_xinput_remaintimes) share g_xinput_state without a lock and both *)
(* run the script that switches all the devices.                           *)
(*                                                                         *)
(* A step is one access to a shared variable or one run of the script.     *)
(***************************************************************************)
EXTENDS Naturals

CONSTANTS
    DefaultMinutes,  \* XINPUT_DEFAULT_ENABLE_TIME (10)
    Modulus,         \* enable_remain_time is an unsigned short (2^16)
    Minutes,         \* the minutes a message may ask for
    Devices,         \* the USB keyboards and mice
    MaxMessages      \* bound of the model: control messages that arrive

ASSUME XinputAssumption ==
    /\ Modulus \in Nat
    /\ DefaultMinutes \in 1..(Modulus - 1)
    /\ Minutes \subseteq 0..(Modulus - 1)
    /\ Devices # {}
    /\ MaxMessages \in Nat

VARIABLES
    is_enable, enable_remain_time,  \* g_xinput_state, ALLOW is TRUE
    device,                         \* "absent", "denied" or "allowed"
    mpc, loaded,                    \* main thread, register of line 334
    rpc, msg,                       \* datagram thread, message in hand
    reports,                        \* hotplug reports on their way
    messages,                       \* control messages received so far
    raced,                          \* a message was handled during a minute
                                    \* tick, and its effect may last
    leftover                        \* a removal closed the gate's timer while
                                    \* another device was allowed

gate == <<is_enable, enable_remain_time>>
vars == <<gate, device, mpc, loaded, rpc, msg, reports, messages, raced,
          leftover>>

Messages == [enable : BOOLEAN, minutes : Minutes]
None == [enable |-> FALSE, minutes |-> 0]

TypeOK ==
    /\ is_enable \in BOOLEAN
    /\ enable_remain_time \in 0..(Modulus - 1)
    /\ device \in [Devices -> {"absent", "denied", "allowed"}]
    /\ mpc \in {"idle", "load", "store", "deny", "disable", "zero"}
    /\ loaded \in 0..(Modulus - 1)
    /\ rpc \in {"recv", "remain", "default", "allow", "deny", "removed",
                "zero", "added", "added_remain"}
    /\ msg \in Messages \cup {None}
    /\ reports \in [Devices -> {"none", "added", "removed"}]
    /\ messages \in 0..MaxMessages
    /\ raced \in BOOLEAN /\ leftover \in BOOLEAN

(* yinka_dameon_init has denied the devices that were there (line 830).    *)
Init ==
    /\ is_enable = FALSE /\ enable_remain_time = 0
    /\ device \in [Devices -> {"absent", "denied"}]
    /\ mpc = "idle" /\ loaded = 0
    /\ rpc = "recv" /\ msg = None
    /\ reports = [d \in Devices |-> "none"]
    /\ messages = 0
    /\ raced = FALSE /\ leftover = FALSE

-----------------------------------------------------------------------------
Allowed == {d \in Devices : device[d] = "allowed"}

(* History: raced ends once the gate is closed and quiet.                  *)
WatchRace ==
    raced' = \/ mpc' # "idle" /\ rpc' # "recv"
             \/ /\ raced
                /\ ~(/\ ~is_enable /\ Allowed = {}
                     /\ mpc = "idle" /\ rpc = "recv")'

(* manage_usb_keyboard_devices.sh on | off: every device that is there.    *)
SwitchDevices(s) ==
    device' = [d \in Devices |-> IF device[d] = "absent" THEN "absent" ELSE s]

Unchanged == UNCHANGED <<messages, reports>> /\ WatchRace

-----------------------------------------------------------------------------
(* The main thread, once a minute.                                         *)

Minute ==
    /\ mpc = "idle" /\ is_enable
    /\ mpc' = "load"
    /\ UNCHANGED <<gate, device, loaded, rpc, msg, leftover>> /\ Unchanged

Load ==
    /\ mpc = "load"
    /\ loaded' = enable_remain_time
    /\ mpc' = "store"
    /\ UNCHANGED <<gate, device, rpc, msg, leftover>> /\ Unchanged

(* Deliberately wrong variants: no minute is taken; no wrap at zero.       *)
DecrementNothing(n) == n
DecrementSigned(n) == n - 1

Decrement(n) == (n + Modulus - 1) % Modulus

Store ==
    /\ mpc = "store"
    /\ enable_remain_time' = Decrement(loaded)
    /\ mpc' = IF Decrement(loaded) = 0 THEN "deny" ELSE "idle"
    /\ loaded' = 0
    /\ UNCHANGED <<is_enable, device, rpc, msg, leftover>> /\ Unchanged

ExpireDeny ==
    /\ mpc = "deny"
    /\ SwitchDevices("denied") /\ leftover' = FALSE
    /\ mpc' = "disable"
    /\ UNCHANGED <<gate, loaded, rpc, msg>> /\ Unchanged

(* Deliberately wrong variant: the state stays enabled.                    *)
ExpireKeepsEnabled ==
    /\ mpc = "disable"
    /\ mpc' = "zero"
    /\ UNCHANGED <<gate, device, loaded, rpc, msg, leftover>> /\ Unchanged

ExpireDisable ==
    /\ mpc = "disable"
    /\ is_enable' = FALSE
    /\ mpc' = "zero"
    /\ UNCHANGED <<enable_remain_time, device, loaded, rpc, msg, leftover>>
    /\ Unchanged

ExpireZero ==
    /\ mpc = "zero"
    /\ enable_remain_time' = 0
    /\ mpc' = "idle"
    /\ UNCHANGED <<is_enable, device, loaded, rpc, msg, leftover>> /\ Unchanged

MainStep == Minute \/ Load \/ Store \/ ExpireDeny \/ ExpireDisable
              \/ ExpireZero

-----------------------------------------------------------------------------
(* The datagram thread: DAEMON_XINPUT_CONTROL.                             *)

RecvGoto(l) == rpc' = l /\ UNCHANGED <<msg, mpc, loaded>>

RecvDone == rpc' = "recv" /\ msg' = None /\ UNCHANGED <<mpc, loaded>>

Control ==
    /\ rpc = "recv" /\ messages < MaxMessages
    /\ msg' \in Messages
    /\ is_enable' = msg'.enable
    /\ messages' = messages + 1
    /\ rpc' = "remain"
    /\ UNCHANGED <<enable_remain_time, device, mpc, loaded, reports, leftover>>
    /\ WatchRace

(* Only an allow for zero minutes opens the gate (for the default time);   *)
(* every other message, an allow for some minutes too, denies the devices. *)
SetRemain ==
    /\ rpc = "remain"
    /\ enable_remain_time' = msg.minutes
    /\ RecvGoto(IF msg.enable /\ msg.minutes <= 0 THEN "default" ELSE "deny")
    /\ UNCHANGED <<is_enable, device, leftover>> /\ Unchanged

SetDefault ==
    /\ rpc = "default"
    /\ enable_remain_time' = DefaultMinutes
    /\ RecvGoto("allow")
    /\ UNCHANGED <<is_enable, device, leftover>> /\ Unchanged

ControlAllow ==
    /\ rpc = "allow"
    /\ SwitchDevices("allowed")
    /\ RecvDone
    /\ UNCHANGED <<gate, leftover>> /\ Unchanged

(* Deliberately wrong variant: the devices are not denied.                 *)
DenyNothing ==
    /\ rpc = "deny"
    /\ RecvDone
    /\ UNCHANGED <<gate, device, leftover>> /\ Unchanged

(* The deny of a control message, and of a report of a new device.         *)
Deny ==
    /\ rpc = "deny"
    /\ SwitchDevices("denied") /\ leftover' = FALSE
    /\ RecvDone
    /\ UNCHANGED gate /\ Unchanged

-----------------------------------------------------------------------------
(* The datagram thread: DAEMON_XINPUT_REPORT.                              *)

Report(d) ==
    /\ rpc = "recv" /\ reports[d] # "none"
    /\ reports' = [reports EXCEPT ![d] = "none"]
    /\ RecvGoto(reports[d])
    /\ UNCHANGED <<gate, device, messages, leftover>> /\ WatchRace

(* A removed device closes the gate for the state, not for the devices     *)
(* that are still there.                                                   *)
Removed ==
    /\ rpc = "removed"
    /\ is_enable' = FALSE
    /\ leftover' = (leftover \/ \E d \in Allowed : reports[d] # "added")
    /\ RecvGoto("zero")
    /\ UNCHANGED <<enable_remain_time, device>> /\ Unchanged

RemovedZero ==
    /\ rpc = "zero"
    /\ enable_remain_time' = 0
    /\ RecvDone
    /\ UNCHANGED <<is_enable, device, leftover>> /\ Unchanged

Added ==
    /\ rpc = "added"
    /\ RecvGoto(IF is_enable THEN "added_remain" ELSE "deny")
    /\ UNCHANGED <<gate, device, leftover>> /\ Unchanged

AddedRemain ==
    /\ rpc = "added_remain"
    /\ IF enable_remain_time > 0 THEN RecvDone ELSE RecvGoto("deny")
    /\ UNCHANGED <<gate, device, leftover>> /\ Unchanged

RecvStep ==
    \/ SetRemain \/ SetDefault \/ ControlAllow \/ Deny
    \/ Removed \/ RemovedZero \/ Added \/ AddedRemain

-----------------------------------------------------------------------------
(* External: a device comes up enabled; plugging is reported by datagram.  *)

Plug(d) ==
    /\ device[d] = "absent" /\ reports[d] = "none"
    /\ device' = [device EXCEPT ![d] = "allowed"]
    /\ reports' = [reports EXCEPT ![d] = "added"]
    /\ UNCHANGED <<gate, mpc, loaded, rpc, msg, messages, leftover>>
    /\ WatchRace

Unplug(d) ==
    /\ device[d] # "absent" /\ reports[d] = "none"
    /\ device' = [device EXCEPT ![d] = "absent"]
    /\ reports' = [reports EXCEPT ![d] = "removed"]
    /\ UNCHANGED <<gate, mpc, loaded, rpc, msg, messages, leftover>>
    /\ WatchRace

Next ==
    \/ MainStep \/ Control \/ RecvStep
    \/ \E d \in Devices : Report(d) \/ Plug(d) \/ Unplug(d)

Spec == Init /\ [][Next]_vars

(* The threads are scheduled, minutes pass, a report is received in time.  *)
FairSpec ==
    /\ Spec
    /\ WF_vars(MainStep) /\ WF_vars(RecvStep)
    /\ \A d \in Devices : SF_vars(Report(d))

-----------------------------------------------------------------------------
Quiet == mpc = "idle" /\ rpc = "recv" /\ ~raced

(* n minutes are some of those that a message may grant.                   *)
Granted(n) == \E g \in Minutes \cup {DefaultMinutes} : n \in 1..g

(* An open gate has a running timer with at most the minutes granted.      *)
TimerArmed ==
    Quiet /\ is_enable => Granted(enable_remain_time)

(* A device works only while the gate is open or its arrival is still to   *)
(* be handled (lines 711-718, 726-732), unless another device was removed  *)
(* meanwhile.                                                              *)
DevicesGated ==
    Quiet /\ ~is_enable /\ ~leftover
        => \A d \in Allowed : reports[d] = "added"

(* A device that works is denied or gone in the end.                       *)
DevicesDenied ==
    \A d \in Devices :
        device[d] = "allowed" ~> (device[d] # "allowed" \/ leftover \/ raced)
=============================================================================
