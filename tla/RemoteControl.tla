--------------------------- MODULE RemoteControl ----------------------------
(***************************************************************************)
(* Remote control in yinkad.c: a control message opens an ngrok tunnel for *)
(* a number of minutes.  Three threads share g_remote_control_state and    *)
(* g_remote_control_flag without a lock: the datagram thread               *)
(* (process_data_receive, lines 737-750), the thread that polls the flag   *)
(* and sits in system() while the tunnel lives                             *)
(* (process_remote_control_thread), and the main thread, which counts the  *)
(* minutes down (check_remote_control_remaintimes).                        *)
(*                                                                         *)
(* A step is one access to a shared variable or one command run by         *)
(* system().  The datagram thread tests the fields it has just stored; the *)
(* build keeps them in registers, so the test is of the message.           *)
(***************************************************************************)
EXTENDS Naturals

CONSTANTS
    DefaultMinutes,  \* REMOTE_CONTROL_DEFAULT_ENABLE_TIME (15)
    Modulus,         \* enable_remain_time is an unsigned short (2^16)
    Minutes,         \* the minutes a message may ask for
    MaxMessages      \* bound of the model: control messages that arrive

ASSUME RemoteAssumption ==
    /\ Modulus \in Nat
    /\ DefaultMinutes \in 1..(Modulus - 1)
    /\ Minutes \subseteq 0..(Modulus - 1)
    /\ MaxMessages \in Nat

VARIABLES
    is_enable, enable_remain_time,   \* g_remote_control_state
    flag,                            \* g_remote_control_flag = ENABLE
    tunnel,                          \* yinka-ngrok lives
    mpc, loaded,                     \* main thread, register of line 347
    rpc, msg,                        \* datagram thread, message in hand
    tpc,                             \* remote control thread
    messages,                        \* messages received so far
    raced,                           \* a message was handled during a minute
                                     \* tick, and its effect may last
    stale                            \* the flag outlived a disabling

remote == <<is_enable, enable_remain_time, flag, tunnel>>
vars == <<remote, mpc, loaded, rpc, msg, tpc, messages, raced, stale>>

Messages == [enable : BOOLEAN, minutes : Minutes]
None == [enable |-> FALSE, minutes |-> 0]

TypeOK ==
    /\ is_enable \in BOOLEAN /\ flag \in BOOLEAN /\ tunnel \in BOOLEAN
    /\ enable_remain_time \in 0..(Modulus - 1)
    /\ mpc \in {"idle", "load", "store", "kill", "disable", "zero"}
    /\ loaded \in 0..(Modulus - 1)
    /\ rpc \in {"recv", "remain", "default", "flag", "kill"}
    /\ msg \in Messages \cup {None}
    /\ tpc \in {"poll", "open", "wait", "clear"}
    /\ messages \in 0..MaxMessages
    /\ raced \in BOOLEAN /\ stale \in BOOLEAN

Init ==
    /\ is_enable = FALSE /\ enable_remain_time = 0
    /\ flag = FALSE /\ tunnel = FALSE
    /\ mpc = "idle" /\ loaded = 0
    /\ rpc = "recv" /\ msg = None
    /\ tpc = "poll"
    /\ messages = 0
    /\ raced = FALSE /\ stale = FALSE

-----------------------------------------------------------------------------
(* History: raced ends once everything is off and quiet; stale is set by a *)
(* disabling that finds no tunnel to kill while the flag still asks for    *)
(* one, and ends when the thread clears the flag.                          *)
Off == ~is_enable /\ ~tunnel /\ ~flag /\ mpc = "idle" /\ rpc = "recv"

WatchRace ==
    raced' = \/ mpc' # "idle" /\ rpc' # "recv"
             \/ raced /\ ~Off'

KillTunnel ==
    /\ tunnel' = FALSE
    /\ stale' = (stale \/ (flag /\ tpc \in {"poll", "open"}))

Same == UNCHANGED stale /\ WatchRace

-----------------------------------------------------------------------------
(* The main thread, once a minute.                                         *)

(* The remote control thread polls every 10 seconds: it sees a flag that   *)
(* is set before the minute is over.                                       *)
Minute ==
    /\ mpc = "idle" /\ is_enable
    /\ ~(tpc = "poll" /\ flag)
    /\ mpc' = "load"
    /\ UNCHANGED <<remote, loaded, rpc, msg, tpc, messages>> /\ Same

Load ==
    /\ mpc = "load"
    /\ loaded' = enable_remain_time
    /\ mpc' = "store"
    /\ UNCHANGED <<remote, rpc, msg, tpc, messages>> /\ Same

(* Deliberately wrong variants: no minute is taken; no wrap at zero.       *)
DecrementNothing(n) == n
DecrementSigned(n) == n - 1

(* enable_remain_time-- on an unsigned short.                              *)
Decrement(n) == (n + Modulus - 1) % Modulus

Store ==
    /\ mpc = "store"
    /\ enable_remain_time' = Decrement(loaded)
    /\ mpc' = IF Decrement(loaded) = 0 THEN "kill" ELSE "idle"
    /\ loaded' = 0
    /\ UNCHANGED <<is_enable, flag, tunnel, rpc, msg, tpc, messages>> /\ Same

(* process_remote_control(DISABLE): kills the tunnel, if there is one, and *)
(* leaves the flag alone.                                                  *)
ExpireKill ==
    /\ mpc = "kill"
    /\ KillTunnel
    /\ mpc' = "disable"
    /\ UNCHANGED <<is_enable, enable_remain_time, flag, loaded, rpc, msg, tpc,
                   messages>> /\ WatchRace

(* Deliberately wrong variant: the state stays enabled.                    *)
ExpireKeepsEnabled ==
    /\ mpc = "disable"
    /\ mpc' = "zero"
    /\ UNCHANGED <<remote, loaded, rpc, msg, tpc, messages>> /\ Same

ExpireDisable ==
    /\ mpc = "disable"
    /\ is_enable' = FALSE
    /\ mpc' = "zero"
    /\ UNCHANGED <<enable_remain_time, flag, tunnel, loaded, rpc, msg, tpc,
                   messages>> /\ Same

ExpireZero ==
    /\ mpc = "zero"
    /\ enable_remain_time' = 0
    /\ mpc' = "idle"
    /\ UNCHANGED <<is_enable, flag, tunnel, loaded, rpc, msg, tpc, messages>>
    /\ Same

MainStep == Minute \/ Load \/ Store \/ ExpireKill \/ ExpireDisable
              \/ ExpireZero

-----------------------------------------------------------------------------
(* The datagram thread.                                                    *)

Receive ==
    /\ rpc = "recv" /\ messages < MaxMessages
    /\ msg' \in Messages
    /\ is_enable' = msg'.enable
    /\ rpc' = "remain"
    /\ messages' = messages + 1
    /\ UNCHANGED <<enable_remain_time, flag, tunnel, mpc, loaded, tpc>> /\ Same

(* Only an enable for zero minutes opens the tunnel (for the default time);*)
(* every other message, an enable for some minutes too, kills it.          *)
SetRemain ==
    /\ rpc = "remain"
    /\ enable_remain_time' = msg.minutes
    /\ rpc' = IF msg.enable /\ msg.minutes <= 0 THEN "default" ELSE "kill"
    /\ UNCHANGED <<is_enable, flag, tunnel, mpc, loaded, msg, tpc, messages>>
    /\ Same

SetDefault ==
    /\ rpc = "default"
    /\ enable_remain_time' = DefaultMinutes
    /\ rpc' = "flag"
    /\ UNCHANGED <<is_enable, flag, tunnel, mpc, loaded, msg, tpc, messages>>
    /\ Same

SetFlag ==
    /\ rpc = "flag"
    /\ flag' = TRUE
    /\ rpc' = "recv" /\ msg' = None
    /\ UNCHANGED <<is_enable, enable_remain_time, tunnel, mpc, loaded, tpc,
                   messages>> /\ Same

(* Deliberately wrong variant: the tunnel survives the message.            *)
DisableNothing ==
    /\ rpc = "kill"
    /\ rpc' = "recv" /\ msg' = None
    /\ UNCHANGED <<remote, mpc, loaded, tpc, messages>> /\ Same

Disable ==
    /\ rpc = "kill"
    /\ KillTunnel
    /\ rpc' = "recv" /\ msg' = None
    /\ UNCHANGED <<is_enable, enable_remain_time, flag, mpc, loaded, tpc,
                   messages>> /\ WatchRace

RecvStep == SetRemain \/ SetDefault \/ SetFlag \/ Disable

-----------------------------------------------------------------------------
(* The remote control thread, and the tunnel's own end.                    *)

Poll ==
    /\ tpc = "poll" /\ flag
    /\ tpc' = "open"
    /\ UNCHANGED <<remote, mpc, loaded, rpc, msg, messages>> /\ Same

Open ==
    /\ tpc = "open"
    /\ tunnel' = TRUE
    /\ tpc' = "wait"
    /\ UNCHANGED <<is_enable, enable_remain_time, flag, mpc, loaded, rpc, msg,
                   messages>> /\ Same

TunnelEnded ==
    /\ tpc = "wait" /\ ~tunnel
    /\ tpc' = "clear"
    /\ UNCHANGED <<remote, mpc, loaded, rpc, msg, messages>> /\ Same

ClearFlag ==
    /\ tpc = "clear"
    /\ flag' = FALSE
    /\ stale' = FALSE
    /\ tpc' = "poll"
    /\ UNCHANGED <<is_enable, enable_remain_time, tunnel, mpc, loaded, rpc,
                   msg, messages>> /\ WatchRace

TunnelExit ==
    /\ tunnel
    /\ tunnel' = FALSE
    /\ UNCHANGED <<is_enable, enable_remain_time, flag, mpc, loaded, rpc, msg,
                   tpc, messages>> /\ Same

RemoteStep == Poll \/ Open \/ TunnelEnded \/ ClearFlag

Next == MainStep \/ Receive \/ RecvStep \/ RemoteStep \/ TunnelExit

Spec == Init /\ [][Next]_vars

(* The three threads are scheduled and minutes pass.                       *)
FairSpec == Spec /\ WF_vars(MainStep) /\ WF_vars(RecvStep)
                 /\ WF_vars(RemoteStep)

-----------------------------------------------------------------------------
Quiet == mpc = "idle" /\ rpc = "recv" /\ ~raced

(* n minutes are some of those that a message may grant.                   *)
Granted(n) == \E g \in Minutes \cup {DefaultMinutes} : n \in 1..g

(* An enabled remote control has a running timer: minutes are left, and no *)
(* more than were granted, so the unsigned counter never wraps (lines      *)
(* 347-351 and 739-743).  Only a message handled during a minute tick can  *)
(* break this.                                                             *)
TimerArmed ==
    Quiet /\ is_enable => Granted(enable_remain_time)

(* A tunnel is open only while remote control is enabled, so that the      *)
(* timer will close it, unless a disabling came between an enable and the  *)
(* poll that acts on it (lines 493-496 and 745-748).                       *)
TunnelWatched == Quiet /\ tunnel /\ ~stale => is_enable

(* With no end of messages in sight nothing can be said; with finitely     *)
(* many, every tunnel is closed in the end, with the same two exceptions.  *)
TunnelCloses == tunnel ~> (~tunnel \/ stale \/ raced)
=============================================================================
