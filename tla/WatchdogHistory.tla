--------------------------- MODULE WatchdogHistory ---------------------------
(***************************************************************************)
(* Watchdog with history variables.  They record what the safety           *)
(* properties below speak of and constrain no step: HNext is Next together *)
(* with their update.                                                      *)
(***************************************************************************)
EXTENDS Watchdog

VARIABLES
    overlapped,  \* [p]: two restarts of p overlapped, and the surplus
                 \* instance that may come of it has not gone since
    late,        \* [p]: starts of p by the main thread since p's switch
                 \* was turned off
    missed       \* [p]: keepalive checks of p since a keepalive reset its
                 \* counter, or since its last timeout

history == <<overlapped, late, missed>>
hvars   == <<vars, history>>

(* Thread t is inside process_restart (or process_kill) of p.              *)
Restarting(t, p) ==
    \/ t = "main" /\ mpc \in {"pidof", "kill", "start"} /\ i = p
    \/ t = "recv" /\ rpc \in {"pidof", "kill", "start"} /\ k = p

Single(p) == \A x, y \in running[p] : x = y

(* The main thread has seen p's switch on, and may start p before it looks *)
(* at the switch again.                                                    *)
Committed(p) ==
    /\ i = p
    /\ mpc \in {"monitor_safe", "reboot", "status", "keepalive_load",
                "keepalive_timeout", "pidof", "kill", "start"}

OverlapNow(p) == Restarting("main", p) /\ Restarting("recv", p)

HistoryInit ==
    /\ overlapped = [p \in Programs |-> FALSE]
    /\ late = [p \in Programs |-> 0]
    /\ missed = [p \in Programs |-> 0]

HistoryNext ==
    /\ overlapped' = [p \in Programs |->
         \/ OverlapNow(p)'
         \/ overlapped[p] /\ (Restarting("main", p)' \/ Restarting("recv", p)'
                                \/ ~Single(p)')]
    /\ late' = [p \in Programs |->
         IF dameon_switch'[p] THEN 0
         ELSE IF i = p /\ mpc = "start" /\ mpc' \notin {"start", "down"}
                THEN Saturate(late[p], 2)
                ELSE late[p]]
    /\ missed' = [p \in Programs |->
         IF i = p /\ mpc = "keepalive_store" /\ mpc' # mpc /\ mpc' # "down"
           THEN Saturate(missed[p], MaxKeepalive + 1)
         ELSE IF keepalive_failed_times'[p] = 0
                 /\ ~(i = p /\ mpc = "keepalive_store")
           THEN 0
           ELSE missed[p]]

HInit == Init /\ HistoryInit
HNext == Next /\ HistoryNext
HSpec == HInit /\ [][HNext]_hvars

-----------------------------------------------------------------------------
(* process_restart never leaves a second instance of a program behind,     *)
(* unless restarts by both threads overlapped: pidof, kill and start of    *)
(* one thread alone keep the instances at one whenever the instance, the   *)
(* other thread's kill or an exit comes in between (lines 208-251).        *)
SingleInstance == \A p \in Programs : ~overlapped[p] => Single(p)

(* A command or reload that turns a program's switch off can be too late   *)
(* for the main thread, which looks at the switch once and then acts, but  *)
(* only once: it starts the program at most one more time (lines 318, 401).*)
LateRestartOnce == \A p \in Programs : late[p] <= 1

(* A program is restarted for keepalive timeout only after more than       *)
(* MaxKeepalive checks without a keepalive, even though an increment that  *)
(* races with the reset undoes it: such a keepalive counts as not received *)
(* (lines 321-327 and 692).                                                *)
TimeoutJustified ==
    [][(mpc # "keepalive_timeout" /\ mpc' = "keepalive_timeout")
          => missed[i] > MaxKeepalive]_hvars

(* The strengthenings that make the three inductive.                       *)
Undisturbed(p) ==
    /\ Single(p)
    /\ ~OverlapNow(p)
    /\ (i = p /\ mpc = "kill") => running[p] \subseteq {pid["main"]}
    /\ (i = p /\ mpc = "start") => running[p] = {}
    /\ (k = p /\ rpc = "kill") => running[p] \subseteq {pid["recv"]}
    /\ (k = p /\ rpc = "start") => running[p] = {}

RestartInv == \A p \in Programs : ~overlapped[p] => Undisturbed(p)

LateInv ==
    \A p \in Programs :
        /\ late[p] \in 0..1
        /\ Committed(p) => late[p] = 0
        /\ dameon_switch[p] => late[p] = 0

MissedInv ==
    /\ \A p \in Programs : /\ missed[p] \in 0..(MaxKeepalive + 1)
                           /\ keepalive_failed_times[p] <= missed[p]
    /\ mpc = "keepalive_store" => loaded <= missed[i]
=============================================================================
