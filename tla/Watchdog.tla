------------------------------ MODULE Watchdog ------------------------------
(***************************************************************************)
(* The supervision core of yinkad (src/src/yinkad/yinkad.c): the main loop *)
(* (process_monitor, process_keepalive, sleep) and the datagram thread     *)
(* (process_data_receive) keep the supervised programs running.  The two   *)
(* threads share g_daemon_config and g_prog_state_list without a lock, and *)
(* both restart programs by process_restart: pidof, kill, start.           *)
(*                                                                         *)
(* A step is one access to a shared variable or one blocking call; an      *)
(* access that only its own thread makes is merged with its neighbour.     *)
(* Left out: DAEMON_GETINFO and the fields only reported by it             *)
(* (reboot_times, memrate, version), and logging.  Input-device and remote *)
(* control, the datagram walk, start-up and shutdown have modules of their *)
(* own.                                                                    *)
(***************************************************************************)
EXTENDS Naturals

CONSTANTS
    NumPrograms,      \* MAX_DAMEON_PROGRAMS_NUMS (2 in yinkad.h)
    MaxKeepalive,     \* MAX_KEEPALIVE_FAILED_TIMES (10)
    MaxRebootFailed,  \* MAX_REBOOT_FAILED_TIMES (6)
    Delay,            \* the delay of yinkad.conf, in ticks of the clock
    Commands,         \* the control commands that may arrive
    Reports,          \* the states a program's keepalive may report
    Faults,           \* what the environment may do
    Pids,             \* the process ids an instance of a program may get
    NoPid             \* the -1 of process_kill: pidof found nothing

ASSUME WatchdogAssumption ==
    /\ NumPrograms \in Nat \ {0}
    /\ MaxKeepalive \in Nat
    /\ MaxRebootFailed \in Nat \ {0}
    /\ Delay \in Nat \ {0}
    /\ Commands \subseteq {"ON", "OFF", "SAFE", "FORCE", "CLOSE"}
    /\ Reports \subseteq {"idle", "busy"}
    /\ Faults \subseteq {"exit", "reload", "receive_error"}
    /\ Pids # {}
    /\ NoPid \notin Pids

VARIABLES
    dameon_switch,           \* prog_list[p].dameon_switch
    safe_restart,            \* prog_list[p].safe_restart
    state,                   \* IS_IDLE or IS_BUSY, as last reported by p
    keepalive_failed_times,
    reboot_failed_times,     \* only compared with its limit: saturates there
    elapsed,                 \* time(NULL) - uptime, saturates at Delay + 1
    mpc, i, why, loaded,     \* main thread: counter, loop index, the branch
                             \* that restarts, register of line 327
    slept,                   \* ticks since sleep(delay) began
    rpc, cmd, k, all,        \* datagram thread: counter, command, program,
                             \* whether it loops over all the programs
    running,                 \* the live instances of each program
    pid,                     \* the pid each thread holds
    rebooting                \* shutdown -r was run

config  == <<dameon_switch, safe_restart>>
stats   == <<state, keepalive_failed_times, reboot_failed_times, elapsed>>
mainvars == <<mpc, i, why, loaded, slept>>
recvvars == <<rpc, cmd, k, all>>
world   == <<running, pid, rebooting>>
vars    == <<config, stats, mainvars, recvvars, world>>

Programs == 1..NumPrograms
PRINT    == 1                    \* YINKA_PRINT, the autoprint program
Threads  == {"main", "recv"}

MainPC == {"monitor_switch", "monitor_safe", "reboot", "status", "mem_pid",
           "mem", "account", "keepalive_switch", "keepalive_load",
           "keepalive_store", "keepalive_timeout", "pidof", "kill", "start",
           "sleep", "crashed", "down"}
RecvPC == {"recv", "exec", "ask", "reply", "pidof", "kill", "start", "exited"}

TypeOK ==
    /\ dameon_switch \in [Programs -> BOOLEAN]
    /\ safe_restart \in [Programs -> BOOLEAN]
    /\ state \in [Programs -> {"idle", "busy"}]
    /\ keepalive_failed_times \in [Programs -> 0..(MaxKeepalive + 1)]
    /\ reboot_failed_times \in [Programs -> 0..MaxRebootFailed]
    /\ elapsed \in [Programs -> 0..(Delay + 1)]
    /\ mpc \in MainPC
    /\ i \in Programs
    /\ why \in {"none", "safe", "dead", "timeout"}
    /\ loaded \in 0..MaxKeepalive
    /\ slept \in 0..Delay
    /\ rpc \in RecvPC
    /\ cmd \in Commands \cup {"none"}
    /\ k \in Programs
    /\ all \in BOOLEAN
    /\ running \in [Programs -> SUBSET Pids]
    /\ pid \in [Threads -> Pids \cup {NoPid}]
    /\ rebooting \in BOOLEAN

(* At line 864: the switches come from the configuration file, the         *)
(* statistics are zero, and each program may have been started already,    *)
(* once, by the desktop session.                                           *)
Init ==
    /\ dameon_switch \in [Programs -> BOOLEAN]
    /\ safe_restart = [p \in Programs |-> FALSE]
    /\ state = [p \in Programs |-> "idle"]
    /\ keepalive_failed_times = [p \in Programs |-> 0]
    /\ reboot_failed_times = [p \in Programs |-> 0]
    /\ elapsed = [p \in Programs |-> Delay + 1]
    /\ mpc = "monitor_switch" /\ i = 1 /\ why = "none" /\ loaded = 0
    /\ slept = 0
    /\ rpc = "recv" /\ cmd = "none" /\ k = 1 /\ all = FALSE
    /\ running \in [Programs -> {{}} \cup {{x} : x \in Pids}]
    /\ pid = [t \in Threads |-> NoPid]
    /\ rebooting = FALSE

-----------------------------------------------------------------------------
(* process_restart and process_kill, used by both threads: three steps,    *)
(* because pidof, kill and the command line are separate child processes.  *)

Saturate(n, limit) == IF n < limit THEN n + 1 ELSE limit

(* pidof p prints some live instance, or nothing and pid stays -1.         *)
Pidof(t, p) ==
    /\ pid' \in {[pid EXCEPT ![t] = x] :
                    x \in IF running[p] = {} THEN {NoPid} ELSE running[p]}
    /\ UNCHANGED <<running, rebooting>>

(* Deliberately wrong variant: the signal is never sent.                   *)
KillNothing(t, p) ==
    /\ pid' = [pid EXCEPT ![t] = NoPid]
    /\ UNCHANGED <<running, rebooting>>

(* kill <pid>: ends that instance if it still lives; kill -1 fails.        *)
Kill(t, p) ==
    /\ running' = [running EXCEPT ![p] = @ \ {pid[t]}]
    /\ pid' = [pid EXCEPT ![t] = NoPid]
    /\ UNCHANGED rebooting

(* Deliberately wrong variant: the command line is not executed.           *)
StartNothing(p) == UNCHANGED world

(* system(cmdline): the command ends in "&", so it returns at once with    *)
(* one more instance alive (an instance that fails to start is an Exit).   *)
(* Pids bounds the instances: with no free pid nothing starts.             *)
Start(p) ==
    LET Free == Pids \ (running[p] \cup {pid[t] : t \in Threads})
    IN  /\ \/ \E x \in Free : running' = [running EXCEPT ![p] = @ \cup {x}]
           \/ Free = {} /\ UNCHANGED running
        /\ UNCHANGED <<pid, rebooting>>

-----------------------------------------------------------------------------
(* The main thread.                                                        *)

(* The for loops of process_monitor and process_keepalive.                 *)
MonitorNext ==
    /\ mpc' = IF i < NumPrograms THEN "monitor_switch" ELSE "keepalive_switch"
    /\ i' = IF i < NumPrograms THEN i + 1 ELSE 1

KeepaliveNext ==
    /\ mpc' = IF i < NumPrograms THEN "keepalive_switch" ELSE "sleep"
    /\ i' = IF i < NumPrograms THEN i + 1 ELSE 1

MainGoto(l) == mpc' = l /\ UNCHANGED i

(* Deliberately wrong variant: the switch is not looked at.                *)
IgnoreSwitch(p) == TRUE

SwitchedOn(p) == dameon_switch[p]

MonitorSwitch ==
    /\ mpc = "monitor_switch"
    /\ IF SwitchedOn(i) THEN MainGoto("monitor_safe") ELSE MonitorNext
    /\ UNCHANGED <<config, stats, why, loaded, slept, recvvars, world>>

MonitorSafe ==
    /\ mpc = "monitor_safe"
    /\ IF safe_restart[i]
         THEN MainGoto("pidof") /\ why' = "safe"
         ELSE /\ MainGoto(IF MaxRebootFailed <= reboot_failed_times[i]
                            THEN "reboot" ELSE "status")
              /\ UNCHANGED why
    /\ UNCHANGED <<config, stats, loaded, slept, recvvars, world>>

(* shutdown -r returns; the loop goes on until the machine is down.        *)
Reboot ==
    /\ mpc = "reboot"
    /\ rebooting' = TRUE
    /\ MainGoto("status")
    /\ UNCHANGED <<config, stats, why, loaded, slept, recvvars, running, pid>>

Status ==
    /\ mpc = "status"
    /\ IF running[i] # {}
         THEN MainGoto("mem_pid") /\ UNCHANGED why
         ELSE MainGoto("pidof") /\ why' = "dead"
    /\ UNCHANGED <<config, stats, loaded, slept, recvvars, world>>

MemPid ==
    /\ mpc = "mem_pid"
    /\ Pidof("main", i)
    /\ IF running[i] # {} THEN MainGoto("mem") ELSE MonitorNext
    /\ UNCHANGED <<config, stats, why, loaded, slept, recvvars>>

(* process_phy_mem_get reads /proc/<pid>/status through a FILE pointer it  *)
(* does not check: NULL when the instance has exited since pidof.          *)
Mem ==
    /\ mpc = "mem"
    /\ IF pid["main"] \in running[i] THEN MonitorNext ELSE MainGoto("crashed")
    /\ pid' = [pid EXCEPT !["main"] = NoPid]
    /\ UNCHANGED <<config, stats, why, loaded, slept, recvvars, running,
                   rebooting>>

MainPidof ==
    /\ mpc = "pidof"
    /\ Pidof("main", i)
    /\ MainGoto("kill")
    /\ UNCHANGED <<config, stats, why, loaded, slept, recvvars>>

MainKill ==
    /\ mpc = "kill"
    /\ Kill("main", i)
    /\ MainGoto("start")
    /\ UNCHANGED <<config, stats, why, loaded, slept, recvvars>>

MainStart ==
    /\ mpc = "start"
    /\ Start(i)
    /\ IF why = "timeout"
         THEN KeepaliveNext /\ why' = "none"
         ELSE MainGoto("account") /\ UNCHANGED why
    /\ UNCHANGED <<config, stats, loaded, slept, recvvars>>

(* Deliberately wrong variant: the request stays pending.                  *)
KeepRequest(p) == UNCHANGED safe_restart

ClearRequest(p) == safe_restart' = [safe_restart EXCEPT ![p] = FALSE]

(* A restart of a dead program counts as failed only when it comes exactly *)
(* Delay after the previous one (line 440).                                *)
Account ==
    /\ mpc = "account"
    /\ IF why = "safe"
         THEN ClearRequest(i) /\ UNCHANGED reboot_failed_times
         ELSE /\ UNCHANGED safe_restart
              /\ reboot_failed_times' =
                   IF elapsed[i] = Delay
                     THEN [reboot_failed_times EXCEPT
                             ![i] = Saturate(@, MaxRebootFailed)]
                     ELSE reboot_failed_times
    /\ elapsed' = [elapsed EXCEPT ![i] = 0]
    /\ why' = "none"
    /\ MonitorNext
    /\ UNCHANGED <<dameon_switch, state, keepalive_failed_times, loaded,
                   slept, recvvars, world>>

KeepaliveSwitch ==
    /\ mpc = "keepalive_switch"
    /\ IF SwitchedOn(i) THEN MainGoto("keepalive_load") ELSE KeepaliveNext
    /\ UNCHANGED <<config, stats, why, loaded, slept, recvvars, world>>

(* Deliberately wrong variants: one check too early; never.                *)
ExpiredEarly(n) == MaxKeepalive <= n
NeverExpired(n) == n < 0

KeepaliveExpired(n) == MaxKeepalive < n

(* The comparison and, when it fails, the load of the increment.           *)
KeepaliveLoad ==
    /\ mpc = "keepalive_load"
    /\ IF KeepaliveExpired(keepalive_failed_times[i])
         THEN MainGoto("keepalive_timeout") /\ UNCHANGED loaded
         ELSE /\ MainGoto("keepalive_store")
              /\ loaded' = keepalive_failed_times[i]
    /\ UNCHANGED <<config, stats, why, slept, recvvars, world>>

(* keepalive_failed_times++ is not atomic: the datagram thread may have    *)
(* reset the counter since it was loaded.                                  *)
KeepaliveStore ==
    /\ mpc = "keepalive_store"
    /\ keepalive_failed_times' =
         [keepalive_failed_times EXCEPT ![i] = loaded + 1]
    /\ loaded' = 0
    /\ KeepaliveNext
    /\ UNCHANGED <<config, state, reboot_failed_times, elapsed, why, slept,
                   recvvars, world>>

(* Deliberately wrong variant: the restart after the reset is missing.     *)
TimeoutNoRestart ==
    /\ mpc = "keepalive_timeout"
    /\ keepalive_failed_times' = [keepalive_failed_times EXCEPT ![i] = 0]
    /\ KeepaliveNext
    /\ UNCHANGED <<config, state, reboot_failed_times, elapsed, why, loaded,
                   slept, recvvars, world>>

(* The counter is reset, then the program restarted.                       *)
KeepaliveTimeout ==
    /\ mpc = "keepalive_timeout"
    /\ keepalive_failed_times' = [keepalive_failed_times EXCEPT ![i] = 0]
    /\ why' = "timeout"
    /\ MainGoto("pidof")
    /\ UNCHANGED <<config, state, reboot_failed_times, elapsed, loaded, slept,
                   recvvars, world>>

(* sleep(delay) is over.  The minute counters driven from here belong to   *)
(* RemoteControl and XinputGate.                                           *)
Wake ==
    /\ mpc = "sleep" /\ slept = Delay
    /\ MainGoto("monitor_switch")
    /\ slept' = 0
    /\ UNCHANGED <<config, stats, why, loaded, recvvars, world>>

MainStep ==
    \/ MonitorSwitch \/ MonitorSafe \/ Reboot \/ Status \/ MemPid \/ Mem
    \/ MainPidof \/ MainKill \/ MainStart \/ Account
    \/ KeepaliveSwitch \/ KeepaliveLoad \/ KeepaliveStore \/ KeepaliveTimeout
    \/ Wake

-----------------------------------------------------------------------------
(* The datagram thread.  It lives as long as the process does.             *)

Alive == mpc \notin {"crashed", "down"}

(* A datagram can be lost, repeated or overtaken: any one may come next.   *)
RecvCommand(c, p) ==
    /\ Alive /\ rpc = "recv"
    /\ rpc' = "exec" /\ cmd' = c /\ k' = p /\ all' = FALSE
    /\ UNCHANGED <<config, stats, mainvars, world>>

(* YINKA_ALL: a loop over the programs; DAEMON_CLOSE is invalid there.     *)
RecvAll(c) ==
    /\ Alive /\ rpc = "recv"
    /\ c # "CLOSE"
    /\ rpc' = "exec" /\ cmd' = c /\ k' = 1 /\ all' = TRUE
    /\ UNCHANGED <<config, stats, mainvars, world>>

(* TYPE_KEEPALIVE: the program reports that it lives, and how busy it is.  *)
Keepalive(p, s) ==
    /\ Alive /\ rpc = "recv"
    /\ keepalive_failed_times' = [keepalive_failed_times EXCEPT ![p] = 0]
    /\ state' = [state EXCEPT ![p] = s]
    /\ UNCHANGED <<config, reboot_failed_times, elapsed, mainvars, recvvars,
                   world>>

(* An empty datagram or a receive error leaves the loop for good.          *)
ReceiveError ==
    /\ "receive_error" \in Faults
    /\ Alive /\ rpc = "recv"
    /\ rpc' = "exited"
    /\ UNCHANGED <<config, stats, mainvars, cmd, k, all, world>>

RecvGoto(l) == rpc' = l /\ UNCHANGED <<cmd, k, all>>

(* The command is done for program k: the next program, or recvfrom.       *)
Done ==
    IF all /\ k < NumPrograms
      THEN rpc' = "exec" /\ k' = k + 1 /\ UNCHANGED <<cmd, all>>
      ELSE rpc' = "recv" /\ cmd' = "none" /\ k' = 1 /\ all' = FALSE

SetSwitch(p, on) == dameon_switch' = [dameon_switch EXCEPT ![p] = on]

ExecSwitch ==
    /\ Alive /\ rpc = "exec" /\ cmd \in {"ON", "OFF"}
    /\ SetSwitch(k, cmd = "ON")
    /\ Done
    /\ UNCHANGED <<safe_restart, stats, mainvars, world>>

ExecSafeBusy ==
    /\ Alive /\ rpc = "exec" /\ cmd = "SAFE" /\ state[k] = "busy"
    /\ safe_restart' = [safe_restart EXCEPT ![k] = TRUE]
    /\ Done
    /\ UNCHANGED <<dameon_switch, stats, mainvars, world>>

(* An idle program: autoprint addressed alone is asked to update itself,   *)
(* any other is restarted at once.                                         *)
ExecSafeIdle ==
    /\ Alive /\ rpc = "exec" /\ cmd = "SAFE" /\ state[k] = "idle"
    /\ RecvGoto(IF k = PRINT /\ ~all THEN "ask" ELSE "pidof")
    /\ UNCHANGED <<config, stats, mainvars, world>>

(* Only a command to a single program also sets its switch.                *)
ExecForce ==
    /\ Alive /\ rpc = "exec" /\ cmd = "FORCE"
    /\ IF all THEN UNCHANGED dameon_switch ELSE SetSwitch(k, TRUE)
    /\ RecvGoto("pidof")
    /\ UNCHANGED <<safe_restart, stats, mainvars, world>>

ExecClose ==
    /\ Alive /\ rpc = "exec" /\ cmd = "CLOSE"
    /\ SetSwitch(k, FALSE)
    /\ RecvGoto("pidof")
    /\ UNCHANGED <<safe_restart, stats, mainvars, world>>

(* sendto_yinka_autoprint_cmd: connect succeeds only to a live instance.   *)
AskConnected ==
    /\ Alive /\ rpc = "ask"
    /\ running[k] # {} /\ Pidof("recv", k)
    /\ RecvGoto("reply")
    /\ UNCHANGED <<config, stats, mainvars>>

AskRefused ==
    /\ Alive /\ rpc = "ask"
    /\ Done
    /\ UNCHANGED <<config, stats, mainvars, world>>

HangUp ==
    /\ pid' = [pid EXCEPT !["recv"] = NoPid]
    /\ Done
    /\ UNCHANGED <<config, stats, mainvars, running, rebooting>>

(* read() without a timeout: ended by autoprint's answer ...               *)
AutoprintReply ==
    /\ Alive /\ rpc = "reply" /\ pid["recv"] \in running[k]
    /\ HangUp

(* ... or by the end of the instance that holds the connection.            *)
ConnectionLost ==
    /\ Alive /\ rpc = "reply" /\ pid["recv"] \notin running[k]
    /\ HangUp

RecvPidof ==
    /\ Alive /\ rpc = "pidof"
    /\ Pidof("recv", k)
    /\ RecvGoto("kill")
    /\ UNCHANGED <<config, stats, mainvars>>

RecvKill ==
    /\ Alive /\ rpc = "kill"
    /\ Kill("recv", k)
    /\ IF cmd = "CLOSE" THEN Done ELSE RecvGoto("start")
    /\ UNCHANGED <<config, stats, mainvars>>

(* The start, and uptime = time(NULL).                                     *)
RecvStart ==
    /\ Alive /\ rpc = "start"
    /\ Start(k)
    /\ elapsed' = [elapsed EXCEPT ![k] = 0]
    /\ Done
    /\ UNCHANGED <<config, state, keepalive_failed_times, reboot_failed_times,
                   mainvars>>

RecvStep ==
    \/ ExecSwitch \/ ExecSafeBusy \/ ExecSafeIdle \/ ExecForce \/ ExecClose
    \/ AskConnected \/ AskRefused \/ ConnectionLost
    \/ RecvPidof \/ RecvKill \/ RecvStart

Message ==
    \/ \E c \in Commands : RecvAll(c) \/ \E p \in Programs : RecvCommand(c, p)
    \/ \E p \in Programs, s \in Reports : Keepalive(p, s)

-----------------------------------------------------------------------------
(* The environment.                                                        *)

Exit ==
    /\ "exit" \in Faults
    /\ \E p \in Programs : \E x \in running[p] :
         running' = [running EXCEPT ![p] = @ \ {x}]
    /\ UNCHANGED <<config, stats, mainvars, recvvars, pid, rebooting>>

Tick ==
    /\ Alive
    /\ elapsed' = [p \in Programs |-> Saturate(elapsed[p], Delay + 1)]
    /\ slept' = IF mpc = "sleep" THEN Saturate(slept, Delay) ELSE slept
    /\ UNCHANGED <<config, state, keepalive_failed_times, reboot_failed_times,
                   mpc, i, why, loaded, recvvars, world>>

(* SIGHUP runs read_conf_file in the main thread: the switches of the file *)
(* replace the ones set by commands, and a sleep ends early.               *)
Reload ==
    /\ "reload" \in Faults
    /\ Alive
    /\ dameon_switch' \in [Programs -> BOOLEAN]
    /\ slept' = IF mpc = "sleep" THEN Delay ELSE slept
    /\ UNCHANGED <<safe_restart, stats, mpc, i, why, loaded, recvvars, world>>

(* shutdown -r takes the machine down.  yinkad keeps nothing across it:    *)
(* the next boot is another behaviour that begins in Init.                 *)
PowerDown ==
    /\ Alive /\ rebooting
    /\ mpc' = "down"
    /\ running' = [p \in Programs |-> {}]
    /\ UNCHANGED <<config, stats, i, why, loaded, slept, recvvars, pid,
                   rebooting>>

Next ==
    \/ MainStep \/ RecvStep
    \/ Message \/ ReceiveError \/ AutoprintReply
    \/ Exit \/ Tick \/ Reload \/ PowerDown

Spec == Init /\ [][Next]_vars

(* Both threads are always scheduled and time passes; nothing is promised  *)
(* of messages, of autoprint's answer or of the programs.                  *)
FairSpec ==
    /\ Spec
    /\ WF_vars(MainStep) /\ WF_vars(RecvStep) /\ WF_vars(Tick)

-----------------------------------------------------------------------------
(* The datagram thread waits without a timeout for autoprint (line 381).   *)
(* A watched autoprint that never answers does not block it for good: its  *)
(* keepalives go unread meanwhile, so the main thread restarts it and the  *)
(* connection breaks.  With two instances pidof may name the wrong one.    *)
ReceiverUnblocked ==
    (rpc = "reply" /\ dameon_switch[PRINT])
        ~> \/ rpc # "reply" \/ ~dameon_switch[PRINT] \/ ~Alive
           \/ \E x, y \in running[PRINT] : x # y

-----------------------------------------------------------------------------
(* Statements of the source that the code does not keep (see README.md).   *)

(* "Never ending loop of server" (line 863): the daemon does not crash.    *)
NeverEndingLoop == mpc # "crashed"
=============================================================================
