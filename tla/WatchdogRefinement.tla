------------------------- MODULE WatchdogRefinement -------------------------
(***************************************************************************)
(* Watchdog implements Supervision: the refinement mapping reads off each  *)
(* thread's place in the code what it is doing to which program, and hides *)
(* the counters, the clock, the reboots and the commands.                  *)
(***************************************************************************)
EXTENDS Watchdog

MainStage ==
    CASE mpc \in {"monitor_safe", "reboot", "status", "keepalive_load",
                  "keepalive_timeout"} -> "looked"
      [] mpc = "pidof"   -> "find"
      [] mpc = "kill"    -> "kill"
      [] mpc = "start"   -> "start"
      [] mpc = "account" -> "settle"
      [] OTHER           -> "idle"

RecvStage ==
    CASE rpc = "pidof" -> "find"
      [] rpc = "kill"  -> "kill"
      [] rpc = "start" -> "start"
      [] OTHER         -> "idle"

Job(t, s, p, n) ==
    [stage |-> s,
     prog  |-> IF s = "idle" THEN 0 ELSE p,
     pid   |-> IF s = "kill" THEN pid[t] ELSE NoPid,
     kind  |-> n]

MainJob ==
    Job("main", MainStage, i,
        IF why = "safe" /\ MainStage # "idle" THEN "safe" ELSE "restart")
RecvJob ==
    Job("recv", RecvStage, k,
        IF cmd = "CLOSE" /\ RecvStage # "idle" THEN "close" ELSE "restart")

Sup == INSTANCE Supervision WITH
    Programs  <- Programs,
    NoProgram <- 0,
    on        <- dameon_switch,
    asked     <- safe_restart,
    live      <- running,
    job       <- [t \in Threads |-> IF t = "main" THEN MainJob ELSE RecvJob],
    up        <- Alive

(* The two threads of yinkad do to the programs only what Supervision      *)
(* allows: whatever the counters, clocks and commands are, no program is   *)
(* killed or started outside a restart that its switch or a command        *)
(* called for (all of lines 208-447 and 571-684).                          *)
ImplementsSupervision == Sup!SSpec

(* They also do what Supervision owes.  A switched-on program that is not  *)
(* running is started again, unless its switch is turned off first or the  *)
(* daemon itself ends (lines 420-438, whatever the datagram thread, also   *)
(* one blocked for good, is doing).                                        *)
DeadProgramRestarted == Sup!Restored

(* A safe restart postponed because the program was busy is not forgotten  *)
(* while its switch is on (lines 597 and 405-410).                         *)
SafeRestartConsumed == Sup!Honoured
=============================================================================
