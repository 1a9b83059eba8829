----------------------------- MODULE Lifecycle ------------------------------
(***************************************************************************)
(* The life of the yinkad process (yinkad.c, lines 61-152, 769-898): the   *)
(* start-up of main, its loop, the handlers of SIGINT and SIGHUP, which    *)
(* interrupt main anywhere, and the frees of shutdown; beside them the     *)
(* datagram thread, which runs from the middle of start-up to the exit and *)
(* uses the names and command lines of g_daemon_config, and the thread     *)
(* that keeps the tunnel of remote control open.                           *)
(*                                                                         *)
(* All three run child processes with system(), which ignores SIGINT for   *)
(* the whole process while a child runs, and puts back what was set before *)
(* when the last one has ended.                                            *)
(*                                                                         *)
(* One program stands for all.  A string is the number of the load that    *)
(* allocated it; the command line behaves like the name.                   *)
(***************************************************************************)
EXTENDS Naturals

CONSTANTS
    Signals,   \* the signals that may arrive
    MaxLoads   \* bound of the model: times the configuration is read

ASSUME LifecycleAssumption ==
    /\ Signals \subseteq {"int", "hup"}
    /\ MaxLoads \in Nat \ {0}

VARIABLES
    pc,        \* main
    hup,       \* the handler of SIGHUP: its place in read_conf_file
    int,       \* the handler of SIGINT: "below" under that of SIGHUP
    rpc,       \* the datagram thread
    held,      \* the string it has read from g_daemon_config
    tunnel,    \* the thread of remote control
    running,   \* the flag of the loop
    sigint,    \* what SIGINT does
    saved,     \* what system() has saved of it
    busy,      \* the threads that wait for a child in system()
    caught,    \* SIGHUP has a handler
    path,      \* conf_file_name
    name,      \* prog_list[].program_name; 0 is NULL
    config,    \* g_daemon_config
    loads,     \* strings allocated so far
    freed,     \* strings freed
    told,      \* history: SIGINT has come in the loop, and no child ran
    named      \* history: start-up or a reload has stored a name

vars == <<pc, hup, int, rpc, held, tunnel, running, sigint, saved, busy,
          caught, path, name, config, loads, freed, told, named>>

NULL == 0

Boot     == {"socket", "handlers", "xinput", "denying", "remote",
             "open", "store", "running"}
Loop     == {"test", "pass", "child", "sleep"}
Shutdown == {"free_path", "free_name", "null_name", "free_config",
             "null_config", "exit"}
Over     == {"exited", "killed", "crashed"}
Allocating == {"open", "store", "pass", "free_path", "free_name",
               "free_config"}
Actions  == {"default", "handler", "ignore"}
Threads  == {"main", "recv", "remote"}
Holding  == {"held", "kill", "killed"}

Alive == pc \notin Over

TypeOK ==
    /\ pc \in Boot \cup Loop \cup Shutdown \cup Over
    /\ hup \in {"no", "open", "store", "stuck"}
    /\ int \in {"no", "reset", "below"}
    /\ rpc \in {"none", "recv", "start"} \cup Holding
    /\ tunnel \in {"none", "poll", "open"}
    /\ sigint \in Actions /\ saved \in Actions
    /\ busy \subseteq Threads
    /\ running \in BOOLEAN /\ caught \in BOOLEAN
    /\ path \in {"null", "ok", "freed"}
    /\ config \in {"ok", "freed", "null"}
    /\ loads \in 0..MaxLoads
    /\ name \in 0..loads /\ held \in 0..loads
    /\ freed \subseteq 1..loads
    /\ told \in BOOLEAN /\ named \in BOOLEAN

Init ==
    /\ pc = "socket" /\ hup = "no" /\ int = "no"
    /\ rpc = "none" /\ held = NULL /\ tunnel = "none"
    /\ running = FALSE /\ caught = FALSE
    /\ sigint = "default" /\ saved = "default" /\ busy = {}
    /\ path = "null" /\ name = NULL /\ config = "ok"
    /\ loads = 0 /\ freed = {}
    /\ told = FALSE /\ named = FALSE

strings  == <<path, name, config, loads, freed, named>>
threads  == <<rpc, held, tunnel>>
children == <<sigint, saved, busy>>
flags    == <<running, caught, told>>

(* system(): the first child to run saves and ignores SIGINT for all, the  *)
(* last to end puts it back.                                               *)
Enter(t) ==
    /\ busy' = busy \cup {t}
    /\ IF busy = {}
         THEN saved' = sigint /\ sigint' = "ignore"
         ELSE UNCHANGED <<saved, sigint>>

Leave(t) ==
    /\ busy' = busy \ {t}
    /\ sigint' = IF busy' = {} THEN saved ELSE sigint
    /\ UNCHANGED saved

-----------------------------------------------------------------------------
(* main, while no handler has interrupted it.                              *)

At(l) == pc = l /\ hup = "no" /\ int = "no"

Goto(l) == pc' = l /\ UNCHANGED <<hup, int>>

(* yinka_daemon_server_init starts the datagram thread, or exits.          *)
CreateThread ==
    /\ At("socket")
    /\ \/ rpc' = "recv" /\ Goto("handlers")
       \/ UNCHANGED rpc /\ Goto("exited")
    /\ UNCHANGED <<held, tunnel, children, flags, strings>>

SetHandlers ==
    /\ At("handlers")
    /\ sigint' = "handler" /\ caught' = TRUE
    /\ Goto("xinput")
    /\ UNCHANGED <<saved, busy, running, told, threads, strings>>

DenyInput ==
    /\ \/ At("xinput") /\ Enter("main") /\ Goto("denying")
       \/ At("denying") /\ Leave("main") /\ Goto("remote")
    /\ UNCHANGED <<threads, flags, strings>>

CreateRemote ==
    /\ At("remote")
    /\ tunnel' = "poll"
    /\ Goto("open")
    /\ UNCHANGED <<rpc, held, children, flags, strings>>

(* Deliberately wrong variant: the old string is freed first.              *)
StoreFreeing ==
    /\ loads' = loads + 1 /\ name' = loads' /\ named' = TRUE
    /\ freed' = freed \cup ({name} \ {NULL})

(* strdup replaces the pointer; the old string is neither freed nor kept.  *)
StoreName ==
    /\ loads' = loads + 1 /\ name' = loads' /\ named' = TRUE
    /\ UNCHANGED freed

(* read_conf_file: the file or the name in it may be missing.              *)
SetPath ==
    /\ path' = IF path = "null" THEN "ok" ELSE path
    /\ UNCHANGED <<name, config, loads, freed, named>>

OpenConfig ==
    /\ At("open")
    /\ SetPath
    /\ Goto("store") \/ Goto("running")
    /\ UNCHANGED <<threads, children, flags>>

StoreConfig ==
    /\ At("store")
    /\ loads < MaxLoads
    /\ StoreName
    /\ Goto("running")
    /\ UNCHANGED <<path, config, threads, children, flags>>

SetRunning ==
    /\ At("running")
    /\ running' = TRUE
    /\ Goto("test")
    /\ UNCHANGED <<caught, told, threads, children, strings>>

(* Deliberately wrong variant: the flag is not looked at again.            *)
TestNothing ==
    /\ At("test")
    /\ Goto("pass")
    /\ UNCHANGED <<threads, children, flags, strings>>

TestRunning ==
    /\ At("test")
    /\ Goto(IF running THEN "pass" ELSE "free_path")
    /\ UNCHANGED <<threads, children, flags, strings>>

(* What a pass does is Watchdog; here it may wait for a child.             *)
Pass ==
    /\ \/ At("pass") /\ Enter("main") /\ Goto("child")
       \/ At("child") /\ Leave("main") /\ Goto("sleep")
       \/ At("pass") /\ Goto("sleep") /\ UNCHANGED children
       \/ At("sleep") /\ Goto("test") /\ UNCHANGED children
    /\ UNCHANGED <<threads, flags, strings>>

-----------------------------------------------------------------------------
(* The end of main: the path is freed; for the strings and the structure   *)
(* free, then NULL; exit ends the other threads.                           *)

FreePath ==
    /\ At("free_path")
    /\ path' = IF path = "null" THEN path ELSE "freed"
    /\ Goto("free_name")
    /\ UNCHANGED <<name, config, loads, freed, named>>
    /\ UNCHANGED <<threads, children, flags>>

FreeName ==
    /\ At("free_name")
    /\ freed' = freed \cup ({name} \ {NULL})
    /\ Goto("null_name")
    /\ UNCHANGED <<path, name, config, loads, named>>
    /\ UNCHANGED <<threads, children, flags>>

NullName ==
    /\ At("null_name")
    /\ name' = NULL
    /\ Goto("free_config")
    /\ UNCHANGED <<path, config, loads, freed, named>>
    /\ UNCHANGED <<threads, children, flags>>

FreeConfig ==
    /\ \/ At("free_config") /\ config' = "freed" /\ Goto("null_config")
       \/ At("null_config") /\ config' = "null" /\ Goto("exit")
    /\ UNCHANGED <<path, name, loads, freed, named>>
    /\ UNCHANGED <<threads, children, flags>>

ExitProcess ==
    /\ At("exit")
    /\ Goto("exited")
    /\ UNCHANGED <<threads, children, flags, strings>>

MainStep ==
    \/ CreateThread \/ SetHandlers \/ DenyInput \/ CreateRemote
    \/ OpenConfig \/ StoreConfig \/ SetRunning \/ TestRunning \/ Pass
    \/ FreePath \/ FreeName \/ NullName \/ FreeConfig \/ ExitProcess

-----------------------------------------------------------------------------
(* Signals.  They are handled in the main thread, on top of what it does,  *)
(* each once at a time.                                                    *)

(* SIGINT is discarded, handled or deadly.                                 *)
Interrupt ==
    /\ "int" \in Signals /\ Alive /\ int = "no"
    /\ told' = (told \/ (running /\ busy = {}))
    /\ \/ sigint = "ignore" /\ UNCHANGED <<pc, int, running>>
       \/ sigint = "handler" /\ int' = "reset" /\ running' = FALSE
          /\ UNCHANGED pc
       \/ sigint = "default" /\ pc' = "killed" /\ UNCHANGED <<int, running>>
    /\ UNCHANGED <<hup, caught, threads, children, strings>>

(* Between its two steps another thread may have begun a child, and takes  *)
(* the reset back when that ends.                                          *)
InterruptReset ==
    /\ Alive /\ int = "reset"
    /\ sigint' = "default"
    /\ int' = "no"
    /\ UNCHANGED <<pc, hup, saved, busy, threads, flags, strings>>

(* The handler allocates: it waits for ever if it has interrupted main in  *)
(* malloc or free.                                                         *)
Hangup ==
    /\ "hup" \in Signals /\ Alive /\ hup = "no"
    /\ loads < MaxLoads
    /\ IF caught
         THEN /\ hup' \in {"open"} \cup
                   (IF pc \in Allocating THEN {"stuck"} ELSE {})
              /\ int' = IF int = "reset" THEN "below" ELSE int
              /\ UNCHANGED pc
         ELSE pc' = "killed" /\ UNCHANGED <<hup, int>>
    /\ UNCHANGED <<threads, children, flags, strings>>

Deadlocked == hup = "stuck"

AtHup(l) == Alive /\ hup = l /\ int # "reset"

HupReturns ==
    hup' = "no" /\ int' = IF int = "below" THEN "reset" ELSE int

(* A path that is freed already is read regardless, with any outcome.      *)
HupOpens ==
    \/ hup' = "store" /\ UNCHANGED <<pc, int>>
    \/ HupReturns /\ UNCHANGED pc
    \/ path = "freed" /\ pc' = "crashed" /\ UNCHANGED <<hup, int>>

(* Deliberately wrong variant: the reload begins with an empty structure.  *)
ReloadOpenCleared ==
    /\ AtHup("open")
    /\ HupOpens
    /\ name' = NULL
    /\ UNCHANGED <<path, config, loads, freed, named>>
    /\ UNCHANGED <<threads, children, flags>>

ReloadOpen ==
    /\ AtHup("open")
    /\ HupOpens
    /\ SetPath
    /\ UNCHANGED <<threads, children, flags>>

(* A structure that is freed already is written to regardless.             *)
ReloadStore ==
    /\ AtHup("store")
    /\ \/ config = "null" /\ pc' = "crashed" /\ UNCHANGED <<hup, int, strings>>
       \/ config # "null" /\ loads < MaxLoads /\ StoreName
          /\ HupReturns /\ UNCHANGED <<pc, path, config>>
    /\ UNCHANGED <<threads, children, flags>>

-----------------------------------------------------------------------------
(* The datagram thread: a command that restarts the program.               *)

main == <<pc, hup, int, flags, strings>>

(* It reads the pointers out of the structure; if that is freed already,   *)
(* with any outcome.                                                       *)
TakeName ==
    /\ Alive /\ rpc = "recv"
    /\ \/ config # "null" /\ held' = name /\ rpc' = "held" /\ UNCHANGED pc
       \/ config # "ok" /\ pc' = "crashed" /\ UNCHANGED <<rpc, held>>
    /\ UNCHANGED <<hup, int, tunnel, children, flags, strings>>

(* process_kill: there may be nothing to kill.                             *)
KillProgram ==
    /\ Alive
    /\ \/ rpc = "held" /\ Enter("recv") /\ rpc' = "kill"
       \/ rpc = "kill" /\ Leave("recv") /\ rpc' = "killed"
       \/ rpc = "held" /\ rpc' = "killed" /\ UNCHANGED children
    /\ UNCHANGED <<held, tunnel, main>>

(* The command line goes to system, which takes NULL, too.                 *)
StartProgram ==
    /\ Alive
    /\ \/ rpc = "killed" /\ held # NULL /\ Enter("recv") /\ rpc' = "start"
       \/ rpc = "killed" /\ held = NULL /\ rpc' = "recv" /\ UNCHANGED children
       \/ rpc = "start" /\ Leave("recv") /\ rpc' = "recv"
    /\ held' = NULL
    /\ UNCHANGED <<tunnel, main>>

(* The tunnel is a child, too, for as long as it is open.                  *)
Tunnel ==
    /\ Alive
    /\ \/ tunnel = "poll" /\ Enter("remote") /\ tunnel' = "open"
       \/ tunnel = "open" /\ Leave("remote") /\ tunnel' = "poll"
    /\ UNCHANGED <<rpc, held, main>>

Next ==
    \/ MainStep
    \/ Interrupt \/ InterruptReset \/ Hangup \/ ReloadOpen \/ ReloadStore
    \/ TakeName \/ KillProgram \/ StartProgram \/ Tunnel

Spec == Init /\ [][Next]_vars

(* A handler that has interrupted main is run; so is what it interrupted,  *)
(* between signals that do not come back to back for ever; the children of *)
(* main end.                                                               *)
FairSpec ==
    /\ Spec
    /\ SF_vars(InterruptReset)
    /\ SF_vars(ReloadOpen \/ ReloadStore)
    /\ SF_vars(MainStep)

-----------------------------------------------------------------------------
(* A name that the datagram thread has read stays good until it is used,   *)
(* although reloads replace it, nothing is locked and a child runs between *)
(* the two: nothing is freed before shutdown (lines 98, 117, 883-894; 603, *)
(* 613, 654).                                                              *)
NameStaysGood ==
    Alive /\ rpc \in Holding /\ held \in freed => pc \in Shutdown

(* Outside start-up and shutdown the structure and the path are there for  *)
(* both threads, a name once read from the file is never lost, so that a   *)
(* restart command has something to restart, and nothing but what shutdown *)
(* has freed crashes the daemon (lines 61-129, 584-666, 802-894).          *)
ConfigUsable ==
    /\ Alive /\ (config # "ok" \/ path = "freed") => pc \in Shutdown
    /\ Alive /\ named /\ name = NULL => pc \in Shutdown
    /\ pc = "crashed" => path = "freed"

(* A SIGINT that arrives in the loop while none of the three threads waits *)
(* for a child ends the daemon, whatever they do next and however often    *)
(* the configuration is reloaded meanwhile, unless the handler of SIGHUP   *)
(* waits for a lock that main holds.  While a child runs, so for as long   *)
(* as a tunnel is open, SIGINT is discarded; before the loop it is handled *)
(* and forgotten at line 861 (lines 137-142, 864; 224, 241, 258, 275,      *)
(* 298-300).                                                               *)
StopsOnce == told ~> (~Alive \/ Deadlocked)
=============================================================================
