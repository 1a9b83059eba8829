-------------------------- MODULE LifecycleProofs ---------------------------
(* Theorems about Lifecycle, for every value of the constants that         *)
(* LifecycleAssumption allows.                                             *)
EXTENDS Lifecycle, TLAPS

LEMMA InitType == Init => TypeOK
  <1> SUFFICES ASSUME Init PROVE TypeOK
    OBVIOUS
  <1>1. 0 \in 0..MaxLoads /\ 0 \in 0..0
    BY LifecycleAssumption
  <1>2. pc \in Boot /\ hup = "no" /\ int = "no" /\ rpc = "none"
    BY DEF Init, Boot
  <1>3. sigint \in Actions /\ saved \in Actions /\ busy \subseteq Threads
    BY DEF Init, Actions, Threads
  <1>4. /\ held \in 0..loads /\ name \in 0..loads /\ loads \in 0..MaxLoads
        /\ freed \subseteq 1..loads
    BY <1>1 DEF Init, NULL
  <1>5. /\ running \in BOOLEAN /\ caught \in BOOLEAN
        /\ told \in BOOLEAN /\ named \in BOOLEAN
    BY Zenon DEF Init
  <1> QED
    BY <1>2, <1>3, <1>4, <1>5 DEF Init, TypeOK

(* The variables that main and the handlers leave to the other threads,    *)
(* and those that the children change.                                     *)
ThreadType == rpc \in {"none", "recv", "start"} \cup Holding

ChildType ==
    sigint \in Actions /\ saved \in Actions /\ busy \subseteq Threads

StringType ==
    /\ path \in {"null", "ok", "freed"}
    /\ config \in {"ok", "freed", "null"}
    /\ loads \in 0..MaxLoads
    /\ name \in 0..loads /\ held \in 0..loads
    /\ freed \subseteq 1..loads

(* A child keeps SIGINT and what is saved of it among the actions.         *)
LEMMA ChildrenType ==
    ASSUME TypeOK, NEW t \in Threads, Enter(t) \/ Leave(t)
    PROVE  ChildType'
  BY DEF TypeOK, Enter, Leave, ChildType, Actions

(* Storing a name keeps the strings in order (lines 98 and 117).           *)
LEMMA StoreType ==
    ASSUME TypeOK, loads < MaxLoads, StoreName, UNCHANGED held
    PROVE  /\ loads' \in 0..MaxLoads /\ name' \in 0..loads'
           /\ held' \in 0..loads' /\ freed' \subseteq 1..loads'
           /\ named' = TRUE /\ name' # NULL /\ UNCHANGED freed
  BY LifecycleAssumption DEF TypeOK, StoreName, NULL

LEMMA MainType == TypeOK /\ MainStep => TypeOK'
  <1> SUFFICES ASSUME TypeOK, MainStep PROVE TypeOK'
    OBVIOUS
  <1> USE DEF TypeOK, At, Goto, threads, children, flags, strings
  <1>0. /\ "main" \in Threads
        /\ {"handler", "default"} \subseteq Actions
    BY DEF Threads, Actions
  <1>1. CASE CreateThread
    BY <1>1 DEF CreateThread, Boot, Over
  <1>2. CASE SetHandlers
    BY <1>2, <1>0 DEF SetHandlers, Boot
  <1>3. CASE DenyInput
    BY <1>3, <1>0, ChildrenType DEF DenyInput, ChildType, Boot
  <1>4. CASE CreateRemote
    BY <1>4 DEF CreateRemote, Boot
  <1>5. CASE OpenConfig
    BY <1>5 DEF OpenConfig, SetPath, Boot
  <1>6. CASE StoreConfig
    BY <1>6, StoreType DEF StoreConfig, Boot
  <1>7. CASE SetRunning
    BY <1>7 DEF SetRunning, Loop
  <1>8. CASE TestRunning
    BY <1>8 DEF TestRunning, Loop, Shutdown
  <1>9. CASE Pass
    BY <1>9, <1>0, ChildrenType DEF Pass, ChildType, Loop
  <1>10. CASE FreePath
    BY <1>10 DEF FreePath, Shutdown
  <1>11. CASE FreeName
    BY <1>11 DEF FreeName, NULL, Shutdown
  <1>12. CASE NullName
    BY <1>12 DEF NullName, NULL, Shutdown
  <1>13. CASE FreeConfig
    BY <1>13 DEF FreeConfig, Shutdown
  <1>14. CASE ExitProcess
    BY <1>14 DEF ExitProcess, Over
  <1> QED
    BY <1>1, <1>2, <1>3, <1>4, <1>5, <1>6, <1>7, <1>8, <1>9, <1>10, <1>11,
       <1>12, <1>13, <1>14 DEF MainStep

(* The steps of the handlers and of the other threads.                     *)
SignalStep ==
    Interrupt \/ InterruptReset \/ Hangup \/ ReloadOpen \/ ReloadStore

ThreadStep == TakeName \/ KillProgram \/ StartProgram \/ Tunnel

LEMMA SignalType == TypeOK /\ SignalStep => TypeOK'
  <1> SUFFICES ASSUME TypeOK, SignalStep PROVE TypeOK'
    OBVIOUS
  <1> USE DEF TypeOK, threads, children, flags, strings
  <1>1. CASE Interrupt
    <2>1. told' \in BOOLEAN
      BY <1>1, Zenon DEF Interrupt
    <2>2. UNCHANGED <<hup, caught, rpc, held, tunnel, sigint, saved, busy>>
      BY <1>1 DEF Interrupt
    <2>3. UNCHANGED <<path, name, config, loads, freed, named>>
      BY <1>1 DEF Interrupt
    <2>4. pc' \in {pc, "killed"} /\ int' \in {int, "reset"}
      BY <1>1 DEF Interrupt
    <2>5. running' \in BOOLEAN
      BY <1>1 DEF Interrupt
    <2> HIDE <1>1
    <2> QED
      BY <2>1, <2>2, <2>3, <2>4, <2>5 DEF Over
  <1>2. CASE InterruptReset
    BY <1>2 DEF InterruptReset, Actions
  <1>3. CASE Hangup
    BY <1>3 DEF Hangup, Over
  <1>4. CASE ReloadOpen
    BY <1>4 DEF ReloadOpen, AtHup, HupOpens, HupReturns, SetPath, Over
  <1>5. CASE ReloadStore
    BY <1>5, StoreType DEF ReloadStore, AtHup, HupReturns, Over
  <1> QED
    BY <1>1, <1>2, <1>3, <1>4, <1>5 DEF SignalStep

LEMMA ThreadsType == TypeOK /\ ThreadStep => TypeOK'
  <1> SUFFICES ASSUME TypeOK, ThreadStep PROVE TypeOK'
    OBVIOUS
  <1> USE DEF TypeOK, main, children, flags, strings
  <1>0. "recv" \in Threads /\ "remote" \in Threads
    BY DEF Threads
  <1>1. CASE TakeName
    BY <1>1 DEF TakeName, Holding, Over
  <1>2. CASE KillProgram
    BY <1>2, <1>0, ChildrenType DEF KillProgram, ChildType, Holding
  <1>3. CASE StartProgram
    BY <1>3, <1>0, ChildrenType, LifecycleAssumption
       DEF StartProgram, ChildType, NULL
  <1>4. CASE Tunnel
    BY <1>4, <1>0, ChildrenType DEF Tunnel, ChildType
  <1> QED
    BY <1>1, <1>2, <1>3, <1>4 DEF ThreadStep

LEMMA NextSteps == Next => MainStep \/ SignalStep \/ ThreadStep
  BY DEF Next, SignalStep, ThreadStep

LEMMA NextType == TypeOK /\ [Next]_vars => TypeOK'
  <1>1. TypeOK /\ UNCHANGED vars => TypeOK'
    BY DEF TypeOK, vars
  <1> QED
    BY <1>1, MainType, SignalType, ThreadsType, NextSteps

(* The variables of Lifecycle keep their types.                            *)
THEOREM TypeCorrect == Spec => []TypeOK
  BY InitType, NextType, PTL DEF Spec

-----------------------------------------------------------------------------
(* Once main has begun to free, it never gets back to its loop.            *)

Ending == pc \in Shutdown \cup Over

ShutdownInv ==
    /\ freed # {} => Ending /\ pc \notin {"free_path", "free_name"}
    /\ config # "ok" => path = "freed"
    /\ path = "freed" => Ending /\ pc # "free_path"
    /\ pc \in Boot \cup Loop \cup {"free_path"} => config = "ok"
    /\ pc \in Loop \cup {"store", "running", "free_path"} => path = "ok"
    /\ pc \in Shutdown \ {"free_path"} => path = "freed"
    /\ named /\ name = NULL => Ending
    /\ pc = "crashed" => path = "freed"

LEMMA ShutdownMain ==
    TypeOK /\ ShutdownInv /\ MainStep => ShutdownInv'
  <1> SUFFICES ASSUME TypeOK, ShutdownInv, MainStep PROVE ShutdownInv'
    OBVIOUS
  <1> USE DEF ShutdownInv, Ending, Boot, Loop, Shutdown, Over, At, Goto
  <1>1. CASE CreateThread \/ SetHandlers \/ DenyInput \/ CreateRemote
               \/ SetRunning \/ TestRunning \/ Pass
    BY <1>1
       DEF CreateThread, SetHandlers, DenyInput, CreateRemote, SetRunning,
           TestRunning, Pass, strings
  <1>2. CASE OpenConfig
    BY <1>2 DEF OpenConfig, SetPath, TypeOK
  <1>3. CASE StoreConfig
    BY <1>3, StoreType DEF StoreConfig, threads
  <1>4. CASE FreePath \/ FreeName \/ NullName \/ FreeConfig \/ ExitProcess
    BY <1>4
       DEF FreePath, FreeName, NullName, FreeConfig, ExitProcess, strings
  <1> QED
    BY <1>1, <1>2, <1>3, <1>4 DEF MainStep

LEMMA ShutdownOthers ==
    TypeOK /\ ShutdownInv /\ (SignalStep \/ ThreadStep) => ShutdownInv'
  <1> SUFFICES ASSUME TypeOK, ShutdownInv, SignalStep \/ ThreadStep
               PROVE  ShutdownInv'
    OBVIOUS
  <1> USE DEF ShutdownInv, Ending, Boot, Loop, Shutdown, Over
  <1>1. CASE Interrupt \/ InterruptReset \/ Hangup
    BY <1>1 DEF Interrupt, InterruptReset, Hangup, strings
  <1>2. CASE ReloadOpen
    BY <1>2 DEF ReloadOpen, HupOpens, SetPath
  <1>3. CASE ReloadStore
    BY <1>3, StoreType DEF ReloadStore, strings, threads
  <1>4. CASE TakeName
    BY <1>4 DEF TakeName, strings
  <1>5. CASE KillProgram \/ StartProgram \/ Tunnel
    BY <1>5 DEF KillProgram, StartProgram, Tunnel, main, strings
  <1> QED
    BY <1>1, <1>2, <1>3, <1>4, <1>5 DEF SignalStep, ThreadStep

LEMMA ShutdownAlways == Spec => []ShutdownInv
  <1>1. Init => ShutdownInv
    BY DEF Init, ShutdownInv, Boot, Loop, Shutdown
  <1>2. ShutdownInv /\ UNCHANGED vars => ShutdownInv'
    BY DEF ShutdownInv, Ending, vars
  <1>3. TypeOK /\ ShutdownInv /\ [Next]_vars => ShutdownInv'
    BY <1>2, ShutdownMain, ShutdownOthers, NextSteps
  <1> QED
    BY <1>1, <1>3, TypeCorrect, PTL DEF Spec

(* A name that the datagram thread has read stays good until it is used,   *)
(* however often it is replaced while a child runs in between: nothing is  *)
(* freed before shutdown (lines 98, 117, 883-894; 603, 613, 654).          *)
THEOREM NameStaysGoodHolds == Spec => []NameStaysGood
  <1>1. ShutdownInv => NameStaysGood
    BY DEF ShutdownInv, NameStaysGood, Ending, Alive
  <1> QED
    BY <1>1, ShutdownAlways, PTL

(* Outside start-up and shutdown structure and path are there for both     *)
(* threads, a name once read is never lost, and only what shutdown has     *)
(* freed crashes the daemon (lines 61-129, 584-666, 802-894).              *)
THEOREM ConfigUsableHolds == Spec => []ConfigUsable
  <1>1. ShutdownInv => ConfigUsable
    BY DEF ShutdownInv, ConfigUsable, Ending, Alive
  <1> QED
    BY <1>1, ShutdownAlways, PTL

(* Neither the path nor the name that shutdown frees has been freed,       *)
(* although a reload may have interrupted it (lines 878-890).              *)
THEOREM FreedOnce ==
    Spec => []( /\ pc = "free_path" => path # "freed"
                /\ pc = "free_name" => name \notin freed )
  <1>1. ShutdownInv => /\ pc = "free_path" => path # "freed"
                       /\ pc = "free_name" => name \notin freed
    BY DEF ShutdownInv
  <1> QED
    BY <1>1, ShutdownAlways, PTL

-----------------------------------------------------------------------------
(* SIGINT is ignored only while a child runs, whichever threads begin and  *)
(* end children in whichever order, and the flag of the loop, once         *)
(* cleared, stays so.                                                      *)

SigintInv ==
    /\ busy = {} => sigint # "ignore"
    /\ saved # "ignore"
    /\ running => pc \notin Boot
    /\ told => pc \notin Boot /\ (~running \/ pc = "killed")

LEMMA ChildSigint ==
    ASSUME SigintInv, NEW t \in Threads, Enter(t) \/ Leave(t)
    PROVE  (busy' = {} => sigint' # "ignore") /\ saved' # "ignore"
  BY DEF SigintInv, Enter, Leave

LEMMA SigintStep == SigintInv /\ [Next]_vars => SigintInv'
  <1> SUFFICES ASSUME SigintInv, [Next]_vars PROVE SigintInv'
    OBVIOUS
  <1>0. {"main", "recv", "remote"} \subseteq Threads
    BY DEF Threads
  <1> USE DEF SigintInv, Boot
  <1>1. CASE CreateThread \/ SetHandlers \/ CreateRemote \/ OpenConfig
               \/ StoreConfig \/ SetRunning
    BY <1>1
       DEF CreateThread, SetHandlers, CreateRemote, OpenConfig, StoreConfig,
           SetRunning, At, Goto, children, flags
  <1>2. CASE DenyInput
    BY <1>2, <1>0, ChildSigint DEF DenyInput, At, Goto, flags
  <1>3. CASE TestRunning
    BY <1>3 DEF TestRunning, At, Goto, children, flags
  <1>4. CASE Pass
    BY <1>4, <1>0, ChildSigint DEF Pass, At, Goto, children, flags
  <1>5. CASE FreePath \/ FreeName \/ NullName \/ FreeConfig \/ ExitProcess
    BY <1>5
       DEF FreePath, FreeName, NullName, FreeConfig, ExitProcess, At, Goto,
           children, flags
  <1>6. CASE Interrupt
    <2>1. told' => told \/ (running /\ busy = {})
      BY <1>6, Zenon DEF Interrupt
    <2>2. /\ UNCHANGED <<sigint, saved, busy>>
          /\ \/ sigint = "ignore" /\ UNCHANGED <<pc, running>>
             \/ running' = FALSE /\ UNCHANGED pc
             \/ pc' = "killed" /\ UNCHANGED running
      BY <1>6 DEF Interrupt, children
    <2> QED
      BY <2>1, <2>2
  <1>11. CASE InterruptReset
    BY <1>11 DEF InterruptReset, flags
  <1>7. CASE Hangup \/ ReloadOpen \/ ReloadStore
    BY <1>7
       DEF Hangup, ReloadOpen, ReloadStore, AtHup, HupOpens, HupReturns,
           Alive, Over, children, flags
  <1>8. CASE TakeName
    BY <1>8 DEF TakeName, Alive, Over, children, flags
  <1>9. CASE KillProgram \/ StartProgram \/ Tunnel
    BY <1>9, <1>0, ChildSigint
       DEF KillProgram, StartProgram, Tunnel, main, children, flags
  <1>10. CASE UNCHANGED vars
    BY <1>10 DEF vars
  <1> QED
    BY <1>1, <1>2, <1>3, <1>4, <1>5, <1>6, <1>7, <1>8, <1>9, <1>10,
       <1>11 DEF Next, MainStep

(* A SIGINT that arrives in the loop while no child runs kills the daemon  *)
(* or clears the flag of the loop for good: it is not discarded, and       *)
(* nothing sets the flag again (lines 137-142, 861, 864).                  *)
THEOREM ToldForGood == Spec => [](told => ~running \/ pc = "killed")
  <1>1. Init => SigintInv
    BY DEF Init, SigintInv
  <1>2. SigintInv => (told => ~running \/ pc = "killed")
    BY DEF SigintInv
  <1> QED
    BY <1>1, <1>2, SigintStep, PTL DEF Spec
=============================================================================
