--------------------------- MODULE UpdaterProofs ----------------------------
(* Theorems about Updater, for every value of the constants that           *)
(* UpdaterAssumption allows: any items, releases, files and commands.      *)
EXTENDS Updater, TLAPS

(* The constants of the model are what they should be.                     *)
LEMMA Constants ==
    /\ 1 \in Releases /\ 0 \in Items /\ 0 \in 0..MaxCommands
    /\ \A r \in Releases : r \in 0..Junk /\ r # Empty /\ r # Junk
    /\ Empty \in 0..Junk /\ Junk \in 0..Junk /\ Empty \notin Releases
    /\ Items \subseteq Nat /\ Releases \subseteq Nat
  BY UpdaterAssumption DEF Releases, Items, Junk, Empty

LEMMA InitType == Init => TypeOK
  BY Constants DEF Init, Fresh, NoInfo, TypeOK, PC

(* The end of a run clears what the run knew.                              *)
LEMMA ReturnType ==
    ASSUME TypeOK, NEW t \in Threads, Return(t)
    PROVE  /\ pc' \in [Threads -> PC]
           /\ force' \in [Threads -> BOOLEAN]
           /\ want' \in [Threads -> Releases \cup {Empty}]
           /\ fp' \in [Threads -> Files \cup {NoFile}]
           /\ item' \in [Threads -> Items]
           /\ code' \in [Threads -> {"none", "success", "download", "md5"}]
           /\ disturbed' \in [Threads -> BOOLEAN]
           /\ verified' \in [Threads -> Releases \cup {Empty}]
           /\ broken' \in [Threads -> BOOLEAN]
  BY Constants DEF Return, Goto, Set, TypeOK, PC

(* A call disturbs the runs that are active, and is disturbed by them.     *)
LEMMA CallDisturbs ==
    ASSUME TypeOK, NEW t \in Threads, NEW f \in BOOLEAN, Call(t, f)
    PROVE  /\ disturbed' \in [Threads -> BOOLEAN]
           /\ \A u \in Threads :
                ~disturbed'[u] => ~disturbed[u]
                                    /\ \A v \in Threads \ {t} : ~Active(v)
  <1> DEFINE D(u) == disturbed[u] \/ \E v \in Threads \ {t} : Active(v)
  <1>1. disturbed' = [u \in Threads |-> D(u)]
    BY DEF Call
  <1>2. \A u \in Threads : D(u) \in BOOLEAN
    BY Zenon
  <1>3. \A u \in Threads :
          ~D(u) => ~disturbed[u] /\ \A v \in Threads \ {t} : ~Active(v)
    BY Zenon
  <1> HIDE DEF D
  <1>4. disturbed' \in [Threads -> BOOLEAN]
    BY <1>1, <1>2
  <1>5. \A u \in Threads : disturbed'[u] = D(u)
    BY <1>1
  <1> QED
    BY <1>3, <1>4, <1>5

LEMMA CallType ==
    ASSUME TypeOK, NEW t \in Threads, NEW f \in BOOLEAN, Call(t, f),
           commands' \in 0..MaxCommands
    PROVE  TypeOK'
  BY CallDisturbs DEF Call, Goto, Set, TypeOK, PC, memory, disk

LEMMA ItemType ==
    ASSUME TypeOK, NEW t \in Threads, NextItem(t)
    PROVE  pc' \in [Threads -> PC] /\ item' \in [Threads -> Items]
  <1>1. item[t] < NumItems - 1 => item[t] + 1 \in Items
    BY UpdaterAssumption DEF TypeOK, Items
  <1> QED
    BY <1>1, Constants DEF NextItem, Goto, Set, TypeOK, PC

(* A step of a run keeps the types: the reset and the query ...            *)
LEMMA QueryType ==
    ASSUME TypeOK, NEW t \in Threads,
           \/ ResetInfo(t) \/ ResetPacks(t) \/ ResetRm(t) \/ ResetMkdir(t)
           \/ QueryFailed(t) \/ Query(t) \/ Answer(t) \/ Decide(t)
           \/ NoUpdate(t) \/ Report(t)
    PROVE  TypeOK'
  <1> USE Constants DEF TypeOK, memory, disk, server, hist, local
  <1>1. CASE ResetInfo(t)
    BY <1>1 DEF ResetInfo, NoInfo, Goto, Set, PC
  <1>2. CASE ResetPacks(t)
    BY <1>2 DEF ResetPacks, Goto, Set, PC
  <1>3. CASE ResetRm(t)
    BY <1>3 DEF ResetRm, RemoveDirectory, Goto, Set, PC
  <1>4. CASE ResetMkdir(t)
    BY <1>4 DEF ResetMkdir, Goto, Set, PC
  <1>5. CASE QueryFailed(t) \/ NoUpdate(t) \/ Report(t)
    BY <1>5, ReturnType DEF QueryFailed, NoUpdate, Report
  <1>6. CASE Query(t)
    BY <1>6 DEF Query, Goto, Set, PC
  <1>7. CASE Answer(t)
    <2>1. info' \in [release : Releases \cup {Empty}, current : BOOLEAN]
      BY <1>7 DEF Answer
    <2> QED
      BY <1>7, <2>1 DEF Answer, Goto, Set, PC
  <1>8. CASE Decide(t)
    BY <1>8 DEF Decide, Goto, Set, PC
  <1> QED
    BY <1>1, <1>2, <1>3, <1>4, <1>5, <1>6, <1>7, <1>8

(* ... the download ...                                                    *)
LEMMA DownloadType ==
    ASSUME TypeOK, NEW t \in Threads,
           \/ Remove(t) \/ Open(t) \/ Url(t)
           \/ TransferFailed(t) \/ Transfer(t)
           \/ Md5Ok(t) \/ Md5Failed(t)
    PROVE  TypeOK'
  <1> USE Constants DEF TypeOK, memory, disk, server, hist, local, Goto, Set,
          PC
  <1>1. CASE Remove(t)
    BY <1>1 DEF Remove
  <1>2. CASE Open(t)
    <2>1. CASE ~dir
      BY <1>2, <2>1 DEF Open, Fail
    <2>2. CASE dir /\ zip # NoFile
      BY <1>2, <2>2 DEF Open
    <2>3. CASE dir /\ zip = NoFile
      BY <1>2, <2>3 DEF Open
    <2> QED
      BY <2>1, <2>2, <2>3
  <1>3. CASE TransferFailed(t)
    BY <1>3 DEF TransferFailed, Fail
  <1>4. CASE Transfer(t)
    <2>1. PICK good \in BOOLEAN :
            /\ content' = Set(content, fp[t],
                 IF good /\ content[fp[t]] = Empty THEN want[t] ELSE Junk)
            /\ broken' = Set(broken, t, ~good)
      BY <1>4 DEF Transfer
    <2>2. content' \in [Files -> 0..Junk]
      BY <2>1
    <2>3. broken' \in [Threads -> BOOLEAN]
      BY <2>1
    <2> QED
      BY <1>4, <2>2, <2>3 DEF Transfer
  <1>5. CASE Md5Ok(t)
    BY <1>5 DEF Md5Ok
  <1>6. CASE Md5Failed(t)
    BY <1>6 DEF Md5Failed, Fail
  <1>7. CASE Url(t)
    BY <1>7 DEF Url
  <1> QED
    BY <1>1, <1>2, <1>3, <1>4, <1>5, <1>6, <1>7

(* ... and the installation.                                               *)
LEMMA InstallType ==
    ASSUME TypeOK, NEW t \in Threads,
           Unzip(t) \/ Parse(t) \/ Check(t) \/ Exec(t) \/ Cleanup(t)
    PROVE  TypeOK'
  <1> USE Constants DEF TypeOK, memory, disk, server, hist, local
  <1>1. CASE Unzip(t)
    BY <1>1 DEF Unzip, Goto, Set, PC
  <1>2. CASE Parse(t)
    BY <1>2 DEF Parse, Goto, Set, PC
  <1>3. CASE Check(t)
    <2>1. pc' \in [Threads -> PC] /\ item' \in [Threads -> Items]
      BY <1>3, ItemType DEF Check, Goto, Set, PC
    <2> QED
      BY <1>3, <2>1 DEF Check
  <1>4. CASE Exec(t)
    <2>1. version' \in [Items -> Releases \cup {Empty}]
      BY <1>4 DEF Exec, Set
    <2> QED
      BY <1>4, <2>1, ItemType DEF Exec
  <1>5. CASE Cleanup(t)
    BY <1>5 DEF Cleanup, RemoveDirectory, Goto, Set, PC
  <1> QED
    BY <1>1, <1>2, <1>3, <1>4, <1>5

LEMMA NextType == TypeOK /\ [Next]_vars => TypeOK'
  <1> SUFFICES ASSUME TypeOK, [Next]_vars PROVE TypeOK'
    OBVIOUS
  <1>1. CASE Interval
    BY <1>1, CallType DEF Interval, TypeOK, Threads
  <1>2. CASE Command
    <2>1. commands' \in 0..MaxCommands
      BY <1>2, UpdaterAssumption DEF Command, TypeOK
    <2> QED
      BY <1>2, <2>1, CallType DEF Command, Threads
  <1>3. ASSUME NEW t \in Threads, Step(t) PROVE TypeOK'
    BY <1>3, QueryType, DownloadType, InstallType DEF Step
  <1>4. CASE Publish
    BY <1>4, UpdaterAssumption
       DEF Publish, TypeOK, memory, disk, local, hist, Releases
  <1>5. CASE Crash
    BY <1>5, Constants DEF Crash, NoInfo, TypeOK, PC, disk, server
  <1>6. CASE UNCHANGED vars
    BY <1>6 DEF vars, memory, disk, server, local, hist, TypeOK
  <1> QED
    BY <1>1, <1>2, <1>3, <1>4, <1>5, <1>6 DEF Next

(* Memory, disk, server and the two runs keep their types.                 *)
THEOREM TypeCorrect == Spec => []TypeOK
  BY InitType, NextType, PTL DEF Spec

-----------------------------------------------------------------------------
(* Nothing is newer than what the server offers.                           *)
OfferedInv ==
    /\ info.release <= offer /\ xml <= offer
    /\ \A i \in Items : packs[i] <= offer /\ version[i] <= offer
    /\ \A f \in Files : content[f] \in Releases => content[f] <= offer
    /\ \A t \in Threads : want[t] <= offer

(* The steps of a run leave the other one where it is.                     *)
LEMMA GotoOnly ==
    ASSUME TypeOK, NEW t \in Threads, NEW l, Goto(t, l)
    PROVE  pc'[t] = l /\ \A u \in Threads \ {t} : pc'[u] = pc[u]
  BY DEF Goto, Set, TypeOK

LEMMA StepOnly ==
    ASSUME TypeOK, NEW t \in Threads, Step(t)
    PROVE  \A u \in Threads \ {t} :
              pc'[u] = pc[u] /\ disturbed'[u] = disturbed[u]
  <1>1. \/ Return(t)
        \/ (\E l \in PC : Goto(t, l)) /\ UNCHANGED disturbed
    BY DEF Step, ResetInfo, ResetPacks, ResetRm, ResetMkdir, QueryFailed,
           Query, Answer, Decide, NoUpdate, Remove, Open, Url, TransferFailed,
           Transfer, Md5Ok, Md5Failed, Unzip, Parse, Check, NextItem, Exec,
           Cleanup, Report, Fail, PC, hist
  <1>2. CASE Return(t)
    BY <1>2 DEF Return, Goto, Set, TypeOK
  <1>3. CASE (\E l \in PC : Goto(t, l)) /\ UNCHANGED disturbed
    BY <1>3 DEF Goto, Set, TypeOK
  <1> QED
    BY <1>1, <1>2, <1>3

LEMMA StepActive ==
    ASSUME NEW t \in Threads, Step(t)
    PROVE  Active(t)
  BY DEF Step, ResetInfo, ResetPacks, ResetRm, ResetMkdir, QueryFailed, Query,
         Answer, Decide, NoUpdate, Remove, Open, Url, TransferFailed, Transfer,
         Md5Ok, Md5Failed, Unzip, Parse, Check, Exec, Cleanup, Report, Active

-----------------------------------------------------------------------------
LEMMA OfferedInit == Init => OfferedInv
  BY Constants DEF Init, Fresh, NoInfo, OfferedInv, Empty, Items, Releases

LEMMA OfferedRun ==
    ASSUME TypeOK, OfferedInv, NEW t \in Threads, Step(t)
    PROVE  OfferedInv'
  <1> USE Constants DEF OfferedInv, TypeOK, memory, disk, server, hist, local
  <1>1. CASE ResetInfo(t) \/ ResetPacks(t) \/ ResetRm(t) \/ ResetMkdir(t)
    BY <1>1 DEF ResetInfo, ResetPacks, ResetRm, ResetMkdir, RemoveDirectory,
                NoInfo, Empty
  <1>2. CASE QueryFailed(t) \/ NoUpdate(t) \/ Report(t)
    BY <1>2 DEF QueryFailed, NoUpdate, Report, Return, Set, Empty
  <1>3. CASE Query(t)
    BY <1>3 DEF Query, Set
  <1>4. CASE Answer(t)
    <2>1. info' = info \/ info'.release = want[t]
      BY <1>4 DEF Answer
    <2>2. info'.release <= offer
      BY <2>1
    <2> QED
      BY <1>4, <2>2 DEF Answer, Set, Empty
  <1>5. CASE Decide(t) \/ Md5Ok(t) \/ Md5Failed(t) \/ Check(t)
    BY <1>5 DEF Decide, Md5Ok, Md5Failed, Check
  <1>6. CASE Remove(t) \/ Url(t)
    BY <1>6 DEF Remove, Url, Set
  <1>7. CASE Open(t)
    <2>1. \A f \in Files : content'[f] \in Releases => content'[f] <= offer
      <3>1. \/ content' = content
            \/ \E z \in Files : content' = Set(content, z, Empty)
        BY <1>7 DEF Open
      <3> QED
        BY <3>1 DEF Set
    <2> QED
      BY <1>7, <2>1 DEF Open
  <1>8. CASE TransferFailed(t)
    <2>1. Junk \notin Releases
      BY Constants
    <2>2. content' = Set(content, fp[t], Junk)
      BY <1>8 DEF TransferFailed
    <2>3. \A f \in Files : content'[f] \in Releases => content'[f] <= offer
      BY <2>1, <2>2 DEF Set
    <2> QED
      BY <1>8, <2>3 DEF TransferFailed
  <1>9. CASE Transfer(t)
    <2>1. Junk \notin Releases
      BY Constants
    <2>2. PICK v \in {want[t], Junk} : content' = Set(content, fp[t], v)
      BY <1>9 DEF Transfer
    <2>3. \A f \in Files : content'[f] \in Releases => content'[f] <= offer
      BY <2>1, <2>2 DEF Set
    <2> QED
      BY <1>9, <2>3 DEF Transfer
  <1>10. CASE Unzip(t)
    BY <1>10 DEF Unzip
  <1>11. CASE Parse(t)
    BY <1>11 DEF Parse
  <1>12. CASE Exec(t)
    BY <1>12 DEF Exec, Set
  <1>13. CASE Cleanup(t)
    BY <1>13 DEF Cleanup, RemoveDirectory, Empty
  <1> QED
    BY <1>1, <1>2, <1>3, <1>4, <1>5, <1>6, <1>7, <1>8, <1>9, <1>10, <1>11,
       <1>12, <1>13 DEF Step

LEMMA OfferedStep == TypeOK /\ OfferedInv /\ [Next]_vars => OfferedInv'
  <1> SUFFICES ASSUME TypeOK, OfferedInv, [Next]_vars PROVE OfferedInv'
    OBVIOUS
  <1> USE DEF OfferedInv, memory, disk, server, local, hist
  <1>1. CASE Interval \/ Command \/ UNCHANGED vars
    BY <1>1 DEF Interval, Command, Call, vars
  <1>2. ASSUME NEW t \in Threads, Step(t) PROVE OfferedInv'
    BY <1>2, OfferedRun
  <1>3. CASE Publish
    BY <1>3, Constants DEF Publish, TypeOK, Releases, Empty
  <1>4. CASE Crash
    BY <1>4, Constants DEF Crash, NoInfo, TypeOK, Empty
  <1> QED
    BY <1>1, <1>2, <1>3, <1>4 DEF Next

-----------------------------------------------------------------------------
NoPacks == [i \in Items |-> Empty]

(* What an undisturbed run of t has made of memory and disk so far ...     *)
Prepared(t) ==
    /\ pc[t] \in {"reset_packs", "reset_rm", "reset_mkdir", "query", "answer"}
         => info = NoInfo
    /\ pc[t] \in {"reset_rm", "reset_mkdir", "query", "answer", "decide",
                  "remove", "open", "url", "transfer", "md5", "unzip", "parse"}
         => packs = NoPacks
    /\ pc[t] \in {"reset_mkdir", "query", "answer", "decide", "remove", "open",
                  "url", "transfer", "md5", "unzip"}
         => xml = Empty
    /\ pc[t] = "open" => zip = NoFile

(* ... what it has downloaded ...                                          *)
Downloaded(t) ==
    /\ pc[t] = "transfer" => want[t] = info.release
    /\ pc[t] \in {"url", "transfer"} =>
         zip \in Files /\ fp[t] = zip /\ content[zip] = Empty
    /\ pc[t] = "md5" =>
         /\ zip \in Files /\ info.release # Empty
         /\ ~broken[t] => content[zip] = info.release
    /\ pc[t] = "unzip" => zip \in Files /\ content[zip] = verified[t]

(* ... what it has found right, and is installing ...                      *)
Installing(t) ==
    /\ pc[t] \in {"unzip", "parse", "check", "exec", "cleanup"}
         => verified[t] # Empty /\ info.release = verified[t]
    /\ pc[t] = "parse" => xml \in {Empty, verified[t]}
    /\ pc[t] \in {"check", "exec"} =>
         \A i \in Items : packs[i] \in {Empty, verified[t]}
    /\ pc[t] = "exec" => packs[item[t]] # Empty
    /\ pc[t] = "report" =>
         /\ code[t] = "success" => verified[t] # Empty
                                     /\ info.release = verified[t]
         /\ code[t] = "md5" => broken[t]

(* ... and how new that is.                                                *)
Newest(t) ==
    \A i \in Items :
        /\ pc[t] = "answer" => version[i] <= want[t]
        /\ pc[t] \in {"decide", "remove", "open", "url", "transfer", "md5",
                      "unzip", "parse", "check", "exec"}
             /\ info.release # Empty
             => version[i] <= info.release

Alone(t) == \A u \in Threads \ {t} : ~Active(u)

Solo(t) ==
    Alone(t) /\ Prepared(t) /\ Downloaded(t) /\ Installing(t) /\ Newest(t)

SoloInv == \A t \in Threads : Active(t) /\ ~disturbed[t] => Solo(t)


LEMMA SoloReset ==
    ASSUME TypeOK, OfferedInv, NEW t \in Threads, Solo(t),
           ResetInfo(t) \/ ResetPacks(t) \/ ResetRm(t) \/ ResetMkdir(t)
    PROVE  Prepared(t)' /\ Downloaded(t)' /\ Installing(t)' /\ Newest(t)'
  <1> USE GotoOnly DEF Solo, Prepared, Downloaded, Installing, Newest, memory,
          disk, server, local, hist
  <1>1. CASE ResetInfo(t)
    BY <1>1 DEF ResetInfo
  <1>2. CASE ResetPacks(t)
    BY <1>2 DEF ResetPacks, NoPacks
  <1>3. CASE ResetRm(t)
    BY <1>3 DEF ResetRm, RemoveDirectory
  <1>4. CASE ResetMkdir(t)
    BY <1>4 DEF ResetMkdir
  <1> QED
    BY <1>1, <1>2, <1>3, <1>4

LEMMA SoloQuery ==
    ASSUME TypeOK, OfferedInv, NEW t \in Threads, Solo(t),
           Query(t) \/ Answer(t) \/ Decide(t)
    PROVE  Prepared(t)' /\ Downloaded(t)' /\ Installing(t)' /\ Newest(t)'
  <1> USE GotoOnly DEF Solo, Prepared, Downloaded, Installing, Newest, memory,
          disk, server, local, hist
  <1>1. CASE Query(t)
    BY <1>1 DEF Query, Set, TypeOK, OfferedInv
  <1>2. CASE Answer(t)
    <2>1. info'.release \in {Empty, want[t]}
      BY <1>2 DEF Answer, NoInfo
    <2> QED
      BY <1>2, <2>1 DEF Answer, NoPacks
  <1>3. CASE Decide(t)
    BY <1>3 DEF Decide
  <1> QED
    BY <1>1, <1>2, <1>3

LEMMA SoloDownload ==
    ASSUME TypeOK, OfferedInv, NEW t \in Threads, Solo(t),
           \/ Remove(t) \/ Open(t) \/ Url(t)
           \/ TransferFailed(t) \/ Transfer(t)
           \/ Md5Ok(t) \/ Md5Failed(t)
    PROVE  Prepared(t)' /\ Downloaded(t)' /\ Installing(t)' /\ Newest(t)'
  <1> USE GotoOnly DEF Solo, Prepared, Downloaded, Installing, Newest, memory,
          disk, server, local, hist
  <1>1. CASE Remove(t)
    BY <1>1 DEF Remove, Set, TypeOK
  <1>2. CASE Open(t) /\ ~dir
    BY <1>2 DEF Open, Fail, Set, TypeOK
  <1>3. CASE Open(t) /\ dir
    <2>1. /\ zip' \in Files /\ content'[zip'] = Empty /\ fp'[t] = zip'
          /\ Goto(t, "url")
      BY <1>3 DEF Open, Set, TypeOK
    <2> QED
      BY <1>3, <2>1 DEF Open
  <1>4. CASE TransferFailed(t)
    BY <1>4 DEF TransferFailed, Fail, Set, TypeOK
  <1>5. CASE Transfer(t)
    <2>1. /\ ~broken'[t] => content'[zip] = info.release
          /\ info.release # Empty
      BY <1>5 DEF Transfer, Set, TypeOK
    <2> QED
      BY <1>5, <2>1 DEF Transfer
  <1>6. CASE Md5Ok(t)
    <2>1. /\ verified'[t] = content[zip] /\ info.release = content[zip]
          /\ content[zip] # Empty
      BY <1>6, Constants DEF Md5Ok, Md5Matches, Set, TypeOK
    <2> QED
      BY <1>6, <2>1 DEF Md5Ok
  <1>7. CASE Md5Failed(t)
    <2>1. zip # NoFile
      BY <1>7, UpdaterAssumption DEF Md5Failed
    <2>2. broken[t]
      BY <1>7, <2>1 DEF Md5Failed, Md5Matches, TypeOK
    <2> QED
      BY <1>7, <2>2 DEF Md5Failed, Fail, Set, TypeOK
  <1>8. CASE Url(t)
    BY <1>8 DEF Url, Set, TypeOK
  <1> QED
    BY <1>1, <1>2, <1>3, <1>4, <1>5, <1>6, <1>7, <1>8

LEMMA SoloInstall ==
    ASSUME TypeOK, OfferedInv, NEW t \in Threads, Solo(t),
           Unzip(t) \/ Parse(t) \/ Check(t) \/ Exec(t) \/ Cleanup(t)
    PROVE  Prepared(t)' /\ Downloaded(t)' /\ Installing(t)' /\ Newest(t)'
  <1> USE GotoOnly DEF Solo, Prepared, Downloaded, Installing, Newest, memory,
          disk, server, local, hist
  <1>1. CASE Unzip(t)
    <2>1. xml' \in {Empty, verified[t]}
      BY <1>1, UpdaterAssumption DEF Unzip, TypeOK
    <2> QED
      BY <1>1, <2>1 DEF Unzip
  <1>2. CASE Parse(t)
    <2>1. \A i \in Items : packs'[i] \in {Empty, verified[t]}
      BY <1>2 DEF Parse, NoPacks
    <2>2. Goto(t, "check") \/ Goto(t, "cleanup")
      BY <1>2 DEF Parse
    <2> QED
      BY <1>2, <2>1, <2>2 DEF Parse
  <1>3. CASE Check(t)
    BY <1>3 DEF Check, NextItem
  <1>4. CASE Exec(t)
    <2>1. info.release \in Nat /\ info.release # Empty
      BY <1>4, Constants DEF Exec, TypeOK, Empty
    <2>2. packs[item[t]] = info.release
      BY <1>4 DEF Exec, TypeOK
    <2>3. \A i \in Items : version'[i] <= info.release
      BY <1>4, <2>1, <2>2 DEF Exec, Set, TypeOK
    <2>4. Goto(t, "check") \/ Goto(t, "cleanup")
      BY <1>4 DEF Exec, NextItem
    <2>5. UNCHANGED <<info, packs, xml, zip, verified>>
      BY <1>4 DEF Exec
    <2> QED
      BY <1>4, <2>3, <2>4, <2>5 DEF Exec
  <1>5. CASE Cleanup(t)
    BY <1>5 DEF Cleanup, Set, TypeOK
  <1> QED
    BY <1>1, <1>2, <1>3, <1>4, <1>5

(* A step of an undisturbed run keeps what that run relies on, unless it   *)
(* is its last.                                                            *)
LEMMA SoloRun ==
    ASSUME TypeOK, OfferedInv, NEW t \in Threads, Step(t), Solo(t), Active(t)'
    PROVE  Solo(t)'
  <1>1. Alone(t)'
    BY StepOnly DEF Solo, Alone, Active
  <1>2. ~Return(t)
    BY DEF Return, Goto, Set, Active, TypeOK
  <1> QED
    BY <1>1, <1>2, SoloReset, SoloQuery, SoloDownload, SoloInstall
       DEF Step, QueryFailed, NoUpdate, Report, Solo

(* A call begins an undisturbed run only if no other is active, and        *)
(* disturbs the one that is.                                               *)
LEMMA SoloCall ==
    ASSUME TypeOK, SoloInv, NEW t \in Threads, NEW f \in BOOLEAN, Call(t, f)
    PROVE  SoloInv'
  <1> SUFFICES ASSUME NEW u \in Threads, Active(u)', ~disturbed'[u]
               PROVE  Solo(u)'
    BY DEF SoloInv
  <1>1. \A v \in Threads \ {t} : ~Active(v)
    BY CallDisturbs
  <1>2. /\ pc'[t] = "reset_info"
        /\ \A v \in Threads \ {t} : pc'[v] = pc[v]
    BY GotoOnly DEF Call
  <1>3. u = t
    BY <1>1, <1>2 DEF Active
  <1>4. Alone(t)'
    BY <1>1, <1>2 DEF Alone, Active
  <1> QED
    BY <1>2, <1>3, <1>4
       DEF Solo, Prepared, Downloaded, Installing, Newest

LEMMA SoloStep ==
    TypeOK /\ OfferedInv /\ SoloInv /\ [Next]_vars => SoloInv'
  <1> SUFFICES ASSUME TypeOK, OfferedInv, SoloInv, [Next]_vars PROVE SoloInv'
    OBVIOUS
  <1>1. CASE Interval
    BY <1>1, SoloCall DEF Interval, Threads
  <1>2. CASE Command
    BY <1>2, SoloCall DEF Command, Threads
  <1>3. ASSUME NEW t \in Threads, Step(t) PROVE SoloInv'
    <2> SUFFICES ASSUME NEW u \in Threads, Active(u)', ~disturbed'[u]
                 PROVE  Solo(u)'
      BY DEF SoloInv
    <2>1. CASE u = t
      <3>1. ~disturbed[t] \/ Return(t)
        BY <1>3, <2>1
           DEF Step, ResetInfo, ResetPacks, ResetRm, ResetMkdir, QueryFailed,
               Query, Answer, Decide, NoUpdate, Remove, Open, Url,
               TransferFailed, Transfer, Md5Ok, Md5Failed, Unzip, Parse,
               Check, Exec, Cleanup, Report, hist
      <3>2. ~Return(t)
        BY <2>1 DEF Return, Goto, Set, Active, TypeOK
      <3>3. Solo(t)
        BY <1>3, <3>1, <3>2, StepActive DEF SoloInv
      <3> QED
        BY <1>3, <2>1, <3>3, SoloRun
    <2>2. CASE u # t
      <3>1. Active(u) /\ ~disturbed[u]
        BY <1>3, <2>2, StepOnly DEF Active
      <3>2. ~Active(t)
        BY <2>2, <3>1 DEF SoloInv, Solo, Alone
      <3> QED
        BY <1>3, <3>2, StepActive
    <2> QED
      BY <2>1, <2>2
  <1>4. CASE Publish \/ UNCHANGED vars
    BY <1>4 DEF Publish, vars, memory, disk, local, hist, SoloInv, Solo, Alone,
         Active, Prepared, Downloaded, Installing, Newest
  <1>5. CASE Crash
    BY <1>5 DEF Crash, SoloInv, Active
  <1> QED
    BY <1>1, <1>2, <1>3, <1>4, <1>5 DEF Next

LEMMA SoloAlways == Spec => [](TypeOK /\ OfferedInv /\ SoloInv)
  <1>1. Init => SoloInv
    BY DEF Init, Fresh, SoloInv, Active
  <1> QED
    BY <1>1, InitType, NextType, OfferedInit, OfferedStep, SoloStep, PTL
       DEF Spec

(* A run that no other run overlaps installs only the release whose md5 it *)
(* has checked, whatever earlier runs, crashes included, left in memory    *)
(* and on the disk (lines 602, 633-663).                                   *)
THEOREM CheckedInstallHolds == Spec => []CheckedInstall
  <1>1. TypeOK /\ SoloInv => CheckedInstall
    BY DEF TypeOK, SoloInv, Solo, Installing, Active, CheckedInstall
  <1> QED
    BY <1>1, SoloAlways, PTL

(* Its report is right about the release, and an md5 error means that the  *)
(* transfer went wrong (lines 680-696).                                    *)
THEOREM HonestReportHolds == Spec => []HonestReport
  <1>1. SoloInv => HonestReport
    BY DEF SoloInv, Solo, Installing, Active, HonestReport
  <1> QED
    BY <1>1, SoloAlways, PTL

(* It never puts an older release in the place of a newer one: what it has *)
(* checked is what the server offered after the call began, and nothing    *)
(* installed is newer than what the server has offered (lines 644-663).    *)
THEOREM NoDowngradeHolds == Spec => NoDowngrade
  <1> DEFINE A == \A t \in Threads, i \in Items :
                    pc[t] = "exec" /\ pc'[t] # "exec" /\ ~disturbed[t]
                      => version'[i] >= version[i]
  <1>1. TypeOK /\ SoloInv /\ [Next]_vars => [A]_vars
    <2> SUFFICES ASSUME TypeOK, SoloInv, Next, NEW t \in Threads,
                        NEW i \in Items, pc[t] = "exec", pc'[t] # "exec",
                        ~disturbed[t]
                 PROVE  version'[i] >= version[i]
      OBVIOUS
    <2>1. version[i] \in Nat
      BY Constants DEF TypeOK, Empty
    <2>2. CASE version' = version
      BY <2>1, <2>2
    <2>3. CASE Exec(t)
      <3>1. Solo(t)
        BY DEF SoloInv, Active
      <3>2. packs[item[t]] \in Nat /\ version[item[t]] <= packs[item[t]]
        BY <3>1, Constants DEF Solo, Installing, Newest, TypeOK, Empty
      <3> QED
        BY <2>1, <2>3, <3>2 DEF Exec, Set, TypeOK
    <2>4. version' = version \/ \E u \in Threads : Exec(u)
      BY DEF Next, Interval, Command, Call, Publish, Crash, Step, ResetInfo,
             ResetPacks, ResetRm, ResetMkdir, QueryFailed, Query, Answer,
             Decide, NoUpdate, Remove, Open, Url, TransferFailed, Transfer,
             Md5Ok, Md5Failed, Unzip, Parse, Check, Cleanup, Report
    <2>5. ASSUME NEW u \in Threads, Exec(u), u # t PROVE FALSE
      <3>1. pc'[t] = pc[t]
        BY <2>5, StepOnly DEF Step
      <3> QED
        BY <3>1
    <2> QED
      BY <2>2, <2>3, <2>4, <2>5
  <1> QED
    BY <1>1, SoloAlways, PTL DEF Spec, NoDowngrade
=============================================================================
