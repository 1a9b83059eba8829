------------------------------ MODULE Updater -------------------------------
(***************************************************************************)
(* The updater daemon (src/src/updater/updater.c).  process_update asks    *)
(* the server for a release, downloads it, checks its md5, unpacks it,     *)
(* runs the command of every item it updates and reports the result.  Two  *)
(* threads run it: the main loop every two to three minutes ("loop") and   *)
(* the datagram thread on a control command ("cmd").  They share           *)
(* update_str_info, update_packages_info and the directory                 *)
(* /tmp/updatefiles without a lock.                                        *)
(*                                                                         *)
(* A step is one access to shared memory or one operation on the directory *)
(* by a call or a command.  A release stands for its version, url and md5. *)
(***************************************************************************)
EXTENDS Naturals

CONSTANTS
    NumItems,     \* UPDATE_MAX (4): print, player, kernel, debian
    MaxRelease,   \* bound of the model: releases the server publishes
    Wants,        \* [r]: the items with updatestate "true" in release r
    Files,        \* ids of the files that downloads create
    MaxCommands   \* bound of the model: control commands that arrive

Items    == 0..(NumItems - 1)
Releases == 1..MaxRelease
Threads  == {"loop", "cmd"}

NoFile == "no file"
Empty  == 0               \* a file just created; also: no release
Junk   == MaxRelease + 1  \* a partial, mixed or error document

ASSUME UpdaterAssumption ==
    /\ NumItems \in Nat \ {0}
    /\ MaxRelease \in Nat \ {0}
    /\ Wants \in [Releases -> SUBSET Items]
    /\ NoFile \notin Files
    /\ MaxCommands \in Nat

VARIABLES
    info,      \* update_str_info: release, and update_state = 200
    packs,     \* [i]: release of update_packages_info[i] if "true"
    dir,       \* /tmp/updatefiles exists
    zip,       \* the file update.zip in it
    content,   \* [f]: what file f holds
    xml,       \* the release unpacked into the directory
    cut,       \* its unpacking broke off: update.xml lacks some items
    version,   \* [i]: the release in the version file of item i
    offer,     \* the release the server offers
    commands,  \* control commands received so far
    pc, force, \* per thread: counter, force_update
    want,      \* the answer, then the url passed to curl
    fp,        \* file being downloaded
    item,      \* loop index of line 644
    code,      \* resultCode: "success", "download", "md5"
    disturbed, \* history, [t]: another run was active during t's run
    verified,  \* history, [t]: release whose md5 was right
    broken     \* history, [t]: the transfer did not deliver the release

memory == <<info, packs>>
disk   == <<dir, zip, content, xml, cut>>
server == <<offer, commands>>
hist   == <<disturbed, verified, broken>>
local  == <<force, want, fp, item, code>>
vars   == <<memory, disk, version, server, pc, local, hist>>

NoInfo == [release |-> Empty, current |-> FALSE]

PC == {"idle", "reset_info", "reset_packs", "reset_rm", "reset_mkdir",
       "query", "answer", "decide", "remove", "open", "url", "transfer",
       "md5", "unzip", "parse", "check", "exec", "cleanup", "report"}

TypeOK ==
    /\ info \in [release : Releases \cup {Empty}, current : BOOLEAN]
    /\ packs \in [Items -> Releases \cup {Empty}]
    /\ dir \in BOOLEAN
    /\ zip \in Files \cup {NoFile}
    /\ content \in [Files -> 0..Junk]
    /\ xml \in Releases \cup {Empty}
    /\ cut \in BOOLEAN
    /\ version \in [Items -> Releases \cup {Empty}]
    /\ offer \in Releases
    /\ commands \in 0..MaxCommands
    /\ pc \in [Threads -> PC]
    /\ force \in [Threads -> BOOLEAN]
    /\ want \in [Threads -> Releases \cup {Empty}]
    /\ fp \in [Threads -> Files \cup {NoFile}]
    /\ item \in [Threads -> Items]
    /\ code \in [Threads -> {"none", "success", "download", "md5"}]
    /\ disturbed \in [Threads -> BOOLEAN]
    /\ verified \in [Threads -> Releases \cup {Empty}]
    /\ broken \in [Threads -> BOOLEAN]

Fresh ==
    /\ info = NoInfo
    /\ packs = [i \in Items |-> Empty]
    /\ pc = [t \in Threads |-> "idle"]
    /\ force = [t \in Threads |-> FALSE]
    /\ want = [t \in Threads |-> Empty]
    /\ fp = [t \in Threads |-> NoFile]
    /\ item = [t \in Threads |-> 0]
    /\ code = [t \in Threads |-> "none"]
    /\ disturbed = [t \in Threads |-> FALSE]
    /\ verified = [t \in Threads |-> Empty]
    /\ broken = [t \in Threads |-> FALSE]

(* The directory may hold what an earlier process left.                    *)
Init ==
    /\ Fresh
    /\ dir \in BOOLEAN
    /\ zip = NoFile /\ content = [f \in Files |-> Empty]
    /\ xml \in IF dir THEN {Empty, 1} ELSE {Empty}
    /\ cut \in BOOLEAN /\ (cut => xml # Empty)
    /\ version = [i \in Items |-> Empty]
    /\ offer = 1 /\ commands = 0

-----------------------------------------------------------------------------
Active(t) == pc[t] # "idle"

Set(f, t, v) == [f EXCEPT ![t] = v]

Goto(t, l) == pc' = Set(pc, t, l)

(* The end of process_update: what the run knew is dead.                   *)
Return(t) ==
    /\ Goto(t, "idle")
    /\ force' = Set(force, t, FALSE)
    /\ want' = Set(want, t, Empty)
    /\ fp' = Set(fp, t, NoFile)
    /\ item' = Set(item, t, 0)
    /\ code' = Set(code, t, "none")
    /\ disturbed' = Set(disturbed, t, FALSE)
    /\ verified' = Set(verified, t, Empty)
    /\ broken' = Set(broken, t, FALSE)

(* process_update is called: by the loop when its sleep is over, by the    *)
(* datagram thread with the flag of the command.                           *)
Call(t, f) ==
    /\ pc[t] = "idle"
    /\ Goto(t, "reset_info")
    /\ force' = Set(force, t, f)
    /\ disturbed' = [u \in Threads |->
                       disturbed[u] \/ \E v \in Threads \ {t} : Active(v)]
    /\ UNCHANGED <<memory, disk, version, offer, want, fp, item, code,
                   verified, broken>>

Interval == Call("loop", FALSE) /\ UNCHANGED commands

Command ==
    /\ commands < MaxCommands /\ commands' = commands + 1
    /\ \E f \in BOOLEAN : Call("cmd", f)

(* yinka_linux_update_reset; its result is ignored.                        *)
ResetInfo(t) ==
    /\ pc[t] = "reset_info"
    /\ info' = NoInfo
    /\ Goto(t, "reset_packs")
    /\ UNCHANGED <<packs, disk, version, server, local, hist>>

ResetPacks(t) ==
    /\ pc[t] = "reset_packs"
    /\ packs' = [i \in Items |-> Empty]
    /\ Goto(t, "reset_rm")
    /\ UNCHANGED <<info, disk, version, server, local, hist>>

(* Deliberately wrong variant: the directory is left as it is.             *)
KeepDirectory == UNCHANGED <<dir, zip, xml, cut>>

(* rm -rf /tmp/updatefiles/                                                *)
RemoveDirectory ==
    dir' = FALSE /\ zip' = NoFile /\ xml' = Empty /\ cut' = FALSE

(* Deliberately wrong variant: what an earlier run left stays.             *)
SkipRm(t) ==
    /\ pc[t] = "reset_rm"
    /\ Goto(t, "reset_mkdir")
    /\ UNCHANGED <<memory, disk, version, server, local, hist>>

(* The reset removes what an earlier run left.                             *)
ResetRm(t) ==
    /\ pc[t] = "reset_rm"
    /\ RemoveDirectory
    /\ Goto(t, "reset_mkdir")
    /\ UNCHANGED <<memory, content, version, server, local, hist>>

ResetMkdir(t) ==
    /\ pc[t] = "reset_mkdir"
    /\ dir' = TRUE
    /\ Goto(t, "query")
    /\ UNCHANGED <<memory, zip, content, xml, cut, version, server, local,
                   hist>>

(* query_update_info fails (no connection, result 401, no updatestate) ... *)
QueryFailed(t) ==
    /\ pc[t] = "query"
    /\ Return(t)
    /\ UNCHANGED <<memory, disk, version, server>>

(* ... or the server answers with what it offers then ...                  *)
Query(t) ==
    /\ pc[t] = "query"
    /\ want' = Set(want, t, offer)
    /\ Goto(t, "answer")
    /\ UNCHANGED <<memory, disk, version, server, force, fp, item, code, hist>>

(* ... and the answer is stored; an HTTP error stores nothing and the run  *)
(* goes on.                                                                *)
Answer(t) ==
    /\ pc[t] = "answer"
    /\ info' \in {info} \cup [release : {want[t]}, current : BOOLEAN]
    /\ want' = Set(want, t, Empty)
    /\ Goto(t, "decide")
    /\ UNCHANGED <<packs, disk, version, server, force, fp, item, code, hist>>

Decide(t) ==
    /\ pc[t] = "decide"
    /\ force[t] \/ ~info.current
    /\ Goto(t, "remove")
    /\ UNCHANGED <<memory, disk, version, server, local, hist>>

NoUpdate(t) ==
    /\ pc[t] = "decide"
    /\ ~force[t] /\ info.current
    /\ Return(t)
    /\ UNCHANGED <<memory, disk, version, server>>

-----------------------------------------------------------------------------
(* download_update_file: an old update.zip is removed, the file opened for *)
(* appending, the url in update_str_info handed to curl, which copies it,  *)
(* and the transfer run.                                                   *)
Remove(t) ==
    /\ pc[t] = "remove"
    /\ zip' = NoFile
    /\ Goto(t, "open")
    /\ UNCHANGED <<memory, dir, content, xml, cut, version, server, local,
                   hist>>

InUse == {fp[t] : t \in Threads} \cup {zip}

Fail(t, why) == code' = Set(code, t, why) /\ Goto(t, "report")

Open(t) ==
    /\ pc[t] = "open"
    /\ IF ~dir
         THEN Fail(t, "download") /\ UNCHANGED <<zip, content, fp>>
         ELSE /\ zip # NoFile => UNCHANGED <<zip, content>>
              /\ zip = NoFile => /\ zip' \in Files \ InUse
                                 /\ content' = Set(content, zip', Empty)
              /\ fp' = Set(fp, t, zip')
              /\ Goto(t, "url") /\ UNCHANGED code
    /\ UNCHANGED <<memory, dir, xml, cut, version, server, force, want, item,
                   hist>>

Url(t) ==
    /\ pc[t] = "url"
    /\ want' = Set(want, t, info.release)
    /\ Goto(t, "transfer")
    /\ UNCHANGED <<memory, disk, version, server, force, fp, item, code, hist>>

TransferFailed(t) ==
    /\ pc[t] = "transfer"
    /\ content' = Set(content, fp[t], Junk)
    /\ Fail(t, "download")
    /\ UNCHANGED <<memory, dir, zip, xml, cut, version, server, force, want,
                   fp, item, hist>>

(* A transfer that curl calls a success: the release, or an error document *)
(* with its HTTP status (line 272 only logs it).  Two writers mix.         *)
Transfer(t) ==
    /\ pc[t] = "transfer" /\ want[t] # Empty
    /\ \E good \in BOOLEAN :
         /\ content' = Set(content, fp[t],
              IF good /\ content[fp[t]] = Empty THEN want[t] ELSE Junk)
         /\ broken' = Set(broken, t, ~good)
    /\ fp' = Set(fp, t, NoFile)
    /\ Goto(t, "md5")
    /\ UNCHANGED <<memory, dir, zip, xml, cut, version, server, force, want,
                   item, code, disturbed, verified>>

(* Deliberately wrong variant: any md5 will do.                            *)
AnyMd5(f) == f # NoFile

(* compute_file_md5 and strcmp with update_str_info.md5.                   *)
Md5Matches(f) == content[f] \in Releases /\ content[f] = info.release

Md5Ok(t) ==
    /\ pc[t] = "md5"
    /\ zip # NoFile /\ Md5Matches(zip)
    /\ verified' = Set(verified, t, IF content[zip] = info.release
                                      THEN content[zip] ELSE Empty)
    /\ Goto(t, "unzip")
    /\ UNCHANGED <<memory, disk, version, server, local, disturbed, broken>>

Md5Failed(t) ==
    /\ pc[t] = "md5"
    /\ zip # NoFile => ~Md5Matches(zip)
    /\ Fail(t, "md5")
    /\ UNCHANGED <<memory, disk, version, server, force, want, fp, item, hist>>

-----------------------------------------------------------------------------
(* unzip without -o does not overwrite what is there.  It may fail or      *)
(* break off, with update.xml missing or a part of it there; its result is *)
(* ignored.                                                                *)
Unzip(t) ==
    /\ pc[t] = "unzip"
    /\ \/ UNCHANGED <<xml, cut>>
       \/ /\ xml = Empty /\ zip # NoFile /\ content[zip] \in Releases
          /\ xml' = content[zip] /\ cut' \in BOOLEAN
    /\ Goto(t, "parse")
    /\ UNCHANGED <<memory, dir, zip, content, version, server, local, hist>>

(* A parse that fails is passed over; of a part of update.xml some of the  *)
(* items are read.                                                         *)
Parse(t) ==
    /\ pc[t] = "parse"
    /\ IF xml = Empty
         THEN Goto(t, "cleanup") /\ UNCHANGED packs
         ELSE /\ \E read \in SUBSET Wants[xml] :
                   /\ cut \/ read = Wants[xml]
                   /\ packs' = [i \in Items |-> IF i \in read
                                                 THEN xml ELSE packs[i]]
              /\ Goto(t, "check")
    /\ UNCHANGED <<info, disk, version, server, local, hist>>

(* Deliberately wrong variant: one item too many.                          *)
NextItemLate(t) ==
    IF item[t] < NumItems
      THEN Goto(t, "check") /\ item' = Set(item, t, item[t] + 1)
      ELSE Goto(t, "cleanup") /\ item' = Set(item, t, 0)

(* The loop over UPDATE_MAX items (line 644).                              *)
NextItem(t) ==
    IF item[t] < NumItems - 1
      THEN Goto(t, "check") /\ item' = Set(item, t, item[t] + 1)
      ELSE Goto(t, "cleanup") /\ item' = Set(item, t, 0)

(* An item is updated if its updatestate is "true" and its version differs *)
(* from the local one, or the update is forced.                            *)
Check(t) ==
    /\ pc[t] = "check"
    /\ IF /\ packs[item[t]] # Empty
          /\ force[t] \/ version[item[t]] # packs[item[t]]
         THEN Goto(t, "exec") /\ UNCHANGED item
         ELSE NextItem(t)
    /\ UNCHANGED <<memory, disk, version, server, force, want, fp, code, hist>>

(* The item's command installs what the table holds now, or fails, which   *)
(* is ignored; print and player are then restarted by a datagram to yinkad *)
(* (send_msg_daemon_server), an input of Watchdog.                         *)
Exec(t) ==
    /\ pc[t] = "exec"
    /\ \/ UNCHANGED version
       \/ /\ packs[item[t]] # Empty
          /\ version' = Set(version, item[t], packs[item[t]])
    /\ NextItem(t)
    /\ UNCHANGED <<memory, disk, server, force, want, fp, code, hist>>

Cleanup(t) ==
    /\ pc[t] = "cleanup"
    /\ RemoveDirectory
    /\ code' = Set(code, t, "success")
    /\ Goto(t, "report")
    /\ UNCHANGED <<memory, content, version, server, force, want, fp, item,
                   hist>>

(* report_update_result, with update_str_info.version; failures ignored.   *)
Report(t) ==
    /\ pc[t] = "report"
    /\ Return(t)
    /\ UNCHANGED <<memory, disk, version, server>>

Step(t) ==
    \/ ResetInfo(t) \/ ResetPacks(t) \/ ResetRm(t) \/ ResetMkdir(t)
    \/ QueryFailed(t) \/ Query(t) \/ Answer(t) \/ Decide(t) \/ NoUpdate(t)
    \/ Remove(t) \/ Open(t) \/ Url(t) \/ TransferFailed(t) \/ Transfer(t)
    \/ Md5Ok(t) \/ Md5Failed(t) \/ Unzip(t) \/ Parse(t)
    \/ Check(t) \/ Exec(t) \/ Cleanup(t) \/ Report(t)

-----------------------------------------------------------------------------
(* The environment: the server publishes, the updater dies and is started  *)
(* again with what is on the disk.                                         *)
Publish ==
    /\ offer < MaxRelease /\ offer' = offer + 1
    /\ UNCHANGED <<memory, disk, version, commands, pc, local, hist>>

Crash ==
    /\ \E t \in Threads : Active(t)
    /\ info' = NoInfo
    /\ packs' = [i \in Items |-> Empty]
    /\ pc' = [t \in Threads |-> "idle"]
    /\ force' = [t \in Threads |-> FALSE]
    /\ want' = [t \in Threads |-> Empty]
    /\ fp' = [t \in Threads |-> NoFile]
    /\ item' = [t \in Threads |-> 0]
    /\ code' = [t \in Threads |-> "none"]
    /\ disturbed' = [t \in Threads |-> FALSE]
    /\ verified' = [t \in Threads |-> Empty]
    /\ broken' = [t \in Threads |-> FALSE]
    /\ UNCHANGED <<disk, version, server>>

Next ==
    \/ Interval \/ Command
    \/ \E t \in Threads : Step(t)
    \/ Publish \/ Crash

Spec == Init /\ [][Next]_vars

-----------------------------------------------------------------------------
(* A run that no other run overlaps installs only the release whose md5 it *)
(* has checked, whatever earlier runs, crashes included, left in memory    *)
(* and on the disk (lines 602, 633-663).                                   *)
CheckedInstall ==
    \A t \in Threads :
        pc[t] = "exec" /\ ~disturbed[t] =>
            /\ verified[t] # Empty
            /\ packs[item[t]] = verified[t]

(* Its report is right about the release, and an md5 error means that the  *)
(* transfer went wrong (lines 680-696).                                    *)
HonestReport ==
    \A t \in Threads :
        pc[t] = "report" /\ ~disturbed[t] =>
            /\ code[t] = "success" => verified[t] # Empty
                                        /\ info.release = verified[t]
            /\ code[t] = "md5" => broken[t]

(* It never puts an older release in the place of a newer one.             *)
NoDowngrade ==
    [][\A t \in Threads, i \in Items :
          pc[t] = "exec" /\ pc'[t] # "exec" /\ ~disturbed[t]
            => version'[i] >= version[i]]_vars
=============================================================================
