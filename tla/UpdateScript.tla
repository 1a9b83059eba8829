---------------------------- MODULE UpdateScript ----------------------------
(***************************************************************************)
(* scripts/yinka-update.sh, which the updater runs to install one item of  *)
(* a release, and the updater's decision to run it (updater.c, 653-669).   *)
(* The script keeps the installed files in a backup, removes them, copies  *)
(* the new ones and writes the version file that the updater reads next    *)
(* time.  It runs under bash -e: a command that fails ends it where it is. *)
(*                                                                         *)
(* The item is chosen once and for all.  A directory is absent or maps its *)
(* files to the release they come from; cp and rm go file by file and may  *)
(* be cut off in between.  What was written is on the disk after a power   *)
(* loss.  Links in /usr/bin, and directories made in vain, are left out.   *)
(***************************************************************************)
EXTENDS Naturals

CONSTANTS
    Options,       \* the items: "print", "player", "kernel", "debian"
    Files, Has,    \* the files of an item, and those that release r has
    ZImage, Dtb,   \* the two files of the kernel
    Absent,        \* a directory that does not exist
    MaxRelease,    \* bound of the model: releases offered
    MaxCuts        \* bound of the model: runs that are cut off

ASSUME UpdateScriptAssumption ==
    /\ Options \subseteq {"print", "player", "kernel", "debian"}
    /\ MaxRelease \in Nat \ {0} /\ MaxCuts \in Nat
    /\ Has \in [1..MaxRelease -> SUBSET Files]
    /\ ZImage # Dtb

VARIABLES
    option,    \* the item
    live,      \* the directory the item is used from (/mnt for the kernel)
    backup,    \* its copy under /usr/local/soft/backup
    version,   \* the version file; 0 is none
    mounted,   \* the kernel's partition is mounted on /mnt
    offer,     \* the release the server offers
    pc,        \* the script
    want,      \* $VERSION, the release under /tmp/updatefiles
    todo,      \* files that a cp has yet to copy
    cuts,      \* runs cut off so far
    retried,   \* history: the script was run on an incomplete directory
    forced     \* history: the last run was a forced one of the release that
               \* version named already, and has not come to its end

disk == <<live, backup, version, mounted>>
vars == <<option, disk, offer, pc, want, todo, cuts, retried,
          forced>>

Releases == 1..MaxRelease

KernelFiles == {ZImage, Dtb}

FilesOf(r) == IF option = "kernel" THEN KernelFiles ELSE Has[r]

Empty == [f \in {} |-> 1]

Trees == UNION {[S -> Releases] : S \in SUBSET (Files \cup KernelFiles)}

ASSUME AbsentAssumption == Absent \notin Trees

Directories == Trees \cup {Absent}

PC == {"idle", "dirs", "drop", "dropping", "mount", "save", "saving",
       "removing", "copy", "copying", "install", "truncate", "version",
       "umount"}

(* Directory d has all the files of release r.                             *)
Holds(d, r) ==
    d # Absent /\ \A f \in FilesOf(r) : f \in DOMAIN d /\ d[f] = r

Whole(d) == \E r \in Releases : Holds(d, r)

TypeOK ==
    /\ option \in Options
    /\ live \in Directories /\ backup \in Directories
    /\ version \in Releases \cup {0}
    /\ mounted \in BOOLEAN
    /\ mounted => option = "kernel"
    /\ offer \in Releases
    /\ pc \in PC
    /\ want \in Releases \cup {0} /\ want <= offer
    /\ todo \subseteq Files \cup KernelFiles
    /\ cuts \in 0..MaxCuts
    /\ retried \in BOOLEAN /\ forced \in BOOLEAN

(* Release 1 came with the machine, with or without a version file.        *)
Init ==
    /\ option \in Options
    /\ live = [f \in FilesOf(1) |-> 1]
    /\ backup = IF option = "kernel" THEN Empty ELSE Absent
    /\ version \in {0, 1}
    /\ mounted = FALSE
    /\ offer = 1
    /\ pc = "idle" /\ want = 0 /\ todo = {}
    /\ cuts = 0 /\ retried = FALSE /\ forced = FALSE

-----------------------------------------------------------------------------
(* The updater: the server offers releases in order, and the item is       *)
(* installed unless its version file says that it is.                      *)
Publish ==
    /\ offer < MaxRelease
    /\ offer' = offer + 1
    /\ UNCHANGED <<option, disk, pc, want, todo, cuts, retried, forced>>

Skip == version = offer

Run ==
    /\ pc = "idle"
    /\ pc' = IF option = "debian" THEN "install" ELSE "dirs"
    /\ want' = offer
    /\ retried' = (retried \/ ~Whole(live))
    /\ UNCHANGED <<option, disk, offer, todo, cuts>>

Begin == ~Skip /\ Run /\ forced' = FALSE

(* A forced update runs the script even so.                                *)
BeginForced == Skip /\ Run /\ forced' = TRUE

-----------------------------------------------------------------------------
(* Writing the version file finishes what was forced.                      *)
History == forced' = (forced /\ pc # "version") /\ UNCHANGED retried

Goto(l) == pc' = l /\ History /\ UNCHANGED <<option, offer, want, cuts>>

(* The script ends; /mnt stays mounted if it is.                           *)
End ==
    /\ pc' = "idle" /\ want' = 0 /\ todo' = {}
    /\ History /\ UNCHANGED <<option, offer, cuts>>

Without(d, f) == [g \in DOMAIN d \ {f} |-> d[g]]

With(d, f, r) == [g \in DOMAIN d \cup {f} |-> IF g = f THEN r ELSE d[g]]

(* The files of the kernel are named one after the other.                  *)
Turn(f, S, first) ==
    f \in S /\ (option = "kernel" /\ first \in S => f = first)

(* Deliberately wrong variant: the player is treated like autoprint.       *)
DirsNoPlayer ==
    /\ pc = "dirs"
    /\ Goto("drop")
    /\ UNCHANGED <<disk, todo>>

(* Lines 12-49 make the directories that are missing, .../player among     *)
(* them but not .../autoprint/resources.                                   *)
Dirs ==
    /\ pc = "dirs"
    /\ live' = IF option = "player" /\ live = Absent THEN Empty ELSE live
    /\ Goto("drop")
    /\ UNCHANGED <<backup, version, mounted, todo>>

(* The old backup goes, except that of autoprint: line 67 tests a name     *)
(* under which nothing is ever kept.                                       *)
Drop ==
    /\ pc = "drop"
    /\ IF \/ option = "player" /\ backup # Absent
          \/ option = "kernel" /\ ZImage \in DOMAIN backup
         THEN /\ todo' = IF option = "kernel" THEN KernelFiles
                                              ELSE DOMAIN backup
              /\ Goto("dropping")
         ELSE Goto("mount") /\ UNCHANGED todo
    /\ UNCHANGED disk

DropFile ==
    /\ pc = "dropping"
    /\ \E f \in Files \cup KernelFiles :
         /\ Turn(f, todo, ZImage)
         /\ todo' = todo \ {f} /\ backup' = Without(backup, f)
    /\ Goto("dropping")
    /\ UNCHANGED <<live, version, mounted>>

DropEnd ==
    /\ pc = "dropping" /\ todo = {}
    /\ backup' = IF option = "kernel" THEN backup ELSE Absent
    /\ Goto("mount")
    /\ UNCHANGED <<live, version, mounted, todo>>

(* Only the kernel is mounted; mount fails if it is mounted still.         *)
Mount ==
    /\ pc = "mount"
    /\ IF option = "kernel" /\ mounted
         THEN End /\ UNCHANGED mounted
         ELSE /\ mounted' = (option = "kernel")
              /\ Goto("save") /\ UNCHANGED todo
    /\ UNCHANGED <<live, backup, version>>

(* cp -a to the backup fails if there is no directory to copy ...          *)
Save ==
    /\ pc = "save"
    /\ IF live = Absent
         THEN End /\ UNCHANGED backup
         ELSE /\ todo' = IF option = "kernel" THEN KernelFiles
                                              ELSE DOMAIN live
              /\ backup' = IF backup = Absent THEN Empty ELSE backup
              /\ Goto("saving")
    /\ UNCHANGED <<live, version, mounted>>

(* Deliberately wrong variant: moved to the backup instead of copied.      *)
SaveMoving ==
    /\ pc = "saving"
    /\ \E f \in Files \cup KernelFiles :
         /\ Turn(f, todo, ZImage)
         /\ f \in DOMAIN live
         /\ backup' = With(backup, f, live[f]) /\ live' = Without(live, f)
         /\ todo' = todo \ {f} /\ Goto("saving")
    /\ UNCHANGED <<version, mounted>>

(* ... or no such file of the kernel; it adds to what the backup holds.    *)
SaveFile ==
    /\ pc = "saving"
    /\ \E f \in Files \cup KernelFiles :
         /\ Turn(f, todo, ZImage)
         /\ IF f \in DOMAIN live
              THEN /\ backup' = With(backup, f, live[f])
                   /\ todo' = todo \ {f} /\ Goto("saving")
              ELSE End /\ UNCHANGED backup
    /\ UNCHANGED <<live, version, mounted>>

Remove ==
    /\ pc = "saving" /\ todo = {}
    /\ todo' = DOMAIN live
    /\ Goto("removing")
    /\ UNCHANGED disk

RemoveFile ==
    /\ pc = "removing"
    /\ \E f \in todo :
         /\ Turn(f, todo, ZImage)
         /\ todo' = todo \ {f} /\ live' = Without(live, f)
    /\ Goto("removing")
    /\ UNCHANGED <<backup, version, mounted>>

RemoveEnd ==
    /\ pc = "removing" /\ todo = {}
    /\ live' = IF option = "kernel" THEN live ELSE Absent
    /\ Goto("copy")
    /\ UNCHANGED <<backup, version, mounted, todo>>

(* Deliberately wrong variant: the version is written first.               *)
CopyVersionFirst ==
    /\ pc = "copy"
    /\ live' = IF live = Absent THEN Empty ELSE live
    /\ todo' = FilesOf(want)
    /\ version' = want
    /\ Goto("copying")
    /\ UNCHANGED <<backup, mounted>>

(* cp -a from /tmp/updatefiles                                             *)
Copy ==
    /\ pc = "copy"
    /\ live' = IF live = Absent THEN Empty ELSE live
    /\ todo' = FilesOf(want)
    /\ Goto("copying")
    /\ UNCHANGED <<backup, version, mounted>>

CopyFile ==
    /\ pc = "copying"
    /\ \E f \in todo :
         /\ Turn(f, todo, Dtb)
         /\ todo' = todo \ {f} /\ live' = With(live, f, want)
    /\ Goto("copying")
    /\ UNCHANGED <<backup, version, mounted>>

CopyEnd ==
    /\ pc = "copying" /\ todo = {}
    /\ Goto("truncate")
    /\ UNCHANGED <<disk, todo>>

(* debian_update: the release's own script installs it or fails.           *)
Install ==
    /\ pc = "install"
    /\ live' = [f \in FilesOf(want) |-> want]
    /\ Goto("truncate")
    /\ UNCHANGED <<backup, version, mounted, todo>>

(* echo $VERSION > ... empties the file, then writes it.                   *)
Truncate ==
    /\ pc = "truncate"
    /\ version' = 0
    /\ Goto("version")
    /\ UNCHANGED <<live, backup, mounted, todo>>

WriteVersion ==
    /\ pc = "version"
    /\ version' = want
    /\ IF option = "kernel" THEN Goto("umount") /\ UNCHANGED todo ELSE End
    /\ UNCHANGED <<live, backup, mounted>>

Umount ==
    /\ pc = "umount"
    /\ mounted' = FALSE
    /\ End
    /\ UNCHANGED <<live, backup, version>>

Step ==
    \/ Begin \/ Dirs \/ Drop \/ DropFile \/ DropEnd \/ Mount
    \/ Save \/ SaveFile \/ Remove \/ RemoveFile \/ RemoveEnd
    \/ Copy \/ CopyFile \/ CopyEnd \/ Install
    \/ Truncate \/ WriteVersion \/ Umount

-----------------------------------------------------------------------------
(* A command fails, or the script is killed: the run is cut off, /mnt      *)
(* stays mounted.  After a power loss it is not.                           *)
CutOff ==
    /\ pc # "idle" /\ cuts < MaxCuts
    /\ cuts' = cuts + 1
    /\ mounted' \in {mounted, FALSE}
    /\ pc' = "idle" /\ want' = 0 /\ todo' = {}
    /\ UNCHANGED <<option, live, backup, version, offer, retried, forced>>

Next == Step \/ BeginForced \/ CutOff \/ Publish

Spec == Init /\ [][Next]_vars

(* The script runs on, and the updater asks again at every interval.       *)
FairSpec == Spec /\ WF_vars(Step)

-----------------------------------------------------------------------------
(* Until the script is run again after a run that was cut off, a whole     *)
(* release is in use or in the backup, wherever the cut was (lines 52-86). *)
ReleaseKept ==
    option # "debian" /\ ~retried => Whole(live) \/ Whole(backup)

(* An item that is not asked for is passed over only if the offered        *)
(* release is all there, whatever was cut off before, unless that was a    *)
(* forced run of the release that the version file named already: then it  *)
(* is passed over incomplete (updater.c, 653-661; the script, 62, 73, 84). *)
SkipSound == pc = "idle" /\ Skip /\ ~forced => Holds(live, offer)

(* Once no run is cut off any more, the offered release of the player or   *)
(* of the debian package gets installed, unless a forced run has left it   *)
(* incomplete. The retries of the others may fail for ever: autoprint's    *)
(* because a run cut off between rm and cp leaves no directory for line 70 *)
(* to save, the kernel's because /mnt is mounted still, at line 57.        *)
Installs ==
    option \in {"player", "debian"} =>
        []<>(pc = "idle" /\ version = offer /\ (Holds(live, offer) \/ forced))
=============================================================================
