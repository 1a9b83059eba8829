------------------------- MODULE UpdateScriptProofs -------------------------
(* Theorems about UpdateScript, for every value of the constants that its  *)
(* assumptions allow: any items, files, releases and number of cuts.       *)
EXTENDS UpdateScript, TLAPS

USE DEF Releases

-----------------------------------------------------------------------------
(* Directories: what rm and cp of a file do to one.                        *)

AllFiles == Files \cup KernelFiles

LEMMA TreeFacts ==
    ASSUME NEW d \in Trees
    PROVE  /\ d # Absent /\ DOMAIN d \subseteq AllFiles
           /\ d \in [DOMAIN d -> Releases]
  BY AbsentAssumption DEF Trees, AllFiles

LEMMA TreeIntro ==
    ASSUME NEW S \in SUBSET AllFiles, NEW d \in [S -> Releases]
    PROVE  d \in Trees
  BY DEF Trees, AllFiles

LEMMA DirectoryIsTree ==
    ASSUME NEW d \in Directories, d # Absent
    PROVE  d \in Trees
  BY DEF Directories

LEMMA OneIsRelease == 1 \in Releases
  BY UpdateScriptAssumption

LEMMA EmptyTree == Empty \in Trees
  <1>1. Empty \in [{} -> Releases]
    BY DEF Empty
  <1> QED
    BY <1>1, TreeIntro

LEMMA WithoutTree ==
    ASSUME NEW d \in Trees, NEW f
    PROVE  /\ Without(d, f) \in Trees
           /\ DOMAIN Without(d, f) = DOMAIN d \ {f}
           /\ \A g \in DOMAIN d \ {f} : Without(d, f)[g] = d[g]
  <1>1. /\ DOMAIN Without(d, f) = DOMAIN d \ {f}
        /\ \A g \in DOMAIN d \ {f} : Without(d, f)[g] = d[g]
    BY DEF Without
  <1>2. Without(d, f) \in [DOMAIN d \ {f} -> Releases]
    BY TreeFacts DEF Without
  <1> QED
    BY <1>1, <1>2, TreeFacts, TreeIntro

LEMMA WithTree ==
    ASSUME NEW d \in Trees, NEW f \in AllFiles, NEW r \in Releases
    PROVE  /\ With(d, f, r) \in Trees
           /\ DOMAIN With(d, f, r) = DOMAIN d \cup {f}
           /\ With(d, f, r)[f] = r
           /\ \A g \in DOMAIN d \ {f} : With(d, f, r)[g] = d[g]
  <1>1. /\ DOMAIN With(d, f, r) = DOMAIN d \cup {f}
        /\ With(d, f, r)[f] = r
        /\ \A g \in DOMAIN d \ {f} : With(d, f, r)[g] = d[g]
    BY DEF With
  <1>2. With(d, f, r) \in [DOMAIN d \cup {f} -> Releases]
    BY TreeFacts DEF With
  <1> QED
    BY <1>1, <1>2, TreeFacts, TreeIntro

(* A release is a directory, and installed as a whole it is all there.     *)
LEMMA ReleaseTree ==
    ASSUME NEW r \in Releases
    PROVE  /\ FilesOf(r) \subseteq AllFiles
           /\ [f \in FilesOf(r) |-> r] \in Trees
           /\ Holds([f \in FilesOf(r) |-> r], r)
  <1>1. FilesOf(r) \subseteq AllFiles
    BY UpdateScriptAssumption DEF FilesOf, AllFiles
  <1>2. [f \in FilesOf(r) |-> r] \in Trees
    BY <1>1, TreeIntro
  <1> QED
    BY <1>1, <1>2, TreeFacts DEF Holds

-----------------------------------------------------------------------------
(* Type correctness.                                                       *)

(* What is there while the script is at each of its lines.                 *)
Phases ==
    /\ option = "kernel" => live # Absent /\ backup # Absent
    /\ pc \in {"saving", "removing", "copying"} => live # Absent
    /\ pc \in {"dropping", "saving"} => backup # Absent
    /\ pc # "idle" => want \in Releases
    /\ pc = "install" => option = "debian"

(* The files that cp -a copies to the backup.                              *)
Source == IF option = "kernel" THEN KernelFiles ELSE DOMAIN live

LEMMA InitType == Init => TypeOK /\ Phases
  <1> SUFFICES ASSUME Init PROVE TypeOK /\ Phases
    OBVIOUS
  <1>1. live \in Trees
    BY OneIsRelease, ReleaseTree DEF Init
  <1>2. backup \in Directories /\ (option = "kernel" => backup \in Trees)
    BY EmptyTree DEF Init, Directories
  <1>3. Phases
    BY <1>1, <1>2, TreeFacts DEF Init, Phases
  <1>4. 0 \in 0..MaxCuts /\ 0 <= 1
    BY UpdateScriptAssumption
  <1> QED
    BY <1>1, <1>2, <1>3, <1>4, OneIsRelease DEF Init, TypeOK, PC, Directories

(* The histories stay truth values.                                        *)
LEMMA FlagTypes ==
    /\ TypeOK /\ History => retried' \in BOOLEAN /\ forced' \in BOOLEAN
    /\ TypeOK /\ Run => retried' \in BOOLEAN
  <1>1. TypeOK /\ History => retried' \in BOOLEAN
    BY DEF TypeOK, History
  <1>2. TypeOK /\ History => forced' \in BOOLEAN
    BY Zenon DEF TypeOK, History
  <1>3. TypeOK /\ Run => retried' \in BOOLEAN
    BY Zenon DEF TypeOK, Run
  <1> QED
    BY <1>1, <1>2, <1>3

(* What every line of the script leaves alone, and how it ends.            *)
LEMMA GotoType ==
    ASSUME TypeOK, Phases, pc # "idle", NEW l \in PC, Goto(l)
    PROVE  /\ option' \in Options /\ offer' \in Releases
           /\ want' \in Releases /\ want' <= offer' /\ cuts' \in 0..MaxCuts
           /\ retried' \in BOOLEAN /\ forced' \in BOOLEAN
           /\ pc' = l /\ option' = option /\ want' = want
  BY FlagTypes DEF TypeOK, Phases, Goto

LEMMA EndType ==
    ASSUME TypeOK, End
    PROVE  /\ option' \in Options /\ offer' \in Releases
           /\ want' \in Releases \cup {0} /\ want' <= offer'
           /\ cuts' \in 0..MaxCuts /\ todo' \subseteq AllFiles
           /\ retried' \in BOOLEAN /\ forced' \in BOOLEAN
           /\ pc' = "idle" /\ option' = option
  BY FlagTypes DEF TypeOK, End

LEMMA UpdaterType ==
    TypeOK /\ Phases /\ (Publish \/ Begin \/ BeginForced \/ CutOff)
        => TypeOK' /\ Phases'
  <1> SUFFICES ASSUME TypeOK, Phases, Publish \/ Begin \/ BeginForced \/ CutOff
               PROVE  TypeOK' /\ Phases'
    OBVIOUS
  <1>1. CASE Publish
    BY <1>1, UpdateScriptAssumption DEF Publish, TypeOK, Phases, disk
  <1>2. CASE Begin \/ BeginForced
    <2>1. retried' \in BOOLEAN /\ forced' \in BOOLEAN
      BY <1>2, FlagTypes DEF Begin, BeginForced
    <2> QED
      BY <1>2, <2>1 DEF Begin, BeginForced, Run, TypeOK, Phases, disk, PC
  <1>3. CASE CutOff
    <2>1. mounted' \in BOOLEAN /\ (mounted' => option = "kernel")
      <3>1. mounted' = mounted \/ mounted' = FALSE
        BY <1>3 DEF CutOff
      <3>2. mounted \in BOOLEAN /\ (mounted => option = "kernel")
        BY DEF TypeOK
      <3>3. CASE mounted' = FALSE
        BY <3>3
      <3>4. CASE mounted' = mounted
        BY <3>2, <3>4
      <3> QED
        BY <3>1, <3>3, <3>4
    <2>2. cuts' \in 0..MaxCuts
      BY <1>3, UpdateScriptAssumption DEF CutOff, TypeOK
    <2> QED
      BY <1>3, <2>1, <2>2 DEF CutOff, TypeOK, Phases, PC
  <1> QED
    BY <1>1, <1>2, <1>3

(* The lines that prepare the update, and those that finish it.            *)
LEMMA FrameType ==
    TypeOK /\ Phases /\ (Dirs \/ Drop \/ DropFile \/ DropEnd \/ Mount \/ Save
                         \/ Install \/ Truncate \/ WriteVersion \/ Umount)
        => TypeOK' /\ Phases'
  <1> SUFFICES ASSUME TypeOK, Phases,
                      Dirs \/ Drop \/ DropFile \/ DropEnd \/ Mount \/ Save
                        \/ Install \/ Truncate \/ WriteVersion \/ Umount
               PROVE  TypeOK' /\ Phases'
    OBVIOUS
  <1> USE DEF TypeOK, Phases, disk, PC
  <1>1. CASE Dirs
    BY <1>1, GotoType, EmptyTree, TreeFacts DEF Dirs, Directories
  <1>2. CASE Drop
    <2>1. backup # Absent => DOMAIN backup \subseteq AllFiles
      BY DirectoryIsTree, TreeFacts
    <2>2. Goto("dropping") \/ Goto("mount")
      BY <1>2 DEF Drop
    <2> QED
      BY <1>2, <2>1, <2>2, GotoType DEF Drop, AllFiles
  <1>3. CASE DropFile
    <2>1. PICK f : todo' = todo \ {f} /\ backup' = Without(backup, f)
      BY <1>3 DEF DropFile
    <2>2. backup' \in Trees
      BY <1>3, <2>1, DirectoryIsTree, WithoutTree DEF DropFile
    <2> QED
      BY <1>3, <2>1, <2>2, GotoType, TreeFacts DEF DropFile, Directories
  <1>4. CASE DropEnd
    BY <1>4, GotoType DEF DropEnd, Directories
  <1>5. CASE Mount
    <2>1. mounted' \in BOOLEAN /\ (mounted' => option = "kernel")
      BY <1>5, Zenon DEF Mount
    <2>2. CASE End
      BY <1>5, <2>1, <2>2, EndType DEF Mount, AllFiles
    <2>3. CASE Goto("save") /\ UNCHANGED todo
      BY <1>5, <2>1, <2>3, GotoType DEF Mount
    <2> QED
      BY <1>5, <2>2, <2>3 DEF Mount
  <1>6. CASE Save
    <2>1. CASE live = Absent
      BY <1>6, <2>1, EndType DEF Save, AllFiles
    <2>2. CASE live # Absent
      <3>1. DOMAIN live \subseteq AllFiles
        BY <2>2, DirectoryIsTree, TreeFacts
      <3>2. backup' \in Directories /\ backup' # Absent
        BY <1>6, <2>2, EmptyTree, TreeFacts DEF Save, Directories
      <3> QED
        BY <1>6, <2>2, <3>1, <3>2, GotoType DEF Save, AllFiles
    <2> QED
      BY <2>1, <2>2
  <1>7. CASE Install
    <2>1. live' \in Trees
      BY <1>7, ReleaseTree DEF Install
    <2> QED
      BY <1>7, <2>1, GotoType, TreeFacts DEF Install, Directories
  <1>8. CASE Truncate
    BY <1>8, GotoType DEF Truncate
  <1>9. CASE WriteVersion
    <2>1. CASE option = "kernel"
      BY <1>9, <2>1, GotoType DEF WriteVersion
    <2>2. CASE option # "kernel"
      BY <1>9, <2>2, EndType DEF WriteVersion, AllFiles
    <2> QED
      BY <2>1, <2>2
  <1>10. CASE Umount
    BY <1>10, EndType DEF Umount, AllFiles
  <1> QED
    BY <1>1, <1>2, <1>3, <1>4, <1>5, <1>6, <1>7, <1>8, <1>9, <1>10

(* The lines that copy and remove.                                         *)
LEMMA CopyType ==
    TypeOK /\ Phases /\ (SaveFile \/ Remove \/ RemoveFile \/ RemoveEnd \/ Copy
                         \/ CopyFile \/ CopyEnd)
        => TypeOK' /\ Phases'
  <1> SUFFICES ASSUME TypeOK, Phases,
                      SaveFile \/ Remove \/ RemoveFile \/ RemoveEnd \/ Copy
                        \/ CopyFile \/ CopyEnd
               PROVE  TypeOK' /\ Phases'
    OBVIOUS
  <1> USE DEF TypeOK, Phases, disk, PC
  <1>1. CASE SaveFile
    <2>1. PICK f \in AllFiles :
            IF f \in DOMAIN live
              THEN /\ backup' = With(backup, f, live[f])
                   /\ todo' = todo \ {f} /\ Goto("saving")
              ELSE End /\ UNCHANGED backup
      BY <1>1 DEF SaveFile, AllFiles
    <2>2. CASE f \in DOMAIN live
      <3>1. live[f] \in Releases /\ live \in Trees /\ backup \in Trees
        BY <1>1, <2>2, DirectoryIsTree, TreeFacts DEF SaveFile
      <3>2. backup' = With(backup, f, live[f])
        BY <2>1, <2>2
      <3>3. backup' \in Trees
        BY <3>1, <3>2, WithTree
      <3> QED
        BY <1>1, <2>1, <2>2, <3>3, GotoType, TreeFacts
           DEF SaveFile, Directories
    <2>3. CASE f \notin DOMAIN live
      BY <1>1, <2>1, <2>3, EndType DEF SaveFile, AllFiles
    <2> QED
      BY <2>2, <2>3
  <1>2. CASE Remove
    <2>1. DOMAIN live \subseteq AllFiles
      BY <1>2, DirectoryIsTree, TreeFacts DEF Remove
    <2> QED
      BY <1>2, <2>1, GotoType DEF Remove, AllFiles
  <1>3. CASE RemoveFile
    <2>1. PICK f : todo' = todo \ {f} /\ live' = Without(live, f)
      BY <1>3 DEF RemoveFile
    <2>2. live' \in Trees
      BY <1>3, <2>1, DirectoryIsTree, WithoutTree DEF RemoveFile
    <2> QED
      BY <1>3, <2>1, <2>2, GotoType, TreeFacts DEF RemoveFile, Directories
  <1>4. CASE RemoveEnd
    BY <1>4, GotoType DEF RemoveEnd, Directories
  <1>5. CASE Copy
    BY <1>5, GotoType, ReleaseTree, EmptyTree, TreeFacts
       DEF Copy, Directories, AllFiles
  <1>6. CASE CopyFile
    <2>1. PICK f \in todo : todo' = todo \ {f} /\ live' = With(live, f, want)
      BY <1>6 DEF CopyFile
    <2>2. live' \in Trees
      BY <1>6, <2>1, DirectoryIsTree, WithTree DEF CopyFile, AllFiles
    <2> QED
      BY <1>6, <2>1, <2>2, GotoType, TreeFacts DEF CopyFile, Directories
  <1>7. CASE CopyEnd
    BY <1>7, GotoType DEF CopyEnd
  <1> QED
    BY <1>1, <1>2, <1>3, <1>4, <1>5, <1>6, <1>7

LEMMA NextType == TypeOK /\ Phases /\ [Next]_vars => TypeOK' /\ Phases'
  <1>1. TypeOK /\ Phases /\ UNCHANGED vars => TypeOK' /\ Phases'
    BY DEF TypeOK, Phases, vars, disk
  <1> QED
    BY <1>1, UpdaterType, FrameType, CopyType DEF Next, Step

LEMMA TypeAlways == Spec => [](TypeOK /\ Phases)
  BY InitType, NextType, PTL DEF Spec

(* The disk, the script and the histories keep their types.                *)
THEOREM TypeCorrect == Spec => []TypeOK
  BY TypeAlways, PTL

-----------------------------------------------------------------------------
(* The release in use is whole until it is in the backup as a whole.       *)
Kept ==
    /\ pc \in {"dirs", "drop", "dropping", "mount", "save", "saving"}
         => Whole(live)
    /\ pc = "saving" =>
         \A f \in Source \ todo : f \in DOMAIN backup /\ backup[f] = live[f]
    /\ pc \in {"removing", "copy", "copying", "truncate", "version", "umount"}
         => Whole(backup)
    /\ pc = "idle" => Whole(live) \/ Whole(backup)

KeptInv == option # "debian" /\ ~retried => Kept

LEMMA InitWhole == Init => Whole(live) /\ Holds(live, 1)
  BY OneIsRelease, ReleaseTree DEF Init, Whole

(* A directory that is left alone stays whole.                             *)
LEMMA WholeKept ==
    ASSUME option' = option
    PROVE  /\ live' = live => (Whole(live)' <=> Whole(live))
           /\ backup' = backup => (Whole(backup)' <=> Whole(backup))
  BY DEF Whole, Holds, FilesOf

(* Once every file is saved, the backup is whole because the original is.  *)
LEMMA SavedWhole ==
    ASSUME Whole(live), backup # Absent,
           \A f \in Source : f \in DOMAIN backup /\ backup[f] = live[f]
    PROVE  Whole(backup)
  BY DEF Whole, Holds, Source, FilesOf

(* The histories: what holds now as they are did hold before.              *)
LEMMA NotRetried ==
    ASSUME TypeOK, [Next]_vars, option' # "debian", ~retried'
    PROVE  option' = option /\ option # "debian" /\ ~retried
  <1>1. option' = option
    BY DEF Next, Step, Publish, Begin, BeginForced, CutOff, Run, Dirs, Drop,
         DropFile, DropEnd, Mount, Save, SaveFile, Remove, RemoveFile,
         RemoveEnd, Copy, CopyFile, CopyEnd, Install, Truncate, WriteVersion,
         Umount, Goto, End, vars
  <1>2. retried => retried'
    BY Zenon
       DEF Next, Step, Publish, Begin, BeginForced, CutOff, Run, Dirs, Drop,
         DropFile, DropEnd, Mount, Save, SaveFile, Remove, RemoveFile,
         RemoveEnd, Copy, CopyFile, CopyEnd, Install, Truncate, WriteVersion,
         Umount, Goto, End, History, vars
  <1> QED
    BY <1>1, <1>2

LEMMA KeptStep ==
    ASSUME TypeOK, Phases, Kept, [Next]_vars, option' = option,
           option # "debian", ~retried'
    PROVE  Kept'
  <1> USE WholeKept
  <1>1. CASE UNCHANGED vars \/ Publish
    BY <1>1 DEF vars, Publish, Kept, Source, disk
  <1>2. CASE Begin \/ BeginForced
    <2>1. Whole(live)
      BY <1>2, Zenon DEF Begin, BeginForced, Run
    <2> QED
      BY <1>2, <2>1 DEF Begin, BeginForced, Run, Kept, disk
  <1>3. CASE CutOff
    BY <1>3 DEF CutOff, Kept, Phases, TypeOK, PC
  <1>4. CASE Dirs
    <2>1. Whole(live) /\ live' = live
      BY <1>4 DEF Dirs, Kept, Whole, Holds
    <2> QED
      BY <1>4, <2>1 DEF Dirs, Goto, Kept
  <1>5. CASE Drop \/ DropFile \/ DropEnd \/ Mount
    BY <1>5 DEF Drop, DropFile, DropEnd, Mount, Goto, End, Kept, disk
  <1>6. CASE Save
    <2>1. Whole(live) /\ live # Absent
      BY <1>6 DEF Save, Kept, Whole, Holds
    <2>2. live' = live /\ pc' = "saving" /\ todo' = Source
      BY <1>6, <2>1 DEF Save, Goto, Source
    <2>3. Source' = Source
      BY <2>2 DEF Source
    <2> QED
      BY <2>1, <2>2, <2>3 DEF Kept
  <1>7. CASE SaveFile
    <2>1. PICK f \in AllFiles :
            IF f \in DOMAIN live
              THEN /\ backup' = With(backup, f, live[f])
                   /\ todo' = todo \ {f} /\ Goto("saving")
              ELSE End /\ UNCHANGED backup
      BY <1>7 DEF SaveFile, AllFiles
    <2>2. Whole(live) /\ live' = live /\ pc = "saving"
      BY <1>7 DEF SaveFile, Kept
    <2>3. CASE f \in DOMAIN live
      <3>1. backup' = With(backup, f, live[f]) /\ todo' = todo \ {f}
              /\ pc' = "saving"
        BY <2>1, <2>3 DEF Goto
      <3>2. live \in Trees /\ backup \in Trees /\ live[f] \in Releases
        BY <2>2, <2>3, DirectoryIsTree, TreeFacts DEF TypeOK, Phases
      <3>3. /\ DOMAIN backup' = DOMAIN backup \cup {f}
            /\ backup'[f] = live[f]
            /\ \A g \in DOMAIN backup \ {f} : backup'[g] = backup[g]
        BY <3>1, <3>2, WithTree
      <3>4. Source' = Source
        BY <2>2 DEF Source
      <3>5. \A g \in Source' \ todo' : g \in DOMAIN backup'
                                       /\ backup'[g] = live'[g]
        BY <2>2, <3>1, <3>3, <3>4 DEF Kept
      <3> QED
        BY <2>2, <3>1, <3>5 DEF Kept
    <2>4. CASE f \notin DOMAIN live
      BY <2>1, <2>2, <2>4 DEF End, Kept
    <2> QED
      BY <2>3, <2>4
  <1>8. CASE Remove
    <2>1. Whole(backup)
      BY <1>8, SavedWhole DEF Remove, Kept, Phases
    <2> QED
      BY <1>8, <2>1 DEF Remove, Goto, Kept, disk
  <1>9. CASE RemoveFile \/ RemoveEnd \/ Copy \/ CopyFile \/ CopyEnd \/ Truncate
               \/ WriteVersion \/ Umount
    BY <1>9 DEF RemoveFile, RemoveEnd, Copy, CopyFile, CopyEnd, Truncate,
         WriteVersion, Umount, Goto, End, Kept, disk
  <1>10. ~Install
    BY DEF Install, Phases
  <1> QED
    BY <1>1, <1>2, <1>3, <1>4, <1>5, <1>6, <1>7, <1>8, <1>9, <1>10
       DEF Next, Step

(* Until the script is run again after a run that was cut off, a whole     *)
(* release is in use or in the backup, wherever the cut was: the script    *)
(* removes the files in use only when all of them are in the backup (the   *)
(* script, lines 52-86).                                                   *)
THEOREM ReleaseKeptHolds == Spec => []ReleaseKept
  <1>1. Init => KeptInv
    BY InitWhole DEF Init, KeptInv, Kept
  <1>2. TypeOK /\ Phases /\ KeptInv /\ [Next]_vars => KeptInv'
    BY NotRetried, KeptStep DEF KeptInv
  <1>3. TypeOK /\ Phases /\ KeptInv => ReleaseKept
    BY DEF KeptInv, Kept, ReleaseKept, TypeOK, Phases, PC
  <1> QED
    BY <1>1, <1>2, <1>3, TypeAlways, PTL DEF Spec

-----------------------------------------------------------------------------
(* Before the version file is written it names an older release than the   *)
(* one being installed, so that a run cut off is never passed over.        *)
SkipInv ==
    /\ version <= offer
    /\ pc = "idle" /\ version = offer /\ ~forced => Holds(live, version)
    /\ pc \notin {"idle", "version", "umount"} /\ ~forced => version < want
    /\ pc = "copying" =>
         \A f \in FilesOf(want) \ todo : f \in DOMAIN live /\ live[f] = want
    /\ pc \in {"truncate", "version", "umount"} => Holds(live, want)
    /\ pc = "version" => version = 0
    /\ pc = "umount" => version = want

(* A release that is copied file by file is all there in the end.          *)
LEMMA CopiedHolds ==
    ASSUME live # Absent,
           \A f \in FilesOf(want) : f \in DOMAIN live /\ live[f] = want
    PROVE  Holds(live, want)
  BY DEF Holds

LEMMA HoldsKept ==
    ASSUME option' = option, live' = live
    PROVE  /\ \A r : Holds(live, r)' <=> Holds(live, r)
           /\ want' = want => (Holds(live, want)' <=> Holds(live, want))
           /\ version' = version
                => (Holds(live, version)' <=> Holds(live, version))
  BY DEF Holds, FilesOf

LEMMA SkipInvStep ==
    TypeOK /\ Phases /\ SkipInv /\ [Next]_vars => SkipInv'
  <1> SUFFICES ASSUME TypeOK, Phases, SkipInv, [Next]_vars PROVE SkipInv'
    OBVIOUS
  <1> USE HoldsKept DEF SkipInv
  <1>1. CASE UNCHANGED vars
    BY <1>1 DEF vars, disk, FilesOf
  <1>2. CASE Publish
    BY <1>2 DEF Publish, disk, TypeOK, FilesOf
  <1>3. CASE Begin \/ BeginForced
    BY <1>3 DEF Begin, BeginForced, Run, Skip, disk, TypeOK, FilesOf
  <1>4. CASE CutOff
    BY <1>4 DEF CutOff, TypeOK, PC
  <1>5. CASE Dirs \/ Drop \/ DropFile \/ DropEnd \/ Mount \/ Save \/ SaveFile
               \/ Remove \/ RemoveFile \/ RemoveEnd
    BY <1>5 DEF Dirs, Drop, DropFile, DropEnd, Mount, Save, SaveFile, Remove,
         RemoveFile, RemoveEnd, Goto, End, History, disk, TypeOK
  <1>6. CASE Copy
    BY <1>6 DEF Copy, Goto, History, TypeOK, FilesOf
  <1>7. CASE CopyFile
    <2>1. PICK f \in todo : todo' = todo \ {f} /\ live' = With(live, f, want)
      BY <1>7 DEF CopyFile
    <2>2. /\ DOMAIN live' = DOMAIN live \cup {f} /\ live'[f] = want
          /\ \A g \in DOMAIN live \ {f} : live'[g] = live[g]
      <3>1. live \in Trees /\ want \in Releases
        BY <1>7, DirectoryIsTree DEF CopyFile, TypeOK, Phases
      <3>2. f \in AllFiles
        BY <2>1 DEF TypeOK, AllFiles
      <3>3. /\ DOMAIN With(live, f, want) = DOMAIN live \cup {f}
            /\ With(live, f, want)[f] = want
            /\ \A g \in DOMAIN live \ {f} : With(live, f, want)[g] = live[g]
        <4> HIDE HoldsKept DEF SkipInv
        <4> QED
          BY <3>1, <3>2, WithTree
      <3> QED
        BY <2>1, <3>3
    <2>3. /\ pc = "copying" /\ pc' = "copying" /\ want' = want
          /\ version' = version /\ offer' = offer /\ option' = option
          /\ ~forced' => ~forced
      BY <1>7 DEF CopyFile, Goto, History
    <2>4. \A g \in FilesOf(want)' \ todo' : g \in DOMAIN live'
                                           /\ live'[g] = want'
      BY <2>1, <2>2, <2>3 DEF FilesOf
    <2> QED
      BY <2>3, <2>4
  <1>8. CASE CopyEnd
    BY <1>8, CopiedHolds DEF CopyEnd, Goto, History, disk, TypeOK, Phases
  <1>9. CASE Install
    <2>1. /\ live' = [f \in FilesOf(want) |-> want] /\ want \in Releases
          /\ want' = want /\ option' = option /\ pc' = "truncate"
          /\ version' = version /\ offer' = offer /\ pc = "install"
          /\ ~forced' => ~forced
      BY <1>9 DEF Install, Goto, History, Phases
    <2>2. Holds(live, want)'
      BY <2>1, ReleaseTree DEF Holds, FilesOf
    <2> QED
      BY <2>1, <2>2
  <1>10. CASE Truncate \/ WriteVersion \/ Umount
    BY <1>10 DEF Truncate, WriteVersion, Umount, Goto, End, History, TypeOK
  <1> QED
    BY <1>1, <1>2, <1>3, <1>4, <1>5, <1>6, <1>7, <1>8, <1>9, <1>10
       DEF Next, Step

(* An item that is not asked for is passed over only if the offered        *)
(* release is all there, whatever was cut off before, unless that was a    *)
(* forced run of the release that the version file named already: the      *)
(* version file names the new release only after its last file is in place *)
(* (updater.c, 653-661; the script, 62, 73, 84).                           *)
THEOREM SkipSoundHolds == Spec => []SkipSound
  <1>1. Init => SkipInv
    BY InitWhole DEF Init, SkipInv
  <1>2. SkipInv => SkipSound
    BY DEF SkipInv, SkipSound, Skip
  <1> QED
    BY <1>1, <1>2, SkipInvStep, TypeAlways, PTL DEF Spec
=============================================================================
