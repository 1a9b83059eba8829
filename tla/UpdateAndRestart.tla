-------------------------- MODULE UpdateAndRestart --------------------------
(***************************************************************************)
(* The updater and yinkad together: the updater installs a release of a    *)
(* program and announces it to yinkad by one datagram (updater.c, 653-669, *)
(* 830-864), yinkad restarts the program (yinkad.c, 594-609).  Each knows  *)
(* of the other nothing but this.                                          *)
(*                                                                         *)
(* The yinkad here is Supervision, which Watchdog implements, as long as   *)
(* it lives.  What the updater does before it installs is Updater, the     *)
(* script it runs is UpdateScript.                                         *)
(***************************************************************************)
EXTENDS Supervision, Naturals, FiniteSets

CONSTANTS
    MaxRelease,  \* bound of the model: releases offered
    MaxMail,     \* bound of the model: datagrams under way to a program
    MaxCrashes   \* bound of the model: crashes of the updater

ASSUME UpdateAndRestartAssumption ==
    /\ MaxRelease \in Nat \ {0}
    /\ MaxMail \in Nat \ {0}
    /\ MaxCrashes \in Nat

VARIABLES
    offer,      \* the release the server offers
    installed,  \* [p]: the release on the disk; 0 while it is incomplete
    recorded,   \* [p]: its version file
    upc,        \* the updater: "idle", "install", "notify"
    target,     \* the program it installs ...
    want,       \* ... and the release
    crashes,    \* how often it has crashed
    mail,       \* [p]: datagrams on their way
    image,      \* [p][x]: the release that instance x of p runs
    excuse      \* history, [p]: what came in the way of the last update

updater == <<offer, installed, recorded, upc, target, want, crashes>>
vars    == <<svars, updater, mail, image, excuse>>

Releases == 1..MaxRelease

TypeOK ==
    /\ SupervisionTypeOK
    /\ offer \in Releases
    /\ installed \in [Programs -> Releases \cup {0}]
    /\ recorded \in [Programs -> Releases]
    /\ upc \in {"idle", "install", "notify"}
    /\ target \in Programs \cup {NoProgram}
    /\ want \in Releases \cup {0}
    /\ crashes \in 0..MaxCrashes
    /\ mail \in [Programs -> 0..MaxMail]
    /\ image \in [Programs -> [Pids -> Releases \cup {0}]]
    /\ excuse \in [Programs -> SUBSET {"lost", "unannounced", "swallowed",
                                       "twins", "asked"}]

UInit ==
    /\ Init
    /\ offer = 1
    /\ installed = [p \in Programs |-> 1]
    /\ recorded = [p \in Programs |-> 1]
    /\ upc = "idle" /\ target = NoProgram /\ want = 0 /\ crashes = 0
    /\ mail = [p \in Programs |-> 0]
    /\ image = [p \in Programs |-> [x \in Pids |-> IF x \in live[p] THEN 1
                                                                    ELSE 0]]
    /\ excuse = [p \in Programs |-> {}]

Excuse(p, e) == excuse' = [excuse EXCEPT ![p] = @ \cup {e}]

-----------------------------------------------------------------------------
(* The updater.                                                            *)

Publish ==
    /\ offer < MaxRelease
    /\ offer' = offer + 1
    /\ UNCHANGED <<installed, recorded, upc, target, want, crashes, mail,
                   image, excuse, svars>>

(* An item whose version file differs from the offer is installed; first   *)
(* the script removes what is there.                                       *)
Remove(p) ==
    /\ upc = "idle" /\ recorded[p] # offer
    /\ upc' = "install" /\ target' = p /\ want' = offer
    /\ installed' = [installed EXCEPT ![p] = 0]
    /\ excuse' = [excuse EXCEPT ![p] = IF Cardinality(live[p]) > 1
                                         THEN {"twins"} ELSE {}]
    /\ UNCHANGED <<offer, recorded, crashes, mail, image, svars>>

(* The command of the item succeeds or fails; either is announced.         *)
Install ==
    /\ upc = "install" /\ upc' = "notify"
    /\ \/ /\ installed' = [installed EXCEPT ![target] = want]
          /\ recorded' = [recorded EXCEPT ![target] = want]
       \/ UNCHANGED <<installed, recorded>>
    /\ UNCHANGED <<offer, target, want, crashes, mail, image, excuse, svars>>

UpdaterIdle == upc' = "idle" /\ target' = NoProgram /\ want' = 0

(* send_msg_daemon_server: one datagram, which no one acknowledges.        *)
Notify ==
    /\ upc = "notify" /\ UpdaterIdle
    /\ \/ mail[target] < MaxMail
          /\ mail' = [mail EXCEPT ![target] = @ + 1] /\ UNCHANGED excuse
       \/ Excuse(target, "lost") /\ UNCHANGED mail
    /\ UNCHANGED <<offer, installed, recorded, crashes, image, svars>>

UpdaterCrash ==
    /\ upc # "idle" /\ UpdaterIdle
    /\ crashes < MaxCrashes /\ crashes' = crashes + 1
    /\ IF upc = "notify" THEN Excuse(target, "unannounced")
                         ELSE UNCHANGED excuse
    /\ UNCHANGED <<offer, installed, recorded, mail, image, svars>>

UpdaterStep == (\E p \in Programs : Remove(p)) \/ Install \/ Notify

-----------------------------------------------------------------------------
(* yinkad.  An instance runs what was on the disk when it was started.     *)

Images ==
    image' = [p \in Programs |-> [x \in Pids |->
                 IF x \in live'[p]
                   THEN IF x \in live[p] THEN image[p][x] ELSE installed[p]
                   ELSE 0]]

Twins(p) == IF Cardinality(live'[p]) > 1 THEN {"twins"} ELSE {}

(* A step of Supervision that no announcement causes.                      *)
Yinkad(A) ==
    /\ A
    /\ Images
    /\ excuse' = [p \in Programs |-> excuse[p] \cup Twins(p)]
    /\ UNCHANGED <<updater, mail>>

(* The main thread is making the safe restart postponed before, and an     *)
(* instance is alive that it has started already or will not end.          *)
Passed(p) ==
    LET j == job["main"]
    IN  /\ j.prog = p /\ j.kind = "safe"
        /\ j.stage \in {"kill", "start", "settle"}
        /\ live[p] \ {j.pid} # {}

(* A safe restart is postponed while the program is busy; when the one     *)
(* that is being made ends, it takes this one with it.                     *)
DeliverBusy(p) ==
    /\ Request(p)
    /\ IF Passed(p) THEN Excuse(p, "swallowed") ELSE UNCHANGED excuse

(* An idle program is restarted; autoprint is asked to restart itself.     *)
DeliverIdle(p) ==
    \/ UNCHANGED <<on, excuse>> /\ Order(p, "restart")
    \/ Excuse(p, "asked") /\ UNCHANGED svars

(* Deliberately wrong variant: a busy program is left alone.               *)
DeliverUnlessBusy(p) ==
    /\ mail[p] > 0 /\ mail' = [mail EXCEPT ![p] = @ - 1]
    /\ Doing("recv", "idle")
    /\ DeliverIdle(p) \/ UNCHANGED <<svars, excuse>>
    /\ UNCHANGED <<updater, image>>

Deliver(p) ==
    /\ mail[p] > 0 /\ mail' = [mail EXCEPT ![p] = @ - 1]
    /\ Doing("recv", "idle")
    /\ DeliverBusy(p) \/ DeliverIdle(p)
    /\ UNCHANGED <<updater, image>>

MainBegin  == \E n \in {"restart", "safe"} : Yinkad(Begin(n))
MainThread == Yinkad(Leave \/ ThreadStep("main") \/ Settle) \/ MainBegin
RecvThread == Yinkad(ThreadStep("recv"))
Others ==
    \/ Yinkad(Switch)
    \/ \E p \in Programs :
         Yinkad(Request(p) \/ Exit(p) \/ \E n \in {"restart", "close"} :
                                             Order(p, n))

Next ==
    \/ Publish \/ UpdaterStep \/ UpdaterCrash
    \/ MainThread \/ RecvThread \/ Others
    \/ \E p \in Programs : Deliver(p) \/ Yinkad(Look(p))

Spec == UInit /\ [][Next]_vars

(* The updater asks again at every interval.  The threads of yinkad run,   *)
(* the main thread comes to every program and finds a postponed request    *)
(* (SafeRestartConsumed of WatchdogRefinement), the datagram thread takes  *)
(* every datagram in turn.                                                 *)
FairSpec ==
    /\ Spec
    /\ WF_vars(UpdaterStep)
    /\ WF_vars(MainThread) /\ WF_vars(RecvThread)
    /\ \A p \in Programs :
         /\ SF_vars(Deliver(p))
         /\ SF_vars(Yinkad(Look(p)))
         /\ SF_vars(Yinkad(job["main"].prog = p /\ Begin("safe")))

-----------------------------------------------------------------------------
(* The release that is installed in the end is the one that runs in the    *)
(* end, although neither process waits for the other, programs are started *)
(* in the middle of an installation and restarts overlap; unless the       *)
(* datagram was lost or never sent, the request was swallowed, two         *)
(* instances were alive at once, the program was asked to restart itself,  *)
(* its switch stays off or no installation succeeds                        *)
(* (updater.c, 663-665, yinkad.c, 405-410 and 594-609).                    *)
UpdateTakesEffect ==
    \A p \in Programs :
        <>[]\/ ~on[p] \/ installed[p] = 0 \/ excuse[p] # {}
            \/ \A x \in live[p] : image[p][x] = installed[p]
=============================================================================
