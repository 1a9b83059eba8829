---------------------------- MODULE Supervision ----------------------------
(***************************************************************************)
(* What the two threads of yinkad may do to the supervised programs, and   *)
(* what they owe them, apart from how they decide: the abstract            *)
(* specification of Watchdog, and the yinkad of UpdateAndRestart.          *)
(*                                                                         *)
(* A thread works on one program at a time.  The main thread starts work   *)
(* only on a program whose switch it sees on, the datagram thread whenever *)
(* a command says so; a restart finds an instance, ends it and starts one, *)
(* and a postponed request is forgotten only after a restart made for it.  *)
(* Keepalives, counters, clocks, reboots and the commands are left out.    *)
(***************************************************************************)
CONSTANTS
    Programs,    \* the supervised programs
    NoProgram,   \* what an idle thread works on
    Pids,        \* ids of instances
    NoPid        \* pidof found nothing

ASSUME SupervisionAssumption ==
    /\ NoProgram \notin Programs
    /\ NoPid \notin Pids

VARIABLES
    on,     \* [p]: the switch of p
    asked,  \* [p]: a restart of p was postponed because p is busy
    live,   \* [p]: the live instances of p
    job,    \* [t]: what thread t is doing
    up      \* the daemon lives

svars == <<on, asked, live, job, up>>

Threads == {"main", "recv"}

Stages == {"idle", "looked", "find", "kill", "start", "settle"}

Jobs == [stage : Stages, prog : Programs \cup {NoProgram},
         pid : Pids \cup {NoPid}, kind : {"restart", "safe", "close"}]

NoJob == [stage |-> "idle", prog |-> NoProgram, pid |-> NoPid,
          kind |-> "restart"]

SupervisionTypeOK ==
    /\ on \in [Programs -> BOOLEAN]
    /\ asked \in [Programs -> BOOLEAN]
    /\ live \in [Programs -> SUBSET Pids]
    /\ job \in [Threads -> Jobs]
    /\ up \in BOOLEAN

Init ==
    /\ on \in [Programs -> BOOLEAN]
    /\ asked = [p \in Programs |-> FALSE]
    /\ live \in [Programs -> {{}} \cup {{x} : x \in Pids}]
    /\ job = [t \in Threads |-> NoJob]
    /\ up = TRUE

-----------------------------------------------------------------------------
Doing(t, s) == up /\ job[t].stage = s

Become(t, j) == job' = [job EXCEPT ![t] = j]

Work(s, p, n) == [stage |-> s, prog |-> p, pid |-> NoPid, kind |-> n]

(* The main thread turns to p because its switch is on.                    *)
Look(p) ==
    /\ Doing("main", "idle") /\ on[p]
    /\ Become("main", Work("looked", p, "restart"))
    /\ UNCHANGED <<on, asked, live, up>>

Leave ==
    /\ Doing("main", "looked")
    /\ Become("main", NoJob)
    /\ UNCHANGED <<on, asked, live, up>>

(* It restarts p: for a postponed request, or because p is dead or silent. *)
Begin(n) ==
    LET p == job["main"].prog
    IN  /\ Doing("main", "looked")
        /\ n = "safe" => asked[p]
        /\ Become("main", Work("find", p, n))
        /\ UNCHANGED <<on, asked, live, up>>

(* The datagram thread restarts or closes p; a forced restart may turn the *)
(* switch on, a close turns it off.                                        *)
Order(p, n) ==
    /\ Doing("recv", "idle")
    /\ Become("recv", Work("find", p, n))
    /\ on' \in IF n = "close" THEN {[on EXCEPT ![p] = FALSE]}
                              ELSE {on, [on EXCEPT ![p] = TRUE]}
    /\ UNCHANGED <<asked, live, up>>

(* It postpones a restart of p.                                            *)
Request(p) ==
    /\ Doing("recv", "idle")
    /\ asked' = [asked EXCEPT ![p] = TRUE]
    /\ UNCHANGED <<on, live, job, up>>

-----------------------------------------------------------------------------
(* process_restart and process_kill: find an instance, end it, start one.  *)

Advance(j, s, x) == [stage |-> s, prog |-> j.prog, pid |-> x,
                     kind |-> j.kind]

Find(t) ==
    LET p == job[t].prog
    IN  /\ Doing(t, "find")
        /\ \E x \in IF live[p] = {} THEN {NoPid} ELSE live[p] :
             Become(t, Advance(job[t], "kill", x))
        /\ UNCHANGED <<on, asked, live, up>>

Kill(t) ==
    LET p == job[t].prog
    IN  /\ Doing(t, "kill")
        /\ live' = [live EXCEPT ![p] = @ \ {job[t].pid}]
        /\ Become(t, IF job[t].kind = "close" THEN NoJob
                     ELSE Advance(job[t], "start", NoPid))
        /\ UNCHANGED <<on, asked, up>>

(* One more instance, or none if the start fails.                          *)
Start(t) ==
    LET p == job[t].prog
        Held == {job[u].pid : u \in Threads}
    IN  /\ Doing(t, "start")
        /\ \/ \E x \in Pids \ (live[p] \cup Held) :
                live' = [live EXCEPT ![p] = @ \cup {x}]
           \/ UNCHANGED live
        /\ \/ t = "main" /\ Become(t, Advance(job[t], "settle", NoPid))
           \/ job[t].kind # "safe" /\ Become(t, NoJob)
        /\ UNCHANGED <<on, asked, up>>

(* The bookkeeping after a restart by the main thread: a postponed request *)
(* is cleared after the restart made for it.                               *)
Settle ==
    LET p == job["main"].prog
    IN  /\ Doing("main", "settle")
        /\ asked' = IF job["main"].kind = "safe"
                      THEN [asked EXCEPT ![p] = FALSE] ELSE asked
        /\ Become("main", NoJob)
        /\ UNCHANGED <<on, live, up>>

-----------------------------------------------------------------------------
(* Commands and reloads change switches, programs end, the daemon crashes, *)
(* the machine goes down.                                                  *)

Switch ==
    /\ up
    /\ on' \in [Programs -> BOOLEAN]
    /\ UNCHANGED <<asked, live, job, up>>

Exit(p) ==
    /\ \E x \in live[p] : live' = [live EXCEPT ![p] = @ \ {x}]
    /\ UNCHANGED <<on, asked, job, up>>

Down ==
    /\ up /\ up' = FALSE
    /\ live' \in {live, [p \in Programs |-> {}]}
    /\ Become("main", NoJob)
    /\ UNCHANGED <<on, asked>>

ThreadStep(t) == Find(t) \/ Kill(t) \/ Start(t)

SNext ==
    \/ Leave \/ Settle
    \/ \E n \in {"restart", "safe"} : Begin(n)
    \/ \E p \in Programs :
         \/ Look(p) \/ Request(p) \/ Exit(p)
         \/ \E n \in {"restart", "close"} : Order(p, n)
    \/ \E t \in Threads : ThreadStep(t)
    \/ Switch \/ Down

SSpec == Init /\ [][SNext]_svars

(* What the daemon owes, whatever happens: a dead program is started, a    *)
(* postponed restart made, unless the switch is turned off or the daemon   *)
(* ends.                                                                   *)
Restored ==
    \A p \in Programs :
        (live[p] = {} /\ on[p]) ~> (live[p] # {} \/ ~on[p] \/ ~up)

Honoured ==
    \A p \in Programs :
        (asked[p] /\ on[p]) ~> (~asked[p] \/ ~on[p] \/ ~up)
=============================================================================
