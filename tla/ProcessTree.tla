---------------------------- MODULE ProcessTree -----------------------------
(***************************************************************************)
(* Which process yinkad signals to end a program (yinkad.c, lines          *)
(* 154-233): getFatherPid climbs from the program towards init, reading    *)
(* /proc/<pid>/stat of one process after the other, and stops below init,  *)
(* below a shell or when a process is gone; process_kill signals the one   *)
(* it came to, or the program.  Meanwhile processes exit and their         *)
(* children become init's.                                                 *)
(*                                                                         *)
(* A step is one look at /proc.  The recursion only hands its result down, *)
(* so the process climbed to and the one below it are all it needs (and a  *)
(* climb that overflows the stack is one that never ends).  No pid is used *)
(* again while the climb lasts.                                            *)
(***************************************************************************)
EXTENDS Naturals, FiniteSets

CONSTANTS
    Others,   \* the pids of all but the three below
    Yinkad    \* g_yinkad_pid

init     == 1
kthreadd == 2

ProcessTreeAssumption ==
    /\ Yinkad \in Nat /\ Yinkad > kthreadd
    /\ Others \subseteq {n \in Nat : n > Yinkad} /\ IsFiniteSet(Others)

VARIABLES
    parent,   \* [x]: the parent of process x
    name,     \* [x]: what its name is to sscanf, one of Names
    alive,    \* the processes that have not exited
    program,  \* the pid that pidof has found
    pc,       \* "stat", "open", "read", "kill", "done" or "crashed"
    cur,      \* getFatherPid's pid, and that of the call below it; 0 is none
    below,
    target,   \* the pid to signal; 0 before it is known
    parent0   \* history: the tree when the climb began

vars == <<parent, name, alive, program, pc, cur, below, target, parent0>>

Processes == Others \cup {Yinkad}

(* A "shell" is read as bash or sudo, a "spaced" name has a blank in it, a *)
(* "numbered" one blanks and digits that sscanf takes for the parent.      *)
Names == {"plain", "shell", "spaced", "numbered"}

(* A process is younger than its parent.                                   *)
Trees ==
    {f \in [Processes -> Processes \cup {init, kthreadd}] :
        f[Yinkad] = init /\ \A x \in Processes : f[x] < x}

TypeOK ==
    /\ parent \in Trees /\ parent0 \in Trees
    /\ name \in [Processes -> Names]
    /\ alive \subseteq Processes /\ Yinkad \in alive
    /\ program \in Others
    /\ pc \in {"stat", "open", "read", "kill", "done", "crashed"}
    /\ cur \in Processes
    /\ below \in Processes \cup {0}
    /\ target \in Processes \cup {0}
    /\ pc \in {"kill", "done"} => target # 0

Init ==
    /\ parent \in Trees /\ parent0 = parent
    /\ name \in [Processes -> Names]
    /\ name[Yinkad] = "plain"
    /\ alive = Processes
    /\ program \in Others
    /\ pc = "stat" /\ cur = program /\ below = 0 /\ target = 0

-----------------------------------------------------------------------------
(* process_kill; below 1 are -2, -1 and 0, which 0 stands for here.        *)
Choose(r) == IF r > 1 /\ r # Yinkad THEN r ELSE program

Return(r) ==
    /\ pc' = "kill" /\ target' = Choose(r)
    /\ UNCHANGED <<cur, below>>

Stat ==
    /\ pc = "stat"
    /\ IF cur \in alive
         THEN pc' = "open" /\ UNCHANGED <<cur, below, target>>
         ELSE Return(0)
    /\ UNCHANGED <<parent, name, alive, program, parent0>>

(* fopen is not checked: the process is gone since stat.                   *)
OpenFailed ==
    /\ pc = "open" /\ cur \notin alive
    /\ pc' = "crashed"
    /\ UNCHANGED <<parent, name, alive, program, cur, below, target, parent0>>

(* What an open file says is made when it is read.                         *)
Open ==
    /\ pc = "open" /\ cur \in alive
    /\ pc' = "read"
    /\ UNCHANGED <<parent, name, alive, program, cur, below, target, parent0>>

Climb(n) ==
    /\ cur' = n /\ below' = cur
    /\ pc' = "stat"
    /\ UNCHANGED target

(* On to the parent as it was read; 0 is no process.                       *)
Up(n) ==
    \/ n = init             /\ Return(cur)
    \/ n \in {0, kthreadd}  /\ Return(0)
    \/ n \in Processes      /\ Climb(n)

(* Deliberately wrong variant: a shell ends the climb above it.            *)
ReadAtShell ==
    /\ pc = "read" /\ cur \in alive
    /\ \/ name[cur] = "spaced" /\ Up(0)
       \/ name[cur] = "shell"  /\ Return(cur)
       \/ name[cur] = "plain"  /\ Up(parent[cur])
    /\ UNCHANGED <<parent, name, alive, program, parent0>>

(* Deliberately wrong variant: only init's children end the climb.         *)
ReadStopsLow ==
    /\ pc = "read" /\ cur \in alive
    /\ \/ name[cur] \in {"spaced", "shell"} /\ Return(below)
       \/ name[cur] = "plain"  /\ Return(cur)
    /\ UNCHANGED <<parent, name, alive, program, parent0>>

(* The file of a process that is gone since fopen reads as empty: no name, *)
(* no parent.  A blank in a name upsets sscanf: no parent is read, or a    *)
(* number in the name is.  Above a shell lies what it was started from.    *)
Read ==
    /\ pc = "read"
    /\ \/ cur \notin alive /\ Up(0)
       \/ /\ cur \in alive
          /\ \/ name[cur] = "shell"  /\ Return(below)
             \/ name[cur] = "plain"  /\ Up(parent[cur])
             \/ name[cur] = "spaced" /\ Up(0)
             \/ name[cur] = "numbered"
                  /\ \E n \in Processes \cup {0, init, kthreadd} : Up(n)
    /\ UNCHANGED <<parent, name, alive, program, parent0>>

Signal ==
    /\ pc = "kill" /\ pc' = "done"
    /\ alive' = alive \ {target}
    /\ parent' = [x \in Processes |-> IF parent[x] = target THEN init
                                                            ELSE parent[x]]
    /\ UNCHANGED <<name, program, cur, below, target, parent0>>

Exit(x) ==
    /\ pc # "done" /\ x \in alive
    /\ alive' = alive \ {x}
    /\ parent' = [y \in Processes |-> IF parent[y] = x THEN init
                                                       ELSE parent[y]]
    /\ UNCHANGED <<name, program, pc, cur, below, target, parent0>>

Next ==
    \/ Stat \/ OpenFailed \/ Open \/ Read \/ Signal
    \/ \E x \in Others : Exit(x)

Spec == Init /\ [][Next]_vars

-----------------------------------------------------------------------------
(* The line of x: x and its ancestors when the climb began, the smallest   *)
(* set with x and the parent of every process in it.                       *)
Rooted(S, x) == x \in S /\ \A y \in S \cap Processes : parent0[y] \in S

Line(x) ==
    LET all == Processes \cup {init, kthreadd}
    IN  {y \in all : \A S \in SUBSET all : Rooted(S, x) => y \in S}

(* Numbers in a name, which may lead anywhere, are in none of the line.    *)
Readable == \A x \in Line(program) \cap Processes : name[x] # "numbered"

(* Whoever exits during the climb, the signal goes to the program or to an *)
(* ancestor of it, never to yinkad, init or a kernel thread, and never to  *)
(* a terminal's shell or anything above it, as long as no number in a name *)
(* is taken for a parent (lines 154-218).                                  *)
SignalsOwnLine ==
    pc \in {"kill", "done"} /\ Readable =>
        /\ target \in Line(program) \ {Yinkad, init, kthreadd}
        /\ \A x \in Line(program) \ Line(target) : name[x] # "shell"
        /\ target # program => name[target] # "shell"

(* A program of the desktop session is ended with all its family up to     *)
(* init's child, which a restart relies on to end helpers, too, if nothing *)
(* in its line exits meanwhile (lines 188-202).                            *)
TakesWholeFamily ==
    LET line == Line(program) \cap Processes
    IN  /\ pc = "kill" /\ line \subseteq alive
        /\ \A x \in line : name[x] = "plain"
        /\ Yinkad \notin line /\ kthreadd \notin Line(program)
        => parent0[target] = init
=============================================================================
