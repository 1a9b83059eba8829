---------------------------- MODULE PartsProofs -----------------------------
(***************************************************************************)
(* Of the parts that work by themselves, for every value of the constants: *)
(* the climb over the process tree (ProcessTree) signals a process of the  *)
(* program's own line and takes its whole family; a minute of yinkad       *)
(* (MinuteCounter) lasts nearly 60 seconds or one delay, an allowance as   *)
(* many of them as granted; a load (Config) is what the file says; the     *)
(* updater runs (UpdateXml) what update.xml asks for; and MD5 (Md5) is     *)
(* given the padded message.                                               *)
(***************************************************************************)
EXTENDS MCParts, WellFoundedInduction, TLAPS

-----------------------------------------------------------------------------
(* The line of a process.                                                  *)

(* What TreeInv needs to know of the tree before the climb.                *)
Rootless ==
    /\ Tree!ProcessTreeAssumption
    /\ parent0 \in [Tree!Processes ->
                      Tree!Processes \cup {Tree!init, Tree!kthreadd}]

(* Init, and the kernel's thread, are no process of the model.             *)
LEMMA Above ==
    ASSUME Tree!ProcessTreeAssumption
    PROVE  /\ 0 \notin Tree!Processes
           /\ Tree!init \notin Tree!Processes
           /\ Tree!kthreadd \notin Tree!Processes
           /\ Yinkad \in Tree!Processes /\ Yinkad \notin Others
           /\ Others \subseteq Tree!Processes
           /\ \A x \in Tree!Processes : x \in Nat /\ x > 1
  BY DEF Tree!ProcessTreeAssumption, Tree!Processes, Tree!init, Tree!kthreadd

(* A line begins with its process and has the parents of its processes.    *)
LEMMA LineRooted ==
    ASSUME Rootless, NEW x \in Tree!Processes
    PROVE  /\ x \in Tree!Line(x)
           /\ \A y \in Tree!Line(x) \cap Tree!Processes :
                parent0[y] \in Tree!Line(x)
           /\ Tree!Line(x) \subseteq
                Tree!Processes \cup {Tree!init, Tree!kthreadd}
  BY DEF Rootless, Tree!Line, Tree!Rooted

(* It is in every set that does.                                           *)
LEMMA LineSmallest ==
    ASSUME Rootless, NEW x \in Tree!Processes,
           NEW S \in SUBSET (Tree!Processes \cup {Tree!init, Tree!kthreadd}),
           x \in S, \A y \in S \cap Tree!Processes : parent0[y] \in S
    PROVE  Tree!Line(x) \subseteq S
  BY DEF Tree!Line, Tree!Rooted

(* The line of a member is part of the line.                               *)
LEMMA LineWithin ==
    ASSUME Rootless, NEW x \in Tree!Processes,
           NEW y \in Tree!Line(x) \cap Tree!Processes
    PROVE  Tree!Line(y) \subseteq Tree!Line(x)
  BY LineRooted, LineSmallest

(* Above its process, a line is that of the parent.                        *)
LEMMA LineUnfolds ==
    ASSUME Rootless, NEW x \in Tree!Processes, parent0[x] \in Tree!Processes
    PROVE  Tree!Line(x) \subseteq {x} \cup Tree!Line(parent0[x])
  <1> DEFINE S == {x} \cup Tree!Line(parent0[x])
  <1>1. S \subseteq Tree!Processes \cup {Tree!init, Tree!kthreadd}
    BY LineRooted
  <1>2. \A y \in S \cap Tree!Processes : parent0[y] \in S
    BY LineRooted
  <1>3. x \in S
    OBVIOUS
  <1> HIDE DEF S
  <1>4. Tree!Line(x) \subseteq S
    BY <1>1, <1>2, <1>3, LineSmallest
  <1> QED
    BY <1>4 DEF S

-----------------------------------------------------------------------------
(* The climb.                                                              *)

(* The types of the climb; a process has the parent it had, or that parent *)
(* has exited and init has the process.                                    *)
TreeType ==
    /\ Rootless
    /\ parent \in [Tree!Processes ->
                    Tree!Processes \cup {Tree!init, Tree!kthreadd}]
    /\ \A x \in Tree!Processes :
         \/ parent[x] = parent0[x]
         \/ parent[x] = Tree!init /\ parent0[x] \in Tree!Processes \ alive
    /\ name \in [Tree!Processes -> Tree!Names]
    /\ alive \subseteq Tree!Processes
    /\ program \in Others
    /\ treePc \in {"stat", "open", "read", "kill", "done", "crashed"}
    /\ treeCur \in Tree!Processes
    /\ below \in Tree!Processes \cup {0}
    /\ target \in Tree!Processes \cup {0}

(* The climb has come to y over plain processes of the line only.  That is *)
(* so as long as no number in a name has led it astray.                    *)
ClimbedTo(y) ==
    /\ y \in Tree!Line(program)
    /\ \A x \in Tree!Line(program) \ Tree!Line(y) : name[x] = "plain"

ClimbInv ==
    treePc \in {"stat", "open", "read"} /\ Tree!Readable =>
        /\ ClimbedTo(treeCur)
        /\ below # 0 => ClimbedTo(below) /\ name[below] = "plain"

TreeInv ==
    /\ TreeType
    /\ ClimbInv
    /\ Tree!SignalsOwnLine
    /\ Tree!TakesWholeFamily

(* The climb begins at the program.                                        *)
LEMMA TreeInit ==
    ASSUME Tree!ProcessTreeAssumption, Tree!Init
    PROVE  TreeInv
  <1>1. TreeType
    BY Above DEF Tree!Init, Tree!Trees, TreeType, Rootless
  <1>2. ClimbInv
    BY <1>1, Above, LineRooted
    DEF Tree!Init, ClimbInv, ClimbedTo, TreeType, Rootless
  <1> QED
    BY <1>1, <1>2
    DEF TreeInv, Tree!Init, Tree!SignalsOwnLine, Tree!TakesWholeFamily

(* Every step keeps the types, and processes only leave.                   *)
LEMMA TreeTypeStep ==
    ASSUME TreeInv, Tree!Next
    PROVE  /\ TreeType'
           /\ parent0' = parent0 /\ name' = name /\ program' = program
           /\ alive' \subseteq alive
  <1> USE Above DEF TreeInv, TreeType, Rootless
  <1>0. \A r \in Tree!Processes \cup {0} :
          Tree!Choose(r) \in Tree!Processes \cup {0}
    BY DEF Tree!Choose
  <1>1. CASE Tree!Stat
    BY <1>0, <1>1 DEF Tree!Stat, Tree!Return
  <1>2. CASE Tree!OpenFailed
    BY <1>2 DEF Tree!OpenFailed
  <1>3. CASE Tree!Read
    BY <1>0, <1>3 DEF Tree!Read, Tree!Up, Tree!Return, Tree!Climb
  <1>4. CASE Tree!Signal
    <2>1. /\ alive' = alive \ {target} /\ treePc' = "done"
          /\ UNCHANGED <<name, program, treeCur, below, target, parent0>>
          /\ parent' = [x \in Tree!Processes |->
                          IF parent[x] = target THEN Tree!init
                                                ELSE parent[x]]
      BY <1>4 DEF Tree!Signal
    <2>2. ASSUME NEW x \in Tree!Processes
          PROVE  \/ parent'[x] = parent0[x]
                 \/ /\ parent'[x] = Tree!init
                    /\ parent0[x] \in Tree!Processes \ alive'
      <3>1. CASE parent[x] = target
        <4>1. target \in Tree!Processes /\ target # Tree!init
          BY <3>1 DEF Tree!init, Tree!kthreadd
        <4>2. parent0[x] = target
          BY <3>1, <4>1
        <4> QED
          BY <2>1, <3>1, <4>1, <4>2
      <3>2. CASE parent[x] # target
        BY <2>1, <3>2
      <3> QED
        BY <3>1, <3>2
    <2> QED
      BY <2>1, <2>2
  <1>5. CASE \E x \in Others : Tree!Exit(x)
    BY <1>5 DEF Tree!Exit
  <1>6. CASE Tree!Open
    BY <1>6 DEF Tree!Open
  <1> QED
    BY <1>1, <1>2, <1>3, <1>4, <1>5, <1>6 DEF Tree!Next

(* A process ended or an exit leaves what the climb has come to; and what  *)
(* is not alive any more was alive or was not before.                      *)
LEMMA LinesKept ==
    ASSUME UNCHANGED <<parent0, name, program>>
    PROVE  /\ \A x : Tree!Line(x)' = Tree!Line(x)
           /\ \A y : ClimbedTo(y)' <=> ClimbedTo(y)
           /\ Tree!Readable' <=> Tree!Readable
  <1>1. \A x : Tree!Line(x)' = Tree!Line(x)
    BY DEF Tree!Line, Tree!Rooted
  <1> QED
    BY <1>1 DEF ClimbedTo, Tree!Readable

(* In a readable line no name is numbered.                                 *)
LEMMA ReadableLine ==
    ASSUME TreeType, Tree!Readable, ClimbedTo(treeCur)
    PROVE  name[treeCur] \in {"plain", "shell", "spaced"}
  BY DEF TreeType, Tree!Names, Tree!Readable, ClimbedTo

(* The climb stays on the line.                                            *)
LEMMA ClimbStep ==
    ASSUME TreeInv, Tree!Next
    PROVE  ClimbInv'
  <1> SUFFICES ASSUME treePc' \in {"stat", "open", "read"}, Tree!Readable
               PROVE  /\ ClimbedTo(treeCur')
                      /\ below' # 0 => /\ ClimbedTo(below')
                                       /\ name[below'] = "plain"
    BY TreeTypeStep, LinesKept DEF ClimbInv, ClimbedTo
  <1>1. CASE /\ UNCHANGED <<treeCur, below>>
             /\ treePc \in {"stat", "open", "read"}
    BY <1>1 DEF TreeInv, ClimbInv
  <1>2. CASE /\ treePc = "read" /\ Tree!Climb(parent[treeCur])
             /\ name[treeCur] = "plain" /\ parent[treeCur] \in Tree!Processes
    <2>1. /\ ClimbedTo(treeCur)
          /\ parent[treeCur] = parent0[treeCur]
          /\ Rootless /\ treeCur \in Tree!Processes
          /\ program \in Tree!Processes
      BY <1>2, Above DEF TreeInv, TreeType, ClimbInv, Rootless
    <2>2. treeCur' = parent0[treeCur] /\ below' = treeCur
      BY <1>2, <2>1 DEF Tree!Climb
    <2>3. treeCur' \in Tree!Line(program)
      BY <2>1, <2>2, LineRooted DEF ClimbedTo
    <2>4. Tree!Line(treeCur) \subseteq {treeCur} \cup Tree!Line(treeCur')
      BY <1>2, <2>1, <2>2, LineUnfolds
    <2> QED
      BY <1>2, <2>1, <2>2, <2>3, <2>4 DEF ClimbedTo
  <1>3. CASE Tree!Read
    <2>1. /\ treePc = "read" /\ treeCur \in Tree!Processes
          /\ name[treeCur] \in {"plain", "shell", "spaced"}
      BY <1>3, ReadableLine DEF Tree!Read, TreeInv, TreeType, ClimbInv
    <2>2. \A r : ~Tree!Return(r)
      BY DEF Tree!Return
    <2>3. ~Tree!Up(0)
      BY <2>2, Above
      DEF Tree!Up, Tree!init, TreeInv, TreeType, Rootless
    <2>4. name[treeCur] = "plain" /\ Tree!Up(parent[treeCur])
      BY <1>3, <2>1, <2>2, <2>3 DEF Tree!Read
    <2> QED
      BY <1>2, <2>1, <2>2, <2>4 DEF Tree!Up
  <1>4. CASE Tree!Stat \/ Tree!Open \/ \E x \in Others : Tree!Exit(x)
    BY <1>1, <1>4 DEF Tree!Stat, Tree!Open, Tree!Exit, Tree!Return
  <1> QED
    BY <1>3, <1>4 DEF Tree!Next, Tree!OpenFailed, Tree!Signal

(* Where the climb ends: what Return is called with, and why.              *)
LEMMA ClimbEnds ==
    ASSUME TreeInv, Tree!Next, treePc' = "kill", Tree!Readable
    PROVE  \/ treePc = "kill" /\ UNCHANGED target
           \/ \E r \in Tree!Processes \cup {0} :
                /\ treePc \in {"stat", "open", "read"}
                /\ target' = Tree!Choose(r)
                /\ alive' = alive
                /\ r # 0 => ClimbedTo(r) /\ name[r] = "plain"
                /\ \/ treeCur \notin alive
                   \/ name[treeCur] # "plain"
                   \/ parent[treeCur] = Tree!kthreadd
                   \/ r = treeCur /\ parent[treeCur] = Tree!init
  <1> USE DEF TreeInv, TreeType, ClimbInv
  <1>1. CASE Tree!Stat
    <2>1. target' = Tree!Choose(0) /\ treeCur \notin alive
      BY <1>1 DEF Tree!Stat, Tree!Return
    <2> QED
      BY <1>1, <2>1 DEF Tree!Stat
  <1>2. CASE Tree!Read
    <2>1. /\ treePc = "read" /\ alive' = alive
          /\ name[treeCur] \in {"plain", "shell", "spaced"}
      BY <1>2, ReadableLine DEF Tree!Read
    <2>2. \A r : Tree!Return(r) => target' = Tree!Choose(r)
      BY DEF Tree!Return
    <2>3. \A n : ~Tree!Climb(n)
      BY DEF Tree!Climb
    <2>4. Tree!Up(0) => target' = Tree!Choose(0)
      BY <2>2, <2>3 DEF Tree!Up, Tree!init
    <2>5. Tree!Up(parent[treeCur]) =>
            \/ /\ parent[treeCur] = Tree!init
               /\ target' = Tree!Choose(treeCur)
            \/ parent[treeCur] = Tree!kthreadd /\ target' = Tree!Choose(0)
      BY <2>2, <2>3, Above DEF Tree!Up, Rootless, Tree!init, Tree!kthreadd
    <2>6. \/ treeCur \notin alive /\ target' = Tree!Choose(0)
          \/ name[treeCur] = "spaced" /\ target' = Tree!Choose(0)
          \/ name[treeCur] = "shell" /\ target' = Tree!Choose(below)
          \/ /\ name[treeCur] = "plain" /\ parent[treeCur] = Tree!init
             /\ target' = Tree!Choose(treeCur)
          \/ parent[treeCur] = Tree!kthreadd /\ target' = Tree!Choose(0)
      BY <1>2, <2>1, <2>2, <2>4, <2>5 DEF Tree!Read
    <2> QED
      BY <2>1, <2>6
  <1>3. CASE \/ Tree!OpenFailed \/ Tree!Open \/ Tree!Signal
             \/ \E x \in Others : Tree!Exit(x)
    BY <1>3 DEF Tree!OpenFailed, Tree!Open, Tree!Signal, Tree!Exit
  <1> QED
    BY <1>1, <1>2, <1>3 DEF Tree!Next

(* What is signalled is the program or a plain process of its line.        *)
LEMMA SignalsStep ==
    ASSUME TreeInv, Tree!Next
    PROVE  Tree!SignalsOwnLine'
  <1> SUFFICES ASSUME treePc' \in {"kill", "done"}, Tree!Readable
               PROVE  LET t == target'
                      IN
                      /\ t \in Tree!Line(program) \
                                  {Yinkad, Tree!init, Tree!kthreadd}
                      /\ \A x \in Tree!Line(program) \ Tree!Line(t) :
                           name[x] # "shell"
                      /\ t # program => name[t] # "shell"
    BY TreeTypeStep, LinesKept DEF Tree!SignalsOwnLine
  <1>1. CASE treePc \in {"kill", "done"} /\ UNCHANGED target
    BY <1>1 DEF TreeInv, Tree!SignalsOwnLine
  <1>2. CASE \E r \in Tree!Processes \cup {0} :
               /\ target' = Tree!Choose(r)
               /\ r # 0 => ClimbedTo(r) /\ name[r] = "plain"
    <2>1. PICK r \in Tree!Processes \cup {0} :
               /\ target' = Tree!Choose(r)
               /\ r # 0 => ClimbedTo(r) /\ name[r] = "plain"
      BY <1>2
    <2>2. Tree!ProcessTreeAssumption /\ Rootless /\ program \in Others
      BY DEF TreeInv, TreeType, Rootless
    <2>3. CASE r > 1 /\ r # Yinkad
      BY <2>1, <2>2, <2>3, Above DEF Tree!Choose, ClimbedTo
    <2>4. CASE ~(r > 1 /\ r # Yinkad)
      BY <2>1, <2>2, <2>4, Above, LineRooted DEF Tree!Choose
    <2> QED
      BY <2>3, <2>4
  <1>3. CASE treePc' = "kill"
    BY <1>1, <1>2, <1>3, ClimbEnds
  <1>4. CASE treePc' = "done"
    BY <1>1, <1>4 DEF Tree!Next, Tree!Stat, Tree!OpenFailed, Tree!Open,
       Tree!Read, Tree!Up, Tree!Signal, Tree!Exit, Tree!Return, Tree!Climb
  <1> QED
    BY <1>3, <1>4

(* A climb over a living line of plain processes ends at init's child.     *)
LEMMA FamilyStep ==
    ASSUME TreeInv, Tree!Next
    PROVE  Tree!TakesWholeFamily'
  <1> DEFINE line == Tree!Line(program) \cap Tree!Processes
  <1> SUFFICES ASSUME treePc' = "kill", line \subseteq alive',
                      \A x \in line : name[x] = "plain",
                      Yinkad \notin line,
                      Tree!kthreadd \notin Tree!Line(program)
               PROVE  parent0[target'] = Tree!init
    BY TreeTypeStep, LinesKept, Zenon DEF Tree!TakesWholeFamily, Tree!Processes
  <1>0. Tree!Readable
    BY DEF Tree!Readable
  <1>1. CASE treePc = "kill" /\ UNCHANGED target
    BY <1>1, TreeTypeStep DEF TreeInv, Tree!TakesWholeFamily
  <1>2. ASSUME NEW r \in Tree!Processes \cup {0},
               treePc \in {"stat", "open", "read"},
               target' = Tree!Choose(r),
               \/ treeCur \notin alive
               \/ name[treeCur] # "plain"
               \/ parent[treeCur] = Tree!kthreadd
               \/ r = treeCur /\ parent[treeCur] = Tree!init
        PROVE  parent0[target'] = Tree!init
    <2>1. /\ Rootless /\ Tree!ProcessTreeAssumption
          /\ program \in Tree!Processes
          /\ treeCur \in line /\ line \subseteq alive
          /\ parent0[treeCur] \in Tree!Line(program)
      BY <1>0, <1>2, TreeTypeStep, Above, LineRooted
      DEF TreeInv, TreeType, ClimbInv, ClimbedTo, Rootless
    <2>2. parent[treeCur] = parent0[treeCur]
      BY <2>1 DEF TreeInv, TreeType
    <2>3. r = treeCur /\ parent[treeCur] = Tree!init
      BY <1>2, <2>1, <2>2
    <2>4. target' = treeCur
      BY <1>2, <2>1, <2>3, Above DEF Tree!Choose
    <2> QED
      BY <2>2, <2>3, <2>4
  <1> QED
    BY <1>0, <1>1, <1>2, ClimbEnds

(* The four together.                                                      *)
LEMMA TreeStepped ==
    ASSUME TreeInv, Tree!Next
    PROVE  TreeInv'
  BY TreeTypeStep, ClimbStep, SignalsStep, FamilyStep DEF TreeInv

-----------------------------------------------------------------------------
(* The minutes.                                                            *)

(* The seconds of the running pass and, with those of the passes counted,  *)
(* of the running minute.                                                  *)
Into == IF minutePc = "sleep" THEN slept
        ELSE IF minutePc = "count" THEN delay ELSE 0
Run  == per_minute_cnt * delay + Into

(* The counter has not reached the passes of a minute.                     *)
Counting == per_minute_cnt = 0 \/ per_minute_cnt < Mins!Passes(delay)

MinsType ==
    /\ Mins!MinuteCounterAssumption
    /\ minutePc \in {"pass", "sleep", "count", "crashed"}
    /\ delay \in Delays
    /\ per_minute_cnt \in Nat
    /\ slept \in 0..delay
    /\ allowed \in BOOLEAN
    /\ remain \in Nat /\ granted \in Nat
    /\ since \in Nat /\ age \in Nat
    /\ allowed => remain \in 1..granted

(* A minute without a reload has lasted for what the counter says.         *)
MinuteInv ==
    delay > 0 /\ "minute" \notin reloaded => since = Run /\ Counting

(* In the minute in which the allowance was granted, it is no older than   *)
(* the pass or the minute; after m minutes, all but the first were whole.  *)
AllowanceInv ==
    LET m == granted - remain
    IN  delay > 0 /\ allowed /\ "allowance" \notin reloaded =>
          /\ m = 0 => age <= Into \/ (Counting /\ age <= Run)
          /\ m > 0 => /\ "minute" \notin reloaded
                      /\ age >= (m - 1) * Mins!Shortest(delay) + Run
                      /\ age <= m * Mins!Longest(delay) + Run

MinsInv == MinsType /\ MinuteInv /\ AllowanceInv

(* The longest minute is no shorter than 60 seconds and than a delay.      *)
LEMMA LongestOf ==
    ASSUME Minute \in Nat, NEW d \in Nat
    PROVE  /\ Mins!Longest(d) \in Nat
           /\ Mins!Longest(d) >= d /\ Mins!Longest(d) >= Minute
  <1>1. \E x \in {Minute, d} : \A y \in {Minute, d} : x >= y
    OBVIOUS
  <1>2. /\ Mins!Max({Minute, d}) \in {Minute, d}
        /\ \A y \in {Minute, d} : Mins!Max({Minute, d}) >= y
    BY <1>1, Zenon DEF Mins!Max
  <1> QED
    BY <1>2 DEF Mins!Longest

(* The pass that ends a minute makes it as long as it should be.           *)
LEMMA Whole60 ==
    ASSUME Minute \in Nat \ {0}, NEW d \in Nat, d > 0, NEW c \in Nat,
           c = 0 \/ c < Mins!Passes(d)
    PROVE  /\ Mins!Passes(d) \in Nat
           /\ (c + 1) * d <= Mins!Longest(d)
           /\ c + 1 >= Mins!Passes(d) => (c + 1) * d >= Mins!Shortest(d)
  <1> DEFINE q == Minute \div d
  <1>1. q \in Nat /\ q * d <= Minute /\ Minute < (q + 1) * d
    OBVIOUS
  <1>2. Mins!Passes(d) = q
    BY DEF Mins!Passes
  <1> HIDE DEF q
  <1>3. CASE c < q
    <2>1. (c + 1) * d <= q * d
      BY <1>1, <1>3
    <2>2. d <= Minute
      BY <1>1, <1>3, <2>1
    <2>3. c + 1 >= q => (c + 1) * d = q * d
      BY <1>1, <1>3
    <2> QED
      BY <1>1, <1>2, <2>1, <2>2, <2>3, LongestOf DEF Mins!Shortest
  <1>4. CASE c = 0 /\ q = 0
    BY <1>1, <1>2, <1>4, LongestOf DEF Mins!Shortest
  <1> QED
    BY <1>1, <1>2, <1>3, <1>4

(* Nothing has been counted at the start.                                  *)
LEMMA MinsInit ==
    ASSUME Mins!MinuteCounterAssumption, Mins!Init
    PROVE  MinsInv
  <1>0. ~allowed /\ allowed \in BOOLEAN
    BY Zenon DEF Mins!Init
  <1>1. MinsType
    BY <1>0 DEF Mins!Init, Mins!MinuteCounterAssumption, MinsType
  <1>2. since = 0 /\ Run = 0 /\ Counting
    BY <1>1 DEF MinsType, Mins!MinuteCounterAssumption, Mins!Init, Run, Into,
                Counting
  <1> QED
    BY <1>1, <1>2 DEF MinsInv, MinuteInv, AllowanceInv, Mins!Init

(* When a minute ends, an allowance is as old as the minutes since it was  *)
(* granted say.                                                            *)
LEMMA AgeAtMinute ==
    ASSUME MinsInv, minutePc = "count", delay > 0, allowed,
           "allowance" \notin reloaded,
           per_minute_cnt + 1 >= Mins!Passes(delay)
    PROVE  LET m == granted - remain
           IN  /\ m \in Nat
               /\ age >= m * Mins!Shortest(delay)
               /\ age <= m * Mins!Longest(delay) + Mins!Longest(delay)
  <1> DEFINE c == per_minute_cnt
             L == Mins!Longest(delay)
             S == Mins!Shortest(delay)
             m == granted - remain
  <1>1. /\ delay \in Nat /\ c \in Nat /\ Minute \in Nat \ {0}
        /\ age \in Nat /\ granted \in Nat
    BY DEF MinsInv, MinsType, Mins!MinuteCounterAssumption
  <1>2. remain \in 1..granted
    BY Zenon DEF MinsInv, MinsType
  <1>3. Run = c * delay + delay /\ Into = delay
    BY DEF Run, Into
  <1>4. /\ L \in Nat /\ S \in Nat /\ delay <= L
        /\ Counting => c * delay + delay <= L /\ c * delay + delay >= S
    BY <1>1, LongestOf, Whole60 DEF Counting, Mins!Shortest
  <1>5. CASE m = 0
    <2>1. age <= Into \/ (Counting /\ age <= Run)
      BY <1>5, Zenon DEF MinsInv, AllowanceInv
    <2> QED
      BY <1>1, <1>3, <1>4, <1>5, <2>1
  <1>6. CASE m > 0
    <2>1. /\ "minute" \notin reloaded
          /\ age >= (m - 1) * S + Run /\ age <= m * L + Run
      BY <1>6 DEF MinsInv, AllowanceInv
    <2>2. Counting
      BY <2>1 DEF MinsInv, MinuteInv
    <2>3. (m - 1) * S + S = m * S
      BY <1>1, <1>2, <1>4
    <2> QED
      BY <1>1, <1>2, <1>3, <1>4, <2>1, <2>2, <2>3
  <1> QED
    BY <1>1, <1>2, <1>5, <1>6

(* A step of the counter keeps the invariant.                              *)
LEMMA CountStep ==
    ASSUME MinsInv, Mins!Count
    PROVE  MinsInv'
  <1> DEFINE d == delay
             c == per_minute_cnt
             L == Mins!Longest(delay)
             S == Mins!Shortest(delay)
             q == Mins!Passes(delay)
             m == granted - remain
  <1>1. /\ minutePc = "count" /\ minutePc' = "pass" /\ delay' = delay
        /\ slept' = slept /\ delay \in Nat /\ c \in Nat
        /\ Minute \in Nat \ {0} /\ q \in Nat
    BY DEF MinsInv, MinsType, Mins!Count, Mins!MinuteCounterAssumption,
           Mins!Passes
  <1>2. Run = c * d + d /\ Into = d /\ Run' = c' * d + 0 /\ Into' = 0
    BY <1>1 DEF Run, Into
  <1>3. CASE c + 1 < q
    <2>1. c' = c + 1 /\ UNCHANGED <<allowed, remain, since, granted, age,
                                    reloaded>>
      <3>1. ~(per_minute_cnt + 1 >= q)
        BY <1>1, <1>3
      <3> QED
        BY <3>1, Zenon DEF Mins!Count, Mins!state, Mins!history
    <2>2. Run' = Run /\ Counting' /\ Run >= d
      BY <1>1, <1>2, <1>3, <2>1 DEF Counting, Mins!Passes
    <2>3. MinsType'
      BY <1>1, <2>1 DEF MinsInv, MinsType
    <2>4. MinuteInv'
      BY <1>1, <2>1, <2>2 DEF MinsInv, MinuteInv
    <2>5. AllowanceInv'
      <3>1. L' = L /\ S' = S /\ m' = m
        BY <1>1, <2>1 DEF Mins!Longest, Mins!Shortest
      <3>2. Run \in Nat /\ age \in Nat /\ Into \in Nat
        BY <1>1, <1>2 DEF MinsInv, MinsType
      <3> QED
        BY <1>1, <1>2, <2>1, <2>2, <3>1, <3>2 DEF MinsInv, AllowanceInv
    <2> QED
      BY <2>3, <2>4, <2>5 DEF MinsInv
  <1>4. CASE ~(c + 1 < q)
    <2>1. c' = 0 /\ Mins!Minutes
      BY <1>1, <1>4 DEF Mins!Count, Mins!Passes
    <2>2. Run' = 0 /\ Counting'
      BY <1>1, <1>2, <2>1 DEF Counting
    <2>3. MinsType'
      <3>1. /\ since' = 0
            /\ \/ /\ allowed /\ ~(remain - 1 <= 0) /\ remain' = remain - 1
                  /\ UNCHANGED <<allowed, granted, age>>
               \/ allowed' = FALSE /\ remain' = 0 /\ granted' = 0 /\ age' = 0
        BY <2>1 DEF Mins!Minutes, Mins!Expired
      <3>2. CASE /\ allowed /\ ~(remain - 1 <= 0) /\ remain' = remain - 1
                 /\ UNCHANGED <<allowed, granted, age>>
        <4>1. remain \in 1..granted /\ granted \in Nat /\ age \in Nat
          BY <3>2, Zenon DEF MinsInv, MinsType
        <4>2. remain' \in 1..granted' /\ remain' \in Nat
          BY <3>2, <4>1
        <4>3. allowed' \in BOOLEAN
          BY <3>2, Zenon DEF MinsInv, MinsType
        <4> QED
          BY <1>1, <2>1, <3>1, <3>2, <4>1, <4>2, <4>3 DEF MinsInv, MinsType
      <3>3. CASE allowed' = FALSE /\ remain' = 0 /\ granted' = 0 /\ age' = 0
        <4>1. ~allowed' /\ allowed' \in BOOLEAN
          BY <3>3, Zenon
        <4> QED
          BY <1>1, <2>1, <3>1, <3>3, <4>1 DEF MinsInv, MinsType
      <3> QED
        BY <3>1, <3>2, <3>3
    <2>4. MinuteInv'
      BY <2>1, <2>2 DEF MinuteInv, Mins!Minutes
    <2>5. ASSUME delay > 0, allowed', "allowance" \notin reloaded'
          PROVE  /\ m \in Nat /\ m' = m + 1 /\ "minute" \notin reloaded'
                 /\ age' >= m * S /\ age' <= m * L + L
      <3>1. /\ allowed /\ "allowance" \notin reloaded
            /\ remain' = remain - 1 /\ granted' = granted /\ age' = age
            /\ "minute" \notin reloaded'
        BY <2>1, <2>5 DEF Mins!Minutes
      <3>2. /\ m \in Nat /\ age >= m * S /\ age <= m * L + L
        BY <1>1, <1>4, <2>5, <3>1, AgeAtMinute
      <3>3. remain \in Nat /\ granted \in Nat
        BY DEF MinsInv, MinsType
      <3> QED
        BY <3>1, <3>2, <3>3
    <2>6. AllowanceInv'
      <3>1. L' = L /\ S' = S
        BY <1>1 DEF Mins!Longest, Mins!Shortest
      <3>2. S \in Nat /\ L \in Nat
        BY <1>1, LongestOf DEF Mins!Shortest
      <3> HIDE DEF L, S, m
      <3>3. ASSUME delay' > 0, allowed', "allowance" \notin reloaded'
            PROVE  /\ m' > 0 /\ "minute" \notin reloaded'
                   /\ age' >= (m' - 1) * S' + Run'
                   /\ age' <= m' * L' + Run'
        <4>1. m \in Nat /\ m' = m + 1 /\ "minute" \notin reloaded'
          BY <1>1, <2>5, <3>3
        <4>2. age' >= m * S /\ age' <= m * L + L
          BY <1>1, <2>5, <3>3
        <4>3. (m' - 1) * S' = m * S /\ m' * L' = m * L + L
          BY <3>1, <3>2, <4>1
        <4>4. age' \in Nat
          BY <2>3 DEF MinsType
        <4> QED
          BY <2>2, <3>2, <4>1, <4>2, <4>3, <4>4
      <3> QED
        BY <3>3 DEF AllowanceInv, m, L, S
    <2> QED
      BY <2>3, <2>4, <2>6 DEF MinsInv
  <1> QED
    BY <1>1, <1>3, <1>4

(* A second of sleep makes the minute and the allowance that much older.   *)
LEMMA SecondStep ==
    ASSUME MinsInv, Mins!Second
    PROVE  MinsInv'
  <1>1. /\ delay \in Nat /\ per_minute_cnt \in Nat /\ slept \in Nat
        /\ since \in Nat /\ age \in Nat /\ Minute \in Nat \ {0}
        /\ minutePc = "sleep" /\ slept < delay
    BY DEF MinsInv, MinsType, Mins!Second, Mins!MinuteCounterAssumption
  <1>2. /\ slept' = slept + 1
        /\ UNCHANGED <<minutePc, delay, per_minute_cnt, allowed, remain,
                       granted, reloaded>>
    BY DEF Mins!Second, Mins!state
  <1>3. /\ since' = IF "minute" \in reloaded THEN since ELSE since + 1
        /\ age' \in {age, age + 1}
    BY Zenon DEF Mins!Second
  <1>4. Into' = Into + 1 /\ Run' = Run + 1 /\ (Counting' <=> Counting)
    BY <1>1, <1>2 DEF Into, Run, Counting, Mins!Passes
  <1>5. MinsType'
    <2>1. /\ allowed' \in BOOLEAN
          /\ allowed' => remain' \in 1..granted'
          /\ remain' \in Nat /\ granted' \in Nat
      BY <1>2, Zenon DEF MinsInv, MinsType
    <2> QED
      BY <1>1, <1>2, <1>3, <2>1 DEF MinsInv, MinsType
  <1>6. MinuteInv'
    BY <1>1, <1>2, <1>3, <1>4 DEF MinsInv, MinuteInv
  <1>7. AllowanceInv'
    <2>1. /\ Mins!Longest(delay)' = Mins!Longest(delay)
          /\ Mins!Shortest(delay)' = Mins!Shortest(delay)
      BY <1>2 DEF Mins!Longest, Mins!Shortest
    <2>2. Mins!Longest(delay) \in Nat /\ Mins!Shortest(delay) \in Nat
      BY <1>1, LongestOf DEF Mins!Shortest
    <2>3. Into \in Nat /\ Run \in Nat
      BY <1>1 DEF Into, Run
    <2>4. ASSUME delay > 0, allowed, "allowance" \notin reloaded
          PROVE  age' = age + 1
      BY <2>4, Zenon DEF Mins!Second
    <2> DEFINE m == granted - remain
    <2>5. m' = m /\ m \in Int
      BY <1>2 DEF MinsInv, MinsType
    <2>6. ASSUME delay > 0, allowed, "allowance" \notin reloaded
          PROVE  /\ m = 0 => age + 1 <= Into + 1 \/
                               (Counting /\ age + 1 <= Run + 1)
                 /\ m > 0 => /\ "minute" \notin reloaded
                             /\ age >= (m - 1) * Mins!Shortest(delay) + Run
                             /\ age <= m * Mins!Longest(delay) + Run
      <3>1. m = 0 => age <= Into \/ (Counting /\ age <= Run)
        BY <2>6, Zenon DEF MinsInv, AllowanceInv
      <3>2. m > 0 => /\ "minute" \notin reloaded
                     /\ age >= (m - 1) * Mins!Shortest(delay) + Run
                     /\ age <= m * Mins!Longest(delay) + Run
        BY <2>6, Zenon DEF MinsInv, AllowanceInv
      <3> QED
        BY <1>1, <2>3, <3>1, <3>2
    <2>7. (m - 1) * Mins!Shortest(delay) \in Int
          /\ m * Mins!Longest(delay) \in Int
      BY <2>2, <2>5
    <2>8. ASSUME delay > 0, allowed, "allowance" \notin reloaded
          PROVE  /\ m = 0 => age' <= Into' \/ (Counting' /\ age' <= Run')
                 /\ m > 0 =>
                      /\ "minute" \notin reloaded
                      /\ age' >= (m - 1) * Mins!Shortest(delay) + Run'
                      /\ age' <= m * Mins!Longest(delay) + Run'
      BY <1>1, <1>4, <2>3, <2>4, <2>6, <2>7, <2>8
    <2> HIDE DEF m
    <2>9. ASSUME delay' > 0, allowed', "allowance" \notin reloaded'
          PROVE  /\ m' = 0 => age' <= Into' \/ (Counting' /\ age' <= Run')
                 /\ m' > 0 =>
                      /\ "minute" \notin reloaded'
                      /\ age' >= (m' - 1) * Mins!Shortest(delay)' + Run'
                      /\ age' <= m' * Mins!Longest(delay)' + Run'
      <3>1. delay > 0 /\ allowed /\ "allowance" \notin reloaded
        BY <1>2, <2>9, Zenon
      <3> QED
        BY <1>2, <2>1, <2>5, <2>8, <3>1, Zenon
    <2> QED
      BY <2>9, Zenon DEF AllowanceInv, m
  <1> QED
    BY <1>5, <1>6, <1>7 DEF MinsInv

(* A reload disturbs both, a command begins an allowance.                  *)
LEMMA DisturbingStep ==
    ASSUME MinsInv, Mins!Reload \/ \E n \in 1..MaxMinutes : Mins!Grant(n)
    PROVE  MinsInv'
  <1>1. CASE Mins!Reload
    <2>1. /\ delay' \in Delays /\ slept' = 0 /\ since' = 0 /\ age' = 0
          /\ minutePc' \in {minutePc, "count"}
          /\ reloaded' = {"minute", "allowance"}
          /\ UNCHANGED <<per_minute_cnt, allowed, remain, granted>>
      BY <1>1 DEF Mins!Reload, Mins!state
    <2>2. /\ allowed' \in BOOLEAN
          /\ allowed' => remain' \in 1..granted'
          /\ remain' \in Nat /\ granted' \in Nat
      BY <2>1, Zenon DEF MinsInv, MinsType
    <2>3. MinsType'
      BY <2>1, <2>2 DEF MinsInv, MinsType, Mins!MinuteCounterAssumption
    <2> QED
      BY <2>1, <2>3 DEF MinsInv, MinuteInv, AllowanceInv
  <1>2. ASSUME NEW n \in 1..MaxMinutes, Mins!Grant(n)
        PROVE  MinsInv'
    <2>1. /\ remain' = n /\ granted' = n /\ age' = 0
          /\ reloaded' = reloaded \ {"allowance"}
          /\ UNCHANGED <<minutePc, delay, per_minute_cnt, slept, since>>
      BY <1>2 DEF Mins!Grant, Mins!clock
    <2>2. allowed' /\ allowed' \in BOOLEAN
      BY <1>2, Zenon DEF Mins!Grant
    <2>3. MinsType'
      BY <2>1, <2>2 DEF MinsInv, MinsType, Mins!MinuteCounterAssumption
    <2>4. MinuteInv'
      BY <2>1 DEF MinsInv, MinuteInv, Run, Into, Counting, Mins!Passes
    <2>5. age' <= Into' /\ granted' - remain' = 0
      BY <2>1, <2>3 DEF MinsType, Into, Mins!MinuteCounterAssumption
    <2>6. AllowanceInv'
      BY <2>5 DEF AllowanceInv
    <2> QED
      BY <2>3, <2>4, <2>6 DEF MinsInv
  <1> QED
    BY <1>1, <1>2

(* Going to sleep and waking up leave the seconds counted as they are.     *)
LEMMA SleepStep ==
    ASSUME MinsInv, Mins!Pass \/ Mins!Wake \/ Mins!DivideByZero
    PROVE  MinsInv'
  <1>1. /\ delay \in Nat
        /\ UNCHANGED <<delay, per_minute_cnt, allowed, remain, since, granted,
                       age, reloaded>>
    BY DEF MinsInv, MinsType, Mins!MinuteCounterAssumption, Mins!Pass,
           Mins!Wake, Mins!DivideByZero, Mins!state, Mins!history
  <1>2. CASE Mins!Pass \/ Mins!Wake
    <2>1. Into' = Into
      BY <1>1, <1>2 DEF Into, Mins!Pass, Mins!Wake
    <2>2. Run' = Run /\ (Counting' <=> Counting)
      BY <1>1, <2>1 DEF Run, Counting, Mins!Passes
    <2>3. MinsType'
      BY <1>1, <1>2 DEF MinsInv, MinsType, Mins!Pass, Mins!Wake
    <2>4. MinuteInv'
      BY <1>1, <2>2 DEF MinsInv, MinuteInv
    <2>5. AllowanceInv'
      BY <1>1, <2>1, <2>2 DEF MinsInv, AllowanceInv, Mins!Longest,
                              Mins!Shortest
    <2> QED
      BY <2>3, <2>4, <2>5 DEF MinsInv
  <1>3. CASE Mins!DivideByZero
    <2>1. delay' = 0 /\ MinsType'
      BY <1>1, <1>3 DEF MinsInv, MinsType, Mins!DivideByZero
    <2> QED
      BY <2>1 DEF MinsInv, MinuteInv, AllowanceInv
  <1> QED
    BY <1>2, <1>3

(* Every step of the minutes.                                              *)
LEMMA MinsStepped ==
    ASSUME MinsInv, Mins!Next
    PROVE  MinsInv'
  BY CountStep, SecondStep, DisturbingStep, SleepStep DEF Mins!Next

(* What MinuteLength and AllowanceLength say of a step.                    *)
LEMMA MinuteEnds ==
    ASSUME MinsInv, Mins!Next, minutePc = "count", minutePc' = "pass",
           delay > 0
    PROVE  /\ per_minute_cnt' = 0 /\ "minute" \notin reloaded =>
                since \in Mins!Shortest(delay)..Mins!Longest(delay)
           /\ allowed /\ ~allowed' /\ "allowance" \notin reloaded =>
                age \in ((granted - 1) * Mins!Shortest(delay))
                           ..(granted * Mins!Longest(delay))
  <1> DEFINE c == per_minute_cnt
             q == Mins!Passes(delay)
             L == Mins!Longest(delay)
             S == Mins!Shortest(delay)
  <1>1. Mins!Count
    BY DEF Mins!Next, Mins!Pass, Mins!Second, Mins!Wake, Mins!DivideByZero,
           Mins!Reload, Mins!Grant, Mins!clock
  <1>2. /\ delay \in Nat /\ c \in Nat /\ Minute \in Nat \ {0}
        /\ age \in Nat /\ granted \in Nat /\ remain \in Nat
    BY DEF MinsInv, MinsType, Mins!MinuteCounterAssumption
  <1>3. q \in Nat /\ L \in Nat /\ S \in Nat
    BY <1>2, LongestOf DEF Mins!Passes, Mins!Shortest
  <1>4. c + 1 >= q \/ (c' = c + 1 /\ allowed' = allowed)
    BY <1>1, Zenon DEF Mins!Count, Mins!state
  <1>5. ASSUME c' = 0, "minute" \notin reloaded
        PROVE  since \in S..L
    <2>1. since = c * delay + delay /\ Counting
      BY <1>5 DEF MinsInv, MinuteInv, Run, Into
    <2> QED
      BY <1>2, <1>3, <1>4, <1>5, <2>1, Whole60 DEF Counting
  <1>6. ASSUME allowed, ~allowed', "allowance" \notin reloaded
        PROVE  age \in ((granted - 1) * S)..(granted * L)
    <2>1. c + 1 >= q
      BY <1>4, <1>6, Zenon
    <2>2. /\ age >= (granted - remain) * S
          /\ age <= (granted - remain) * L + L
      BY <1>6, <2>1, AgeAtMinute
    <2>3. remain - 1 <= 0 /\ remain \in 1..granted
      <3>1. remain \in 1..granted
        BY <1>6, Zenon DEF MinsInv, MinsType
      <3>2. remain - 1 <= 0
        BY <1>1, <1>6, Zenon DEF Mins!Count, Mins!Minutes, Mins!Expired,
                                 Mins!state
      <3> QED
        BY <3>1, <3>2
    <2>4. remain = 1
      BY <2>3
    <2>5. (granted - 1) * L + L = granted * L
      BY <1>2, <1>3
    <2> QED
      BY <1>2, <1>3, <2>2, <2>4, <2>5
  <1> QED
    BY <1>5, <1>6

-----------------------------------------------------------------------------
(* Induction over the naturals.                                            *)
LEMMA Induction ==
    ASSUME NEW B \in SUBSET Nat, 0 \in B, \A k \in B : k + 1 \in B
    PROVE  B = Nat
  <1> SUFFICES ASSUME Nat \ B # {}
               PROVE  FALSE
    OBVIOUS
  <1>1. PICK x \in Nat \ B :
          \A y \in Nat \ B : <<y, x>> \notin OpToRel(<, Nat)
    BY NatLessThanWellFounded, WFMin
  <1>2. x - 1 \in Nat /\ <<x - 1, x>> \in OpToRel(<, Nat)
    BY DEF OpToRel
  <1>3. x - 1 \in B
    BY <1>1, <1>2
  <1>4. x - 1 + 1 = x
    OBVIOUS
  <1> QED
    BY <1>3, <1>4

-----------------------------------------------------------------------------
(* The scan of the configuration file.                                     *)

First(app, s) ==
    /\ file[s] = Conf!Section(app)
    /\ \A k \in 1..(s - 1) : file[k] # Conf!Section(app)

IsPair(key, n) == file[n].kind = "pair" /\ file[n].name = key

Free(key, n) == file[n].kind # "section" /\ ~IsPair(key, n)

(* Line n is the pair of this key that counts.                             *)
Hit(app, key, n) ==
    /\ IsPair(key, n)
    /\ \E s \in 1..(n - 1) :
         First(app, s) /\ \A k \in (s + 1)..(n - 1) : Free(key, k)

(* What the scan knows after n lines.                                      *)
Scanned(app, key, n, r) ==
    /\ r = [found |-> r.found, value |-> r.value]
    /\ r.found \in 0..3
    /\ r.found = 0 => \A k \in 1..n : file[k] # Conf!Section(app)
    /\ r.found = 1 => \E s \in 1..n : /\ First(app, s)
                                      /\ \A k \in (s + 1)..n : Free(key, k)
    /\ r.found = 2 => \E i \in 1..n : /\ Hit(app, key, i)
                                      /\ r.value = file[i].value
    /\ r.found = 3 => \E e \in 1..n : \E s \in 1..(e - 1) :
                        /\ First(app, s) /\ file[e].kind = "section"
                        /\ \A k \in (s + 1)..(e - 1) : Free(key, k)

(* One more line.                                                          *)
LEMMA ScanStep ==
    ASSUME NEW app, NEW key, NEW n \in Nat, NEW r, Scanned(app, key, n, r)
    PROVE  Scanned(app, key, n + 1, Conf!Scan(app, key, r, file[n + 1]))
  <1> DEFINE line == file[n + 1]
             q == Conf!Scan(app, key, r, line)
  <1>0. /\ r = [found |-> r.found, value |-> r.value] /\ r.found \in 0..3
        /\ \A k \in 1..(n + 1) : k \in 1..n \/ k = n + 1
        /\ \A k \in 1..n : k \in 1..(n + 1)
    BY DEF Scanned
  <1>1. CASE r.found = 0 /\ line = Conf!Section(app)
    <2>1. q = [r EXCEPT !.found = 1]
      BY <1>1 DEF Conf!Scan
    <2>2. q.found = 1 /\ q = [found |-> q.found, value |-> q.value]
      BY <1>0, <2>1
    <2>3. First(app, n + 1)
      BY <1>1 DEF First, Scanned
    <2> QED
      BY <2>2, <2>3 DEF Scanned
  <1>2. CASE r.found = 1 /\ line.kind = "section"
    <2>1. q = [r EXCEPT !.found = 3]
      BY <1>2 DEF Conf!Scan
    <2>2. q.found = 3 /\ q = [found |-> q.found, value |-> q.value]
      BY <1>0, <2>1
    <2>3. PICK s \in 1..n : First(app, s) /\ \A k \in (s + 1)..n : Free(key, k)
      BY <1>2 DEF Scanned
    <2> QED
      BY <1>2, <2>2, <2>3 DEF Scanned
  <1>3. CASE r.found = 1 /\ line.kind = "pair" /\ line.name = key
    <2>1. q = [found |-> 2, value |-> line.value]
      BY <1>3 DEF Conf!Scan
    <2>2. /\ q.found = 2 /\ q = [found |-> q.found, value |-> q.value]
          /\ q.value = line.value
      BY <2>1
    <2>3. PICK s \in 1..n : First(app, s) /\ \A k \in (s + 1)..n : Free(key, k)
      BY <1>3 DEF Scanned
    <2>4. Hit(app, key, n + 1)
      BY <1>3, <2>3 DEF Hit, IsPair
    <2> QED
      BY <1>0, <2>2, <2>4 DEF Scanned
  <1>4. CASE /\ ~(r.found = 0 /\ line = Conf!Section(app))
             /\ ~(r.found = 1 /\ line.kind = "section")
             /\ ~(r.found = 1 /\ line.kind = "pair" /\ line.name = key)
    <2>1. q = r
      BY <1>4 DEF Conf!Scan
    <2>2. CASE r.found = 0
      BY <1>0, <1>4, <2>1, <2>2 DEF Scanned
    <2>3. CASE r.found = 1
      <3>1. Free(key, n + 1)
        BY <1>4, <2>3 DEF Free, IsPair
      <3>2. PICK s \in 1..n :
              First(app, s) /\ \A k \in (s + 1)..n : Free(key, k)
        BY <2>3 DEF Scanned
      <3>3. s \in 1..(n + 1) /\ \A k \in (s + 1)..(n + 1) : Free(key, k)
        BY <3>1, <3>2
      <3> QED
        BY <1>0, <2>1, <2>3, <3>2, <3>3 DEF Scanned
    <2>4. CASE r.found = 2
      BY <1>0, <2>1, <2>4 DEF Scanned
    <2>5. CASE r.found = 3
      BY <1>0, <2>1, <2>5 DEF Scanned
    <2> QED
      BY <1>0, <2>2, <2>3, <2>4, <2>5
  <1> QED
    BY <1>1, <1>2, <1>3, <1>4

(* What the recursive definition in conf_read computes.                    *)
LEMMA ConfReadIs ==
    ASSUME NEW app, NEW key, file # Gone, file \in Seq(Range(file))
    PROVE  \E r : /\ Scanned(app, key, Len(file), r)
                  /\ Conf!ConfRead(app, key) =
                       IF r.found = 2 THEN Conf!Found(r.value)
                                      ELSE Conf!NotFound
  <1> DEFINE base == [found |-> 0, value |-> ""]
             Q(k, x) == Conf!Scan(app, key, x, file[k])
             T(f, k) == IF k = 0 THEN base ELSE Q(k, f[k - 1])
             Good(f, n) == f = [k \in 0..n |-> T(f, k)]
             B == {n \in Nat : \E f : Good(f, n)}
  <1>1. Len(file) \in Nat
    OBVIOUS
  <1>2. 0 \in B
    <2> DEFINE f == [k \in 0..0 |-> base]
    <2>1. Good(f, 0)
      OBVIOUS
    <2> QED
      BY <2>1
  <1> HIDE DEF B, base, Q
  <1>3. ASSUME NEW n \in Nat, NEW f, Good(f, n)
        PROVE  \E g : Good(g, n + 1)
    <2> DEFINE g == [k \in 0..(n + 1) |->
                       IF k <= n THEN f[k] ELSE Q(n + 1, f[n])]
    <2>2. \A k \in 0..n : f[k] = T(f, k)
      <3> HIDE DEF T
      <3> QED
        BY <1>3
    <2>3. \A k \in 0..(n + 1) : g[k] = T(g, k)
      <3> TAKE k \in 0..(n + 1)
      <3>1. CASE k = 0
        BY <2>2, <3>1
      <3>2. CASE k \in 1..n
        <4>1. g[k] = f[k] /\ g[k - 1] = f[k - 1]
          BY <3>2
        <4> QED
          BY <2>2, <3>2, <4>1
      <3>3. CASE k = n + 1
        <4>1. g[k - 1] = f[n] /\ k # 0
          BY <3>3
        <4> QED
          BY <3>3, <4>1
      <3> QED
        BY <3>1, <3>2, <3>3
    <2>4. Good(g, n + 1)
      BY <2>3
    <2> HIDE DEF g, Good
    <2> QED
      BY <2>4
  <1>4. \E f : Good(f, Len(file))
    <2> HIDE DEF Good
    <2>1. B \in SUBSET Nat /\ \A n \in B : n + 1 \in B
      BY <1>3 DEF B
    <2>2. B = Nat
      BY <1>2, <2>1, Induction
    <2> QED
      BY <1>1, <2>2 DEF B
  <1> DEFINE s == CHOOSE f : f = [k \in 0..Len(file) |-> T(f, k)]
  <1>5. s = [k \in 0..Len(file) |-> T(s, k)]
    BY <1>4
  <1>6. Conf!ConfRead(app, key) =
          IF s[Len(file)].found = 2 THEN Conf!Found(s[Len(file)].value)
                                    ELSE Conf!NotFound
    BY DEF Conf!ConfRead, base, Q
  <1> HIDE DEF s
  <1>7. s[0] = base /\ \A n \in 1..Len(file) : s[n] = T(s, n)
    BY <1>1, <1>5
  <1> DEFINE A == {n \in Nat : n <= Len(file) => Scanned(app, key, n, s[n])}
  <1>8. A = Nat
    <2>1. 0 \in A
      <3>1. base = [found |-> base.found, value |-> base.value]
            /\ base.found = 0
        BY DEF base
      <3>2. Scanned(app, key, 0, base)
        BY <3>1 DEF Scanned
      <3> QED
        BY <1>7, <3>2
    <2>2. ASSUME NEW n \in A
          PROVE  n + 1 \in A
      <3> SUFFICES ASSUME n + 1 <= Len(file)
                   PROVE  Scanned(app, key, n + 1, s[n + 1])
        OBVIOUS
      <3>1. Scanned(app, key, n, s[n]) /\ n + 1 \in 1..Len(file)
        BY <1>1
      <3>2. s[n + 1] = Conf!Scan(app, key, s[n], file[n + 1])
        BY <1>7, <3>1 DEF Q
      <3> QED
        BY <3>1, <3>2, ScanStep
    <2>3. A \in SUBSET Nat
      OBVIOUS
    <2> HIDE DEF A
    <2> QED
      BY <2>1, <2>2, <2>3, Induction
  <1> QED
    BY <1>1, <1>6, <1>8

(* A key is read as what the file says.                                    *)
LEMMA ConfReadSays ==
    ASSUME NEW app, NEW key, file # Gone, file \in Seq(Range(file))
    PROVE  \/ /\ Conf!ConfRead(app, key) = Conf!NotFound
              /\ Conf!Says(file, app, key) = {}
           \/ \E v : /\ Conf!ConfRead(app, key) = Conf!Found(v)
                     /\ Conf!Says(file, app, key) = {v}
  <1> DEFINE H == {n \in DOMAIN file : Hit(app, key, n)}
  <1>1. Conf!Says(file, app, key) = {file[i].value : i \in H}
    BY DEF Conf!Says, Hit, First, Free, IsPair
  <1>2. DOMAIN file = 1..Len(file) /\ Len(file) \in Nat
    OBVIOUS
  <1>3. PICK r : /\ Scanned(app, key, Len(file), r)
                 /\ Conf!ConfRead(app, key) =
                      IF r.found = 2 THEN Conf!Found(r.value)
                                     ELSE Conf!NotFound
    BY ConfReadIs
  <1>4. \A s, t \in 1..Len(file) : First(app, s) /\ First(app, t) => s = t
    BY <1>2 DEF First
  <1>5. CASE r.found = 2
    <2>1. PICK i \in 1..Len(file) : Hit(app, key, i) /\ r.value = file[i].value
      BY <1>3, <1>5 DEF Scanned
    <2>2. ASSUME NEW i1 \in H, NEW i2 \in H, i1 < i2
          PROVE  FALSE
      <3>1. PICK s1 \in 1..(i1 - 1) : First(app, s1)
        BY <2>2 DEF Hit
      <3>2. PICK s2 \in 1..(i2 - 1) :
              First(app, s2) /\ \A k \in (s2 + 1)..(i2 - 1) : Free(key, k)
        BY <2>2 DEF Hit
      <3>3. s1 = s2
        BY <1>2, <1>4, <3>1, <3>2
      <3>4. Free(key, i1)
        BY <1>2, <2>2, <3>1, <3>2, <3>3
      <3> QED
        BY <3>4 DEF Free, Hit
    <2>3. \A x \in H : x = i
      BY <1>2, <2>1, <2>2
    <2>4. H = {i}
      BY <1>2, <2>1, <2>3
    <2> QED
      BY <1>1, <1>3, <1>5, <2>1, <2>4
  <1>6. CASE r.found # 2
    <2>1. SUFFICES ASSUME NEW n \in H
                   PROVE  FALSE
      BY <1>1, <1>3, <1>6
    <2>2. PICK s \in 1..(n - 1) :
            First(app, s) /\ \A k \in (s + 1)..(n - 1) : Free(key, k)
      BY DEF Hit
    <2>3. IsPair(key, n) /\ ~Free(key, n) /\ file[n].kind = "pair"
      BY DEF Hit, Free, IsPair
    <2>4. s \in 1..Len(file) /\ file[s] = Conf!Section(app)
      BY <1>2, <2>2 DEF First
    <2>5. CASE r.found = 0
      BY <1>3, <2>4, <2>5 DEF Scanned
    <2>6. CASE r.found = 1
      <3>1. PICK t \in 1..Len(file) :
              First(app, t) /\ \A k \in (t + 1)..Len(file) : Free(key, k)
        BY <1>3, <2>6 DEF Scanned
      <3>2. t = s
        BY <1>4, <2>2, <2>4, <3>1
      <3> QED
        BY <1>2, <2>2, <2>3, <3>1, <3>2
    <2>7. CASE r.found = 3
      <3>1. PICK e \in 1..Len(file), t \in 1..Len(file) :
              /\ t < e /\ First(app, t) /\ file[e].kind = "section"
              /\ \A k \in (t + 1)..(e - 1) : Free(key, k)
        BY <1>2, <1>3, <2>7 DEF Scanned
      <3>2. t = s
        BY <1>4, <2>2, <2>4, <3>1
      <3>3. CASE n < e
        BY <1>2, <2>2, <2>3, <3>1, <3>2, <3>3
      <3>4. CASE n = e
        BY <2>3, <3>1, <3>4
      <3>5. CASE n > e
        <4>1. Free(key, e)
          BY <1>2, <2>2, <3>1, <3>2, <3>5
        <4> QED
          BY <3>1, <4>1 DEF Free
      <3> QED
        BY <1>2, <3>3, <3>4, <3>5
    <2> QED
      BY <1>3, <1>6, <2>5, <2>6, <2>7 DEF Scanned
  <1> QED
    BY <1>5, <1>6

-----------------------------------------------------------------------------
(* The load, key by key.                                                   *)

Record(c) == c = [delay  |-> c.delay,  name    |-> c.name,
                  switch |-> c.switch, cmdline |-> c.cmdline]

ConfType ==
    /\ Conf!ConfigAssumption
    /\ file \in seen /\ seen \subseteq Files
    /\ Record(config) /\ Record(old)
    /\ configPc \in {"open", "delay", "name", "switch", "cmdline", "done"}

(* What has not been read is what it was.                                  *)
UnreadInv ==
    /\ configPc \in {"open", "delay"} => config.delay = old.delay
    /\ configPc \in {"open", "delay", "name"} => config.name = old.name
    /\ configPc \in {"open", "delay", "name", "switch"}
         => config.switch = old.switch
    /\ configPc # "done" => config.cmdline = old.cmdline

(* What has been read is what one of the versions in S says.               *)
ReadFrom(S) ==
    /\ configPc \notin {"open", "delay"} =>
         \E f \in S : config.delay = Conf!Meaning(f, old).delay
    /\ configPc \notin {"open", "delay", "name"} =>
         \E f \in S : config.name = Conf!Meaning(f, old).name
    /\ configPc \in {"cmdline", "done"} =>
         \E f \in S : config.switch = Conf!Meaning(f, old).switch
    /\ configPc = "done" =>
         \E f \in S : config.cmdline = Conf!Meaning(f, old).cmdline

ReadInv ==
    /\ seen = {file} =>
         /\ ReadFrom({file})
         /\ configPc \notin {"open", "done"} => file # Gone
         /\ configPc \in {"switch", "cmdline"} => Conf!Named(file)
    /\ (\A f \in seen : f # Gone /\ Conf!Named(f)) => ReadFrom(seen)

ConfInv == ConfType /\ UnreadInv /\ ReadInv

(* The one element of a set, or the default.                               *)
LEMMA OneOfOne == \A v, d : Conf!OneOf({v}, d) = v /\ Conf!OneOf({}, d) = d
  BY DEF Conf!OneOf

(* The meaning of the file is what its keys are read as.                   *)
LEMMA MeaningRead ==
    ASSUME ConfType, file # Gone
    PROVE  LET M      == Conf!Meaning(file, old)
               r(key) == Conf!ConfRead("program", key)
               d      == Conf!ConfRead("General Sets", "delay")
           IN  /\ Record(M)
               /\ M.delay = IF d.found THEN Conf!Atoi(d.value)
                                       ELSE Conf!DEFAULT_DELAY
               /\ Conf!Named(file) <=> r("program_name").found
               /\ M.name = IF r("program_name").found
                             THEN r("program_name").value ELSE old.name
               /\ Conf!Named(file) =>
                    /\ M.switch = (r("switch").found
                                     => r("switch").value = "on")
                    /\ M.cmdline = IF r("cmdline").found
                                     THEN r("cmdline").value ELSE old.cmdline
               /\ ~Conf!Named(file) => /\ M.switch = old.switch
                                       /\ M.cmdline = old.cmdline
  <1> DEFINE M      == Conf!Meaning(file, old)
             r(key) == Conf!ConfRead("program", key)
             S(key) == Conf!Says(file, "program", key)
             d      == Conf!ConfRead("General Sets", "delay")
             D      == Conf!Says(file, "General Sets", "delay")
  <1>1. file \in Seq(Range(file))
    BY DEF ConfType, Conf!ConfigAssumption, Range, Conf!Range
  <1>2. \A key : \/ r(key) = Conf!NotFound /\ S(key) = {}
                 \/ \E v : r(key) = Conf!Found(v) /\ S(key) = {v}
    BY <1>1, ConfReadSays
  <1>3. \/ d = Conf!NotFound /\ D = {}
        \/ \E v : d = Conf!Found(v) /\ D = {v}
    BY <1>1, ConfReadSays
  <1>4. M = [delay   |-> IF D = {} THEN Conf!DEFAULT_DELAY
                                   ELSE Conf!Atoi(Conf!OneOf(D, "")),
             name    |-> Conf!OneOf(S("program_name"), old.name),
             switch  |-> IF Conf!Named(file)
                           THEN Conf!OneOf(S("switch"), "on") = "on"
                           ELSE old.switch,
             cmdline |-> IF Conf!Named(file)
                           THEN Conf!OneOf(S("cmdline"), old.cmdline)
                           ELSE old.cmdline]
    BY DEF Conf!Meaning
  <1>5. Conf!Named(file) <=> S("program_name") # {}
    BY DEF Conf!Named
  <1>6. /\ Conf!NotFound.found = FALSE
        /\ \A v : Conf!Found(v).found = TRUE /\ Conf!Found(v).value = v
    BY DEF Conf!NotFound, Conf!Found
  <1> HIDE DEF M, r, S, d, D
  <1>a. \A key, x :
          /\ r(key).found <=> S(key) # {}
          /\ Conf!OneOf(S(key), x) = IF r(key).found THEN r(key).value ELSE x
    <2> TAKE key, x
    <2>1. CASE r(key) = Conf!NotFound /\ S(key) = {}
      BY <1>6, <2>1, OneOfOne
    <2>2. ASSUME NEW v, r(key) = Conf!Found(v), S(key) = {v}
          PROVE  /\ r(key).found <=> S(key) # {}
                 /\ Conf!OneOf(S(key), x) =
                      IF r(key).found THEN r(key).value ELSE x
      <3>1. S(key) # {} /\ Conf!OneOf(S(key), x) = v
        BY <2>2, OneOfOne
      <3>2. r(key).found = TRUE /\ r(key).value = v
        BY <1>6, <2>2
      <3> QED
        BY <3>1, <3>2
    <2> QED
      BY <1>2, <2>1, <2>2
  <1>7. /\ Record(M)
        /\ M.delay = IF D = {} THEN Conf!DEFAULT_DELAY
                               ELSE Conf!Atoi(Conf!OneOf(D, ""))
        /\ M.name = Conf!OneOf(S("program_name"), old.name)
        /\ M.switch = IF Conf!Named(file)
                        THEN Conf!OneOf(S("switch"), "on") = "on"
                        ELSE old.switch
        /\ M.cmdline = IF Conf!Named(file)
                         THEN Conf!OneOf(S("cmdline"), old.cmdline)
                         ELSE old.cmdline
    BY <1>4 DEF Record
  <1>8. M.delay = IF d.found THEN Conf!Atoi(d.value) ELSE Conf!DEFAULT_DELAY
    <2>1. CASE d = Conf!NotFound /\ D = {}
      BY <1>6, <1>7, <2>1
    <2>2. ASSUME NEW v, d = Conf!Found(v), D = {v}
          PROVE  M.delay = IF d.found THEN Conf!Atoi(d.value)
                                      ELSE Conf!DEFAULT_DELAY
      BY <1>6, <1>7, <2>2, OneOfOne
    <2> QED
      BY <1>3, <2>1, <2>2
  <1>9. /\ Conf!Named(file) <=> r("program_name").found
        /\ M.name = IF r("program_name").found
                      THEN r("program_name").value ELSE old.name
    <2>1. Conf!Named(file) <=> r("program_name").found
      BY <1>a, <1>5
    <2> QED
      BY <1>a, <1>7, <2>1
  <1>10. Conf!Named(file) =>
           /\ M.switch = (r("switch").found => r("switch").value = "on")
           /\ M.cmdline = IF r("cmdline").found
                            THEN r("cmdline").value ELSE old.cmdline
    BY <1>a, <1>7
  <1> QED
    BY <1>7, <1>8, <1>9, <1>10 DEF M, r, d

(* Each read takes the key from the file as it is then.                    *)
LEMMA ReadDelayStep ==
    ASSUME ConfInv, Conf!ReadDelay
    PROVE  ConfInv'
  <1> DEFINE M == Conf!Meaning(file, old)
  <1>1. /\ configPc = "delay" /\ configPc' = "name"
        /\ UNCHANGED <<file, seen, old>>
    BY DEF Conf!ReadDelay, Conf!Goto
  <1>2. /\ Record(config') /\ config'.name = config.name
        /\ config'.switch = config.switch
        /\ config'.cmdline = config.cmdline
    BY DEF Conf!ReadDelay, ConfInv, ConfType, Record
  <1>3. file # Gone => config'.delay = M.delay
    BY MeaningRead DEF Conf!ReadDelay, ConfInv, ConfType, Record
  <1>4. ConfType' /\ UnreadInv'
    BY <1>1, <1>2 DEF ConfInv, ConfType, UnreadInv, Record
  <1>5. ReadInv'
    BY <1>1, <1>3 DEF ConfInv, ConfType, ReadInv, ReadFrom
  <1> QED
    BY <1>4, <1>5 DEF ConfInv

(* Without a name nothing more is read.                                    *)
LEMMA ReadNameStep ==
    ASSUME ConfInv, Conf!ReadName
    PROVE  ConfInv'
  <1> DEFINE M == Conf!Meaning(file, old)
             r == Conf!ConfRead("program", "program_name")
  <1>1. configPc = "name" /\ UNCHANGED <<file, seen, old>>
    BY DEF Conf!ReadName, Conf!Goto
  <1>2. CASE r.found
    <2>1. configPc' = "switch" /\ config' = [config EXCEPT !.name = r.value]
      BY <1>2 DEF Conf!ReadName, Conf!Goto
    <2>2. /\ Record(config') /\ config'.name = r.value
          /\ config'.delay = config.delay /\ config'.switch = config.switch
          /\ config'.cmdline = config.cmdline
      BY <2>1 DEF ConfInv, ConfType, Record
    <2>3. file # Gone => config'.name = M.name /\ Conf!Named(file)
      BY <1>2, <2>2, MeaningRead DEF ConfInv
    <2>4. ConfType' /\ UnreadInv'
      BY <1>1, <2>1, <2>2 DEF ConfInv, ConfType, UnreadInv, Record
    <2>5. ReadInv'
      BY <1>1, <2>1, <2>2, <2>3 DEF ConfInv, ConfType, ReadInv, ReadFrom
    <2> QED
      BY <2>4, <2>5 DEF ConfInv
  <1>3. CASE ~r.found
    <2>1. configPc' = "done" /\ config' = config
      BY <1>3 DEF Conf!ReadName, Conf!Goto
    <2>2. file # Gone => /\ ~Conf!Named(file) /\ M.name = old.name
                         /\ M.switch = old.switch /\ M.cmdline = old.cmdline
      BY <1>3, MeaningRead DEF ConfInv
    <2>3. ConfType' /\ UnreadInv'
      BY <1>1, <2>1 DEF ConfInv, ConfType, UnreadInv, Record
    <2>4. ReadInv'
      BY <1>1, <2>1, <2>2 DEF ConfInv, ConfType, UnreadInv, ReadInv, ReadFrom
    <2> QED
      BY <2>3, <2>4 DEF ConfInv
  <1> QED
    BY <1>2, <1>3

(* The switch is on unless the file says otherwise.                        *)
LEMMA ReadSwitchStep ==
    ASSUME ConfInv, Conf!ReadSwitch
    PROVE  ConfInv'
  <1> DEFINE M == Conf!Meaning(file, old)
             r == Conf!ConfRead("program", "switch")
  <1>1. /\ configPc = "switch" /\ configPc' = "cmdline"
        /\ UNCHANGED <<file, seen, old>>
        /\ config' = [config EXCEPT !.switch = r.found => r.value = "on"]
    BY DEF Conf!ReadSwitch, Conf!Goto
  <1>2. /\ Record(config') /\ config'.switch = (r.found => r.value = "on")
        /\ config'.delay = config.delay /\ config'.name = config.name
        /\ config'.cmdline = config.cmdline
    BY <1>1 DEF ConfInv, ConfType, Record
  <1>3. file # Gone /\ Conf!Named(file) => config'.switch = M.switch
    BY <1>2, MeaningRead DEF ConfInv
  <1>4. ConfType' /\ UnreadInv'
    BY <1>1, <1>2 DEF ConfInv, ConfType, UnreadInv, Record
  <1>5. ReadInv'
    BY <1>1, <1>2, <1>3 DEF ConfInv, ConfType, ReadInv, ReadFrom
  <1> QED
    BY <1>4, <1>5 DEF ConfInv

(* Without a command line the old one stays.                               *)
LEMMA ReadCmdlineStep ==
    ASSUME ConfInv, Conf!ReadCmdline
    PROVE  ConfInv'
  <1> DEFINE M == Conf!Meaning(file, old)
             r == Conf!ConfRead("program", "cmdline")
  <1>1. /\ configPc = "cmdline" /\ configPc' = "done"
        /\ UNCHANGED <<file, seen, old>>
        /\ config' = [config EXCEPT !.cmdline =
                        IF r.found THEN r.value ELSE config.cmdline]
    BY DEF Conf!ReadCmdline, Conf!Goto
  <1>2. /\ Record(config')
        /\ config'.cmdline = IF r.found THEN r.value ELSE config.cmdline
        /\ config'.delay = config.delay /\ config'.name = config.name
        /\ config'.switch = config.switch
    BY <1>1 DEF ConfInv, ConfType, Record
  <1>3. file # Gone /\ Conf!Named(file) => config'.cmdline = M.cmdline
    BY <1>1, <1>2, MeaningRead DEF ConfInv, UnreadInv
  <1>4. ConfType' /\ UnreadInv'
    BY <1>1, <1>2 DEF ConfInv, ConfType, UnreadInv, Record
  <1>5. ReadInv'
    BY <1>1, <1>2, <1>3 DEF ConfInv, ConfType, ReadInv, ReadFrom
  <1> QED
    BY <1>4, <1>5 DEF ConfInv

(* A file that is gone leaves the configuration as it was.                 *)
LEMMA OpenStep ==
    ASSUME ConfInv, Conf!Open
    PROVE  ConfInv'
  <1>1. /\ configPc = "open" /\ UNCHANGED <<config, file, seen, old>>
        /\ configPc' = IF file = Gone THEN "done" ELSE "delay"
    BY DEF Conf!Open, Conf!Goto
  <1>2. file = Gone => Conf!Meaning(file, old) = old
    BY DEF Conf!Meaning
  <1>3. ConfType' /\ UnreadInv'
    BY <1>1 DEF ConfInv, ConfType, UnreadInv, Record
  <1>4. ReadInv'
    BY <1>1, <1>2 DEF ConfInv, ConfType, UnreadInv, ReadInv, ReadFrom
  <1> QED
    BY <1>3, <1>4 DEF ConfInv

(* An edit makes one more version; nothing that has been read changes.     *)
LEMMA EditStep ==
    ASSUME ConfInv, Conf!Edit
    PROVE  ConfInv'
  <1>1. /\ UNCHANGED <<config, configPc, old>>
        /\ file' \in Versions \ seen /\ seen' = seen \cup {file'}
    BY DEF Conf!Edit
  <1>2. ConfType' /\ UnreadInv'
    BY <1>1 DEF ConfInv, ConfType, UnreadInv, Record, Conf!ConfigAssumption
  <1>3. seen' # {file'}
    BY <1>1 DEF ConfInv, ConfType
  <1>4. ReadInv'
    BY <1>1, <1>3 DEF ConfInv, ConfType, ReadInv, ReadFrom
  <1> QED
    BY <1>2, <1>4 DEF ConfInv

(* Every step of the load.                                                 *)
LEMMA ConfStepped ==
    ASSUME ConfInv, Conf!Next
    PROVE  ConfInv'
  BY OpenStep, ReadDelayStep, ReadNameStep, ReadSwitchStep, ReadCmdlineStep,
     EditStep DEF Conf!Next, Conf!Load

(* A load begins with one version and nothing read.                        *)
LEMMA ConfInit ==
    ASSUME Conf!ConfigAssumption, Conf!Init
    PROVE  ConfInv
  BY DEF Conf!Init, Conf!NoConfig, Conf!Loaded, ConfInv, ConfType, UnreadInv,
         ReadInv, ReadFrom, Record

(* What the invariant says at the end.                                     *)
LEMMA LoadIsExact ==
    ASSUME ConfInv
    PROVE  LoadExact
  <1> SUFFICES ASSUME configPc = "done"
               PROVE  /\ seen = {file} => config = Conf!Meaning(file, old)
                      /\ (\A f \in seen : f # Gone /\ Conf!Named(f)) =>
                           \A x \in {"delay", "name", "switch", "cmdline"} :
                             config[x] \in
                               {Conf!Meaning(f, old)[x] : f \in seen}
    BY DEF LoadExact, Conf!LoadExact
  <1>1. ASSUME seen = {file}
        PROVE  config = Conf!Meaning(file, old)
    <2> DEFINE M == Conf!Meaning(file, old)
    <2>1. /\ config.delay = M.delay /\ config.name = M.name
          /\ config.switch = M.switch /\ config.cmdline = M.cmdline
      BY <1>1 DEF ConfInv, ReadInv, ReadFrom
    <2>2. Record(M)
      <3>1. CASE file = Gone
        BY <3>1 DEF Conf!Meaning, ConfInv, ConfType
      <3>2. CASE file # Gone
        BY <3>2, MeaningRead DEF ConfInv
      <3> QED
        BY <3>1, <3>2
    <2> HIDE DEF M
    <2> QED
      BY <2>1, <2>2 DEF ConfInv, ConfType, Record, M
  <1>2. ASSUME \A f \in seen : f # Gone /\ Conf!Named(f),
               NEW x \in {"delay", "name", "switch", "cmdline"}
        PROVE  config[x] \in {Conf!Meaning(f, old)[x] : f \in seen}
    BY <1>2 DEF ConfInv, ReadInv, ReadFrom
  <1> QED
    BY <1>1, <1>2

(* The steps of the other parts.                                           *)
LEMMA ConfKept ==
    ASSUME ConfInv, UNCHANGED confVars
    PROVE  ConfInv'
  <1>1. UNCHANGED <<file, config, configPc, seen, old>>
    BY DEF confVars
  <1>2. ConfType' /\ UnreadInv'
    BY <1>1 DEF ConfInv, ConfType, UnreadInv, Record
  <1>3. ReadInv'
    BY <1>1 DEF ConfInv, ReadInv, ReadFrom
  <1> QED
    BY <1>2, <1>3 DEF ConfInv

-----------------------------------------------------------------------------
(* The parse of update.xml.                                                *)

(* Field j of element n is a place of field f for item t.                  *)
Here(t, f, n, j) ==
    /\ n \in 1..Len(doc) /\ j \in 1..Len(doc[n].fields)
    /\ doc[n].fields[j].field = f /\ doc[n].name = t

(* The parse has been there.                                               *)
Passed(n, j) == n < xmlCur \/ (n = xmlCur /\ j < field)

(* What is stored is what the last place passed says.                      *)
Stored(t, f) ==
    \/ /\ packs[t][f] = ""
       /\ \A n, j \in Nat : Here(t, f, n, j) => ~Passed(n, j)
    \/ \E n, j \in Nat :
         /\ Here(t, f, n, j) /\ Passed(n, j)
         /\ packs[t][f] = doc[n].fields[j].value
         /\ \A o, i \in Nat : Here(t, f, o, i) /\ Passed(o, i) =>
                                o < n \/ (o = n /\ i <= j)

(* An item is held only if one of the first n elements names one.          *)
Held(n) ==
    type # Xml!UPDATE_MAX =>
        \E m \in 1..n : doc[m].name # Xml!UPDATE_MAX

(* The packages are what their fields are.                                 *)
Packs(p) == p = [t \in Xml!Types |-> [f \in Xml!Fields |-> p[t][f]]]

XmlType ==
    /\ Xml!UpdateXmlAssumption
    /\ doc \in Documents
    /\ xmlPc \in {"parse", "fields", "items", "done", "crashed"}
    /\ xmlCur \in 1..(Len(doc) + 1)
    /\ field \in Nat
    /\ type \in Xml!Names
    /\ Packs(packs)

(* Where the parse is, and that it has come to the end before an item runs *)
(* or to a field without text.                                             *)
PlaceInv ==
    /\ xmlPc = "parse" => field = 0 /\ Held(xmlCur - 1)
    /\ xmlPc \in {"fields", "crashed"} =>
         /\ xmlCur <= Len(doc) /\ field > 0 /\ type \in Xml!Types
         /\ doc[xmlCur].name \in {type, Xml!UPDATE_MAX} /\ Held(xmlCur)
    /\ xmlPc \in {"items", "done"} => xmlCur = Len(doc) + 1
    /\ xmlPc = "crashed" => /\ field <= Len(doc[xmlCur].fields)
                            /\ doc[xmlCur].fields[field].value = Xml!NoText

(* A stray element has been stored under an item it does not name.         *)
StoredInv ==
    Xml!NoStray => \A t \in Xml!Types, f \in Xml!Fields : Stored(t, f)

(* The items before i that are wanted.                                     *)
WantedBelow(i) == {t \in 0..3 : t < i /\ Xml!Wanted(t)}

(* They, and no others, were run and are restarted.                        *)
RanList ==
    /\ DOMAIN ran = 1..Len(ran) /\ Len(ran) \in Nat
    /\ Xml!Lists([n \in DOMAIN ran |-> ran[n].item], WantedBelow(item))
    /\ \A n \in DOMAIN ran : ran[n].cmd = packs[ran[n].item]["updatecmd"]
    /\ restarts \in Seq(Nat)
    /\ Xml!Lists(restarts, WantedBelow(item) \cap {0, 1})

RanInv ==
    /\ item \in 0..4
    /\ xmlPc \notin {"items", "done"} => item = 0
    /\ xmlPc = "done" => item = 4
    /\ RanList

XmlInv == XmlType /\ PlaceInv /\ StoredInv /\ RanInv

(* What the documents are.                                                 *)
LEMMA WellFormed ==
    ASSUME XmlType
    PROVE  /\ Len(doc) \in Nat
           /\ DOMAIN doc = 1..Len(doc)
           /\ \A n \in 1..Len(doc) :
                /\ doc[n].name \in Xml!Names
                /\ Len(doc[n].fields) \in Nat
                /\ DOMAIN doc[n].fields = 1..Len(doc[n].fields)
                /\ \A j \in 1..Len(doc[n].fields) :
                     doc[n].fields[j].field \in Xml!Children
  <1>1. doc \in Seq(Xml!Range(doc))
    BY DEF XmlType, Xml!UpdateXmlAssumption
  <1>2. Len(doc) \in Nat /\ DOMAIN doc = 1..Len(doc)
    BY <1>1
  <1>3. ASSUME NEW n \in 1..Len(doc)
        PROVE  /\ doc[n].name \in Xml!Names
               /\ doc[n].fields \in Seq(Xml!Range(doc[n].fields))
               /\ \A x \in Xml!Range(doc[n].fields) : x.field \in Xml!Children
    <2>1. doc[n] \in UNION {Xml!Range(d) : d \in Documents}
      BY <1>2 DEF XmlType, Xml!Range
    <2> QED
      BY <2>1 DEF XmlType, Xml!UpdateXmlAssumption
  <1>4. ASSUME NEW n \in 1..Len(doc)
        PROVE  /\ Len(doc[n].fields) \in Nat
               /\ DOMAIN doc[n].fields = 1..Len(doc[n].fields)
               /\ \A j \in 1..Len(doc[n].fields) :
                    doc[n].fields[j].field \in Xml!Children
    <2> DEFINE s == doc[n].fields
    <2>1. /\ s \in Seq(Xml!Range(s))
          /\ \A x \in Xml!Range(s) : x.field \in Xml!Children
      BY <1>3
    <2> HIDE DEF s
    <2>2. Len(s) \in Nat /\ DOMAIN s = 1..Len(s)
      BY <2>1
    <2>3. \A j \in 1..Len(s) : s[j] \in Xml!Range(s)
      BY <2>2 DEF Xml!Range
    <2> QED
      BY <2>1, <2>2, <2>3 DEF s
  <1> QED
    BY <1>2, <1>3, <1>4

(* The numbers of the items.                                               *)
LEMMA XmlConstants ==
    /\ Xml!UPDATE_MAX = 4 /\ Xml!Types = 0..3 /\ Xml!Names = 0..4
    /\ Xml!UPDATE_PRINT = 0 /\ Xml!UPDATE_PLAYER = 1
    /\ Xml!Fields = {"updatestate", "version", "updatecmd"}
  BY DEF Xml!UPDATE_MAX, Xml!Types, Xml!Names, Xml!UPDATE_PRINT,
         Xml!UPDATE_PLAYER, Xml!Fields

(* What one more element does to the item that is held.                    *)
LEMMA HeldNext ==
    ASSUME XmlType, xmlCur \in 1..Len(doc), Held(xmlCur - 1),
           NEW u, u = Xml!TypeOf(doc[xmlCur].name)
    PROVE  /\ u \in 0..4 /\ doc[xmlCur].name \in {u, 4}
           /\ u # 4 => \E m \in 1..xmlCur : doc[m].name # 4
  <1> DEFINE x == doc[xmlCur].name
  <1>1. x \in 0..4 /\ type \in 0..4 /\ Len(doc) \in Nat
    BY WellFormed, XmlConstants DEF XmlType
  <1>2. u = IF x = 4 THEN type ELSE x
    BY XmlConstants DEF Xml!TypeOf
  <1> QED
    BY <1>1, <1>2, XmlConstants DEF Held

(* As long as nothing is stored and no place passed, Stored is kept.       *)
LEMMA StoredKept ==
    ASSUME UNCHANGED doc, NEW t, NEW f, packs'[t][f] = packs[t][f],
           Stored(t, f),
           \A n, j \in Nat :
             Here(t, f, n, j) => (Passed(n, j)' <=> Passed(n, j))
    PROVE  Stored(t, f)'
  <1>1. \A n, j : Here(t, f, n, j)' <=> Here(t, f, n, j)
    BY DEF Here
  <1>2. CASE /\ packs[t][f] = ""
             /\ \A n, j \in Nat : Here(t, f, n, j) => ~Passed(n, j)
    BY <1>1, <1>2 DEF Stored
  <1>3. CASE \E n, j \in Nat :
              /\ Here(t, f, n, j) /\ Passed(n, j)
              /\ packs[t][f] = doc[n].fields[j].value
              /\ \A o, i \in Nat : Here(t, f, o, i) /\ Passed(o, i) =>
                                     o < n \/ (o = n /\ i <= j)
    <2>1. PICK n \in Nat, j \in Nat :
              /\ Here(t, f, n, j) /\ Passed(n, j)
              /\ packs[t][f] = doc[n].fields[j].value
              /\ \A o, i \in Nat : Here(t, f, o, i) /\ Passed(o, i) =>
                                     o < n \/ (o = n /\ i <= j)
      BY <1>3
    <2>2. /\ Here(t, f, n, j)' /\ Passed(n, j)'
          /\ packs'[t][f] = doc'[n].fields[j].value
          /\ \A o, i \in Nat : Here(t, f, o, i)' /\ Passed(o, i)' =>
                                 o < n \/ (o = n /\ i <= j)
      BY <1>1, <2>1
    <2> QED
      BY <2>2 DEF Stored
  <1> QED
    BY <1>2, <1>3 DEF Stored

(* The document is what it was.                                            *)
LEMMA StrayKept ==
    ASSUME UNCHANGED doc
    PROVE  Xml!NoStray' <=> Xml!NoStray
  BY DEF Xml!NoStray, Xml!Stray

(* What is wanted depends on what is stored.                               *)
LEMMA WantedKept ==
    ASSUME UNCHANGED <<packs, local, force, item>>
    PROVE  WantedBelow(item)' = WantedBelow(item)
  BY DEF WantedBelow, Xml!Wanted

(* What was run stays the list of what is wanted as long as that is.       *)
LEMMA RanListKept ==
    ASSUME UNCHANGED <<ran, restarts, packs>>, RanList,
           WantedBelow(item)' = WantedBelow(item)
    PROVE  RanList'
  <1>1. Xml!Lists([n \in DOMAIN ran |-> ran[n].item], WantedBelow(item))'
    BY DEF RanList, Xml!Lists
  <1>2. Xml!Lists(restarts, WantedBelow(item) \cap {0, 1})'
    BY DEF RanList, Xml!Lists
  <1> QED
    BY <1>1, <1>2 DEF RanList

(* No place lies between a node and its first field, or in a node that     *)
(* names no item.                                                          *)
LEMMA NextNodeStep ==
    ASSUME XmlInv, Xml!NextNode
    PROVE  XmlInv'
  <1>1. /\ xmlPc = "parse" /\ xmlCur \in 1..Len(doc) /\ Len(doc) \in Nat
        /\ field = 0 /\ Held(xmlCur - 1)
        /\ UNCHANGED <<doc, local, force, packs, item, ran, restarts>>
        /\ type' = Xml!TypeOf(doc[xmlCur].name)
        /\ XmlType
    BY WellFormed DEF XmlInv, XmlType, PlaceInv, Xml!NextNode, Xml!inputs,
                     Xml!running
  <1>2. \/ type' < 4 /\ xmlPc' = "fields" /\ field' = 1 /\ xmlCur' = xmlCur
        \/ ~(type' < 4) /\ xmlCur' = xmlCur + 1 /\ UNCHANGED <<xmlPc, field>>
    BY XmlConstants DEF Xml!NextNode
  <1>3. /\ type' \in 0..4 /\ doc[xmlCur].name \in {type', 4}
        /\ type' # 4 => \E m \in 1..xmlCur : doc[m].name # 4
    BY <1>1, HeldNext
  <1>5. XmlType'
    <2>1. xmlCur' \in 1..(Len(doc') + 1) /\ field' \in Nat
          /\ xmlPc' \in {"parse", "fields"}
      BY <1>1, <1>2
    <2> QED
      BY <1>1, <1>3, <2>1, XmlConstants DEF XmlType, Packs
  <1>6. PlaceInv'
    <2>1. CASE type' < 4
      <3>1. xmlPc' = "fields" /\ field' = 1 /\ xmlCur' = xmlCur
        BY <1>2, <2>1
      <3>2. /\ doc'[xmlCur'].name \in {type', 4} /\ type' \in 0..3
            /\ Held(xmlCur)'
        BY <1>1, <1>3, <2>1, <3>1, XmlConstants DEF Held
      <3> QED
        BY <1>1, <3>1, <3>2, XmlConstants DEF PlaceInv
    <2>2. CASE ~(type' < 4)
      <3>1. xmlPc' = "parse" /\ field' = 0 /\ xmlCur' - 1 = xmlCur /\ type' = 4
        BY <1>1, <1>2, <1>3, <2>2
      <3>2. Held(xmlCur - 1)'
        BY <1>1, <1>3, <3>1, XmlConstants DEF Held
      <3> QED
        BY <3>1, <3>2 DEF PlaceInv
    <2> QED
      BY <2>1, <2>2
  <1>7. ASSUME NEW t \in 0..3, NEW f, NEW n \in Nat, NEW j \in Nat,
               Here(t, f, n, j)
        PROVE  Passed(n, j)' <=> Passed(n, j)
    <2>1. j >= 1 /\ n \in 1..Len(doc) /\ doc[n].name = t
      BY <1>7, <1>1, WellFormed DEF Here
    <2>2. CASE type' < 4
      BY <1>1, <1>2, <2>1, <2>2 DEF Passed
    <2>3. CASE ~(type' < 4)
      <3>1. n # xmlCur
        BY <1>1, <1>3, <2>1, <2>3
      <3> QED
        BY <1>1, <1>2, <2>1, <2>3, <3>1 DEF Passed
    <2> QED
      BY <2>2, <2>3
  <1>8. StoredInv'
    BY <1>1, <1>7, StoredKept, StrayKept, XmlConstants DEF XmlInv, StoredInv
  <1>9. RanInv'
    <2>1. xmlPc' \in {"parse", "fields"}
      BY <1>1, <1>2
    <2>2. WantedBelow(item)' = WantedBelow(item)
      BY <1>1, WantedKept
    <2> QED
      BY <1>1, <2>1, <2>2, RanListKept DEF XmlInv, RanInv
  <1> QED
    BY <1>5, <1>6, <1>8, <1>9 DEF XmlInv

(* A field with text is stored under the item that is held.                *)
LEMMA StoreStep ==
    ASSUME XmlInv, xmlPc = "fields", field <= Len(doc[xmlCur].fields),
           Xml!Store(doc[xmlCur].fields[field]),
           doc[xmlCur].fields[field].field \in Xml!Fields,
           field' = field + 1,
           UNCHANGED <<xmlPc, xmlCur, type, doc, local, force, item, ran,
                       restarts>>
    PROVE  XmlInv'
  <1> DEFINE x == doc[xmlCur].fields[field]
  <1>1. /\ XmlType /\ xmlCur \in 1..Len(doc) /\ Len(doc) \in Nat
        /\ field \in Nat /\ field > 0 /\ type \in 0..3
        /\ doc[xmlCur].name \in {type, 4} /\ Held(xmlCur) /\ Packs(packs)
    BY WellFormed, XmlConstants DEF XmlInv, XmlType, PlaceInv
  <1>2. field \in 1..Len(doc[xmlCur].fields) /\ x.field \in Xml!Fields
        /\ DOMAIN doc[xmlCur].fields = 1..Len(doc[xmlCur].fields)
        /\ DOMAIN doc = 1..Len(doc)
    BY <1>1, WellFormed
  <1>3. /\ Packs(packs')
        /\ packs'[type][x.field] = x.value
        /\ \A t \in Xml!Types, f \in Xml!Fields :
             t # type \/ f # x.field => packs'[t][f] = packs[t][f]
    <2> DEFINE fs == Xml!Fields
               ts == Xml!Types
               pk == x.field
               pv == x.value
    <2>1. packs' = [packs EXCEPT ![type][pk] = pv]
      BY <1>2 DEF Xml!Store
    <2>2. type \in ts /\ pk \in fs
      BY <1>1, <1>2, XmlConstants
    <2>3. packs = [t \in ts |-> [f \in fs |-> packs[t][f]]]
      BY <1>1 DEF Packs
    <2> HIDE DEF fs, ts, pk, pv
    <2>4. packs' = [t \in ts |-> [f \in fs |->
                      IF t = type /\ f = pk THEN pv ELSE packs[t][f]]]
      BY <2>1, <2>2, <2>3
    <2>5. \A t \in ts, f \in fs :
            packs'[t][f] = IF t = type /\ f = pk THEN pv ELSE packs[t][f]
      BY <2>4
    <2>6. packs' = [t \in ts |-> [f \in fs |-> packs'[t][f]]]
      BY <2>4
    <2> QED
      BY <2>2, <2>5, <2>6 DEF Packs, ts, fs, pk, pv
  <1>4. XmlType'
    BY <1>1, <1>3 DEF XmlType, Packs
  <1>5. PlaceInv'
    <2>1. Held(xmlCur)'
      BY <1>1 DEF Held
    <2> QED
      BY <1>1, <2>1, XmlConstants DEF PlaceInv
  <1>b. Xml!NoStray => doc[xmlCur].name = type
    <2>1. CASE doc[xmlCur].name = 4
      <3>1. PICK m \in 1..xmlCur : doc[m].name # 4
        BY <1>1, XmlConstants DEF Held
      <3>2. m \in 1..(xmlCur - 1)
        BY <1>1, <2>1, <3>1
      <3>3. Xml!Stray(xmlCur)
        BY <1>2, <2>1, <3>1, <3>2, XmlConstants DEF Xml!Stray
      <3> QED
        BY <1>1, <1>2, <3>3 DEF Xml!NoStray
    <2> QED
      BY <1>1, <2>1
  <1>a. PICK n0 \in Nat, j0 \in Nat : n0 = xmlCur /\ j0 = field
    BY <1>1
  <1>6. \A t, f, n, j : Here(t, f, n, j)' <=> Here(t, f, n, j)
    BY DEF Here
  <1>7. \A n, j \in Nat :
          Passed(n, j)' <=> Passed(n, j) \/ (n = xmlCur /\ j = field)
    BY <1>1 DEF Passed
  <1>8. Xml!NoStray => Here(type, x.field, xmlCur, field)
    BY <1>1, <1>2, <1>b DEF Here
  <1>9. ASSUME Xml!NoStray, NEW t \in 0..3, NEW f \in Xml!Fields
        PROVE  Stored(t, f)'
    <2>1. CASE t = type /\ f = x.field
      <3>1. Here(t, f, n0, j0)' /\ Passed(n0, j0)'
        BY <1>a, <1>6, <1>7, <1>8, <1>9, <2>1
      <3>2. packs'[t][f] = doc'[n0].fields[j0].value
        BY <1>3, <1>a, <2>1
      <3>3. \A o, i \in Nat : Here(t, f, o, i)' /\ Passed(o, i)' =>
                                o < n0 \/ (o = n0 /\ i <= j0)
        BY <1>1, <1>7, <1>a DEF Passed
      <3>4. \E n, j \in Nat :
              /\ Here(t, f, n, j)' /\ Passed(n, j)'
              /\ packs'[t][f] = doc'[n].fields[j].value
              /\ \A o, i \in Nat : Here(t, f, o, i)' /\ Passed(o, i)' =>
                                     o < n \/ (o = n /\ i <= j)
        BY <3>1, <3>2, <3>3
      <3> QED
        BY <3>4 DEF Stored
    <2>2. CASE ~(t = type /\ f = x.field)
      <3>1. packs'[t][f] = packs[t][f]
        BY <1>3, <2>2, XmlConstants
      <3>2. \A n, j \in Nat :
              Here(t, f, n, j) => (Passed(n, j)' <=> Passed(n, j))
        <4>1. ~Here(t, f, xmlCur, field)
          BY <1>9, <1>b, <2>2 DEF Here
        <4> QED
          BY <1>7, <4>1
      <3>3. Stored(t, f)
        BY <1>9, XmlConstants DEF XmlInv, StoredInv
      <3> QED
        BY <3>1, <3>2, <3>3, StoredKept
    <2> QED
      BY <2>1, <2>2
  <1>10. StoredInv'
    BY <1>9, StrayKept, XmlConstants DEF StoredInv
  <1>11. RanInv'
    <2>1. item = 0 /\ WantedBelow(item) = {} /\ WantedBelow(item)' = {}
      BY DEF XmlInv, RanInv, RanList, WantedBelow
    <2>2. DOMAIN ran = {}
      <3>1. {ran[n].item : n \in DOMAIN ran} = {}
        BY <2>1 DEF XmlInv, RanInv, RanList, Xml!Lists
      <3> QED
        BY <3>1
    <2> QED
      BY <2>1, <2>2 DEF XmlInv, RanInv, RanList, Xml!Lists
  <1> QED
    BY <1>4, <1>5, <1>10, <1>11 DEF XmlInv

(* A field is stored, or an other child is; or one without text crashes    *)
(* the updater; or there is none left.                                     *)
LEMMA NextFieldStep ==
    ASSUME XmlInv, Xml!NextField
    PROVE  XmlInv'
  <1> DEFINE s == doc[xmlCur].fields
  <1>1. /\ xmlPc = "fields"
        /\ UNCHANGED <<type, doc, local, force, item, ran, restarts>>
        /\ XmlType /\ Len(doc) \in Nat /\ xmlCur \in 1..Len(doc)
        /\ field \in Nat /\ field > 0 /\ type \in 0..3
        /\ doc[xmlCur].name \in {type, 4} /\ Held(xmlCur)
        /\ Packs(packs)
    BY WellFormed, XmlConstants
    DEF XmlInv, XmlType, PlaceInv, Xml!NextField, Xml!inputs, Xml!running
  <1>2. \A n : Held(n)' <=> Held(n)
    BY <1>1 DEF Held
  <1>3. CASE /\ field <= Len(s) /\ s[field].value # Xml!NoText
             /\ Xml!Store(s[field])
             /\ field' = field + 1 /\ UNCHANGED <<xmlPc, xmlCur>>
    <2>1. CASE s[field].field \in Xml!Fields
      BY <1>1, <1>3, <2>1, StoreStep
    <2>2. CASE s[field].field \notin Xml!Fields
      <3>1. UNCHANGED packs
        BY <1>3, <2>2 DEF Xml!Store
      <3>2. XmlType'
        BY <1>1, <1>3, <3>1 DEF XmlType, Packs
      <3>3. PlaceInv'
        BY <1>1, <1>2, <1>3, XmlConstants DEF PlaceInv
      <3>4. ASSUME NEW t, NEW f \in Xml!Fields, NEW n \in Nat, NEW j \in Nat,
                   Here(t, f, n, j)
            PROVE  Passed(n, j)' <=> Passed(n, j)
        <4>1. ~(n = xmlCur /\ j = field)
          BY <2>2, <3>4 DEF Here
        <4> QED
          BY <1>1, <1>3, <4>1 DEF Passed
      <3>5. StoredInv'
        BY <1>1, <3>1, <3>4, StoredKept, StrayKept DEF XmlInv, StoredInv
      <3>6. RanInv'
        BY <1>1, <1>3, <3>1, WantedKept, RanListKept DEF XmlInv, RanInv
      <3> QED
        BY <3>2, <3>3, <3>5, <3>6 DEF XmlInv
    <2> QED
      BY <2>1, <2>2
  <1>4. CASE /\ field <= Len(s) /\ s[field].value = Xml!NoText
             /\ xmlPc' = "crashed" /\ UNCHANGED <<xmlCur, field, packs>>
    <2>1. XmlType'
      BY <1>1, <1>4 DEF XmlType, Packs
    <2>2. PlaceInv'
      BY <1>1, <1>2, <1>4, XmlConstants DEF XmlInv, PlaceInv
    <2>3. StoredInv'
      BY <1>1, <1>4, StoredKept, StrayKept DEF XmlInv, StoredInv, Passed
    <2>4. RanInv'
      BY <1>1, <1>4, WantedKept, RanListKept DEF XmlInv, RanInv
    <2> QED
      BY <2>1, <2>2, <2>3, <2>4 DEF XmlInv
  <1>5. CASE /\ field > Len(s)
             /\ xmlPc' = "parse" /\ field' = 0 /\ xmlCur' = xmlCur + 1
             /\ UNCHANGED packs
    <2>1. XmlType'
      BY <1>1, <1>5 DEF XmlType, Packs
    <2>2. PlaceInv'
      <3>1. xmlCur' - 1 = xmlCur
        BY <1>1, <1>5
      <3>2. Held(xmlCur - 1)'
        BY <1>1, <3>1 DEF Held
      <3> QED
        BY <1>5, <3>2 DEF PlaceInv
    <2>3. ASSUME NEW t, NEW f, NEW n \in Nat, NEW j \in Nat, Here(t, f, n, j)
          PROVE  Passed(n, j)' <=> Passed(n, j)
      <3>1. j >= 1 /\ n \in 1..Len(doc) /\ j <= Len(doc[n].fields)
            /\ Len(doc[n].fields) \in Nat
        BY <1>1, <2>3, WellFormed DEF Here
      <3> QED
        BY <1>1, <1>5, <3>1 DEF Passed
    <2>4. StoredInv'
      BY <1>1, <1>5, <2>3, StoredKept, StrayKept DEF XmlInv, StoredInv
    <2>5. WantedBelow(item)' = WantedBelow(item)
      BY <1>1, <1>5, WantedKept
    <2>6. RanInv'
      BY <1>1, <1>5, <2>5, RanListKept DEF XmlInv, RanInv
    <2> QED
      BY <2>1, <2>2, <2>4, <2>6 DEF XmlInv
  <1> QED
    BY <1>3, <1>4, <1>5, Zenon DEF Xml!NextField

(* The ends of the two loops.                                              *)
LEMMA LoopEnds ==
    ASSUME XmlInv, Xml!ParseDone \/ Xml!ItemsDone
    PROVE  XmlInv'
  <1>1. /\ UNCHANGED <<type, doc, local, force, item, ran, restarts, packs,
                       xmlCur, field>>
        /\ \/ xmlPc = "parse" /\ xmlPc' = "items" /\ xmlCur > Len(doc)
           \/ xmlPc = "items" /\ xmlPc' = "done" /\ item = 4
    BY XmlConstants DEF Xml!ParseDone, Xml!ItemsDone, Xml!LastItem,
       Xml!inputs, Xml!parsing, Xml!running
  <1>2. Len(doc) \in Nat
    BY WellFormed DEF XmlInv
  <1>3. XmlType'
    BY <1>1 DEF XmlInv, XmlType, Packs
  <1>4. PlaceInv'
    BY <1>1, <1>2 DEF XmlInv, XmlType, PlaceInv
  <1>5. StoredInv'
    BY <1>1, StoredKept, StrayKept DEF XmlInv, StoredInv, Passed
  <1>6. RanInv'
    <2>1. WantedBelow(item)' = WantedBelow(item)
      BY <1>1, WantedKept
    <2> QED
      BY <1>1, <2>1, RanListKept DEF XmlInv, RanInv
  <1> QED
    BY <1>3, <1>4, <1>5, <1>6 DEF XmlInv

(* One more at the end of a list in ascending order.                       *)
LEMMA ListsMore ==
    ASSUME NEW k \in Nat, NEW s, NEW u, NEW v \in Nat, NEW S \in SUBSET Nat,
           DOMAIN s = 1..k, DOMAIN u = 1..(k + 1), u[k + 1] = v,
           \A n \in 1..k : u[n] = s[n],
           Xml!Lists(s, S), \A x \in S : x < v
    PROVE  Xml!Lists(u, S \cup {v})
  <1>1. \A n \in 1..k : s[n] \in S
    BY DEF Xml!Lists
  <1>2. {u[n] : n \in 1..(k + 1)} = S \cup {v}
    <2>1. {s[n] : n \in 1..k} = S
      BY DEF Xml!Lists
    <2> QED
      BY <2>1
  <1>3. ASSUME NEW n \in 1..(k + 1), NEW o \in 1..(k + 1), n < o
        PROVE  u[n] < u[o]
    <2>1. CASE o = k + 1
      <3>1. n \in 1..k
        BY <1>3, <2>1
      <3>2. s[n] < v
        BY <1>1, <3>1
      <3> QED
        BY <2>1, <3>1, <3>2
    <2>2. CASE o # k + 1
      <3>1. n \in 1..k /\ o \in 1..k
        BY <1>3, <2>2
      <3>2. s[n] < s[o]
        BY <1>3, <3>1 DEF Xml!Lists
      <3> QED
        BY <3>1, <3>2
    <2> QED
      BY <2>1, <2>2
  <1> QED
    BY <1>2, <1>3 DEF Xml!Lists

(* The next item comes after all that were run.                            *)
LEMMA NextItemStep ==
    ASSUME XmlInv, Xml!NextItem
    PROVE  XmlInv'
  <1> DEFINE e == [item |-> item, cmd |-> packs[item]["updatecmd"]]
             D == WantedBelow(item)
  <1>1. /\ xmlPc = "items" /\ item \in 0..3 /\ item' = item + 1
        /\ UNCHANGED <<xmlPc, type, doc, local, force, packs, xmlCur, field>>
    BY XmlConstants DEF XmlInv, RanInv, RanList, Xml!NextItem, Xml!LastItem,
       Xml!inputs, Xml!parsing
  <1>2. XmlType'
    BY <1>1 DEF XmlInv, XmlType, Packs
  <1>3. PlaceInv'
    BY <1>1 DEF XmlInv, PlaceInv
  <1>4. StoredInv'
    BY <1>1, StoredKept, StrayKept DEF XmlInv, StoredInv, Passed
  <1>5. \A t : Xml!Wanted(t)' <=> Xml!Wanted(t)
    BY <1>1 DEF Xml!Wanted
  <1>6. CASE Xml!Wanted(item)
    <2>1. /\ ran' = Append(ran, e)
          /\ restarts' = IF item \in {0, 1} THEN Append(restarts, item)
                                            ELSE restarts
      BY <1>6, XmlConstants DEF Xml!NextItem
    <2>2. WantedBelow(item)' = D \cup {item}
      BY <1>1, <1>5, <1>6 DEF WantedBelow
    <2>3. /\ D \in SUBSET Nat /\ \A x \in D : x < item
          /\ D \cap {0, 1} \in SUBSET Nat
      BY DEF WantedBelow
    <2> DEFINE k == Len(ran)
    <2>5. /\ DOMAIN ran = 1..k /\ k \in Nat
      BY DEF XmlInv, RanInv, RanList
    <2>6. /\ Len(ran') = k + 1 /\ DOMAIN ran' = 1..(k + 1)
          /\ ran'[k + 1] = e /\ \A n \in 1..k : ran'[n] = ran[n]
      BY <2>1, <2>5 DEF XmlInv, RanInv, RanList
    <2>7. e.item = item /\ e.cmd = packs[item]["updatecmd"]
      OBVIOUS
    <2> HIDE DEF e, k, D
    <2>8. Xml!Lists([n \in DOMAIN ran' |-> ran'[n].item], D \cup {item})
      <3> DEFINE s == [n \in DOMAIN ran |-> ran[n].item]
                 u == [n \in DOMAIN ran' |-> ran'[n].item]
      <3>1. DOMAIN s = 1..k /\ DOMAIN u = 1..(k + 1) /\ u[k + 1] = item
            /\ \A n \in 1..k : u[n] = s[n]
        BY <2>5, <2>6, <2>7
      <3>2. Xml!Lists(s, D)
        BY DEF XmlInv, RanInv, RanList, D
      <3> HIDE DEF s, u
      <3>3. Xml!Lists(u, D \cup {item})
        BY <1>1, <2>3, <2>5, <3>1, <3>2, ListsMore
      <3> QED
        BY <3>3 DEF u
    <2>9. \A n \in DOMAIN ran' : ran'[n].cmd = packs[ran'[n].item]["updatecmd"]
      <3>1. \A n \in 1..k : ran[n].cmd = packs[ran[n].item]["updatecmd"]
        BY <2>5 DEF XmlInv, RanInv, RanList
      <3> QED
        BY <2>5, <2>6, <2>7, <3>1
    <2>10. /\ restarts' \in Seq(Nat)
           /\ Xml!Lists(restarts', (D \cup {item}) \cap {0, 1})
      <3>1. restarts \in Seq(Nat) /\ Xml!Lists(restarts, D \cap {0, 1})
        BY DEF XmlInv, RanInv, RanList, D
      <3>2. CASE item \notin {0, 1}
        <4>1. (D \cup {item}) \cap {0, 1} = D \cap {0, 1}
          BY <3>2
        <4> QED
          BY <2>1, <3>1, <3>2, <4>1
      <3>3. CASE item \in {0, 1}
        <4>1. /\ restarts' \in Seq(Nat)
              /\ DOMAIN restarts' = 1..(Len(restarts) + 1)
              /\ DOMAIN restarts = 1..Len(restarts) /\ Len(restarts) \in Nat
              /\ restarts'[Len(restarts) + 1] = item
              /\ \A n \in 1..Len(restarts) : restarts'[n] = restarts[n]
          BY <2>1, <3>1, <3>3
        <4>2. (D \cup {item}) \cap {0, 1} = (D \cap {0, 1}) \cup {item}
          BY <3>3
        <4>3. Xml!Lists(restarts', (D \cap {0, 1}) \cup {item})
          BY <1>1, <2>3, <3>1, <4>1, ListsMore
        <4> QED
          BY <4>1, <4>2, <4>3
      <3> QED
        BY <3>2, <3>3
    <2>11. RanInv'
      BY <1>1, <2>2, <2>6, <2>5, <2>8, <2>9, <2>10
      DEF RanInv, RanList, Xml!Lists
    <2> QED
      BY <1>2, <1>3, <1>4, <2>11 DEF XmlInv
  <1>7. CASE ~Xml!Wanted(item)
    <2>1. UNCHANGED <<ran, restarts>>
      BY <1>7 DEF Xml!NextItem
    <2>2. WantedBelow(item)' = D
      BY <1>1, <1>5, <1>7 DEF WantedBelow
    <2>3. RanInv'
      BY <1>1, <2>1, <2>2, RanListKept DEF XmlInv, RanInv
    <2> QED
      BY <1>2, <1>3, <1>4, <2>3 DEF XmlInv
  <1> QED
    BY <1>6, <1>7

(* Every step of the parse and the run.                                    *)
LEMMA XmlStepped ==
    ASSUME XmlInv, Xml!Next
    PROVE  XmlInv'
  BY NextNodeStep, NextFieldStep, LoopEnds, NextItemStep DEF Xml!Next

(* Nothing is stored and no place passed at the start.                     *)
LEMMA XmlInit ==
    ASSUME Xml!UpdateXmlAssumption, Xml!Init
    PROVE  XmlInv
  <1>0. /\ doc \in Documents /\ xmlPc = "parse" /\ xmlCur = 1 /\ field = 0
        /\ type = 4
    BY XmlConstants DEF Xml!Init
  <1>p. packs = [t \in Xml!Types |-> [f \in Xml!Fields |-> ""]]
    BY DEF Xml!Init
  <1>1. XmlType
    <2>1. Packs(packs)
      BY <1>p DEF Packs
    <2>2. Len(doc) \in Nat
      <3>1. doc \in Seq(Xml!Range(doc))
        BY <1>0 DEF Xml!UpdateXmlAssumption
      <3> QED
        BY <3>1
    <2> QED
      BY <1>0, <2>1, <2>2, XmlConstants DEF XmlType
  <1>2. PlaceInv
    <2>1. Held(0)
      BY <1>0, XmlConstants DEF Held
    <2> QED
      BY <1>0, <2>1 DEF PlaceInv
  <1>3. ASSUME NEW t \in 0..3, NEW f \in Xml!Fields
        PROVE  Stored(t, f)
    <2>1. packs[t][f] = ""
      BY <1>p, XmlConstants
    <2>2. \A n, j \in Nat : Here(t, f, n, j) => ~Passed(n, j)
      BY <1>0, <1>1, WellFormed DEF Here, Passed
    <2> QED
      BY <2>1, <2>2 DEF Stored
  <1>4. StoredInv
    BY <1>3, XmlConstants DEF StoredInv
  <1>5. RanInv
    <2>1. WantedBelow(0) = {}
      BY DEF WantedBelow
    <2>2. item = 0 /\ ran = <<>> /\ restarts = <<>> /\ xmlPc = "parse"
      BY DEF Xml!Init
    <2> QED
      BY <2>1, <2>2 DEF RanInv, RanList, Xml!Lists
  <1> QED
    BY <1>1, <1>2, <1>4, <1>5 DEF XmlInv

(* A place, and what the last one says.                                    *)
LEMMA PlaceIs ==
    ASSUME XmlType, NEW t, NEW f, NEW p
    PROVE  p \in Xml!Places(t, f) <=>
             \E n, j \in Nat : p = <<n, j>> /\ Here(t, f, n, j)
  <1>1. p \in Xml!Places(t, f) <=>
          \E n \in DOMAIN doc : \E j \in DOMAIN doc[n].fields :
            /\ doc[n].name = t /\ doc[n].fields[j].field = f /\ p = <<n, j>>
    BY DEF Xml!Places
  <1>2. DOMAIN doc = 1..Len(doc) /\ Len(doc) \in Nat
        /\ \A n \in 1..Len(doc) : /\ Len(doc[n].fields) \in Nat
                                  /\ DOMAIN doc[n].fields
                                       = 1..Len(doc[n].fields)
    BY WellFormed
  <1> QED
    BY <1>1, <1>2 DEF Here

(* After the parse, what is stored is what the document says.              *)
LEMMA SaysStored ==
    ASSUME XmlInv, xmlCur = Len(doc) + 1, Xml!NoStray, NEW t \in 0..3,
           NEW f \in Xml!Fields
    PROVE  Xml!Says(t, f) = packs[t][f]
  <1> DEFINE P == Xml!Places(t, f)
  <1>1. \A p : p \in P <=> \E n, j \in Nat : p = <<n, j>> /\ Here(t, f, n, j)
    BY PlaceIs DEF XmlInv
  <1>2. Stored(t, f) /\ Len(doc) \in Nat
    BY XmlConstants, WellFormed DEF XmlInv, StoredInv
  <1>3. \A n, j \in Nat : Here(t, f, n, j) => Passed(n, j)
    BY <1>2 DEF Here, Passed
  <1>4. CASE packs[t][f] = "" /\ \A n, j \in Nat : ~Here(t, f, n, j)
    <2>1. P = {}
      BY <1>1, <1>4
    <2> QED
      BY <1>4, <2>1 DEF Xml!Says
  <1>5. ASSUME NEW n \in Nat, NEW j \in Nat, Here(t, f, n, j),
               packs[t][f] = doc[n].fields[j].value,
               \A o, i \in Nat : Here(t, f, o, i) =>
                                   o < n \/ (o = n /\ i <= j)
        PROVE  Xml!Says(t, f) = packs[t][f]
    <2> DEFINE IsLast(p) == \A q \in P \ {p} : Xml!Before(q, p)
               z == <<n, j>>
    <2>1. z \in P
      BY <1>1, <1>5
    <2>2. ASSUME NEW q \in P, q # z
          PROVE  Xml!Before(q, z) /\ ~Xml!Before(z, q)
      <3>1. PICK o \in Nat, i \in Nat : q = <<o, i>> /\ Here(t, f, o, i)
        BY <1>1
      <3>2. o < n \/ (o = n /\ i < j)
        BY <1>5, <2>2, <3>1
      <3>3. z[1] = n /\ z[2] = j /\ q[1] = o /\ q[2] = i
        BY <3>1
      <3> QED
        BY <3>2, <3>3 DEF Xml!Before
    <2> HIDE DEF P
    <2>3. z \in P /\ IsLast(z)
      BY <2>1, <2>2
    <2>4. \A p \in P : IsLast(p) => p = z
      BY <2>1, <2>2
    <2>5. (CHOOSE p \in P : IsLast(p)) = z
      BY <2>3, <2>4
    <2>6. Xml!Says(t, f) = Xml!At(z)
      BY <2>1, <2>5 DEF Xml!Says, P
    <2> QED
      BY <1>5, <2>6 DEF Xml!At
  <1> QED
    BY <1>2, <1>3, <1>4, <1>5 DEF Stored

(* What the invariant says at the end, or where the updater crashed.       *)
LEMMA RunIsExact ==
    ASSUME XmlInv
    PROVE  RunsExact
  <1>1. ASSUME xmlPc = "done", Xml!NoStray
        PROVE  LET Due(t) == Xml!Says(t, "updatestate") = "true"
                             /\ (force \/ local[t] # Xml!Says(t, "version"))
                   items  == [n \in DOMAIN ran |-> ran[n].item]
               IN  /\ Xml!Lists(items, {t \in Xml!Types : Due(t)})
                   /\ \A n \in DOMAIN ran :
                        ran[n].cmd = Xml!Says(items[n], "updatecmd")
                   /\ Xml!Lists(restarts,
                                {t \in {Xml!UPDATE_PRINT, Xml!UPDATE_PLAYER} :
                                   Due(t)})
    <2> DEFINE Due(t) == Xml!Says(t, "updatestate") = "true"
                             /\ (force \/ local[t] # Xml!Says(t, "version"))
               items  == [n \in DOMAIN ran |-> ran[n].item]
    <2>1. xmlCur = Len(doc) + 1 /\ item = 4
      BY <1>1 DEF XmlInv, PlaceInv, RanInv
    <2>2. \A t \in 0..3, f \in Xml!Fields : Xml!Says(t, f) = packs[t][f]
      BY <1>1, <2>1, SaysStored
    <2>3. \A t \in 0..3 : Due(t) <=> Xml!Wanted(t)
      BY <2>2, XmlConstants DEF Xml!Wanted
    <2> HIDE DEF Due
    <2>4. /\ WantedBelow(4) = {t \in Xml!Types : Due(t)}
          /\ WantedBelow(4) \cap {0, 1} =
               {t \in {Xml!UPDATE_PRINT, Xml!UPDATE_PLAYER} : Due(t)}
      BY <2>3, XmlConstants DEF WantedBelow
    <2>5. Xml!Lists(items, {t \in Xml!Types : Due(t)})
      BY <2>1, <2>4 DEF XmlInv, RanInv, RanList
    <2>6. Xml!Lists(restarts,
                    {t \in {Xml!UPDATE_PRINT, Xml!UPDATE_PLAYER} : Due(t)})
      BY <2>1, <2>4 DEF XmlInv, RanInv, RanList
    <2>7. \A n \in DOMAIN ran : ran[n].cmd = Xml!Says(items[n], "updatecmd")
      <3> TAKE n \in DOMAIN ran
      <3>1. items[n] = ran[n].item /\ items[n] \in 0..3
        BY <2>5, XmlConstants DEF Xml!Lists
      <3> QED
        BY <2>2, <3>1, XmlConstants DEF XmlInv, RanInv, RanList
    <2> QED
      BY <2>5, <2>6, <2>7 DEF Due
  <1>2. ASSUME xmlPc = "crashed"
        PROVE  ~Xml!AllText
    <2>1. /\ xmlCur \in DOMAIN doc /\ field \in DOMAIN doc[xmlCur].fields
          /\ doc[xmlCur].fields[field].value = Xml!NoText
      BY <1>2, WellFormed DEF XmlInv, XmlType, PlaceInv
    <2> QED
      BY <2>1 DEF Xml!AllText
  <1> QED
    BY <1>1, <1>2 DEF RunsExact, Xml!RunsExact

(* The steps of the other parts.                                           *)
LEMMA XmlKept ==
    ASSUME XmlInv, UNCHANGED xmlVars
    PROVE  XmlInv'
  <1>1. UNCHANGED <<doc, local, force, xmlPc, xmlCur, field, type, packs, item,
                    ran, restarts>>
    BY DEF xmlVars
  <1>2. XmlType'
    BY <1>1 DEF XmlInv, XmlType, Packs
  <1>3. PlaceInv'
    BY <1>1 DEF XmlInv, PlaceInv, Held
  <1>4. StoredInv'
    BY <1>1, StoredKept, StrayKept DEF XmlInv, StoredInv, Passed
  <1>5. RanInv'
    BY <1>1, WantedKept, RanListKept DEF XmlInv, RanInv
  <1> QED
    BY <1>2, <1>3, <1>4, <1>5 DEF XmlInv

-----------------------------------------------------------------------------
(* MD5.                                                                    *)

(* Products are monotone.                                                  *)
LEMMA Times ==
    ASSUME NEW b \in Nat, NEW x \in Int, NEW y \in Int, x <= y
    PROVE  b * x <= b * y
  OBVIOUS

(* Quotient and remainder ...                                              *)
LEMMA DivMod ==
    ASSUME NEW a \in Nat, NEW b \in Nat \ {0}
    PROVE  /\ a \div b \in Nat /\ a % b \in 0..(b - 1)
           /\ a = b * (a \div b) + (a % b)
  OBVIOUS

(* ... are the only ones.                                                  *)
LEMMA DivUnique ==
    ASSUME NEW a \in Nat, NEW b \in Nat \ {0}, NEW q \in Int,
           NEW r \in 0..(b - 1), a = b * q + r
    PROVE  a \div b = q /\ a % b = r /\ q \in Nat
  <1> DEFINE Q == a \div b
             R == a % b
  <1>1. Q \in Nat /\ R \in 0..(b - 1) /\ a = b * Q + R
    BY DivMod
  <1> HIDE DEF Q, R
  <1>2. CASE Q < q
    <2>1. b * (Q + 1) <= b * q
      BY <1>1, <1>2, Times
    <2>2. b * (Q + 1) = b * Q + b
      BY <1>1
    <2>3. b * q \in Int /\ b * Q \in Int
      BY <1>1
    <2> QED
      BY <1>1, <2>1, <2>2, <2>3
  <1>3. CASE q < Q
    <2>1. b * (q + 1) <= b * Q
      BY <1>1, <1>3, Times
    <2>2. b * (q + 1) = b * q + b
      OBVIOUS
    <2>3. b * q \in Int /\ b * Q \in Int
      BY <1>1
    <2> QED
      BY <1>1, <2>1, <2>2, <2>3
  <1>4. CASE q = Q
    BY <1>1, <1>4 DEF Q, R
  <1> QED
    BY <1>1, <1>2, <1>3, <1>4

(* A remainder may be taken before a sum.                                  *)
LEMMA ModAdd ==
    ASSUME NEW a \in Nat, NEW c \in Nat, NEW b \in Nat \ {0}
    PROVE  ((a % b) + c) % b = (a + c) % b
  <1> DEFINE Q == a \div b
             R == a % b
             X == (R + c) \div b
             Y == (R + c) % b
  <1>1. Q \in Nat /\ R \in 0..(b - 1) /\ a = b * Q + R
    BY DivMod
  <1>2. X \in Nat /\ Y \in 0..(b - 1) /\ R + c = b * X + Y
    <2>1. R + c \in Nat
      BY <1>1
    <2> HIDE DEF R
    <2> QED
      BY <2>1, DivMod
  <1> HIDE DEF Q, R, X, Y
  <1>3. b * (Q + X) = b * Q + b * X
    BY <1>1, <1>2
  <1>4. b * Q \in Int /\ b * X \in Int
    BY <1>1, <1>2
  <1>5. a + c = b * (Q + X) + Y
    BY <1>1, <1>2, <1>3, <1>4
  <1>6. (a + c) % b = Y
    <2>1. a + c \in Nat /\ Q + X \in Int
      BY <1>1, <1>2
    <2> QED
      BY <1>2, <1>5, <2>1, DivUnique
  <1> QED
    BY <1>6 DEF R, Y

-----------------------------------------------------------------------------
(* What MD5 has been fed.                                                  *)

(* S is a set of bytes, s the stream of them. c has been fed the first n of *)
(* s: the blocks they fill, the rest, and their number in bits.            *)
Fed(c, n, s, S) ==
    /\ s \in [Nat -> S]
    /\ c.count[1] = (n * 8) % Word
    /\ c.count[2] = ((n * 8) \div Word) % Word
    /\ c.buffer \in [1..Block -> S]
    /\ c.blocks \in Seq(Seq(S)) /\ Len(c.blocks) = n \div Block
    /\ \A b \in 1..(n \div Block) :
         c.blocks[b] = [j \in 1..Block |-> s[(b - 1) * Block + j]]
    /\ \A j \in 1..(n % Block) : c.buffer[j] = s[(n \div Block) * Block + j]

(* The length in bits, which wraps, still says where the buffer ends.      *)
LEMMA IndexIs ==
    ASSUME Md5!Md5Assumption, NEW n \in Nat, NEW c,
           c.count[1] = (n * 8) % Word
    PROVE  Md5!Index(c) = n % Block
  <1> DEFINE d == 8 * Block
             k == Word \div d
             N == n * 8
             u == N \div Word
             v == N % Word
             q == n \div Block
             r == n % Block
             h == k * u
  <1>1. /\ Block \in Nat \ {0} /\ Word \in Nat \ {0}
        /\ Word % d = 0 /\ d \in Nat \ {0}
    BY DEF Md5!Md5Assumption
  <1>2. k \in Nat /\ Word = d * k
    <2>1. k \in Nat /\ Word = d * k + (Word % d)
      BY <1>1, DivMod
    <2> HIDE DEF d, k
    <2>2. d * k \in Nat
      BY <1>1, <2>1
    <2> QED
      BY <1>1, <2>1, <2>2
  <1>3. u \in Nat /\ v \in Nat /\ n * 8 = Word * u + v
    <2>1. N \in Nat
      OBVIOUS
    <2>2. N = n * 8
      OBVIOUS
    <2> HIDE DEF N
    <2>3. u \in Nat /\ v \in 0..(Word - 1) /\ N = Word * u + v
      BY <1>1, <2>1, DivMod
    <2> QED
      BY <1>1, <2>2, <2>3
  <1>4. q \in Nat /\ r \in 0..(Block - 1) /\ n = Block * q + r
    BY <1>1, DivMod
  <1> HIDE DEF k, u, v, q, r, N
  <1>5. h \in Nat
    BY <1>2, <1>3
  <1>6. Word * u = 8 * (Block * h)
    <2>1. Word * u = (8 * Block) * k * u
      BY <1>2
    <2>2. (8 * Block) * k * u = 8 * (Block * (k * u))
      BY <1>1, <1>2, <1>3
    <2> QED
      BY <2>1, <2>2
  <1> HIDE DEF h, d
  <1>7. Block * h \in Nat
    BY <1>1, <1>5
  <1>8. n - Block * h \in Nat /\ v = 8 * (n - Block * h) + 0
    <2> DEFINE X == Block * h
    <2>1. X \in Nat /\ n * 8 = 8 * X + v
      BY <1>3, <1>6, <1>7
    <2> HIDE DEF X
    <2>2. n - X \in Nat /\ v = 8 * (n - X) + 0
      BY <1>3, <2>1
    <2> QED
      BY <2>2 DEF X
  <1>9. v \div 8 = n - Block * h
    BY <1>3, <1>8, DivUnique
  <1>10. n - Block * h = Block * (q - h) + r
    <2>1. Block * (q - h) = Block * q - Block * h
      BY <1>1, <1>4, <1>5
    <2>2. Block * q \in Nat
      BY <1>1, <1>4
    <2> QED
      BY <1>4, <1>7, <2>1, <2>2
  <1>11. (n - Block * h) % Block = r
    BY <1>1, <1>4, <1>5, <1>8, <1>10, DivUnique
  <1> QED
    BY <1>9, <1>11 DEF Md5!Index, v, r, N

(* The two words of the count, with the carry.                             *)
LEMMA CountIs ==
    ASSUME Md5!Md5Assumption, NEW n \in Nat, NEW m \in Nat, NEW c,
           c.count[1] = (n * 8) % Word, c.count[2] = ((n * 8) \div Word) % Word
    PROVE  Md5!Count(c, m) = <<((n + m) * 8) % Word,
                               (((n + m) * 8) \div Word) % Word>>
  <1> DEFINE W == Word
             N == n * 8
             M == m * 8
             u == N \div W
             v == N % W
             x == M \div W
             y == M % W
             low == (v + y) % W
             carry == IF low < y THEN 1 ELSE 0
             t == (n + m) * 8
  <1>1. W \in Nat \ {0} /\ N \in Nat /\ M \in Nat /\ t \in Nat
        /\ t = N + M
    BY DEF Md5!Md5Assumption
  <1>4. Md5!Count(c, m) = <<low, ((u % W) + carry + x) % W>>
    BY DEF Md5!Count
  <1> HIDE DEF W, N, M, t
  <1>2. u \in Nat /\ v \in 0..(W - 1) /\ N = W * u + v
    BY <1>1, DivMod
  <1>3. x \in Nat /\ y \in 0..(W - 1) /\ M = W * x + y
    BY <1>1, DivMod
  <1> HIDE DEF u, v, x, y
  <1>5. /\ W * u \in Nat /\ W * x \in Nat
        /\ W * (u + x) = W * u + W * x
        /\ W * (u + x + 1) = W * u + W * x + W
        /\ u + x \in Int /\ u + x + 1 \in Int /\ 1 + x \in Nat
        /\ u % W \in Nat
    <2>1. u % W \in Nat
      BY <1>1, <1>2, DivMod
    <2> QED
      BY <1>1, <1>2, <1>3, <2>1
  <1>6. CASE v + y < W
    <2>1. v + y = W * 0 + (v + y) /\ v + y \in 0..(W - 1) /\ v + y \in Nat
      BY <1>1, <1>2, <1>3, <1>6
    <2>2. low = v + y
      BY <1>1, <2>1, DivUnique
    <2>3. carry = 0
      BY <1>2, <1>3, <2>2
    <2> DEFINE Q == u + x
    <2>4. t = W * Q + low /\ low \in 0..(W - 1) /\ Q \in Int
      BY <1>1, <1>2, <1>3, <1>5, <2>1, <2>2
    <2> HIDE DEF low, Q
    <2>5. t % W = low /\ t \div W = Q
      BY <1>1, <2>4, DivUnique
    <2>6. ((u % W) + x) % W = (u + x) % W
      <3>1. W \in Nat \ {0} /\ u \in Nat /\ x \in Nat
        BY <1>1, <1>2, <1>3
      <3> QED
        BY <3>1, ModAdd
    <2>7. (u % W) + carry + x = (u % W) + x
      BY <1>3, <1>5, <2>3
    <2> QED
      BY <1>4, <2>5, <2>6, <2>7 DEF W, t, N, Q, low
  <1>7. CASE v + y >= W
    <2>1. v + y = W * 1 + (v + y - W) /\ v + y - W \in 0..(W - 1)
          /\ v + y \in Nat
      BY <1>1, <1>2, <1>3, <1>7
    <2>2. low = v + y - W
      BY <1>1, <2>1, DivUnique
    <2>3. carry = 1
      BY <1>1, <1>2, <1>3, <2>2
    <2> DEFINE Q == u + x + 1
    <2>4. t = W * Q + low /\ low \in 0..(W - 1) /\ Q \in Int
      BY <1>1, <1>2, <1>3, <1>5, <2>1, <2>2
    <2> HIDE DEF low, Q
    <2>5. t % W = low /\ t \div W = Q
      BY <1>1, <2>4, DivUnique
    <2>6. ((u % W) + (1 + x)) % W = (u + (1 + x)) % W
      <3>1. W \in Nat \ {0} /\ u \in Nat /\ 1 + x \in Nat
        BY <1>1, <1>2, <1>5
      <3> QED
        BY <3>1, ModAdd
    <2>7. (u % W) + carry + x = (u % W) + (1 + x) /\ u + (1 + x) = u + x + 1
      BY <1>2, <1>3, <1>5, <2>3
    <2> QED
      BY <1>4, <2>5, <2>6, <2>7 DEF W, t, N, Q, low
  <1> QED
    BY <1>1, <1>2, <1>3, <1>6, <1>7

(* Quotient and remainder by the length of a block.                        *)
LEMMA BlockDiv ==
    ASSUME Md5!Md5Assumption, NEW n \in Nat, NEW q \in Nat,
           NEW r \in 0..(Block - 1), n = Block * q + r
    PROVE  n \div Block = q /\ n % Block = r
  <1>1. Block \in Nat \ {0}
    BY DEF Md5!Md5Assumption
  <1> QED
    BY <1>1, DivUnique

(* To have been fed n bytes, by their quotient and remainder.              *)
LEMMA FedIs ==
    ASSUME Md5!Md5Assumption, NEW n \in Nat, NEW q \in Nat,
           NEW r \in 0..(Block - 1), n = Block * q + r,
           NEW c, NEW S, NEW s \in [Nat -> S],
           c.count = <<(n * 8) % Word, ((n * 8) \div Word) % Word>>,
           c.buffer \in [1..Block -> S],
           c.blocks \in Seq(Seq(S)), Len(c.blocks) = q,
           \A b \in 1..q :
             c.blocks[b] = [j \in 1..Block |-> s[(b - 1) * Block + j]],
           \A j \in 1..r : c.buffer[j] = s[q * Block + j]
    PROVE  Fed(c, n, s, S)
  <1>1. n \div Block = q /\ n % Block = r
    BY BlockDiv
  <1> QED
    BY <1>1 DEF Fed

(* A piece that does not fill the buffer is put behind what is there.      *)
LEMMA FedLess ==
    ASSUME Md5!Md5Assumption, NEW n \in Nat, NEW c, NEW S, NEW s,
           Fed(c, n, s, S), NEW input \in Seq(S),
           \A i \in 1..Len(input) : input[i] = s[n + i],
           ~Md5!Fills(Len(input), Block - (n % Block))
    PROVE  Fed(Md5!MD5Update(c, input), n + Len(input), s, S)
  <1> DEFINE d == Md5!MD5Update(c, input)
             m == Len(input)
             q == n \div Block
             r == n % Block
             B == Block
             p == B - r
  <1>1. /\ m \in Nat /\ q \in Nat /\ r \in 0..(B - 1) /\ n = B * q + r
        /\ B \in Nat \ {0} /\ DOMAIN input = 1..m
    <2>1. Block \in Nat \ {0} /\ m \in Nat /\ DOMAIN input = 1..m
      BY DEF Md5!Md5Assumption
    <2> HIDE DEF m
    <2> QED
      BY <2>1, DivMod
  <1>2. r + m < B
    BY <1>1 DEF Md5!Fills
  <1>3. Md5!Index(c) = r
    BY IndexIs DEF Fed
  <1>4. /\ \A j \in 1..r : c.buffer[j] = s[q * B + j]
        /\ c.buffer \in [1..B -> S]
        /\ c.blocks \in Seq(Seq(S)) /\ Len(c.blocks) = q
        /\ \A b \in 1..q : c.blocks[b] = [j \in 1..B |-> s[(b - 1) * B + j]]
        /\ s \in [Nat -> S]
    BY DEF Fed
  <1>5. d.count = <<((n + m) * 8) % Word, (((n + m) * 8) \div Word) % Word>>
    <2>1. d.count = Md5!Count(c, m)
      BY DEF Md5!MD5Update
    <2>2. m \in Nat
      OBVIOUS
    <2> HIDE DEF m, d
    <2> QED
      BY <2>1, <2>2, CountIs DEF Fed
  <1>6. /\ d.buffer = [i \in 1..B |-> IF i \in (r + 1)..(r + m)
                                       THEN input[i - r] ELSE c.buffer[i]]
        /\ d.blocks = c.blocks
    <2> DEFINE full  == Md5!Fills(m, p)
               used  == IF full THEN p + ((m - p) \div B) * B ELSE 0
               start == IF full THEN 0 ELSE r
               rest  == SubSeq(input, used + 1, m)
               first == SubSeq(c.buffer, 1, r) \o SubSeq(input, 1, p)
               held  == IF full THEN first ELSE c.buffer
               x == SubSeq(input, 0 + 1, m)
               e == [j \in 1..0 |->
                       SubSeq(input, p + (j - 1) * B + 1, p + j * B)]
    <2>1. /\ start = r /\ rest = x /\ held = c.buffer
          /\ d.buffer = [i \in 1..B |->
                            IF i \in (start + 1)..(start + Len(rest))
                              THEN rest[i - start] ELSE held[i]]
          /\ d.blocks = c.blocks \o <<>> \o e
      BY <1>3 DEF Md5!MD5Update
    <2>2. e = <<>>
      OBVIOUS
    <2>3. c.blocks \o <<>> \o <<>> = c.blocks
      BY <1>4
    <2>4. x = input /\ Len(x) = m
      OBVIOUS
    <2> HIDE DEF e, start, rest, held, x
    <2> QED
      BY <1>1, <2>1, <2>2, <2>3, <2>4 DEF x
  <1> HIDE DEF q, r, B, m, p, d
  <1>7. B * q \in Nat /\ B * q = q * B
    BY <1>1
  <1>8. n + m = B * q + (r + m) /\ r + m \in 0..(B - 1) /\ n + m \in Nat
    BY <1>1, <1>2, <1>7
  <1>9. d.buffer \in [1..B -> S]
    BY <1>1, <1>4, <1>6
  <1>10. ASSUME NEW j \in 1..(r + m)
         PROVE  d.buffer[j] = s[q * B + j]
    <2>1. j \in 1..B
      BY <1>1, <1>2
    <2>2. CASE j <= r
      <3>1. d.buffer[j] = c.buffer[j]
        BY <1>1, <1>6, <2>1, <2>2
      <3> QED
        BY <1>1, <1>4, <2>2, <3>1
    <2>3. CASE j > r
      <3>1. d.buffer[j] = input[j - r] /\ j - r \in 1..m
        BY <1>1, <1>6, <2>1, <2>3
      <3>2. n + (j - r) = q * B + j
        BY <1>1, <1>7
      <3> QED
        BY <3>1, <3>2 DEF m
    <2> QED
      BY <1>1, <2>2, <2>3
  <1> DEFINE N == n + m
             t == r + m
  <1>11. N = B * q + t /\ t \in 0..(B - 1) /\ N \in Nat
    BY <1>8
  <1>12. /\ d.count = <<(N * 8) % Word, ((N * 8) \div Word) % Word>>
         /\ \A j \in 1..t : d.buffer[j] = s[q * B + j]
    BY <1>5, <1>10
  <1>13. Fed(d, N, s, S)
    <2>1. N = B * q + t
      BY <1>11
    <2> HIDE DEF N, t
    <2>2. /\ N \in Nat /\ q \in Nat /\ t \in 0..(B - 1)
          /\ s \in [Nat -> S]
          /\ d.count = <<(N * 8) % Word, ((N * 8) \div Word) % Word>>
          /\ d.buffer \in [1..B -> S]
          /\ d.blocks \in Seq(Seq(S)) /\ Len(d.blocks) = q
          /\ \A b \in 1..q :
               d.blocks[b] = [j \in 1..B |-> s[(b - 1) * B + j]]
          /\ \A j \in 1..t : d.buffer[j] = s[q * B + j]
      BY <1>1, <1>4, <1>6, <1>9, <1>11, <1>12
    <2> QED
      BY <2>1, <2>2, FedIs DEF B
  <1> QED
    BY <1>13 DEF d, m

(* A function on an interval is a sequence ...                             *)
LEMMA IsSeq ==
    ASSUME NEW S, NEW n \in Nat, NEW f \in [1..n -> S]
    PROVE  f \in Seq(S) /\ Len(f) = n
  OBVIOUS

(* ... of which one can take a piece ...                                   *)
LEMMA Piece ==
    ASSUME NEW S, NEW a \in Seq(S), NEW k \in Nat, NEW l \in Nat,
           k + l <= Len(a)
    PROVE  /\ SubSeq(a, k + 1, k + l) \in Seq(S)
           /\ Len(SubSeq(a, k + 1, k + l)) = l
           /\ \A j \in 1..l : SubSeq(a, k + 1, k + l)[j] = a[k + j]
  OBVIOUS

(* ... and put another behind it.                                          *)
LEMMA Joined ==
    ASSUME NEW S, NEW a \in Seq(S), NEW b \in Seq(S)
    PROVE  /\ a \o b \in Seq(S) /\ Len(a \o b) = Len(a) + Len(b)
           /\ \A i \in 1..(Len(a) + Len(b)) :
                (a \o b)[i] = IF i <= Len(a) THEN a[i] ELSE b[i - Len(a)]
  OBVIOUS

(* One that fills it is cut into blocks, and what is left begins it anew.  *)
LEMMA FedMore ==
    ASSUME Md5!Md5Assumption, NEW n \in Nat, NEW c, NEW S, NEW s,
           Fed(c, n, s, S), NEW input \in Seq(S),
           \A i \in 1..Len(input) : input[i] = s[n + i],
           Md5!Fills(Len(input), Block - (n % Block))
    PROVE  Fed(Md5!MD5Update(c, input), n + Len(input), s, S)
  <1> DEFINE d == Md5!MD5Update(c, input)
             m == Len(input)
             B == Block
             q == n \div Block
             r == n % Block
             p == B - r
             a == m - p
             w == a \div B
             t == a % B
             u == p + w * B
             f == SubSeq(c.buffer, 1, r) \o SubSeq(input, 1, p)
             x == SubSeq(input, u + 1, m)
             e == [j \in 1..w |->
                     SubSeq(input, p + (j - 1) * B + 1, p + j * B)]
  <1>1. /\ m \in Nat /\ q \in Nat /\ r \in 0..(B - 1) /\ n = B * q + r
        /\ B \in Nat \ {0} /\ DOMAIN input = 1..m
    <2>1. Block \in Nat \ {0} /\ m \in Nat /\ DOMAIN input = 1..m
      BY DEF Md5!Md5Assumption
    <2> HIDE DEF m
    <2> QED
      BY <2>1, DivMod
  <1>2. p \in 1..B /\ a \in Nat
    <2>1. m >= p
      BY DEF Md5!Fills
    <2> HIDE DEF m, r, q
    <2> QED
      BY <1>1, <2>1
  <1>3. w \in Nat /\ t \in 0..(B - 1) /\ a = B * w + t
    <2> HIDE DEF a, B
    <2> QED
      BY <1>1, <1>2, DivMod
  <1>4. Md5!Index(c) = r
    BY IndexIs DEF Fed
  <1>5. /\ \A j \in 1..r : c.buffer[j] = s[q * B + j]
        /\ c.buffer \in [1..B -> S]
        /\ c.blocks \in Seq(Seq(S)) /\ Len(c.blocks) = q
        /\ \A b \in 1..q : c.blocks[b] = [j \in 1..B |-> s[(b - 1) * B + j]]
        /\ s \in [Nat -> S]
    BY DEF Fed
  <1>6. d.count = <<((n + m) * 8) % Word, (((n + m) * 8) \div Word) % Word>>
    <2>1. d.count = Md5!Count(c, m)
      BY DEF Md5!MD5Update
    <2>2. m \in Nat
      OBVIOUS
    <2> HIDE DEF m, d
    <2> QED
      BY <2>1, <2>2, CountIs DEF Fed
  <1>7. /\ d.buffer = [i \in 1..B |-> IF i \in (0 + 1)..(0 + Len(x))
                                       THEN x[i - 0] ELSE f[i]]
        /\ d.blocks = c.blocks \o <<f>> \o e
    BY <1>4 DEF Md5!MD5Update
  <1> DEFINE k == q + 1 + w
             N == n + m
  <1> HIDE DEF q, r, B, m, p, d, a, w, t, f, x, e, u
  <1>8. /\ p = B - r /\ a = m - p /\ u = p + w * B
    BY DEF p, a, u
  <1>9. /\ w * B = B * w /\ w * B \in Nat /\ q * B = B * q /\ q * B \in Nat
        /\ B * k = B * q + B + B * w /\ k * B = B * k /\ k \in Nat
    BY <1>1, <1>3
  <1>10. /\ N = B * k + t /\ n + u = k * B /\ n + p = q * B + B
         /\ u \in Nat /\ u + t = m /\ N \in Nat
    <2> HIDE DEF k
    <2> QED
      BY <1>1, <1>2, <1>3, <1>8, <1>9
  <1>11. /\ f = [j \in 1..B |-> s[q * B + j]]
         /\ f \in Seq(S) /\ Len(f) = B
    <2> DEFINE f1 == SubSeq(c.buffer, 1, r)
               f2 == SubSeq(input, 1, p)
    <2>1. /\ f1 \in Seq(S) /\ Len(f1) = r
          /\ \A j \in 1..r : f1[j] = c.buffer[j]
      <3>1. c.buffer \in Seq(S) /\ Len(c.buffer) = B
        BY <1>1, <1>5, IsSeq
      <3>2. r \in Nat /\ 0 + r <= B
        BY <1>1
      <3>3. f1 = SubSeq(c.buffer, 0 + 1, 0 + r) /\ \A j \in 1..r : 0 + j = j
        BY <1>1
      <3> HIDE DEF f1
      <3> QED
        BY <3>1, <3>2, <3>3, Piece
    <2>2. p <= m
      BY <1>1, <1>2, <1>8
    <2>3. /\ f2 \in Seq(S) /\ Len(f2) = p
          /\ \A j \in 1..p : f2[j] = input[j]
      <3>1. Len(input) = m
        BY DEF m
      <3> QED
        BY <1>1, <1>2, <2>2, <3>1
    <2>4. f = f1 \o f2
      BY DEF f
    <2> HIDE DEF f1, f2
    <2>5. /\ f \in Seq(S) /\ Len(f) = B
          /\ \A j \in 1..B : f[j] = IF j <= r THEN f1[j] ELSE f2[j - r]
      <3>1. r + p = B
        BY <1>1, <1>8
      <3>2. Len(f1) + Len(f2) = B /\ Len(f1) = r
        BY <2>1, <2>3, <3>1
      <3>3. /\ f1 \o f2 \in Seq(S) /\ Len(f1 \o f2) = Len(f1) + Len(f2)
            /\ \A j \in 1..(Len(f1) + Len(f2)) :
                 (f1 \o f2)[j] = IF j <= Len(f1) THEN f1[j]
                                                ELSE f2[j - Len(f1)]
        BY <2>1, <2>3, Joined
      <3> QED
        BY <2>4, <3>2, <3>3
    <2>6. ASSUME NEW j \in 1..B
          PROVE  f[j] = s[q * B + j]
      <3>1. CASE j <= r
        <4>1. j \in 1..r
          BY <1>1, <3>1
        <4> QED
          BY <1>5, <2>1, <2>5, <3>1, <4>1
      <3>2. CASE ~(j <= r)
        <4>1. f[j] = input[j - r] /\ j - r \in 1..m
          <5>1. j - r \in 1..p /\ j - r \in 1..m
            BY <1>1, <1>2, <1>8, <2>2, <3>2
          <5> QED
            BY <2>3, <2>5, <3>2, <5>1
        <4>2. n + (j - r) = q * B + j
          BY <1>1, <1>9
        <4> QED
          BY <4>1, <4>2 DEF m
      <3> QED
        BY <3>1, <3>2
    <2> QED
      BY <2>5, <2>6
  <1>12. /\ x \in Seq(S) /\ Len(x) = t
         /\ \A i \in 1..t : x[i] = s[k * B + i]
    <2>1. Len(input) = m
      BY DEF m
    <2>2. /\ x \in Seq(S) /\ Len(x) = t
          /\ \A i \in 1..t : x[i] = input[u + i]
      <3> HIDE DEF k, N
      <3> QED
        BY <1>1, <1>3, <1>10, <2>1 DEF x
    <2>3. ASSUME NEW i \in 1..t
          PROVE  x[i] = s[k * B + i]
      <3>1. u + i \in 1..m /\ n + (u + i) = k * B + i
        <4> HIDE DEF k, N
        <4> QED
          BY <1>1, <1>3, <1>9, <1>10
      <3> QED
        BY <2>1, <2>2, <3>1
    <2> QED
      BY <2>2, <2>3
  <1>13. /\ e \in Seq(Seq(S)) /\ Len(e) = w
         /\ \A g \in 1..w : e[g] = [j \in 1..B |-> s[(q + g) * B + j]]
    <2>1. Len(input) = m
      BY DEF m
    <2>2. ASSUME NEW g \in 1..w
          PROVE  /\ SubSeq(input, p + (g - 1) * B + 1, p + g * B) \in Seq(S)
                 /\ SubSeq(input, p + (g - 1) * B + 1, p + g * B)
                      = [j \in 1..B |-> s[(q + g) * B + j]]
      <3> DEFINE y == (g - 1) * B
                 z == g * B
                 v == SubSeq(input, p + y + 1, p + z)
      <3>1. y \in Nat /\ z = y + B /\ z <= w * B /\ (q + g) * B = q * B + z
        <4>1. g * B <= w * B
          BY <1>1, <1>3, Times
        <4> QED
          BY <1>1, <1>3, <4>1
      <3> HIDE DEF y, z
      <3>2. p + z <= m
        BY <1>1, <1>2, <1>3, <1>8, <1>9, <3>1
      <3>3. /\ v \in Seq(S) /\ Len(v) = B
            /\ \A j \in 1..B : v[j] = input[p + y + j]
        <4>1. p + y \in Nat /\ (p + y) + B = p + z /\ B \in Nat
          BY <1>1, <1>2, <3>1
        <4> DEFINE h == p + y
        <4>2. v = SubSeq(input, h + 1, h + B) /\ h \in Nat /\ h + B <= m
          BY <1>1, <3>2, <4>1
        <4> HIDE DEF h, v
        <4>3. v \in Seq(S) /\ Len(v) = B /\ \A j \in 1..B : v[j] = input[h + j]
          <5>1. /\ h \in Nat /\ B \in Nat /\ input \in Seq(S)
                /\ h + B <= Len(input)
            BY <2>1, <4>1, <4>2
          <5> HIDE DEF m, B
          <5>2. /\ SubSeq(input, h + 1, h + B) \in Seq(S)
                /\ Len(SubSeq(input, h + 1, h + B)) = B
                /\ \A j \in 1..B :
                     SubSeq(input, h + 1, h + B)[j] = input[h + j]
            BY <5>1, Piece
          <5> QED
            BY <4>2, <5>2
        <4> QED
          BY <4>3 DEF h
      <3> HIDE DEF v
      <3>4. ASSUME NEW j \in 1..B
            PROVE  v[j] = s[(q + g) * B + j]
        <4>1. p + y + j \in 1..m /\ n + (p + y + j) = (q + g) * B + j
          BY <1>1, <1>2, <1>9, <1>10, <3>1, <3>2
        <4> QED
          BY <2>1, <3>3, <4>1
      <3>5. v = [j \in 1..B |-> s[(q + g) * B + j]]
        BY <1>1, <3>3, <3>4
      <3> QED
        BY <3>3, <3>5 DEF v, y, z
    <2>3. e = [g \in 1..w |-> SubSeq(input, p + (g - 1) * B + 1, p + g * B)]
      BY DEF e
    <2>4. \A g \in 1..w : /\ e[g] \in Seq(S)
                           /\ e[g] = [j \in 1..B |-> s[(q + g) * B + j]]
      BY <2>2, <2>3
    <2>5. e \in [1..w -> Seq(S)]
      BY <2>3, <2>4
    <2> QED
      BY <1>3, <2>4, <2>5, IsSeq
  <1>14. /\ d.blocks \in Seq(Seq(S)) /\ Len(d.blocks) = k
         /\ \A b \in 1..k :
              d.blocks[b] = [j \in 1..B |-> s[(b - 1) * B + j]]
    <2>1. <<f>> \in Seq(Seq(S)) /\ Len(<<f>>) = 1 /\ <<f>>[1] = f
      BY <1>11
    <2>2. /\ d.blocks \in Seq(Seq(S)) /\ Len(d.blocks) = k
          /\ \A b \in 1..k : d.blocks[b] =
               IF b <= q THEN c.blocks[b]
               ELSE IF b = q + 1 THEN f ELSE e[b - (q + 1)]
      <3> DEFINE g == c.blocks \o <<f>>
      <3>1. /\ g \in Seq(Seq(S)) /\ Len(g) = q + 1
            /\ \A b \in 1..(q + 1) :
                 g[b] = IF b <= q THEN c.blocks[b] ELSE <<f>>[b - q]
        BY <1>5, <2>1, Joined
      <3> HIDE DEF g
      <3>2. d.blocks = g \o e
        BY <1>7 DEF g
      <3>3. /\ d.blocks \in Seq(Seq(S)) /\ Len(d.blocks) = k
            /\ \A b \in 1..k : d.blocks[b] =
                 IF b <= q + 1 THEN g[b] ELSE e[b - (q + 1)]
        <4>1. Len(g) + Len(e) = k
          BY <1>13, <3>1
        <4>2. /\ g \o e \in Seq(Seq(S)) /\ Len(g \o e) = Len(g) + Len(e)
              /\ \A b \in 1..(Len(g) + Len(e)) :
                   (g \o e)[b] = IF b <= Len(g) THEN g[b] ELSE e[b - Len(g)]
          <5> DEFINE T == Seq(S)
          <5>1. g \in Seq(T) /\ e \in Seq(T)
            BY <1>13, <3>1
          <5> HIDE DEF T
          <5>2. /\ g \o e \in Seq(T) /\ Len(g \o e) = Len(g) + Len(e)
                /\ \A b \in 1..(Len(g) + Len(e)) :
                     (g \o e)[b] = IF b <= Len(g) THEN g[b] ELSE e[b - Len(g)]
            BY <5>1, Joined
          <5> QED
            BY <5>2 DEF T
        <4> HIDE DEF k
        <4> QED
          BY <3>1, <3>2, <4>1, <4>2
      <3>4. ASSUME NEW b \in 1..k
            PROVE  /\ b <= q => g[b] = c.blocks[b] /\ b <= q + 1
                   /\ b = q + 1 => g[b] = f /\ ~(b <= q)
                   /\ ~(b <= q) /\ b # q + 1 => ~(b <= q + 1)
        <4>1. b <= q => b \in 1..(q + 1) /\ b <= q + 1
          BY <1>1, <1>3
        <4>2. b = q + 1 => b \in 1..(q + 1) /\ ~(b <= q) /\ b - q = 1
          BY <1>1, <1>3
        <4>3. ~(b <= q) /\ b # q + 1 => ~(b <= q + 1)
          BY <1>1, <1>3
        <4> QED
          BY <2>1, <3>1, <4>1, <4>2, <4>3
      <3> HIDE DEF k
      <3>5. ASSUME NEW b \in 1..k
            PROVE  d.blocks[b] = IF b <= q THEN c.blocks[b]
                                 ELSE IF b = q + 1 THEN f ELSE e[b - (q + 1)]
        <4>1. d.blocks[b] = IF b <= q + 1 THEN g[b] ELSE e[b - (q + 1)]
          BY <3>3
        <4>2. CASE b <= q
          BY <3>4, <4>1, <4>2
        <4>3. CASE b = q + 1
          <5>1. b <= q + 1
            BY <1>1, <4>3
          <5> QED
            BY <3>4, <4>1, <4>3, <5>1
        <4>4. CASE ~(b <= q) /\ b # q + 1
          BY <3>4, <4>1, <4>4
        <4> QED
          BY <4>2, <4>3, <4>4
      <3> QED
        BY <3>3, <3>5
    <2>3. ASSUME NEW b \in 1..k
          PROVE  d.blocks[b] = [j \in 1..B |-> s[(b - 1) * B + j]]
      <3>1. CASE b <= q
        <4>1. b \in 1..q
          BY <1>1, <1>3, <3>1
        <4> HIDE DEF k
        <4> QED
          BY <1>5, <2>2, <3>1, <4>1
      <3>2. CASE b = q + 1
        <4>1. ~(b <= q) /\ b - 1 = q
          <5>1. q \in Nat
            BY <1>1
          <5> QED
            BY <3>2, <5>1
        <4> HIDE DEF k
        <4>2. d.blocks[b] = f
          BY <2>2, <3>2, <4>1
        <4> QED
          BY <1>11, <4>1, <4>2
      <3>3. CASE b > q + 1
        <4>1. ~(b <= q) /\ b # q + 1 /\ b - (q + 1) \in 1..w
              /\ q + (b - (q + 1)) = b - 1
          BY <1>1, <1>3, <3>3
        <4> HIDE DEF k, N
        <4>2. d.blocks[b] = e[b - (q + 1)]
          BY <2>2, <4>1
        <4> QED
          BY <1>13, <4>1, <4>2
      <3> QED
        BY <1>1, <3>1, <3>2, <3>3
    <2> QED
      BY <2>2, <2>3
  <1>15. /\ d.buffer \in [1..B -> S]
         /\ \A j \in 1..t : d.buffer[j] = s[k * B + j]
    <2>1. d.buffer = [i \in 1..B |-> IF i \in 1..t THEN x[i] ELSE f[i]]
      BY <1>3, <1>7, <1>12
    <2>2. DOMAIN f = 1..B /\ \A i \in 1..B : f[i] \in S
      <3>1. DOMAIN f = 1..B /\ f \in Seq(S) /\ Len(f) = B
        BY <1>11
      <3> QED
        BY <3>1
    <2>3. \A i \in 1..t : i \in 1..B /\ x[i] \in S
      BY <1>1, <1>3, <1>12
    <2> QED
      BY <1>12, <2>1, <2>2, <2>3
  <1> HIDE DEF k, N
  <1>16. d.count = <<(N * 8) % Word, ((N * 8) \div Word) % Word>>
    BY <1>6 DEF N
  <1>17. Fed(d, N, s, S)
    <2>1. N = B * k + t
      BY <1>10
    <2>2. /\ N \in Nat /\ k \in Nat /\ t \in 0..(B - 1)
          /\ s \in [Nat -> S]
          /\ d.count = <<(N * 8) % Word, ((N * 8) \div Word) % Word>>
          /\ d.buffer \in [1..B -> S]
          /\ d.blocks \in Seq(Seq(S)) /\ Len(d.blocks) = k
          /\ \A b \in 1..k :
               d.blocks[b] = [j \in 1..B |-> s[(b - 1) * B + j]]
          /\ \A j \in 1..t : d.buffer[j] = s[k * B + j]
      BY <1>3, <1>5, <1>9, <1>10, <1>14, <1>15, <1>16
    <2> QED
      BY <2>1, <2>2, FedIs DEF B
  <1> QED
    BY <1>17 DEF N, d, m

(* Whatever it is cut into, what is fed is appended to what was.           *)
LEMMA UpdateFeeds ==
    ASSUME Md5!Md5Assumption, NEW n \in Nat, NEW c, NEW S, NEW s,
           Fed(c, n, s, S), NEW input \in Seq(S),
           \A i \in 1..Len(input) : input[i] = s[n + i]
    PROVE  Fed(Md5!MD5Update(c, input), n + Len(input), s, S)
  BY FedLess, FedMore

-----------------------------------------------------------------------------
(* The message of a file, as a stream that goes on for ever.               *)
Bytes == {"file", "pad", "length"} \X Nat

Stream(n) ==
    [i \in Nat |->
       IF i <= n THEN Md5!FileByte(i)
       ELSE IF i = n + 1 THEN Md5!PadByte(128)
       ELSE IF i <= n + 1 + Md5!Zeros(n) THEN Md5!PadByte(0)
       ELSE IF i = n + 2 + Md5!Zeros(n) THEN Md5!LengthWord((n * 8) % Word)
       ELSE Md5!LengthWord(((n * 8) \div Word) % Word)]

(* The padding that MD5Final chooses, for what is in the buffer.           *)
Padding(r) == IF r < Block - 2 THEN Block - 2 - r ELSE 2 * Block - 2 - r

(* It is the one bit and the zeros of the standard, and fills the blocks.  *)
LEMMA PaddingIs ==
    ASSUME Md5!Md5Assumption, NEW n \in Nat
    PROVE  /\ Padding(n % Block) \in 1..Block
           /\ Md5!Zeros(n) = Padding(n % Block) - 1
           /\ \E k \in Nat : n + Padding(n % Block) + 2 = Block * k + 0
  <1> DEFINE B == Block
             q == n \div B
             r == n % B
             P == Padding(r)
             Fits(z) == (n + 1 + z + 2) % B = 0
  <1>1. /\ B \in Nat /\ B > 2 /\ B \in Nat \ {0}
        /\ q \in Nat /\ r \in 0..(B - 1) /\ n = B * q + r
    <2>1. B \in Nat /\ B > 2 /\ B \in Nat \ {0}
      BY DEF Md5!Md5Assumption
    <2> HIDE DEF B
    <2> QED
      BY <2>1, DivMod
  <1>2. P = IF r < B - 2 THEN B - 2 - r ELSE 2 * B - 2 - r
    BY DEF Padding
  <1> HIDE DEF B, q, r, P
  <1>3. P \in 1..B
    BY <1>1, <1>2
  <1>4. \E k \in Nat : n + P + 2 = B * k + 0
    <2>1. B * (q + 1) = B * q + B /\ B * (q + 2) = B * q + 2 * B
          /\ B * q \in Nat /\ q + 1 \in Nat /\ q + 2 \in Nat
      BY <1>1
    <2>2. CASE r < B - 2
      <3>1. n + P + 2 = B * (q + 1) + 0
        BY <1>1, <1>2, <2>1, <2>2
      <3> QED
        BY <2>1, <3>1
    <2>3. CASE ~(r < B - 2)
      <3>1. n + P + 2 = B * (q + 2) + 0
        BY <1>1, <1>2, <2>1, <2>3
      <3> QED
        BY <2>1, <3>1
    <2> QED
      BY <2>2, <2>3
  <1>5. P - 1 \in 0..(B - 1) /\ Fits(P - 1)
    <2>1. PICK k \in Nat : n + P + 2 = B * k + 0
      BY <1>4
    <2> DEFINE x == n + P + 2
    <2>2. x \in Nat /\ n + 1 + (P - 1) + 2 = x /\ P - 1 \in 0..(B - 1)
          /\ 0 \in 0..(B - 1) /\ k \in Int
      BY <1>1, <1>3
    <2>3. x = B * k + 0
      BY <2>1
    <2> HIDE DEF x
    <2>4. x % B = 0
      BY <1>1, <2>2, <2>3, DivUnique
    <2> QED
      BY <2>2, <2>4
  <1>6. ASSUME NEW z \in 0..(B - 1), Fits(z)
        PROVE  z = P - 1
    <2> DEFINE y == n + 1 + z + 2
               k == y \div B
    <2>1. y \in Nat /\ y % B = 0
      BY <1>1, <1>6
    <2>2. k \in Nat /\ y = B * k
      <3> HIDE DEF y
      <3>1. k \in Nat /\ y = B * k + (y % B)
        BY <1>1, <2>1, DivMod
      <3> HIDE DEF k
      <3>2. B * k \in Nat
        BY <1>1, <3>1
      <3> QED
        BY <2>1, <3>1, <3>2
    <2>3. y = n + 1 + z + 2
      OBVIOUS
    <2>4. PICK l \in Nat : n + P + 2 = B * l + 0
      BY <1>4
    <2> HIDE DEF y, k
    <2>5. /\ B * k \in Nat /\ B * l \in Nat
          /\ B * (k + 1) = B * k + B /\ B * (l + 1) = B * l + B
      BY <1>1, <2>2, <2>4
    <2>6. CASE k < l
      <3>1. B * (k + 1) <= B * l
        BY <1>1, <2>2, <2>4, <2>6, Times
      <3> QED
        BY <1>1, <1>3, <2>2, <2>3, <2>4, <2>5, <3>1
    <2>7. CASE l < k
      <3>1. B * (l + 1) <= B * k
        BY <1>1, <2>2, <2>4, <2>7, Times
      <3> QED
        BY <1>1, <1>3, <2>2, <2>3, <2>4, <2>5, <3>1
    <2>8. CASE k = l
      BY <1>1, <1>3, <2>2, <2>3, <2>4, <2>5, <2>8
    <2> QED
      BY <2>2, <2>4, <2>6, <2>7, <2>8
  <1>7. Md5!Zeros(n) = P - 1
    <2>1. Md5!Zeros(n) = CHOOSE z \in 0..(B - 1) : Fits(z)
      BY DEF Md5!Zeros, B
    <2> HIDE DEF Fits
    <2> QED
      BY <1>5, <1>6, <2>1
  <1> QED
    BY <1>3, <1>4, <1>7 DEF P, r, B

LEMMA StreamType ==
    ASSUME Md5!Md5Assumption, NEW n \in Nat
    PROVE  Stream(n) \in [Nat -> Bytes]
  <1>1. n * 8 \in Nat /\ Word \in Nat \ {0}
    BY DEF Md5!Md5Assumption
  <1> DEFINE N == n * 8
             lo == N % Word
             u == N \div Word
             hi == u % Word
  <1>2. N \in Nat
    BY <1>1
  <1> HIDE DEF N
  <1>3. lo \in Nat /\ u \in Nat
    BY <1>1, <1>2, DivMod
  <1> HIDE DEF lo, u
  <1>4. hi \in Nat
    BY <1>1, <1>3, DivMod
  <1> HIDE DEF hi
  <1>5. Stream(n) = [i \in Nat |->
          IF i <= n THEN <<"file", i>>
          ELSE IF i = n + 1 THEN <<"pad", 128>>
          ELSE IF i <= n + 1 + Md5!Zeros(n) THEN <<"pad", 0>>
          ELSE IF i = n + 2 + Md5!Zeros(n) THEN <<"length", lo>>
          ELSE <<"length", hi>>]
    BY DEF Stream, Md5!FileByte, Md5!PadByte, Md5!LengthWord, lo, hi, u, N
  <1> QED
    BY <1>3, <1>4, <1>5 DEF Bytes

(* MD5Final brings the stream to the end of a block.                       *)
LEMMA FinalFeeds ==
    ASSUME Md5!Md5Assumption, NEW n \in Nat, NEW c,
           Fed(c, n, Stream(n), Bytes)
    PROVE  Fed(Md5!MD5Final(c), n + Padding(n % Block) + 2, Stream(n), Bytes)
  <1> DEFINE r == n % Block
             P == Padding(r)
             s == Stream(n)
             zeros == Md5!Zeros(n)
             in1 == SubSeq(Md5!PADDING, 0 + 1, 0 + P)
             in2 == Md5!LengthBytes(c.count)
             lo == (n * 8) % Word
             hi == ((n * 8) \div Word) % Word
             c1 == Md5!MD5Update(c, in1)
  <1>1. P \in 1..Block /\ zeros = P - 1 /\ Block \in Nat /\ P \in Nat
    <2>1. P \in 1..Block /\ zeros = P - 1 /\ Block \in Nat
      BY PaddingIs DEF Md5!Md5Assumption
    <2> HIDE DEF P
    <2> QED
      BY <2>1
  <1>2. Md5!MD5Final(c) = Md5!MD5Update(c1, in2)
    <2>1. Md5!Index(c) = r
      BY IndexIs DEF Fed
    <2>2. in1 = SubSeq(Md5!PADDING, 1, P)
      <3> HIDE DEF P
      <3> QED
        BY <1>1
    <2> HIDE DEF in1, in2, r
    <2> QED
      BY <2>1, <2>2 DEF Md5!MD5Final, Padding, in2
  <1>3. /\ s \in [Nat -> Bytes]
        /\ \A i \in Nat : s[i] =
             IF i <= n THEN Md5!FileByte(i)
             ELSE IF i = n + 1 THEN Md5!PadByte(128)
             ELSE IF i <= n + 1 + zeros THEN Md5!PadByte(0)
             ELSE IF i = n + 2 + zeros THEN Md5!LengthWord(lo)
             ELSE Md5!LengthWord(hi)
    BY StreamType DEF Stream
  <1>4. c.count[1] = lo /\ c.count[2] = hi
    BY DEF Fed
  <1>5. Fed(c, n, s, Bytes)
    OBVIOUS
  <1> HIDE DEF P, zeros, lo, hi, s
  <1>6. /\ in1 \in Seq(Bytes) /\ Len(in1) = P
        /\ \A i \in 1..P : in1[i] = IF i = 1 THEN Md5!PadByte(128)
                                              ELSE Md5!PadByte(0)
    <2>1. Md5!PadByte(128) \in Bytes /\ Md5!PadByte(0) \in Bytes
      BY DEF Md5!PadByte, Bytes
    <2>2. /\ Md5!PADDING \in Seq(Bytes) /\ Len(Md5!PADDING) = Block
          /\ \A i \in 1..Block :
               Md5!PADDING[i] = IF i = 1 THEN Md5!PadByte(128)
                                         ELSE Md5!PadByte(0)
      <3>1. Md5!PADDING \in [1..Block -> Bytes]
        BY <2>1 DEF Md5!PADDING
      <3>2. Md5!PADDING \in Seq(Bytes) /\ Len(Md5!PADDING) = Block
        BY <1>1, <3>1, IsSeq
      <3> QED
        BY <3>2 DEF Md5!PADDING
    <2>3. /\ in1 \in Seq(Bytes) /\ Len(in1) = P
          /\ \A i \in 1..P : in1[i] = Md5!PADDING[0 + i]
      <3>1. 0 + P <= Len(Md5!PADDING) /\ 0 \in Nat /\ P \in Nat
        BY <1>1, <2>2
      <3> HIDE DEF in1
      <3> QED
        BY <2>2, <3>1, Piece DEF in1
    <2>4. \A i \in 1..P : i \in 1..Block /\ 0 + i = i
      BY <1>1
    <2> HIDE DEF in1
    <2> QED
      BY <2>2, <2>3, <2>4
  <1>7. /\ in2 \in Seq(Bytes) /\ Len(in2) = 2
        /\ in2 = <<Md5!LengthWord(lo), Md5!LengthWord(hi)>>
    <2>1. in2 = <<Md5!LengthWord(lo), Md5!LengthWord(hi)>>
      BY <1>4 DEF Md5!LengthBytes
    <2>2. \A w \in Nat : s[w] \in Bytes
      BY <1>3
    <2>3. /\ s[n + 2 + zeros] = Md5!LengthWord(lo)
          /\ s[n + 3 + zeros] = Md5!LengthWord(hi)
      BY <1>1, <1>3
    <2>4. n + 2 + zeros \in Nat /\ n + 3 + zeros \in Nat
      BY <1>1
    <2> QED
      BY <2>1, <2>2, <2>3, <2>4
  <1> HIDE DEF in1, in2, c1
  <1>8. Fed(c1, n + P, s, Bytes)
    <2>1. ASSUME NEW i \in 1..Len(in1)
          PROVE  in1[i] = s[n + i]
      BY <1>1, <1>3, <1>6
    <2>2. Fed(Md5!MD5Update(c, in1), n + Len(in1), s, Bytes)
      BY <1>5, <1>6, <2>1, UpdateFeeds
    <2> QED
      BY <1>6, <2>2 DEF c1
  <1>9. Fed(Md5!MD5Update(c1, in2), n + P + 2, s, Bytes)
    <2>1. ASSUME NEW i \in 1..Len(in2)
          PROVE  in2[i] = s[(n + P) + i]
      <3>1. CASE i = 1
        <4>1. (n + P) + i = n + 2 + zeros /\ (n + P) + i \in Nat
          BY <1>1, <3>1
        <4> QED
          BY <1>1, <1>3, <1>7, <3>1, <4>1
      <3>2. CASE i = 2
        <4>1. (n + P) + i = n + 3 + zeros /\ (n + P) + i \in Nat
          BY <1>1, <3>2
        <4> QED
          BY <1>1, <1>3, <1>7, <3>2, <4>1
      <3> QED
        BY <1>7, <3>1, <3>2
    <2>2. n + P \in Nat
      BY <1>1
    <2>3. Fed(Md5!MD5Update(c1, in2), (n + P) + Len(in2), s, Bytes)
      BY <1>7, <1>8, <2>1, <2>2, UpdateFeeds
    <2> QED
      BY <1>7, <2>3
  <1> QED
    BY <1>2, <1>9 DEF P, s, r

(* Then the blocks are those of the message.                               *)
LEMMA FinalAbsorbs ==
    ASSUME Md5!Md5Assumption, NEW n \in Nat, NEW c,
           Fed(c, n + Padding(n % Block) + 2, Stream(n), Bytes)
    PROVE  LET m == Md5!Message(n)
           IN  /\ Len(m) = Len(c.blocks) * Block
               /\ \A b \in DOMAIN c.blocks :
                    c.blocks[b] = SubSeq(m, (b - 1) * Block + 1, b * Block)
  <1> DEFINE B == Block
             P == Padding(n % Block)
             s == Stream(n)
             m == Md5!Message(n)
             N == n + P + 2
             zeros == Md5!Zeros(n)
             lo == (n * 8) % Word
             hi == ((n * 8) \div Word) % Word
             m1 == [i \in 1..n |-> Md5!FileByte(i)]
             m3 == [i \in 1..zeros |-> Md5!PadByte(0)]
  <1>1. P \in 1..B /\ zeros = P - 1 /\ B \in Nat /\ B \in Nat \ {0}
        /\ \E k \in Nat : N = B * k + 0
    <2>1. B \in Nat /\ B \in Nat \ {0}
      BY DEF Md5!Md5Assumption
    <2>2. n + P + 2 = N
      OBVIOUS
    <2> HIDE DEF N
    <2> QED
      BY <2>1, <2>2, PaddingIs
  <1>2. /\ s \in [Nat -> Bytes]
        /\ \A i \in Nat : s[i] =
             IF i <= n THEN Md5!FileByte(i)
             ELSE IF i = n + 1 THEN Md5!PadByte(128)
             ELSE IF i <= n + 1 + zeros THEN Md5!PadByte(0)
             ELSE IF i = n + 2 + zeros THEN Md5!LengthWord(lo)
             ELSE Md5!LengthWord(hi)
    BY StreamType DEF Stream
  <1>3. m = m1 \o <<Md5!PadByte(128)>> \o m3
             \o <<Md5!LengthWord(lo), Md5!LengthWord(hi)>>
    BY DEF Md5!Message, Md5!LengthBytes
  <1>4. Fed(c, N, s, Bytes)
    OBVIOUS
  <1> HIDE DEF P, s, m, zeros, lo, hi, B
  <1>5. N \in Nat /\ N = n + 1 + zeros + 2 /\ zeros \in Nat
    BY <1>1
  <1>6. m \in Seq(Bytes) /\ Len(m) = N /\ \A i \in 1..N : m[i] = s[i]
    <2> DEFINE m2 == <<Md5!PadByte(128)>>
               m4 == <<Md5!LengthWord(lo), Md5!LengthWord(hi)>>
    <2>1. \A i \in Nat : s[i] \in Bytes
      BY <1>2
    <2>2. m1 \in Seq(Bytes) /\ Len(m1) = n
      <3>1. ASSUME NEW i \in 1..n
            PROVE  Md5!FileByte(i) \in Bytes
        BY DEF Md5!FileByte, Bytes
      <3>2. m1 \in [1..n -> Bytes]
        BY <3>1
      <3> QED
        BY <3>2, IsSeq
    <2>3. m3 \in Seq(Bytes) /\ Len(m3) = zeros
      <3>1. Md5!PadByte(0) \in Bytes
        BY DEF Md5!PadByte, Bytes
      <3>2. m3 \in [1..zeros -> Bytes]
        BY <3>1
      <3> QED
        BY <1>5, <3>2, IsSeq
    <2>4. m2 \in Seq(Bytes) /\ Len(m2) = 1
      BY DEF Md5!PadByte, Bytes
    <2>5. m4 \in Seq(Bytes) /\ Len(m4) = 2
      <3>1. /\ s[n + 2 + zeros] = Md5!LengthWord(lo)
            /\ s[n + 3 + zeros] = Md5!LengthWord(hi)
        BY <1>2, <1>5
      <3>2. n + 2 + zeros \in Nat /\ n + 3 + zeros \in Nat
        BY <1>5
      <3> QED
        BY <2>1, <3>1, <3>2
    <2>6. /\ m1 = [i \in 1..n |-> Md5!FileByte(i)]
          /\ m3 = [i \in 1..zeros |-> Md5!PadByte(0)]
          /\ m2[1] = Md5!PadByte(128)
          /\ m4[1] = Md5!LengthWord(lo) /\ m4[2] = Md5!LengthWord(hi)
      OBVIOUS
    <2> HIDE DEF m1, m2, m3, m4
    <2>7. /\ m1 \o m2 \in Seq(Bytes) /\ Len(m1 \o m2) = n + 1
          /\ \A i \in 1..(n + 1) :
               (m1 \o m2)[i] = IF i <= n THEN m1[i] ELSE m2[i - n]
      <3>1. Len(m1) + Len(m2) = n + 1 /\ Len(m1) = n
        BY <2>2, <2>4
      <3>2. /\ m1 \o m2 \in Seq(Bytes) /\ Len(m1 \o m2) = Len(m1) + Len(m2)
            /\ \A i \in 1..(Len(m1) + Len(m2)) :
                 (m1 \o m2)[i] = IF i <= Len(m1) THEN m1[i]
                                                ELSE m2[i - Len(m1)]
        BY <2>2, <2>4, Joined
      <3> QED
        BY <3>1, <3>2
    <2> DEFINE m12 == m1 \o m2
               m123 == m12 \o m3
    <2> HIDE DEF m12
    <2>8. /\ m123 \in Seq(Bytes) /\ Len(m123) = n + 1 + zeros
          /\ \A i \in 1..(n + 1 + zeros) :
               m123[i] = IF i <= n + 1 THEN m12[i] ELSE m3[i - (n + 1)]
      <3>1. m12 \in Seq(Bytes) /\ Len(m12) = n + 1
        BY <2>7 DEF m12
      <3> QED
        <4>1. Len(m12) + Len(m3) = n + 1 + zeros /\ Len(m12) = n + 1
          BY <1>5, <2>3, <3>1
        <4>2. /\ m12 \o m3 \in Seq(Bytes)
              /\ Len(m12 \o m3) = Len(m12) + Len(m3)
              /\ \A i \in 1..(Len(m12) + Len(m3)) :
                   (m12 \o m3)[i] = IF i <= Len(m12) THEN m12[i]
                                                    ELSE m3[i - Len(m12)]
          BY <2>3, <3>1, Joined
        <4> QED
          BY <4>1, <4>2
    <2> HIDE DEF m123
    <2>9. /\ m \in Seq(Bytes) /\ Len(m) = N
          /\ \A i \in 1..N :
               m[i] = IF i <= n + 1 + zeros THEN m123[i]
                      ELSE m4[i - (n + 1 + zeros)]
      <3>1. m = m123 \o m4
        BY <1>3 DEF m123, m12, m2, m4
      <3>2. /\ m123 \o m4 \in Seq(Bytes)
            /\ Len(m123 \o m4) = Len(m123) + Len(m4)
            /\ \A i \in 1..(Len(m123) + Len(m4)) :
                 (m123 \o m4)[i] = IF i <= Len(m123) THEN m123[i]
                                   ELSE m4[i - Len(m123)]
        BY <2>5, <2>8, Joined
      <3>3. Len(m123) + Len(m4) = N /\ Len(m123) = n + 1 + zeros
        BY <1>5, <2>5, <2>8
      <3> QED
        BY <3>1, <3>2, <3>3
    <2>10. ASSUME NEW i \in 1..N
           PROVE  m[i] = s[i]
      <3>1. CASE i <= n
        <4>1. m[i] = m1[i] /\ s[i] = Md5!FileByte(i) /\ i \in 1..n
          <5>1. /\ i <= n + 1 + zeros /\ i <= n + 1 /\ i \in 1..(n + 1)
                /\ i \in Nat /\ i \in 1..(n + 1 + zeros) /\ i \in 1..n
            BY <1>5, <3>1
          <5> QED
            BY <1>2, <2>7, <2>8, <2>9, <3>1, <5>1 DEF m12
        <4> QED
          BY <2>6, <4>1
      <3>2. CASE i = n + 1
        <4>1. i <= n + 1 + zeros /\ i <= n + 1 /\ i \in 1..(n + 1) /\ i \in Nat
              /\ i \in 1..(n + 1 + zeros) /\ ~(i <= n) /\ i - n = 1
          BY <1>5, <3>2
        <4>2. m[i] = m2[1]
          BY <2>7, <2>8, <2>9, <4>1 DEF m12
        <4> QED
          BY <1>2, <2>6, <3>2, <4>1, <4>2
      <3>3. CASE n + 1 < i /\ i <= n + 1 + zeros
        <4>1. i <= n + 1 + zeros /\ ~(i <= n + 1) /\ i \in Nat
              /\ i \in 1..(n + 1 + zeros) /\ ~(i <= n) /\ i # n + 1
              /\ i - (n + 1) \in 1..zeros
          BY <1>5, <3>3
        <4>2. m[i] = m3[i - (n + 1)]
          BY <2>8, <2>9, <4>1
        <4> QED
          BY <1>2, <2>6, <4>1, <4>2
      <3>4. CASE n + 1 + zeros < i
        <4>1. /\ ~(i <= n + 1 + zeros) /\ i \in Nat /\ ~(i <= n) /\ i # n + 1
              /\ \/ i = n + 2 + zeros /\ i - (n + 1 + zeros) = 1
                 \/ i # n + 2 + zeros /\ i - (n + 1 + zeros) = 2
          BY <1>5, <3>4
        <4>2. m[i] = m4[i - (n + 1 + zeros)]
          BY <2>9, <4>1
        <4> QED
          BY <1>2, <2>6, <4>1, <4>2
      <3> QED
        BY <1>5, <3>1, <3>2, <3>3, <3>4
    <2> QED
      BY <2>9, <2>10
  <1>7. PICK k \in Nat : N = B * k + 0
    BY <1>1
  <1> HIDE DEF N, m1, m3
  <1>8. N \div B = k
    BY <1>1, <1>5, <1>7, DivUnique
  <1>9. /\ Len(c.blocks) = k /\ DOMAIN c.blocks = 1..k
        /\ \A b \in 1..k : c.blocks[b] = [j \in 1..B |-> s[(b - 1) * B + j]]
    <2>1. /\ c.blocks \in Seq(Seq(Bytes)) /\ Len(c.blocks) = k
          /\ \A b \in 1..k : c.blocks[b] = [j \in 1..B |-> s[(b - 1) * B + j]]
      BY <1>4, <1>8 DEF Fed, B
    <2> QED
      BY <2>1
  <1>10. Len(m) = Len(c.blocks) * B
    BY <1>1, <1>6, <1>7, <1>9
  <1>11. ASSUME NEW b \in 1..k
         PROVE  c.blocks[b] = SubSeq(m, (b - 1) * B + 1, b * B)
    <2> DEFINE h == (b - 1) * B
               v == SubSeq(m, h + 1, h + B)
    <2>1. h \in Nat /\ b * B = h + B /\ h + B <= N
      <3>1. B * b <= B * k
        BY <1>1, Times
      <3> QED
        BY <1>1, <1>7, <3>1
    <2> HIDE DEF h
    <2>2. v \in Seq(Bytes) /\ Len(v) = B /\ \A j \in 1..B : v[j] = m[h + j]
      BY <1>1, <1>6, <2>1, Piece
    <2>3. \A j \in 1..B : h + j \in 1..N
      BY <1>1, <1>5, <2>1
    <2>4. v = SubSeq(m, (b - 1) * B + 1, b * B)
      BY <2>1 DEF h
    <2> HIDE DEF v
    <2>5. v = [j \in 1..B |-> s[h + j]]
      <3>1. DOMAIN v = 1..B /\ v = [j \in DOMAIN v |-> v[j]]
        BY <2>2
      <3>2. \A j \in 1..B : v[j] = s[h + j]
        BY <1>6, <2>2, <2>3
      <3> QED
        BY <3>1, <3>2
    <2> QED
      BY <1>9, <2>4, <2>5 DEF h
  <1> QED
    BY <1>9, <1>10, <1>11 DEF m, B

-----------------------------------------------------------------------------
(* While the file is read, MD5 has been fed what was read of it; at the    *)
(* end, the message.                                                       *)
Md5Type ==
    /\ size \in Nat \ {0} /\ length \in Nat /\ pos \in 0..length
    /\ md5Pc \in {"read", "final", "done", "failed"}

FeedInv ==
    /\ md5Pc \in {"read", "final"} => Fed(ctx, pos, Stream(length), Bytes)
    /\ md5Pc = "final" => pos = length

Md5Inv == Md5Type /\ FeedInv /\ Md5!AbsorbsMessage

LEMMA Md5Init == Md5!Md5Assumption /\ Md5!Init => Md5Inv
  <1> SUFFICES ASSUME Md5!Md5Assumption, Md5!Init
               PROVE  Md5Inv
    OBVIOUS
  <1>1. size \in Nat \ {0} /\ length \in Nat /\ pos = 0 /\ md5Pc = "read"
        /\ ctx = Md5!MD5Init
    BY DEF Md5!Init, Md5!Md5Assumption
  <1>2. Block \in Nat \ {0} /\ Word \in Nat \ {0} /\ Block \in Nat
        /\ Word * 0 = 0 /\ Block * 0 = 0
    BY DEF Md5!Md5Assumption
  <1>3. (0 * 8) % Word = 0 /\ ((0 * 8) \div Word) % Word = 0
    <2>1. 0 * 8 = 0 /\ 0 = Word * 0 + 0 /\ 0 \in 0..(Word - 1)
      BY <1>2
    <2>2. 0 \div Word = 0 /\ 0 % Word = 0
      BY <1>2, <2>1, DivUnique
    <2> QED
      BY <2>1, <2>2
  <1>4. Fed(ctx, 0, Stream(length), Bytes)
    <2> DEFINE s == Stream(length)
    <2>1. s \in [Nat -> Bytes]
      BY <1>1, StreamType
    <2>2. /\ ctx.count = <<0, 0>>
          /\ ctx.buffer = [i \in 1..Block |-> Md5!PadByte(0)]
          /\ ctx.blocks = <<>>
      BY <1>1 DEF Md5!MD5Init
    <2> HIDE DEF s
    <2>3. ctx.buffer \in [1..Block -> Bytes]
      BY <2>2 DEF Md5!PadByte, Bytes
    <2>4. ctx.blocks \in Seq(Seq(Bytes)) /\ Len(ctx.blocks) = 0
      BY <2>2
    <2>5. 0 = Block * 0 + 0 /\ 0 \in 0..(Block - 1) /\ 0 \in Nat
      BY <1>2
    <2>6. 1..0 = {}
      OBVIOUS
    <2>7. ctx.count = <<(0 * 8) % Word, ((0 * 8) \div Word) % Word>>
      BY <1>3, <2>2
    <2>8. Fed(ctx, 0, s, Bytes)
      BY <2>1, <2>3, <2>4, <2>5, <2>6, <2>7, FedIs
    <2> QED
      BY <2>8 DEF s
  <1> QED
    BY <1>1, <1>4 DEF Md5Inv, Md5Type, FeedInv, Md5!AbsorbsMessage

LEMMA Md5Stepped == Md5!Md5Assumption /\ Md5Inv /\ Md5!Next => Md5Inv'
  <1> SUFFICES ASSUME Md5!Md5Assumption, Md5Inv, Md5!Next
               PROVE  Md5Inv'
    OBVIOUS
  <1>1. CASE Md5!Read
    <2> DEFINE n == IF length - pos < size THEN length - pos ELSE size
               input == [i \in 1..n |-> Md5!FileByte(pos + i)]
               s == Stream(length)
    <2>1. /\ pos' = pos + n /\ md5Pc' = IF n < size THEN "final" ELSE "read"
          /\ ctx' = Md5!MD5Update(ctx, input) /\ size' = size
          /\ length' = length /\ md5Pc = "read"
      BY <1>1 DEF Md5!Read
    <2>2. /\ size \in Nat \ {0} /\ length \in Nat /\ pos \in 0..length
          /\ Fed(ctx, pos, s, Bytes)
      BY <2>1 DEF Md5Inv, Md5Type, FeedInv
    <2>3. n \in Nat /\ pos + n <= length /\ (n < size => pos + n = length)
      BY <2>2
    <2>4. input \in Seq(Bytes) /\ Len(input) = n
      <3> HIDE DEF n
      <3>1. \A i \in 1..n : Md5!FileByte(pos + i) \in Bytes
        BY <2>2, <2>3 DEF Md5!FileByte, Bytes
      <3>2. input \in [1..n -> Bytes]
        BY <3>1
      <3> QED
        BY <2>3, <3>2, IsSeq
    <2>5. ASSUME NEW i \in 1..n
          PROVE  input[i] = s[pos + i]
      <3> HIDE DEF n
      <3>1. pos + i \in Nat /\ pos + i <= length
        BY <2>2, <2>3
      <3>2. s[pos + i] = Md5!FileByte(pos + i)
        BY <3>1 DEF Stream
      <3> QED
        BY <3>2
    <2> HIDE DEF n, input, s
    <2>6. Fed(ctx', pos', s, Bytes)
      <3>1. pos \in Nat
        BY <2>2
      <3>2. Fed(Md5!MD5Update(ctx, input), pos + Len(input), s, Bytes)
        BY <2>2, <2>4, <2>5, <3>1, UpdateFeeds
      <3> QED
        BY <2>1, <2>4, <3>2
    <2>7. Fed(ctx, pos, Stream(length), Bytes)'
      BY <2>1, <2>6 DEF s
    <2>8. Md5Type'
      BY <2>1, <2>2, <2>3 DEF Md5Type
    <2> QED
      BY <2>1, <2>3, <2>7, <2>8 DEF Md5Inv, FeedInv, Md5!AbsorbsMessage
  <1>2. CASE Md5!ReadFails
    BY <1>2 DEF Md5!ReadFails, Md5Inv, Md5Type, FeedInv, Md5!AbsorbsMessage
  <1>3. CASE Md5!Finish
    <2>1. /\ md5Pc = "final" /\ md5Pc' = "done" /\ ctx' = Md5!MD5Final(ctx)
          /\ UNCHANGED <<size, length, pos>>
      BY <1>3 DEF Md5!Finish
    <2>2. length \in Nat /\ Fed(ctx, length, Stream(length), Bytes) /\ Md5Type
      BY <2>1 DEF Md5Inv, Md5Type, FeedInv
    <2>3. Fed(Md5!MD5Final(ctx), length + Padding(length % Block) + 2,
              Stream(length), Bytes)
      BY <2>2, FinalFeeds
    <2> DEFINE e == Md5!MD5Final(ctx)
    <2> HIDE DEF e
    <2>4. LET m == Md5!Message(length)
          IN  /\ Len(m) = Len(e.blocks) * Block
              /\ \A b \in DOMAIN e.blocks :
                   e.blocks[b] = SubSeq(m, (b - 1) * Block + 1, b * Block)
      BY <2>2, <2>3, FinalAbsorbs DEF e
    <2>5. Md5!AbsorbsMessage'
      BY <2>1, <2>4 DEF Md5!AbsorbsMessage, e
    <2>6. Md5Type' /\ FeedInv'
      BY <2>1, <2>2 DEF Md5Type, FeedInv
    <2> QED
      BY <2>5, <2>6 DEF Md5Inv
  <1> QED
    BY <1>1, <1>2, <1>3 DEF Md5!Next

LEMMA Md5Kept == Md5Inv /\ UNCHANGED md5Vars => Md5Inv'
  BY DEF Md5Inv, md5Vars, Md5Type, FeedInv, Md5!AbsorbsMessage

-----------------------------------------------------------------------------
(* One part runs, the others are off.                                      *)
PartInv ==
    /\ IF part = "tree" THEN TreeInv ELSE treePc = "off"
    /\ IF part = "minutes" THEN MinsInv ELSE minutePc = "off"
    /\ IF part = "config" THEN ConfInv ELSE configPc = "off"
    /\ IF part = "md5" THEN Md5Inv ELSE md5Pc = "off"
    /\ IF part = "xml" THEN XmlInv ELSE xmlPc = "off"

(* Each part begins with its invariant.                                    *)
LEMMA PartInit == Init => PartInv
  BY PartsAssumption, TreeInit, MinsInit, ConfInit, Md5Init, XmlInit
  DEF Init, PartInv, TreeOff, MinsOff, ConfOff, Md5Off, XmlOff

(* A step is one of the part that runs and leaves the others off.          *)
LEMMA PartStep == PartInv /\ [Next]_vars => PartInv'
  <1> SUFFICES ASSUME PartInv, [Next]_vars
               PROVE  PartInv'
    OBVIOUS
  <1>0. UNCHANGED part
    BY DEF Next, ConfStep, TreeStep, MinutesStep, Md5Step, XmlStep, vars
  <1>1. \/ part = "tree" /\ Tree!Next
        \/ UNCHANGED treeVars
    BY DEF Next, ConfStep, TreeStep, MinutesStep, Md5Step, XmlStep, vars
  <1>2. \/ part = "minutes" /\ Mins!Next
        \/ UNCHANGED minsVars
    BY DEF Next, ConfStep, TreeStep, MinutesStep, Md5Step, XmlStep, vars
  <1>3. \/ part = "config" /\ Conf!Next
        \/ UNCHANGED confVars
    BY DEF Next, ConfStep, TreeStep, MinutesStep, Md5Step, XmlStep, vars
  <1>4. \/ part = "xml" /\ Xml!Next
        \/ UNCHANGED xmlVars
    BY DEF Next, ConfStep, TreeStep, MinutesStep, Md5Step, XmlStep, vars
  <1>9. \/ part = "md5" /\ Md5!Next
        \/ UNCHANGED md5Vars
    BY DEF Next, ConfStep, TreeStep, MinutesStep, Md5Step, XmlStep, vars
  <1>5. IF part = "tree" THEN TreeInv' ELSE treePc' = "off"
    <2>1. ASSUME UNCHANGED treeVars, TreeInv
          PROVE  TreeInv'
      <3>1. UNCHANGED <<parent, name, alive, program, treePc, treeCur, below,
                        target, parent0>>
        BY <2>1 DEF treeVars
      <3>2. TreeType' /\ ClimbInv'
        BY <2>1, <3>1, LinesKept DEF TreeInv, TreeType, Rootless, ClimbInv
      <3>3. Tree!SignalsOwnLine' /\ Tree!TakesWholeFamily'
        BY <2>1, <3>1, LinesKept
        DEF TreeInv, Tree!SignalsOwnLine, Tree!TakesWholeFamily
      <3> QED
        BY <3>2, <3>3 DEF TreeInv
    <2> QED
      BY <1>1, <2>1, TreeStepped DEF PartInv, treeVars
  <1>6. IF part = "minutes" THEN MinsInv' ELSE minutePc' = "off"
    <2>1. ASSUME UNCHANGED minsVars, MinsInv
          PROVE  MinsInv'
      BY <2>1 DEF minsVars, MinsInv, MinsType, MinuteInv, AllowanceInv, Run,
             Into, Counting
    <2> QED
      BY <1>2, <2>1, MinsStepped DEF PartInv, minsVars
  <1>7. IF part = "config" THEN ConfInv' ELSE configPc' = "off"
    BY <1>3, ConfStepped, ConfKept DEF PartInv, confVars
  <1>8. IF part = "xml" THEN XmlInv' ELSE xmlPc' = "off"
    BY <1>4, XmlStepped, XmlKept DEF PartInv, xmlVars
  <1>10. IF part = "md5" THEN Md5Inv' ELSE md5Pc' = "off"
    BY <1>9, PartsAssumption, Md5Stepped, Md5Kept DEF PartInv, md5Vars
  <1> QED
    BY <1>0, <1>5, <1>6, <1>7, <1>8, <1>10 DEF PartInv

LEMMA PartHolds == Spec => []PartInv
  BY PartInit, PartStep, PTL DEF Spec

(* What process_kill signals for a program is the program or an ancestor   *)
(* of it below init, never yinkad, a kernel thread, a terminal's shell or  *)
(* anything above that, whichever processes exit during the climb, if no   *)
(* number in a name is taken for a parent (yinkad.c, 154-218).             *)
THEOREM SignalsOwnLineHolds == Spec => []SignalsOwnLine
  <1>1. PartInv => SignalsOwnLine
    BY DEF PartInv, TreeInv, SignalsOwnLine, Tree!SignalsOwnLine
  <1> QED
    BY <1>1, PartHolds, PTL

(* A climb over a line of plain processes of which none exits ends at the  *)
(* child of init (yinkad.c, 188-202).                                      *)
THEOREM TakesWholeFamilyHolds == Spec => []TakesWholeFamily
  <1>1. PartInv => TakesWholeFamily
    BY DEF PartInv, TreeInv, TakesWholeFamily
  <1> QED
    BY <1>1, PartHolds, PTL

(* A step of the minutes that is a step of the run.                        *)
LEMMA MinuteEndsStep ==
    ASSUME PartInv, [Next]_vars, minutePc = "count", minutePc' = "pass",
           delay > 0
    PROVE  MinsInv /\ Mins!Next
  BY DEF PartInv, Next, ConfStep, TreeStep, MinutesStep, Md5Step, XmlStep,
         vars, minsVars

(* Whatever the delay and wherever reloads fall, a minute that none falls  *)
(* into is less than one delay short of 60 seconds and not longer, or one  *)
(* delay (yinkad.c, 867-870).                                              *)
THEOREM MinuteLengthHolds == Spec => MinuteLength
  <1>1. PartInv /\ [Next]_vars =>
          [ minutePc = "count" /\ per_minute_cnt' = 0 /\ delay > 0
            /\ minutePc' = "pass" /\ "minute" \notin reloaded
              => since \in Mins!Shortest(delay)..Mins!Longest(delay)
          ]_Mins!vars
    BY MinuteEndsStep, MinuteEnds
  <1> QED
    BY <1>1, PartHolds, PTL DEF Spec, MinuteLength, Mins!MinuteLength

(* Devices allowed for m minutes are denied after m minutes or one less,   *)
(* if no reload falls into them, wherever in a minute the command came     *)
(* (yinkad.c, 331-342, 869).                                               *)
THEOREM AllowanceLengthHolds == Spec => AllowanceLength
  <1>1. ASSUME PartInv, [Next]_vars, minutePc = "count", allowed, ~allowed'
        PROVE  minutePc' = "pass"
    <2>1. CASE MinutesStep
      <3>1. Mins!Count
        BY <1>1, <2>1
        DEF MinutesStep, Mins!Next, Mins!Pass, Mins!Second, Mins!Wake,
            Mins!DivideByZero, Mins!Reload, Mins!Grant, Mins!state
      <3> QED
        BY <3>1 DEF Mins!Count
    <2>2. CASE ~MinutesStep
      <3>1. UNCHANGED allowed \/ part = "minutes"
        BY <1>1, <2>2 DEF Next, ConfStep, TreeStep, Md5Step, XmlStep, vars,
                          minsVars
      <3> QED
        BY <1>1, <2>2, <3>1
        DEF PartInv, Next, ConfStep, TreeStep, Md5Step, XmlStep, vars, minsVars
    <2> QED
      BY <2>1, <2>2
  <1>2. PartInv /\ [Next]_vars =>
          [ minutePc = "count" /\ allowed /\ ~allowed' /\ delay > 0
            /\ "allowance" \notin reloaded
              => age \in ((granted - 1) * Mins!Shortest(delay))
                           ..(granted * Mins!Longest(delay)) ]_Mins!vars
    BY <1>1, MinuteEndsStep, MinuteEnds
  <1> QED
    BY <1>2, PartHolds, PTL DEF Spec, AllowanceLength, Mins!AllowanceLength

(* A load of a file nobody edits is what the file says, key by key, with   *)
(* the defaults and the old values where it says nothing; one of a file    *)
(* that is edited takes each key from a version of it (config_read.c,      *)
(* yinkad.c, 61-129).                                                      *)
THEOREM LoadExactHolds == Spec => []LoadExact
  <1>1. PartInv => LoadExact
    BY LoadIsExact DEF PartInv, LoadExact, Conf!LoadExact
  <1> QED
    BY <1>1, PartHolds, PTL

(* Whatever the order of update.xml and its repetitions, the updater runs  *)
(* what its last word on each item asks for, each item once and in order,  *)
(* if nothing in it stands under the name of no item; and only a child     *)
(* without text stops it (updater.c, 380-465, 644-671).                    *)
THEOREM RunsExactHolds == Spec => []RunsExact
  <1>1. PartInv => RunsExact
    BY RunIsExact DEF PartInv, RunsExact, Xml!RunsExact
  <1> QED
    BY <1>1, PartHolds, PTL

(* MD5 is given the message that the standard defines for the file,        *)
(* whatever its length, wherever the reads cut it and however often the    *)
(* low word of the length overflows (updater.c, 338-378; md5.c, 28-78).    *)
THEOREM AbsorbsMessageHolds == Spec => []AbsorbsMessage
  <1>1. PartInv => AbsorbsMessage
    BY DEF PartInv, Md5Inv, AbsorbsMessage, Md5!AbsorbsMessage
  <1> QED
    BY <1>1, PartHolds, PTL
=============================================================================
