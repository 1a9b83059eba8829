--------------------------- MODULE DatagramProofs ---------------------------
(***************************************************************************)
(* What the walk over a message does with its first element, for messages  *)
(* of any length and all sizes (FirstHandled and SimpleExact of Datagram), *)
(* and what the answer to DAEMON_GETINFO holds (AnswerComplete).           *)
(*                                                                         *)
(* Where an element begins is a sum over those before it, so the proofs    *)
(* need induction; Induction states it for sets, from the least element    *)
(* that WFMin names.                                                       *)
(***************************************************************************)
EXTENDS Datagram, WellFoundedInduction, TLAPS

LEMMA Induction ==
    ASSUME NEW B \in SUBSET Nat, 0 \in B, \A k \in B : k + 1 \in B
    PROVE  B = Nat
  <1> SUFFICES ASSUME Nat \ B # {}
               PROVE  FALSE
    OBVIOUS
  <1>1. PICK x \in Nat \ B :
          \A y \in Nat \ B : <<y, x>> \notin OpToRel(<, Nat)
    BY NatLessThanWellFounded, WFMin
  <1>2. x - 1 \in Nat /\ <<x - 1, x>> \in OpToRel(<, Nat)
    BY DEF OpToRel
  <1>3. x - 1 \in B
    BY <1>1, <1>2
  <1>4. x - 1 + 1 = x
    OBVIOUS
  <1> QED
    BY <1>3, <1>4

-----------------------------------------------------------------------------
(* Messages and where their elements begin.                                *)

LEMMA ElementTypes ==
    ASSUME NEW e \in Elements
    PROVE  /\ Value(e) \in Nat
           /\ e.type \in Plain \cup {"control"}
           /\ e.cmds \in 0..MaxCommands
           /\ e.type # "control" => e.cmds = 0
  <1>1. CASE e.type = "control"
    <2>1. e.cmds \in 0..MaxCommands
      BY <1>1, DatagramAssumption DEF Elements, DatagramAssumption
    <2>2. \A x, y \in Nat : x * y \in Nat
      OBVIOUS
    <2> QED
      BY <1>1, <2>1, <2>2, DatagramAssumption
      DEF Value, CommandBytes, DatagramAssumption
  <1>2. CASE e.type # "control"
    <2>1. e.type \in Plain /\ e.cmds = 0 /\ 0 \in 0..MaxCommands
      BY <1>2, DatagramAssumption DEF Elements, DatagramAssumption
    <2>2. ElementSize[e.type] \in Nat
      BY <2>1, DatagramAssumption DEF DatagramAssumption
    <2> QED
      BY <1>2, <2>1, <2>2 DEF Value
  <1> QED
    BY <1>1, <1>2

LEMMA MessageTypes ==
    ASSUME NEW m \in Messages
    PROVE  /\ Len(m) \in 1..MaxElements /\ DOMAIN m = 1..Len(m)
           /\ \A n \in 1..Len(m) : m[n] \in Elements
  <1>1. PICK l \in 0..MaxElements : m \in [1..l -> Elements]
    BY DEF Messages, BoundedSeq, SeqOf
  <1>2. Len(m) = l /\ m \in Seq(Elements) /\ m # <<>>
    BY <1>1, DatagramAssumption DEF Messages, DatagramAssumption
  <1> QED
    BY <1>1, <1>2

(* What the recursive definition of ElementStart computes.                 *)
LEMMA StartsDefined ==
    ASSUME NEW m \in Messages
    PROVE  /\ ElementStart(m, 1) = 0
           /\ \A n \in 1..Len(m) :
                /\ ElementStart(m, n) \in Nat
                /\ ElementStart(m, n + 1) =
                     ElementStart(m, n) + Header + Value(m[n])
  <1> DEFINE T(f, k) == IF k = 1 THEN 0
                        ELSE f[k - 1] + Header + Value(m[k - 1])
             Good(f, n) == /\ f \in [1..(n + 1) -> Nat]
                           /\ f = [k \in 1..(n + 1) |-> T(f, k)]
             B == {n \in Nat : n <= Len(m) => \E f : Good(f, n)}
  <1>1. /\ Len(m) \in Nat /\ Header \in Nat
        /\ \A n \in 1..Len(m) : Value(m[n]) \in Nat
    BY MessageTypes, ElementTypes, DatagramAssumption DEF DatagramAssumption
  <1>2. 0 \in B
    <2> DEFINE f == [k \in 1..1 |-> 0]
    <2>1. Good(f, 0)
      OBVIOUS
    <2> QED
      BY <2>1
  <1>3. ASSUME NEW n \in Nat, n + 1 <= Len(m), NEW f, Good(f, n)
        PROVE  \E g : Good(g, n + 1)
    <2> DEFINE g == [k \in 1..(n + 2) |->
                       IF k <= n + 1 THEN f[k]
                       ELSE f[n + 1] + Header + Value(m[n + 1])]
    <2>1. /\ \A k \in 1..(n + 1) : f[k] \in Nat /\ f[k] = T(f, k)
          /\ f[n + 1] + Header + Value(m[n + 1]) \in Nat
      <3> HIDE DEF T
      <3>1. \A k \in 1..(n + 1) : f[k] \in Nat /\ f[k] = T(f, k)
        BY <1>3
      <3>2. n + 1 \in 1..(n + 1) /\ n + 1 \in 1..Len(m)
        BY <1>1, <1>3
      <3> QED
        BY <1>1, <3>1, <3>2
    <2>2. g \in [1..(n + 2) -> Nat]
      BY <1>1, <2>1
    <2>3. \A k \in 1..(n + 2) : g[k] = T(g, k)
      <3> TAKE k \in 1..(n + 2)
      <3>1. CASE k = 1
        BY <2>1, <3>1
      <3>2. CASE k \in 2..(n + 1)
        <4>1. g[k] = f[k] /\ g[k - 1] = f[k - 1]
          BY <3>2
        <4> QED
          BY <2>1, <3>2, <4>1
      <3>3. CASE k = n + 2
        BY <3>3
      <3> QED
        BY <3>1, <3>2, <3>3
    <2>4. n + 1 + 1 = n + 2
      OBVIOUS
    <2>5. g = [k \in 1..(n + 2) |-> T(g, k)]
      BY <2>3
    <2> HIDE DEF g
    <2>6. Good(g, n + 1)
      BY <2>2, <2>4, <2>5
    <2> QED
      BY <2>6
  <1>4. \E f : Good(f, Len(m))
    <2> HIDE DEF Good
    <2>1. \A n \in B : n + 1 \in B
      BY <1>1, <1>3
    <2> HIDE DEF B
    <2>2. B \in SUBSET Nat
      BY DEF B
    <2>3. B = Nat
      BY <1>2, <2>1, <2>2, Induction
    <2> QED
      BY <1>1, <2>3 DEF B
  <1> DEFINE s == CHOOSE f : f = [k \in 1..(Len(m) + 1) |-> T(f, k)]
  <1>5. s = [k \in 1..(Len(m) + 1) |-> T(s, k)]
    BY <1>4
  <1>6. \A n : ElementStart(m, n) = s[n]
    BY DEF ElementStart
  <1> HIDE DEF s
  <1>7. /\ s[1] = 0
        /\ \A n \in 1..Len(m) : s[n + 1] = s[n] + Header + Value(m[n])
    <2>1. \A k \in 1..(Len(m) + 1) : s[k] = T(s, k)
      BY <1>5
    <2>2. s[1] = T(s, 1) /\ \A n \in 1..Len(m) : s[n + 1] = T(s, n + 1)
      BY <1>1, <2>1
    <2> QED
      BY <1>1, <2>2
  <1> DEFINE A == {n \in Nat : n <= Len(m) => s[n + 1] \in Nat}
  <1>8. A = Nat
    <2>1. 0 \in A
      BY <1>7
    <2>2. ASSUME NEW n \in A, n + 1 <= Len(m)
          PROVE  s[n + 2] \in Nat
      <3>1. n + 1 \in 1..Len(m) /\ n + 1 + 1 = n + 2 /\ s[n + 1] \in Nat
        BY <1>1, <2>2
      <3>2. s[n + 2] = s[n + 1] + Header + Value(m[n + 1])
        BY <1>7, <3>1
      <3> QED
        BY <1>1, <3>1, <3>2
    <2>3. ASSUME NEW n \in A
          PROVE  n + 1 \in A
      <3>1. n + 1 \in Nat /\ n + 1 + 1 = n + 2
        OBVIOUS
      <3> QED
        BY <2>2, <3>1
    <2> HIDE DEF A
    <2>4. A \in SUBSET Nat
      BY DEF A
    <2> QED
      BY <2>1, <2>3, <2>4, Induction
  <1>9. \A n \in 1..Len(m) : s[n] \in Nat
    <2> TAKE n \in 1..Len(m)
    <2>1. n - 1 \in Nat /\ n - 1 <= Len(m) /\ n - 1 + 1 = n
      BY <1>1
    <2>2. n - 1 \in A
      BY <1>8, <2>1 DEF A
    <2> QED
      BY <2>1, <2>2
  <1> QED
    BY <1>6, <1>7, <1>9

(* Nothing but the first element begins before its end.                    *)
LEMMA LaterStarts ==
    ASSUME NEW m \in Messages
    PROVE  /\ ElementStart(m, 2) = Header + Value(m[1])
           /\ \A n \in 2..Len(m) :
                ElementStart(m, n) >= Header + Value(m[1])
  <1> DEFINE B == {k \in Nat : k + 2 <= Len(m) =>
                     ElementStart(m, k + 2) >= Header + Value(m[1])}
  <1>1. /\ Len(m) \in Nat \ {0} /\ Header \in Nat
        /\ \A n \in 1..Len(m) : Value(m[n]) \in Nat
    BY MessageTypes, ElementTypes, DatagramAssumption DEF DatagramAssumption
  <1>2. ElementStart(m, 2) = Header + Value(m[1])
    <2>1. 1 \in 1..Len(m) /\ 1 + 1 = 2
      BY <1>1
    <2>2. ElementStart(m, 2) = ElementStart(m, 1) + Header + Value(m[1])
      BY <2>1, StartsDefined
    <2> QED
      BY <1>1, <2>1, <2>2, StartsDefined
  <1>3. 0 \in B
    BY <1>1, <1>2
  <1>4. ASSUME NEW k \in B
        PROVE  k + 1 \in B
    <2> SUFFICES ASSUME k + 3 <= Len(m)
                 PROVE  ElementStart(m, k + 3) >= Header + Value(m[1])
      <3>1. k + 1 + 2 = k + 3
        OBVIOUS
      <3> QED
        BY <3>1
    <2>1. k + 2 \in 1..Len(m) /\ k + 2 + 1 = k + 3
      BY <1>1
    <2>2. /\ ElementStart(m, k + 2) \in Nat
          /\ ElementStart(m, k + 3) =
               ElementStart(m, k + 2) + Header + Value(m[k + 2])
      BY <2>1, StartsDefined
    <2>3. ElementStart(m, k + 2) >= Header + Value(m[1])
      BY <1>1, <2>1
    <2>4. Value(m[k + 2]) \in Nat /\ Value(m[1]) \in Nat
      BY <1>1, <2>1
    <2> QED
      BY <1>1, <2>2, <2>3, <2>4
  <1>5. B = Nat
    <2> HIDE DEF B
    <2>1. B \in SUBSET Nat
      BY DEF B
    <2> QED
      BY <1>3, <1>4, <2>1, Induction
  <1>6. ASSUME NEW n \in 2..Len(m)
        PROVE  ElementStart(m, n) >= Header + Value(m[1])
    <2>1. n - 2 \in Nat /\ n - 2 + 2 = n /\ n <= Len(m)
      BY <1>1
    <2>2. n - 2 \in B
      BY <1>5, <2>1 DEF B
    <2> QED
      BY <2>1, <2>2
  <1> QED
    BY <1>2, <1>6

-----------------------------------------------------------------------------
(* The walk.                                                               *)

WalkType ==
    /\ msg \in Messages
    /\ pc \in {"recv", "outer", "inner", "next", "crashed"}
    /\ at \in Nat /\ data_len \in Nat /\ value_len \in Nat
    /\ sub_at \in Nat /\ sub_len \in Nat
    /\ handled \in Seq(Nat \X Nat)

Cmds == msg[1].cmds

(* The first element, or two commands of it, have been acted on first.     *)
Begun(h) ==
    IF msg[1].type = "control"
      THEN /\ Cmds >= 1 => Len(h) >= 1 /\ h[1] = <<1, 1>>
           /\ Cmds >= 2 => Len(h) >= 2 /\ h[2] = <<1, 2>>
      ELSE Len(h) >= 1 /\ h[1] = <<1, 0>>

(* The inner walk of the first element is at its first or second command,  *)
(* or past them, where the sums begin to go wrong.                         *)
InnerFirst ==
    \/ handled = <<>> /\ sub_len = 0 /\ sub_at = Header
    \/ /\ Cmds >= 1 /\ handled = <<<<1, 1>>>>
       /\ sub_len = CommandBytes /\ sub_at = Header + CommandBytes
    \/ /\ Cmds >= 2 /\ Begun(handled)
       /\ Cmds = 2 => /\ handled = <<<<1, 1>>, <<1, 2>>>>
                      /\ sub_len = 2 * CommandBytes

WalkInv ==
    /\ pc = "outer" /\ data_len = 0 =>
         at = 0 /\ sub_len = 0 /\ handled = <<>>
    /\ pc = "outer" /\ data_len > 0 => at > 0
    /\ pc \in {"inner", "next"} => data_len > 0
    /\ pc \in {"inner", "next"} /\ at = 0 =>
         data_len = Header /\ value_len = Value(msg[1])
    /\ pc = "inner" /\ at = 0 => msg[1].type = "control" /\ InnerFirst
    /\ at > 0 \/ pc = "next" \/ (pc = "recv" /\ data_len > 0) =>
         Begun(handled)

SimpleInv ==
    Simple =>
        /\ pc \in {"inner", "next"} => at = 0
        /\ pc = "next" \/ (pc \in {"recv", "outer"} /\ data_len > 0) =>
             handled = Asked(msg)
        /\ pc = "outer" /\ data_len > 0 => data_len = Length(msg)
        /\ pc # "crashed"
        /\ pc \in {"outer", "inner", "next"} => Length(msg) <= MaxBuffer

DatagramInv == WalkType /\ WalkInv /\ SimpleInv

LEMMA FirstElement ==
    ASSUME WalkType
    PROVE  /\ Len(msg) \in Nat /\ 1 \in DOMAIN msg /\ DOMAIN msg = 1..Len(msg)
           /\ msg[1].type \in Plain \cup {"control"}
           /\ Plain \subseteq {"keepalive", "xinput", "remote"}
           /\ Header \in Nat /\ Header > 0
           /\ CommandBytes \in Nat /\ CommandBytes > 0
           /\ Value(msg[1]) \in Nat
           /\ msg[1].type = "control" =>
                /\ Cmds \in 0..MaxCommands
                /\ Value(msg[1]) = Cmds * CommandBytes
           /\ msg[1].type # "control" => Cmds = 0
           /\ \A n \in DOMAIN msg : /\ Value(msg[n]) \in Nat
                                    /\ msg[n].type \in Plain \cup {"control"}
  <1>1. /\ Len(msg) \in 1..MaxElements /\ DOMAIN msg = 1..Len(msg)
        /\ \A n \in 1..Len(msg) : msg[n] \in Elements
    BY MessageTypes DEF WalkType
  <1>2. /\ Header \in Nat /\ Header > 0 /\ MaxElements \in Nat
        /\ CommandBytes \in Nat /\ CommandBytes > 0
        /\ Plain \subseteq {"keepalive", "xinput", "remote"}
    BY DatagramAssumption DEF DatagramAssumption, CommandBytes
  <1>3. 1 \in 1..Len(msg)
    BY <1>1, <1>2
  <1> QED
    BY <1>1, <1>2, <1>3, ElementTypes DEF Cmds, Value

(* At its beginning, only the first element begins.                        *)
LEMMA HereFirst ==
    ASSUME WalkType, at = 0
    PROVE  Here = {1}
  <1>1. ElementStart(msg, 1) = 0
    BY StartsDefined DEF WalkType
  <1>2. ASSUME NEW n \in DOMAIN msg, n # 1
        PROVE  ElementStart(msg, n) # 0
    <2>1. n \in 2..Len(msg)
      BY <1>2, FirstElement
    <2>2. ElementStart(msg, n) \in Nat
      BY <2>1, FirstElement, StartsDefined DEF WalkType
    <2>3. ElementStart(msg, n) >= Header + Value(msg[1])
      BY <2>1, LaterStarts DEF WalkType
    <2> QED
      BY <2>2, <2>3, FirstElement
  <1> QED
    BY <1>1, <1>2, FirstElement DEF Here

(* At the place of its first or second command, only that begins.          *)
LEMMA CommandsFirst ==
    ASSUME WalkType, msg[1].type = "control", NEW j \in 1..2, j <= Cmds,
           sub_at = Header + (j - 1) * CommandBytes
    PROVE  CommandsHere = {<<1, j>>}
  <1> USE FirstElement
  <1>1. ElementStart(msg, 1) = 0
    BY StartsDefined DEF WalkType
  <1>2. /\ <<1, j>> \in (DOMAIN msg) \X (1..MaxCommands)
        /\ j <= msg[1].cmds
        /\ MaxCommands \in Nat
    <2>1. MaxCommands \in Nat
      BY DatagramAssumption DEF DatagramAssumption
    <2>2. j \in 1..Cmds /\ Cmds \in 0..MaxCommands /\ 1 \in DOMAIN msg
      OBVIOUS
    <2>3. j \in 1..MaxCommands
      BY <2>1, <2>2
    <2> QED
      BY <2>1, <2>2, <2>3 DEF Cmds
  <1>3. CommandStart(msg, 1, j) = sub_at
    BY <1>1 DEF CommandStart
  <1>4. ASSUME NEW n \in DOMAIN msg, NEW i \in 1..MaxCommands,
               CommandStart(msg, n, i) = sub_at
        PROVE  n = 1 /\ i = j
    <2>1. i \in Nat /\ i >= 1 /\ (i - 1) * CommandBytes \in Nat
      <3>1. i - 1 \in Nat /\ CommandBytes \in Nat
        BY <1>2
      <3>2. \A x, y \in Nat : x * y \in Nat
        OBVIOUS
      <3> QED
        BY <1>2, <3>1, <3>2
    <2>2. CASE n = 1
      <3>1. (i - 1) * CommandBytes = (j - 1) * CommandBytes
        BY <1>1, <1>4, <2>1, <2>2 DEF CommandStart
      <3> QED
        BY <2>1, <2>2, <3>1
    <2>3. CASE n # 1
      <3>1. n \in 2..Len(msg)
        BY <2>3
      <3>2. ElementStart(msg, n) \in Nat
        BY <3>1, StartsDefined DEF WalkType
      <3>3. ElementStart(msg, n) >= Header + Value(msg[1])
        BY <3>1, LaterStarts DEF WalkType
      <3>4. CommandStart(msg, n, i) =
              ElementStart(msg, n) + Header + (i - 1) * CommandBytes
        BY DEF CommandStart
      <3>5. /\ Value(msg[1]) >= (j - 1) * CommandBytes
            /\ (j - 1) * CommandBytes \in Nat
        <4>1. Cmds * CommandBytes >= (j - 1) * CommandBytes
          OBVIOUS
        <4>2. Value(msg[1]) = Cmds * CommandBytes
          OBVIOUS
        <4> QED
          BY <4>1, <4>2
      <3>6. CommandStart(msg, n, i) > sub_at
        <4>1. \A s, h, v, x, y \in Nat :
                h > 0 /\ s >= h + v /\ v >= y => s + h + x > h + y
          OBVIOUS
        <4>2. Header \in Nat /\ Header > 0 /\ Value(msg[1]) \in Nat
          OBVIOUS
        <4> QED
          <5> DEFINE s == ElementStart(msg, n)
                     v == Value(msg[1])
                     x == (i - 1) * CommandBytes
                     y == (j - 1) * CommandBytes
          <5>1. /\ s \in Nat /\ v \in Nat /\ x \in Nat /\ y \in Nat
                /\ s >= Header + v /\ v >= y
                /\ CommandStart(msg, n, i) = s + Header + x
                /\ sub_at = Header + y
            BY <2>1, <3>2, <3>3, <3>4, <3>5, <4>2
          <5> HIDE DEF s, v, x, y
          <5> QED
            BY <4>1, <4>2, <5>1
      <3>7. sub_at \in Nat
        BY DEF WalkType
      <3> QED
        BY <1>4, <3>6, <3>7
    <2> QED
      BY <2>2, <2>3
  <1>5. \A w \in CommandsHere : w = <<1, j>>
    BY <1>4 DEF CommandsHere
  <1>6. <<1, j>> \in CommandsHere
    BY <1>2, <1>3 DEF CommandsHere
  <1> QED
    BY <1>5, <1>6

(* What is done with an element by its type.                               *)
LEMMA ElementCases ==
    ASSUME NEW n, NEW type, NEW len, Element(n, type, len)
    PROVE  /\ value_len' = len /\ data_len' = data_len + Header
           /\ UNCHANGED <<msg, at, sub_len>>
           /\ type = "control" => /\ sub_at' = at + data_len + Header
                                  /\ pc' = "inner" /\ handled' = handled
           /\ type \in Plain => HandleElement(n, type) /\ sub_at' = sub_at
           /\ type = "unknown" => pc' = "recv" /\ UNCHANGED <<sub_at, handled>>
  <1>1. Plain \subseteq {"keepalive", "xinput", "remote"}
    BY DatagramAssumption DEF DatagramAssumption
  <1>2. /\ value_len' = len /\ data_len' = data_len + Header
        /\ UNCHANGED <<msg, at, sub_len>>
    BY DEF Element
  <1>3. CASE type = "control"
    BY <1>1, <1>2, <1>3 DEF Element
  <1>4. CASE type \in Plain
    BY <1>1, <1>2, <1>4 DEF Element
  <1>5. CASE type = "unknown"
    BY <1>1, <1>2, <1>5 DEF Element
  <1> QED
    BY <1>2, <1>3, <1>4, <1>5

(* Acting on a part appends it or leaves what was done as it is.           *)
LEMMA HandleCases ==
    ASSUME NEW w, Handle(w)
    PROVE  handled' = handled \/ handled' = Append(handled, w)
  BY DEF Handle

LEMMA HandleElementCases ==
    ASSUME NEW n, NEW type, HandleElement(n, type)
    PROVE  /\ pc' \in {"next", "crashed"}
           /\ \/ handled' = handled
              \/ handled' = Append(handled, <<n, 0>>)
              \/ handled' = Append(handled, Misread)
           /\ n # 0 /\ data_len = 0 => /\ Handle(<<n, 0>>)
                                       /\ pc' = "next"
  BY HandleCases DEF HandleElement

(* Numbers stay numbers.                                                   *)
LEMMA WalkTypeStep ==
    ASSUME WalkType, Next
    PROVE  WalkType'
  <1> USE FirstElement DEF WalkType
  <1>0. Misread \in Nat \X Nat /\ Lengths \subseteq Nat /\ CommandSize \in Nat
    BY DatagramAssumption DEF Misread, DatagramAssumption
  <1>1. CASE Receive
    BY <1>1 DEF Receive, ResetOffsets
  <1>a. ASSUME NEW w \in Nat \X Nat, Handle(w)
        PROVE  handled' \in Seq(Nat \X Nat)
    <2>1. handled \in Seq(Nat \X Nat)
      OBVIOUS
    <2>2. handled' = handled \/ handled' = Append(handled, w)
      BY <1>a, HandleCases
    <2>3. Append(handled, w) \in Seq(Nat \X Nat)
      BY <1>a, <2>1
    <2> QED
      BY <2>1, <2>2, <2>3
  <1>2. ASSUME NEW n \in {0} \cup DOMAIN msg, NEW len \in Nat,
               NEW type \in Plain \cup {"control", "unknown"},
               Element(n, type, len)
        PROVE  WalkType'
    <2>1. <<n, 0>> \in Nat \X Nat
      OBVIOUS
    <2>2. handled' \in Seq(Nat \X Nat)
      <3>1. /\ handled \in Seq(Nat \X Nat)
            /\ Append(handled, <<n, 0>>) \in Seq(Nat \X Nat)
            /\ Append(handled, Misread) \in Seq(Nat \X Nat)
        BY <1>0, <2>1
      <3>2. handled' = handled \/ HandleElement(n, type)
        BY <1>2, ElementCases
      <3> QED
        BY <3>1, <3>2, HandleElementCases
    <2>3. /\ pc' \in {"inner", "next", "recv", "crashed"}
          /\ sub_at' \in {sub_at, at + data_len + Header}
          /\ value_len' = len /\ data_len' = data_len + Header
          /\ UNCHANGED <<msg, at, sub_len>>
      BY <1>2, ElementCases, HandleElementCases
    <2> QED
      BY <1>2, <2>2, <2>3
  <1>3. CASE Outer
    BY <1>0, <1>2, <1>3 DEF Outer, Here
  <1>4. CASE OuterDone
    BY <1>4 DEF OuterDone, walk
  <1>5. ASSUME NEW w \in Nat \X Nat, NEW len \in Nat, Act(w, len)
        PROVE  WalkType'
    <2>1. /\ sub_len' = sub_len + Header + len /\ sub_at' = sub_at + sub_len'
          /\ UNCHANGED <<pc, msg, at, data_len, value_len>>
      BY <1>5 DEF Act, Advance
    <2>2. handled' \in Seq(Nat \X Nat)
      BY <1>5, <1>a DEF Act
    <2>3. sub_len' \in Nat /\ sub_at' \in Nat
      <3>1. Header \in Nat /\ sub_len \in Nat /\ sub_at \in Nat
        OBVIOUS
      <3> QED
        BY <1>5, <2>1, <3>1
    <2> QED
      BY <1>5, <2>1, <2>2, <2>3
  <1>6. CASE Inner
    <2>1. CommandsHere \subseteq Nat \X Nat
      BY DatagramAssumption DEF CommandsHere, DatagramAssumption
    <2> QED
      BY <1>0, <1>5, <1>6, <2>1 DEF Inner
  <1>7. CASE InnerDone
    BY <1>7 DEF InnerDone
  <1>8. CASE NextElement
    BY <1>8 DEF NextElement
  <1>9. CASE ReadOutside
    BY <1>9 DEF ReadOutside, walk
  <1> QED
    BY <1>1, <1>3, <1>4, <1>6, <1>7, <1>8, <1>9 DEF Next, Walk

(* What has been acted on first stays so.                                  *)
LEMMA BegunKept ==
    ASSUME WalkType, Begun(handled), msg' = msg,
           \/ handled' = handled
           \/ \E w \in Nat \X Nat : handled' = Append(handled, w)
    PROVE  Begun(handled)'
  <1>1. /\ Len(handled') >= Len(handled)
        /\ \A j \in 1..Len(handled) : handled'[j] = handled[j]
    <2>1. handled \in Seq(Nat \X Nat)
      BY DEF WalkType
    <2>2. CASE handled' = handled
      BY <2>1, <2>2
    <2>3. ASSUME NEW w \in Nat \X Nat, handled' = Append(handled, w)
          PROVE  /\ Len(handled') >= Len(handled)
                 /\ \A j \in 1..Len(handled) : handled'[j] = handled[j]
      BY <2>1, <2>3
    <2> QED
      BY <2>2, <2>3
  <1>2. Len(handled) \in Nat /\ Len(handled') \in Nat
    BY DEF WalkType
  <1> QED
    BY <1>1, <1>2 DEF Begun, Cmds

(* What a message of one element with at most two commands asks for.       *)
LEMMA AskedIs ==
    ASSUME WalkType
    PROVE  /\ msg[1].type # "control" => Asked(msg) = <<<<1, 0>>>>
           /\ msg[1].type = "control" =>
                /\ Cmds = 0 => Asked(msg) = <<>>
                /\ Cmds = 1 => Asked(msg) = <<<<1, 1>>>>
                /\ Cmds = 2 => Asked(msg) = <<<<1, 1>>, <<1, 2>>>>
  <1>1. CASE msg[1].type # "control"
    BY <1>1 DEF Asked
  <1>2. CASE msg[1].type = "control"
    <2>1. Asked(msg) = [j \in 1..Cmds |-> <<1, j>>]
      BY <1>2, FirstElement DEF Asked, Cmds
    <2>2. /\ [j \in 1..0 |-> <<1, j>>] = <<>>
          /\ [j \in 1..1 |-> <<1, j>>] = <<<<1, 1>>>>
          /\ [j \in 1..2 |-> <<1, j>>] = <<<<1, 1>>, <<1, 2>>>>
      OBVIOUS
    <2> QED
      BY <1>2, <2>1, <2>2
  <1> QED
    BY <1>1, <1>2

LEMMA ReceiveWalk ==
    ASSUME Receive
    PROVE  WalkInv' /\ SimpleInv'
  BY DEF Receive, ResetOffsets, WalkInv, SimpleInv

(* The first element is taken at the beginning of the message.             *)
LEMMA OuterFirst ==
    ASSUME DatagramInv, Outer, data_len = 0
    PROVE  WalkInv' /\ SimpleInv'
  <1>1. WalkType /\ at = 0 /\ sub_len = 0 /\ handled = <<>>
    BY DEF DatagramInv, WalkInv, Outer
  <1>2. Element(1, msg[1].type, Value(msg[1]))
    BY <1>1, HereFirst DEF Outer
  <1>3. /\ value_len' = Value(msg[1]) /\ data_len' = Header
        /\ UNCHANGED <<msg, at, sub_len>>
        /\ Header \in Nat /\ Header > 0
    BY <1>1, <1>2, FirstElement DEF Element
  <1>6. Simple' => Length(msg)' <= MaxBuffer
    BY <1>3 DEF DatagramInv, SimpleInv, Outer, Simple
  <1>4. CASE msg[1].type = "control"
    <2>1. sub_at' = Header /\ pc' = "inner" /\ handled' = <<>>
      BY <1>1, <1>2, <1>3, <1>4, ElementCases
    <2> QED
      BY <1>1, <1>3, <1>4, <1>6, <2>1 DEF WalkInv, SimpleInv, InnerFirst
  <1>5. CASE msg[1].type # "control"
    <2>1. msg[1].type \in Plain
      BY <1>1, <1>5, FirstElement
    <2>2. Handle(<<1, 0>>) /\ pc' = "next"
      BY <1>2, <2>1, ElementCases, HandleElementCases
    <2>3. handled' = <<<<1, 0>>>>
      BY <1>1, <2>2 DEF Handle
    <2>4. Begun(handled)'
      BY <1>3, <1>5, <2>3 DEF Begun
    <2>5. Asked(msg)' = <<<<1, 0>>>>
      BY <1>1, <1>3, <1>5, AskedIs DEF Asked
    <2> QED
      BY <1>1, <1>3, <1>6, <2>2, <2>3, <2>4, <2>5 DEF WalkInv, SimpleInv
  <1> QED
    BY <1>4, <1>5

(* Behind the first element, the walk only appends to what it has done.    *)
LEMMA BehindFirst ==
    ASSUME WalkType, Begun(handled), ~Simple, at' = at, at > 0,
           data_len' > 0, msg' = msg,
           pc' \in {"inner", "next", "recv", "crashed"},
           \/ handled' = handled
           \/ \E w \in Nat \X Nat : handled' = Append(handled, w)
    PROVE  WalkInv' /\ SimpleInv'
  <1>1. Begun(handled)' /\ ~Simple'
    BY BegunKept DEF Simple, Cmds
  <1> QED
    BY <1>1 DEF WalkInv, SimpleInv, WalkType

LEMMA OuterLater ==
    ASSUME DatagramInv, Outer, data_len # 0
    PROVE  WalkInv' /\ SimpleInv'
  <1>1. WalkType /\ data_len > 0 /\ pc = "outer" /\ data_len < Length(msg)
    BY DEF DatagramInv, WalkType, Outer
  <1>2. at > 0 /\ Begun(handled) /\ ~Simple
    BY <1>1 DEF DatagramInv, WalkInv, SimpleInv, WalkType
  <1>3. PICK n \in {0} \cup DOMAIN msg, len \in Nat,
             type \in Plain \cup {"control", "unknown"} :
               Element(n, type, len)
    BY <1>1, FirstElement, DatagramAssumption
    DEF Outer, Here, DatagramAssumption
  <1>4. /\ msg' = msg /\ at' = at /\ data_len' = data_len + Header
        /\ pc' \in {"inner", "next", "recv", "crashed"}
        /\ handled' = handled \/ HandleElement(n, type)
    BY <1>3, ElementCases, HandleElementCases
  <1>5. HandleElement(n, type) =>
          \/ handled' = handled
          \/ \E w \in Nat \X Nat : handled' = Append(handled, w)
    <2>1. <<n, 0>> \in Nat \X Nat /\ Misread \in Nat \X Nat
      BY <1>1, FirstElement DEF Misread
    <2> QED
      BY <2>1, HandleElementCases
  <1>6. data_len' > 0
    BY <1>1, <1>4, FirstElement DEF WalkType
  <1> QED
    BY <1>1, <1>2, <1>4, <1>5, <1>6, BehindFirst

LEMMA OuterDoneWalk ==
    ASSUME DatagramInv, OuterDone
    PROVE  WalkInv' /\ SimpleInv'
  <1>1. /\ pc = "outer" /\ pc' = "recv"
        /\ UNCHANGED <<msg, at, data_len, sub_at, sub_len, value_len, handled>>
    BY DEF OuterDone, walk
  <1>2. /\ Begun(handled)' <=> Begun(handled)
        /\ Simple' <=> Simple /\ Asked(msg)' = Asked(msg)
    BY <1>1 DEF Begun, Simple, Cmds, Asked
  <1> QED
    BY <1>1, <1>2 DEF DatagramInv, WalkInv, SimpleInv

LEMMA AppendTwo ==
    ASSUME NEW S, NEW t \in S, NEW u \in S
    PROVE  Append(<<t>>, u) = <<t, u>>
  <1> DEFINE f == [i \in 1..2 |-> IF i = 1 THEN t ELSE u]
  <1>1. Append(<<t>>, u) = f
    OBVIOUS
  <1>2. <<t, u>> = f
    OBVIOUS
  <1> QED
    BY <1>1, <1>2

(* The inner walk of the first element takes its first two commands where  *)
(* they are; from the third on the sums are wrong.                         *)
LEMMA InnerWalk ==
    ASSUME DatagramInv, Inner
    PROVE  WalkInv' /\ SimpleInv'
  <1>1. /\ WalkType /\ pc = "inner" /\ sub_len < value_len
        /\ data_len > 0 /\ at \in Nat
    BY DEF DatagramInv, WalkInv, WalkType, Inner
  <1>2. PICK w \in Nat \X Nat, len \in Nat :
          /\ Act(w, len)
          /\ CommandsHere # {} => w \in CommandsHere /\ len = CommandSize
    <2>1. CommandsHere \subseteq Nat \X Nat /\ Misread \in Nat \X Nat
      BY <1>1, FirstElement, DatagramAssumption
      DEF CommandsHere, Misread, DatagramAssumption
    <2>2. CommandSize \in Nat /\ Lengths \subseteq Nat
      BY DatagramAssumption DEF DatagramAssumption
    <2>3. CASE CommandsHere = {}
      BY <2>1, <2>2, <2>3 DEF Inner
    <2>4. CASE CommandsHere # {}
      BY <2>1, <2>2, <2>4 DEF Inner
    <2> QED
      BY <2>3, <2>4
  <1>3. /\ UNCHANGED <<pc, msg, at, data_len, value_len>>
        /\ handled' = handled \/ handled' = Append(handled, w)
        /\ w # Misread => handled' = Append(handled, w)
        /\ sub_len' = sub_len + Header + len /\ sub_at' = sub_at + sub_len'
    BY <1>2, HandleCases DEF Act, Advance, Handle
  <1>4. CASE at > 0
    <2>1. Begun(handled) /\ ~Simple
      BY <1>1, <1>4 DEF DatagramInv, WalkInv, SimpleInv
    <2> QED
      BY <1>1, <1>3, <1>4, <2>1, BehindFirst
  <1>5. CASE at = 0
    <2>1. /\ msg[1].type = "control" /\ InnerFirst
          /\ data_len = Header /\ value_len = Cmds * CommandBytes
          /\ Cmds \in Nat
      BY <1>1, <1>5, FirstElement DEF DatagramInv, WalkInv
    <2>2. /\ CommandBytes \in Nat /\ CommandBytes > 0 /\ Header \in Nat
          /\ CommandBytes = Header + CommandSize /\ CommandSize \in Nat
      BY <1>1, FirstElement, DatagramAssumption
      DEF CommandBytes, DatagramAssumption
    <2>a. Simple' => Simple /\ Length(msg)' = Length(msg)
      BY <1>3 DEF Simple
    <2>b. <<1, 1>> # Misread /\ <<1, 2>> # Misread
      BY DEF Misread
    <2>3. SUFFICES InnerFirst'
      BY <1>1, <1>3, <1>5, <2>1, <2>a DEF DatagramInv, WalkInv, SimpleInv
    <2>4. CASE handled = <<>> /\ sub_len = 0 /\ sub_at = Header
      <3>1. Cmds >= 1
        BY <1>1, <2>1, <2>2, <2>4
      <3>2. CommandsHere = {<<1, 1>>}
        BY <1>1, <2>1, <2>2, <2>4, <3>1, CommandsFirst
      <3>3. handled' = <<<<1, 1>>>> /\ sub_len' = CommandBytes
            /\ sub_at' = Header + CommandBytes
        <4>1. w = <<1, 1>> /\ len = CommandSize
          BY <1>2, <3>2
        <4>2. handled' = Append(<<>>, <<1, 1>>)
          BY <1>3, <2>4, <2>b, <4>1
        <4> QED
          BY <1>3, <2>2, <2>4, <4>1, <4>2
      <3> QED
        BY <1>3, <3>1, <3>3 DEF InnerFirst, Cmds
    <2>5. CASE /\ Cmds >= 1 /\ handled = <<<<1, 1>>>>
               /\ sub_len = CommandBytes /\ sub_at = Header + CommandBytes
      <3>1. Cmds >= 2
        BY <1>1, <2>1, <2>2, <2>5
      <3>2. CommandsHere = {<<1, 2>>}
        BY <1>1, <2>1, <2>2, <2>5, <3>1, CommandsFirst
      <3>3. handled' = <<<<1, 1>>, <<1, 2>>>> /\ sub_len' = 2 * CommandBytes
        <4>1. w = <<1, 2>> /\ len = CommandSize
          BY <1>2, <3>2
        <4>2. Append(<<<<1, 1>>>>, <<1, 2>>) = <<<<1, 1>>, <<1, 2>>>>
          <5>1. <<1, 1>> \in Nat \X Nat /\ <<1, 2>> \in Nat \X Nat
            OBVIOUS
          <5> QED
            BY <5>1, AppendTwo
        <4>3. handled' = <<<<1, 1>>, <<1, 2>>>>
          BY <1>3, <2>5, <2>b, <4>1, <4>2
        <4>4. sub_len' = 2 * CommandBytes
          BY <1>3, <2>2, <2>5, <4>1
        <4> QED
          BY <4>3, <4>4
      <3>4. Begun(handled)'
        BY <1>3, <2>1, <3>3 DEF Begun
      <3> QED
        BY <1>3, <3>1, <3>3, <3>4 DEF InnerFirst, Cmds
    <2>6. CASE /\ Cmds >= 2 /\ Begun(handled)
               /\ Cmds = 2 => sub_len = 2 * CommandBytes
      <3>1. Cmds # 2
        BY <1>1, <2>1, <2>2, <2>6
      <3>2. Begun(handled)'
        BY <1>1, <1>2, <1>3, <2>6, BegunKept
      <3> QED
        BY <1>3, <2>6, <3>1, <3>2 DEF InnerFirst, Cmds
    <2> QED
      BY <2>1, <2>4, <2>5, <2>6 DEF InnerFirst
  <1> QED
    BY <1>1, <1>4, <1>5

(* It does not end before it has acted on two commands, or on all.         *)
LEMMA InnerDoneWalk ==
    ASSUME DatagramInv, InnerDone
    PROVE  WalkInv' /\ SimpleInv'
  <1>1. /\ WalkType /\ pc = "inner" /\ data_len > 0 /\ at \in Nat
        /\ pc' = "next"
        /\ UNCHANGED <<msg, at, data_len, sub_at, value_len, handled>>
        /\ sub_len >= value_len \/ CommandsHere = {}
    BY DEF DatagramInv, WalkInv, WalkType, InnerDone
  <1>2. CASE at > 0
    <2>1. Begun(handled) /\ ~Simple
      BY <1>1, <1>2 DEF DatagramInv, WalkInv, SimpleInv
    <2> QED
      BY <1>1, <1>2, <2>1, BehindFirst
  <1>3. CASE at = 0
    <2>1. /\ msg[1].type = "control" /\ InnerFirst
          /\ data_len = Header /\ value_len = Cmds * CommandBytes
          /\ value_len = Value(msg[1]) /\ Cmds \in Nat
      BY <1>1, <1>3, FirstElement DEF DatagramInv, WalkInv
    <2>2. /\ CommandBytes \in Nat /\ CommandBytes > 0 /\ Header \in Nat
          /\ sub_len \in Nat /\ value_len \in Nat
      BY <1>1, FirstElement DEF WalkType
    <2>3. Begun(handled) /\ (Cmds <= 2 => handled = Asked(msg))
      <3>1. CASE handled = <<>> /\ sub_len = 0 /\ sub_at = Header
        <4>1. Cmds = 0
          <5>1. Cmds >= 1 => CommandsHere = {<<1, 1>>}
            BY <1>1, <2>1, <2>2, <3>1, CommandsFirst
          <5>2. Cmds >= 1 => sub_len < value_len
            BY <2>1, <2>2, <3>1
          <5>3. ~(Cmds >= 1)
            <6>1. CommandsHere = {} \/ ~(sub_len < value_len)
              BY <1>1, <2>2
            <6> QED
              BY <5>1, <5>2, <6>1
          <5> QED
            BY <2>1, <3>1, <5>3
        <4> QED
          BY <1>1, <2>1, <3>1, <4>1, AskedIs DEF Begun
      <3>2. CASE /\ Cmds >= 1 /\ handled = <<<<1, 1>>>>
                 /\ sub_len = CommandBytes /\ sub_at = Header + CommandBytes
        <4>1. Cmds = 1
          <5>1. Cmds >= 2 => CommandsHere = {<<1, 2>>}
            BY <1>1, <2>1, <2>2, <3>2, CommandsFirst
          <5>2. Cmds >= 2 => sub_len < value_len
            BY <2>1, <2>2, <3>2
          <5>3. ~(Cmds >= 2)
            <6>1. CommandsHere = {} \/ ~(sub_len < value_len)
              BY <1>1, <2>2
            <6> QED
              BY <5>1, <5>2, <6>1
          <5> QED
            BY <2>1, <3>2, <5>3
        <4> QED
          BY <1>1, <2>1, <3>2, <4>1, AskedIs DEF Begun
      <3>3. CASE /\ Cmds >= 2 /\ Begun(handled)
                 /\ Cmds = 2 => handled = <<<<1, 1>>, <<1, 2>>>>
        BY <1>1, <2>1, <3>3, AskedIs
      <3> QED
        BY <2>1, <3>1, <3>2, <3>3 DEF InnerFirst
    <2>4. /\ Begun(handled)' <=> Begun(handled)
          /\ Simple' <=> Simple /\ Asked(msg)' = Asked(msg)
          /\ Length(msg)' = Length(msg)
      BY <1>1 DEF Begun, Simple, Cmds, Asked
    <2>5. Simple => Cmds <= 2 /\ Length(msg) <= MaxBuffer
      BY <1>1 DEF DatagramInv, SimpleInv, Simple, Cmds
    <2> QED
      BY <1>1, <1>3, <2>1, <2>3, <2>4, <2>5 DEF WalkInv, SimpleInv
  <1> QED
    BY <1>1, <1>2, <1>3

(* The length of a message of one element.                                 *)
LEMMA LengthOne ==
    ASSUME WalkType, Len(msg) = 1
    PROVE  Length(msg) = Header + Value(msg[1])
  BY LaterStarts DEF Length, WalkType

LEMMA NextElementWalk ==
    ASSUME DatagramInv, NextElement
    PROVE  WalkInv' /\ SimpleInv'
  <1>1. /\ WalkType /\ pc = "next" /\ data_len > 0 /\ Begun(handled)
        /\ at \in Nat /\ data_len \in Nat /\ value_len \in Nat
        /\ pc' = "outer" /\ UNCHANGED <<msg, handled>>
        /\ data_len' = data_len + value_len /\ at' = at + data_len'
    BY DEF DatagramInv, WalkInv, WalkType, NextElement
  <1>2. data_len' > 0 /\ at' > 0
    BY <1>1
  <1>3. /\ Begun(handled)' <=> Begun(handled)
        /\ Simple' <=> Simple /\ Asked(msg)' = Asked(msg)
        /\ Length(msg)' = Length(msg)
    BY <1>1 DEF Begun, Simple, Cmds, Asked, Length, ElementStart, Value
  <1>4. WalkInv'
    BY <1>1, <1>2, <1>3 DEF WalkInv
  <1>5. Simple => handled = Asked(msg) /\ data_len' = Length(msg)
    BY <1>1, LengthOne DEF DatagramInv, WalkInv, SimpleInv, Simple
  <1>6. Simple => Length(msg) <= MaxBuffer
    BY <1>1 DEF DatagramInv, SimpleInv
  <1> QED
    BY <1>1, <1>3, <1>4, <1>5, <1>6 DEF SimpleInv

(* In a simple message neither walk leaves the buffer.                     *)
LEMMA ReadOutsideWalk ==
    ASSUME DatagramInv, ReadOutside
    PROVE  WalkInv' /\ SimpleInv'
  <1>1. /\ WalkType /\ pc \in {"outer", "inner"} /\ pc' = "crashed"
        /\ UNCHANGED <<msg, at, data_len, sub_at, sub_len, value_len, handled>>
        /\ pc = "outer" => data_len < Length(msg) /\ Outside(at, Header)
        /\ pc = "inner" => sub_len < value_len /\ Outside(sub_at, CommandBytes)
    BY DEF DatagramInv, ReadOutside, walk
  <1>2. ~Simple
    <2> SUFFICES ASSUME Simple PROVE FALSE
      OBVIOUS
    <2>1. /\ Length(msg) = Header + Value(msg[1])
          /\ Length(msg) <= MaxBuffer /\ MaxBuffer \in Nat
          /\ Header \in Nat /\ Value(msg[1]) \in Nat
      BY <1>1, LengthOne, FirstElement, DatagramAssumption
      DEF DatagramInv, SimpleInv, Simple, DatagramAssumption
    <2>2. CASE pc = "outer"
      <3>1. data_len = 0 /\ at = 0
        BY <1>1, <2>1, <2>2 DEF DatagramInv, WalkInv, SimpleInv, WalkType
      <3> QED
        BY <1>1, <2>1, <2>2, <3>1 DEF Outside
    <2>3. CASE pc = "inner"
      <3>1. /\ msg[1].type = "control" /\ InnerFirst
            /\ value_len = Value(msg[1])
        BY <2>3 DEF DatagramInv, WalkInv, SimpleInv
      <3>2. /\ Cmds \in Nat /\ Cmds <= 2
            /\ Value(msg[1]) = Cmds * CommandBytes
            /\ CommandBytes \in Nat /\ CommandBytes > 0
        <4>1. Cmds <= 2
          BY DEF Simple, Cmds
        <4> QED
          BY <1>1, <3>1, <4>1, FirstElement
      <3>3. CASE handled = <<>> /\ sub_len = 0 /\ sub_at = Header
        <4>1. Value(msg[1]) >= CommandBytes
          BY <1>1, <2>3, <3>1, <3>2, <3>3
        <4> QED
          BY <1>1, <2>1, <2>3, <3>2, <3>3, <4>1 DEF Outside
      <3>4. CASE /\ Cmds >= 1 /\ handled = <<<<1, 1>>>>
                 /\ sub_len = CommandBytes /\ sub_at = Header + CommandBytes
        <4>1. Value(msg[1]) >= 2 * CommandBytes
          BY <1>1, <2>3, <3>1, <3>2, <3>4
        <4> QED
          BY <1>1, <2>1, <2>3, <3>2, <3>4, <4>1 DEF Outside
      <3>5. CASE Cmds >= 2 /\ (Cmds = 2 => sub_len = 2 * CommandBytes)
        BY <1>1, <2>3, <3>1, <3>2, <3>5
      <3> QED
        BY <3>1, <3>3, <3>4, <3>5 DEF InnerFirst
    <2> QED
      BY <1>1, <2>2, <2>3
  <1>3. at > 0 => Begun(handled)
    BY <1>1 DEF DatagramInv, WalkInv
  <1>4. (Begun(handled)' <=> Begun(handled)) /\ ~Simple'
    BY <1>1, <1>2 DEF Begun, Cmds, Simple
  <1> QED
    BY <1>1, <1>3, <1>4 DEF WalkInv, SimpleInv

-----------------------------------------------------------------------------

LEMMA DatagramStep ==
    ASSUME DatagramInv, [Next]_vars
    PROVE  DatagramInv'
  <1>1. CASE Next
    <2>1. WalkType'
      BY <1>1, WalkTypeStep DEF DatagramInv
    <2>2. CASE Receive
      BY <2>1, <2>2, ReceiveWalk DEF DatagramInv
    <2>3. CASE Outer
      BY <2>1, <2>3, OuterFirst, OuterLater DEF DatagramInv
    <2>4. CASE OuterDone
      BY <2>1, <2>4, OuterDoneWalk DEF DatagramInv
    <2>5. CASE Inner
      BY <2>1, <2>5, InnerWalk DEF DatagramInv
    <2>6. CASE InnerDone
      BY <2>1, <2>6, InnerDoneWalk DEF DatagramInv
    <2>7. CASE NextElement
      BY <2>1, <2>7, NextElementWalk DEF DatagramInv
    <2>8. CASE ReadOutside
      BY <2>1, <2>8, ReadOutsideWalk DEF DatagramInv
    <2> QED
      BY <1>1, <2>2, <2>3, <2>4, <2>5, <2>6, <2>7, <2>8 DEF Next, Walk
  <1>2. CASE UNCHANGED vars
    <2>1. /\ WalkType' <=> WalkType
          /\ WalkInv' <=> WalkInv
          /\ SimpleInv' <=> SimpleInv
      BY <1>2 DEF vars, walk, WalkType, WalkInv, SimpleInv, Begun, InnerFirst,
                  Simple, Cmds, Asked, Length, ElementStart, Value
    <2> QED
      BY <2>1 DEF DatagramInv
  <1> QED
    BY <1>1, <1>2

LEMMA DatagramHolds == Spec => []DatagramInv
  <1>1. Init => DatagramInv
    BY DEF Init, DatagramInv, WalkType, WalkInv, SimpleInv
  <1>2. DatagramInv /\ [Next]_vars => DatagramInv'
    BY DatagramStep
  <1> QED
    BY <1>1, <1>2, PTL DEF Spec

(* The first element of every message, and the first two commands in it,   *)
(* are acted on, in order and before anything else, for messages of any    *)
(* length, any sizes and whatever a misread header shows (yinkad.c, lines  *)
(* 531-533, 572-576, 680-681, 754-755).                                    *)
THEOREM FirstHandledHolds == Spec => []FirstHandled
  <1>1. DatagramInv => FirstHandled
    <2> SUFFICES ASSUME DatagramInv, pc = "recv", data_len > 0
                 PROVE  IsPrefix(FirstTwo(Asked(msg)), handled)
      BY DEF FirstHandled, Walked
    <2>1. WalkType /\ Begun(handled) /\ handled \in Seq(Nat \X Nat)
      BY DEF DatagramInv, WalkInv, WalkType
    <2> DEFINE s == FirstTwo(Asked(msg))
    <2>2. /\ s \in Seq(Nat \X Nat) /\ Len(s) <= Len(handled)
          /\ \A i \in 1..Len(s) : s[i] = handled[i]
      <3>1. CASE msg[1].type # "control"
        <4>1. Asked(msg) = [j \in 1..1 |-> <<1, 0>>]
          BY <2>1, <3>1, AskedIs
        <4>2. Asked(msg) \in Seq(Nat \X Nat) /\ Len(Asked(msg)) = 1
          BY <4>1
        <4>3. Len(s) = 1 /\ s[1] = <<1, 0>> /\ s \in Seq(Nat \X Nat)
          BY <4>1, <4>2 DEF FirstTwo
        <4> HIDE DEF s
        <4>4. Len(handled) >= 1 /\ handled[1] = <<1, 0>>
          BY <2>1, <3>1 DEF Begun
        <4>5. \A i \in 1..Len(s) : i = 1
          BY <4>3
        <4>6. Len(s) <= Len(handled)
          BY <4>3, <4>4
        <4> QED
          BY <4>3, <4>4, <4>5, <4>6
      <3>2. CASE msg[1].type = "control"
        <4>1. Cmds \in Nat /\ Asked(msg) = [j \in 1..Cmds |-> <<1, j>>]
          BY <2>1, <3>2, FirstElement DEF Asked, Cmds
        <4>2. Asked(msg) \in Seq(Nat \X Nat) /\ Len(Asked(msg)) = Cmds
          BY <4>1
        <4>3. /\ s \in Seq(Nat \X Nat)
              /\ Len(s) = IF Cmds < 2 THEN Cmds ELSE 2
              /\ \A i \in 1..Len(s) : s[i] = <<1, i>>
          BY <4>1, <4>2 DEF FirstTwo
        <4> HIDE DEF s
        <4>4. /\ Cmds >= 1 => Len(handled) >= 1 /\ handled[1] = <<1, 1>>
              /\ Cmds >= 2 => Len(handled) >= 2 /\ handled[2] = <<1, 2>>
              /\ Len(handled) \in Nat
          BY <2>1, <3>2 DEF Begun
        <4>5. Len(s) <= Len(handled)
          BY <4>1, <4>3, <4>4
        <4>6. \A i \in 1..Len(s) : s[i] = handled[i]
          <5> TAKE i \in 1..Len(s)
          <5>1. (i = 1 /\ Cmds >= 1) \/ (i = 2 /\ Cmds >= 2)
            BY <4>1, <4>3
          <5> QED
            BY <4>3, <4>4, <5>1
        <4> QED
          BY <4>3, <4>5, <4>6
      <3> QED
        BY <3>1, <3>2
    <2> HIDE DEF s
    <2>3. s = SubSeq(handled, 1, Len(s))
      BY <2>1, <2>2
    <2> QED
      BY <2>2, <2>3 DEF IsPrefix, s
  <1> QED
    BY <1>1, DatagramHolds, PTL

(* A message of one element with at most two commands, like those that the *)
(* updater sends (updater.c, lines 830-864), is carried out exactly.       *)
THEOREM SimpleExactHolds == Spec => []SimpleExact
  <1>1. DatagramInv => SimpleExact
    BY DEF DatagramInv, SimpleInv, SimpleExact, Walked
  <1> QED
    BY <1>1, DatagramHolds, PTL

(* Such a message takes yinkad nowhere near a read outside its buffer or   *)
(* of a misread name, whatever the sizes (lines 556-576, 681-698): the     *)
(* safety part of WalkEnds.                                                *)
THEOREM SimpleSurvives == Spec => [](pc = "crashed" => ~Simple)
  <1>1. DatagramInv => (pc = "crashed" => ~Simple)
    BY DEF DatagramInv, SimpleInv
  <1> QED
    BY <1>1, DatagramHolds, PTL

(* What an answer holds.                                                   *)
AnswerInv ==
    answer = NoAnswer
        \/ \E n \in 1..2 : answer = [nums |-> n, sent |-> AnswerBytes(n)]

LEMMA AnswerStep ==
    ASSUME AnswerInv, [Next]_vars
    PROVE  AnswerInv'
  <1>1. CASE InnerDone
    BY <1>1 DEF InnerDone, AnswerInv
  <1>2. CASE Inner
    BY <1>2 DEF Inner, Act, AnswerInv
  <1>3. CASE Outer
    BY <1>3 DEF Outer, Element, AnswerInv
  <1>4. CASE UNCHANGED answer
    BY <1>4 DEF AnswerInv
  <1> QED
    BY <1>1, <1>2, <1>3, <1>4
    DEF Next, Receive, Walk, OuterDone, NextElement, ReadOutside, vars

(* The answer to DAEMON_GETINFO fits its buffer and the bytes cut off its  *)
(* end hold nothing, as soon as the header is not longer than what a       *)
(* record leaves unset and the buffer has room for two records: 4 against  *)
(* 12 and 214 against 512 in the code (lines 468-484).                     *)
THEOREM AnswerCompleteHolds ==
    ASSUME Header <= Unset, Header + 2 + 2 * Record <= MaxBuffer
    PROVE  Spec => []AnswerComplete
  <1>1. Init => AnswerInv
    BY DEF Init, AnswerInv
  <1>2. AnswerInv /\ [Next]_vars => AnswerInv'
    BY AnswerStep
  <1>3. AnswerInv => AnswerComplete
    <2> SUFFICES ASSUME NEW n \in 1..2,
                        answer = [nums |-> n, sent |-> AnswerBytes(n)]
                 PROVE  AnswerComplete
      BY DEF AnswerInv, AnswerComplete
    <2>1. n = 1 \/ n = 2
      OBVIOUS
    <2>2. answer.nums = n /\ answer.sent = 2 + n * Record
      BY DEF AnswerBytes
    <2> QED
      BY <2>1, <2>2, DatagramAssumption
      DEF AnswerComplete, DatagramAssumption
  <1> QED
    BY <1>1, <1>2, <1>3, PTL DEF Spec
=============================================================================
