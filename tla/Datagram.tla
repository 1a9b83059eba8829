------------------------------ MODULE Datagram ------------------------------
(***************************************************************************)
(* How the datagram thread of yinkad walks over a message (yinkad.c, lines *)
(* 531-757) and what it answers to DAEMON_GETINFO (daemon_data_send).      *)
(*                                                                         *)
(* A message is a sequence of elements: a header of Header bytes (type and *)
(* length) and a value; the value of a control element is a sequence of    *)
(* commands, again header and value.  The module is about the offsets of   *)
(* the walk; what a command does is in Watchdog, RemoteControl and         *)
(* XinputGate.  A header read where none begins is any header: the bytes   *)
(* there mean something else, or are left from an earlier message.  A read *)
(* outside buff, or of a name that a misread number picks, may end yinkad. *)
(***************************************************************************)
EXTENDS Naturals, SequencesExt

CONSTANTS
    Header,       \* bytes of type and length (4)
    CommandSize,  \* bytes of the value of a command (1)
    ElementSize,  \* [type]: bytes of the value of the other elements
    Record,       \* sizeof(program_state_t)
    Unset,        \* bytes at its end that an answer does not fill in
    MaxBuffer,    \* MAX_BUFFER_LEN (512)
    Lengths,      \* lengths that a misread header may show (to 65535)
    MaxElements,  \* bound of the model: elements of a message
    MaxCommands   \* bound of the model: commands of an element

Plain == DOMAIN ElementSize      \* keepalive, xinput, remote

ASSUME DatagramAssumption ==
    /\ Header \in Nat \ {0} /\ CommandSize \in Nat
    /\ ElementSize \in [Plain -> Nat]
    /\ Plain \subseteq {"keepalive", "xinput", "remote"}
    /\ Record \in Nat /\ Unset \in 0..Record /\ MaxBuffer \in Nat
    /\ Lengths \subseteq Nat
    /\ MaxElements \in Nat \ {0} /\ MaxCommands \in Nat

(* A control element has a number of commands, another element has none.   *)
Elements ==
    [type : {"control"}, cmds : 0..MaxCommands]
        \cup [type : Plain, cmds : {0}]
Messages == BoundedSeq(Elements, MaxElements) \ {<<>>}

CommandBytes == Header + CommandSize

Value(e) == IF e.type = "control" THEN e.cmds * CommandBytes
                                  ELSE ElementSize[e.type]

(* Where element n of message m begins, and command j of that element.     *)
ElementStart(m, n) ==
    LET start[k \in 1..(Len(m) + 1)] ==
            IF k = 1 THEN 0 ELSE start[k - 1] + Header + Value(m[k - 1])
    IN  start[n]
CommandStart(m, n, j) ==
    ElementStart(m, n) + Header + (j - 1) * CommandBytes

Length(m) == ElementStart(m, Len(m) + 1)

VARIABLES
    msg,      \* the message in buff
    pc,       \* "crashed" when the process is over
    at,       \* yinka_daemon_tmp - buff
    data_len, \* of the message, so far
    sub_at,   \* control_cmd_tmp - buff
    sub_len,  \* control_cmd_data_len
    value_len,
    handled,  \* what was acted on: <<element, command>>, or Misread
    answer    \* [nums, sent]: the answer to DAEMON_GETINFO, just sent

walk == <<at, data_len, sub_at, sub_len, value_len>>
vars == <<msg, pc, walk, handled, answer>>

Misread == <<0, 0>>
NoAnswer == [nums |-> 0, sent |-> 0]

TypeOK ==
    /\ msg \in Messages
    /\ pc \in {"recv", "outer", "inner", "next", "crashed"}
    /\ \A x \in {at, data_len, sub_at, sub_len} : x \in Nat
    /\ value_len \in {0} \cup Lengths \cup {Value(e) : e \in Elements}
    /\ handled \in Seq((0..MaxElements) \X (0..MaxCommands))
    /\ answer \in [nums : 0..2, sent : Nat]

Init ==
    /\ msg \in {m \in Messages : Len(m) = 1}
    /\ pc = "recv"
    /\ at = 0 /\ data_len = 0 /\ sub_at = 0 /\ sub_len = 0 /\ value_len = 0
    /\ handled = <<>> /\ answer = NoAnswer

-----------------------------------------------------------------------------
(* Deliberately wrong variant: control_cmd_data_len keeps its value.       *)
ResetHalf == data_len' = 0 /\ UNCHANGED sub_len

ResetOffsets == data_len' = 0 /\ sub_len' = 0

(* control_cmd_tmp and value_len are assigned before they are read again.  *)
Receive ==
    /\ pc = "recv"
    /\ msg' \in Messages /\ Length(msg') <= MaxBuffer
    /\ ResetOffsets
    /\ at' = 0 /\ handled' = <<>> /\ UNCHANGED answer
    /\ sub_at' = 0 /\ value_len' = 0
    /\ pc' = "outer"

(* Misread parts that follow each other count as one.                      *)
Handle(w) ==
    handled' = IF w = Misread /\ handled # <<>> /\ Last(handled) = Misread
                 THEN handled ELSE Append(handled, w)

Outside(p, size) == p + size > MaxBuffer

(* Only the value of a remote control element is read next to its header;  *)
(* the others are read at data_len, which counts the elements before, too. *)
(* The program_id of a keepalive picks the name that line 698 prints.      *)
HandleElement(n, type) ==
    LET right == n # 0 /\ (type = "remote" \/ data_len = 0)
        from  == IF type = "remote" THEN at + Header
                                    ELSE at + data_len + Header
    IN  \/ Handle(IF right THEN <<n, 0>> ELSE Misread) /\ pc' = "next"
        \/ /\ ~right
           /\ type = "keepalive" \/ Outside(from, ElementSize[type])
           /\ pc' = "crashed" /\ UNCHANGED handled

Element(n, type, len) ==
    /\ value_len' = len
    /\ data_len' = data_len + Header
    /\ CASE type = "control" ->
              /\ sub_at' = at + data_len + Header
              /\ pc' = "inner" /\ UNCHANGED handled
         [] type \in Plain -> HandleElement(n, type) /\ UNCHANGED sub_at
         [] type = "unknown" ->
              pc' = "recv" /\ UNCHANGED <<sub_at, handled>>
    /\ UNCHANGED <<msg, at, sub_len, answer>>

Here == {n \in DOMAIN msg : ElementStart(msg, n) = at}

Outer ==
    /\ pc = "outer" /\ data_len < Length(msg)
    /\ \/ \E n \in Here : Element(n, msg[n].type, Value(msg[n]))
       \/ /\ Here = {}
          /\ \E type \in Plain \cup {"control", "unknown"}, len \in Lengths :
               Element(0, type, len)

OuterDone ==
    /\ pc = "outer" /\ data_len >= Length(msg)
    /\ pc' = "recv"
    /\ UNCHANGED <<msg, walk, handled, answer>>

(* Deliberately wrong variant: the last record is not counted.             *)
AnswerShort(n) == 2 + (n - 1) * Record

(* daemon_data_send: the count and n records; buffer_len leaves the header *)
(* out, so that many bytes of the end are not sent.                        *)
AnswerBytes(n) == 2 + n * Record

(* Deliberately wrong variant: the step forward leaves out the header.     *)
AdvanceOne(len) == sub_len' = sub_len + Header + len /\ sub_at' = sub_at + len

(* sub_len is the sum of all commands so far, and sub_at moves by it.      *)
Advance(len) ==
    sub_len' = sub_len + Header + len /\ sub_at' = sub_at + sub_len'

(* DAEMON_GETINFO, of one program or of all, or another command.           *)
Act(w, len) ==
    /\ Handle(w)
    /\ answer' \in {NoAnswer} \cup
                      {[nums |-> n, sent |-> AnswerBytes(n)] : n \in 1..2}
    /\ Advance(len)
    /\ UNCHANGED <<pc, msg, at, data_len, value_len>>

CommandsHere ==
    {w \in (DOMAIN msg) \X (1..MaxCommands) :
        /\ w[2] <= msg[w[1]].cmds
        /\ CommandStart(msg, w[1], w[2]) = sub_at}

Inner ==
    /\ pc = "inner" /\ sub_len < value_len
    /\ \/ \E w \in CommandsHere : Act(w, CommandSize)
       \/ CommandsHere = {} /\ \E len \in Lengths : Act(Misread, len)

(* The end of the value, or a program that is none: break.                 *)
InnerDone ==
    /\ pc = "inner"
    /\ \/ sub_len >= value_len /\ UNCHANGED sub_len
       \/ /\ sub_len < value_len /\ CommandsHere = {}
          /\ sub_len' = sub_len + Header
    /\ pc' = "next" /\ answer' = NoAnswer
    /\ UNCHANGED <<msg, at, data_len, sub_at, value_len, handled>>


(* data_len is the sum of all elements so far, and at moves by it.         *)
NextElement ==
    /\ pc = "next"
    /\ data_len' = data_len + value_len
    /\ at' = at + data_len'
    /\ pc' = "outer"
    /\ UNCHANGED <<msg, sub_at, sub_len, value_len, handled, answer>>

(* A pointer has left buff: what it points to may not be there to read.    *)
ReadOutside ==
    /\ \/ pc = "outer" /\ data_len < Length(msg) /\ Outside(at, Header)
       \/ pc = "inner" /\ sub_len < value_len /\ Outside(sub_at, CommandBytes)
    /\ pc' = "crashed"
    /\ UNCHANGED <<msg, walk, handled, answer>>

Walk ==
    Outer \/ OuterDone \/ Inner \/ InnerDone \/ NextElement \/ ReadOutside

Next == Receive \/ Walk

Spec == Init /\ [][Next]_vars

FairSpec == Spec /\ WF_vars(Walk)

-----------------------------------------------------------------------------
(* What the first element of a message asks for, in order; a control       *)
(* element as many times as it has commands.                               *)
Asked(m) == IF m[1].type = "control"
              THEN [j \in 1..m[1].cmds |-> <<1, j>>]
              ELSE <<<<1, 0>>>>

FirstTwo(s) == SubSeq(s, 1, IF Len(s) < 2 THEN Len(s) ELSE 2)

Walked == pc = "recv" /\ data_len > 0

(* The first element of every message, and the first two commands in it,   *)
(* are acted on, in order and before anything else, although both walks    *)
(* move on by the sum of all lengths instead of the last one, and whatever *)
(* the messages before were (lines 531-533, 572-576, 680-681, 754-755).    *)
FirstHandled == Walked => IsPrefix(FirstTwo(Asked(msg)), handled)

(* A message of one element with at most two commands, like those that the *)
(* updater sends (updater.c, lines 830-864).                               *)
Simple == Len(msg) = 1 /\ msg[1].cmds <= 2

(* A simple message is carried out exactly: never twice, nothing else with *)
(* it.                                                                     *)
SimpleExact == Walked /\ Simple => handled = Asked(msg)

(* The answer to DAEMON_GETINFO fits its buffer, and the bytes that are    *)
(* cut off because the header is not counted hold nothing that was filled  *)
(* in (lines 468-484).                                                     *)
AnswerComplete ==
    answer # NoAnswer =>
        LET whole == Header + 2 + answer.nums * Record
        IN  whole - Unset <= answer.sent /\ whole <= MaxBuffer

=============================================================================
