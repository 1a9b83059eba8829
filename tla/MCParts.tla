------------------------------ MODULE MCParts -------------------------------
(* TLC instances of the parts that work by themselves: the reader of the   *)
(* configuration, the climb over the process tree, the minutes of yinkad,  *)
(* MD5 and the parse of update.xml.  A behaviour is one of one of them.    *)
EXTENDS Integers, SequencesExt

CONSTANTS
    Files, Gone, Versions, MaxEdits,       \* of Config
    Others, Yinkad,                        \* of ProcessTree
    Minute, Delays, MaxMinutes,            \* of MinuteCounter
    Block, Word, ReadSizes, MaxBytes,      \* of Md5
    Documents, Locals                      \* of UpdateXml

VARIABLES
    part,    \* the part that runs; the variables of the others stay "off"
    file, config, configPc, seen, old,
    parent, name, alive, program, treePc, treeCur, below, target, parent0,
    minutePc, delay, per_minute_cnt, slept, allowed, remain, since, granted,
    age, reloaded,
    size, length, pos, ctx, md5Pc,
    doc, local, force, xmlPc, xmlCur, field, type, packs, item, ran, restarts

Conf == INSTANCE Config WITH pc <- configPc
Tree == INSTANCE ProcessTree WITH pc <- treePc, cur <- treeCur
Mins == INSTANCE MinuteCounter WITH pc <- minutePc
Md5  == INSTANCE Md5 WITH pc <- md5Pc
Xml  == INSTANCE UpdateXml WITH pc <- xmlPc, cur <- xmlCur

Parts == {"config", "tree", "minutes", "md5", "xml"}

ASSUME PartsAssumption ==
    /\ Conf!ConfigAssumption
    /\ Tree!ProcessTreeAssumption
    /\ Mins!MinuteCounterAssumption
    /\ Md5!Md5Assumption
    /\ Xml!UpdateXmlAssumption

(* The variables of a part that does not run.                              *)
ConfOff ==
    /\ file = "off" /\ config = "off" /\ configPc = "off" /\ seen = "off"
    /\ old = "off"

TreeOff ==
    /\ parent = "off" /\ name = "off" /\ alive = "off" /\ program = "off"
    /\ treePc = "off" /\ treeCur = "off" /\ below = "off" /\ target = "off"
    /\ parent0 = "off"

MinsOff ==
    /\ minutePc = "off" /\ delay = "off" /\ per_minute_cnt = "off"
    /\ slept = "off" /\ allowed = "off" /\ remain = "off" /\ since = "off"
    /\ granted = "off" /\ age = "off" /\ reloaded = "off"

Md5Off ==
    /\ size = "off" /\ length = "off" /\ pos = "off" /\ ctx = "off"
    /\ md5Pc = "off"

XmlOff ==
    /\ doc = "off" /\ local = "off" /\ force = "off" /\ xmlPc = "off"
    /\ xmlCur = "off" /\ field = "off" /\ type = "off" /\ packs = "off"
    /\ item = "off" /\ ran = "off" /\ restarts = "off"

Init ==
    \/ /\ part = "config" /\ Conf!Init
       /\ TreeOff /\ MinsOff /\ Md5Off /\ XmlOff
    \/ /\ part = "tree" /\ Tree!Init
       /\ ConfOff /\ MinsOff /\ Md5Off /\ XmlOff
    \/ /\ part = "minutes" /\ Mins!Init
       /\ ConfOff /\ TreeOff /\ Md5Off /\ XmlOff
    \/ /\ part = "md5" /\ Md5!Init
       /\ ConfOff /\ TreeOff /\ MinsOff /\ XmlOff
    \/ /\ part = "xml" /\ Xml!Init
       /\ ConfOff /\ TreeOff /\ MinsOff /\ Md5Off

confVars == <<file, config, configPc, seen, old>>
treeVars == <<parent, name, alive, program, treePc, treeCur, below,
              target, parent0>>
minsVars == <<minutePc, delay, per_minute_cnt, slept, allowed, remain,
              since, granted, age, reloaded>>
md5Vars == <<size, length, pos, ctx, md5Pc>>
xmlVars == <<doc, local, force, xmlPc, xmlCur, field, type, packs, item,
             ran, restarts>>
vars == <<part, confVars, treeVars, minsVars, md5Vars, xmlVars>>

ConfStep ==
    /\ part = "config" /\ Conf!Next
    /\ UNCHANGED <<part, treeVars, minsVars, md5Vars, xmlVars>>

TreeStep ==
    /\ part = "tree" /\ Tree!Next
    /\ UNCHANGED <<part, confVars, minsVars, md5Vars, xmlVars>>

MinutesStep ==
    /\ part = "minutes" /\ Mins!Next
    /\ UNCHANGED <<part, confVars, treeVars, md5Vars, xmlVars>>

Md5Step ==
    /\ part = "md5" /\ Md5!Next
    /\ UNCHANGED <<part, confVars, treeVars, minsVars, xmlVars>>

XmlStep ==
    /\ part = "xml" /\ Xml!Next
    /\ UNCHANGED <<part, confVars, treeVars, minsVars, md5Vars>>

Next == ConfStep \/ TreeStep \/ MinutesStep \/ Md5Step \/ XmlStep

Spec == Init /\ [][Next]_vars

-----------------------------------------------------------------------------
(* The contents of the configuration file: every file of up to four lines, *)
(* and the versions of one that is being edited.                           *)
Section(s)   == [kind |-> "section", name |-> s]
Pair(key, v) == [kind |-> "pair", name |-> key, value |-> v]
Other        == [kind |-> "other", name |-> ""]

Lines ==
    {Section("General Sets"), Section("program"), Other,
     Pair("delay", "ten"), Pair("delay", ""),
     Pair("program_name", "new"), Pair("program_name", "newer"),
     Pair("switch", "on"), Pair("switch", "off"),
     Pair("cmdline", "new")}

Whole(d, n, s) ==
    <<Section("General Sets"), Pair("delay", d),
      Section("program"), Pair("program_name", n),
      Pair("switch", s), Pair("cmdline", n)>>

GoneFile == <<[kind |-> "gone", name |-> ""]>>

EditedFiles ==
    {Whole(d, n, s) : d \in {"ten", "five"}, n \in {"new", "newer"},
                      s \in {"on", "off"}}
    \cup {SubSeq(Whole("ten", "new", "off"), 1, n) : n \in {0, 3, 4, 5}}
    \cup {GoneFile}

AllFiles == BoundedSeq(Lines, 4) \cup EditedFiles

(* Lines of up to four processes.                                          *)
ThreeOthers == 4..6

(* No delay, the default, one that does not divide the minute and one that *)
(* exceeds it.                                                             *)
SomeDelays == {0, 1, 25, 90}

(* Pieces shorter and longer than a block, and whole numbers of blocks as  *)
(* in the code.                                                            *)
SomeSizes == {3, 8, 13, 16}

(* Every document of an element with up to two children and one with up to *)
(* one, and of three with up to one.                                       *)
Field(f, v) == [field |-> f, value |-> v]

SomeFields ==
    {Field("updatestate", "true"), Field("updatestate", "false"),
     Field("version", "1"), Field("version", "no text"),
     Field("other", "no text"), Field("other", "name"),
     Field("updatecmd", "command"), Field("updatecmd", "another")}
FewFields ==
    {Field("updatestate", "true"), Field("version", "1"),
     Field("updatecmd", "command")}

Player == 1
Debian == 3
NoItem == 4

Elements(F, l) ==
    {[name |-> n, fields |-> s] :
        n \in {Player, Debian, NoItem},
        s \in BoundedSeq(F, l)}

SomeDocuments ==
    {<<e1, e2>> : e1 \in Elements(SomeFields, 2),
                  e2 \in Elements(SomeFields, 1)}
        \cup BoundedSeq(Elements(FewFields, 1), 3)

SomeLocals == {[t \in 0..3 |-> ""], [t \in 0..3 |-> "1"]}

-----------------------------------------------------------------------------
(* What the run checks is stated, with the code it is about, in the module *)
(* of each part, and holds as long as that part is off.                    *)

(* A configuration file is taken for what it says, one that is edited for  *)
(* what its versions say (config_read.c, yinkad.c, 61-129).                *)
LoadExact == Conf!LoadExact

(* What is signalled for a program is it or an ancestor of it, below init, *)
(* yinkad and any shell (yinkad.c, 154-233).                               *)
SignalsOwnLine == Tree!SignalsOwnLine

(* A program of the desktop session is signalled with all its family       *)
(* (yinkad.c, 188-202).                                                    *)
TakesWholeFamily == part = "tree" => Tree!TakesWholeFamily

(* A minute lasts nearly 60 seconds, or one delay (yinkad.c, 867-870).     *)
MinuteLength == Mins!MinuteLength

(* The devices stay allowed for the minutes granted, or for one less       *)
(* (yinkad.c, 331-342, 869).                                               *)
AllowanceLength == Mins!AllowanceLength

(* MD5 absorbs the padded message that the standard defines (md5.c).       *)
AbsorbsMessage == Md5!AbsorbsMessage

(* What is run is what update.xml asks for (updater.c, 380-465, 644-671).  *)
RunsExact == Xml!RunsExact
=============================================================================
