------------------------------- MODULE Config -------------------------------
(***************************************************************************)
(* How yinkad reads its configuration: conf_read (config_read.c, lines     *)
(* 27-140) scans the file for a key of a section, read_conf_file           *)
(* (yinkad.c, lines 61-129) calls it for one key after the other, opening  *)
(* the file anew each time, while an editor may be saving it.              *)
(*                                                                         *)
(* A line is what the scan tells apart: a section, a pair, or something    *)
(* else (a comment, an empty line, a line without "=").  A value stands    *)
(* for what is left of it without the blanks around it; "" is one with     *)
(* nothing after the "=".  Lines that exceed the buffers are left out, and *)
(* one program stands for all: the next ones are read in the same way.     *)
(***************************************************************************)
EXTENDS Integers, SequencesExt

CONSTANTS
    Files,         \* the contents the file may have
    Gone,          \* there is no such file
    Versions,      \* bounds of the model: those among them that are edited
    MaxEdits       \* into one another, and how often during a load

ConfigAssumption ==
    /\ Gone \in Files /\ Versions \subseteq Files
    /\ \A f \in Files : f \in Seq(Range(f))    \* its lines
    /\ MaxEdits \in Nat

VARIABLES
    file,     \* the configuration file
    config,   \* g_daemon_config: delay, and program_name, dameon_switch and
              \* cmdline of the program
    pc,       \* read_conf_file: "open", the key it reads next, or "done"
    seen,     \* history: what the file has been during the load
    old       \* history: what config was before it

vars == <<file, config, pc, seen, old>>

DEFAULT_DELAY == 1
Numbers == [ten |-> 10, five |-> 5]

(* atoi                                                                    *)
Atoi(v) == IF v \in DOMAIN Numbers THEN Numbers[v] ELSE 0

Section(s)   == [kind |-> "section", name |-> s]
Pair(key, v) == [kind |-> "pair", name |-> key, value |-> v]
Other        == [kind |-> "other", name |-> ""]

NotFound == [found |-> FALSE]
Found(v) == [found |-> TRUE, value |-> v]

-----------------------------------------------------------------------------
(* conf_read: found is 0 before the section, 1 in it, 2 at the key, and 3  *)
(* after the section without it.                                           *)

(* Deliberately wrong variant: a section does not end.                     *)
ScanOn(app, key, acc, line) ==
    CASE acc.found = 0 /\ line = Section(app) -> [acc EXCEPT !.found = 1]
      [] acc.found = 1 /\ line.kind = "pair" /\ line.name = key
           -> [found |-> 2, value |-> line.value]
      [] OTHER -> acc

Scan(app, key, acc, line) ==
    CASE acc.found = 0 /\ line = Section(app) -> [acc EXCEPT !.found = 1]
      [] acc.found = 1 /\ line.kind = "section" -> [acc EXCEPT !.found = 3]
      [] acc.found = 1 /\ line.kind = "pair" /\ line.name = key
           -> [found |-> 2, value |-> line.value]
      [] OTHER -> acc

ConfRead(app, key) ==
    IF file = Gone THEN NotFound
    ELSE LET scan[n \in 0..Len(file)] ==
                 IF n = 0 THEN [found |-> 0, value |-> ""]
                          ELSE Scan(app, key, scan[n - 1], file[n])
             r == scan[Len(file)]
         IN  IF r.found = 2 THEN Found(r.value) ELSE NotFound

-----------------------------------------------------------------------------
NoConfig == [delay |-> 0, name |-> "", switch |-> FALSE, cmdline |-> ""]

(* The first load, or a reload of something loaded before.                 *)
Loaded == [delay |-> 5, name |-> "old", switch |-> FALSE, cmdline |-> "old"]

TypeOK ==
    /\ file \in Files
    /\ config.delay \in {0, DEFAULT_DELAY, 5, 10}
    /\ config.switch \in BOOLEAN
    /\ pc \in {"open", "delay", "name", "switch", "cmdline", "done"}
    /\ seen \subseteq Files /\ file \in seen
    /\ old \in {NoConfig, Loaded}

Init ==
    /\ file \in Files
    /\ config \in {NoConfig, Loaded}
    /\ pc = "open"
    /\ seen = {file} /\ old = config

Goto(l) == pc' = l /\ UNCHANGED <<file, seen, old>>

Open ==
    /\ pc = "open"
    /\ Goto(IF file = Gone THEN "done" ELSE "delay")
    /\ UNCHANGED config

ReadDelay ==
    LET r == ConfRead("General Sets", "delay")
    IN  /\ pc = "delay"
        /\ config' = [config EXCEPT !.delay =
                        IF r.found THEN Atoi(r.value) ELSE DEFAULT_DELAY]
        /\ Goto("name")

(* Without a name, the program keeps what it had.                          *)
ReadName ==
    LET r == ConfRead("program", "program_name")
    IN  /\ pc = "name"
        /\ IF r.found
             THEN config' = [config EXCEPT !.name = r.value] /\ Goto("switch")
             ELSE UNCHANGED config /\ Goto("done")

(* On unless the file says something other than "on".                      *)
ReadSwitch ==
    LET r == ConfRead("program", "switch")
    IN  /\ pc = "switch"
        /\ config' = [config EXCEPT !.switch = r.found => r.value = "on"]
        /\ Goto("cmdline")

ReadCmdline ==
    LET r == ConfRead("program", "cmdline")
    IN  /\ pc = "cmdline"
        /\ config' = [config EXCEPT !.cmdline =
                        IF r.found THEN r.value ELSE config.cmdline]
        /\ Goto("done")

Load == Open \/ ReadDelay \/ ReadName \/ ReadSwitch \/ ReadCmdline

(* The file is saved, renamed or removed.                                  *)
Edit ==
    /\ pc # "done" /\ Cardinality(seen) <= MaxEdits
    /\ file \in Versions /\ file' \in Versions \ seen
    /\ seen' = seen \cup {file'}
    /\ UNCHANGED <<config, pc, old>>

Next == Load \/ Edit

Spec == Init /\ [][Next]_vars

-----------------------------------------------------------------------------
(* What a file says, without reference to a scan: a key counts if it is in *)
(* the first section of that name and is the first of its name there.      *)
Says(f, app, key) ==
    {f[i].value : i \in {n \in DOMAIN f :
        /\ f[n].kind = "pair" /\ f[n].name = key
        /\ \E s \in 1..(n - 1) :
             /\ f[s] = Section(app)
             /\ \A k \in 1..(s - 1) : f[k] # Section(app)
             /\ \A k \in (s + 1)..(n - 1) :
                  f[k].kind # "section" /\ ~(f[k].kind = "pair" /\
                                             f[k].name = key)}}

OneOf(S, default) == IF S = {} THEN default ELSE CHOOSE v \in S : TRUE

Named(f) == Says(f, "program", "program_name") # {}

Meaning(f, was) ==
    LET S(key) == Says(f, "program", key)
        d == Says(f, "General Sets", "delay")
    IN  IF f = Gone THEN was
        ELSE [delay   |-> IF d = {} THEN DEFAULT_DELAY
                                    ELSE Atoi(OneOf(d, "")),
              name    |-> OneOf(S("program_name"), was.name),
              switch  |-> IF Named(f) THEN OneOf(S("switch"), "on") = "on"
                                      ELSE was.switch,
              cmdline |-> IF Named(f) THEN OneOf(S("cmdline"), was.cmdline)
                                      ELSE was.cmdline]

(* A file that nobody touches during the load is taken for what it says,   *)
(* whatever else is in it.  A load during which it is edited may mix what  *)
(* its versions say, but every value is one that some version says, if     *)
(* each version is there and names the program; otherwise a switch that is *)
(* off in all of them may be turned on (config_read.c, 82-133; yinkad.c,   *)
(* 73-126).                                                                *)
LoadExact ==
    pc = "done" =>
        /\ seen = {file} => config = Meaning(file, old)
        /\ (\A f \in seen : f # Gone /\ Named(f)) =>
             \A field \in {"delay", "name", "switch", "cmdline"} :
                 config[field] \in {Meaning(f, old)[field] : f \in seen}
=============================================================================
