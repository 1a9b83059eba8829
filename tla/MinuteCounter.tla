--------------------------- MODULE MinuteCounter ---------------------------
(***************************************************************************)
(* The minutes of yinkad (yinkad.c, lines 838-874): main counts the passes *)
(* of its loop and takes 60/delay of them for a minute, then counts down   *)
(* the allowance of the input devices.  SIGHUP ends a sleep early, counts  *)
(* as a full pass and may change the delay in the middle of a minute.      *)
(*                                                                         *)
(* Time is the time slept, in seconds; what a pass of the loop takes comes *)
(* on top.  The races on the allowance are the subject of XinputGate; the  *)
(* allowance of remote control is counted in the same way.                 *)
(***************************************************************************)
EXTENDS Integers, FiniteSetsExt

CONSTANTS
    Minute,     \* the 60 of line 869
    Delays,     \* what the configuration may say; 0 if it has never been read
    MaxMinutes  \* bound of the model: the longest allowance granted

MinuteCounterAssumption ==
    /\ Minute \in Nat \ {0}
    /\ Delays \subseteq Nat /\ Delays # {}
    /\ MaxMinutes \in Nat \ {0}

VARIABLES
    pc,              \* main: "pass", "sleep", "count" or "crashed"
    delay,           \* g_daemon_config->delay
    per_minute_cnt,
    slept,           \* seconds since sleep was called
    allowed, remain, \* g_xinput_state: is_enable, enable_remain_time
    since,           \* history: seconds slept since the last minute,
    granted, age,    \* the allowance granted last and the seconds since,
    reloaded         \* and which of the two a reload has disturbed

clock   == <<pc, delay, per_minute_cnt, slept>>
history == <<since, granted, age, reloaded>>
state   == <<allowed, remain>>
vars    == <<clock, state, history>>

(* The whole number of passes of d seconds that comes closest to a minute  *)
(* from below, but one at least, lies between these.                       *)
Shortest(d) == IF d > Minute THEN d ELSE Minute - d + 1
Longest(d)  == Max({Minute, d})

TypeOK ==
    /\ pc \in {"pass", "sleep", "count", "crashed"}
    /\ delay \in Delays
    /\ per_minute_cnt \in 0..Minute
    /\ slept \in 0..delay
    /\ allowed \in BOOLEAN
    /\ remain \in 0..MaxMinutes
    /\ granted \in 0..MaxMinutes
    /\ since \in 0..Longest(delay)
    /\ age \in 0..(MaxMinutes * Max(Delays \cup {Minute}))
    /\ reloaded \subseteq {"minute", "allowance"}

Init ==
    /\ pc = "pass" /\ delay \in Delays
    /\ per_minute_cnt = 0 /\ slept = 0
    /\ allowed = FALSE /\ remain = 0
    /\ since = 0 /\ granted = 0 /\ age = 0 /\ reloaded = {}

-----------------------------------------------------------------------------
(* process_monitor and process_keepalive, then the call of sleep.          *)
Pass ==
    /\ pc = "pass"
    /\ pc' = "sleep" /\ slept' = 0
    /\ UNCHANGED <<delay, per_minute_cnt, state, history>>

(* A second of sleep; the histories stop when they mean nothing.           *)
Second ==
    /\ pc = "sleep" /\ slept < delay
    /\ slept' = slept + 1
    /\ since' = IF "minute" \in reloaded THEN since ELSE since + 1
    /\ age' = IF ~allowed \/ "allowance" \in reloaded THEN age ELSE age + 1
    /\ UNCHANGED <<pc, delay, per_minute_cnt, state, granted, reloaded>>

Wake ==
    /\ pc = "sleep" /\ slept = delay
    /\ pc' = "count" /\ slept' = 0
    /\ UNCHANGED <<delay, per_minute_cnt, state, history>>

(* Deliberately wrong variant: one pass too many makes a minute.           *)
PassesMore(d) == IF d = 0 THEN 0 ELSE Minute \div d + 1

(* 60/delay; what a division by zero gives is not defined by C: a trap, or *)
(* 0 on the board's processor.                                             *)
Passes(d) == IF d = 0 THEN 0 ELSE Minute \div d

(* Deliberately wrong variant: the allowance goes on at zero.              *)
ExpiredLate(r) == r < 0

Expired(r) == r <= 0

(* check_xinput_remaintimes                                                *)
Minutes ==
    /\ since' = 0 /\ reloaded' = reloaded \ {"minute"}
    /\ IF allowed /\ ~Expired(remain - 1)
         THEN remain' = remain - 1 /\ UNCHANGED <<allowed, granted, age>>
         ELSE allowed' = FALSE /\ remain' = 0 /\ granted' = 0 /\ age' = 0

Count ==
    /\ pc = "count" /\ pc' = "pass"
    /\ IF per_minute_cnt + 1 >= Passes(delay)
         THEN per_minute_cnt' = 0 /\ Minutes
         ELSE /\ per_minute_cnt' = per_minute_cnt + 1
              /\ UNCHANGED <<state, history>>
    /\ UNCHANGED <<delay, slept>>

DivideByZero ==
    /\ pc = "count" /\ delay = 0
    /\ pc' = "crashed"
    /\ UNCHANGED <<delay, per_minute_cnt, slept, state, history>>

(* SIGHUP: the delay of the file, or the old one if it cannot be opened.   *)
Reload ==
    /\ pc # "crashed"
    /\ delay' \in Delays
    /\ pc' = IF pc = "sleep" THEN "count" ELSE pc
    /\ slept' = 0
    /\ reloaded' = {"minute", "allowance"}
    /\ since' = 0 /\ age' = 0
    /\ UNCHANGED <<per_minute_cnt, state, granted>>

(* The datagram thread grants m minutes, anew if need be.                  *)
Grant(m) ==
    /\ pc # "crashed"
    /\ allowed' = TRUE /\ remain' = m /\ granted' = m /\ age' = 0
    /\ reloaded' = reloaded \ {"allowance"}
    /\ UNCHANGED <<clock, since>>

Next ==
    \/ Pass \/ Second \/ Wake \/ Count \/ DivideByZero
    \/ Reload
    \/ \E m \in 1..MaxMinutes : Grant(m)

Spec == Init /\ [][Next]_vars

-----------------------------------------------------------------------------
(* A minute that no reload falls into is less than one delay short of 60   *)
(* seconds, and longer only if the delay is, whatever 60/delay rounds off  *)
(* and an earlier reload has left in the counter (lines 867-870).          *)
MinuteLength ==
    [][ pc = "count" /\ per_minute_cnt' = 0 /\ delay > 0 /\ pc' = "pass"
        /\ "minute" \notin reloaded
          => since \in Shortest(delay)..Longest(delay) ]_vars

(* Devices allowed for m minutes are denied when between m - 1 and m such  *)
(* minutes have passed, wherever in a minute the command came and however  *)
(* often they were allowed before (lines 331-342, 869).                    *)
AllowanceLength ==
    [][ pc = "count" /\ allowed /\ ~allowed' /\ delay > 0
        /\ "allowance" \notin reloaded
          => age \in ((granted - 1) * Shortest(delay))
                       ..(granted * Longest(delay)) ]_vars
=============================================================================
