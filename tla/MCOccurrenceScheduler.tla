------------------------- MODULE MCOccurrenceScheduler -------------------------
(* Instances of OccurrenceScheduler for TLC.  The clock shows even times and  *)
(* cron names odd ones: a pass never begins exactly on a window, as the real *)
(* clock has microseconds and cron has not.                                 *)
EXTENDS OccurrenceScheduler

CONSTANTS t1, t2, s1, p1, p2

SameSession == [t \in Tasks |-> s1]

Cron(hits)   == [kind |-> "cron", hits |-> hits, every |-> 0]
Interval(n)  == [kind |-> "interval", hits |-> {}, every |-> n]
Once(h)      == [kind |-> "once", hits |-> {h}, every |-> 0]

(* A cron task, and one that is changed between two schedules. *)
Mixed == [t \in Tasks |-> IF t = t1 THEN {Cron({1, 3, 5, 7})} ELSE {Once(3), Interval(2)}]
CronOnly == [t \in Tasks |-> {Cron({1, 3, 5, 7})}]

At(crash, boot, request) ==
    [what \in {"crash", "boot", "request"} |->
       CASE what = "crash" -> crash [] what = "boot" -> boot [] OTHER -> request]
OneOfEach == At(1, 1, 1)
Crashes == At(1, 0, 0)
Requests == At(0, 0, 1)
Quiet == At(0, 0, 0)
=============================================================================
