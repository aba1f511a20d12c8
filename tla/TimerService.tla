------------------------------- MODULE TimerService -------------------------------
(***************************************************************************)
(* What the software timers promise, with ideal time: every timer that is  *)
(* armed counts down, is called once when its count is over, no later than *)
(* Late ticks after that and no earlier than Margin ticks before, and what *)
(* its callback answers happens to that timer and to no other. SoftTimer   *)
(* shows the table of blt_soft_timer.c to implement it.                    *)
(***************************************************************************)
EXTENDS Integers

CONSTANTS Callback,     \* the functions that are called back
          Interval,     \* what each is started with, in ticks
          Outcome,      \* what each does when called: [result, starts], with the
                        \* other timer that it starts, or NONE
          Resets,       \* callbacks that restart the chip
          Margin,       \* BLT_TIMER_SAFE_MARGIN_PRE
          Late,         \* how late a callback may come
          NONE

VARIABLES left,         \* how many ticks each timer has left, NONE if not armed
          period        \* and how many it gets when its callback returns 0

Armed(c) == left[c] # NONE

Init == /\ left = [c \in Callback |-> NONE]
        /\ period = [c \in Callback |-> NONE]

(* Timer c starts, or starts again.                                        *)
Start(c) == /\ left' = [left EXCEPT ![c] = Interval[c]]
            /\ period' = [period EXCEPT ![c] = Interval[c]]

Delete(c) == /\ left' = [left EXCEPT ![c] = NONE]
             /\ period' = [period EXCEPT ![c] = NONE]

(* c is called when its count is over. Below 0 its answer is the end of    *)
(* it, 0 the same interval again, above 0 a new interval; these count from *)
(* the begin of the turn, up to one tick ago. It may start another.         *)
Call(c) ==
    /\ Armed(c) /\ left[c] <= Margin /\ left[c] > -Late
    /\ \E o \in Outcome[c], ago \in {0, 1} :
          LET again == IF o.result = 0 THEN period[c] ELSE o.result
          IN  /\ left' = [d \in Callback |->
                    CASE c \in Resets -> NONE
                      [] c \notin Resets /\ d = o.starts -> Interval[d]
                      [] c \notin Resets /\ d = c ->
                             IF o.result < 0 THEN NONE ELSE again - ago
                      [] OTHER -> left[d]]
              /\ period' = [d \in Callback |->
                    CASE c \in Resets -> NONE
                      [] c \notin Resets /\ d = o.starts -> Interval[d]
                      [] c \notin Resets /\ d = c -> IF o.result < 0 THEN NONE ELSE again
                      [] OTHER -> period[d]]

(* Time passes, but not for a timer that would then be too late.           *)
Tick == /\ \A c \in Callback : Armed(c) => left[c] > 1 - Late
        /\ left' = [c \in Callback |-> IF Armed(c) THEN left[c] - 1 ELSE NONE]
        /\ UNCHANGED period

Next == \/ \E c \in Callback : Start(c) \/ Delete(c) \/ Call(c)
        \/ Tick

Safety == Init /\ [][Next]_<<left, period>>

===============================================================================
