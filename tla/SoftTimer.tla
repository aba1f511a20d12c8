--------------------------------- MODULE SoftTimer ---------------------------------
(***************************************************************************)
(* blt_soft_timer.c and the timers of ty_broad.c: a table of timers sorted *)
(* by the time they are due on a clock that wraps. The main loop walks the *)
(* table every 500 microseconds; a callback may start another timer, which *)
(* sorts the table in the middle of the walk, and the entry of the timer   *)
(* called is then found by the index it had before.                        *)
(*                                                                         *)
(* The clock is read when a walk begins and when a timer starts. It        *)
(* advances between any two steps, once for each time the main loop comes  *)
(* round: a turn is taken to be shorter than a tick. The wake-up from      *)
(* suspend, which this program does not use, is left out.                  *)
(***************************************************************************)
EXTENDS Integers, Sequences, FiniteSets

CONSTANTS Callback, Interval, Outcome, Resets, NoTimer,
          Wrap,         \* the clock counts modulo Wrap, 2^32
          Pre,          \* BLT_TIMER_SAFE_MARGIN_PRE
          Post,         \* BLT_TIMER_SAFE_MARGIN_POST
          MAX_TIMER_NUM,
          Late,         \* bound on how late a callback comes, see TimerService
          MaxStarts     \* bound on the starts from outside

Window == Wrap \div 4     \* BIT(30)

(* An interval is longer than the margin and does not reach the window of  *)
(* the comparison. A walk serves at least the first of the timers that are *)
(* due, so that none waits for more walks than the table has places, and   *)
(* the margin for late ones is wide enough for that. There is a place for  *)
(* every callback, and a callback starts one other timer at most.          *)
IntervalOK(i) == i \in Nat /\ Pre < i /\ i + Late < Window

ASSUME TimerAssumption ==
    /\ Wrap \in Nat \ {0} /\ Wrap % 4 = 0
    /\ Pre \in Nat /\ Post \in Nat /\ Late \in Nat /\ MaxStarts \in Nat
    /\ MAX_TIMER_NUM \in Nat \ {0} /\ MAX_TIMER_NUM < Pre + Late
    /\ Pre + Late <= Post /\ Post < Wrap - Window
    /\ IsFiniteSet(Callback) /\ Cardinality(Callback) <= MAX_TIMER_NUM
    /\ \A c \in Callback : IntervalOK(Interval[c]) /\ Outcome[c] # {}
    /\ \A c \in Callback : \A o \in Outcome[c] :
          /\ o.result \in Int /\ (o.result > 0 => IntervalOK(o.result))
          /\ o.starts \in (Callback \ {c}) \union {NoTimer}
    /\ NoTimer \notin Callback /\ NoTimer \notin Int
    /\ NoTimer \notin [i : Nat, now : Nat, change_flg : BOOLEAN]

VARIABLES timer,      \* blt_timer.timer, its length is currentNum
          clock,      \* clock_time()
          walk,       \* index, now and change_flg of the walk, or NoTimer
          served,     \* the main loop came round since the clock advanced
          starts      \* how many starts from outside there were

timerVars == <<timer, clock, walk, served, starts>>

(* Arithmetic of the clock. Some operators are preceded by faulty forms.   *)
Plus(t, d) == (t + d) % Wrap
Minus(t, d) == (t - d) % Wrap

Entry(cb, now, interval) == [cb |-> cb, t |-> Plus(now, interval), interval |-> interval]

BiggerWithoutWrap(t1, t2) == t1 > t2
TIME_COMPARE_BIG(t1, t2) == Minus(t1, t2) < Window

ExpiredWithoutWrap(t, now) == t <= Plus(now, Pre)
blt_is_timer_expired(t, now) == Minus(Plus(now, Pre), t) < Post

(* The bubble sort: two neighbours, one pass over the first n entries, and *)
(* a pass over all entries, over all but the last, and so on.              *)
Exchanged(table, j) ==
    IF TIME_COMPARE_BIG(table[j].t, table[j + 1].t)
    THEN [table EXCEPT ![j] = table[j + 1], ![j + 1] = table[j]] ELSE table

Bubbled(table, n) ==
    LET after[j \in 0 .. n - 1] == IF j = 0 THEN table ELSE Exchanged(after[j - 1], j)
    IN  after[n - 1]

blt_soft_timer_sort(table) ==
    LET n == Len(table)
        after[i \in 0 .. n - 1] == IF i = 0 THEN table ELSE Bubbled(after[i - 1], n - i + 1)
    IN  after[n - 1]

(* Nothing is added to a full table.                                       *)
blt_soft_timer_add(table, cb, now) ==
    IF Len(table) >= MAX_TIMER_NUM THEN table
    ELSE blt_soft_timer_sort(Append(table, Entry(cb, now, Interval[cb])))

PlacesOf(table, cb) == {i \in 1 .. Len(table) : table[i].cb = cb}

blt_soft_timer_delete_by_index(table, i) ==
    [j \in 1 .. Len(table) - 1 |-> IF j < i THEN table[j] ELSE table[j + 1]]

blt_soft_timer_delete(table, cb) ==
    IF PlacesOf(table, cb) = {} THEN table
    ELSE blt_soft_timer_delete_by_index(table,
             CHOOSE i \in PlacesOf(table, cb) : \A j \in PlacesOf(table, cb) : i <= j)

bsp_timer_start(table, cb, now) == blt_soft_timer_add(blt_soft_timer_delete(table, cb), cb, now)

TimerInit ==
    /\ timer = <<>>
    /\ clock \in 0 .. Wrap - 1
    /\ walk = NoTimer
    /\ served = TRUE
    /\ starts = 0

-----------------------------------------------------------------------------
(* The rest of the program, between walks.                                 *)

tuya_timer_start(c) == /\ walk = NoTimer
                       /\ starts < MaxStarts
                       /\ starts' = starts + 1
                       /\ timer' = bsp_timer_start(timer, c, clock)
                       /\ UNCHANGED <<clock, walk, served>>

tuya_timer_delete(c) == /\ walk = NoTimer
                        /\ timer' = blt_soft_timer_delete(timer, c)
                        /\ UNCHANGED <<clock, walk, served, starts>>

-----------------------------------------------------------------------------
(* blt_soft_timer_process. The first entry decides whether there is a walk. *)

WalkBegins == /\ walk = NoTimer
              /\ served' = TRUE
              /\ walk' = IF timer # <<>> /\ blt_is_timer_expired(timer[1].t, clock)
                         THEN [i |-> 1, now |-> clock, change_flg |-> FALSE] ELSE NoTimer
              /\ UNCHANGED <<timer, clock, starts>>

Visits == walk # NoTimer /\ walk.i <= Len(timer)
VisitsExpired == Visits /\ blt_is_timer_expired(timer[walk.i].t, walk.now)

NotExpired == /\ Visits /\ ~VisitsExpired
              /\ walk' = [walk EXCEPT !.i = @ + 1]
              /\ UNCHANGED <<timer, clock, served, starts>>

(* What is done to the entry at the index for the result of the callback.  *)
NotDeleted(table, i, result, now) ==
    [table EXCEPT ![i].t = Plus(now, table[i].interval)]
AfterResult(table, i, result, now) ==
    IF result < 0 THEN blt_soft_timer_delete_by_index(table, i)
    ELSE LET interval == IF result = 0 THEN table[i].interval ELSE result
         IN  [table EXCEPT ![i].interval = interval, ![i].t = Plus(now, interval)]

(* A callback may start another timer. Its result is applied to the entry  *)
(* that then stands at the index, whoever's it is.                         *)
StartedBy(o) == IF o.starts = NoTimer THEN timer ELSE bsp_timer_start(timer, o.starts, clock)

Answers(o) == /\ timer' = AfterResult(StartedBy(o), walk.i, o.result, walk.now)
              /\ walk' = [walk EXCEPT !.i = @ + 1,
                                      !.change_flg = @ \/ o.result >= 0]
              /\ UNCHANGED <<clock, served, starts>>

CallBack == /\ VisitsExpired /\ timer[walk.i].cb \notin Resets
            /\ \E o \in Outcome[timer[walk.i].cb] : Answers(o)

(* chip_reboot does not return: the table is empty after the start-up.     *)
chip_reboot == /\ VisitsExpired /\ timer[walk.i].cb \in Resets
               /\ timer' = <<>>
               /\ walk' = NoTimer
               /\ UNCHANGED <<clock, served, starts>>

WalkEnds == /\ walk # NoTimer /\ walk.i > Len(timer)
            /\ timer' = IF walk.change_flg /\ timer # <<>>
                       THEN blt_soft_timer_sort(timer) ELSE timer
            /\ walk' = NoTimer
            /\ UNCHANGED <<clock, served, starts>>

Tick == /\ served
        /\ clock' = Plus(clock, 1)
        /\ served' = FALSE
        /\ UNCHANGED <<timer, walk, starts>>

Walks == WalkBegins \/ NotExpired \/ CallBack \/ chip_reboot \/ WalkEnds

TimerNext ==
    \/ \E c \in Callback : tuya_timer_start(c) \/ tuya_timer_delete(c)
    \/ Walks
    \/ Tick

(* The main loop comes round, a walk goes on and the clock advances. What  *)
(* is fair in a walk is stated by what every step of it does to walk.      *)
WalkProceeds ==
    /\ walk # NoTimer
    /\ walk' \in {NoTimer} \union {[walk EXCEPT !.i = @ + 1, !.change_flg = flg] : flg \in BOOLEAN}

TimerSpec ==
    /\ TimerInit /\ [][TimerNext]_timerVars
    /\ WF_timerVars(WalkBegins) /\ WF_walk(WalkProceeds) /\ WF_timerVars(Tick)

-----------------------------------------------------------------------------
Ticks == 0 .. Wrap - 1

TimerTypeOK ==
    /\ \A i \in 1 .. Len(timer) : /\ timer[i].cb \in Callback
                                  /\ timer[i].t \in Ticks
                                  /\ timer[i].interval \in Pre + 1 .. Window
    /\ Len(timer) <= MAX_TIMER_NUM
    /\ clock \in Ticks
    /\ walk # NoTimer => walk.i \in 1 .. MAX_TIMER_NUM + 1 /\ walk.now \in Ticks
    /\ served \in BOOLEAN
    /\ starts \in 0 .. MaxStarts

(* How far t is from now, before or after.                                 *)
Signed(t, now) == IF Minus(t, now) < Wrap \div 2 THEN Minus(t, now) ELSE Minus(t, now) - Wrap

(* Between walks no callback stands twice in the table, which is why it    *)
(* never fills up, and the entries stand in the order of their times,      *)
(* across the wrap of the clock: a walk looks at the first to see whether  *)
(* any is due, and a timer behind one that is due later would be missed.   *)
TableInOrder ==
    /\ \A i, j \in 1 .. Len(timer) : timer[i].cb = timer[j].cb => i = j
    /\ walk = NoTimer => \A i, j \in 1 .. Len(timer) :
                          i < j => Signed(timer[i].t, clock) <= Signed(timer[j].t, clock)

(* The table seen as the timers of TimerService.                           *)
EntryOf(c) == timer[CHOOSE i \in PlacesOf(timer, c) : TRUE]
Left(c) == IF PlacesOf(timer, c) = {} THEN NoTimer ELSE Signed(EntryOf(c).t, clock)
PeriodOf(c) == IF PlacesOf(timer, c) = {} THEN NoTimer ELSE EntryOf(c).interval
Service == INSTANCE TimerService WITH
    NONE <- NoTimer, Margin <- Pre,
    left <- [c \in Callback |-> Left(c)], period <- [c \in Callback |-> PeriodOf(c)]

(* The timers are those of TimerService: none is lost, called twice, early *)
(* or late, and blt_soft_timer_process gives the result of a callback to   *)
(* the timer whose callback it was. The code does not see to the last.     *)
ServiceSafety == Service!Safety

(* The entry at the index keeps its place when c is started, if no result  *)
(* before it in the walk gave a timer a new time, no other timer is due at *)
(* the same tick, and c did not stand before it.                           *)
KeepsItsPlace(c) ==
    /\ ~walk.change_flg
    /\ \A i \in 1 .. Len(timer) : timer[i].t = timer[walk.i].t => i = walk.i
    /\ \A i \in 1 .. walk.i - 1 : timer[i].cb # c

(* The callback started a timer, and the sort put the entry of another one *)
(* at the index.                                                           *)
AnswersForAnother ==
    /\ VisitsExpired /\ timer[walk.i].cb \notin Resets
    /\ \E o \in Outcome[timer[walk.i].cb] :
          /\ o.starts # NoTimer /\ ~KeepsItsPlace(o.starts)
          /\ StartedBy(o)[walk.i].cb # timer[walk.i].cb
          /\ Answers(o)

(* A callback that starts a timer, and whose entry does not keep its place, *)
(* may answer for another; every other step is one of TimerService. Later  *)
(* too: after such an answer every timer is still called once its time has *)
(* come, no later than Late, and what it answers is done to it.            *)
ServiceUnlessMoved ==
    /\ Service!Init
    /\ [][Service!Next \/ AnswersForAnother]_<<[c \in Callback |-> Left(c)],
                                             [c \in Callback |-> PeriodOf(c)]>>

(* A timer that runs and is called once is called or deleted in the end,   *)
(* however often others are called, deleted or started, though a walk      *)
(* passes over the entry behind one that it deletes.                       *)
OneShot == {c \in Callback : \A o \in Outcome[c] : o.result < 0}
TimersEnd == \A c \in OneShot : (PlacesOf(timer, c) # {}) ~> (PlacesOf(timer, c) = {})

===============================================================================
