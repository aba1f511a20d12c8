----------------------------------- MODULE Rtc -----------------------------------
(***************************************************************************)
(* The time of the device, ty_broad.c: once a second, or a little later,   *)
(* the main loop adds the whole seconds that passed on a clock that wraps, *)
(* and marks the time for saving every half hour. It is saved while no     *)
(* phone is connected, as flash operations disturb the radio.              *)
(* sysrun_seconds and unix_time advance together and are one variable.     *)
(***************************************************************************)
EXTENDS Integers

CONSTANTS Wrap,         \* the clock counts modulo Wrap
          Second,       \* ticks of a second
          Lateness,     \* bound on a turn of the main loop
          Period        \* 30 * 60 seconds

(* The clock of the chip wraps every 268 seconds. The theorems about this  *)
(* module have this as their assumption, and no bound on the time.         *)
RtcAssumption ==
    /\ Second \in Nat \ {0} /\ Lateness \in Nat /\ Period \in Nat \ {0}
    /\ Wrap \in Nat /\ 2 * (Second + Lateness) + 1 < Wrap

VARIABLES elapsed,              \* ticks since the start
          rtc_timer_last_tick,  \* when the handler was called last
          tick_last,            \* up to when the seconds were added
          sysrun_seconds,
          rtc_save_flag,
          connected,            \* blt_state is BLS_LINK_STATE_CONN
          saved                 \* the time in flash

vars == <<elapsed, rtc_timer_last_tick, tick_last, sysrun_seconds, rtc_save_flag,
          connected, saved>>

clock_time == elapsed % Wrap
clock_time_exceed(last, ticks) == (clock_time - last) % Wrap > ticks

Init == /\ elapsed = 0
        /\ rtc_timer_last_tick = 0
        /\ tick_last = 0
        /\ sysrun_seconds = 0
        /\ rtc_save_flag = FALSE
        /\ connected = FALSE
        /\ saved = 0

(* The main loop comes round in time.                                      *)
Tick == /\ ~clock_time_exceed(rtc_timer_last_tick, Second + Lateness)
        /\ elapsed' = elapsed + 1
        /\ UNCHANGED <<rtc_timer_last_tick, tick_last, sysrun_seconds, rtc_save_flag,
                       connected, saved>>

LinkChanges == /\ connected' = ~connected
               /\ UNCHANGED <<elapsed, rtc_timer_last_tick, tick_last, sysrun_seconds,
                              rtc_save_flag, saved>>

(* Since the last whole second. A wrap of the clock costs one tick.        *)
tick_pass == IF clock_time > tick_last THEN clock_time - tick_last
                                       ELSE Wrap - 1 - tick_last + clock_time

tick_last_after(seconds) == (tick_last + seconds * Second) % Wrap

tuya_rtc_timer_update_handler ==
    LET seconds == tick_pass \div Second
        total == sysrun_seconds + seconds
        marked == rtc_save_flag \/ total % Period = 0
    IN  /\ clock_time_exceed(rtc_timer_last_tick, Second)
        /\ rtc_timer_last_tick' = clock_time
        /\ IF seconds = 0
             THEN UNCHANGED <<tick_last, sysrun_seconds, rtc_save_flag, saved>>
             ELSE /\ tick_last' = tick_last_after(seconds)
                  /\ sysrun_seconds' = total
                  /\ rtc_save_flag' = (marked /\ connected)
                  /\ saved' = IF marked /\ ~connected THEN total ELSE saved
        /\ UNCHANGED <<elapsed, connected>>

Next == Tick \/ LinkChanges \/ tuya_rtc_timer_update_handler

Spec == Init /\ [][Next]_vars

-----------------------------------------------------------------------------
(* The time is never ahead, and behind by no more than the time since the  *)
(* last call, a second and a tick, however long the device runs: the part  *)
(* of a second left over at a call is not lost, nor counted twice, and the *)
(* tick that a wrap of the clock costs is made up for by the next call.    *)
TimeKept ==
    /\ sysrun_seconds * Second <= elapsed
    /\ elapsed - sysrun_seconds * Second <= 2 * Second + Lateness + 1

===============================================================================
