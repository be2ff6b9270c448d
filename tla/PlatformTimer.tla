--------------------------- MODULE PlatformTimer ---------------------------
(***************************************************************************)
(* The count-down timer of platform_timer.c.  The uptime in milliseconds   *)
(* is computed from the tick counter in 32-bit arithmetic, so it falls     *)
(* back to zero each time tick * 1000 passes 2^32 (every 71 minutes).      *)
(***************************************************************************)
EXTENDS Naturals

CONSTANTS Word,        \* 2^32: TickType_t and uint32_t wrap there
          Second       \* 1000: the ticks of a second, and its milliseconds

ASSUME TimerAssumption == Word \in Nat \ {0} /\ Second \in Nat \ {0}

VARIABLES tick,        \* xTaskGetTickCount()
          time,        \* timer->time, the uptime at which the timer is due
          age          \* history: the time since the timer was set

timerVars == <<tick, time, age>>

(* platform_uptime_ms *)
Uptime(t) == ((((t * Second) % Word) + Second - 1) % Word) \div Second

(* Faulty variant: a time a millisecond away is due. *)
RemainEarly(due, t) == IF due <= Uptime(t) + 1 THEN 0 ELSE due - Uptime(t)

(* Faulty variant: a timer that is due still has a millisecond. *)
RemainNeverZero(due, t) == IF due <= Uptime(t) THEN 1 ELSE due - Uptime(t)

(* platform_timer_remain: what is left of a timer due at `due`, at tick t. *)
Remain(due, t) == IF due <= Uptime(t) THEN 0 ELSE due - Uptime(t)

(* platform_timer_cutdown *)
Due(t, timeout) == (Uptime(t) + timeout) % Word

Cutdown(timeout) == time' = Due(tick, timeout) /\ age' = 0 /\ UNCHANGED tick

(* The tick interrupt. *)
TickPasses == tick' = (tick + 1) % Word /\ age' = age + 1 /\ UNCHANGED time
=============================================================================
