-------------------------------- MODULE L2Counters --------------------------------
(***************************************************************************)
(* A performance counter of an L2 cache (mali_l2_cache.c).  The profiler   *)
(* chooses what is counted; the hardware counts from zero again after each *)
(* loss of power, but the value that is reported shall always increase.    *)
(* Whether the cache really loses power when the driver powers it down is  *)
(* outside the driver's control (runtime PM).                              *)
(***************************************************************************)
EXTENDS Integers

CONSTANTS
  None,         \* MALI_HW_CORE_NO_COUNTER
  Sources,      \* what can be counted
  MaxCount      \* bound: events

VARIABLES
  src, base,     \* counter_src0, counter_value0_base
  on,            \* power_is_on
  hwSrc, value,  \* the registers PERFCNT_SRC0 and PERFCNT_VAL0; a source of None counts nothing
  events,        \* events of src since it was chosen, while the cache was on
  stale          \* history: the counter was stopped without power, and not set with power since

vars == <<src, base, on, hwSrc, value, events, stale>>

Init ==
  /\ src = None /\ base = 0 /\ on = FALSE /\ hwSrc = None /\ value = 0 /\ events = 0
  /\ stale = FALSE

(* mali_l2_cache_power_up() and the end of mali_l2_cache_reset(); the      *)
(* registers may have lost their contents while there was no power.        *)
PowerUp ==
  /\ ~on /\ on' = TRUE
  /\ \E lost \in BOOLEAN :
       /\ hwSrc' = IF src # None THEN src ELSE IF lost THEN None ELSE hwSrc
       /\ value' = IF lost THEN 0 ELSE value
  /\ UNCHANGED <<src, base, events, stale>>

\* Mutant: the register keeps its value.
PowerDown_KeepsValue ==
  /\ on /\ on' = FALSE
  /\ base' = IF src # None THEN base + value ELSE base
  /\ UNCHANGED <<src, hwSrc, value, events, stale>>

(* mali_l2_cache_power_down()                                              *)
PowerDown ==
  /\ on /\ on' = FALSE
  /\ IF src # None THEN base' = base + value /\ value' = 0 ELSE UNCHANGED <<base, value>>
  /\ UNCHANGED <<src, hwSrc, events, stale>>

(* mali_l2_cache_core_set_counter_src(): without power the registers are   *)
(* left alone, and power_down() leaves the value of a counter that is      *)
(* stopped.                                                                *)
SetCounterSrc(s) ==
  /\ src' = s /\ base' = 0 /\ events' = 0
  /\ IF on THEN hwSrc' = s /\ value' = 0 ELSE UNCHANGED <<hwSrc, value>>
  /\ stale' = (~on /\ (stale \/ (s = None /\ src # None)))
  /\ UNCHANGED on

(* The hardware counts.                                                    *)
Count(s) ==
  /\ on /\ value < MaxCount /\ events < MaxCount
  /\ value' = IF s = hwSrc THEN value + 1 ELSE value
  /\ events' = IF s = src THEN events + 1 ELSE events
  /\ UNCHANGED <<src, base, on, hwSrc, stale>>

Next ==
  \/ PowerUp \/ PowerDown
  \/ \E s \in Sources : Count(s)
  \/ \E s \in Sources \cup {None} : SetCounterSrc(s)

Spec == Init /\ [][Next]_vars

-----------------------------------------------------------------------------
(* mali_l2_cache_core_get_counter_values()                                 *)
Reported == (IF on THEN value ELSE 0) + base

(* What is reported is the number of events since the counter was chosen,  *)
(* whatever was powered down in between (comments at mali_l2_cache.c       *)
(* 221-229 and 266, 291).  The register may have gone on counting for a    *)
(* counter that was stopped while the cache had no power; chosen again     *)
(* without power it does not start from 0, and reports more.               *)
CountersExact ==
  src # None => /\ Reported >= events
                /\ ~stale => Reported = events
=============================================================================
