----------------------------------- MODULE Mmu -----------------------------------
(***************************************************************************)
(* The MMU of a group (mali_mmu.c) under the procedures of mali_group.c    *)
(* and mali_executor.c that drive it: starting a job, zapping a session    *)
(* whose memory was unmapped, page faults, completion and recovery, power. *)
(*                                                                         *)
(* A procedure holds the executor lock and is a sequence of commands       *)
(* ("prog"); between two of them the core goes on reading through the MMU  *)
(* and may fault.                                                          *)
(***************************************************************************)
EXTENDS Integers, Sequences

CONSTANTS
  Sessions, None,
  MaxUnmaps,      \* bound: changes of the page tables of a session
  StallTimesOut   \* whether a stall may not take effect in time

Empty == "empty"        \* mali_empty_page_directory_phys
FaultFlush == "flush"   \* mali_page_fault_flush_page_directory

VARIABLES
  hw,        \* paging, stall, fault, dte, irq (not masked): registers of the MMU;
             \* tlb: a translation that it keeps, <<directory, version>>, or None;
             \* core: "idle", "busy", "ended" or "stopped"
  session,   \* group->session
  job,       \* session of the job while is_working, or None
  power,     \* power_is_on
  prog,      \* commands that the holder of the executor lock still gives
  stalled,   \* stall_success of the last stall
  zapping,   \* session whose memory was unmapped and is to be zapped, or None
  half,      \* whether the bottom half of the MMU's interrupt is scheduled
  version,   \* session -> version of its page tables
  freed      \* session -> pages that older versions name were given back

vars == <<hw, session, job, power, prog, stalled, zapping, half, version, freed>>

NoPower == [paging |-> FALSE, stall |-> FALSE, fault |-> FALSE, irq |-> FALSE,
            dte |-> None, tlb |-> None, core |-> "idle"]

Init ==
  /\ hw = NoPower /\ session = None /\ job = None /\ power = FALSE
  /\ prog = <<>> /\ stalled = FALSE /\ zapping = None /\ half = FALSE
  /\ version = [s \in Sessions |-> 0] /\ freed = [s \in Sessions |-> 0]

-----------------------------------------------------------------------------
(* mali_mmu_enable_stall(): the core may fault before the stall is there.  *)
Stall(h) ==
  IF h.fault \/ ~h.paging THEN {h}
  ELSE {[h EXCEPT !.stall = TRUE]}
       \cup (IF h.core = "busy" THEN {[h EXCEPT !.fault = TRUE]} ELSE {})
       \cup (IF StallTimesOut THEN {h} ELSE {})

(* mali_mmu_disable_stall()                                                *)
Unstall(h) == [h EXCEPT !.stall = @ /\ (h.fault \/ ~h.paging)]

(* mali_mmu_activate_address_space(): the register can be written while    *)
(* the MMU is stalled or in page fault mode.                               *)
WriteDte(h, d) ==
  [h EXCEPT !.dte = IF h.stall \/ h.fault \/ ~h.paging THEN d ELSE @, !.tlb = None]

(* mali_mmu_raw_reset(), and the rest of mali_mmu_reset().                 *)
RawReset(h) == [NoPower EXCEPT !.core = h.core]
Setup(h) == [h EXCEPT !.irq = TRUE, !.dte = Empty]

(* What a command does to the hardware.                                    *)
Effect(c, h) ==
  CASE c[1] = "stall" -> Stall(h)
    [] c[1] = "unstall" -> {Unstall(h)}
    [] c[1] = "dte" -> {WriteDte(h, c[2])}
    [] c[1] = "zap" -> {[h EXCEPT !.tlb = None]}
    [] c[1] = "raw reset" -> {RawReset(h)}
    [] c[1] = "setup" -> {Setup(h)}
    [] c[1] = "paging" -> {[h EXCEPT !.paging = TRUE]}
    [] c[1] = "fault done" -> {[h EXCEPT !.fault = FALSE]}
    [] c[1] = "stop bus" -> {[h EXCEPT !.core = IF @ = "busy" THEN "stopped" ELSE @]}
    [] c[1] = "core reset" -> {[h EXCEPT !.core = "idle"]}
    [] c[1] = "start" -> {[h EXCEPT !.core = "busy"]}
    [] c[1] = "off" -> {NoPower}
    [] OTHER -> {h}

-----------------------------------------------------------------------------
(* The procedures, as sequences of commands.                               *)
C(name) == <<name, None>>
ActivatePageDirectory(d) == <<C("stall"), <<"dte", d>>, C("unstall")>>
ClearSession ==
  IF session = None THEN <<>> ELSE ActivatePageDirectory(Empty) \o <<<<"session", None>>>>
ZapTlb == <<C("stall"), C("zap"), C("unstall")>>
MmuReset == <<C("stall"), C("raw reset"), C("setup"), C("paging"), C("unstall")>>

\* Mutant: the MMU is not reset after the core.
RecoveryReset_NoMmuReset ==
  <<C("stop bus"), C("stall"), <<"dte", FaultFlush>>, C("unstall"), C("fault done"),
    C("core reset"), <<"session", None>>>>

(* mali_group_recovery_reset()                                             *)
RecoveryReset ==
  <<C("stop bus"), C("stall"), <<"dte", FaultFlush>>, C("unstall"), C("fault done"),
    C("core reset")>> \o MmuReset \o <<<<"session", None>>>>

(* mali_group_complete_pp(), mali_group_complete_gp()                      *)
Complete(success) ==
  IF success THEN <<C("core reset"), C("done")>> ELSE <<C("done")>> \o RecoveryReset

(* The executor lock is free and the procedure p takes it.                 *)
Locked(p) == prog = <<>> /\ prog' = p

-----------------------------------------------------------------------------
(* mali_group_activate_page_directory() when a job is started: the same    *)
(* session is only zapped.                                                 *)
Start(s) ==
  /\ power /\ job = None
  /\ Locked((IF session # s THEN ActivatePageDirectory(s) \o <<<<"session", s>>>> ELSE <<C("zap")>>)
            \o <<<<"start", s>>>>)
  /\ UNCHANGED <<hw, session, job, power, stalled, zapping, half, version, freed>>

(* The core has done its job; or it failed, or it took too long.           *)
JobDone(success) ==
  /\ job # None /\ (success => hw.core = "ended")
  /\ Locked(Complete(success))
  /\ UNCHANGED <<hw, session, job, power, stalled, zapping, half, version, freed>>

(* mali_executor_interrupt_mmu(), upper half.                              *)
FaultInterrupt ==
  /\ hw.fault /\ hw.irq /\ job # None
  /\ Locked(<<>>)
  /\ hw' = [hw EXCEPT !.irq = FALSE] /\ half' = TRUE
  /\ UNCHANGED <<session, job, power, stalled, zapping, version, freed>>

(* The same, bottom half.                                                  *)
BottomHalf ==
  /\ half /\ half' = FALSE
  /\ Locked(IF job # None /\ hw.fault THEN Complete(FALSE) ELSE <<>>)
  /\ UNCHANGED <<hw, session, job, power, stalled, zapping, version, freed>>

(* mali_mmu_pagedir_unmap() under the session's memory lock, before        *)
(* mali_executor_zap_all_active().                                         *)
Unmap(s) ==
  /\ zapping = None /\ version[s] < MaxUnmaps
  /\ version' = [version EXCEPT ![s] = @ + 1] /\ zapping' = s
  /\ UNCHANGED <<hw, session, job, power, prog, stalled, half, freed>>

(* mali_group_zap_session(); mali_executor_zap_all_active() looks at the   *)
(* GP group always, at PP groups only while they work.                     *)
ZapSession ==
  /\ zapping # None
  /\ \E looked \in BOOLEAN :
       Locked(IF session = zapping /\ job # None THEN ZapTlb \o <<C("retry")>>
              ELSE (IF session = zapping /\ looked THEN ClearSession ELSE <<>>) \o <<C("zapped")>>)
  /\ UNCHANGED <<hw, session, job, power, stalled, zapping, half, version, freed>>

(* mali_group_power_up(), mali_group_power_down()                          *)
PowerUp ==
  /\ ~power /\ power' = TRUE /\ Locked(MmuReset \o <<C("core reset")>>)
  /\ UNCHANGED <<hw, session, job, stalled, zapping, half, version, freed>>

PowerDown ==
  /\ power /\ job = None /\ power' = FALSE /\ Locked(ClearSession \o <<C("off")>>)
  /\ UNCHANGED <<hw, session, job, stalled, zapping, half, version, freed>>

-----------------------------------------------------------------------------

(* mali_executor_zap_all_active(): a PP group is zapped a second time, then *)
(* its job is given up; a GP job is given up at once.                      *)
AfterZap(c) ==
  IF stalled THEN {<<C("zapped")>>}
  ELSE {Complete(FALSE) \o <<C("zapped")>>}
       \cup (IF c[1] = "retry" THEN {ZapTlb \o <<C("again")>>} ELSE {})

(* One command of the procedure that holds the executor lock.              *)
Command ==
  /\ prog # <<>>
  /\ LET c == Head(prog) IN
     /\ hw' \in Effect(c, hw)
     /\ stalled' = IF c[1] = "stall" THEN ~hw.paging \/ hw'.stall ELSE stalled
     /\ session' = IF c[1] = "session" THEN c[2] ELSE session
     /\ job' = CASE c[1] = "start" -> c[2] [] c[1] = "done" -> None [] OTHER -> job
     /\ prog' \in IF c[1] \in {"retry", "again"} THEN AfterZap(c) ELSE {Tail(prog)}
     /\ IF c[1] = "zapped"
          THEN freed' = [freed EXCEPT ![zapping] = version[zapping]] /\ zapping' = None
          ELSE UNCHANGED <<freed, zapping>>
  /\ UNCHANGED <<power, half, version>>

(* The core reads: the MMU keeps the translation, or there is none.        *)
Read ==
  /\ hw.core = "busy" /\ hw.paging /\ ~hw.stall /\ ~hw.fault /\ hw.tlb = None
  /\ \/ hw.dte \in Sessions /\ hw' = [hw EXCEPT !.tlb = <<hw.dte, version[hw.dte]>>]
     \/ hw' = [hw EXCEPT !.fault = TRUE]
  /\ UNCHANGED <<session, job, power, prog, stalled, zapping, half, version, freed>>

(* The core has read and written what its job wants.                       *)
CoreEnds ==
  /\ hw.core = "busy" /\ ~hw.stall /\ ~hw.fault
  /\ hw' = [hw EXCEPT !.core = "ended"]
  /\ UNCHANGED <<session, job, power, prog, stalled, zapping, half, version, freed>>

Next ==
  \/ \E s \in Sessions : Start(s) \/ Unmap(s)
  \/ \E b \in BOOLEAN : JobDone(b)
  \/ FaultInterrupt \/ BottomHalf \/ ZapSession \/ PowerUp \/ PowerDown \/ Command \/ Read \/ CoreEnds

(* Whoever has the executor lock goes on, and interrupts are served.       *)
Fairness == WF_vars(Command) /\ SF_vars(FaultInterrupt) /\ SF_vars(BottomHalf)

Spec == Init /\ [][Next]_vars /\ Fairness

-----------------------------------------------------------------------------
(* A core that works translates with the page tables of the group's session, *)
(* never to a page that was given back after mali_executor_zap_all_active(). *)
(* While nobody holds the executor lock the MMU of a group with power is   *)
(* not left stalled (mali_mmu.c 311-324), its directory is that of         *)
(* group->session, and a job has its interrupt unmasked or its bottom half *)
(* on the way (mali_executor.c 773-788).                                   *)
TranslationsSound ==
  /\ hw.core = "busy" /\ hw.tlb # None => hw.tlb[1] = session /\ hw.tlb[2] >= freed[session]
  /\ prog = <<>> /\ power =>
       /\ hw.paging /\ ~hw.stall
       /\ hw.dte = IF session = None THEN Empty ELSE session
       /\ job # None => session = job /\ (hw.irq \/ (hw.fault /\ half))
       /\ job = None => hw.core = "idle" /\ ~hw.fault

(* A page fault is dealt with.                                             *)
FaultsEnd == hw.fault ~> ~hw.fault
=============================================================================
