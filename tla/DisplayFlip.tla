----------------------------- MODULE DisplayFlip -----------------------------
(***************************************************************************)
(* How a frame reaches the screen in the display driver of the sunxi SoCs  *)
(* (sunxi_drm_crtc.c, sunxi_drm_plane.c, sunxi_drm_drv.c).  A client flips *)
(* the framebuffer of a crtc or changes an overlay plane: the driver       *)
(* writes the configuration of the plane, copies it to the cache of the    *)
(* display engine and raises the number of frames of the user.  The vsync  *)
(* interrupt sends the events of the flips that wait, hands the cache over *)
(* to the registers and starts the work that drops the framebuffer shown   *)
(* before.  A reference on the vblank of the crtc is held for every flip   *)
(* that waits, and a timer turns the vblank off when there is none.        *)
(*                                                                         *)
(* One crtc with two planes: "ui", which shows the framebuffer of the crtc *)
(* and "overlay".  One client that makes one call at a time, but for the   *)
(* FLIP_SYNC ioctl, which takes no lock of the mode setting core.          *)
(***************************************************************************)
EXTENDS Integers, Sequences, FiniteSets

CONSTANTS
  Fbs,         \* the framebuffers
  None,
  MaxFrames,   \* bound: frames between two mode sets
  MaxFlips,    \* bound: references on the vblank
  MaxRefs      \* bound: references on a framebuffer

Planes == {"ui", "overlay"}

VARIABLES
  refs,       \* framebuffer -> references on it; 0: it is freed
  named,      \* the framebuffers that have an id
  crtcFb,     \* crtc->fb
  planeFb,    \* plane -> plane->fb, which only the core sets
  oldFb,      \* plane -> old_fb of the driver
  cfg,        \* plane -> the framebuffer of its plane_cfg
  cache,      \* plane -> what the last commit copied
  shown,      \* plane -> what the registers hold
  count,      \* frames of the user and of the kernel
  vblank,     \* its references, those nobody will give up, and whether it is enabled
  flips,      \* pageflip_event_list: the frame number of each event
  dpms,       \* the power state of the crtc
  irq,        \* the interrupt of the encoder comes
  lock,       \* update_reg_lock: None or the call that has it
  work,       \* delayed_work is queued
  call,       \* the call that holds the locks of the core
  sync,       \* the FLIP_SYNC ioctl is on its way
  stranded,   \* history: the display went off while flips waited
  slips,      \* history: what may leave a framebuffer in use without a reference
  early       \* history: an event was sent before its frame, with the lock got

vars == <<refs, named, crtcFb, planeFb, oldFb, cfg, cache, shown, count, vblank,
          flips, dpms, irq, lock, work, call, sync, stranded, slips, early>>

buffers == <<refs, named, crtcFb, planeFb, oldFb>>
frames == <<cache, shown, count>>
history == <<stranded, slips, early>>
Idle == [op |-> "idle", step |-> "idle", fb |-> None, event |-> FALSE, frame |-> 0]

Init ==
  /\ refs = [f \in Fbs |-> 1] /\ named = Fbs
  /\ crtcFb = None /\ planeFb = [p \in Planes |-> None] /\ oldFb = planeFb
  /\ cfg = planeFb /\ cache = planeFb /\ shown = planeFb
  /\ count = [user |-> 0, ker |-> 0]
  /\ vblank = [refs |-> 0, lost |-> 0, on |-> FALSE] /\ flips = <<>>
  /\ dpms = "off" /\ irq = FALSE /\ lock = None /\ work = FALSE
  /\ call = Idle /\ sync = FALSE /\ stranded = FALSE /\ slips = {} /\ early = FALSE

-----------------------------------------------------------------------------
(* References: a framebuffer with none is freed.                           *)
Ref(r, f) == IF f = None THEN r ELSE [r EXCEPT ![f] = @ + 1]
Minus(n, k) == IF n > k THEN n - k ELSE 0
Unref(r, f) == IF f = None THEN r ELSE [r EXCEPT ![f] = Minus(@, 1)]

(* drm_vblank_get() fails when others hold it and it was turned off.       *)
GetFails == vblank.refs > 0 /\ ~vblank.on
Get(v) == [v EXCEPT !.refs = @ + 1, !.on = TRUE]
Put(v, n) == [v EXCEPT !.refs = @ - n]

(* Mutant: the driver takes no reference of its own.                       *)
UpdatePlane_NoRef(p, f, r) ==
  /\ oldFb' = [oldFb EXCEPT ![p] = planeFb[p]]
  /\ refs' = Unref(r, oldFb[p])
  /\ cfg' = [cfg EXCEPT ![p] = f]

(* sunxi_update_plane(): the framebuffer that the core says the plane has  *)
(* waits for the work in old_fb, the one that waited there is dropped, and *)
(* the new one gets a reference of the driver.                             *)
UpdatePlane(p, f, r) ==
  /\ oldFb' = [oldFb EXCEPT ![p] = planeFb[p]]
  /\ refs' = Ref(Unref(r, oldFb[p]), f)
  /\ cfg' = [cfg EXCEPT ![p] = f]

(* Bounds: after one of these slips no call takes more references.         *)
Within(f, kinds) == refs[f] < MaxRefs /\ count.user < MaxFrames /\ slips \cap kinds = {}
Slips == {"hurried", "mixed", "bad data"}

(* sunxi_drm_crtc_page_flip() up to the commit.  The reference of the      *)
(* lookup becomes the one of crtc->fb.  A format that does not fit: the    *)
(* flip is undone.  Memory that is not contiguous: so it is, but the       *)
(* configuration of the plane is wiped.  Bad user data: crtc->fb and the   *)
(* vblank are left as they are, while the core drops the reference it      *)
(* meant for crtc->fb.                                                     *)
PageFlip ==
  /\ call = Idle /\ dpms = "on" /\ crtcFb # None /\ vblank.refs < MaxFlips
  /\ ~GetFails
  /\ \E f \in named :
       /\ Within(f, {"hurried"})
       /\ \/ /\ vblank' = Get(vblank)
             /\ UpdatePlane("ui", f, Ref(refs, f))
             /\ \E event \in BOOLEAN :
                  call' = [Idle EXCEPT !.op = "flip", !.step = "commit", !.fb = crtcFb, !.event = event]
             /\ crtcFb' = f
             /\ UNCHANGED slips
          \/ /\ vblank' = [vblank EXCEPT !.on = TRUE]
             /\ cfg' \in {cfg, [cfg EXCEPT !["ui"] = None]}
             /\ UNCHANGED <<refs, oldFb, crtcFb, call, slips>>
          \/ /\ vblank' = [Get(vblank) EXCEPT !.lost = @ + 1]
             /\ crtcFb' = f /\ slips' = slips \cup {"bad data"}
             /\ UNCHANGED <<refs, oldFb, cfg, call>>
  /\ UNCHANGED <<named, planeFb, frames, flips, dpms, irq, lock, work, sync, stranded, early>>

(* The last step of a flip: the event is queued after the commit, and the  *)
(* core drops the framebuffer the crtc had.  Without an event nobody gives *)
(* the reference on the vblank up.                                         *)
QueueEvent ==
  /\ call.op = "flip" /\ call.step = "committed"
  /\ IF call.event
       THEN flips' = Append(flips, call.frame) /\ UNCHANGED vblank
       ELSE vblank' = [vblank EXCEPT !.lost = @ + 1] /\ UNCHANGED flips
  /\ refs' = Unref(refs, call.fb)
  /\ call' = Idle
  /\ UNCHANGED <<named, crtcFb, planeFb, oldFb, cfg, frames, dpms, irq, lock, work, sync, history>>

(* sunxi_de_updata_reg(): a frame of the user, and the copy of every plane *)
(* to the cache, under the lock.                                           *)
Apply ==
  /\ count' = [count EXCEPT !.user = @ + 1]
  /\ cache' = cfg

CommitStart ==
  /\ call.step = "commit" /\ lock = None
  /\ lock' = "call" /\ Apply
  /\ call' = [call EXCEPT !.step = "locked", !.frame = count.user + 1]
  /\ UNCHANGED <<buffers, cfg, shown, vblank, flips, dpms, irq, work, sync, history>>

CommitEnd ==
  /\ call.step = "locked"
  /\ lock' = None
  /\ call' = [call EXCEPT !.step = "committed"]
  /\ UNCHANGED <<buffers, cfg, frames, vblank, flips, dpms, irq, work, sync, history>>

(* sunxi_drm_flip_ioctl(): a commit outside every lock of the core, which  *)
(* a mode set or a removal may overtake before it has update_reg_lock.     *)
SyncStart ==
  /\ ~sync /\ crtcFb # None /\ count.user < MaxFrames /\ slips = {}
  /\ sync' = TRUE
  /\ UNCHANGED <<buffers, cfg, frames, vblank, flips, dpms, irq, lock, work, call, history>>

SyncCommit ==
  /\ sync /\ lock = None
  /\ Apply
  /\ sync' = FALSE
  /\ UNCHANGED <<buffers, cfg, shown, vblank, flips, dpms, irq, lock, work, call, history>>

(* What is configured is shown and nothing waits to be handed over.        *)
Settled == cfg = cache /\ cache = shown /\ count.user = count.ker /\ ~work

(* drm_mode_setplane(): no commit; the core takes over the reference of    *)
(* the lookup and drops the one on the framebuffer the plane had.  Nothing *)
(* makes the client wait until its last change is shown, and it may set    *)
(* the plane of the crtc too.                                              *)
SetPlane ==
  /\ call = Idle /\ crtcFb # None
  /\ \E p \in Planes, f \in named :
       /\ Within(f, Slips)
       /\ slips' = slips \cup (IF Settled THEN {} ELSE {"hurried"})
                        \cup (IF p = "ui" THEN {"mixed"} ELSE {})
       /\ UpdatePlane(p, f, Ref(Unref(refs, planeFb[p]), f))
       /\ planeFb' = [planeFb EXCEPT ![p] = f]
  /\ UNCHANGED <<named, crtcFb, frames, vblank, flips, dpms, irq, lock, work, call, sync,
                 stranded, early>>

-----------------------------------------------------------------------------
(* A mode set: sunxi_drm_crtc_prepare() turns the crtc off and on,         *)
(* disables all planes in their configurations, sends every event that     *)
(* waits and restarts the counters; the interrupt comes again at the end,  *)
(* when the encoder is enabled.                                            *)
Restarted == [user |-> 0, ker |-> 0]

Prepare ==
  /\ call = Idle
  /\ \E f \in named :
       /\ refs[f] < MaxRefs /\ slips = {}
       /\ call' = [Idle EXCEPT !.op = "mode", !.step = "prepared", !.fb = crtcFb]
       /\ crtcFb' = f
  /\ vblank' = [vblank EXCEPT !.refs = @ - Len(flips), !.on = FALSE]
  /\ flips' = <<>> /\ count' = Restarted /\ dpms' = "on" /\ irq' = FALSE
  /\ cfg' = [p \in Planes |-> None] /\ stranded' = FALSE
  /\ UNCHANGED <<refs, named, planeFb, oldFb, cache, shown, lock, work, sync, slips, early>>

(* sunxi_drm_crtc_mode_set(), and the commit after it.                     *)
ModeSet ==
  /\ call.op = "mode" /\ call.step = "prepared"
  /\ UpdatePlane("ui", crtcFb, Ref(refs, crtcFb))
  /\ call' = [call EXCEPT !.step = "commit"]
  /\ UNCHANGED <<named, crtcFb, planeFb, frames, vblank, flips, dpms, irq, lock, work, sync,
                 history>>

ModeSetEnd ==
  /\ call.op = "mode" /\ call.step = "committed"
  /\ irq' = TRUE /\ call' = Idle
  /\ refs' = Unref(refs, call.fb)
  /\ UNCHANGED <<named, crtcFb, planeFb, oldFb, cfg, frames, vblank, flips, dpms, lock, work,
                 sync, history>>

(* sunxi_drm_crtc_dpms() of a crtc in use.  Going off turns the vblank off *)
(* but leaves the flips that wait; going on counts a frame, so that what   *)
(* was committed meanwhile is shown.  Not every encoder's interrupt comes  *)
(* again (DisplayPower).                                                   *)
Dpms ==
  /\ call = Idle /\ crtcFb # None /\ slips = {}
  /\ \E mode \in {"on", "standby", "off"} \ {dpms} :
       /\ dpms' = mode
       /\ irq' \in {FALSE, mode = "on"}
       /\ vblank' = IF mode = "off" THEN [vblank EXCEPT !.on = FALSE] ELSE vblank
       /\ stranded' = (stranded \/ (mode = "off" /\ flips # <<>>))
       /\ mode = "on" => count.user < MaxFrames
       /\ count' = IF mode = "on" THEN [count EXCEPT !.user = @ + 1] ELSE count
       /\ slips' = slips \cup (IF mode = "on" /\ cfg # cache THEN {"hurried"} ELSE {})
  /\ UNCHANGED <<buffers, cfg, cache, shown, flips, lock, work, call, sync, early>>

(* drm_framebuffer_remove(): the crtc that shows it is disabled at once, a *)
(* plane only in its configuration.                                        *)
Uses(f) == {p \in Planes : planeFb[p] = f}

Remove(fbs) ==
  /\ refs' = [f \in Fbs |-> IF f \in fbs
                THEN Minus(refs[f], 1 + Cardinality(Uses(f)) + (IF crtcFb = f THEN 1 ELSE 0))
                ELSE refs[f]]
  /\ named' = named \ fbs
  /\ planeFb' = [p \in Planes |-> IF planeFb[p] \in fbs THEN None ELSE planeFb[p]]
  /\ cfg' = [p \in Planes |-> IF planeFb[p] \in fbs THEN None ELSE cfg[p]]
  /\ IF crtcFb \in fbs
       THEN /\ crtcFb' = None /\ irq' = FALSE
            /\ shown' = [p \in Planes |-> None]
       ELSE UNCHANGED <<crtcFb, irq, shown>>

RemoveFb ==
  /\ call = Idle
  /\ \E f \in named : Remove({f})
  /\ UNCHANGED <<oldFb, cache, count, vblank, flips, dpms, lock, work, call, sync, history>>

AddFb ==
  /\ call = Idle /\ slips = {}
  /\ \E f \in Fbs \ named : refs[f] = 0 /\ refs' = [refs EXCEPT ![f] = 1] /\ named' = named \cup {f}
  /\ UNCHANGED <<crtcFb, planeFb, oldFb, cfg, frames, vblank, flips, dpms, irq, lock, work,
                 call, sync, history>>

(* The client goes: sunxi_drm_preclose() drops its events, but not the     *)
(* references on the vblank they held, and its framebuffers are removed.   *)
Close ==
  /\ call = Idle /\ ~sync /\ named # {} /\ slips = {}
  /\ flips' = <<>>
  /\ vblank' = [vblank EXCEPT !.lost = @ + Len(flips)]
  /\ Remove(named)
  /\ UNCHANGED <<oldFb, cache, count, dpms, lock, work, call, sync, history>>

-----------------------------------------------------------------------------
(* sunxi_de_vsync_proc().  After the blanking it does nothing.  Else the   *)
(* events go out first, and the cache is handed over if there is a new     *)
(* frame and the lock is got before the blanking ends; with no line left   *)
(* it goes on without the lock, and gives it up.                           *)
Lines == {"past", "none left", "some left"}

Vsync ==
  /\ irq /\ crtcFb # None
  /\ \E lines \in Lines :
       LET send == lines # "past" /\ vblank.on
           new == lines # "past" /\ count.ker # count.user
           have == lines = "none left" \/ lock = None
       IN /\ flips' = IF send THEN <<>> ELSE flips
          /\ vblank' = IF send THEN Put(vblank, Len(flips)) ELSE vblank
          /\ IF new /\ have
               THEN /\ shown' = cache /\ work' = TRUE /\ lock' = None
                    /\ count' = [count EXCEPT !.ker = count.user]
               ELSE UNCHANGED <<shown, work, count, lock>>
          /\ early' = (early \/ (send /\ have /\ \E i \in 1..Len(flips) : flips[i] > count'.ker))
  /\ UNCHANGED <<buffers, cfg, cache, dpms, irq, call, sync, stranded, slips>>

(* sunxi_plane_delayed() for every plane.                                  *)
DelayedWork ==
  /\ work
  /\ refs' = Unref(Unref(refs, oldFb["ui"]), oldFb["overlay"])
  /\ oldFb' = [p \in Planes |-> None]
  /\ work' = FALSE
  /\ UNCHANGED <<named, crtcFb, planeFb, cfg, frames, vblank, flips, dpms, irq, lock, call, sync,
                 history>>

(* The timer of the core, sunxi_drm_disable_vblank().                      *)
VblankTimer ==
  /\ vblank.refs = 0 /\ vblank.on
  /\ vblank' = [vblank EXCEPT !.on = FALSE]
  /\ UNCHANGED <<buffers, cfg, frames, flips, dpms, irq, lock, work, call, sync, history>>

Next == \/ PageFlip \/ QueueEvent \/ CommitStart \/ CommitEnd \/ SyncStart \/ SyncCommit
        \/ SetPlane \/ Prepare \/ ModeSet \/ ModeSetEnd \/ Dpms \/ RemoveFb \/ AddFb
        \/ Close \/ Vsync \/ DelayedWork \/ VblankTimer

(* A call goes on; interrupts come as long as they are on, and early in    *)
(* the frame again and again.                                              *)
Fairness == /\ WF_vars(CommitStart \/ CommitEnd \/ QueueEvent \/ ModeSet \/ ModeSetEnd)
            /\ WF_vars(SyncCommit)
            /\ SF_vars(Vsync /\ flips' = <<>>)

Spec == Init /\ [][Next]_vars /\ Fairness

-----------------------------------------------------------------------------
(* Every reference on the vblank belongs to a flip that waits, to one that *)
(* is being made, or to one that had no event, bad data or a client that   *)
(* went.  While a flip waits the vblank is on, so that the next interrupt  *)
(* completes it, unless the display has gone off under it.  An interrupt   *)
(* that gets the lock sends no event before its frame (sunxi_drm_crtc.c    *)
(* 403-472, 716-775); one that loses the lock does (734, 747).  What the   *)
(* registers hold is alive as long as no plane is changed before its last  *)
(* change is shown, none is set behind the back of the crtc and no flip    *)
(* has bad data.                                                           *)
Making == IF call.op = "flip" THEN 1 ELSE 0

FlipsSound ==
  /\ ~early
  /\ vblank.refs = Len(flips) + Making + vblank.lost
  /\ flips # <<>> => vblank.on \/ stranded
  /\ slips = {} => /\ \A p \in Planes : shown[p] # None => refs[shown[p]] > 0
                   /\ crtcFb # None => refs[crtcFb] > 0

(* A flip that waits gets its event (454-472) while the interrupt comes    *)
(* and the display has not gone off under it.                              *)
Waiting == flips # <<>>
Answered == flips = <<>> \/ ~irq \/ stranded
FlipsEnd == Waiting ~> Answered
=============================================================================
