------------------------------ MODULE DisplayModes ------------------------------
(***************************************************************************)
(* How the sunxi display driver chooses display modes: the timing of HDMI  *)
(* that serves a mode of the monitor (subdev/sunxi_hdmi.c), and the modes  *)
(* and crtcs that the console gets when the driver is loaded               *)
(* (sunxi_fb_initial_config in sunxi_drm_fbdev.c): an LCD is the reference *)
(* for the others, and whenever a reference is found the search begins     *)
(* again.  And how it describes a framebuffer to the display engine        *)
(* (sunxi_drm_plane.c): the plane of the crtc that shows it, the format of *)
(* the engine for the format of DRM, which has the same name here, and the *)
(* width, height and address of each colour plane.                         *)
(***************************************************************************)
EXTENDS Integers, Sequences, FiniteSets

CONSTANTS
  Monitors,    \* sequences of connectors: records of kind, enabled, cmdline (a mode or
               \* None) and modes, a sequence of modes
  None,
  Crtcs,       \* 1..n
  HdmiModes,   \* the modes of monitors that the driver is asked about
  Formats,     \* the formats that clients use
  Sizes,       \* <<width, height>> of framebuffers in pixels
  Packs,       \* all colour planes may lie in one buffer
  Pads,        \* bytes at the end of a line of the colour planes after the first
  Pipes        \* <<video channels, channels>> of crtcs

Abs(n) == IF n < 0 THEN -n ELSE n

-----------------------------------------------------------------------------
(* video_timing: size, totals, clock in 10 kHz of the timings of HDMI.     *)
T(w, h, ht, vt, clock, inter) ==
  [w |-> w, h |-> h, ht |-> ht, vt |-> vt, clock |-> clock, inter |-> inter]

Timings == <<
  T(720, 480, 858, 525, 1350, TRUE),     T(720, 576, 864, 625, 1350, TRUE),
  T(720, 480, 858, 525, 2700, FALSE),    T(720, 576, 864, 625, 2700, FALSE),
  T(1280, 720, 1980, 750, 7425, FALSE),  T(1280, 720, 1650, 750, 7425, FALSE),
  T(1920, 1080, 2640, 1125, 7425, TRUE), T(1920, 1080, 2200, 1125, 7425, TRUE),
  T(1920, 1080, 2640, 1125, 14850, FALSE), T(1920, 1080, 2200, 1125, 14850, FALSE),
  T(1920, 1080, 2750, 1125, 7425, FALSE), T(1920, 1080, 2640, 1125, 7425, FALSE),
  T(1920, 1080, 2200, 1125, 7425, FALSE), T(1920, 2160, 2750, 1125, 14850, FALSE),
  T(1280, 1440, 1980, 750, 14850, FALSE), T(1280, 1440, 1650, 750, 14850, FALSE),
  T(3840, 2160, 4400, 2250, 29700, FALSE), T(3840, 2160, 5280, 2250, 29700, FALSE) >>

(* The rows looked at for a refresh rate.  The rows of a group differ in   *)
(* size or interlace, but for 24 and 25 frames, where the total tells.     *)
Rows(m) ==
  CASE m.refresh \in 59..61 -> IF m.inter THEN {8, 1} ELSE {10, 6, 3, 4, 16}
    [] m.refresh \in 49..51 -> IF m.inter THEN {7, 2} ELSE {9, 5, 15}
    [] m.refresh \in 29..31 -> {13, 17}
    [] m.refresh \in 23..26 -> {14, 12, 11, 18}
    [] OTHER -> {}

Serves(t, m) == t.w = m.w /\ t.h = m.h

(* sunxi_hdmi_mode_timmings(): 0 if no timing serves the mode.             *)
TimingOf(m) ==
  LET fit == {i \in Rows(m) : Serves(Timings[i], m) /\ (i \in {11, 12} => Timings[i].ht = m.ht)}
  IN IF fit = {} THEN 0 ELSE CHOOSE i \in fit : TRUE

(* Frames a second of a timing; an interlaced one shows two fields, and a  *)
(* frame of 3D is two frames high.                                         *)
RateOf(t) ==
  (t.clock * 10000 * (IF t.inter THEN 2 ELSE 1)) \div (t.ht * t.vt * (IF t.h > t.vt THEN 2 ELSE 1))

-----------------------------------------------------------------------------
Rgb32 == {"ARGB8888", "ABGR8888", "RGBA8888", "BGRA8888", "XRGB8888", "XBGR8888",
          "RGBX8888", "BGRX8888"}
Rgb24 == {"RGB888", "BGR888"}
Rgb16 == {"RGB565", "BGR565", "ARGB4444", "ABGR4444", "RGBA4444", "BGRA4444", "ARGB1555",
          "ABGR1555", "RGBA5551", "BGRA5551"}
Ui == Rgb32 \cup Rgb24 \cup Rgb16
Planar == {"YUV444", "YUV422", "YUV420", "YUV411"}
SemiPlanar == {"NV61", "NV16", "NV21", "NV12"}
Video == Ui \cup {"AYUV"} \cup Planar \cup SemiPlanar

(* DRM's description of a format: colour planes with their bits per pixel  *)
(* and how much smaller than the picture they are.                         *)
P(bits, ws, hs) == [bits |-> bits, ws |-> ws, hs |-> hs]
Wide(f) == CASE f \in {"YUV444"} -> 1 [] f = "YUV411" -> 4 [] OTHER -> 2
High(f) == IF f \in {"YUV420", "NV21", "NV12"} THEN 2 ELSE 1
Drm(f) ==
  CASE f \in Rgb32 \cup {"AYUV"} -> <<P(32, 1, 1)>>
    [] f \in Rgb24 -> <<P(24, 1, 1)>>
    [] f \in Rgb16 -> <<P(16, 1, 1)>>
    [] f \in Planar -> <<P(8, 1, 1), P(8, Wide(f), High(f)), P(8, Wide(f), High(f))>>
    [] f \in SemiPlanar -> <<P(8, 1, 1), P(16, Wide(f), High(f))>>

-----------------------------------------------------------------------------
(* drm_to_disp_format().  The case for BGR888 names the format of the      *)
(* engine, so that of DRM is not known; one 16 bit format keeps 32 bits.   *)
Known(f) == f \in Video \ {"BGR888"}
FirstBits(f) ==
  CASE f \in Rgb24 -> 24
    [] f \in Rgb16 \ {"ARGB4444"} -> 16
    [] f \in Planar \cup SemiPlanar -> 8
    [] OTHER -> 32
PixelInfo(f) ==
  <<P(FirstBits(f), 1, 1)>>
  \o (CASE f \in Planar -> <<P(8, Wide(f), High(f)), P(8, Wide(f), High(f))>>
        [] f \in SemiPlanar -> <<P(16, Wide(f), High(f))>>
        [] OTHER -> <<>>)

(* disp_to_drm_format().                                                   *)
FromDisp(f) == IF f \in Video THEN f ELSE None

(* A framebuffer as the client makes it: one buffer for each colour plane, *)
(* or one for all, and the length of a line of each in bytes.              *)
Pitch(b, k) == (b.w * Drm(b.format)[k].bits) \div (8 * Drm(b.format)[k].ws) + (IF k > 1 THEN b.pad ELSE 0)
PlaneLines(b, k) == b.h \div Drm(b.format)[k].hs
Gems(b) == IF b.packed THEN 1 ELSE Len(Drm(b.format))

(* sunxi_plane_mode_set(): all widths come from the first line length.     *)
(* With all colour planes in one buffer the bits per pixel of the          *)
(* framebuffer are used, which DRM does not know for such formats.         *)
PlaneModeSet(b) ==
  LET info == PixelInfo(b.format)
      packed == Len(info) > Gems(b)
      bits == IF packed THEN 0 ELSE info[1].bits
      w == Pitch(b, 1) \div (bits \div 8)
  IN IF ~Known(b.format) \/ Gems(b) > Len(info) THEN [ok |-> FALSE, divides |-> TRUE, planes |-> <<>>]
     ELSE IF bits = 0 THEN [ok |-> TRUE, divides |-> FALSE, planes |-> <<>>]
     ELSE [ok |-> TRUE, divides |-> TRUE,
           planes |-> [k \in 1..Len(info) |->
             [w |-> w \div info[k].ws, h |-> b.h \div info[k].hs]]]

-----------------------------------------------------------------------------
VARIABLES
  monitors,  \* the connectors
  asked,     \* a mode that a client asks HDMI for, or None
  i,         \* the connector that is looked at; 0: done
  ref,       \* index of the first connector with a mode, or 0
  refMode,   \* the first mode of the LCD, or None
  modes,     \* connector -> its mode
  crtcOf,    \* connector -> its crtc, or 0
  taken,     \* assign_crtc
  pipe,      \* video channels and channels of the crtc
  fbPlane,   \* the channel of the plane chosen for the framebuffer, or None
  fb,        \* the framebuffer of the crtc, or None
  layout     \* what the configuration of the plane says

choice == <<monitors, asked, i, ref, refMode, modes, crtcOf, taken>>
planes == <<pipe, fbPlane, fb, layout>>
vars == <<choice, planes>>

N == Len(monitors)
M == monitors[i]

Init ==
  /\ monitors \in Monitors /\ asked = None
  /\ i = 1 /\ ref = 0 /\ refMode = None /\ taken = {}
  /\ modes = [k \in 1..N |-> None] /\ crtcOf = [k \in 1..N |-> 0]
  /\ pipe \in Pipes
  /\ fbPlane = None /\ fb = None /\ layout = [ok |-> FALSE, divides |-> TRUE, planes |-> <<>>]

(* sunx_pick_cmdline_mode(): if no mode of the monitor is the one of the   *)
(* command line, the head of the list is returned as if it were a mode.    *)
Picked ==
  CASE M.cmdline = None -> None
    [] \E k \in 1..Len(M.modes) : M.modes[k] = M.cmdline -> M.cmdline
    [] OTHER -> "list head"

(* sunxi_find_similar_modes(): of the modes that are at least as large as  *)
(* r, the first whose shape is closest; the first mode if there is none.   *)
Shape(m) == (m[1] * 1024) \div m[2]
Similar(r) ==
  LET large == {k \in 1..Len(M.modes) : M.modes[k][1] >= r[1] /\ M.modes[k][2] >= r[2]}
      off(k) == Abs(Shape(M.modes[k]) - Shape(r))
      best == {k \in large : \A j \in large : off(k) < off(j) \/ (off(k) = off(j) /\ k <= j)}
  IN IF large = {} THEN M.modes[1] ELSE M.modes[CHOOSE k \in best : TRUE]

Retry == i' = 1 /\ taken' = {}
GoOn == i' = IF i = N THEN 0 ELSE i + 1

Disabled ==
  /\ i > 0 /\ ~M.enabled
  /\ modes' = [modes EXCEPT ![i] = None]
  /\ GoOn /\ UNCHANGED <<monitors, asked, ref, refMode, crtcOf, taken>>

ByLcd ==
  /\ i > 0 /\ M.enabled /\ refMode = None /\ M.kind = "lcd"
  /\ refMode' = M.modes[1] /\ modes' = [modes EXCEPT ![i] = M.modes[1]]
  /\ Retry /\ UNCHANGED <<monitors, asked, ref, crtcOf>>

(* A mode of the command line starts the search again, unless there is an  *)
(* LCD; else a similar mode takes its place.                               *)
ByMode ==
  /\ i > 0 /\ M.enabled /\ (refMode = None => M.kind # "lcd")
  /\ IF Picked # None /\ refMode = None
       THEN /\ ref' = i /\ modes' = [modes EXCEPT ![i] = Picked]
            /\ Retry /\ UNCHANGED crtcOf
       ELSE LET r == IF Picked # None \/ ref = 0 THEN i ELSE ref
                base == IF refMode # None THEN refMode
                        ELSE IF r = i THEN M.modes[1] ELSE modes[r]
                free == Crtcs \ taken
                c == IF free = {} THEN 0 ELSE CHOOSE x \in free : \A y \in free : x <= y
            IN /\ ref' = r
               /\ modes' = [modes EXCEPT ![i] = Similar(base)]
               /\ crtcOf' = IF c = 0 THEN crtcOf ELSE [crtcOf EXCEPT ![i] = c]
               /\ taken' = taken \cup ({c} \ {0})
               /\ GoOn
  /\ UNCHANGED <<monitors, asked, refMode>>

(* A client asks whether HDMI can show a mode, or sets it.                 *)
Ask == i = 0 /\ \E m \in HdmiModes : asked' = m /\ UNCHANGED <<monitors, i, ref, refMode, modes, crtcOf, taken>>

-----------------------------------------------------------------------------
(* The formats a plane is made with.                                       *)
PlaneFormats(c) == IF c < pipe[1] THEN Video ELSE Ui

(* sunxi_find_fb_plane(): the first plane of a channel for the user        *)
(* interface, unless one is in use; the first of all for video.            *)
UiPlane == IF pipe[2] > pipe[1] THEN pipe[1] ELSE None
FindFbPlane(f) ==
  CASE f \in Ui /\ fbPlane # None /\ fbPlane >= pipe[1] -> fbPlane
    [] f \in Ui /\ (fbPlane = None \/ fbPlane < pipe[1]) -> UiPlane
    [] f \notin Ui -> IF pipe[1] > 0 THEN 0 ELSE None

(* A framebuffer of a client in the plane p.                               *)
Shows(f, p, chosen) ==
  \E s \in Sizes, packed \in Packs, pad \in Pads :
    LET new == [format |-> f, w |-> s[1], h |-> s[2], packed |-> packed, pad |-> pad,
                on |-> p, chosen |-> chosen]
    IN fb' = new /\ layout' = PlaneModeSet(new)

(* A mode set finds a plane for the format.                                *)
SetFb ==
  /\ \E f \in Formats :
       /\ FindFbPlane(f) # None /\ fbPlane' = FindFbPlane(f)
       /\ Shows(f, FindFbPlane(f), FALSE)
  /\ UNCHANGED pipe

(* A page flip, which the core allows to the same format only, goes to the *)
(* plane that was found, or chosen since.                                  *)
FlipFb ==
  /\ fb # None
  /\ Shows(fb.format, fbPlane, fb.chosen \/ fbPlane # fb.on)
  /\ UNCHANGED <<pipe, fbPlane>>

(* sunxi_drm_info_fb_ioctl(), or the data of a flip: a client chooses the  *)
(* plane, whatever it can show.                                            *)
InfoFb ==
  /\ \E c \in 0..(pipe[2] - 1) : fbPlane' = c
  /\ UNCHANGED <<pipe, fb, layout>>

Choose == Disabled \/ ByLcd \/ ByMode \/ Ask
Show == SetFb \/ FlipFb \/ InfoFb

Next ==
  \/ Choose /\ UNCHANGED planes
  \/ Show /\ UNCHANGED choice
Spec == Init /\ [][Next]_vars /\ WF_choice(Disabled \/ ByLcd \/ ByMode)

-----------------------------------------------------------------------------
(* When the search is over every enabled connector has a mode of its       *)
(* monitor, a crtc as long as there are crtcs, and none shares one         *)
(* (sunxi_drm_fbdev.c 379-453); and a mode that HDMI accepts is shown as   *)
(* it is: with its totals, and so its rate (sunxi_hdmi.c 179-290).         *)
ModesSound ==
  /\ i = 0 =>
       \A k \in 1..N :
         IF monitors[k].enabled
           THEN /\ \E j \in 1..Len(monitors[k].modes) : modes[k] = monitors[k].modes[j]
                /\ crtcOf[k] > 0 \/ taken = Crtcs
                /\ \A j \in 1..N \ {k} : crtcOf[k] = 0 \/ crtcOf[j] # crtcOf[k]
           ELSE modes[k] = None
  /\ asked # None /\ TimingOf(asked) # 0 =>
       LET t == Timings[TimingOf(asked)]
       IN t.ht = asked.ht /\ t.inter = asked.inter /\ Abs(RateOf(t) - asked.refresh) <= 1

(* The search ends.                                                        *)
Searching == i # 0
Found == i = 0
ModesEnd == Searching ~> Found

(* The plane that was found for a framebuffer can show its format, unless  *)
(* a client has chosen another; the engine is told of the framebuffer as   *)
(* DRM describes it, every colour plane with the size of its own lines     *)
(* (sunxi_drm_plane.c 231-427, 514-645); and a format is translated back   *)
(* to what it was (111-229).                                               *)
LayoutSound ==
  fb # None =>
    /\ fb.format \in PlaneFormats(fb.on) \/ fb.chosen
    /\ layout.ok /\ layout.divides
    /\ Len(layout.planes) = Len(Drm(fb.format))
    /\ \A k \in 1..Len(layout.planes) :
         /\ layout.planes[k].w * Drm(fb.format)[k].bits = Pitch(fb, k) * 8
         /\ layout.planes[k].h = PlaneLines(fb, k)
    /\ FromDisp(fb.format) = fb.format
=============================================================================
