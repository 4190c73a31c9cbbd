----------------------------- MODULE DisplayPower -----------------------------
(***************************************************************************)
(* The power of a display chain of the sunxi driver: crtc, encoder (the    *)
(* timing controller, TCON) and connector with its panel.  A mode set and  *)
(* DPMS reach the chain through the helpers of the mode setting core,      *)
(* which call the driver back part by part (sunxi_drm_crtc.c,              *)
(* sunxi_drm_encoder.c, sunxi_drm_connector.c); each part keeps flags of   *)
(* its clock and interrupt (sunxi_common.c).  The panels differ: HDMI      *)
(* (sunxi_hdmi.c) lets the helpers switch the encoder, while LVDS and DSI  *)
(* (sunxi_lcd.c) switch it from the panel's power sequence (en_ctl_by).    *)
(* Each call is a composition of what the parts do, in their order.        *)
(***************************************************************************)
EXTENDS Integers

CONSTANTS
  Panels,   \* what the chain may end in: "hdmi", "lvds" or "dsi"
  Modes,    \* display modes
  None

Levels == [on |-> 0, standby |-> 1, off |-> 3]

VARIABLES
  panel,
  st,      \* the state of the chain, see Init
  slips    \* history: calls that the driver answers with half of what is asked

vars == <<panel, st, slips>>

(* st: clk and irq of the parts ("free", "on" or "masked"), tcon: the mode *)
(* it sends, when open; lit: the panel or transmitter is on, with mode     *)
(* video; supply: how often each of the panel's supplies was switched on;   *)
(* gpio: the pins are requested, handle: and the driver knows it; light:   *)
(* backlight and PWM; dmps: the driver's state of the connector, dpms: the *)
(* core's; bound: the connector has its encoder and crtc.                  *)
Init ==
  /\ panel \in Panels
  /\ st = [clk |-> [crtc |-> FALSE, encoder |-> FALSE, connector |-> panel = "hdmi"],
           irq |-> [encoder |-> "free", connector |-> "free"],
           open |-> FALSE, tcon |-> None, lit |-> FALSE, video |-> None,
           supply |-> [w \in {"fix", "gpio", "pin"} |-> 0], gpio |-> FALSE, handle |-> FALSE, light |-> FALSE,
           dmps |-> "off", dpms |-> "off", bound |-> FALSE, mode |-> None]
  /\ slips = {}

(* Interrupts and clocks, by their flags.                                  *)
Request(s, p) == IF s.irq[p] = "free" THEN [s EXCEPT !.irq[p] = "on"] ELSE s
Free(s, p) == [s EXCEPT !.irq[p] = "free"]
Mask(s, p) == IF s.irq[p] = "on" THEN [s EXCEPT !.irq[p] = "masked"] ELSE s
Clock(s, p, on) == [s EXCEPT !.clk[p] = on]

ControlledByPanel == panel # "hdmi"       \* en_ctl_by

-----------------------------------------------------------------------------
(* The encoder.                                                            *)
TconReset(s) == Request(Clock(s, "encoder", TRUE), "encoder")
TconHdmiReset(s) == Request(s, "encoder")
EncoderReset(s) == IF panel = "hdmi" THEN TconHdmiReset(s) ELSE TconReset(s)

EncoderEnable(s) == [s EXCEPT !.open = TRUE]
EncoderDisable(s) == Clock(Free([s EXCEPT !.open = FALSE], "encoder"), "encoder", FALSE)

(* The timing controller of HDMI gets its clock with its mode.             *)
TconHdmiTiming(s, m) == [Clock(s, "encoder", TRUE) EXCEPT !.tcon = m]
TconTiming(s, m) == [s EXCEPT !.tcon = m]
EncoderTiming(s, m) == IF panel = "hdmi" THEN TconHdmiTiming(s, m) ELSE TconTiming(s, m)

(* sunxi_drm_encoder_dpms().                                               *)
EncoderDpms(s, d) ==
  CASE d = "on" -> IF ControlledByPanel \/ ~s.bound THEN s ELSE EncoderEnable(s)
    [] d = "standby" -> Mask(s, "encoder")
    [] d = "off" -> IF ControlledByPanel /\ s.bound THEN s ELSE EncoderDisable(s)

(* The crtc: its interrupt is never requested.                             *)
CrtcDpms(s, d) == CASE d = "on" -> Clock(s, "crtc", s.bound \/ s.clk.crtc)
                    [] d = "standby" -> s
                    [] d = "off" -> Clock(s, "crtc", FALSE)

-----------------------------------------------------------------------------
(* The connector and its panel.  HDMI's pins are requested again when they *)
(* are given back, which fails, so they stay.                              *)
Pins(s) == [s EXCEPT !.gpio = TRUE, !.handle = ~s.gpio]

HdmiTiming(s) == [s EXCEPT !.video = s.mode]
HdmiOpen(s) == [Pins(s) EXCEPT !.lit = TRUE]
HdmiClose(s) == Free([s EXCEPT !.lit = FALSE, !.handle = FALSE], "connector")

(* The power sequence of an LCD: fixed supplies, pins with a supply of     *)
(* their own, requested without a look at the handle, the panel's pins,    *)
(* its external power, then the encoder, and the backlight at the end; the *)
(* other way round to close it.                                            *)
Supply(s, what, n) == [s EXCEPT !.supply[what] = @ + n]
FixPower(s, n) == Supply(s, "fix", n)
GpioRequest(s) == Pins(Supply(s, "gpio", 1))
GpioRelease(s) == Supply([s EXCEPT !.gpio = @ /\ ~s.handle, !.handle = FALSE], "gpio", -1)
PinEnable(s) == Supply(s, "pin", 1)
PinDisable(s) == Supply(s, "pin", -1)
ExternPower(s, on) == [s EXCEPT !.lit = on]
Backlight(s, on) == [s EXCEPT !.light = on]
SetBright(s) == Backlight(s, TRUE)

ChainEnable(s) == EncoderEnable(s)
ChainDisable(s) == IF s.bound THEN EncoderDisable(s) ELSE s
DefaultOpen(s) == ChainEnable(ExternPower(s, TRUE))
DefaultClose(s) == ExternPower(ChainDisable(s), FALSE)

LcdEnable(s) ==
  [SetBright(DefaultOpen(PinEnable(GpioRequest(FixPower(s, 1))))) EXCEPT !.video = s.mode]

LcdDisable(s) ==
  LET dark == Backlight(Free(s, "connector"), FALSE)
  IN FixPower(GpioRelease(Clock(PinDisable(DefaultClose(dark)), "connector", FALSE)), -1)

PanelOpen(s) == IF panel = "hdmi" THEN HdmiOpen(HdmiTiming(s)) ELSE LcdEnable(s)
PanelClose(s) == IF panel = "hdmi" THEN HdmiClose(s) ELSE LcdDisable(s)

(* The reset of a connector: with DSI the interrupt of the connector takes *)
(* over.                                                                   *)
DsiReset(s) == Clock(Request(Free(s, "encoder"), "connector"), "connector", TRUE)
OtherReset(s) == Clock(s, "connector", TRUE)
ConnectorReset(s) == IF panel = "dsi" THEN DsiReset(s) ELSE OtherReset(s)

(* sunxi_drm_display_power(): only off to on and on to off do anything.    *)
DisplayPower(s, d) ==
  CASE d = "on" /\ ~s.bound -> s
    [] d = "on" /\ s.bound ->
         [(IF s.dmps = "on" THEN s ELSE PanelOpen(ConnectorReset(s))) EXCEPT !.dmps = d]
    [] d = "standby" -> [s EXCEPT !.dmps = d]
    [] d = "off" -> [(IF s.dmps = "on" THEN PanelClose(s) ELSE s) EXCEPT !.dmps = d]

(* drm_helper_connector_dpms() of the core: up from the crtc, down to it.  *)
HelperDpms(s, d) ==
  LET t == [s EXCEPT !.dpms = d]
  IN CASE d = s.dpms \/ ~s.bound -> t
       [] Levels[d] < Levels[s.dpms] -> EncoderDpms(CrtcDpms(t, d), d)
       [] Levels[d] > Levels[s.dpms] -> CrtcDpms(EncoderDpms(t, d), d)

(* sunxi_drm_connector_dpms(): the panel goes down first and comes up last. *)
ConnectorDpms(s, d) ==
  IF Levels[d] >= Levels[s.dmps] THEN HelperDpms(DisplayPower(s, d), d)
                                 ELSE DisplayPower(HelperDpms(s, d), d)

-----------------------------------------------------------------------------
(* A mode set: drm_crtc_helper_set_mode() prepares encoder and crtc, sets  *)
(* the mode and commits; the core then asks for DPMS on.                   *)
Prepared(s) == CrtcDpms(EncoderReset(IF ControlledByPanel THEN s ELSE EncoderDisable(s)), "on")
Committed(s) == IF ControlledByPanel THEN s ELSE EncoderEnable(s)

SetMode ==
  /\ \E m \in Modes :
       /\ slips' = IF st.dmps # "on" THEN slips \cap {"standby", "disabled"}
                   ELSE IF panel # "hdmi" THEN slips \cup {"reset"}
                   ELSE IF m # st.video THEN slips \cup {"changed"} ELSE slips
       /\ LET s == [st EXCEPT !.bound = TRUE, !.mode = m]
          IN st' = ConnectorDpms(Committed(EncoderTiming(Prepared(s), m)), "on")
  /\ UNCHANGED panel

(* DPMS from a client: on without a mode set is a slip.                    *)
Dpms ==
  /\ \E d \in {"on", "standby", "off"} \ {st.dpms} :
       /\ st' = ConnectorDpms(st, d)
       /\ slips' = slips \cup (CASE d = "on" -> {"woken"} [] d = "standby" -> {"standby"} [] d = "off" -> {})
  /\ st.supply.fix < 2             \* bound: unbalanced supplies
  /\ UNCHANGED panel

(* drm_helper_disable_unused_functions() when the crtc has no framebuffer: *)
(* the connector loses its encoder, encoder and crtc are disabled, the     *)
(* driver is not told of the connector, and the core may say that it is    *)
(* off.                                                                    *)
DisableCrtc ==
  /\ st.bound
  /\ \E d \in {st.dpms, "off"} :
       st' = Clock(EncoderDisable([st EXCEPT !.bound = FALSE, !.dpms = d]), "crtc", FALSE)
  /\ slips' = IF st.dmps = "on" THEN slips \cup {"disabled"} ELSE slips
  /\ UNCHANGED panel

Next == SetMode \/ Dpms \/ DisableCrtc
Spec == Init /\ [][Next]_vars

-----------------------------------------------------------------------------
(* A display that is on has its clocks, one interrupt that counts frames,  *)
(* its timing controller open and the panel on with the same mode          *)
(* (sunxi_drm_encoder.c 92-96: "on :clk, irq, output ok"); one that is off *)
(* has none of it; and the supplies and pins of the panel are switched on  *)
(* as often as off (sunxi_lcd.c 1033-1084).  After standby none of it      *)
(* holds; a panel that was on when its crtc was disabled stays on; and a   *)
(* display that was switched on by DPMS alone, or set while it was on, is  *)
(* not whole until it has been off and is set again.                       *)
Interrupts == {p \in {"encoder", "connector"} : st.irq[p] = "on"}

OnIsWhole ==
  st.dpms = "on" /\ st.bound /\ slips \subseteq {"disabled"} =>
    /\ \A p \in {"crtc", "encoder", "connector"} : st.clk[p]
    /\ \E p \in {"encoder", "connector"} : Interrupts = {p}
    /\ st.open /\ st.lit /\ st.tcon = st.video

OffIsOff ==
  st.dpms = "off" /\ slips \cap {"standby", "disabled"} = {} =>
    /\ ~st.clk.crtc /\ ~st.clk.encoder /\ (panel # "hdmi" => ~st.clk.connector)
    /\ Interrupts = {} /\ ~st.open /\ ~st.lit /\ ~st.light

SuppliesBalanced ==
  "standby" \notin slips =>
    /\ \A w \in DOMAIN st.supply : st.supply[w] = (IF st.lit /\ panel # "hdmi" THEN 1 ELSE 0)
    /\ panel # "hdmi" => st.gpio = st.handle /\ st.handle = st.lit

PowerSound == OnIsWhole /\ OffIsOff /\ SuppliesBalanced
=============================================================================
