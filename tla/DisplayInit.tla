------------------------------ MODULE DisplayInit ------------------------------
(***************************************************************************)
(* Loading the display driver of the sunxi SoCs and unloading it again:    *)
(* sunxi_drm_load and sunxi_drm_unload (sunxi_drm_drv.c), sunxi_drm_init   *)
(* (sunxi_drm_core.c) and what they call for one crtc with a plane, the    *)
(* encoders, and a connector for every display the board has.  Connectors  *)
(* are made one by one: one that fails is skipped and the next is tried.   *)
(*                                                                         *)
(* A thing is <<owner, what>>.  The mode setting core destroys encoders,   *)
(* connectors, planes and crtcs when it is cleaned up, in that order.      *)
(***************************************************************************)
EXTENDS Naturals, Sequences, FiniteSets

CONSTANTS
  Boards,      \* what boards have: records of lcd0, lcd1, hdmi and supports, which
               \* gives the kinds of connector that each encoder can serve
  MayFail,     \* what may fail
  Unloads      \* whether the driver is unloaded

Lcds == {"dsi", "lvds"}
Encoders == {"tcon0", "tcon1"}

VARIABLES
  board,     \* the board
  phase,     \* "out", "loading" or "up"
  plan,      \* what is still to be made
  held,      \* what there is
  made,      \* the number of connectors
  lcd,       \* the number of LCD panels
  serves,    \* encoder -> the connector whose panel it points to, or "none"
  assigned,  \* encoder -> the connector it is given to, or "none"
  failed,    \* history: what has failed since the load began, "drm" if the load has
  wrong      \* what went wrong

vars == <<board, phase, plan, held, made, lcd, serves, assigned, failed, wrong>>

Of(owner, what) == [i \in 1..Len(what) |-> <<owner, what[i]>>]
All(things) == {things[i] : i \in DOMAIN things}

----------------------------------------------------------------------------
(* What is made, in order. *)

CrtcCreate == Of("crtc", <<"hwres", "crtc", "zpos", "channel", "layer", "planes", "configs",
                           "plane", "plane hwres", "global">>)
EncoderCreate(e) == Of(e, <<"hwres", "encoder">>)
LcdThings(k) == Of(k, <<"panel", "private", "driver", "connector", "encoder", "sysfs">>)
HdmiThings == Of("hdmi", <<"panel", "registers", "private", "connector", "encoder", "sysfs">>)
RotateInit == Of("rotate", <<"registers", "irq", "private", "clock">>)
FbdevCreate == Of("fbdev", <<"fbdev", "helper", "config">>)

\* The connectors are tried in the order of their modules.
Loading ==
  Of("drm", <<"private">>) \o Of("display", <<"registers">>) \o CrtcCreate \o EncoderCreate("tcon0")
  \o EncoderCreate("tcon1") \o Of("dsi", <<"try">>) \o Of("hdmi", <<"try">>) \o Of("lvds", <<"try">>)
  \o Of("count", <<"connectors">>) \o RotateInit \o Of("vblank", <<"vblank">>) \o FbdevCreate

\* These are steps that may fail but leave nothing to release.
Checks == {<<k, "driver">> : k \in Lcds} \cup {<<k, "encoder">> : k \in Lcds \cup {"hdmi"}}
          \cup {<<"count", "connectors">>, <<"fbdev", "config">>}

----------------------------------------------------------------------------
Init ==
  /\ board \in Boards
  /\ phase = "out" /\ plan = <<>> /\ held = {} /\ made = 0 /\ lcd = 0
  /\ serves = [e \in Encoders |-> "none"] /\ assigned = serves
  /\ failed = {} /\ wrong = {}

Load ==
  /\ phase = "out"
  /\ phase' = "loading" /\ plan' = Loading /\ made' = 0 /\ lcd' = 0
  /\ serves' = [e \in Encoders |-> "none"] /\ assigned' = serves'
  /\ failed' = {}
  /\ UNCHANGED <<board, held, wrong>>

Thing == Head(plan)
Owner == Thing[1]

\* The panel of a module: LCD panels are numbered as they are found.
Present(k) ==
  IF k = "hdmi" THEN board.hdmi
  ELSE lcd < 2 /\ k = (IF lcd = 0 THEN board.lcd0 ELSE board.lcd1)

\* sunxi_hwres_init, and sunxi_lcd_init or sunxi_hdmi_pan_init up to the panel: a module
\* without a panel is passed over and its resources are released.
Try ==
  /\ phase = "loading" /\ plan # <<>> /\ Thing[2] = "try"
  /\ IF made < Cardinality(Encoders) /\ Present(Owner)
       THEN /\ plan' = (IF Owner = "hdmi" THEN HdmiThings ELSE LcdThings(Owner)) \o Tail(plan)
            /\ held' = held \cup {<<Owner, "hwres">>}
       ELSE /\ plan' = Tail(plan)
            /\ UNCHANGED held
  /\ UNCHANGED <<board, phase, made, lcd, serves, assigned, failed, wrong>>

\* The encoder a connector gets, before it is made: the first that supports it and is
\* not taken.
Kind(k) == IF k = "hdmi" THEN "hdmi" ELSE "lcd"
Fitting(k) == {e \in Encoders : assigned[e] = "none" /\ Kind(k) \in board.supports[e]}
Fix ==
  IF Thing[2] = "connector" /\ Fitting(Owner) # {}
    THEN [assigned EXCEPT ![IF "tcon0" \in Fitting(Owner) THEN "tcon0" ELSE "tcon1"] = Owner]
    ELSE assigned

\* sunxi_encoder_assign_ops: an LCD without an encoder fails, HDMI goes on.
Assigns == Thing[2] = "encoder" /\ Owner \in Lcds \cup {"hdmi"}
Refused == Assigns /\ Owner # "hdmi" /\ \A e \in Encoders : assigned[e] # Owner

Acquire ==
  /\ phase = "loading" /\ plan # <<>> /\ Thing[2] # "try" /\ ~Refused
  /\ Thing = <<"count", "connectors">> => made > 0
  /\ held' = held \cup ({Thing} \ Checks)
  /\ plan' = Tail(plan)
  /\ assigned' = Fix
  /\ serves' = IF Assigns THEN [e \in Encoders |-> IF assigned[e] = Owner THEN Owner ELSE serves[e]]
                          ELSE serves
  /\ lcd' = IF Thing[2] = "driver" THEN lcd + 1 ELSE lcd
  /\ made' = IF Thing[2] = "sysfs" THEN made + 1 ELSE made
  /\ UNCHANGED <<board, phase, failed, wrong>>

----------------------------------------------------------------------------
(* Failing. *)

\* What is wrong with the way a failing function goes back.  sunxi_panel_destroy looks for
\* the connector, which is not there yet; a connector of HDMI is taken back as an LCD
\* one; and the properties of a crtc are destroyed for a device that is not set.
Mistake(thing) ==
  CASE thing[1] \in Lcds /\ thing[2] \in {"private", "driver"} -> {"no connector"}
    [] thing[1] = "hdmi" /\ thing[2] \in {"registers", "private"} -> {"no connector"}
    [] thing[1] = "hdmi" /\ thing[2] \in {"connector", "encoder", "sysfs"} -> {"wrong kind"}
    [] thing[1] = "crtc" /\ thing[2] \notin {"hwres", "crtc", "zpos"} -> {"no device"}
    [] OTHER -> {}

Connector(k) == {t \in held : t[1] = k}

\* What is released of a connector that fails: sunxi_lcd_destroy leaves the panel.
Back(thing) ==
  IF thing[2] \in {"connector", "encoder", "sysfs"}
    THEN Connector(thing[1]) \ {<<thing[1], "panel">>}
    ELSE Connector(thing[1])

\* The connector is skipped.  The encoder it was given stays taken and keeps the pointer
\* to the panel.
SkipConnector ==
  /\ phase = "loading" /\ plan # <<>> /\ Owner \in Lcds \cup {"hdmi"} /\ Thing[2] # "try"
  /\ Thing \in MayFail \/ Refused
  /\ held' = held \ Back(Thing)
  /\ wrong' = wrong \cup Mistake(Thing)
  /\ plan' = SelectSeq(plan, LAMBDA t : t[1] # Owner)
  /\ assigned' = Fix /\ failed' = failed \cup {Owner}
  /\ UNCHANGED <<board, phase, made, lcd, serves>>

\* Without the rotation unit the driver goes on; what was set up of it stays.
SkipRotate ==
  /\ phase = "loading" /\ plan # <<>> /\ Owner = "rotate" /\ Thing \in MayFail
  /\ plan' = SelectSeq(plan, LAMBDA t : t[1] # "rotate") /\ failed' = failed \cup {"rotate"}
  /\ UNCHANGED <<board, phase, held, made, lcd, serves, assigned, wrong>>

\* drm_mode_config_cleanup: what the destroy functions of the driver release.  That of the
\* connector of HDMI releases the resources twice and finds the private data by a type
\* that was never set.
Destroyed ==
  {t \in held : t[1] \in Encoders \cup Lcds}
  \cup {<<"crtc", w>> : w \in {"hwres", "crtc", "zpos", "channel", "layer", "planes", "plane"}}
  \cup {<<"hdmi", w>> : w \in {"hwres", "connector", "sysfs", "panel"}}

Twice == IF <<"hdmi", "sysfs">> \in held THEN {"resources of HDMI twice"} ELSE {}

\* Any other failure ends the load.  sunxi_drm_init has no value to return when it fails,
\* so the core may be told that all went well.
Ends ==
  \/ Thing \in MayFail /\ Owner \notin Lcds \cup {"hdmi", "rotate"}
  \/ Thing = <<"count", "connectors">> /\ made = 0

Told == IF phase = "up" \/ Owner \in {"drm", "vblank", "fbdev"} THEN {"out"} ELSE {"out", "up"}

\* The interrupt of the rotation unit is freed with the wrong argument on unload, and
\* without the unit its destroy function meets a null pointer.
NoRotate == IF phase = "up" /\ <<"rotate", "clock">> \notin held THEN {"no rotation unit"} ELSE {}

\* The way back of a load that fails, and sunxi_drm_unload.
TakeDown ==
  /\ IF phase = "up" THEN Unloads ELSE phase = "loading" /\ plan # <<>> /\ Ends
  /\ held' = held \ (Destroyed \cup {<<"drm", "private">>, <<"vblank", "vblank">>}
                      \cup {t \in held : t[1] = "fbdev"}
                      \cup {<<"rotate", w>> : w \in IF phase = "up" THEN {"private"} ELSE {}})
  /\ wrong' = wrong \cup Twice \cup NoRotate \cup (IF plan = <<>> THEN {} ELSE Mistake(Thing))
  /\ phase' \in Told
  /\ plan' = <<>> /\ failed' = IF phase = "up" THEN failed ELSE failed \cup {"drm"}
  /\ UNCHANGED <<board, made, lcd, serves, assigned>>

Loaded ==
  /\ phase = "loading" /\ plan = <<>>
  /\ phase' = "up"
  /\ UNCHANGED <<board, plan, held, made, lcd, serves, assigned, failed, wrong>>

Next == \/ Load \/ Try \/ Acquire \/ SkipConnector \/ SkipRotate \/ TakeDown \/ Loaded

Spec == Init /\ [][Next]_vars

----------------------------------------------------------------------------
\* Nothing is taken back in a way that does not fit it.  What is left after a load that has
\* failed is what the way back forgets, and neither an encoder nor a connector.  A driver
\* that is up, and whose load has not failed (the core may be told of one that has,
\* sunxi_drm_drv.c:59), has its crtc and its encoders; it counts the connectors that are
\* whole, and has the panel at most of the others; and an encoder points to the panel of a
\* connector that is there, unless that connector has failed, one connector each
\* (sunxi_drm_encoder.c:690, "must assign 1 times").
Whole(k) == IF k = "hdmi" THEN All(HdmiThings) \ Checks ELSE All(LcdThings(k)) \ Checks
Needed == All(Of("drm", <<"private">>)) \cup All(CrtcCreate) \cup All(EncoderCreate("tcon0"))
          \cup All(EncoderCreate("tcon1")) \cup {<<"vblank", "vblank">>}
Forgotten == {<<"display", "registers">>, <<"crtc", "configs">>, <<"crtc", "plane hwres">>, <<"crtc", "global">>}
             \cup {<<k, "panel">> : k \in Lcds}

InitSound ==
  /\ wrong = {}
  /\ phase = "out" => held \subseteq Forgotten
  /\ phase = "up" =>
       /\ "drm" \in failed \/ Needed \subseteq held
       /\ made = Cardinality({k \in Lcds \cup {"hdmi"} : Whole(k) \subseteq held})
       /\ \A k \in Lcds \cup {"hdmi"} : Connector(k) \subseteq {<<k, "panel">>} \/ Whole(k) \subseteq Connector(k)
       /\ "rotate" \in failed \/ All(RotateInit) \subseteq held \/ "drm" \in failed
       /\ \A e \in Encoders : serves[e] \notin failed \cup {"none"} =>
            /\ <<serves[e], "private">> \in held
            /\ \A f \in Encoders \ {e} : serves[f] # serves[e]
================================================================================
