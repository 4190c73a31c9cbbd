-------------------------------- MODULE H3Display --------------------------------
(***************************************************************************)
(* The display driver for the H3 SoC (libwayland_for_mali/h3/sunxi) on     *)
(* Linux 3.4: GEM objects, framebuffers and dma-bufs; mode setting, page   *)
(* flips and power of one display; loading and unloading.  The display     *)
(* engine takes a layer over at the next vertical blank and reads the      *)
(* memory whose addresses it was given, whatever has become of it.         *)
(***************************************************************************)
EXTENDS Naturals, Sequences, FiniteSets

CONSTANTS
  Gems, Fbs, None,
  MaxUses,     \* bound: handles and file descriptors of an object, flips that are pending
  Kinds,       \* of memory: "contig", "pages" or "foreign"
  Formats,     \* of framebuffers that clients ask for
  Output,      \* "hdmi" or "lcd"
  Modes,       \* that clients ask for
  LoadFails,   \* steps of sunxi_drm_load() that may fail
  Happens      \* of what the passing run leaves out, what may happen: see the uses

VARIABLES
  drv,      \* loaded: the device is there, hook: the engine calls sunxi_drm_blank_handle(),
            \* output: it has an encoder and a connector
  gem,      \* object -> references, memory ("none", "contig", "pages" or "foreign"), handles, mappings
  fb,       \* framebuffer -> its three objects and the planes of its format, or Unmade
  crtc,     \* fb, mode, dpms (on), events: asked for and not yet sent, pending_flip
  conn,     \* connector->dpms (on) and dpms_now (on)
  engine,   \* power of the manager, mode of its device, layer: committed, scan: what it reads
  off,      \* a call that turns the display off waits for the flips
  buf,      \* object -> its dma-buf: file descriptors, whether a device has it and has mapped it
  slips,    \* history: why the engine may be without power or read what it should not
  wrong     \* what went wrong

vars == <<drv, gem, fb, crtc, conn, engine, off, buf, slips, wrong>>

Unused == [refs |-> 0, memory |-> "none", handles |-> 0, vmas |-> 0]
Made(k) == [refs |-> 1, memory |-> k, handles |-> 1, vmas |-> 0]
NoLayer == [addr |-> <<None, None, None>>, planes |-> 0]
Unmade == [objs |-> <<None, None, None>>, planes |-> 0]   \* no framebuffer
Panel == "720p60"   \* the size of the panel; what the device shows at first
NoBuf == [fds |-> 0, att |-> FALSE, mapped |-> FALSE]

Init ==
  /\ drv = [loaded |-> FALSE, hook |-> FALSE, output |-> FALSE]
  /\ gem = [g \in Gems |-> Unused] /\ fb = [f \in Fbs |-> Unmade]
  /\ crtc = [fb |-> None, mode |-> None, dpms |-> FALSE, events |-> 0, pending |-> 0]
  /\ conn = [dpms |-> FALSE, now |-> TRUE]
  /\ \E dark \in BOOLEAN :   \* the boot loader has not turned the display on
       /\ engine = [power |-> ~dark, mode |-> Panel, layer |-> NoLayer, scan |-> NoLayer]
       /\ slips = IF dark THEN {"dark"} ELSE {}
  /\ off = FALSE /\ buf = [g \in Gems |-> NoBuf] /\ wrong = {}

-----------------------------------------------------------------------------
(* sunxi_drm_crtc_create(): what it has got is lost when a later step      *)
(* fails; vsync_enable is set from the start.                              *)
CrtcCreateFails(f) == f \in {"crtc", "layer", "manager"}
CrtcLeaks(f) == f \in {"layer", "manager"}

(* sunxi_drm_crtc_destroy() frees the crtc and forgets its commit_layer.   *)
CrtcDestroyLeaks == {"commit layer"}

(* sunxi_drm_device_register(): a display without encoder or connector is  *)
(* passed over; sunxi_drm_connector_create() undoes what it did.           *)
EncoderCreate(f) == f # "encoder"
ConnectorCreate(f) == f # "connector"
DeviceRegister(f) == [loaded |-> TRUE, hook |-> TRUE, output |-> EncoderCreate(f) /\ ConnectorCreate(f)]

(* sunxi_drm_load() and sunxi_drm_unload(), which leaves the engine its    *)
(* hook.                                                                   *)
Load(f) ==
  /\ drv' = IF CrtcCreateFails(f) \/ f \in {"private", "vblank"} THEN drv ELSE DeviceRegister(f)
  /\ wrong' = wrong \cup (IF CrtcLeaks(f) THEN {"crtc"} ELSE {})
                    \cup (IF f = "vblank" THEN CrtcDestroyLeaks ELSE {})

Unload == drv' = [drv EXCEPT !.loaded = FALSE] /\ wrong' = wrong \cup CrtcDestroyLeaks

Probe ==
  /\ IF drv.loaded THEN "unload" \in Happens /\ Unload
     ELSE ~drv.hook /\ \E f \in LoadFails \cup {None} : Load(f)
  /\ UNCHANGED <<gem, fb, crtc, conn, engine, off, buf, slips>>

-----------------------------------------------------------------------------
(* Bound: when one of these has happened, clients ask for nothing more.    *)
Asking == slips \subseteq {"dark"}

Live(g) == gem[g].refs > 0
Contig(g) == gem[g].memory # "pages"
Unref(gs, g) ==   \* sunxi_drm_gem_destroy() with the last reference
  IF gs[g].refs = 1 THEN [gs EXCEPT ![g] = Unused] ELSE [gs EXCEPT ![g].refs = @ - 1]

(* contig_buf_alloc() undoes what it did when a step fails, and            *)
(* nocontig_buf_alloc() loses a page, its page_info or the table; and      *)
(* sunxi_drm_gem_create() loses the object.                                *)
ContigAllocLeaks == {}
NocontigAllocLeaks == {"pages"}
GemCreateLeaks(k) == {"object"} \cup (IF k = "contig" THEN ContigAllocLeaks ELSE NocontigAllocLeaks)

(* sunxi_drm_gem_dumb_create()                                             *)
DumbCreate ==
  /\ drv.loaded /\ Asking
  /\ \E g \in Gems, k \in Kinds \ {"foreign"} :
       /\ ~Live(g)
       /\ \E ok \in {TRUE, "no memory" \notin Happens} :
            /\ gem' = IF ok THEN [gem EXCEPT ![g] = Made(k)] ELSE gem
            /\ wrong' = wrong \cup (IF ok THEN {} ELSE GemCreateLeaks(k))
  /\ UNCHANGED <<drv, fb, crtc, conn, engine, off, buf, slips>>

DumbDestroy ==
  /\ \E g \in Gems : gem[g].handles > 0 /\ gem' = Unref([gem EXCEPT ![g].handles = @ - 1], g)
  /\ UNCHANGED <<drv, fb, crtc, conn, engine, off, buf, slips, wrong>>

(* sunxi_drm_gem_mmap(): the core takes a reference for the mapping; flags *)
(* were checked when the object was made.                                  *)
Mmap ==
  /\ Asking
  /\ \E g \in Gems :
       /\ gem[g].handles > 0 /\ gem[g].vmas < MaxUses
       /\ gem' = [gem EXCEPT ![g].vmas = @ + 1, ![g].refs = @ + 1]
  /\ UNCHANGED <<drv, fb, crtc, conn, engine, off, buf, slips, wrong>>

Munmap ==
  /\ \E g \in Gems : gem[g].vmas > 0 /\ gem' = Unref([gem EXCEPT ![g].vmas = @ - 1], g)
  /\ UNCHANGED <<drv, fb, crtc, conn, engine, off, buf, slips, wrong>>

(* sunxi_dmabuf_prime_import() of another driver's memory: every failure   *)
(* undoes what came before it.                                             *)
ImportForeign ==
  /\ drv.loaded /\ Asking /\ "foreign" \in Kinds
  /\ \E g \in Gems : ~Live(g) /\ gem' = [gem EXCEPT ![g] = Made("foreign")]
  /\ UNCHANGED <<drv, fb, crtc, conn, engine, off, buf, slips, wrong>>

(* sunxi_dmabuf_prime_export(): the reference of the core's lookup stays   *)
(* with the dma-buf.                                                       *)
Export ==
  /\ Asking
  /\ \E g \in Gems :
       /\ gem[g].handles > 0 /\ gem[g].memory # "foreign" /\ buf[g].fds < MaxUses
       /\ buf' = [buf EXCEPT ![g].fds = @ + 1]
       /\ gem' = IF buf[g].fds = 0 /\ ~buf[g].att THEN [gem EXCEPT ![g].refs = @ + 1] ELSE gem
  /\ UNCHANGED <<drv, fb, crtc, conn, engine, off, slips, wrong>>

(* The last who has the dma-buf calls sunxi_dmabuf_release().              *)
DmabufGone(g, b) ==
  /\ buf' = [buf EXCEPT ![g] = b]
  /\ gem' = IF b.fds = 0 /\ ~b.att THEN Unref(gem, g) ELSE gem

CloseFd ==
  /\ \E g \in Gems : buf[g].fds > 0 /\ DmabufGone(g, [buf[g] EXCEPT !.fds = @ - 1])
  /\ UNCHANGED <<drv, fb, crtc, conn, engine, off, slips, wrong>>

(* sunxi_gem_attach_dma_buf() and sunxi_gem_map_dma_buf(): another         *)
(* direction makes another table and loses the first (README section 4);   *)
(* unmapping leaves everything to sunxi_gem_detach_dma_buf().              *)
Attach ==
  /\ Asking
  /\ \E g \in Gems : buf[g].fds > 0 /\ ~buf[g].att /\ buf' = [buf EXCEPT ![g].att = TRUE]
  /\ UNCHANGED <<drv, gem, fb, crtc, conn, engine, off, slips, wrong>>

MapDmaBuf ==
  /\ Asking
  /\ \E g \in Gems :
       /\ buf[g].att /\ ~buf[g].mapped
       /\ buf' = [buf EXCEPT ![g].mapped = TRUE]
       /\ wrong' = wrong \cup (IF Live(g) THEN {} ELSE {"freed pages"})
  /\ UNCHANGED <<drv, gem, fb, crtc, conn, engine, off, slips>>

Detach ==
  /\ \E g \in Gems : buf[g].att /\ DmabufGone(g, [buf[g] EXCEPT !.att = FALSE, !.mapped = FALSE])
  /\ UNCHANGED <<drv, fb, crtc, conn, engine, off, slips, wrong>>

-----------------------------------------------------------------------------
(* sunxi_drm_format_xchang(): formats that the engine lacks are refused,   *)
(* and sunxi_gem_fb_create() goes on with the error as the format.         *)
FormatXchang(f) ==
  CASE f = "XRGB8888" -> [name |-> "XRGB_8888", planes |-> 1]
    [] f = "NV12" -> [name |-> "YUV420_SP_UVUV", planes |-> 2]
    [] f = "YUV420" -> [name |-> "YUV420_P", planes |-> 3]
    [] OTHER -> [name |-> "EINVAL", planes |-> 3]

(* The objects a framebuffer is asked for, for all planes of its format or *)
(* for the first of them.                                                  *)
Handles(n) ==
  {o \in [1..3 -> Gems \cup {None}] :
     /\ \A i \in 1..3 : o[i] # None => i <= n /\ gem[o[i]].handles > 0
     /\ o[1] # None /\ (o[2] = None => o[3] = None)}
Missing(o, n) == \E i \in 1..n : o[i] = None

Uses(o, g) == Cardinality({i \in 1..3 : o[i] = g})

(* sunxi_gem_fb_create(): check_fb_gem_memory_type() looks at every object *)
(* but the first.                                                          *)
FbCreate ==
  /\ Asking
  /\ \E f \in Fbs, x \in Formats :
       \E o \in Handles(FormatXchang(x).planes) :
         /\ fb[f] = Unmade
         /\ \A i \in {2, 3} : o[i] # None => Contig(o[i])
         /\ fb' = [fb EXCEPT ![f] = [objs |-> o, planes |-> FormatXchang(x).planes]]
         /\ gem' = [g \in Gems |-> [gem[g] EXCEPT !.refs = @ + Uses(o, g)]]
         /\ slips' = slips \cup (IF Contig(o[1]) THEN {} ELSE {"pages"})
                          \cup (IF Missing(o, FormatXchang(x).planes) THEN {"missing planes"} ELSE {})
         /\ wrong' = wrong \cup (IF FormatXchang(x).name = "EINVAL" THEN {"format"} ELSE {})
  /\ UNCHANGED <<drv, crtc, conn, engine, off, buf>>

(* sunxi_drm_fb_destroy(): the core takes it from the display, which leads *)
(* to sunxi_drm_crtc_disable(), which does nothing.                        *)
DropAll_First(o) ==   \* mutant: only the first object
  [g \in Gems |-> IF g # o[1] THEN gem[g] ELSE
                  IF gem[g].refs = 1 THEN Unused ELSE [gem[g] EXCEPT !.refs = @ - 1]]

DropAll(o) == [g \in Gems |-> IF gem[g].refs = Uses(o, g) THEN Unused
                              ELSE [gem[g] EXCEPT !.refs = @ - Uses(o, g)]]
Shown(f) == \E l \in {engine.layer, engine.scan} : \E i \in 1..l.planes :
              l.addr[i] # None /\ Uses(fb[f].objs, l.addr[i]) > 0

FbDestroy ==
  /\ \E f \in Fbs :
       /\ fb[f] # Unmade
       /\ slips' = slips \cup (IF Shown(f) THEN {"removed"} ELSE {})
       /\ gem' = DropAll(fb[f].objs)
       /\ fb' = [fb EXCEPT ![f] = Unmade]
       /\ crtc' = IF crtc.fb = f THEN [crtc EXCEPT !.fb = None] ELSE crtc
  /\ UNCHANGED <<drv, conn, engine, off, buf, wrong>>

FbCreateHandle ==
  /\ Asking
  /\ \E f \in Fbs : \E g \in Gems :
       /\ fb[f] # Unmade /\ g = fb[f].objs[1] /\ gem[g].handles < MaxUses
       /\ gem' = [gem EXCEPT ![g].handles = @ + 1, ![g].refs = @ + 1]
  /\ UNCHANGED <<drv, fb, crtc, conn, engine, off, buf, slips, wrong>>

-----------------------------------------------------------------------------
(* sunxi_queue_display(): addresses of planes the framebuffer has not got  *)
(* stay what they were; the test for contiguous memory never holds.        *)
QueueDisplay(f) ==
  [addr |-> [i \in 1..3 |-> IF fb[f].objs[i] # None THEN fb[f].objs[i] ELSE engine.layer.addr[i]],
   planes |-> fb[f].planes]

(* sunxi_hdmi_support(), sunxi_lcd_support(): the modes a connector lists. *)
HdmiSupport(m) == m \in {"720p60", "1080p60"}
LcdSupport(m) == m = Panel
ModeValid(m) == IF Output = "hdmi" THEN HdmiSupport(m) ELSE LcdSupport(m)

(* sunxi_drm_encoder_mode_fixup() refuses a size the panel has not got,    *)
(* and any mode of HDMI passes.                                            *)
ModeFixup(m) == Output = "lcd" => LcdSupport(m)

(* sunxi_drm_crtc_mode_set(): the device is switched to a mode of HDMI it  *)
(* supports, and nothing is said of the others.                            *)
CrtcModeSet(m) == IF Output = "hdmi" /\ HdmiSupport(m) THEN m ELSE engine.mode

(* A configuration by the core, which also takes modes that the connector  *)
(* has not listed: sunxi_drm_crtc_mode_set(), then                         *)
(* sunxi_drm_crtc_commit(), sunxi_drm_connector_dpms() and                 *)
(* sunxi_drm_display_power() turn the display on.                          *)
ModeSet ==
  /\ drv.loaded /\ drv.output /\ ~off
  /\ \E f \in Fbs, m \in Modes :
       /\ fb[f] # Unmade /\ ModeFixup(m)
       /\ engine' = [engine EXCEPT !.layer = QueueDisplay(f), !.power = @ \/ ~conn.now,
                                   !.mode = CrtcModeSet(m)]
       /\ crtc' = [crtc EXCEPT !.fb = f, !.dpms = TRUE, !.mode = m]
       /\ conn' = [dpms |-> TRUE, now |-> TRUE]
  /\ UNCHANGED <<drv, gem, fb, off, buf, slips, wrong>>

(* sunxi_drm_connector_dpms(): on is the core's first and the manager's    *)
(* second, off the manager's first; sunxi_drm_crtc_dpms() then waits for   *)
(* the flips, which nothing ends any more.                                 *)
DpmsOn ==
  /\ drv.loaded /\ drv.output /\ ~off /\ ~conn.dpms /\ crtc.fb # None /\ Asking
  /\ conn' = [dpms |-> TRUE, now |-> TRUE]
  /\ crtc' = [crtc EXCEPT !.dpms = TRUE]
  /\ engine' = [engine EXCEPT !.power = @ \/ ~conn.now]
  /\ UNCHANGED <<drv, gem, fb, off, buf, slips, wrong>>

DpmsOff ==
  /\ drv.loaded /\ drv.output /\ ~off /\ conn.dpms /\ crtc.fb # None
  /\ engine' = [engine EXCEPT !.power = FALSE, !.scan = NoLayer]
  /\ conn' = [dpms |-> FALSE, now |-> FALSE]
  /\ off' = TRUE /\ slips' = slips \ {"dark"}
  /\ UNCHANGED <<drv, gem, fb, crtc, buf, wrong>>

CrtcDpmsOff ==
  /\ off /\ crtc.pending = 0
  /\ crtc' = [crtc EXCEPT !.dpms = FALSE]
  /\ off' = FALSE
  /\ UNCHANGED <<drv, gem, fb, conn, engine, buf, slips, wrong>>

(* sunxi_drm_crtc_page_flip(), with an event or without.                   *)
PageFlip ==
  /\ crtc.dpms /\ crtc.fb # None /\ ~off /\ Asking
  /\ \E f \in Fbs, event \in 0..1 :
       /\ fb[f] # Unmade /\ crtc.pending + event <= MaxUses
       /\ crtc' = [crtc EXCEPT !.fb = f, !.events = @ + event, !.pending = @ + event]
       /\ engine' = [engine EXCEPT !.layer = QueueDisplay(f)]
  /\ UNCHANGED <<drv, gem, fb, conn, off, buf, slips, wrong>>

(* The client closes its file: the core destroys its framebuffers and      *)
(* deletes its handles, and nothing takes back its events.                 *)
Close ==
  LET uses(g) == gem[g].handles + Cardinality({<<f, i>> \in Fbs \X (1..3) : fb[f].objs[i] = g})
  IN /\ \E g \in Gems : Live(g)
     /\ slips' = slips \cup {"removed" : f \in {f \in Fbs : fb[f] # Unmade /\ Shown(f)}}
     /\ gem' = [g \in Gems |-> IF gem[g].refs = uses(g) THEN Unused
                               ELSE [gem[g] EXCEPT !.refs = @ - uses(g), !.handles = 0]]
     /\ fb' = [f \in Fbs |-> Unmade]
     /\ crtc' = [crtc EXCEPT !.fb = None]
     /\ UNCHANGED <<drv, conn, engine, off, buf, wrong>>

(* sunxi_drm_crtc_finish_pageflip(): every event goes to its file, be it   *)
(* closed or not.  It has been taken off its list before list_move_tail()  *)
(* takes it off again, through the poison that is left: fatal unless the   *)
(* process that is interrupted has memory there.                           *)
FinishPageflip ==
  /\ crtc' = [crtc EXCEPT !.events = 0, !.pending = @ - crtc.events]
  /\ wrong' = wrong \cup (IF "poison" \in Happens /\ crtc.events > 0 THEN {"poison"} ELSE {})
                    \cup (IF drv.loaded THEN {} ELSE {"freed device"})

(* The vertical blank of a display that runs: sunxi_drm_blank_handle().    *)
Vsync ==
  /\ engine.power /\ drv.hook
  /\ engine' = [engine EXCEPT !.scan = engine.layer]
  /\ FinishPageflip
  /\ UNCHANGED <<drv, gem, fb, conn, off, buf, slips>>

Next ==
  \/ Probe \/ Close \/ Mmap \/ Munmap \/ DumbCreate \/ DumbDestroy \/ ImportForeign \/ Export
  \/ CloseFd \/ Attach \/ MapDmaBuf \/ Detach \/ FbCreate \/ FbDestroy \/ FbCreateHandle
  \/ ModeSet \/ DpmsOn \/ DpmsOff \/ CrtcDpmsOff \/ PageFlip \/ Vsync

Spec == Init /\ [][Next]_vars /\ WF_vars(Vsync) /\ WF_vars(CrtcDpmsOff)

-----------------------------------------------------------------------------
(* An object has a reference for each thing it is reached through, and     *)
(* only then, so its memory is freed with the last.  That keeps what the   *)
(* engine reads alive, and physically continuous (sunxi_crtc.c 42-50), as  *)
(* long as no client removes a framebuffer that is shown, makes one of     *)
(* single pages or leaves planes out: nothing refuses it.  A display that  *)
(* is on is powered, if it was at first, and in the mode it was given if   *)
(* its connector has listed it; every flip that waits has its event; and   *)
(* nothing is lost or called in a driver that is gone.                     *)
Holders(g) ==
  gem[g].handles + gem[g].vmas + Cardinality({<<f, i>> \in Fbs \X (1..3) : fb[f].objs[i] = g})
  + (IF buf[g].fds > 0 \/ buf[g].att THEN 1 ELSE 0)

DisplaySound ==
  /\ wrong = {}
  /\ \A g \in Gems : gem[g].refs = Holders(g)
  /\ crtc.pending = crtc.events
  /\ conn.dpms => /\ engine.power \/ "dark" \in slips
                  /\ ModeValid(crtc.mode) => engine.mode = crtc.mode
  /\ engine.power /\ slips = {} => \A i \in 1..engine.scan.planes :
       LET a == engine.scan.addr[i] IN a # None /\ Live(a) /\ Contig(a)
=============================================================================
