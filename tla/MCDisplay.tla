-------------------------------- MODULE MCDisplay --------------------------------
(***************************************************************************)
(* The sunxi display driver in one run: its flips (DisplayFlip), power     *)
(* (DisplayPower), start (DisplayInit), rotation unit (Rotate), and the    *)
(* choice of modes and of planes (DisplayModes).  Each behaviour is one of *)
(* the component named by part.                                            *)
(***************************************************************************)
EXTENDS DisplayFlip

VARIABLES
  part,
  panel, st, half,
  board, phase, plan, held, made, lcd, serves, assigned, failed, misbuilt,
  task, queue, queried, active, current, hw, taskLock, pc, below, head, mine, ids, unit,
  missed, gone, misrun,
  monitors, asked, connector, ref, refMode, modes, crtcOf, taken,
  pipe, fbPlane, fb, layout

PO == INSTANCE DisplayPower WITH
        Panels <- {"hdmi", "lvds", "dsi"}, Modes <- {"m1", "m2"}, slips <- half

\* Boards with one LCD whose encoders serve either kind of panel, or both.
Supports(a, b) == [tcon0 |-> a, tcon1 |-> b]
Board(first, seconds, supports) ==
  [lcd0 : first, lcd1 : seconds, hdmi : BOOLEAN, supports : {supports}]
Lcds == {"dsi", "lvds"}
MCBoards ==
  Board(Lcds, {"none"}, Supports({"lcd"}, {"hdmi"}))
  \cup Board(Lcds, Lcds \cup {"none"}, Supports({"lcd", "hdmi"}, {"lcd", "hdmi"}))

\* What may fail: all up to the channel of the crtc, the encoders, the panels but for what
\* is private to the LCD's, HDMI's panel and the rotation unit.
Parts(owner, what) == {owner} \X what
Made == {"panel", "connector", "encoder", "sysfs"}
MCMayFail ==
  {<<"drm", "private">>, <<"display", "registers">>, <<"hdmi", "panel">>}
  \cup Parts("crtc", {"hwres", "crtc", "zpos"})
  \cup UNION {Parts(e, {"hwres", "encoder"}) : e \in {"tcon0", "tcon1"}}
  \cup UNION {Parts(l, Made) : l \in Lcds}
  \cup Parts("rotate", {"registers", "irq", "private", "clock"})

DI == INSTANCE DisplayInit WITH
        Boards <- MCBoards, Unloads <- FALSE, wrong <- misbuilt,
        MayFail <- MCMayFail

\* Two clients and two tasks.
RO == INSTANCE Rotate WITH
        Threads <- {"t1", "t2"}, Tasks <- {"k1", "k2"}, GuessesIds <- FALSE,
        Retries <- FALSE, IdFails <- FALSE, BadIds <- FALSE, lock <- taskLock, wrong <- misrun

\* Two crtcs for up to three connectors, an LCD among them.  A mode is a width and a height.
Panel(on) == [kind |-> "lcd", enabled |-> on, cmdline |-> None, modes |-> <<<<800, 480>>>>]
Screen(on, ms) == [kind |-> "hdmi", enabled |-> on, cmdline |-> None, modes |-> ms]
MCScreens ==
  {Screen(on, ms) : on \in BOOLEAN,
     ms \in {<<<<1280, 720>>>>, <<<<1920, 1080>>, <<1280, 720>>>>,
             <<<<720, 576>>, <<1280, 720>>, <<1920, 1080>>>>, <<<<640, 480>>>>}}
MCMonitors ==
  {<<s>> : s \in MCScreens} \cup {<<Panel(on), s>> : on \in BOOLEAN, s \in MCScreens}
  \cup {<<s, Panel(on)>> : on \in BOOLEAN, s \in MCScreens}
  \cup {<<s, Panel(TRUE), t>> : s, t \in MCScreens}

\* What monitors offer, and a mode for which there is no timing.
Hdmi(w, h, ht, inter, refresh) ==
  [w |-> w, h |-> h, ht |-> ht, inter |-> inter, refresh |-> refresh]
MCHdmiModes ==
  {Hdmi(720, 480, 858, FALSE, 60), Hdmi(720, 576, 864, FALSE, 50),
   Hdmi(1280, 720, 1650, FALSE, 60), Hdmi(1280, 720, 1980, FALSE, 50),
   Hdmi(1920, 1080, 2200, TRUE, 60), Hdmi(1920, 1080, 2640, TRUE, 50),
   Hdmi(1920, 1080, 2200, FALSE, 60), Hdmi(1920, 1080, 2640, FALSE, 50),
   Hdmi(1920, 1080, 2200, FALSE, 30), Hdmi(1920, 1080, 2640, FALSE, 25),
   Hdmi(1920, 1080, 2750, FALSE, 24), Hdmi(3840, 2160, 4400, FALSE, 30),
   Hdmi(3840, 2160, 5280, FALSE, 25), Hdmi(1366, 768, 1792, FALSE, 60)}

\* Planes show all formats but the two that the driver does not describe as DRM does.
D0 == INSTANCE DisplayModes WITH
        Monitors <- {}, Crtcs <- {}, HdmiModes <- {}, i <- connector,
        Formats <- {}, Sizes <- {}, Packs <- {}, Pads <- {}, Pipes <- {}
DM == INSTANCE DisplayModes WITH
        Monitors <- MCMonitors, Crtcs <- {1, 2}, HdmiModes <- MCHdmiModes, i <- connector,
        Formats <- D0!Video \ {"BGR888", "ARGB4444"}, Sizes <- {<<8, 4>>, <<16, 2>>},
        Packs <- {FALSE}, Pads <- {0}, Pipes <- {<<1, 2>>, <<1, 4>>, <<0, 2>>}

power == <<panel, st, half>>
init == <<board, phase, plan, held, made, lcd, serves, assigned, failed, misbuilt>>
rotate == <<task, queue, queried, active, current, hw, taskLock, pc, below, head, mine, ids, unit,
            missed, gone, misrun>>
choice == <<monitors, asked, connector, ref, refMode, modes, crtcOf, taken>>
planes == <<pipe, fbPlane, fb, layout>>

PartInit ==
  /\ part \in {"flips", "power", "init", "rotate", "modes", "planes"}
  /\ Init /\ PO!Init /\ DI!Init /\ RO!Init /\ DM!Init
  /\ part # "power" => panel = "hdmi"
  /\ part # "init" => board = CHOOSE b \in MCBoards : TRUE
  /\ part # "modes" => monitors = CHOOSE m \in MCMonitors : TRUE
  /\ part # "planes" => pipe = <<1, 2>>

PartNext ==
  /\ \/ part = "flips" /\ Next /\ UNCHANGED <<power, init, rotate, choice, planes>>
     \/ part = "power" /\ PO!Next /\ UNCHANGED <<vars, init, rotate, choice, planes>>
     \/ part = "init" /\ DI!Next /\ UNCHANGED <<vars, power, rotate, choice, planes>>
     \/ part = "rotate" /\ RO!Next /\ UNCHANGED <<vars, power, init, choice, planes>>
     \/ part = "modes" /\ DM!Choose /\ UNCHANGED <<vars, power, init, rotate, planes>>
     \/ part = "planes" /\ DM!Show /\ UNCHANGED <<vars, power, init, rotate, choice>>
  /\ UNCHANGED part

\* The fairness of each component, in its own part.
FlipFairness ==
  /\ WF_vars(part = "flips" /\ (CommitStart \/ CommitEnd \/ QueueEvent \/ ModeSet \/ ModeSetEnd))
  /\ WF_vars(part = "flips" /\ SyncCommit)
  /\ SF_vars(part = "flips" /\ Vsync /\ flips' = <<>>)

RotateFairness ==
  /\ \A c \in {"t1", "t2", "irq"} : WF_rotate(part = "rotate" /\ RO!GoesOn(c))
  /\ SF_rotate(part = "rotate" /\ RO!Lock("irq"))

ModesFairness == WF_choice(part = "modes" /\ (DM!Disabled \/ DM!ByLcd \/ DM!ByMode))

PartSpec ==
  /\ PartInit
  /\ [][PartNext]_<<part, vars, power, init, rotate, choice, planes>>
  /\ FlipFairness /\ RotateFairness /\ ModesFairness


\* A flip gets its event while its interrupt comes and the display has not gone off under
\* it; the handler of the rotation unit returns, unless it has interrupted the thread that
\* has its spin lock; and the choice of modes ends.
DisplayEnds ==
     \/ part = "flips" /\ Waiting
     \/ part = "rotate" /\ RO!Handling
     \/ part = "modes" /\ DM!Searching
  ~> \/ part = "flips" /\ Answered
     \/ part = "rotate" /\ RO!Handled
     \/ part = "modes" /\ DM!Found
================================================================================
