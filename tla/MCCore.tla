------------------------------- MODULE MCCore --------------------------------
(***************************************************************************)
(* The boot path, the image that it validates, the kernel's queue and bus, *)
(* the SD driver and its users, and the board controller in one instance   *)
(* for TLC.  They share no variable: a behaviour is one of one of the      *)
(* parts, the others standing idle (Boot in the USB loader).  Eight        *)
(* generations of the boot record, so that the counter wraps after a few   *)
(* boots, and four of the medium.                                          *)
(***************************************************************************)
EXTENDS Boot, Image, Kernel, Sd, Media, Devices

VARIABLE part   \* the component that this behaviour is of

coreVars == <<part, vars, imageVars, kernelVars, sdVars, mediaVars, devicesVars>>

Of(p) == part = p /\ UNCHANGED part
BootTurn(A) == Of("boot") /\ A /\ UNCHANGED <<imageVars, kernelVars, sdVars, mediaVars, devicesVars>>
ImageTurn(A) == Of("image") /\ A /\ UNCHANGED <<vars, kernelVars, sdVars, mediaVars, devicesVars>>
QueueTurn(A) == Of("queue") /\ A /\ UNCHANGED <<vars, imageVars, sdVars, mediaVars, devicesVars>>
BusTurn(A) == Of("bus") /\ A /\ UNCHANGED <<vars, imageVars, sdVars, mediaVars, devicesVars>>
CardTurn(A) == Of("card") /\ A /\ UNCHANGED <<vars, imageVars, kernelVars, mediaVars, devicesVars>>
MediaTurn(A) == Of("media") /\ A /\ UNCHANGED <<vars, imageVars, kernelVars, sdVars, devicesVars>>
ControllerTurn(A) ==
  Of("controller") /\ A /\ UNCHANGED <<vars, imageVars, kernelVars, sdVars, mediaVars>>

IdleBoot ==
  /\ image = TRUE /\ stage = "usb_loader"
  /\ copy = [s \in Sectors |-> Torn] /\ crashes = 0
  /\ scratch = "none" /\ bootsel = FALSE /\ dog = FALSE
  /\ writer = "bootloader" /\ ram = DefaultRecord
  /\ previous = "none" /\ tries = 0 /\ stalled = FALSE
IdleImage ==
  /\ manifest = [fault |-> "bad-header-crc", size |-> 0, offset |-> 0, entry |-> 0, vector |-> 0,
                 stackInRam |-> FALSE, reset |-> 0]
  /\ verdict = "none" /\ hashed = {} /\ checked = FALSE /\ entered = -1

MCInit ==
  /\ part \in {"boot", "image", "queue", "bus", "card", "media", "controller"}
  /\ IF part = "boot" THEN Init ELSE IdleBoot
  /\ IF part = "image" THEN ImageInit ELSE IdleImage
  /\ KernelInit /\ SdInit
  /\ MediaInit /\ (part # "media" => slot = NoCard /\ ~cable)
  /\ DevicesInit /\ (part # "controller" => controller = "gone")

\* An image is validated once.
Ended == (verdict \notin {"none", "valid"} \/ entered # -1) /\ UNCHANGED imageVars

MCNext ==
  \/ BootTurn(Next) \/ ImageTurn(ImageNext) \/ ImageTurn(Ended)
  \/ QueueTurn(QueueNext) \/ BusTurn(BusNext) \/ CardTurn(SdNext) \/ MediaTurn(MediaNext)
  \/ ControllerTurn(DevicesNext)

MCSpec ==
  /\ MCInit /\ [][MCNext]_coreVars
  /\ WF_coreVars(BootTurn(FirmwareStep))
  /\ WF_coreVars(BootTurn(WatchdogFires))
  /\ WF_coreVars(QueueTurn(QueueStep))
  /\ WF_coreVars(QueueTurn(TimePasses))
  /\ WF_coreVars(MediaTurn(Loop))
  /\ WF_coreVars(ControllerTurn(MainStep))
=============================================================================
