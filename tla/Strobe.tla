------------------------------- MODULE Strobe -------------------------------
(***************************************************************************)
(* The strobe of kernel/openipc_frame_ts/openipc_frame_ts.c: a GPIO that   *)
(* follows a sensor's frames.  openipc_frame_ts_push drives it from        *)
(* interrupt handlers without a lock, a timer ends a pulse, and writes to  *)
(* sysfs, one at a time under g_strobe_lock, change the GPIO, the mode and *)
(* the polarity.                                                           *)
(*                                                                         *)
(* Time is counted in ticks: a frame, its readout and a pulse have their   *)
(* lengths.  Handlers and the timer's callback end within the tick they    *)
(* begin in; a write may take any time.                                    *)
(***************************************************************************)
EXTENDS Integers

CONSTANTS
  Pins,        \* GPIOs the strobe may be given
  NoPin,       \* g_strobe_gpio = -1
  Modes,       \* the modes sysfs is asked for
  MayMove,     \* TRUE: a GPIO once given may be taken away or changed
  FrameTicks,  \* from one MIPI_FS to the next
  ReadTicks,   \* from MIPI_FS to ISP_FEND
  PulseTicks   \* strobe_pulse_us

ASSUME StrobeAssumption ==
  /\ NoPin \notin Pins
  /\ Modes \subseteq {"off", "pulse", "hold"} /\ MayMove \in BOOLEAN
  /\ ReadTicks \in Nat \ {0} /\ PulseTicks \in Nat \ {0}
  /\ FrameTicks \in Nat /\ ReadTicks < FrameTicks

VARIABLES
  phase, rows,  \* ticks since MIPI_FS; ISP_FEND has yet to come
  gpio, mode, low,  \* g_strobe_gpio, g_strobe_mode, g_strobe_active_low
  lit,          \* the pins at their active level
  timer,        \* ticks until g_strobe_timer is due, or Off
  cb,           \* the callback: the pin and the polarity it read
  isr,          \* the handler: the event and what it read
  w,            \* the write in progress: its next step and its argument
  by,           \* history: the mode the pin was last lit in since it was given,
                \* or "turned": lit by a polarity that was no longer so
  steady        \* history: no write since the frame began, in hold mode

vars == <<phase, rows, gpio, mode, low, lit, timer, cb, isr, w, by, steady>>

Off    == -1
IdleCb == [at |-> "idle", pin |-> NoPin, low |-> FALSE]
NoIsr  == [at |-> "idle", evt |-> "FS", pin |-> NoPin, mode |-> "off", low |-> FALSE]
NoWrite == [at |-> "idle", arg |-> NoPin]

Init ==
  /\ phase = FrameTicks /\ rows = FALSE
  /\ gpio = NoPin /\ mode = "off" /\ low = FALSE
  /\ lit = {} /\ timer = Off
  /\ cb = IdleCb /\ isr = NoIsr /\ w = NoWrite
  /\ by = "off" /\ steady = FALSE

-----------------------------------------------------------------------------
(* Frames *)

Quiet == isr.at = "idle" /\ cb.at = "idle"

Tick ==
  /\ Quiet /\ timer # 0
  /\ phase < FrameTicks /\ ~(rows /\ phase = ReadTicks)
  /\ phase' = phase + 1
  /\ timer' = IF timer = Off THEN Off ELSE timer - 1
  /\ UNCHANGED <<rows, gpio, mode, low, lit, cb, isr, w, by, steady>>

\* strobe_on_event reads the GPIO ...
Enter(e) ==
  /\ isr' = [at |-> "mode", evt |-> e, pin |-> gpio, mode |-> "off", low |-> FALSE]
  /\ steady' = IF e = "FS" THEN gpio # NoPin /\ mode = "hold" /\ w = NoWrite
               ELSE steady
  /\ UNCHANGED <<gpio, mode, low, lit, timer, cb, w, by>>

FrameStart ==
  /\ isr.at = "idle" /\ phase = FrameTicks
  /\ phase' = 0 /\ rows' = TRUE /\ Enter("FS")

FrameEnd ==
  /\ isr.at = "idle" /\ rows /\ phase = ReadTicks
  /\ rows' = FALSE /\ UNCHANGED phase /\ Enter("FEND")

-----------------------------------------------------------------------------
(* strobe_on_event and strobe_timer_cb *)

IsrGoto(l) == isr' = [isr EXCEPT !.at = l]
IsrReturn  == isr' = NoIsr

\* (seeded fault: it does not look whether there is a GPIO)
IsrModeUnchecked ==
  /\ isr.at = "mode"
  /\ IF mode = "off" THEN IsrReturn
     ELSE isr' = [isr EXCEPT !.at = "level", !.mode = mode]
  /\ UNCHANGED <<phase, rows, gpio, mode, low, lit, timer, cb, w, by, steady>>

\* (seeded fault: ISP_FEND taken for the end of the frame in pulse mode only)
IsrModePulse ==
  /\ isr.at = "mode"
  /\ IF isr.pin = NoPin \/ mode = "off" \/ (isr.evt = "FEND" /\ mode # "pulse")
       THEN IsrReturn
       ELSE isr' = [isr EXCEPT !.at = "level", !.mode = mode]
  /\ UNCHANGED <<phase, rows, gpio, mode, low, lit, timer, cb, w, by, steady>>

\* ... and then the mode.  An ISP_FEND changes the pin in hold mode only.
IsrMode ==
  /\ isr.at = "mode"
  /\ IF isr.pin = NoPin \/ mode = "off" \/ (isr.evt = "FEND" /\ mode # "hold")
       THEN IsrReturn
       ELSE isr' = [isr EXCEPT !.at = "level", !.mode = mode]
  /\ UNCHANGED <<phase, rows, gpio, mode, low, lit, timer, cb, w, by, steady>>

\* strobe_active_level, and after it gpio_set_value: a write may come between.
IsrLevel ==
  /\ isr.at = "level"
  /\ isr' = [isr EXCEPT !.at = "set", !.low = low]
  /\ UNCHANGED <<phase, rows, gpio, mode, low, lit, timer, cb, w, by, steady>>

\* A pin made active, or inactive, as polarity l has it
Drive(pin, active, l) ==
  lit' = IF active = (l = low) THEN lit \cup {pin} ELSE lit \ {pin}

\* A pin that was to go dark and is lit, since the polarity has changed
Turned(pin, l) == by' = IF pin = gpio /\ l # low THEN "turned" ELSE by

IsrFs ==
  /\ isr.at = "set" /\ isr.evt = "FS"
  /\ Drive(isr.pin, TRUE, isr.low) /\ by' = isr.mode
  /\ IF isr.mode = "pulse" THEN IsrGoto("arm") ELSE IsrReturn
  /\ UNCHANGED <<phase, rows, gpio, mode, low, timer, cb, w, steady>>

\* hrtimer_start: a timer already going begins again.
IsrArm ==
  /\ isr.at = "arm"
  /\ timer' = PulseTicks /\ IsrReturn
  /\ UNCHANGED <<phase, rows, gpio, mode, low, lit, cb, w, by, steady>>

IsrFend ==
  /\ isr.at = "set" /\ isr.evt = "FEND"
  /\ Drive(isr.pin, FALSE, isr.low) /\ Turned(isr.pin, isr.low)
  /\ IsrReturn
  /\ UNCHANGED <<phase, rows, gpio, mode, low, timer, cb, w, steady>>

TimerFires ==
  /\ timer = 0 /\ cb.at = "idle"
  /\ timer' = Off
  /\ cb' = IF gpio = NoPin THEN IdleCb
           ELSE [at |-> "level", pin |-> gpio, low |-> FALSE]
  /\ UNCHANGED <<phase, rows, gpio, mode, low, lit, isr, w, by, steady>>

TimerLevel ==
  /\ cb.at = "level"
  /\ cb' = [cb EXCEPT !.at = "set", !.low = low]
  /\ UNCHANGED <<phase, rows, gpio, mode, low, lit, timer, isr, w, by, steady>>

TimerEnds ==
  /\ cb.at = "set"
  /\ Drive(cb.pin, FALSE, cb.low) /\ Turned(cb.pin, cb.low)
  /\ cb' = IdleCb
  /\ UNCHANGED <<phase, rows, gpio, mode, low, timer, isr, w, steady>>

-----------------------------------------------------------------------------
(* Writes *)

Begin(l, a) ==
  w = NoWrite /\ w' = [at |-> l, arg |-> a] /\ steady' = FALSE /\ UNCHANGED by
At(l)    == w.at = l /\ UNCHANGED <<phase, rows, isr, cb, steady>>
Goto(l)  == w' = [w EXCEPT !.at = l]

\* hrtimer_cancel waits for a callback that runs.
Cancel == cb.at = "idle" /\ timer' = Off

StoreGpio(p) ==
  /\ gpio # NoPin => MayMove
  /\ Begin("cancel", p)
  /\ UNCHANGED <<phase, rows, gpio, mode, low, lit, timer, cb, isr>>

GpioCancel == At("cancel") /\ Cancel /\ Goto("darken") /\ UNCHANGED <<gpio, mode, low, lit, by>>

\* strobe_release_gpio_locked: the pin made inactive, then given up.
GpioDarken ==
  /\ At("darken")
  /\ lit' = lit \ {gpio} /\ Goto("release")
  /\ UNCHANGED <<gpio, mode, low, timer, by>>

GpioRelease ==
  /\ At("release")
  /\ gpio' = NoPin
  /\ IF w.arg = NoPin THEN w' = NoWrite ELSE Goto("request")
  /\ UNCHANGED <<mode, low, lit, timer, by>>

\* gpio_is_valid, gpio_request or gpio_cansleep may say no.
GpioRequest ==
  /\ At("request")
  /\ \/ w' = NoWrite /\ UNCHANGED lit
     \/ Goto("publish") /\ lit' = lit \ {w.arg}
  /\ UNCHANGED <<gpio, mode, low, timer, by>>

GpioPublish ==
  /\ At("publish")
  /\ gpio' = w.arg /\ w' = NoWrite /\ by' = "off"
  /\ UNCHANGED <<mode, low, lit, timer>>

StoreMode(m) ==
  /\ Begin(IF m = "off" THEN "modeCancel" ELSE m, NoPin)
  /\ UNCHANGED <<phase, rows, gpio, mode, low, lit, timer, cb, isr>>

ModeCancel == At("modeCancel") /\ Cancel /\ Goto("modeDarken") /\ UNCHANGED <<gpio, mode, low, lit, by>>

ModeDarken ==
  /\ At("modeDarken")
  /\ lit' = lit \ {gpio} /\ Goto("off")
  /\ UNCHANGED <<gpio, mode, low, timer, by>>

\* (seeded fault: the timer is cancelled last)
ModeStoreCancels ==
  /\ \E m \in {"off", "pulse", "hold"} : At(m) /\ mode' = m
  /\ timer' = (IF mode' = "off" THEN Off ELSE timer)
  /\ w' = NoWrite
  /\ UNCHANGED <<gpio, low, lit, by>>

ModeStore ==
  /\ \E m \in {"off", "pulse", "hold"} : At(m) /\ mode' = m
  /\ w' = NoWrite
  /\ UNCHANGED <<gpio, low, lit, timer, by>>

\* A new polarity turns the levels the other pins are at into their opposite;
\* only the strobe's own pin is read with it.
StoreLow ==
  /\ Begin("low", NoPin)
  /\ \E v \in BOOLEAN :
       /\ low' = v
       /\ lit' = IF v = low \/ gpio = NoPin THEN lit
                 ELSE (lit \ {gpio}) \cup ({gpio} \ lit)
  /\ UNCHANGED <<phase, rows, gpio, mode, timer, cb, isr>>

\* gpio_direction_output at the inactive level
LowDirection ==
  /\ At("low")
  /\ lit' = lit \ {gpio} /\ w' = NoWrite
  /\ UNCHANGED <<gpio, mode, low, timer, by>>

-----------------------------------------------------------------------------
Frame  == Tick \/ FrameStart \/ FrameEnd
Kernel == IsrMode \/ IsrLevel \/ IsrFs \/ IsrArm \/ IsrFend
          \/ TimerFires \/ TimerLevel \/ TimerEnds
Writing == GpioCancel \/ GpioDarken \/ GpioRelease \/ GpioRequest \/ GpioPublish
           \/ ModeCancel \/ ModeDarken \/ ModeStore \/ LowDirection
Store  == StoreLow \/ (\E p \in Pins \cup {NoPin} : StoreGpio(p)) \/ (\E m \in Modes : StoreMode(m))

Next == Frame \/ Kernel \/ Writing \/ Store
Spec == Init /\ [][Next]_vars

-----------------------------------------------------------------------------
(* Properties *)

CbType  == [at : {"idle", "level", "set"}, pin : Pins \cup {NoPin}, low : BOOLEAN]
IsrType == [at : {"idle", "mode", "level", "set", "arm"}, evt : {"FS", "FEND"},
            pin : Pins \cup {NoPin}, mode : Modes \cup {"off"}, low : BOOLEAN]

\* A handler and a callback that go on have a GPIO.
TypeOK ==
  /\ phase \in 0..FrameTicks /\ rows \in BOOLEAN
  /\ gpio \in Pins \cup {NoPin} /\ mode \in Modes \cup {"off"} /\ low \in BOOLEAN
  /\ lit \subseteq Pins /\ timer \in Off..PulseTicks
  /\ cb \in CbType /\ isr \in IsrType
  /\ isr.at \in {"level", "set", "arm"} => isr.pin # NoPin
  /\ cb.at # "idle" => cb.pin # NoPin
  /\ w.arg \in Pins \cup {NoPin}
  /\ by \in {"off", "pulse", "hold", "turned"} /\ steady \in BOOLEAN

\* A pin lit for a pulse since it was given is never left without the
\* timer that ends the pulse or a write that is about to: the write of "off"
\* cancels the timer before it darkens the pin, a pulse begun in between has a
\* timer of its own, and no other write takes the timer of a pulse away.  The
\* end of a pulse may itself leave the pin lit: strobe_timer_cb reads the
\* polarity, a whole write of another one passes, and the level it then sets
\* is the active one.  The pulse is over then, and the pin is "turned".
PulseIsTimed ==
  gpio \in lit /\ by = "pulse" /\ isr.at = "idle" =>
    timer # Off \/ cb.at # "idle" \/ w.at \in {"darken", "modeDarken", "low"}

\* In hold mode the pin is active from MIPI_FS to ISP_FEND and inactive after
\* it, if nothing was written since the frame began: a pulse shorter than a
\* frame cannot outlast the frame it was lit in.
HoldFollowsReadout == steady /\ Quiet => (gpio \in lit <=> rows)
=============================================================================
