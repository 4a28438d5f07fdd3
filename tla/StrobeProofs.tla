---------------------------- MODULE StrobeProofs ----------------------------
(***************************************************************************)
(* Proofs about the strobe: its types, that a pulse always has something   *)
(* that ends it, and that a frame in hold mode is lit exactly while it is  *)
(* read out, for any GPIOs and any lengths of frame, readout and pulse.    *)
(***************************************************************************)
EXTENDS Strobe, TLAPS

Places == {"idle", "cancel", "darken", "release", "request", "publish",
           "modeCancel", "modeDarken", "off", "pulse", "hold", "low"}

AnyMode == Modes \cup {"off"}
AnyGpio == Pins \cup {NoPin}

\* A write that requests a GPIO was asked for one, and stores a mode it was
\* asked for.
Threads ==
  /\ w \in [at : Places, arg : AnyGpio]
  /\ w.at \in {"request", "publish"} => w.arg \in Pins
  /\ w.at \in {"pulse", "hold"} => w.at \in Modes

Typed == TypeOK /\ Threads

\* PulseIsTimed with the handler between lighting the pin and arming the timer
\* left out, and the callback tied to the pin it will darken.
PulseEnds ==
  gpio \in lit /\ by = "pulse" /\ isr.at # "arm" =>
    \/ timer # Off
    \/ cb.at # "idle" /\ cb.pin = gpio
    \/ w.at \in {"darken", "modeDarken", "low"}

\* A pulse is armed when a frame begins, and is due PulseTicks later; rows are
\* read out until ReadTicks.
Timing ==
  /\ rows => phase <= ReadTicks
  /\ timer # Off => phase + timer = PulseTicks
  /\ cb.at # "idle" => phase = PulseTicks
  /\ isr.at # "idle" /\ isr.evt = "FS" => phase = 0 /\ rows
  /\ isr.at # "idle" /\ isr.evt = "FEND" => ~rows
  /\ isr.at = "arm" => isr.evt = "FS" /\ isr.mode = "pulse"

\* A steady frame: no write, no pulse left over from the frame before, and the
\* handler on its way has the pin there is.
SteadyFrame ==
  steady =>
    /\ gpio # NoPin /\ w = NoWrite /\ mode = "hold"
    /\ timer = Off /\ cb.at = "idle"
    /\ isr.at # "idle" => isr.at # "arm" /\ isr.pin = gpio
    /\ isr.at \in {"level", "set"} => isr.mode = "hold"
    /\ isr.at = "set" => isr.low = low
    /\ isr.at = "idle" => (gpio \in lit <=> rows)



-----------------------------------------------------------------------------
(* Types *)

\* What the handler's reads leave
LEMMA EnterIs ==
  ASSUME TypeOK, NEW e \in {"FS", "FEND"}, Enter(e)
  PROVE  /\ isr' \in IsrType /\ steady' \in BOOLEAN
         /\ isr'.at = "mode" /\ isr'.evt = e /\ isr'.pin = gpio
  BY DEF Enter, IsrType, TypeOK

LEMMA ModeIs ==
  ASSUME TypeOK, IsrMode
  PROVE  /\ isr' \in IsrType
         /\ \/ /\ isr'.at = "idle"
               /\ isr.pin = NoPin \/ mode = "off" \/ (isr.evt = "FEND" /\ mode # "hold")
            \/ /\ isr'.at = "level" /\ isr'.mode = mode /\ isr'.pin # NoPin
               /\ isr'.pin = isr.pin /\ isr'.evt = isr.evt
  <1> USE DEF IsrMode, TypeOK
  <1>1. CASE /\ isr' = NoIsr
             /\ isr.pin = NoPin \/ mode = "off" \/ (isr.evt = "FEND" /\ mode # "hold")
    BY <1>1 DEF NoIsr, IsrType
  <1>2. CASE isr.pin # NoPin /\ isr' = [isr EXCEPT !.at = "level", !.mode = mode]
    <2>1. PICK i : i = [isr EXCEPT !.at = "level"]
      OBVIOUS
    <2>2. i \in IsrType /\ i.at = "level" /\ i.pin = isr.pin /\ i.evt = isr.evt
      BY <2>1 DEF IsrType
    <2>3. isr' = [i EXCEPT !.mode = mode]
      BY <1>2, <2>1, Zenon
    <2> QED BY <1>2, <2>2, <2>3 DEF IsrType
  <1> QED BY <1>1, <1>2 DEF IsrReturn

LEMMA LevelIs ==
  ASSUME TypeOK, IsrLevel
  PROVE  /\ isr' \in IsrType /\ isr'.at = "set" /\ isr'.low = low
         /\ isr'.pin = isr.pin /\ isr'.evt = isr.evt /\ isr'.mode = isr.mode
  <1> USE DEF IsrLevel, TypeOK
  <1>1. PICK i : i = [isr EXCEPT !.at = "set"]
    OBVIOUS
  <1>2. /\ i \in IsrType /\ i.at = "set" /\ i.pin = isr.pin
        /\ i.evt = isr.evt /\ i.mode = isr.mode
    BY <1>1 DEF IsrType
  <1>3. isr' = [i EXCEPT !.low = low]
    BY <1>1, Zenon
  <1> QED BY <1>2, <1>3 DEF IsrType

LEMMA FsIs ==
  ASSUME TypeOK, IsrFs
  PROVE  /\ isr' \in IsrType
         /\ \/ isr' = NoIsr /\ isr.mode # "pulse"
            \/ /\ isr'.at = "arm" /\ isr'.pin = isr.pin
               /\ isr'.evt = isr.evt /\ isr.mode = "pulse" /\ isr'.mode = "pulse"
  <1> USE DEF TypeOK, IsrType
  <1>1. CASE isr' = NoIsr /\ isr.mode # "pulse"
    BY <1>1 DEF NoIsr
  <1>2. CASE isr' = [isr EXCEPT !.at = "arm"] /\ isr.mode = "pulse"
    BY <1>2
  <1> QED BY <1>1, <1>2 DEF IsrFs, IsrGoto, IsrReturn

LEMMA ReturnIs ==
  ASSUME TypeOK, isr' = NoIsr PROVE isr' \in IsrType /\ isr'.at = "idle"
  BY DEF NoIsr, IsrType

LEMMA TypedStep == Typed /\ [Next]_vars => Typed'
  <1> USE StrobeAssumption DEF Off, AnyMode, AnyGpio, Places
  <1> SUFFICES ASSUME Typed, [Next]_vars PROVE Typed'
    OBVIOUS
  <1> USE DEF Typed, TypeOK, Threads
  <1>1. CASE Tick
    BY <1>1 DEF Tick, Quiet
  <1>2. CASE FrameStart
    BY <1>2, EnterIs DEF FrameStart, Enter
  <1>3. CASE FrameEnd
    BY <1>3, EnterIs DEF FrameEnd, Enter
  <1>4. CASE IsrFs
    <2>1. lit' \subseteq Pins /\ by' \in {"off", "pulse", "hold", "turned"}
      BY <1>4 DEF IsrFs, Drive, IsrType
    <2>2. isr' \in IsrType /\ (isr'.at # "idle" => isr'.pin # NoPin)
      BY <1>4, FsIs, ReturnIs DEF IsrFs
    <2> QED BY <1>4, <2>1, <2>2 DEF IsrFs
  <1>5. CASE IsrArm
    BY <1>5, ReturnIs DEF IsrArm, IsrReturn
  <1>6. CASE IsrFend
    BY <1>6, ReturnIs DEF IsrFend, IsrReturn, Drive, Turned, IsrType
  <1>7. CASE TimerFires
    <2>1. cb' \in CbType /\ (cb'.at # "idle" => cb'.pin # NoPin)
      BY <1>7 DEF TimerFires, IdleCb, CbType
    <2> QED BY <1>7, <2>1 DEF TimerFires, IdleCb
  <1>8. CASE TimerEnds
    <2>1. cb' \in CbType /\ (cb'.at # "idle" => cb'.pin # NoPin)
      BY <1>8 DEF TimerEnds, IdleCb, CbType
    <2>2. lit' \subseteq Pins /\ by' \in {"off", "pulse", "hold", "turned"}
      BY <1>8 DEF TimerEnds, Drive, Turned, CbType
    <2> QED BY <1>8, <2>1, <2>2 DEF TimerEnds
  <1>22. CASE IsrMode
    BY <1>22, ModeIs DEF IsrMode
  <1>23. CASE IsrLevel
    BY <1>23, LevelIs DEF IsrLevel
  <1>24. CASE TimerLevel
    <2>1. cb' \in CbType /\ (cb'.at # "idle" => cb'.pin # NoPin)
      BY <1>24 DEF TimerLevel, IdleCb, CbType
    <2> QED BY <1>24, <2>1 DEF TimerLevel
  <1>9. CASE GpioCancel
    BY <1>9 DEF GpioCancel, At, Cancel, Goto
  <1>10. CASE GpioDarken
    BY <1>10 DEF GpioDarken, At, Goto
  <1>11. CASE GpioRelease
    BY <1>11 DEF GpioRelease, At, Goto, NoWrite
  <1>12. CASE GpioRequest
    BY <1>12 DEF GpioRequest, At, Goto, NoWrite
  <1>13. CASE GpioPublish
    BY <1>13 DEF GpioPublish, At, NoWrite
  <1>14. CASE ModeCancel
    BY <1>14 DEF ModeCancel, At, Cancel, Goto
  <1>15. CASE ModeDarken
    BY <1>15 DEF ModeDarken, At, Goto
  <1>16. CASE ModeStore
    BY <1>16 DEF ModeStore, At, NoWrite
  <1>17. CASE LowDirection
    BY <1>17 DEF LowDirection, At, NoWrite
  <1>18. CASE StoreLow
    BY <1>18 DEF StoreLow, Begin, NoWrite
  <1>19. ASSUME NEW p \in Pins \cup {NoPin}, StoreGpio(p) PROVE Typed'
    <2>1. w' = [at |-> "cancel", arg |-> p] /\ steady' = FALSE
      BY <1>19 DEF StoreGpio, Begin
    <2>2. w' \in [at : Places, arg : AnyGpio]
      BY <2>1
    <2>3. /\ w'.at \notin {"request", "publish"} /\ w'.arg \in AnyGpio
          /\ w'.at \in {"pulse", "hold"} => w'.at \in Modes
      BY <2>1
    <2> QED BY <1>19, <2>1, <2>2, <2>3 DEF StoreGpio, Begin
  <1>20. ASSUME NEW m \in Modes, StoreMode(m) PROVE Typed'
    <2>1. w' = [at |-> IF m = "off" THEN "modeCancel" ELSE m, arg |-> NoPin] /\ steady' = FALSE
      BY <1>20 DEF StoreMode, Begin
    <2>2. w' \in [at : Places, arg : AnyGpio]
      BY <2>1
    <2>3. /\ w'.at \notin {"request", "publish"} /\ w'.arg \in AnyGpio
          /\ w'.at \in {"pulse", "hold"} => w'.at \in Modes
      BY <2>1
    <2> QED BY <1>20, <2>1, <2>2, <2>3 DEF StoreMode, Begin
  <1>21. CASE UNCHANGED vars
    BY <1>21 DEF vars
  <1> QED
    BY <1>1, <1>2, <1>3, <1>4, <1>5, <1>6, <1>7, <1>8, <1>9, <1>10, <1>11, <1>12, <1>13,
       <1>14, <1>15, <1>16, <1>17, <1>18, <1>19, <1>20, <1>21, <1>22,
       <1>23, <1>24 DEF Next, Frame, Kernel,
       Writing, Store

LEMMA InitTyped == Init => Typed
  <1> SUFFICES ASSUME Init PROVE Typed
    OBVIOUS
  <1>1. /\ isr.at = "idle" /\ w.at = "idle" /\ w.arg = NoPin /\ cb.at = "idle"
    BY DEF Init, NoIsr, NoWrite, IdleCb
  <1>2. isr \in [at : {"idle", "mode", "level", "set", "arm"}, evt : {"FS", "FEND"},
                pin : AnyGpio, mode : AnyMode, low : BOOLEAN]
    BY DEF Init, NoIsr, AnyGpio, AnyMode
  <1>3. /\ w \in [at : Places, arg : AnyGpio]
        /\ cb \in [at : {"idle", "level", "set"}, pin : AnyGpio, low : BOOLEAN]
    BY DEF Init, NoWrite, IdleCb, AnyGpio, Places
  <1>4. phase \in 0..FrameTicks /\ timer \in Off..PulseTicks
    BY StrobeAssumption DEF Init, Off
  <1>5. TypeOK
    BY <1>1, <1>2, <1>3, <1>4 DEF Init, TypeOK, AnyGpio, AnyMode, IsrType, CbType
  <1> QED BY <1>1, <1>2, <1>3, <1>5 DEF Typed, Threads

\* Every reachable state has the declared types: a handler that drives a pin
\* has one, and a lit pin is a GPIO.
THEOREM TypeCorrect == Spec => []TypeOK
  <1>1. Init => Typed
    BY InitTyped
  <1>2. Typed => TypeOK
    BY DEF Typed
  <1> QED BY <1>1, <1>2, TypedStep, PTL DEF Spec

-----------------------------------------------------------------------------
(* A pulse ends *)

LEMMA PulseStep == Typed /\ PulseEnds /\ [Next]_vars => PulseEnds'
  <1> USE StrobeAssumption DEF Off
  <1> SUFFICES ASSUME Typed, PulseEnds, [Next]_vars PROVE PulseEnds'
    OBVIOUS
  <1> USE DEF Typed, TypeOK, Threads, PulseEnds
  <1>1. CASE Tick
    BY <1>1 DEF Tick, Quiet
  <1>2. CASE FrameStart
    BY <1>2, EnterIs DEF FrameStart, Enter
  <1>3. CASE FrameEnd
    BY <1>3, EnterIs DEF FrameEnd, Enter
  <1>4. CASE IsrFs
    BY <1>4, FsIs, ReturnIs DEF IsrFs, Drive
  <1>5. CASE IsrArm
    BY <1>5, ReturnIs DEF IsrArm, IsrReturn
  <1>6. CASE IsrFend
    BY <1>6, ReturnIs DEF IsrFend, IsrReturn, Drive, Turned
  <1>7. CASE TimerFires
    BY <1>7 DEF TimerFires, IdleCb
  <1>8. CASE TimerEnds
    BY <1>8 DEF TimerEnds, IdleCb, Drive, Turned
  <1>22. CASE IsrMode
    BY <1>22, ModeIs DEF IsrMode
  <1>23. CASE IsrLevel
    BY <1>23, LevelIs DEF IsrLevel
  <1>24. CASE TimerLevel
    BY <1>24 DEF TimerLevel
  <1>9. CASE GpioCancel
    BY <1>9 DEF GpioCancel, At, Cancel, Goto
  <1>10. CASE GpioDarken
    BY <1>10 DEF GpioDarken, At, Goto
  <1>11. CASE GpioRelease
    BY <1>11 DEF GpioRelease, At, Goto, NoWrite
  <1>12. CASE GpioRequest
    BY <1>12 DEF GpioRequest, At, Goto, NoWrite
  <1>13. CASE GpioPublish
    BY <1>13 DEF GpioPublish, At, NoWrite
  <1>14. CASE ModeCancel
    BY <1>14 DEF ModeCancel, At, Cancel, Goto
  <1>15. CASE ModeDarken
    BY <1>15 DEF ModeDarken, At, Goto
  <1>16. CASE ModeStore
    BY <1>16 DEF ModeStore, At, NoWrite
  <1>17. CASE LowDirection
    BY <1>17 DEF LowDirection, At, NoWrite
  <1>18. CASE StoreLow
    BY <1>18 DEF StoreLow, Begin, NoWrite
  <1>19. ASSUME NEW p \in Pins \cup {NoPin}, StoreGpio(p) PROVE PulseEnds'
    BY <1>19 DEF StoreGpio, Begin, NoWrite
  <1>20. ASSUME NEW m \in Modes, StoreMode(m) PROVE PulseEnds'
    BY <1>20 DEF StoreMode, Begin, NoWrite
  <1>21. CASE UNCHANGED vars
    BY <1>21 DEF vars
  <1> QED
    BY <1>1, <1>2, <1>3, <1>4, <1>5, <1>6, <1>7, <1>8, <1>9, <1>10, <1>11, <1>12, <1>13,
       <1>14, <1>15, <1>16, <1>17, <1>18, <1>19, <1>20, <1>21, <1>22,
       <1>23, <1>24 DEF Next, Frame, Kernel,
       Writing, Store

\* PulseIsTimed for any pins and lengths: whatever the order of the steps of a
\* handler, of the timer's callback and of writes, the reads of the polarity
\* among them, what was lit for a pulse has its timer, its callback or a write
\* to end it.  What the callback itself lit by a polarity that had changed
\* under it (openipc_frame_ts.c, strobe_timer_cb) is not of a pulse any more.
THEOREM PulsesEnd == Spec => []PulseIsTimed
  <1>1. Init => Typed /\ PulseEnds
    BY InitTyped DEF Init, PulseEnds
  <1>2. Typed /\ PulseEnds => PulseIsTimed
    BY DEF PulseEnds, PulseIsTimed
  <1>3. Typed /\ PulseEnds /\ [Next]_vars => (Typed /\ PulseEnds)'
    BY TypedStep, PulseStep
  <1> QED BY <1>1, <1>2, <1>3, PTL DEF Spec

-----------------------------------------------------------------------------
(* Hold mode *)

LEMMA TimingStep ==
  ASSUME PulseTicks < FrameTicks
  PROVE  Typed /\ Timing /\ [Next]_vars => Timing'
  <1> USE StrobeAssumption DEF Off
  <1> SUFFICES ASSUME Typed, Timing, [Next]_vars PROVE Timing'
    OBVIOUS
  <1> USE DEF Typed, TypeOK, Threads, Timing
  <1>1. CASE Tick
    BY <1>1 DEF Tick, Quiet
  <1>2. CASE FrameStart
    BY <1>2, EnterIs DEF FrameStart, Enter
  <1>3. CASE FrameEnd
    BY <1>3, EnterIs DEF FrameEnd, Enter
  <1>4. CASE IsrFs
    BY <1>4, FsIs, ReturnIs DEF IsrFs, Drive
  <1>5. CASE IsrArm
    BY <1>5, ReturnIs DEF IsrArm, IsrReturn
  <1>6. CASE IsrFend
    BY <1>6, ReturnIs DEF IsrFend, IsrReturn, Drive, Turned
  <1>7. CASE TimerFires
    BY <1>7 DEF TimerFires, IdleCb
  <1>8. CASE TimerEnds
    BY <1>8 DEF TimerEnds, IdleCb, Drive, Turned
  <1>22. CASE IsrMode
    BY <1>22, ModeIs DEF IsrMode
  <1>23. CASE IsrLevel
    BY <1>23, LevelIs DEF IsrLevel
  <1>24. CASE TimerLevel
    BY <1>24 DEF TimerLevel
  <1>9. CASE GpioCancel
    BY <1>9 DEF GpioCancel, At, Cancel, Goto
  <1>10. CASE GpioDarken
    BY <1>10 DEF GpioDarken, At, Goto
  <1>11. CASE GpioRelease
    BY <1>11 DEF GpioRelease, At, Goto, NoWrite
  <1>12. CASE GpioRequest
    BY <1>12 DEF GpioRequest, At, Goto, NoWrite
  <1>13. CASE GpioPublish
    BY <1>13 DEF GpioPublish, At, NoWrite
  <1>14. CASE ModeCancel
    BY <1>14 DEF ModeCancel, At, Cancel, Goto
  <1>15. CASE ModeDarken
    BY <1>15 DEF ModeDarken, At, Goto
  <1>16. CASE ModeStore
    BY <1>16 DEF ModeStore, At, NoWrite
  <1>17. CASE LowDirection
    BY <1>17 DEF LowDirection, At, NoWrite
  <1>18. CASE StoreLow
    BY <1>18 DEF StoreLow, Begin, NoWrite
  <1>19. ASSUME NEW p \in Pins \cup {NoPin}, StoreGpio(p) PROVE Timing'
    BY <1>19 DEF StoreGpio, Begin, NoWrite
  <1>20. ASSUME NEW m \in Modes, StoreMode(m) PROVE Timing'
    BY <1>20 DEF StoreMode, Begin, NoWrite
  <1>21. CASE UNCHANGED vars
    BY <1>21 DEF vars
  <1> QED
    BY <1>1, <1>2, <1>3, <1>4, <1>5, <1>6, <1>7, <1>8, <1>9, <1>10, <1>11, <1>12, <1>13,
       <1>14, <1>15, <1>16, <1>17, <1>18, <1>19, <1>20, <1>21, <1>22,
       <1>23, <1>24 DEF Next, Frame, Kernel,
       Writing, Store

LEMMA SteadyStep ==
  ASSUME PulseTicks < FrameTicks
  PROVE  Typed /\ Timing /\ SteadyFrame /\ [Next]_vars => SteadyFrame'
  <1> USE StrobeAssumption DEF Off
  <1> SUFFICES ASSUME Typed, Timing, SteadyFrame, [Next]_vars PROVE SteadyFrame'
    OBVIOUS
  <1> USE DEF Typed, TypeOK, Threads, Timing, SteadyFrame, NoWrite
  <1>1. CASE Tick
    BY <1>1 DEF Tick, Quiet
  <1>2. CASE FrameStart
    BY <1>2, EnterIs DEF FrameStart, Enter
  <1>3. CASE FrameEnd
    BY <1>3, EnterIs DEF FrameEnd, Enter
  <1>4. CASE IsrFs
    <2>1. ASSUME steady'
          PROVE  /\ steady /\ isr.pin = gpio /\ isr.mode = "hold" /\ rows
                 /\ isr.low = low
      BY <1>4, <2>1 DEF IsrFs
    <2>2. steady' => isr'.at = "idle"
      <3>1. steady' => isr' = NoIsr
        BY <1>4, <2>1, FsIs
      <3> QED BY <3>1, ReturnIs
    <2>3. steady' => lit' = lit \cup {gpio}
      BY <1>4, <2>1 DEF IsrFs, Drive
    <2> QED BY <1>4, <2>1, <2>2, <2>3 DEF IsrFs
  <1>5. CASE IsrArm
    BY <1>5, ReturnIs DEF IsrArm, IsrReturn
  <1>6. CASE IsrFend
    BY <1>6, ReturnIs DEF IsrFend, IsrReturn, Drive, Turned
  <1>7. CASE TimerFires
    BY <1>7 DEF TimerFires, IdleCb
  <1>8. CASE TimerEnds
    BY <1>8 DEF TimerEnds, IdleCb, Drive, Turned
  <1>22. CASE IsrMode
    BY <1>22, ModeIs DEF IsrMode
  <1>23. CASE IsrLevel
    BY <1>23, LevelIs DEF IsrLevel
  <1>24. CASE TimerLevel
    BY <1>24 DEF TimerLevel
  <1>9. CASE GpioCancel
    BY <1>9 DEF GpioCancel, At, Cancel, Goto
  <1>10. CASE GpioDarken
    BY <1>10 DEF GpioDarken, At, Goto
  <1>11. CASE GpioRelease
    BY <1>11 DEF GpioRelease, At, Goto
  <1>12. CASE GpioRequest
    BY <1>12 DEF GpioRequest, At, Goto
  <1>13. CASE GpioPublish
    BY <1>13 DEF GpioPublish, At
  <1>14. CASE ModeCancel
    BY <1>14 DEF ModeCancel, At, Cancel, Goto
  <1>15. CASE ModeDarken
    BY <1>15 DEF ModeDarken, At, Goto
  <1>16. CASE ModeStore
    BY <1>16 DEF ModeStore, At
  <1>17. CASE LowDirection
    BY <1>17 DEF LowDirection, At
  <1>18. CASE StoreLow
    BY <1>18 DEF StoreLow, Begin
  <1>19. ASSUME NEW p \in Pins \cup {NoPin}, StoreGpio(p) PROVE SteadyFrame'
    BY <1>19 DEF StoreGpio, Begin
  <1>20. ASSUME NEW m \in Modes, StoreMode(m) PROVE SteadyFrame'
    BY <1>20 DEF StoreMode, Begin
  <1>21. CASE UNCHANGED vars
    BY <1>21 DEF vars
  <1> QED
    BY <1>1, <1>2, <1>3, <1>4, <1>5, <1>6, <1>7, <1>8, <1>9, <1>10, <1>11, <1>12, <1>13,
       <1>14, <1>15, <1>16, <1>17, <1>18, <1>19, <1>20, <1>21, <1>22,
       <1>23, <1>24 DEF Next, Frame, Kernel,
       Writing, Store

\* HoldFollowsReadout for any pins and any lengths of frame, readout and pulse
\* such that a pulse is shorter than a frame.
THEOREM HoldIsReadout == ASSUME PulseTicks < FrameTicks PROVE Spec => []HoldFollowsReadout
  <1> DEFINE SteadyInv == Typed /\ Timing /\ SteadyFrame
  <1>1. Init => SteadyInv
    BY InitTyped DEF Init, NoIsr, IdleCb, Timing, SteadyFrame
  <1>2. SteadyInv => HoldFollowsReadout
    BY DEF SteadyFrame, HoldFollowsReadout, Quiet
  <1>3. SteadyInv /\ [Next]_vars => SteadyInv'
    BY TypedStep, TimingStep, SteadyStep
  <1> QED BY <1>1, <1>2, <1>3, PTL DEF Spec
=============================================================================
