--------------------------- MODULE InterruptsProofs ---------------------------
(***************************************************************************)
(* Theorems about Interrupts for every set of devices without a handler and *)
(* every mask the firmware may leave.                                       *)
(***************************************************************************)
EXTENDS Interrupts, SequenceTheorems, TLAPS

(* What chip c has in service while frame f runs.                           *)
InService(f, c) ==
  IF c = "slave"
    THEN IF f.from.chip = "slave" /\ f.from.bit # NoBit /\ f.at \in {"entry", "eoi2"}
           THEN {f.from.bit} ELSE {}
    ELSE IF f.at = "iret" \/ f.from.chip = "cpu" THEN {}
         ELSE IF f.from.chip = "slave" THEN {Cascade}
         ELSE IF f.from.bit = NoBit THEN {} ELSE {f.from.bit}

(* The service registers hold exactly the request of the running handler,   *)
(* which runs with interrupts off and whose vector is at least 8, so that   *)
(* PIC_sendEOI tells the slave.                                             *)
ServiceInv ==
  /\ frames = <<>> => \A c \in Chips : isr[c] = {}
  /\ frames # <<>> =>
       /\ ~ifl
       /\ \A c \in Chips : isr[c] = InService(Top, c)
       /\ Top.from.chip # "cpu" => AtLeast8(Top.vector)
       /\ Top.from.chip = "cpu" => IsException(Top.vector)

(* How far PIC_remap has come tells what each chip expects next, its vector *)
(* base and its mask.                                                       *)
ProgressInv ==
  /\ pc \in {"sti", "a1", "a2"} => k = 1
  /\ pc = "remap" => k <= 10
  /\ Remapped => k = 11
  /\ pc = "a2" => saved["master"] = fw["master"]
  /\ pc = "remap" \/ Remapped => saved = fw
  /\ want["master"] = IF k = 1 \/ k >= 8 THEN "ocw1"
                      ELSE IF k <= 3 THEN "icw2" ELSE IF k <= 5 THEN "icw3" ELSE "icw4"
  /\ want["slave"] = IF k <= 2 \/ k >= 9 THEN "ocw1"
                     ELSE IF k <= 4 THEN "icw2" ELSE IF k <= 6 THEN "icw3" ELSE "icw4"
  /\ base["master"] = IF k <= 3 THEN {3} ELSE {5}
  /\ base["slave"] = IF k <= 4 THEN {4, 5, 6} ELSE {3, 5}
  /\ k = 1 \/ k >= 10 => imr["master"] = fw["master"]
  /\ k <= 2 \/ k = 11 => imr["slave"] = fw["slave"]

(* The vector of the running handler is the one its chip's base gave it.    *)
VectorInv ==
  frames # <<>> /\ Remapped /\ Top.from.chip # "cpu" =>
    /\ Top.vector.high = IF Top.from.chip = "master" THEN {5} ELSE {3, 5}
    /\ Top.vector.irq = IF Top.from.bit # NoBit THEN Top.from.bit ELSE 7

HaltInv == halted => frames # <<>> /\ IsException(Top.vector)

KeyboardInv ==
  pc \in {"drivers", "idle"} /\ 1 \in line["master"] =>
    \/ 1 \in irr["master"]
    \/ frames # <<>> /\ Top.from = Keyboard /\ Top.at = "entry"

IInv ==
  /\ TypeOK
  /\ ServiceInv
  /\ ProgressInv
  /\ VectorInv
  /\ HaltInv
  /\ KeyboardInv

-----------------------------------------------------------------------------
(* The stack of frames has at most one element.                             *)
LEMMA OneFrame ==
  ASSUME TypeOK, frames # <<>>
  PROVE  Len(frames) = 1 /\ Top \in Frames /\ 1 \in DOMAIN frames
  <1>1. frames \in Seq(Frames) /\ Len(frames) <= 1
    BY DEF TypeOK, FramesOK
  <1>2. Len(frames) \in Nat \ {0}
    BY <1>1, EmptySeq
  <1>3. Len(frames) = 1
    <2>1. \A n \in Nat \ {0} : n <= 1 => n = 1
      OBVIOUS
    <2> QED BY <1>1, <1>2, <2>1, Zenon
  <1> QED BY <1>1, <1>3 DEF Top

LEMMA NotEmpty == ASSUME NEW S, NEW s \in Seq(S), Len(s) = 1 PROVE s # <<>>
  <1>1. Len(<<>>) = 0 /\ 0 # 1
    BY EmptySeq
  <1> QED BY <1>1, Zenon

LEMMA AdvanceTop ==
  ASSUME TypeOK, NEW at \in {"entry", "eoi2", "eoi1", "iret"}, frames # <<>>, Advance(at)
  PROVE  /\ FramesOK' /\ frames' # <<>>
         /\ Top' = [Top EXCEPT !.at = at]
  <1>1. Len(frames) = 1 /\ Top \in Frames /\ 1 \in DOMAIN frames
    BY OneFrame
  <1>2. [Top EXCEPT !.at = at] \in Frames
    BY <1>1 DEF Frames
  <1>3. frames' \in Seq(Frames) /\ Len(frames') = 1 /\ frames'[1] = [Top EXCEPT !.at = at]
    BY <1>1, <1>2 DEF Advance, TypeOK, FramesOK, Top
  <1>4. frames' # <<>>
    BY <1>3, NotEmpty
  <1> QED BY <1>3, <1>4 DEF FramesOK, Top

LEMMA EnterTop ==
  ASSUME TypeOK, NEW v \in [high : SUBSET (3 .. 7), irq : Bits],
         NEW from \in [chip : Chips \cup {"cpu"}, bit : Bits \cup {NoBit}],
         frames = <<>>, Enter(v, from)
  PROVE  /\ FramesOK' /\ frames' # <<>>
         /\ Top' = [vector |-> v, from |-> from, at |-> "entry", ifl |-> ifl]
         /\ ifl' = FALSE
  <1> DEFINE f == [vector |-> v, from |-> from, at |-> "entry", ifl |-> ifl]
  <1>1. f \in Frames
    BY DEF Frames, TypeOK
  <1>2. frames' = <<f>> \o <<>>
    BY DEF Enter
  <1>3. <<f>> \in Seq(Frames) /\ Len(<<f>>) = 1 /\ <<f>>[1] = f
    BY <1>1
  <1>4. <<f>> \o <<>> = <<f>>
    BY <1>3
  <1>5. frames' \in Seq(Frames) /\ Len(frames') = 1 /\ frames'[1] = f /\ frames' # <<>>
    BY <1>2, <1>3, <1>4, NotEmpty
  <1> QED BY <1>5 DEF Top, Enter, FramesOK

LEMMA HighestOfOne == ASSUME NEW b \in Bits PROVE Highest({b}) = b
  BY DEF Highest, Bits

LEMMA InitIInv == Init => IInv
  <1> SUFFICES ASSUME Init PROVE IInv
    OBVIOUS
  <1>1. TypeOK
    <2>1. imr \in [Chips -> SUBSET Bits]
      BY DEF Init
    <2>2. base \in [Chips -> SUBSET Bits]
      BY DEF Init, FirmwareBase, Chips, Bits
    <2>3. FramesOK
      <3>1. <<>> \in Seq(Frames) /\ Len(<<>>) = 0
        BY EmptySeq
      <3> QED BY <3>1 DEF Init, FramesOK
    <2>4. /\ line \in [Chips -> SUBSET Bits] /\ irr \in [Chips -> SUBSET Bits]
          /\ isr \in [Chips -> SUBSET Bits] /\ saved \in [Chips -> SUBSET Bits]
          /\ want \in [Chips -> {"ocw1", "icw2", "icw3", "icw4"}]
      BY DEF Init
    <2>5. fw \in [Chips -> SUBSET Bits]
      BY <2>1 DEF Init
    <2>6. k \in 1 .. 11 /\ halted \in BOOLEAN /\ ifl \in BOOLEAN
          /\ pc \in {"sti", "a1", "a2", "remap", "flush", "drivers", "idle"}
      <3>1. k = 1 /\ halted = FALSE /\ ifl = FALSE /\ pc = "sti"
        BY DEF Init
      <3>2. k \in 1 .. 11
        BY <3>1
      <3> QED BY <3>1, <3>2, Zenon
    <2>7. glitch \subseteq Chips
      BY DEF Init, Chips
    <2> QED BY <2>1, <2>2, <2>3, <2>4, <2>5, <2>6, <2>7 DEF TypeOK
  <1> QED
    BY <1>1 DEF Init, IInv, ServiceInv, ProgressInv, VectorInv, HaltInv, KeyboardInv,
      FirmwareBase, Remapped, Chips

(* What a falling input leaves: only its own line and its own request go.   *)
LEMMA LowerInputEffect ==
  ASSUME TypeOK, NEW c \in Chips, NEW b \in Bits, LowerInput(c, b)
  PROVE  /\ line' = [line EXCEPT ![c] = @ \ {b}]
         /\ line' \in [Chips -> SUBSET Bits]
         /\ irr' \in [Chips -> SUBSET Bits]
         /\ irr' = irr \/ irr' = [irr EXCEPT ![c] = @ \ {b}]
         /\ glitch' \subseteq Chips
  BY DEF LowerInput, TypeOK

LEMMA DeviceShape ==
  ASSUME NEW d \in Devices
  PROVE  d.chip \in Chips /\ d.bit \in Bits /\ d = Request(d.chip, d.bit)
  BY DevicesAssumption DEF Devices, Timer, Keyboard, Request, Chips, Bits

LEMMA DeviceIInv == IInv /\ DeviceStep => IInv'
  <1> SUFFICES ASSUME IInv, NEW d \in Devices, Raise(d) \/ Lower(d) PROVE IInv'
    BY DEF DeviceStep
  <1>1. d.chip \in Chips /\ d.bit \in Bits /\ d = Request(d.chip, d.bit)
    BY DeviceShape
  <1>2. UNCHANGED <<isr, imr, base, want, ifl, frames, pc, k, saved, halted, fw>>
    BY DEF Raise, Lower, thread
  <1>3. TypeOK'
    BY <1>1, <1>2, LowerInputEffect DEF Raise, Lower, IInv, TypeOK, FramesOK
  <1>4. KeyboardInv'
    <2>1. CASE Raise(d)
      BY <2>1, <1>1, <1>2 DEF Raise, IInv, KeyboardInv, TypeOK, Top, Chips
    <2>2. CASE Lower(d)
      <3>1. line' = [line EXCEPT ![d.chip] = @ \ {d.bit}]
            /\ (irr' = irr \/ irr' = [irr EXCEPT ![d.chip] = @ \ {d.bit}])
        BY <2>2, <1>1, LowerInputEffect DEF Lower, IInv
      <3>2. d.chip # "master" \/ d.bit # 1
        BY <2>2, <1>1 DEF Lower, Keyboard
      <3> QED BY <3>1, <3>2, <1>2 DEF IInv, KeyboardInv, TypeOK, Top, Chips
    <2> QED BY <2>1, <2>2
  <1> QED
    BY <1>2, <1>3, <1>4 DEF IInv, ServiceInv, InService, Top, ProgressInv, Remapped, VectorInv, HaltInv

-----------------------------------------------------------------------------
(* The acknowledge cycles.                                                  *)
LEMMA NoFrameWhenEnabled == ASSUME IInv, ifl PROVE frames = <<>>
  BY DEF IInv, ServiceInv

(* The vectors of both chips, before and after PIC_remap.                   *)
LEMMA VectorShape ==
  ASSUME IInv, NEW c \in Chips, NEW b \in Bits
  PROVE  /\ Vector(c, b) \in [high : SUBSET (3 .. 7), irq : Bits]
         /\ AtLeast8(Vector(c, b))
         /\ Remapped => Vector(c, b).high = IF c = "master" THEN {5} ELSE {3, 5}
         /\ Vector(c, b).irq = b
  <1>1. base[c] \in {{3}, {5}, {4, 5, 6}, {3, 5}}
    BY DEF IInv, ProgressInv, Chips
  <1>2. Remapped => base[c] = IF c = "master" THEN {5} ELSE {3, 5}
    BY DEF IInv, ProgressInv, Chips
  <1>3. base[c] \cap 3 .. 7 = base[c] /\ base[c] # {}
    BY <1>1
  <1> QED BY <1>2, <1>3 DEF Vector, AtLeast8, Bits

(* Entering a handler for a request of a chip keeps the invariant when the  *)
(* service registers take exactly that request.                             *)
LEMMA EnteredIInv ==
  ASSUME IInv, ifl, ~halted, glitch' = {},
         UNCHANGED <<line, imr, base, want, pc, k, saved, fw, halted>>,
         NEW v \in [high : SUBSET (3 .. 7), irq : Bits],
         NEW c \in Chips, NEW b \in Bits \cup {NoBit},
         AtLeast8(v),
         Remapped => /\ v.high = IF c = "master" THEN {5} ELSE {3, 5}
                     /\ v.irq = IF b # NoBit THEN b ELSE 7,
         Enter(v, Request(c, b)),
         isr'["slave"] = IF c = "slave" /\ b # NoBit THEN {b} ELSE {},
         isr'["master"] = IF c = "slave" THEN {Cascade} ELSE IF b = NoBit THEN {} ELSE {b},
         isr' \in [Chips -> SUBSET Bits], irr' \in [Chips -> SUBSET Bits],
         1 \in irr["master"] => 1 \in irr'["master"] \/ Request(c, b) = Keyboard
  PROVE  IInv'
  <1> DEFINE f == Request(c, b)
  <1>1. frames = <<>>
    BY NoFrameWhenEnabled
  <1>2. f \in [chip : Chips \cup {"cpu"}, bit : Bits \cup {NoBit}] /\ f.chip = c /\ f.bit = b
    BY DEF Request
  <1>3. /\ FramesOK' /\ frames' # <<>> /\ ifl' = FALSE
        /\ Top' = [vector |-> v, from |-> f, at |-> "entry", ifl |-> ifl]
    BY <1>1, <1>2, EnterTop DEF IInv
  <1> HIDE DEF f
  <1>4. c # "cpu"
    BY DEF Chips
  <1>5. TypeOK'
    BY <1>3 DEF IInv, TypeOK
  <1>6. ServiceInv'
    BY <1>2, <1>3, <1>4 DEF ServiceInv, InService, Chips
  <1>7. VectorInv'
    BY <1>2, <1>3 DEF VectorInv, Remapped
  <1>8. KeyboardInv'
    BY <1>1, <1>3 DEF KeyboardInv, IInv, f
  <1> QED BY <1>5, <1>6, <1>7, <1>8 DEF IInv, ProgressInv, Remapped, HaltInv

LEMMA AckMasterIInv == ASSUME IInv, NEW b \in Bits, AckMaster(b) PROVE IInv'
  <1>1. /\ ifl /\ ~halted /\ glitch' = {} /\ b # Cascade
        /\ UNCHANGED <<line, imr, base, want, pc, k, saved, fw, halted>>
        /\ irr' = [irr EXCEPT !["master"] = @ \ {b}]
        /\ isr' = [isr EXCEPT !["master"] = @ \cup {b}]
        /\ Enter(Vector("master", b), Request("master", b))
    BY DEF AckMaster, thread
  <1>2. \A c \in Chips : isr[c] = {}
    BY <1>1, NoFrameWhenEnabled DEF IInv, ServiceInv
  <1>3. isr'["slave"] = {} /\ isr'["master"] = {b}
    BY <1>1, <1>2 DEF IInv, TypeOK, Chips
  <1>4. isr' \in [Chips -> SUBSET Bits] /\ irr' \in [Chips -> SUBSET Bits]
    BY <1>1 DEF IInv, TypeOK, Chips
  <1>5. 1 \in irr["master"] => 1 \in irr'["master"] \/ Request("master", b) = Keyboard
    BY <1>1 DEF IInv, TypeOK, Chips, Keyboard
  <1>6. b # NoBit /\ "master" \in Chips
    BY DEF Bits, NoBit, Chips
  <1> QED BY <1>1, <1>3, <1>4, <1>5, <1>6, VectorShape, EnteredIInv

LEMMA AckSlaveIInv == ASSUME IInv, NEW b \in Bits, AckSlave(b) PROVE IInv'
  <1>1. /\ ifl /\ ~halted /\ glitch' = {}
        /\ UNCHANGED <<line, imr, base, want, pc, k, saved, fw, halted>>
        /\ irr' = [irr EXCEPT !["slave"] = @ \ {b}]
        /\ isr' = [isr EXCEPT !["master"] = @ \cup {Cascade}, !["slave"] = @ \cup {b}]
        /\ Enter(Vector("slave", b), Request("slave", b))
    BY DEF AckSlave, thread
  <1>2. \A c \in Chips : isr[c] = {}
    BY <1>1, NoFrameWhenEnabled DEF IInv, ServiceInv
  <1>3. isr'["slave"] = {b} /\ isr'["master"] = {Cascade}
    BY <1>1, <1>2 DEF IInv, TypeOK, Chips
  <1>4. isr' \in [Chips -> SUBSET Bits] /\ irr' \in [Chips -> SUBSET Bits]
    BY <1>1 DEF IInv, TypeOK, Chips, Bits, Cascade
  <1>5. 1 \in irr["master"] => 1 \in irr'["master"]
    BY <1>1 DEF IInv, TypeOK, Chips
  <1>6. b # NoBit /\ "slave" \in Chips
    BY DEF Bits, NoBit, Chips
  <1>7. /\ Vector("slave", b) \in [high : SUBSET (3 .. 7), irq : Bits]
        /\ AtLeast8(Vector("slave", b))
        /\ Remapped => Vector("slave", b).high = {3, 5} /\ Vector("slave", b).irq = b
    BY <1>6, VectorShape
  <1> QED BY <1>1, <1>3, <1>4, <1>5, <1>6, <1>7, EnteredIInv

LEMMA AckSlaveSpuriousIInv == ASSUME IInv, AckSlaveSpurious PROVE IInv'
  <1>1. /\ ifl /\ ~halted /\ glitch' = {}
        /\ UNCHANGED <<line, irr, imr, base, want, pc, k, saved, fw, halted>>
        /\ isr' = [isr EXCEPT !["master"] = @ \cup {Cascade}]
        /\ Enter(Vector("slave", 7), Request("slave", NoBit))
    BY DEF AckSlaveSpurious, thread
  <1>2. \A c \in Chips : isr[c] = {}
    BY <1>1, NoFrameWhenEnabled DEF IInv, ServiceInv
  <1>3. isr'["slave"] = {} /\ isr'["master"] = {Cascade}
    BY <1>1, <1>2 DEF IInv, TypeOK, Chips
  <1>4. isr' \in [Chips -> SUBSET Bits] /\ irr' \in [Chips -> SUBSET Bits]
    BY <1>1 DEF IInv, TypeOK, Chips, Bits, Cascade
  <1>5. 7 \in Bits /\ "slave" \in Chips
    BY DEF Bits, Chips
  <1> QED BY <1>1, <1>3, <1>4, <1>5, VectorShape, EnteredIInv

LEMMA AckMasterSpuriousIInv == ASSUME IInv, AckMasterSpurious PROVE IInv'
  <1>1. /\ ifl /\ ~halted
        /\ UNCHANGED <<line, irr, isr, imr, base, want, pc, k, saved, fw, halted>>
        /\ glitch' = {}
        /\ Enter(Vector("master", 7), Request("master", NoBit))
    BY DEF AckMasterSpurious, thread, chips
  <1>2. \A c \in Chips : isr[c] = {}
    BY <1>1, NoFrameWhenEnabled DEF IInv, ServiceInv
  <1>3. isr'["slave"] = {} /\ isr'["master"] = {}
    BY <1>1, <1>2 DEF Chips
  <1>4. isr' \in [Chips -> SUBSET Bits] /\ irr' \in [Chips -> SUBSET Bits]
    BY <1>1 DEF IInv, TypeOK
  <1>5. 7 \in Bits /\ "master" \in Chips
    BY DEF Bits, Chips
  <1> QED BY <1>1, <1>3, <1>4, <1>5, VectorShape, EnteredIInv

-----------------------------------------------------------------------------
(* The handler's steps.                                                     *)
LEMMA HandleExceptionIInv == ASSUME IInv, HandleException PROVE IInv'
  <1>1. /\ UNCHANGED <<line, irr, isr, imr, base, want, glitch, frames, pc, k, saved, fw>>
        /\ ~ifl' /\ ifl' \in BOOLEAN /\ halted' \in BOOLEAN
        /\ frames # <<>> /\ IsException(Top.vector)
    BY DEF HandleException, Running, thread, chips
  <1>2. TypeOK'
    BY <1>1 DEF IInv, TypeOK, FramesOK
  <1> QED
    BY <1>1, <1>2 DEF IInv, ServiceInv, InService, Top, ProgressInv, Remapped, VectorInv, HaltInv, KeyboardInv

(* Steps that advance the running handler and do not change its frame       *)
(* otherwise.                                                               *)
LEMMA AdvancedIInv ==
  ASSUME IInv, frames # <<>>, ~halted, UNCHANGED <<imr, base, want, ifl, pc, k, saved, fw, halted>>,
         NEW at \in {"eoi2", "eoi1", "iret"}, Advance(at),
         isr' \in [Chips -> SUBSET Bits], irr' \in [Chips -> SUBSET Bits],
         line' \in [Chips -> SUBSET Bits], glitch' \subseteq Chips,
         \A c \in Chips : isr'[c] = InService([Top EXCEPT !.at = at], c),
         KeyboardInv'
  PROVE  IInv'
  <1>1. FramesOK' /\ frames' # <<>> /\ Top' = [Top EXCEPT !.at = at] /\ Top \in Frames
    BY AdvanceTop, OneFrame DEF IInv
  <1>2. Top'.vector = Top.vector /\ Top'.from = Top.from
    BY <1>1 DEF Frames
  <1>3. TypeOK'
    BY <1>1 DEF IInv, TypeOK
  <1>4. ServiceInv'
    <2>1. ~ifl'
      BY DEF IInv, ServiceInv
    <2>2. \A c \in Chips : isr'[c] = InService(Top', c)
      BY <1>1
    <2> QED BY <1>1, <1>2, <2>1, <2>2 DEF IInv, ServiceInv, InService
  <1>5. VectorInv'
    BY <1>2 DEF IInv, VectorInv, Remapped
  <1> QED BY <1>3, <1>4, <1>5 DEF IInv, ProgressInv, Remapped, HaltInv

LEMMA HandleKeyboardIInv == ASSUME IInv, HandleKeyboard PROVE IInv'
  <1>1. /\ frames # <<>> /\ ~halted /\ Top.at = "entry"
        /\ UNCHANGED <<isr, imr, base, want, ifl, pc, k, saved, fw, halted>>
        /\ Advance("eoi2") /\ LowerInput("master", 1)
    BY DEF HandleKeyboard, Running, thread
  <1>2. 1 \in Bits /\ "master" \in Chips
    BY DEF Bits, Chips
  <1>3. /\ line' = [line EXCEPT !["master"] = @ \ {1}]
        /\ line' \in [Chips -> SUBSET Bits] /\ irr' \in [Chips -> SUBSET Bits]
        /\ glitch' \subseteq Chips
    BY <1>1, <1>2, LowerInputEffect DEF IInv
  <1>4. KeyboardInv'
    BY <1>3, <1>2 DEF KeyboardInv, IInv, TypeOK
  <1>5. \A c \in Chips : isr'[c] = InService([Top EXCEPT !.at = "eoi2"], c)
    <2>1. Top \in Frames
      BY <1>1, OneFrame DEF IInv
    <2> QED BY <1>1, <2>1 DEF IInv, ServiceInv, InService, Frames
  <1>6. isr' \in [Chips -> SUBSET Bits]
    BY <1>1 DEF IInv, TypeOK
  <1> QED BY <1>1, <1>3, <1>4, <1>5, <1>6, AdvancedIInv

LEMMA HandleOtherIInv == ASSUME IInv, HandleOther PROVE IInv'
  <1>1. /\ frames # <<>> /\ ~halted /\ Top.at = "entry" /\ ~IsKeyboard(Top.vector)
        /\ UNCHANGED <<line, irr, glitch, isr, imr, base, want, ifl, pc, k, saved, fw, halted>>
        /\ Advance("eoi2")
    BY DEF HandleOther, Running, thread, chips
  <1>2. Top \in Frames
    BY <1>1, OneFrame DEF IInv
  <1>3. KeyboardInv'
    <2>1. Remapped => Top.from # Keyboard
      <3> SUFFICES ASSUME Remapped, Top.from = Keyboard PROVE FALSE
        OBVIOUS
      <3>1. Top.from.chip = "master" /\ Top.from.bit = 1 /\ 1 # NoBit
        BY DEF Keyboard, Request, NoBit
      <3> QED BY <1>1, <3>1 DEF IInv, VectorInv, IsKeyboard
    <2> QED BY <1>1, <2>1 DEF IInv, KeyboardInv, Remapped
  <1>4. \A c \in Chips : isr'[c] = InService([Top EXCEPT !.at = "eoi2"], c)
    BY <1>1, <1>2 DEF IInv, ServiceInv, InService, Frames
  <1>5. /\ isr' \in [Chips -> SUBSET Bits] /\ irr' \in [Chips -> SUBSET Bits]
        /\ line' \in [Chips -> SUBSET Bits] /\ glitch' \subseteq Chips
    BY <1>1 DEF IInv, TypeOK
  <1> QED BY <1>1, <1>3, <1>4, <1>5, AdvancedIInv

(* An end of interrupt to a chip with one request in service, or none.      *)
LEMMA EoiOfOne ==
  ASSUME TypeOK, NEW c \in Chips, EndOfInterrupt(c),
         isr[c] = {} \/ \E b \in Bits : isr[c] = {b}
  PROVE  isr' = [isr EXCEPT ![c] = {}]
  <1>1. CASE isr[c] = {}
    BY <1>1 DEF EndOfInterrupt, TypeOK
  <1>2. ASSUME NEW b \in Bits, isr[c] = {b} PROVE isr' = [isr EXCEPT ![c] = {}]
    <2>1. isr' = [isr EXCEPT ![c] = isr[c] \ {Highest(isr[c])}]
      BY <1>2 DEF EndOfInterrupt, TypeOK
    <2>2. isr[c] \ {Highest(isr[c])} = {}
      BY <1>2, HighestOfOne
    <2> QED BY <2>1, <2>2
  <1> QED BY <1>1, <1>2

LEMMA InServiceOne ==
  ASSUME NEW f \in Frames, NEW c \in Chips
  PROVE  InService(f, c) = {} \/ \E b \in Bits : InService(f, c) = {b}
  BY DEF InService, Frames, Bits, NoBit, Cascade, Chips

LEMMA SendEoiSlaveIInv == ASSUME IInv, SendEoiSlave PROVE IInv'
  <1>1. /\ frames # <<>> /\ ~halted /\ Top.at = "eoi2"
        /\ UNCHANGED <<line, irr, imr, base, want, glitch, ifl, pc, k, saved, fw, halted>>
        /\ Advance("eoi1")
    BY DEF SendEoiSlave, Running, thread
  <1>2. Top \in Frames /\ "slave" \in Chips
    BY <1>1, OneFrame DEF IInv, Chips
  <1>3. \A c \in Chips : isr[c] = InService(Top, c)
    BY <1>1 DEF IInv, ServiceInv
  <1>4. isr' = [isr EXCEPT !["slave"] = {}]
    <2>1. CASE AtLeast8(Top.vector)
      BY <2>1, <1>2, <1>3, InServiceOne, EoiOfOne DEF SendEoiSlave, IInv
    <2>2. CASE ~AtLeast8(Top.vector)
      <3>1. Top.from.chip = "cpu"
        BY <2>2, <1>1 DEF IInv, ServiceInv
      <3>2. isr["slave"] = {}
        BY <3>1, <1>2, <1>3 DEF InService
      <3> QED BY <2>2, <3>2 DEF SendEoiSlave, IInv, TypeOK
    <2> QED BY <2>1, <2>2
  <1>5. \A c \in Chips : isr'[c] = InService([Top EXCEPT !.at = "eoi1"], c)
    BY <1>1, <1>2, <1>3, <1>4 DEF InService, Frames, Chips, IInv, TypeOK
  <1>6. KeyboardInv'
    BY <1>1 DEF IInv, KeyboardInv
  <1>7. /\ isr' \in [Chips -> SUBSET Bits] /\ irr' \in [Chips -> SUBSET Bits]
        /\ line' \in [Chips -> SUBSET Bits] /\ glitch' \subseteq Chips
    BY <1>1, <1>4 DEF IInv, TypeOK
  <1> QED BY <1>1, <1>5, <1>6, <1>7, AdvancedIInv

LEMMA SendEoiMasterIInv == ASSUME IInv, SendEoiMaster PROVE IInv'
  <1>1. /\ frames # <<>> /\ ~halted /\ Top.at = "eoi1"
        /\ UNCHANGED <<line, irr, imr, base, want, glitch, ifl, pc, k, saved, fw, halted>>
        /\ Advance("iret") /\ EndOfInterrupt("master")
    BY DEF SendEoiMaster, Running, thread
  <1>2. Top \in Frames /\ "master" \in Chips
    BY <1>1, OneFrame DEF IInv, Chips
  <1>3. \A c \in Chips : isr[c] = InService(Top, c)
    BY <1>1 DEF IInv, ServiceInv
  <1>4. isr' = [isr EXCEPT !["master"] = {}]
    BY <1>1, <1>2, <1>3, InServiceOne, EoiOfOne DEF IInv
  <1>5. \A c \in Chips : isr'[c] = InService([Top EXCEPT !.at = "iret"], c)
    BY <1>1, <1>2, <1>3, <1>4 DEF InService, Frames, Chips, IInv, TypeOK
  <1>6. KeyboardInv'
    BY <1>1 DEF IInv, KeyboardInv
  <1>7. /\ isr' \in [Chips -> SUBSET Bits] /\ irr' \in [Chips -> SUBSET Bits]
        /\ line' \in [Chips -> SUBSET Bits] /\ glitch' \subseteq Chips
    BY <1>1, <1>4 DEF IInv, TypeOK
  <1> QED BY <1>1, <1>5, <1>6, <1>7, AdvancedIInv

LEMMA IretIInv == ASSUME IInv, Iret PROVE IInv'
  <1>1. /\ frames # <<>> /\ ~halted /\ Top.at = "iret"
        /\ UNCHANGED <<line, irr, isr, imr, base, want, glitch, pc, k, saved, fw, halted>>
        /\ ifl' = Top.ifl /\ frames' = Tail(frames)
    BY DEF Iret, Running, thread, chips
  <1>2. Top \in Frames /\ Len(frames) = 1 /\ frames \in Seq(Frames)
    BY <1>1, OneFrame DEF IInv, TypeOK, FramesOK
  <1>3. frames' \in Seq(Frames) /\ Len(frames') = 0
    BY <1>1, <1>2, HeadTailProperties
  <1>4. frames' = <<>>
    BY <1>3, EmptySeq
  <1>5. TypeOK'
    BY <1>1, <1>2, <1>3 DEF IInv, TypeOK, FramesOK, Frames
  <1>6. \A c \in Chips : isr'[c] = {}
    BY <1>1 DEF IInv, ServiceInv, InService, Chips
  <1>7. KeyboardInv'
    BY <1>1 DEF IInv, KeyboardInv
  <1> QED BY <1>1, <1>4, <1>5, <1>6, <1>7 DEF IInv, ServiceInv, ProgressInv, Remapped, VectorInv, HaltInv

-----------------------------------------------------------------------------
(* The boot thread's steps.                                                 *)
LEMMA RemapWritesAt ==
  /\ Len(RemapWrites) = 10
  /\ RemapWrites[1] = [chip |-> "master", icw1 |-> TRUE, byte |-> {0, 4}]
  /\ RemapWrites[2] = [chip |-> "slave", icw1 |-> TRUE, byte |-> {0, 4}]
  /\ RemapWrites[3] = [chip |-> "master", icw1 |-> FALSE, byte |-> {5}]
  /\ RemapWrites[4] = [chip |-> "slave", icw1 |-> FALSE, byte |-> {3, 5}]
  /\ RemapWrites[5] = [chip |-> "master", icw1 |-> FALSE, byte |-> {2}]
  /\ RemapWrites[6] = [chip |-> "slave", icw1 |-> FALSE, byte |-> {1}]
  /\ RemapWrites[7] = [chip |-> "master", icw1 |-> FALSE, byte |-> {0}]
  /\ RemapWrites[8] = [chip |-> "slave", icw1 |-> FALSE, byte |-> {0}]
  /\ RemapWrites[9] = [chip |-> "master", icw1 |-> FALSE, byte |-> saved["master"]]
  /\ RemapWrites[10] = [chip |-> "slave", icw1 |-> FALSE, byte |-> saved["slave"]]
  BY DEF RemapWrites, RemapSequence

(* A step between interrupts that leaves the frames alone.                  *)
LEMMA BetweenFrames ==
  ASSUME IInv, frames = <<>>, ~halted, UNCHANGED <<frames, halted>>, TypeOK', ProgressInv',
         \A c \in Chips : isr'[c] = {}, KeyboardInv'
  PROVE  IInv'
  BY DEF IInv, ServiceInv, VectorInv, HaltInv

LEMMA RemapWriteIInv == ASSUME IInv, RemapWrite PROVE IInv'
  <1> DEFINE w == RemapWrites[k]
  <1>1. /\ frames = <<>> /\ ~halted /\ pc = "remap" /\ k' = k + 1
        /\ pc' = IF k = 10 THEN "flush" ELSE "remap"
        /\ IF w.icw1 THEN WriteIcw1(w.chip) ELSE WriteData(w.chip, w.byte)
        /\ UNCHANGED <<line, glitch, ifl, frames, saved, halted, fw>>
    BY RemapWritesAt DEF RemapWrite, At
  <1>2. k \in 1 .. 10
    BY <1>1 DEF IInv, TypeOK, ProgressInv
  <1>3. saved = fw
    BY <1>1 DEF IInv, ProgressInv
  <1>4. /\ w.byte \in SUBSET Bits
        /\ w.icw1 <=> k \in {1, 2}
        /\ w.chip = IF k \in {1, 3, 5, 7, 9} THEN "master" ELSE "slave"
        /\ k = 3 => w.byte = {5}
        /\ k = 4 => w.byte = {3, 5}
        /\ k = 9 => w.byte = fw["master"]
        /\ k = 10 => w.byte = fw["slave"]
    <2>1. saved["master"] \in SUBSET Bits /\ saved["slave"] \in SUBSET Bits
      BY DEF IInv, TypeOK, Chips
    <2>2. {0, 4} \in SUBSET Bits /\ {5} \in SUBSET Bits /\ {3, 5} \in SUBSET Bits
          /\ {2} \in SUBSET Bits /\ {1} \in SUBSET Bits /\ {0} \in SUBSET Bits
      BY DEF Bits
    <2>3. k = 1 \/ k = 2 \/ k = 3 \/ k = 4 \/ k = 5 \/ k = 6 \/ k = 7 \/ k = 8 \/ k = 9 \/ k = 10
      BY <1>2
    <2>4. w.byte \in SUBSET Bits
      BY <2>1, <2>2, <2>3, RemapWritesAt
    <2>5. w.icw1 <=> k \in {1, 2}
      BY <2>3, RemapWritesAt
    <2>6. w.chip = IF k \in {1, 3, 5, 7, 9} THEN "master" ELSE "slave"
      BY <2>3, RemapWritesAt
    <2> QED BY <1>3, <2>4, <2>5, <2>6, RemapWritesAt
  <1> HIDE DEF w
  <1>5. w.chip \in Chips /\ w.byte \in SUBSET Bits
    BY <1>4 DEF Chips
  <1>6. TypeOK'
    <2>1. /\ irr' \in [Chips -> SUBSET Bits] /\ isr' \in [Chips -> SUBSET Bits]
          /\ imr' \in [Chips -> SUBSET Bits] /\ base' \in [Chips -> SUBSET Bits]
          /\ want' \in [Chips -> {"ocw1", "icw2", "icw3", "icw4"}]
      BY <1>1, <1>5 DEF WriteIcw1, WriteData, IInv, TypeOK
    <2>2. k' \in 1 .. 11 /\ pc' \in {"flush", "remap"}
      BY <1>1, <1>2
    <2> QED BY <1>1, <2>1, <2>2 DEF IInv, TypeOK, FramesOK
  <1>7. \A c \in Chips : isr'[c] = {}
    BY <1>1, <1>5 DEF WriteIcw1, WriteData, IInv, ServiceInv, TypeOK
  <1>8. ProgressInv'
    <2>1. CASE k \in {1, 2}
      <3>1. WriteIcw1(w.chip) /\ k' \in {2, 3} /\ pc' = "remap" /\ saved' = fw'
        BY <2>1, <1>1, <1>3, <1>4
      <3>2. want' = [want EXCEPT ![w.chip] = "icw2"] /\ base' = base
            /\ imr' = [imr EXCEPT ![w.chip] = {}]
        BY <3>1 DEF WriteIcw1
      <3>3. CASE k = 1
        BY <3>3, <3>1, <3>2, <1>1, <1>4 DEF IInv, ProgressInv, TypeOK, Remapped, Chips
      <3>4. CASE k = 2
        BY <3>4, <3>1, <3>2, <1>1, <1>4 DEF IInv, ProgressInv, TypeOK, Remapped, Chips
      <3> QED BY <2>1, <3>3, <3>4
    <2>2. CASE k \in 3 .. 10
      <3>1. WriteData(w.chip, w.byte)
        BY <2>2, <1>1, <1>4
      <3>2. k' \in 4 .. 11 /\ pc' # "a2" /\ (pc' = "remap" => k' <= 10) /\ saved' = fw'
            /\ pc' \in {"remap", "flush"} /\ (pc' = "flush" => k' = 11)
        BY <2>2, <1>1, <1>3
      <3>3. want'["master"] = IF k' >= 8 THEN "ocw1" ELSE IF k' <= 3 THEN "icw2"
                              ELSE IF k' <= 5 THEN "icw3" ELSE "icw4"
        BY <2>2, <3>1, <1>1, <1>4 DEF WriteData, IInv, ProgressInv, TypeOK, Chips
      <3>4. want'["slave"] = IF k' >= 9 THEN "ocw1" ELSE IF k' <= 4 THEN "icw2"
                             ELSE IF k' <= 6 THEN "icw3" ELSE "icw4"
        BY <2>2, <3>1, <1>1, <1>4 DEF WriteData, IInv, ProgressInv, TypeOK, Chips
      <3>5. /\ base'["master"] = IF k' <= 3 THEN {3} ELSE {5}
            /\ base'["slave"] = IF k' <= 4 THEN {4, 5, 6} ELSE {3, 5}
        <4>1. want["master"] = "icw2" <=> k = 3
          BY <2>2 DEF IInv, ProgressInv
        <4>2. /\ k = 4 => want["slave"] = "icw2"
              /\ k \in 5 .. 10 => want["slave"] # "icw2"
          BY <2>2 DEF IInv, ProgressInv
        <4>3. CASE k = 3
          BY <4>3, <4>1, <3>1, <1>1, <1>4 DEF WriteData, IInv, ProgressInv, TypeOK, Chips
        <4>4. CASE k = 4
          BY <4>4, <4>2, <3>1, <1>1, <1>4 DEF WriteData, IInv, ProgressInv, TypeOK, Chips
        <4>5. CASE k \in 5 .. 10
          <5>1. base' = base
            BY <4>5, <4>1, <4>2, <3>1, <1>5 DEF WriteData, Chips
          <5> QED BY <4>5, <5>1, <1>1 DEF IInv, ProgressInv
        <4> QED BY <2>2, <4>3, <4>4, <4>5
      <3>6. /\ k' >= 10 => imr'["master"] = fw'["master"]
            /\ k' = 11 => imr'["slave"] = fw'["slave"]
        BY <2>2, <3>1, <1>1, <1>4 DEF WriteData, IInv, ProgressInv, TypeOK, Chips
      <3> QED BY <3>2, <3>3, <3>4, <3>5, <3>6 DEF ProgressInv, Remapped
    <2> QED BY <1>2, <2>1, <2>2
  <1>9. KeyboardInv'
    BY <1>1 DEF KeyboardInv
  <1> QED BY <1>1, <1>6, <1>7, <1>8, <1>9, BetweenFrames

LEMMA MainIInv == ASSUME IInv, MainStep PROVE IInv'
  <1>1. frames = <<>> /\ ~halted /\ \A c \in Chips : isr[c] = {}
    BY DEF MainStep, SetInterruptFlag, SaveMask, RemapWrite, FlushKeyboard, SetUpDrivers,
      DriverFault, At, IInv, ServiceInv
  <1>2. CASE SetInterruptFlag
    <2>1. UNCHANGED <<line, irr, isr, imr, base, want, glitch, frames, k, saved, halted, fw>>
          /\ pc = "sti" /\ pc' = "a1" /\ ifl' = TRUE
      BY <1>2 DEF SetInterruptFlag, At, chips
    <2>2. TypeOK' /\ ProgressInv' /\ KeyboardInv'
      BY <2>1 DEF IInv, TypeOK, FramesOK, ProgressInv, Remapped, KeyboardInv
    <2> QED BY <1>1, <2>1, <2>2, BetweenFrames
  <1>3. CASE SaveMask("a1", "master", "a2")
    <2>1. UNCHANGED <<line, irr, isr, imr, base, want, glitch, ifl, frames, k, halted, fw>>
          /\ pc = "a1" /\ pc' = "a2" /\ saved' = [saved EXCEPT !["master"] = imr["master"]]
      BY <1>3 DEF SaveMask, At, chips
    <2>2. saved' \in [Chips -> SUBSET Bits] /\ saved'["master"] = fw["master"]
      BY <2>1 DEF IInv, TypeOK, ProgressInv, Chips
    <2>3. TypeOK' /\ ProgressInv' /\ KeyboardInv'
      BY <2>1, <2>2 DEF IInv, TypeOK, FramesOK, ProgressInv, Remapped, KeyboardInv
    <2> QED BY <1>1, <2>1, <2>3, BetweenFrames
  <1>4. CASE SaveMask("a2", "slave", "remap")
    <2>1. UNCHANGED <<line, irr, isr, imr, base, want, glitch, ifl, frames, k, halted, fw>>
          /\ pc = "a2" /\ pc' = "remap" /\ saved' = [saved EXCEPT !["slave"] = imr["slave"]]
      BY <1>4 DEF SaveMask, At, chips
    <2>2. saved' \in [Chips -> SUBSET Bits] /\ saved' = fw
      BY <2>1 DEF IInv, TypeOK, ProgressInv, Chips
    <2>3. k = 1
      BY <2>1 DEF IInv, ProgressInv
    <2>4. TypeOK' /\ ProgressInv' /\ KeyboardInv'
      BY <2>1, <2>2, <2>3 DEF IInv, TypeOK, FramesOK, ProgressInv, Remapped, KeyboardInv
    <2> QED BY <1>1, <2>1, <2>4, BetweenFrames
  <1>5. CASE RemapWrite
    BY <1>5, RemapWriteIInv
  <1>6. CASE FlushKeyboard
    <2>1. UNCHANGED <<isr, imr, base, want, ifl, frames, k, saved, halted, fw>>
          /\ pc = "flush" /\ pc' = "drivers" /\ LowerInput("master", 1)
      BY <1>6 DEF FlushKeyboard, At
    <2>2. 1 \in Bits /\ "master" \in Chips
      BY DEF Bits, Chips
    <2>3. /\ line' = [line EXCEPT !["master"] = @ \ {1}]
          /\ line' \in [Chips -> SUBSET Bits] /\ irr' \in [Chips -> SUBSET Bits]
          /\ glitch' \subseteq Chips
      BY <2>1, <2>2, LowerInputEffect DEF IInv
    <2>4. KeyboardInv'
      BY <2>2, <2>3 DEF KeyboardInv, IInv, TypeOK
    <2>5. TypeOK' /\ ProgressInv'
      BY <2>1, <2>3 DEF IInv, TypeOK, FramesOK, ProgressInv, Remapped
    <2> QED BY <1>1, <2>1, <2>4, <2>5, BetweenFrames
  <1>7. CASE SetUpDrivers
    <2>1. UNCHANGED <<line, irr, isr, imr, base, want, glitch, ifl, frames, k, saved, halted, fw>>
          /\ pc = "drivers" /\ pc' = "idle"
      BY <1>7 DEF SetUpDrivers, At, chips
    <2>2. TypeOK' /\ ProgressInv' /\ KeyboardInv'
      BY <2>1 DEF IInv, TypeOK, FramesOK, ProgressInv, Remapped, KeyboardInv, Top
    <2> QED BY <1>1, <2>1, <2>2, BetweenFrames
  <1>8. CASE DriverFault
    <2> DEFINE v == [high |-> {3}, irq |-> 6]
               f == Request("cpu", NoBit)
    <2>1. /\ UNCHANGED <<line, irr, isr, imr, base, want, glitch, pc, k, saved, halted, fw>>
          /\ Enter(v, f)
      BY <1>8 DEF DriverFault, thread, chips
    <2>2. v \in [high : SUBSET (3 .. 7), irq : Bits] /\ IsException(v)
      BY DEF Bits, IsException
    <2>3. f \in [chip : Chips \cup {"cpu"}, bit : Bits \cup {NoBit}] /\ f.chip = "cpu"
      BY DEF Request
    <2> HIDE DEF v, f
    <2>4. /\ FramesOK' /\ frames' # <<>> /\ ifl' = FALSE
          /\ Top' = [vector |-> v, from |-> f, at |-> "entry", ifl |-> ifl]
      BY <1>1, <2>1, <2>2, <2>3, EnterTop DEF IInv
    <2>5. TypeOK'
      BY <2>1, <2>4 DEF IInv, TypeOK
    <2>6. ServiceInv'
      BY <1>1, <2>1, <2>2, <2>3, <2>4 DEF ServiceInv, InService, Chips
    <2>7. KeyboardInv'
      BY <1>1, <2>1 DEF IInv, KeyboardInv
    <2> QED BY <1>1, <2>1, <2>3, <2>4, <2>5, <2>6, <2>7
          DEF IInv, ProgressInv, Remapped, VectorInv, HaltInv
  <1> QED BY <1>2, <1>3, <1>4, <1>5, <1>6, <1>7, <1>8 DEF MainStep

-----------------------------------------------------------------------------
LEMMA NextIInv == IInv /\ [Next]_vars => IInv'
  <1> SUFFICES ASSUME IInv, [Next]_vars PROVE IInv'
    OBVIOUS
  <1>1. CASE DeviceStep
    BY <1>1, DeviceIInv
  <1>2. CASE \E b \in Bits : AckMaster(b) \/ AckSlave(b)
    BY <1>2, AckMasterIInv, AckSlaveIInv
  <1>3. CASE AckMasterSpurious \/ AckSlaveSpurious
    BY <1>3, AckMasterSpuriousIInv, AckSlaveSpuriousIInv
  <1>4. CASE HandlerStep
    BY <1>4, HandleExceptionIInv, HandleKeyboardIInv, HandleOtherIInv, SendEoiSlaveIInv,
      SendEoiMasterIInv, IretIInv DEF HandlerStep
  <1>5. CASE MainStep
    BY <1>5, MainIInv
  <1>6. CASE UNCHANGED vars
    BY <1>6 DEF vars, IInv, TypeOK, FramesOK, ServiceInv, InService, Top, ProgressInv, Remapped,
      VectorInv, HaltInv, KeyboardInv
  <1> QED BY <1>1, <1>2, <1>3, <1>4, <1>5, <1>6 DEF Next

LEMMA Invariance == Spec => []IInv
  BY InitIInv, NextIInv, PTL DEF Spec

(* The state is well-formed; in particular interrupt handlers never nest:   *)
(* the kernel stack holds one frame at most.                                *)
THEOREM TypeCorrect == Spec => []TypeOK
  <1>1. IInv => TypeOK
    BY DEF IInv
  <1> QED BY <1>1, Invariance, PTL

(* Nothing is left in service on either chip when interrupts can be taken.  *)
THEOREM NothingLeftInService == Spec => []AckedBeforeReturn
  <1>1. IInv => AckedBeforeReturn
    BY DEF IInv, ServiceInv, AckedBeforeReturn
  <1> QED BY <1>1, Invariance, PTL

(* PIC_remap restores both masks.                                           *)
THEOREM MasksRestored == Spec => []FirmwareMasksRestored
  <1>1. ASSUME IInv, Remapped PROVE imr = fw
    <2>1. imr["master"] = fw["master"] /\ imr["slave"] = fw["slave"]
      BY <1>1 DEF IInv, ProgressInv
    <2> QED BY <1>1, <2>1 DEF IInv, TypeOK, Chips
  <1>2. IInv => FirmwareMasksRestored
    BY <1>1 DEF FirmwareMasksRestored
  <1> QED BY <1>2, Invariance, PTL

(* After PIC_remap a vector identifies the line.                            *)
THEOREM VectorsIdentifyLines == Spec => []VectorIdentifiesLine
  <1>1. ASSUME IInv, NEW i \in 1 .. Len(frames) PROVE frames # <<>> /\ frames[i] = Top
    <2>1. Len(frames) = 1 \/ frames = <<>>
      BY <1>1, OneFrame DEF IInv
    <2>2. Len(<<>>) = 0
      BY EmptySeq
    <2>3. frames # <<>>
      BY <1>1, <2>2
    <2> QED BY <1>1, <2>1, <2>3 DEF Top
  <1>2. IInv => VectorIdentifiesLine
    BY <1>1 DEF VectorIdentifiesLine, IInv, VectorInv
  <1> QED BY <1>2, Invariance, PTL

(* Once PIC_remap is done only a processor exception stops the machine.     *)
THEOREM OnlyFaultsHalt == Spec => []OnlyFaultsHaltAfterRemap
  <1>1. ASSUME IInv, halted, Remapped, Top.from.chip # "cpu" PROVE FALSE
    <2>1. IsException(Top.vector) /\ Top.vector.high \in {{5}, {3, 5}}
      BY <1>1 DEF IInv, HaltInv, VectorInv
    <2> QED BY <2>1 DEF IsException
  <1>2. IInv => OnlyFaultsHaltAfterRemap
    BY <1>1 DEF OnlyFaultsHaltAfterRemap
  <1> QED BY <1>2, Invariance, PTL

(* No key press is lost to edge triggering once the drivers are up.         *)
THEOREM KeyboardNeverStuck == Spec => []NoStuckKeyboard
  <1>1. ASSUME IInv, frames # <<>> PROVE 1 \in 1 .. Len(frames) /\ frames[1] = Top
    BY <1>1, OneFrame DEF IInv, Top
  <1>2. IInv => NoStuckKeyboard
    BY <1>1 DEF NoStuckKeyboard, IInv, KeyboardInv
  <1> QED BY <1>2, Invariance, PTL

(* PIC_sendEOI, which addresses both chips for every vector, retires the    *)
(* request being handled and no other.                                      *)
LEMMA RetiredIsOwn ==
  ASSUME IInv, frames # <<>>, NEW c \in Chips, NEW b \in isr[c]
  PROVE  Top.from = Request(c, b) \/ (c = "master" /\ b = Cascade /\ Top.from.chip = "slave")
  <1>1. Top \in Frames /\ b \in InService(Top, c)
    BY OneFrame DEF IInv, ServiceInv
  <1>2. Top.from = Request(Top.from.chip, Top.from.bit)
    BY <1>1 DEF Frames, Request
  <1>3. CASE c = "slave"
    BY <1>1, <1>2, <1>3 DEF InService
  <1>4. CASE c = "master"
    <2>1. Top.from.chip \in {"master", "slave", "cpu"}
      BY <1>1 DEF Frames, Chips
    <2> QED BY <1>1, <1>2, <1>4, <2>1 DEF InService
  <1> QED BY <1>3, <1>4 DEF Chips

THEOREM EoisRetireOwnRequest == Spec => EoiRetiresOwnRequest
  <1>1. IInv /\ [Next]_vars =>
          [\A c \in Chips : \A b \in isr[c] \ isr'[c] :
             pc' = pc /\ frames # <<>> =>
               \/ Top.from = Request(c, b)
               \/ c = "master" /\ b = Cascade /\ Top.from.chip = "slave"]_vars
    BY RetiredIsOwn
  <1> QED BY <1>1, Invariance, PTL DEF Spec, EoiRetiresOwnRequest

=============================================================================
