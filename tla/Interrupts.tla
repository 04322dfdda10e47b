------------------------------ MODULE Interrupts ------------------------------
(***************************************************************************)
(* Hardware interrupts from the moment idt_init sets the interrupt flag:    *)
(* the two cascaded 8259 controllers (external), the CPU's interrupt entry, *)
(* the stubs of exep.asm with interrupt_handler, exception_handler and      *)
(* PIC_sendEOI, and the boot thread that meanwhile runs PIC_remap one port  *)
(* write at a time.  A byte is the set of its bits that are 1.              *)
(***************************************************************************)
EXTENDS Integers, Sequences

CONSTANT OtherDevices   \* the lines that have a device and no handler

Chips == {"master", "slave"}
Bits == 0 .. 7
Request(c, b) == [chip |-> c, bit |-> b]
Timer == Request("master", 0)
Keyboard == Request("master", 1)
Cascade == 2
NoBit == 8      \* of an interrupt that no device requested

Devices == {Timer, Keyboard} \cup OtherDevices

ASSUME DevicesAssumption ==
  OtherDevices \subseteq [chip : Chips, bit : Bits] \ {Request("master", Cascade), Keyboard, Timer}

(* Firmware vectors: IRQ 0 at 0x08, IRQ 8 at 0x70.                          *)
FirmwareBase == [master |-> {3}, slave |-> {4, 5, 6}]

VARIABLES
  line,    \* per chip, the inputs that a device holds high
  irr,     \* requests latched at a rising edge
  isr,     \* requests acknowledged and not yet ended
  imr,     \* interrupt masks
  base,    \* ICW2
  want,    \* what the chip takes the next data byte for
  glitch,  \* chips whose request vanished after the CPU began to acknowledge
  ifl,     \* the CPU's interrupt flag
  frames,  \* interrupt frames on the kernel stack, the running one first
  pc,      \* where the boot thread is
  k,       \* the next port write of PIC_remap
  saved,   \* PIC_remap's a1 and a2
  halted,  \* cli; hlt in exception_handler
  fw       \* history: the masks the firmware left

vars == <<line, irr, isr, imr, base, want, glitch, ifl, frames, pc, k, saved, halted, fw>>
chips == <<irr, isr, imr, base, want>>
thread == <<pc, k, saved, fw>>

-----------------------------------------------------------------------------
(* The vector a chip puts on the bus, and what the code asks about it.      *)
Vector(c, b) == [high |-> base[c] \cap 3 .. 7, irq |-> b]
IsException(v) == v.high \cap 5 .. 7 = {}           \* vector < 32
IsKeyboard(v) == v.high = {5} /\ v.irq = 1          \* vector - 32 = 1
AtLeast8(v) == v.high # {}

Frames == [vector : [high : SUBSET (3 .. 7), irq : Bits],
           from : [chip : Chips \cup {"cpu"}, bit : Bits \cup {NoBit}],
           at : {"entry", "eoi2", "eoi1", "iret"},
           ifl : BOOLEAN]

(* The ten port writes of PIC_remap, in order.                              *)
RemapSequence(offset1, offset2, a1, a2) ==
  LET Icw1(c) == [chip |-> c, icw1 |-> TRUE, byte |-> {0, 4}]
      Data(c, byte) == [chip |-> c, icw1 |-> FALSE, byte |-> byte]
  IN << Icw1("master"), Icw1("slave"),
        Data("master", offset1), Data("slave", offset2),
        Data("master", {2}), Data("slave", {1}),
        Data("master", {0}), Data("slave", {0}),
        Data("master", a1), Data("slave", a2) >>

(* Mutants: the saved masks swapped, the slave's offset without its "+ 8",  *)
(* and a master offset of 0x10, among the exception vectors.                *)
RemapMasksSwapped == RemapSequence({5}, {3, 5}, saved["slave"], saved["master"])
RemapSlaveOffset == RemapSequence({5}, {5}, saved["master"], saved["slave"])
RemapMasterOffset == RemapSequence({4}, {3, 5}, saved["master"], saved["slave"])

(* PIC_remap(0x20, 0x28).                                                   *)
RemapWrites == RemapSequence({5}, {3, 5}, saved["master"], saved["slave"])

Remapped == pc \in {"flush", "drivers", "idle"}

FramesOK == frames \in Seq(Frames) /\ Len(frames) <= 1     \* handlers never nest

TypeOK ==
  /\ line \in [Chips -> SUBSET Bits]
  /\ irr \in [Chips -> SUBSET Bits]
  /\ isr \in [Chips -> SUBSET Bits]
  /\ imr \in [Chips -> SUBSET Bits]
  /\ base \in [Chips -> SUBSET Bits]
  /\ want \in [Chips -> {"ocw1", "icw2", "icw3", "icw4"}]
  /\ glitch \subseteq Chips
  /\ ifl \in BOOLEAN
  /\ FramesOK
  /\ pc \in {"sti", "a1", "a2", "remap", "flush", "drivers", "idle"}
  /\ k \in 1 .. 11
  /\ saved \in [Chips -> SUBSET Bits]
  /\ halted \in BOOLEAN
  /\ fw \in [Chips -> SUBSET Bits]

(* idt_init has loaded the IDT; the boot loader left the flag clear.        *)
Init ==
  /\ line = [c \in Chips |-> {}]
  /\ irr = [c \in Chips |-> {}]
  /\ isr = [c \in Chips |-> {}]
  /\ \E D \in SUBSET (Devices \cup {Request("master", Cascade)}) :
       imr = [c \in Chips |-> {b \in Bits : Request(c, b) \in D}]
  /\ base = FirmwareBase
  /\ want = [c \in Chips |-> "ocw1"]
  /\ glitch = {}
  /\ ifl = FALSE
  /\ frames = <<>>
  /\ pc = "sti"
  /\ k = 1
  /\ saved = [c \in Chips |-> {}]
  /\ halted = FALSE
  /\ fw = imr

-----------------------------------------------------------------------------
(* The 8259: fully nested, edge triggered, no automatic end of interrupt.   *)
Highest(S) == CHOOSE b \in S : \A x \in S : b <= x

Deliverable(c, requests) == {b \in requests \ imr[c] : \A s \in isr[c] : b < s}

SlaveAsks ==
  /\ want["slave"] = "ocw1"
  /\ Deliverable("slave", irr["slave"]) # {} \/ "slave" \in glitch

(* What the master would present to the CPU.                                *)
Presented ==
  IF want["master"] # "ocw1" THEN {}
  ELSE Deliverable("master", irr["master"] \cup (IF SlaveAsks THEN {Cascade} ELSE {}))

(* A rising edge is latched.  The timer does not tick twice within the      *)
(* microseconds its own handler takes: one tick is 55 ms.                   *)
Raise(d) ==
  /\ d.bit \notin line[d.chip]
  /\ d = Timer => \A i \in 1 .. Len(frames) : frames[i].from # Timer
  /\ line' = [line EXCEPT ![d.chip] = @ \cup {d.bit}]
  /\ irr' = [irr EXCEPT ![d.chip] = @ \cup {d.bit}]
  /\ UNCHANGED <<isr, imr, base, want, glitch, ifl, frames, thread, halted>>

(* Input b of chip c falls.  A request not acknowledged yet survives or is  *)
(* withdrawn; withdrawn under the CPU's acknowledge it turns spurious.      *)
LowerInput(c, b) ==
  /\ line' = [line EXCEPT ![c] = @ \ {b}]
  /\ \/ UNCHANGED <<irr, glitch>>
     \/ /\ b \in irr[c]
        /\ irr' = [irr EXCEPT ![c] = @ \ {b}]
        /\ \/ UNCHANGED glitch
           \/ /\ ifl /\ want[c] = "ocw1" /\ b \in Deliverable(c, irr[c])
              /\ Presented # {}
              /\ Highest(Presented) = IF c = "master" THEN b ELSE Cascade
              /\ glitch' = glitch \cup {c}

(* A device other than the keyboard controller drops its line by itself.    *)
Lower(d) ==
  /\ d # Keyboard
  /\ d.bit \in line[d.chip]
  /\ LowerInput(d.chip, d.bit)
  /\ UNCHANGED <<isr, imr, base, want, ifl, frames, thread, halted>>

-----------------------------------------------------------------------------
(* The CPU enters vector v: every gate is 0x8E, an interrupt gate.          *)
(* Mutant: 0x8F, a trap gate, leaves the flag as it is.                     *)
EnterTrapGate(v, from) ==
  /\ frames' = <<[vector |-> v, from |-> from, at |-> "entry", ifl |-> ifl]>> \o frames
  /\ UNCHANGED ifl

Enter(v, from) ==
  /\ frames' = <<[vector |-> v, from |-> from, at |-> "entry", ifl |-> ifl]>> \o frames
  /\ ifl' = FALSE

(* The CPU acknowledges the master's input b.                               *)
AckMaster(b) ==
  /\ ifl /\ ~halted
  /\ Presented # {} /\ b = Highest(Presented) /\ b # Cascade
  /\ irr' = [irr EXCEPT !["master"] = @ \ {b}]
  /\ isr' = [isr EXCEPT !["master"] = @ \cup {b}]
  /\ glitch' = {}
  /\ Enter(Vector("master", b), Request("master", b))
  /\ UNCHANGED <<line, imr, base, want, thread, halted>>

(* The CPU acknowledges the slave's input b through the cascade input.      *)
AckSlave(b) ==
  /\ ifl /\ ~halted
  /\ Presented # {} /\ Highest(Presented) = Cascade
  /\ b \in Deliverable("slave", irr["slave"])
  /\ b = Highest(Deliverable("slave", irr["slave"]))
  /\ irr' = [irr EXCEPT !["slave"] = @ \ {b}]
  /\ isr' = [isr EXCEPT !["master"] = @ \cup {Cascade}, !["slave"] = @ \cup {b}]
  /\ glitch' = {}
  /\ Enter(Vector("slave", b), Request("slave", b))
  /\ UNCHANGED <<line, imr, base, want, thread, halted>>

(* The slave's request has gone: it answers with its input 7, spuriously,   *)
(* while the master has its cascade input in service.                       *)
AckSlaveSpurious ==
  /\ ifl /\ ~halted
  /\ Presented # {} /\ Highest(Presented) = Cascade
  /\ Deliverable("slave", irr["slave"]) = {}
  /\ isr' = [isr EXCEPT !["master"] = @ \cup {Cascade}]
  /\ glitch' = {}
  /\ Enter(Vector("slave", 7), Request("slave", NoBit))
  /\ UNCHANGED <<line, irr, imr, base, want, thread, halted>>

(* Nothing is left to present: the master answers with its input 7.         *)
AckMasterSpurious ==
  /\ ifl /\ ~halted
  /\ Presented = {} /\ "master" \in glitch
  /\ glitch' = {}
  /\ Enter(Vector("master", 7), Request("master", NoBit))
  /\ UNCHANGED <<line, chips, thread, halted>>

-----------------------------------------------------------------------------
(* interrupt_handler, running on the top frame.                             *)
Top == frames[1]
Running(at) == ~halted /\ frames # <<>> /\ Top.at = at
Advance(at) == frames' = [frames EXCEPT ![1].at = at]

(* A vector below 32: exception_handler reports it and stops the machine.   *)
HandleException ==
  /\ Running("entry") /\ IsException(Top.vector)
  /\ halted' = TRUE
  /\ ifl' = FALSE
  /\ UNCHANGED <<line, chips, glitch, frames, thread>>

(* Mutant: the handler waits for a byte before it reads.                    *)
HandleKeyboardPolling ==
  /\ Running("entry") /\ IsKeyboard(Top.vector)
  /\ 1 \in line["master"]
  /\ LowerInput("master", 1)
  /\ Advance("eoi2")
  /\ UNCHANGED <<isr, imr, base, want, ifl, thread, halted>>

(* handle_ps2 reads the data port, which lowers the keyboard's line.        *)
HandleKeyboard ==
  /\ Running("entry") /\ IsKeyboard(Top.vector)
  /\ LowerInput("master", 1)
  /\ Advance("eoi2")
  /\ UNCHANGED <<isr, imr, base, want, ifl, thread, halted>>

(* The timer is ignored and any other vector only printed.                  *)
HandleOther ==
  /\ Running("entry") /\ ~IsException(Top.vector) /\ ~IsKeyboard(Top.vector)
  /\ Advance("eoi2")
  /\ UNCHANGED <<line, chips, glitch, ifl, thread, halted>>

(* A chip ends the request of highest priority that it has in service.      *)
EndOfInterrupt(c) ==
  isr' = IF isr[c] = {} THEN isr ELSE [isr EXCEPT ![c] = @ \ {Highest(@)}]

(* Mutant: the slave is never told.                                         *)
MasterEoiOnly ==
  /\ Running("eoi2")
  /\ UNCHANGED isr
  /\ Advance("eoi1")
  /\ UNCHANGED <<line, irr, imr, base, want, glitch, ifl, thread, halted>>

(* PIC_sendEOI is given the vector, which after the remap is at least 32,   *)
(* where it expects the line: the slave is told of every interrupt.         *)
SendEoiSlave ==
  /\ Running("eoi2")
  /\ IF AtLeast8(Top.vector) THEN EndOfInterrupt("slave") ELSE UNCHANGED isr
  /\ Advance("eoi1")
  /\ UNCHANGED <<line, irr, imr, base, want, glitch, ifl, thread, halted>>

(* Mutant: the master is never told.                                        *)
SlaveEoiOnly ==
  /\ Running("eoi1")
  /\ UNCHANGED isr
  /\ Advance("iret")
  /\ UNCHANGED <<line, irr, imr, base, want, glitch, ifl, thread, halted>>

SendEoiMaster ==
  /\ Running("eoi1")
  /\ EndOfInterrupt("master")
  /\ Advance("iret")
  /\ UNCHANGED <<line, irr, imr, base, want, glitch, ifl, thread, halted>>

Iret ==
  /\ Running("iret")
  /\ ifl' = Top.ifl
  /\ frames' = Tail(frames)
  /\ UNCHANGED <<line, chips, glitch, thread, halted>>

-----------------------------------------------------------------------------
(* The boot thread, between interrupts.                                     *)
At(p) == ~halted /\ frames = <<>> /\ glitch = {} /\ pc = p

(* The last instruction of idt_init.                                        *)
SetInterruptFlag ==
  /\ At("sti")
  /\ ifl' = TRUE
  /\ pc' = "a1"
  /\ UNCHANGED <<line, chips, glitch, frames, k, saved, halted, fw>>

(* PIC_remap reads both masks.                                              *)
SaveMask(p, c, next) ==
  /\ At(p)
  /\ saved' = [saved EXCEPT ![c] = imr[c]]
  /\ pc' = next
  /\ UNCHANGED <<line, chips, glitch, ifl, frames, k, halted, fw>>

(* ICW1 clears the chip's mask, service and edge-detection registers and    *)
(* starts its initialisation, during which it requests nothing.             *)
WriteIcw1(c) ==
  /\ irr' = [irr EXCEPT ![c] = {}]
  /\ isr' = [isr EXCEPT ![c] = {}]
  /\ imr' = [imr EXCEPT ![c] = {}]
  /\ want' = [want EXCEPT ![c] = "icw2"]
  /\ UNCHANGED base

(* A data byte goes to the next initialisation word, or else to the mask.   *)
WriteData(c, byte) ==
  /\ base' = IF want[c] = "icw2" THEN [base EXCEPT ![c] = byte] ELSE base
  /\ imr' = IF want[c] = "ocw1" THEN [imr EXCEPT ![c] = byte] ELSE imr
  /\ want' = [want EXCEPT ![c] = CASE @ = "icw2" -> "icw3" [] @ = "icw3" -> "icw4"
                                     [] OTHER -> "ocw1"]
  /\ UNCHANGED <<irr, isr>>

(* One outb of PIC_remap; after the last one it returns.                    *)
RemapWrite ==
  /\ At("remap")
  /\ LET w == RemapWrites[k] IN IF w.icw1 THEN WriteIcw1(w.chip) ELSE WriteData(w.chip, w.byte)
  /\ k' = k + 1
  /\ pc' = IF k = Len(RemapWrites) THEN "flush" ELSE "remap"
  /\ UNCHANGED <<line, glitch, ifl, frames, saved, halted, fw>>

(* Mutant: init_ps2 does not empty the output buffer.                       *)
NoFlush ==
  /\ At("flush")
  /\ pc' = "drivers"
  /\ UNCHANGED <<line, chips, glitch, ifl, frames, k, saved, halted, fw>>

(* init_ps2 reads the data port to empty it (step 4 of init_ps2).           *)
FlushKeyboard ==
  /\ At("flush")
  /\ LowerInput("master", 1)
  /\ pc' = "drivers"
  /\ UNCHANGED <<isr, imr, base, want, ifl, frames, k, saved, halted, fw>>

(* The remaining drivers are set up, unless one of them faults: setup_ahci  *)
(* maps one page of a register file that is longer.                         *)
SetUpDrivers ==
  /\ At("drivers")
  /\ pc' = "idle"
  /\ UNCHANGED <<line, chips, glitch, ifl, frames, k, saved, halted, fw>>

DriverFault ==
  /\ At("drivers")
  /\ Enter([high |-> {3}, irq |-> 6], Request("cpu", NoBit))
  /\ UNCHANGED <<line, chips, glitch, thread, halted>>

MainStep ==
  \/ SetInterruptFlag
  \/ SaveMask("a1", "master", "a2") \/ SaveMask("a2", "slave", "remap")
  \/ RemapWrite
  \/ FlushKeyboard
  \/ SetUpDrivers \/ DriverFault

HandlerStep ==
  \/ HandleException \/ HandleKeyboard \/ HandleOther
  \/ SendEoiSlave \/ SendEoiMaster
  \/ Iret

DeviceStep == \E d \in Devices : Raise(d) \/ Lower(d)

Next ==
  \/ DeviceStep
  \/ \E b \in Bits : AckMaster(b) \/ AckSlave(b)
  \/ AckMasterSpurious \/ AckSlaveSpurious
  \/ HandlerStep
  \/ MainStep

(* The CPU keeps executing whatever it is in.  The timer ticks 18 times a   *)
(* second, far slower than a handler runs, so interrupts starve neither the *)
(* boot thread nor a line of lower priority: strong fairness for both.      *)
Fairness ==
  /\ WF_vars(HandlerStep)
  /\ WF_vars(AckMasterSpurious)
  /\ SF_vars(MainStep)
  /\ SF_vars(AckSlaveSpurious \/ \E b \in Bits : AckSlave(b))
  /\ \A d \in Devices : d.chip = "master" => SF_vars(AckMaster(d.bit))

Spec == Init /\ [][Next]_vars /\ Fairness

-----------------------------------------------------------------------------
(* Whenever interrupts can be taken, every earlier one has been ended on    *)
(* both chips: no line stays blocked behind a forgotten end of interrupt.   *)
AckedBeforeReturn == ifl => \A c \in Chips : isr[c] = {}

(* Each end of interrupt that PIC_sendEOI sends, to both chips for every    *)
(* vector, retires the request being handled and never another device's.    *)
EoiRetiresOwnRequest ==
  [][\A c \in Chips : \A b \in isr[c] \ isr'[c] :
        pc' = pc /\ frames # <<>> =>
          \/ Top.from = Request(c, b)
          \/ c = "master" /\ b = Cascade /\ Top.from.chip = "slave"]_vars

(* PIC_remap leaves both masks as the firmware set them, whatever arrives   *)
(* while its ten writes are under way.                                      *)
FirmwareMasksRestored == Remapped => imr = fw

(* After PIC_remap a vector tells the line: 32 + line, on both chips.       *)
VectorIdentifiesLine ==
  \A i \in 1 .. Len(frames) :
    LET f == frames[i]
    IN Remapped /\ f.from.chip # "cpu" =>
         /\ f.vector.high = IF f.from.chip = "master" THEN {5} ELSE {3, 5}
         /\ f.vector.irq = IF f.from.bit # NoBit THEN f.from.bit ELSE 7

(* Once PIC_remap is done only a processor exception stops the machine.     *)
OnlyFaultsHaltAfterRemap == halted /\ Remapped => Top.from.chip = "cpu"

(* Edge triggering: once the drivers are up a high keyboard line is always  *)
(* requested or being handled.  A line left high with no request would      *)
(* never interrupt again, and the keyboard would be dead.                   *)
NoStuckKeyboard ==
  pc \in {"drivers", "idle"} /\ 1 \in line["master"] =>
    \/ 1 \in irr["master"]
    \/ \E i \in 1 .. Len(frames) : frames[i].from = Keyboard /\ frames[i].at = "entry"

(* An interrupt before PIC_remap halts the boot thread for good, as         *)
(* ExceptionReportsAreReal shows.  If none comes, interrupts do not keep it *)
(* from its endless loop: nothing but a fault of its own drivers does.      *)
BootCompletes ==
  [](halted => Remapped) => <>(pc = "idle" \/ (halted /\ Top.from.chip = "cpu"))

(* A key press is eventually read, unless the firmware masked the line.     *)
KeyboardServed ==
  (pc = "idle" /\ 1 \in line["master"] /\ 1 \notin fw["master"])
    ~> 1 \notin line["master"]

(* exception_handler names the exception it reports: it runs for processor  *)
(* exceptions only.                                                         *)
ExceptionReportsAreReal == halted => Top.from.chip = "cpu"
=============================================================================
