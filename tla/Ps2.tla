--------------------------------- MODULE Ps2 ---------------------------------
(***************************************************************************)
(* The PS/2 driver of drivers/PS2f/ps2.c: init_ps2, which kernel_main calls *)
(* with interrupts on, and handle_ps2, which the keyboard interrupt calls.  *)
(* Both read port 0x60, and neither asks the controller for its status: a   *)
(* byte goes to whichever reads first.  The 8042 controller and the         *)
(* keyboard are external and modelled from how this code uses them:         *)
(*   - the controller answers a command before the next instruction unless  *)
(*     its output buffer is full, and then as soon as it is read;           *)
(*   - port 0x60 keeps its last byte, so reading it twice gives it twice;   *)
(*   - a command sent between the announcement of a configuration byte and *)
(*     the byte leaves the announcement standing, as in QEMU, which the    *)
(*     Makefile runs;                                                       *)
(*   - a full output buffer asserts the interrupt if the configuration      *)
(*     enables it, for an answer as for a scan code.                        *)
(* A byte is the set of its one bits.  io_wait, __ensure_ack and the debug  *)
(* output are left out; __ensure_ack has no caller.                         *)
(***************************************************************************)
EXTENDS Integers, Sequences, FiniteSets

CONSTANTS
  FirmwareConfigs,  \* configuration bytes the firmware may leave
  TestResults,      \* answers to the two port tests, {} being success
  MaxEvents         \* bound: key events in a behaviour

Byte == SUBSET (0 .. 7)
Irq1Bit == 0
Irq2Bit == 1
Off1Bit == 4        \* the keyboard's clock is stopped
Off2Bit == 5

ASSUME ConfigAssumption == FirmwareConfigs \subseteq Byte /\ TestResults \subseteq Byte
ASSUME EventsAssumption == MaxEvents \in Nat

Keys == {"lshift", "rshift", "caps", "letter", "enter"}

(* Set 1: 0x2A, 0x36, 0x3A, 0x1E (A) and 0x1C; bit 7 says the key came up.  *)
Make(k) == CASE k = "lshift" -> {1, 3, 5}
             [] k = "rshift" -> {1, 2, 4, 5}
             [] k = "caps"   -> {1, 3, 4, 5}
             [] k = "letter" -> {1, 2, 3, 4}
             [] k = "enter"  -> {2, 3, 4}
Break(k) == Make(k) \cup {7}

SelfTestPassed == {0, 2, 4, 6}                    \* 0x55
Resend == {1, 2, 3, 4, 5, 6, 7}                   \* PSR_RESEND

VARIABLES
  pc, cb, is_dual_port,               \* init_ps2
  is_caps, is_lshift, is_rshift,      \* the driver's globals
  shown,                              \* what handle_ps2 last gave _putchar
  config, out, full, answers, write,  \* the controller: its configuration
                                      \* byte, port 0x60, whether that is
                                      \* unread, answers not yet in it, and
                                      \* whether the next byte is config's
  answer,                             \* history: answer to the last command
  down, wire,                         \* the keyboard: keys held, bytes sent
  events,                             \* key events so far
  lost                                \* history: shift keys whose last byte
                                      \* init_ps2 read

init == <<pc, cb, is_dual_port>>
flags == <<is_caps, is_lshift, is_rshift>>
controller == <<config, out, full, answers, write, answer>>
keyboard == <<down, wire, events>>
vars == <<init, flags, shown, controller, keyboard, lost>>

Shifts == {"lshift", "rshift"}
Places ==
  {"disable1", "disable2", "flush", "askConfig", "readConfig", "selfTest",
   "readSelfTest", "dual", "askDual", "readDual", "redisable2", "writeNew", "newcb",
   "test1", "readTest1", "test2", "readTest2", "enable1", "enable2", "writeFinal",
   "get_status", "readStatus", "status", "done", "failed"}

(* The controller waits for a configuration byte exactly where init_ps2 is  *)
(* about to send one.                                                       *)
TypeOK ==
  /\ pc \in Places
  /\ write <=> (pc \in {"newcb", "get_status", "readStatus", "status"})
  /\ cb \in Byte /\ is_dual_port \in BOOLEAN
  /\ {is_caps, is_lshift, is_rshift} \subseteq BOOLEAN
  /\ shown \in {"none", "a", "A", "newline"}
  /\ config \in Byte /\ out \in Byte /\ full \in BOOLEAN /\ write \in BOOLEAN
  /\ answers \in Seq(Byte) /\ Len(answers) <= 1 /\ answer \in Byte
  /\ down \subseteq Keys /\ wire \in Seq(Byte) /\ events \in 0 .. MaxEvents
  /\ lost \subseteq Shifts

Init ==
  /\ pc = "disable1" /\ cb = {} /\ is_dual_port = FALSE
  /\ is_caps = FALSE /\ is_lshift = FALSE /\ is_rshift = FALSE /\ shown = "none"
  /\ config \in FirmwareConfigs
  /\ out = {} /\ full = FALSE /\ answers = <<>> /\ write = FALSE /\ answer = {}
  /\ down = {} /\ wire = <<>> /\ events = 0 /\ lost = {}
-----------------------------------------------------------------------------
(* The keyboard and the controller.                                         *)

(* A key goes down or comes up, or repeats while it is held.                *)
KeyEvent(k, up) ==
  /\ events < MaxEvents /\ (up => k \in down)
  /\ down' = IF up THEN down \ {k} ELSE down \cup {k}
  /\ wire' = Append(wire, IF up THEN Break(k) ELSE Make(k)) /\ events' = events + 1
  /\ UNCHANGED <<init, flags, shown, controller, lost>>

Answer ==
  /\ answers # <<>> /\ ~full
  /\ out' = Head(answers) /\ answers' = Tail(answers) /\ full' = TRUE
  /\ UNCHANGED <<init, flags, shown, config, write, answer, keyboard, lost>>

Receive ==
  /\ wire # <<>> /\ ~full /\ answers = <<>> /\ Off1Bit \notin config
  /\ out' = Head(wire) /\ wire' = Tail(wire) /\ full' = TRUE
  /\ UNCHANGED <<init, flags, shown, config, answers, write, answer, down, events, lost>>

(* The key a byte belongs to, if it is a shift key's.                       *)
ShiftOf(b) == {k \in Shifts : b \in {Make(k), Break(k)}}
-----------------------------------------------------------------------------
(* The interrupt handler.                                                   *)
is_uppercase ==
  IF is_caps /\ is_lshift /\ ~is_rshift THEN FALSE
  ELSE IF is_caps /\ ~is_lshift /\ ~is_rshift THEN TRUE
  ELSE IF ~is_caps /\ is_lshift /\ ~is_rshift THEN TRUE
  ELSE IF ~is_caps /\ ~is_lshift /\ is_rshift THEN TRUE
  ELSE FALSE

(* __ret_ps2_key: the flags a byte changes, and the character it stands for *)
(* (a letter stands for every key whose character depends on the case).     *)
(* Mutant: the case of the right shift key coming up is lost.              *)
DecodeStickyShift(key) ==
  /\ is_lshift' = IF key = Make("lshift") THEN TRUE
                  ELSE IF key = Break("lshift") THEN FALSE ELSE is_lshift
  /\ is_rshift' = IF key = Make("rshift") THEN TRUE ELSE is_rshift
  /\ is_caps' = IF key = Make("caps") THEN ~is_caps ELSE is_caps
  /\ UNCHANGED shown
Decode(key) ==
  /\ is_lshift' = IF key = Make("lshift") THEN TRUE
                  ELSE IF key = Break("lshift") THEN FALSE ELSE is_lshift
  /\ is_rshift' = IF key = Make("rshift") THEN TRUE
                  ELSE IF key = Break("rshift") THEN FALSE ELSE is_rshift
  /\ is_caps' = IF key = Make("caps") THEN ~is_caps ELSE is_caps
  /\ shown' = IF key = Make("letter") THEN (IF is_uppercase THEN "A" ELSE "a")
              ELSE IF key = Make("enter") THEN "newline" ELSE shown

(* Mutant: the handler does not take the byte.                             *)
handle_ps2_unread ==
  /\ full /\ Irq1Bit \in config
  /\ Decode(out)
  /\ UNCHANGED <<init, controller, keyboard, lost>>
handle_ps2 ==
  /\ full /\ Irq1Bit \in config
  /\ full' = FALSE
  /\ Decode(out)
  /\ lost' = lost \ ShiftOf(out)
  /\ UNCHANGED <<init, config, out, answers, write, answer, keyboard>>
-----------------------------------------------------------------------------
(* init_ps2, one port access at a time.                                     *)
At(place) == pc = place /\ (answers = <<>> \/ full)

(* outb(PS2_COMMAND_PORT, ...)                                              *)
Command(from, to) == At(from) /\ pc' = to

Say(reply) == answers' = <<reply>> /\ answer' = reply
Silent == UNCHANGED <<answers, answer>>

(* The commands that start or stop a port's clock.                          *)
Clock(from, newConfig, to) ==
  /\ Command(from, to)
  /\ config' = newConfig /\ Silent
  /\ UNCHANGED <<cb, is_dual_port, flags, shown, out, full, write, keyboard, lost>>

(* Mutant: step 9 does not start the keyboard's port.                      *)
SetClocksPortOff ==
  \/ Clock("disable1", config \cup {Off1Bit}, "disable2")
  \/ Clock("disable2", config \cup {Off2Bit}, "flush")
  \/ Clock("dual", config \ {Off2Bit}, "askDual")
  \/ Clock("redisable2", config \cup {Off2Bit}, "writeNew")
  \/ Clock("enable1", config \cup {Off1Bit}, "enable2")
  \/ Clock("enable2", config \ {Off2Bit}, "writeFinal")
SetClocks ==
  \/ Clock("disable1", config \cup {Off1Bit}, "disable2")
  \/ Clock("disable2", config \cup {Off2Bit}, "flush")
  \/ Clock("dual", config \ {Off2Bit}, "askDual")
  \/ Clock("redisable2", config \cup {Off2Bit}, "writeNew")
  \/ Clock("enable1", config \ {Off1Bit}, "enable2")
  \/ Clock("enable2", config \ {Off2Bit}, "writeFinal")

(* The commands the controller answers.                                     *)
Ask(from, reply, to) ==
  /\ Command(from, to)
  /\ Say(reply)
  /\ UNCHANGED <<cb, is_dual_port, flags, shown, config, out, full, write, keyboard, lost>>

AskController ==
  \/ Ask("askConfig", config, "readConfig")
  \/ Ask("selfTest", SelfTestPassed, "readSelfTest")
  \/ Ask("askDual", config, "readDual")
  \/ \E r \in TestResults : Ask("test1", r, "readTest1") \/ Ask("test2", r, "readTest2")
  \/ Ask("get_status", config, "readStatus")

(* PS2_CCMD_WRITE_B0_TO_INTERNAL_RAM; get_status is called before the byte. *)
AnnounceWrite ==
  /\ \/ Command("writeNew", "newcb") \/ Command("writeFinal", "get_status")
  /\ write' = TRUE /\ Silent
  /\ UNCHANGED <<cb, is_dual_port, flags, shown, config, out, full, keyboard, lost>>

(* inb(PS2_DATA_PORT)                                                       *)
Read(from) ==
  /\ At(from)
  /\ full' = FALSE
  /\ lost' = IF full THEN lost \cup ShiftOf(out) ELSE lost
  /\ UNCHANGED <<flags, shown, config, out, answers, write, answer, keyboard>>

(* Mutant: step 4 does not empty the output buffer.                        *)
ReadIgnoredNoFlush ==
  /\ \/ /\ At("flush") /\ pc' = "askConfig"
        /\ UNCHANGED <<flags, shown, controller, keyboard, lost>>
     \/ Read("readConfig") /\ pc' = "selfTest"
  /\ UNCHANGED <<cb, is_dual_port>>
ReadIgnored ==
  /\ \/ Read("flush") /\ pc' = "askConfig"
     \/ Read("readConfig") /\ pc' = "selfTest"
  /\ UNCHANGED <<cb, is_dual_port>>

ReadSelfTest ==
  /\ Read("readSelfTest")
  /\ pc' = IF out # SelfTestPassed THEN "failed" ELSE "dual"
  /\ UNCHANGED <<cb, is_dual_port>>

ReadDual ==
  /\ Read("readDual")
  /\ cb' = out
  /\ IF Off2Bit \notin out THEN is_dual_port' = TRUE /\ pc' = "redisable2"
     ELSE pc' = "test1" /\ UNCHANGED is_dual_port

ReadTests ==
  /\ \/ /\ Read("readTest1")
        /\ pc' = IF out # {} THEN "failed" ELSE IF is_dual_port THEN "test2" ELSE "enable1"
     \/ Read("readTest2") /\ pc' = IF out # {} THEN "failed" ELSE "enable1"
  /\ UNCHANGED <<cb, is_dual_port>>

ReadStatus ==
  /\ Read("readStatus")
  /\ cb' = out /\ pc' = "status"
  /\ UNCHANGED is_dual_port

(* outb(PS2_DATA_PORT, ...): the configuration if a write was announced,    *)
(* else a byte for the keyboard, which does not know it as a command.       *)
(* Mutant: the write stays announced.                                      *)
WriteDataPending(from, byte, to) ==
  /\ At(from) /\ pc' = to
  /\ IF write THEN config' = byte /\ UNCHANGED wire
     ELSE wire' = Append(wire, Resend) /\ UNCHANGED config
  /\ UNCHANGED <<cb, is_dual_port, flags, shown, out, full, answers, write, answer,
                 down, events, lost>>
WriteData(from, byte, to) ==
  /\ At(from) /\ pc' = to
  /\ IF write THEN config' = byte /\ UNCHANGED wire
     ELSE wire' = Append(wire, Resend) /\ UNCHANGED config
  /\ write' = FALSE
  /\ UNCHANGED <<cb, is_dual_port, flags, shown, out, full, answers, answer,
                 down, events, lost>>

Mask == IF is_dual_port THEN {Irq1Bit, Irq2Bit} ELSE {Irq1Bit}
Toggle(a, b) == (a \ b) \cup (b \ a)

(* Mutant: newcb toggles the bit of the wrong port.                        *)
WriteConfigWrongBit ==
  \/ WriteData("newcb", Toggle(cb, {Irq2Bit, Off1Bit}), "test1")
  \/ WriteData("status", cb \cup Mask, "done")
WriteConfig ==
  \/ WriteData("newcb", Toggle(cb, {Irq2Bit, Off2Bit}), "test1")
  \/ WriteData("status", cb \cup Mask, "done")

init_ps2 ==
  \/ SetClocks \/ AskController \/ AnnounceWrite
  \/ ReadIgnored \/ ReadSelfTest \/ ReadDual \/ ReadTests \/ ReadStatus
  \/ WriteConfig

Device == Answer \/ Receive
Next ==
  \/ \E k \in Keys, up \in BOOLEAN : KeyEvent(k, up)
  \/ Device \/ handle_ps2 \/ init_ps2

(* The hardware passes bytes on and interrupts; the boot thread gets the    *)
(* processor back after every interrupt.                                    *)
Fairness == WF_vars(Device) /\ WF_vars(handle_ps2) /\ SF_vars(init_ps2)

Spec == Init /\ [][Next]_vars /\ Fairness
-----------------------------------------------------------------------------
(* Until the keyboard's port is started again, what init_ps2 reads is the   *)
(* answer to the command it last sent, whatever keys are pressed and even   *)
(* when the interrupt handler has read the byte before it.                  *)
OwnAnswers ==
  pc \in {"readConfig", "readSelfTest", "readDual", "readTest1", "readTest2"}
    /\ (answers = <<>> \/ full) => out = answer

(* With nothing on its way, the driver's shift flags are the keyboard's,    *)
(* but for a key whose last byte init_ps2 read; the key's next byte repairs *)
(* its flag.                                                                *)
FlagsMatchKeyboard ==
  wire = <<>> /\ ~full =>
    /\ "lshift" \notin lost => is_lshift = ("lshift" \in down)
    /\ "rshift" \notin lost => is_rshift = ("rshift" \in down)

(* init_ps2 gives up only with the keyboard's port stopped, so that a       *)
(* kernel that goes on after it has no keyboard, and not half of one.       *)
FailureLeavesPortOff == pc = "failed" => Off1Bit \in config

KeyboardRuns == Off1Bit \notin config /\ Irq1Bit \in config

(* If no key was touched, an init_ps2 that returns 0 has left the keyboard  *)
(* running and interrupting, whichever of its answers the interrupt handler *)
(* read first.                                                              *)
UndisturbedMeansEnabled == pc = "done" /\ events = 0 => KeyboardRuns

(* kernel.c:62 reports "initialised ps2" whatever init_ps2 returned: the    *)
(* keyboard then runs and interrupts.                                       *)
InitialisedMeansEnabled == pc \in {"done", "failed"} => KeyboardRuns

(* Once init_ps2 has left the keyboard running, every byte of it is read.   *)
KeysAreRead == (pc = "done" /\ KeyboardRuns) ~> (wire = <<>> /\ ~full)
=============================================================================
