------------------------------- MODULE Console -------------------------------
(***************************************************************************)
(* The text console of drivers/tui: console.c, cursor.c and commands.c, as  *)
(* used by its two clients.  The boot thread of kernel.c prints through     *)
(* printf with interrupts enabled.  interrupt_handler of int.c echoes a key *)
(* through the same terminal_putchar, runs the command line from inside it, *)
(* and reports an interrupt it does not know with printf.  The handler runs *)
(* through an interrupt gate, so nothing interleaves with it, while it may  *)
(* run between any two memory or port accesses of the boot thread.          *)
(*                                                                          *)
(* The model starts where interrupts first find the remapped controllers,   *)
(* after the banner; what an interrupt does before is in Interrupts.        *)
(* Colours are left out.                                                    *)
(***************************************************************************)
EXTENDS Integers, Sequences

CONSTANTS
  VGA_WIDTH, VGA_HEIGHT,
  VgaCells,      \* cells of video memory behind 0xB8000, the screen's first
  Wrap16,        \* the values of uint16_t: rows and cell indices
  CursorByte,    \* the values of one cursor register
  Glyphs,        \* the characters other than the four that follow
  Keys,          \* the characters __ret_ps2_key may return
  Firmware,      \* what the firmware may have left below the screen
  BannerRows,    \* rows the banner takes
  EarlyText, LateText,           \* printed before and after clear_screen
  HelpName, ClearName, LspciName,\* what strcmp compares with, at its length
  HelpReply, InvalidText,        \* printed by the command line
  UnhandledText, \* printed for an interrupt of an unknown line
  LspciReplies,  \* what lspci may print
  MaxInterrupts  \* bound: interrupts that print in a behaviour

NUL == "NUL"
Newline == "NL"
Tab == "TAB"
Backspace == "BS"
Space == " "
PromptChar == ">"
SPACES_PER_TAB == 4

(* What a cell can hold: terminal_putchar never stores a newline.           *)
CellChars == Glyphs \cup {NUL, Tab, Backspace, Space, PromptChar}
Chars == CellChars \cup {Newline}

(* kernel_main from the first printf after PIC_remap to its endless loop.   *)
Script == EarlyText \o <<"clear">> \o LateText \o <<PromptChar, "flip">>

PrintableTexts == Seq(Chars \ {NUL, Tab, Backspace})
EndsLine(s) == s = <<>> \/ s[Len(s)] = Newline

ASSUME SizeAssumption ==
  /\ VGA_WIDTH \in Nat /\ VGA_WIDTH > 1 /\ VGA_WIDTH < Wrap16
  /\ VGA_HEIGHT \in Nat /\ VGA_HEIGHT > 0
  /\ VgaCells \in Nat /\ VGA_WIDTH * VGA_HEIGHT <= VgaCells
  /\ Wrap16 \in Nat /\ VgaCells <= Wrap16
  /\ CursorByte \in Nat \ {0} /\ Wrap16 = CursorByte * CursorByte
  /\ BannerRows \in 0 .. VGA_HEIGHT - 1
  /\ MaxInterrupts \in Nat
ASSUME CharAssumption ==
  /\ Newline \notin Glyphs /\ {"clear", "flip"} \cap Glyphs = {}
  /\ Keys \subseteq Chars \ {NUL}
  /\ Firmware \subseteq CellChars
ASSUME TextAssumption ==
  /\ {EarlyText, LateText, HelpReply, InvalidText, UnhandledText} \subseteq PrintableTexts
  /\ \E n \in 1 .. Len(UnhandledText) :
       \A i \in 1 .. Len(UnhandledText) : UnhandledText[i] = Newline <=> i = n
  /\ LspciReplies \subseteq PrintableTexts
  /\ \A s \in LspciReplies \cup {HelpReply, UnhandledText} : EndsLine(s)
  /\ {HelpName, ClearName, LspciName} \subseteq Seq(CellChars)
(* ">help" and ">clear": what is typed after the prompt, on one line.        *)
ASSUME NameAssumption ==
  /\ \A name \in {HelpName, ClearName} :
       /\ Len(name) \in 2 .. VGA_WIDTH - 1 /\ name[1] = PromptChar
       /\ \A i \in 2 .. Len(name) : name[i] \notin {Tab, Backspace}
  /\ \E i \in 1 .. Len(HelpName) : i <= Len(ClearName) /\ HelpName[i] # ClearName[i]

VARIABLES
  terminal_buffer, terminal_row, terminal_column, is_term_mode,
  crtc_index, crtc,  \* the register 0x3D4 selects, and the two cursor registers
  ip, pc,            \* the boot thread: operation of Script and place in it
  x, y, ch,          \* the values its registers hold
  isr,               \* characters terminal_putchar still has to take
  spaces,            \* its loop counter on a tab
  cmd,               \* the branch of run_command that is printing
  interrupts,        \* interrupts that print, so far
  typed,             \* history: keys since run_command last returned
  late               \* history: cells the handler wrote in boot's clear_screen

console == <<terminal_buffer, terminal_row, terminal_column, is_term_mode>>
cursor == <<crtc_index, crtc>>
boot == <<ip, pc, x, y, ch>>
handler == <<isr, spaces, cmd, interrupts, typed>>
vars == <<console, cursor, boot, handler, late>>

Cells == 0 .. VgaCells - 1
Screen == 0 .. VGA_WIDTH * VGA_HEIGHT - 1
Rows == 0 .. Wrap16 - 1
Columns == 0 .. VGA_WIDTH - 1
Index(row, column) == (row * VGA_WIDTH + column) % Wrap16

(* The column leaves the row at console.c:127 and comes back at line 128:   *)
(* a handler that runs in between echoes at VGA_WIDTH and goes on from      *)
(* there, past the comparison.  Everywhere else it lies in the row.         *)
TypeOK ==
  /\ terminal_buffer \in [Cells -> CellChars]
  /\ terminal_row \in Rows
  /\ terminal_column \in IF pc = "wrap" THEN 0 .. Wrap16 - 1 ELSE Columns
  /\ is_term_mode \in BOOLEAN
  /\ crtc_index \in {"lo", "hi"}
  /\ crtc \in [{"lo", "hi"} -> 0 .. CursorByte - 1]
  /\ ip \in 1 .. Len(Script) + 1
  /\ pc \in {"start", "args", "index", "lo", "select", "hi", "load", "reload", "cell",
             "column", "store", "wrap", "row", "carry", "over", "wipe", "poke", "top", "left"}
  /\ x \in 0 .. VgaCells /\ y \in Rows /\ ch \in CellChars
  /\ isr \in Seq(Chars)
  /\ spaces \in 0 .. SPACES_PER_TAB
  /\ cmd \in {"none", "help", "clear", "lspci", "invalid"}
  /\ interrupts \in 0 .. MaxInterrupts
  /\ typed \in Seq(Keys \cup {Newline})
  /\ late \subseteq Rows

Init ==
  /\ \E c \in Firmware, g \in Glyphs :
       terminal_buffer = [i \in Cells |-> IF i < BannerRows * VGA_WIDTH THEN g
                                          ELSE IF i \in Screen THEN NUL ELSE c]
  /\ terminal_row = BannerRows /\ terminal_column = 0 /\ is_term_mode = FALSE
  /\ crtc_index = "hi" /\ crtc = [r \in {"lo", "hi"} |-> 0]
  /\ ip = 1 /\ pc = "start" /\ x = 0 /\ y = 0 /\ ch = NUL
  /\ isr = <<>> /\ spaces = 0 /\ cmd = "none" /\ interrupts = 0
  /\ typed = <<Newline>>    \* no key yet follows a prompt
  /\ late = {}
-----------------------------------------------------------------------------
(* A store beyond video memory reaches ROM and is lost.                     *)
Stored(b, i, c) == IF i \in Cells THEN [b EXCEPT ![i] = c] ELSE b

(* flip_console_mode                                                        *)
(* Mutant: the branch that turns the mode off is lost.                     *)
FlipModeOn(mode) == TRUE
(* Mutant: the branch that turns the mode on is lost.                      *)
FlipModeOff(mode) == FALSE
FlipMode(mode) == ~mode

(* update_cursor: both registers selected and written.                      *)
(* Mutant: only the low register is written.                               *)
UpdateCursorLow(pos) == crtc_index' = "lo" /\ crtc' = [crtc EXCEPT !["lo"] = pos % CursorByte]
UpdateCursor(pos) ==
  /\ crtc_index' = "hi"
  /\ crtc' = [r \in {"lo", "hi"} |->
                IF r = "lo" THEN pos % CursorByte ELSE (pos \div CursorByte) % CursorByte]

(* The column after a glyph; the row after a newline and after the last     *)
(* column.                                                                  *)
(* Mutant: the comparison with VGA_WIDTH is lost.                          *)
NextColumnUnwrapped(column) == (column + 1) % Wrap16
NextColumn(column) == IF column + 1 = VGA_WIDTH THEN 0 ELSE (column + 1) % Wrap16
NextLine(row) == (row + 1) % Wrap16
NextRow(row) == IF NextLine(row) = VGA_HEIGHT THEN 0 ELSE NextLine(row)

(* The boot thread is inside clear_screen.                                  *)
InClear == ip <= Len(Script) /\ Script[ip] = "clear" /\ pc # "start"

(* The tail of terminal_putchar, for a character that is shown.             *)
PutGlyph(c) ==
  LET pos == Index(terminal_row, terminal_column) IN
  /\ UpdateCursor(pos)
  /\ terminal_buffer' = Stored(terminal_buffer, pos, c)
  /\ terminal_column' = NextColumn(terminal_column)
  /\ terminal_row' = IF terminal_column + 1 = VGA_WIDTH THEN NextRow(terminal_row)
                     ELSE terminal_row
  /\ late' = IF InClear THEN late \cup {pos} ELSE late

(* clear_screen on the whole screen at once.                                *)
(* Mutant: clear_screen starts with the second row.                        *)
BlankBelowTop(b) == [i \in Cells |-> IF i \in Screen /\ i >= VGA_WIDTH THEN NUL ELSE b[i]]
Blank(b) == [i \in Cells |-> IF i \in Screen THEN NUL ELSE b[i]]
-----------------------------------------------------------------------------
(* The keyboard handler.                                                    *)
Quiet == isr = <<>> /\ cmd = "none"
Char == Head(isr)

(* handle_ps2 passes a character to _putchar.                               *)
KeyPress(c) ==
  /\ Quiet /\ interrupts < MaxInterrupts
  /\ isr' = <<c>> /\ interrupts' = interrupts + 1 /\ typed' = Append(typed, c)
  /\ UNCHANGED <<console, cursor, boot, spaces, cmd, late>>

(* The default branch of interrupt_handler.                                 *)
UnhandledInterrupt ==
  /\ Quiet /\ interrupts < MaxInterrupts
  /\ isr' = UnhandledText /\ interrupts' = interrupts + 1
  /\ UNCHANGED <<console, cursor, boot, spaces, cmd, typed, late>>

HandlerPut ==
  /\ isr # <<>>
  /\ \/ Char \in CellChars \ {Tab, Backspace}
     \/ Char = Backspace /\ terminal_column = 0
     \/ Char = Tab /\ spaces = SPACES_PER_TAB
  /\ PutGlyph(Char)
  /\ isr' = Tail(isr) /\ spaces' = 0
  /\ UNCHANGED <<is_term_mode, boot, cmd, interrupts, typed>>

(* Mutant: the tab loop does not count.                                    *)
HandlerTabEndless ==
  /\ isr # <<>> /\ Char = Tab
  /\ PutGlyph(Space)
  /\ UNCHANGED <<is_term_mode, boot, isr, spaces, cmd, interrupts, typed>>

HandlerTabSpace ==
  /\ isr # <<>> /\ Char = Tab /\ spaces < SPACES_PER_TAB
  /\ PutGlyph(Space)
  /\ spaces' = spaces + 1
  /\ UNCHANGED <<is_term_mode, boot, isr, cmd, interrupts, typed>>

HandlerErase ==
  /\ isr # <<>> /\ Char = Backspace /\ terminal_column # 0
  /\ LET pos == Index(terminal_row, terminal_column - 1) IN
       /\ UpdateCursor(pos)
       /\ terminal_buffer' = Stored(terminal_buffer, pos, Space)
       /\ late' = IF InClear THEN late \cup {pos} ELSE late
  /\ terminal_column' = terminal_column - 1
  /\ isr' = Tail(isr)
  /\ UNCHANGED <<terminal_row, is_term_mode, boot, spaces, cmd, interrupts, typed>>

HandlerNewline ==
  /\ isr # <<>> /\ Char = Newline /\ ~is_term_mode
  /\ terminal_column' = 0 /\ terminal_row' = NextLine(terminal_row)
  /\ isr' = Tail(isr)
  /\ UNCHANGED <<terminal_buffer, is_term_mode, cursor, boot, spaces, cmd, interrupts,
                 typed, late>>

(* What read_line may leave in buf, its last byte set by the caller.        *)
(* Mutant: read_line reads the new row instead of the one above.           *)
ReadLineBelow(line) ==
  {buf \in [1 .. VGA_WIDTH + 1 -> CellChars] :
     /\ buf[VGA_WIDTH + 1] = NUL
     /\ \A i \in 1 .. VGA_WIDTH :
          LET cell == (line + 1) * VGA_WIDTH + i - 1 IN
          cell \in Cells => buf[i] = terminal_buffer[cell]}
ReadLine(line) ==
  {buf \in [1 .. VGA_WIDTH + 1 -> CellChars] :
     /\ buf[VGA_WIDTH + 1] = NUL
     /\ \A i \in 1 .. VGA_WIDTH :
          LET cell == line * VGA_WIDTH + i - 1 IN
          cell \in Cells => buf[i] = terminal_buffer[cell]}

(* strcmp(buf, name, Len(name)) == 0                                        *)
Matches(buf, name) ==
  Len(name) <= VGA_WIDTH + 1 /\ \A i \in 1 .. Len(name) : buf[i] = name[i]

Command(buf) ==
  IF Matches(buf, HelpName) THEN "help"
  ELSE IF Matches(buf, ClearName) THEN "clear"
  ELSE IF Matches(buf, LspciName) THEN "lspci" ELSE "invalid"

(* What "%s" prints of buf.                                                 *)
Printed(buf) ==
  LET len == CHOOSE n \in 0 .. VGA_WIDTH :
               buf[n + 1] = NUL /\ \A i \in 1 .. n : buf[i] # NUL
  IN [i \in 1 .. len |-> buf[i]]

(* Mutant: the reply to an unknown command has no newline.                 *)
RepliesUnended(command, buf) ==
  CASE command = "help"    -> {HelpReply}
    [] command = "clear"   -> {<<>>}
    [] command = "lspci"   -> LspciReplies
    [] command = "invalid" -> {InvalidText \o Printed(buf)}
Replies(command, buf) ==
  CASE command = "help"    -> {HelpReply}
    [] command = "clear"   -> {<<>>}
    [] command = "lspci"   -> LspciReplies
    [] command = "invalid" -> {InvalidText \o Printed(buf) \o <<Newline>>}

(* A newline on the command line: terminal_putchar reads the line above the *)
(* new row and run_command flips the mode and picks its branch.  A newline  *)
(* is the last character of what a handler prints, so nothing is left of it *)
(* to print after the reply.                                                *)
HandlerCommand ==
  /\ isr # <<>> /\ Char = Newline /\ is_term_mode
  /\ \E buf \in ReadLine((NextLine(terminal_row) - 1) % Wrap16) :
       /\ cmd' = Command(buf)
       /\ isr' \in Replies(cmd', buf)
  /\ is_term_mode' = FlipMode(is_term_mode)
  /\ terminal_column' = 0
  /\ IF cmd' = "clear"
     THEN terminal_row' = 0 /\ terminal_buffer' = Blank(terminal_buffer)
     ELSE terminal_row' = NextLine(terminal_row) /\ UNCHANGED terminal_buffer
  /\ UNCHANGED <<cursor, boot, spaces, interrupts, typed, late>>

(* run_command flips the mode back and its caller prints the prompt.        *)
CommandReturn ==
  /\ isr = <<>> /\ cmd # "none"
  /\ is_term_mode' = FlipMode(is_term_mode)
  /\ cmd' = "none" /\ typed' = <<>>
  /\ PutGlyph(PromptChar)
  /\ UNCHANGED <<boot, isr, spaces, interrupts>>

HandlerStep ==
  \/ HandlerPut \/ HandlerTabSpace \/ HandlerErase
  \/ HandlerNewline \/ HandlerCommand \/ CommandReturn
-----------------------------------------------------------------------------
(* The boot thread, one access to memory or to a port at a time.  With      *)
(* is_term_mode FALSE, as ModeDiscipline says it is, its newlines run no    *)
(* command.                                                                 *)
BootAt(place) == Quiet /\ ip <= Len(Script) /\ pc = place
Operation == Script[ip]

Advance == ip' = ip + 1 /\ pc' = "start"
Goto(place) == ip' = ip /\ pc' = place

(* A read of terminal_column, or of terminal_row, into a register.          *)
LoadColumn(from, to) ==
  /\ BootAt(from) /\ (from = "start" => Operation \in CellChars)
  /\ x' = terminal_column /\ Goto(to)
  /\ UNCHANGED <<console, cursor, y, ch, handler, late>>

LoadRow(from, to) ==
  /\ BootAt(from)
  /\ y' = terminal_row /\ Goto(to)
  /\ UNCHANGED <<console, cursor, x, ch, handler, late>>

BootLoad ==
  \/ LoadColumn("start", "args") \/ LoadRow("args", "index")
  \/ LoadColumn("load", "reload") \/ LoadRow("reload", "cell")
  \/ LoadColumn("column", "store") \/ LoadRow("row", "carry")

(* The writes of update_cursor to 0x3D4 and to 0x3D5.                       *)
BootSelect(from, register, to) ==
  /\ BootAt(from)
  /\ crtc_index' = register /\ Goto(to)
  /\ UNCHANGED <<console, crtc, x, y, ch, handler, late>>

BootCursorByte(from, byte, to) ==
  /\ BootAt(from)
  /\ crtc' = [crtc EXCEPT ![crtc_index] = byte % CursorByte] /\ Goto(to)
  /\ UNCHANGED <<console, crtc_index, x, y, ch, handler, late>>

BootCursor ==
  \/ BootSelect("index", "lo", "lo")
  \/ BootCursorByte("lo", Index(y, x), "select")
  \/ BootSelect("select", "hi", "hi")
  \/ BootCursorByte("hi", Index(y, x) \div CursorByte, "load")

BootStoreCell ==
  /\ BootAt("cell")
  /\ terminal_buffer' = Stored(terminal_buffer, Index(y, x), Operation)
  /\ Goto("column")
  /\ UNCHANGED <<terminal_row, terminal_column, is_term_mode, cursor, x, y, ch,
                 handler, late>>

BootStoreColumn ==
  /\ BootAt("store")
  /\ terminal_column' = (x + 1) % Wrap16
  /\ IF x + 1 = VGA_WIDTH THEN Goto("wrap") ELSE Advance
  /\ UNCHANGED <<terminal_buffer, terminal_row, is_term_mode, cursor, x, y, ch,
                 handler, late>>

(* The store of console.c:128, after a handler may have met VGA_WIDTH.      *)
BootWrapColumn ==
  /\ BootAt("wrap")
  /\ terminal_column' = 0 /\ Goto("row")
  /\ UNCHANGED <<terminal_buffer, terminal_row, is_term_mode, cursor, x, y, ch,
                 handler, late>>

BootNewline ==
  /\ BootAt("start") /\ Operation = Newline /\ ~is_term_mode
  /\ terminal_column' = 0 /\ Goto("row")
  /\ UNCHANGED <<terminal_buffer, terminal_row, is_term_mode, cursor, x, y, ch,
                 handler, late>>

BootStoreRow ==
  /\ BootAt("carry")
  /\ terminal_row' = NextLine(y)
  /\ IF Operation # Newline /\ NextLine(y) = VGA_HEIGHT THEN Goto("over") ELSE Advance
  /\ UNCHANGED <<terminal_buffer, terminal_column, is_term_mode, cursor, x, y, ch,
                 handler, late>>

(* The store of console.c:130.                                              *)
BootWrapRow ==
  /\ BootAt("over")
  /\ terminal_row' = 0 /\ Advance
  /\ UNCHANGED <<terminal_buffer, terminal_column, is_term_mode, cursor, x, y, ch,
                 handler, late>>

(* clear_screen: the loop over the screen's cells, x counting them,         *)
(* move_cursor, which rewrites the first cell, and the two stores.          *)
(* Mutant: the loop of clear_screen starts at the second cell.             *)
BootClearFromOne ==
  /\ BootAt("start") /\ Operation = "clear"
  /\ x' = 1 /\ late' = {} /\ Goto("wipe")
  /\ UNCHANGED <<console, cursor, y, ch, handler>>

BootClear ==
  /\ BootAt("start") /\ Operation = "clear"
  /\ x' = 0 /\ late' = {} /\ Goto("wipe")
  /\ UNCHANGED <<console, cursor, y, ch, handler>>

BootWipe ==
  /\ BootAt("wipe")
  /\ IF x \in Screen
     THEN /\ terminal_buffer' = [terminal_buffer EXCEPT ![x] = NUL]
          /\ x' = x + 1 /\ Goto("wipe") /\ UNCHANGED ch
     ELSE ch' = terminal_buffer[0] /\ Goto("poke") /\ UNCHANGED <<terminal_buffer, x>>
  /\ UNCHANGED <<terminal_row, terminal_column, is_term_mode, cursor, y, handler, late>>

BootPoke ==
  /\ BootAt("poke")
  /\ terminal_buffer' = [terminal_buffer EXCEPT ![0] = ch] /\ Goto("top")
  /\ UNCHANGED <<terminal_row, terminal_column, is_term_mode, cursor, x, y, ch,
                 handler, late>>

BootTop ==
  /\ BootAt("top")
  /\ terminal_row' = 0 /\ Goto("left")
  /\ UNCHANGED <<terminal_buffer, terminal_column, is_term_mode, cursor, x, y, ch,
                 handler, late>>

BootLeft ==
  /\ BootAt("left")
  /\ terminal_column' = 0 /\ Advance
  /\ UNCHANGED <<terminal_buffer, terminal_row, is_term_mode, cursor, x, y, ch,
                 handler, late>>

BootFlip ==
  /\ BootAt("start") /\ Operation = "flip"
  /\ is_term_mode' = FlipMode(is_term_mode) /\ Advance
  /\ UNCHANGED <<terminal_buffer, terminal_row, terminal_column, cursor, x, y, ch,
                 handler, late>>

BootStep ==
  \/ BootLoad \/ BootCursor \/ BootStoreCell \/ BootStoreColumn \/ BootWrapColumn
  \/ BootNewline \/ BootStoreRow \/ BootWrapRow \/ BootClear \/ BootWipe \/ BootPoke
  \/ BootTop \/ BootLeft \/ BootFlip

Next == (\E c \in Keys : KeyPress(c)) \/ UnhandledInterrupt \/ HandlerStep \/ BootStep

(* The handler is a finite call the processor does not leave; the boot      *)
(* thread runs again whenever a handler returns.                            *)
Fairness == WF_vars(HandlerStep) /\ SF_vars(BootStep)

Spec == Init /\ [][Next]_vars /\ Fairness
-----------------------------------------------------------------------------
BootDone == ip > Len(Script)

(* The mode says whether a newline runs a command: only once the boot       *)
(* thread has printed its prompt, and never from inside run_command, whose  *)
(* own newlines would run the line it is printing.                          *)
ModeDiscipline == is_term_mode <=> (BootDone /\ cmd = "none")

(* When the boot thread has left clear_screen's loop, whatever is on the    *)
(* screen was put there by a handler while it ran; and so is, in the loop,  *)
(* what is above x.                                                         *)
ClearLeavesOnlyLate ==
  InClear => \A i \in Screen :
    (pc = "wipe" => i < x) /\ terminal_buffer[i] # NUL => i \in late

(* A prompt was printed by run_command's caller since the last Enter.       *)
AtPrompt == is_term_mode /\ Quiet /\ (typed = <<>> \/ typed[1] # Newline)

(* The cells from which terminal_putchar goes on to a place.                *)
Before(row, column) ==
  LET from == {p \in Rows \X Columns :
                 /\ NextColumn(p[2]) = column
                 /\ row = IF p[2] + 1 = VGA_WIDTH THEN NextRow(p[1]) ELSE p[1]}
  IN  {Index(p[1], p[2]) : p \in from}

(* update_cursor interrupted in the boot thread leaves the two registers    *)
(* torn; from the first command on they name the last cell written.         *)
CursorFollowsLine ==
  AtPrompt =>
    crtc["hi"] * CursorByte + crtc["lo"] \in
      Before(terminal_row, terminal_column) \cup {Index(terminal_row, terminal_column)}

(* Every command, whatever it prints, ends with the prompt in the first     *)
(* column of a line.                                                        *)
PromptAfterCommand ==
  [][cmd # "none" /\ cmd' = "none" =>
       /\ terminal_column' = 1
       /\ Index(terminal_row', 0) \in Cells =>
            terminal_buffer'[Index(terminal_row', 0)] = PromptChar]_vars

(* ">clear" brings the console back to an empty screen with a prompt, also  *)
(* from a row below the screen.                                             *)
ClearRecoversScreen ==
  [][cmd = "clear" /\ cmd' = "none" =>
       /\ terminal_row' = 0
       /\ \A i \in Screen :
            terminal_buffer'[i] = IF i = 0 THEN PromptChar ELSE NUL]_vars

(* A command name typed after a prompt is the command that runs, whatever   *)
(* the rest of the row held and wherever the row is in video memory.        *)
TypedCommandRuns ==
  [][cmd = "none" /\ cmd' # "none" /\ (terminal_row + 1) * VGA_WIDTH <= VgaCells =>
       /\ typed = Tail(HelpName) \o <<Newline>> => cmd' = "help"
       /\ typed = Tail(ClearName) \o <<Newline>> => cmd' = "clear"]_vars

(* The handler of every interrupt returns: no chain of tabs, echoed lines   *)
(* and nested newlines keeps it printing.                                   *)
HandlerReturns == (isr # <<>> \/ cmd # "none") ~> Quiet

(* However the keys fall, the boot thread reaches its prompt and turns the  *)
(* command line on.                                                         *)
BootReachesPrompt == <>(BootDone /\ is_term_mode)

(* console.c:129 returns to the first row after the last, and console.c:97  *)
(* has "shift needed" at the last row: the console writes on the screen.    *)
RowOnScreen == terminal_row < VGA_HEIGHT
=============================================================================
