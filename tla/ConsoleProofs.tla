------------------------------ MODULE ConsoleProofs ------------------------------
(***************************************************************************)
(* Theorems about the console of Console, for every screen, video memory,   *)
(* text, command name and reply, and any number of interrupts.              *)
(***************************************************************************)
EXTENDS Console, RecursionLemmas

(* The places of the boot thread inside terminal_putchar, before it has     *)
(* stored a column; after that; and inside clear_screen.                    *)
Glyphing == {"args", "index", "lo", "select", "hi", "load", "reload", "cell", "column", "store"}
Carrying == {"wrap", "row", "carry", "over"}
Clearing == {"wipe", "poke", "top", "left"}

(* Where the column lies: anywhere once it was counted past the row, until  *)
(* the boot thread's next store.                                            *)
ColumnRange == IF pc = "wrap" THEN 0 .. Wrap16 - 1 ELSE Columns

(* The inductive invariant.  Where the boot thread is and what it prints:   *)
(* without it nothing keeps the flip to the end of the script.              *)
BootInv ==
  /\ pc # "start" => ip < Len(Script)
  /\ pc \in Glyphing => x \in Columns /\ Script[ip] \in CellChars
  /\ pc \in Carrying => Script[ip] \in Chars
  /\ pc \in Clearing => Script[ip] = "clear"

(* A command runs only after boot; what it has still to print ends a line,  *)
(* and the clear command prints nothing on its empty screen.                *)
CommandInv ==
  /\ cmd # "none" =>
       /\ BootDone
       /\ isr = <<>> => terminal_column = 0
       /\ isr # <<>> => isr[Len(isr)] = Newline
  /\ cmd = "clear" =>
       isr = <<>> /\ terminal_row = 0 /\ \A i \in Screen : terminal_buffer[i] = NUL

(* move_cursor writes back what it read in the first cell.                  *)
PokeInv == pc = "poke" /\ ch # NUL => 0 \in late

(* The cursor follows the line since the prompt, inside a handler too.      *)
SincePrompt == typed = <<>> \/ typed[1] # Newline
CursorAt == crtc["hi"] * CursorByte + crtc["lo"]
CursorInv ==
  /\ ~BootDone => ~SincePrompt
  /\ is_term_mode /\ SincePrompt =>
       CursorAt \in Before(terminal_row, terminal_column)
                      \cup {Index(terminal_row, terminal_column)}

(* What stands on the row once k keys were printed, none of which moves the *)
(* cursor back or to another line.                                          *)
Plain == Chars \ {Tab, Backspace, Newline}
KeysPlain(k) == \A i \in 1 .. k : typed[i] \in Plain
RowStored == (terminal_row + 1) * VGA_WIDTH <= VgaCells
OnLine(k) ==
  KeysPlain(k) /\ k + 1 < VGA_WIDTH =>
    /\ terminal_column = k + 1
    /\ RowStored =>
         /\ terminal_buffer[terminal_row * VGA_WIDTH] = PromptChar
         /\ \A i \in 1 .. k : terminal_buffer[terminal_row * VGA_WIDTH + i] = typed[i]

(* Since the prompt the handler is at rest, prints a report, which will run *)
(* what is on the row, or has the last key still to print.                  *)
NoEnter(k) == \A i \in 1 .. k : typed[i] # Newline
AtRest == isr = <<>> /\ NoEnter(Len(typed)) /\ OnLine(Len(typed))
Reporting == isr # <<>> /\ isr[Len(isr)] = Newline /\ NoEnter(Len(typed))
Echoing ==
  /\ typed # <<>> /\ isr = <<typed[Len(typed)]>> /\ NoEnter(Len(typed) - 1)
  /\ isr[1] \notin {Tab, Backspace} => OnLine(Len(typed) - 1)
LineInv == is_term_mode /\ SincePrompt => AtRest \/ Reporting \/ Echoing

IInv == /\ TypeOK /\ BootInv /\ ModeDiscipline /\ CommandInv
        /\ ClearLeavesOnlyLate /\ PokeInv /\ CursorInv
-----------------------------------------------------------------------------
(* The sizes: a row fits video memory, and the registers hold every index.  *)
LEMMA Sizes ==
  /\ VGA_WIDTH \in Nat /\ 1 < VGA_WIDTH /\ VGA_WIDTH <= VgaCells /\ VgaCells <= Wrap16
  /\ VGA_WIDTH < Wrap16
  /\ VgaCells \in Nat /\ Wrap16 \in Nat /\ 0 < Wrap16 /\ CursorByte \in Nat /\ 0 < CursorByte
  /\ Wrap16 = CursorByte * CursorByte /\ VGA_HEIGHT \in Nat /\ MaxInterrupts \in Nat
  /\ VGA_WIDTH * VGA_HEIGHT \in Nat /\ VGA_WIDTH * VGA_HEIGHT <= VgaCells
  /\ BannerRows \in 0 .. VGA_HEIGHT - 1
<1>1. PICK d \in Nat : VGA_HEIGHT = d + 1 BY SizeAssumption
<1>2. VGA_WIDTH * (d + 1) = VGA_WIDTH * d + VGA_WIDTH /\ VGA_WIDTH * d \in Nat
  BY SizeAssumption
<1>3. VGA_WIDTH <= VGA_WIDTH * VGA_HEIGHT /\ VGA_WIDTH * VGA_HEIGHT \in Nat
  BY <1>1, <1>2, SizeAssumption
<1> QED BY <1>3, SizeAssumption

LEMMA IndexTyped == ASSUME NEW r \in Nat, NEW c \in Nat PROVE Index(r, c) \in Rows
BY Sizes DEF Index, Rows

LEMMA NextPlace ==
  /\ \A c \in Columns : NextColumn(c) \in Columns /\ (c + 1 # VGA_WIDTH => NextColumn(c) = c + 1)
  /\ \A r \in Rows : NextLine(r) \in Rows /\ NextRow(r) \in Rows
BY Sizes DEF NextColumn, NextLine, NextRow, Columns, Rows

(* The column stays in its range, wherever a handler finds it.              *)
LEMMA ColumnKept ==
  ASSUME NEW c \in ColumnRange
  PROVE  /\ c \in Nat /\ NextColumn(c) \in ColumnRange /\ 0 \in ColumnRange
         /\ c # 0 => c - 1 \in ColumnRange /\ c - 1 \in Nat
<1>1. CASE pc = "wrap"
  <2>1. c \in 0 .. Wrap16 - 1 BY <1>1 DEF ColumnRange
  <2>2. (c + 1) % Wrap16 \in 0 .. Wrap16 - 1 /\ 0 \in 0 .. Wrap16 - 1 BY <2>1, Sizes
  <2>3. c # 0 => c - 1 \in 0 .. Wrap16 - 1 BY <2>1, Sizes
  <2>4. NextColumn(c) \in 0 .. Wrap16 - 1 BY <2>2 DEF NextColumn
  <2> QED BY <1>1, <2>1, <2>2, <2>3, <2>4, Sizes DEF ColumnRange
<1>2. CASE pc # "wrap"
  <2>1. c \in Columns BY <1>2 DEF ColumnRange
  <2>2. c # 0 => c - 1 \in Columns BY <2>1, Sizes DEF Columns
  <2>3. c \in Nat /\ 0 \in Columns /\ Columns \subseteq Nat BY <2>1, Sizes DEF Columns
  <2> QED BY <1>2, <2>1, <2>2, <2>3, NextPlace DEF ColumnRange
<1> QED BY <1>1, <1>2

(* The two bytes of an index, put together again.                           *)
LEMMA TwoBytes ==
  ASSUME NEW pos \in Rows
  PROVE  /\ pos % CursorByte \in 0 .. CursorByte - 1
         /\ (pos \div CursorByte) % CursorByte = pos \div CursorByte
         /\ pos \div CursorByte \in 0 .. CursorByte - 1
         /\ ((pos \div CursorByte) % CursorByte) * CursorByte + (pos % CursorByte) = pos
<1> DEFINE q == pos \div CursorByte r == pos % CursorByte
<1>1. q \in Nat /\ r \in 0 .. CursorByte - 1 /\ pos = CursorByte * q + r
  BY Sizes DEF Rows
<1>2. q < CursorByte
  <2>1. SUFFICES ASSUME CursorByte <= q PROVE FALSE BY <1>1, Sizes
  <2> HIDE DEF q, r
  <2>2. PICK d \in Nat : q = CursorByte + d BY <1>1, <2>1, Sizes
  <2>3. CursorByte * (CursorByte + d) = CursorByte * CursorByte + CursorByte * d BY Sizes
  <2>4. CursorByte * d \in Nat BY Sizes
  <2>5. pos < CursorByte * CursorByte BY Sizes DEF Rows
  <2> QED BY <1>1, <2>2, <2>3, <2>4, <2>5, Sizes
<1>3. q % CursorByte = q
  <2> HIDE DEF q
  <2> QED BY <1>1, <1>2, Sizes
<1>4. q * CursorByte = CursorByte * q
  <2> HIDE DEF q
  <2> QED BY <1>1, Sizes
<1> QED BY <1>1, <1>2, <1>3, <1>4, Sizes

(* The characters are apart from each other and from the operations.        *)
LEMMA CharFacts ==
  /\ Newline \notin CellChars /\ NUL \in CellChars /\ Space \in CellChars /\ PromptChar \in CellChars
  /\ "clear" \notin Chars /\ "flip" \notin Chars /\ CellChars \subseteq Chars /\ Newline \in Chars
  /\ Chars \ CellChars = {Newline} /\ Keys \subseteq Chars /\ Glyphs \subseteq CellChars
  /\ Firmware \subseteq CellChars
BY CharAssumption DEF CellChars, Chars, NUL, Newline, Tab, Backspace, Space, PromptChar

(* Only the last operation of the script turns the command line on.         *)
LEMMA ScriptShape ==
  /\ Len(Script) \in Nat /\ Len(Script) > 1
  /\ \A i \in 1 .. Len(Script) : Script[i] = "flip" <=> i = Len(Script)
  /\ \A i \in 1 .. Len(Script) : Script[i] \in Chars \cup {"clear", "flip"}
<1> DEFINE Ops == Chars \cup {"clear", "flip"}
           tail == <<PromptChar, "flip">>
<1>1. /\ EarlyText \in Seq(Chars) /\ LateText \in Seq(Chars) /\ <<"clear">> \in Seq(Ops)
      /\ tail \in Seq(Ops) /\ Len(tail) = 2 /\ tail[1] = PromptChar /\ tail[2] = "flip"
  <2>1. /\ EarlyText \in Seq(Chars \ {NUL, Tab, Backspace})
        /\ LateText \in Seq(Chars \ {NUL, Tab, Backspace})
    BY TextAssumption DEF PrintableTexts
  <2>2. EarlyText \in Seq(Chars) /\ LateText \in Seq(Chars) BY <2>1, SeqMonotonic
  <2>3. tail \in Seq(Ops) BY CharFacts
  <2> QED BY <2>2, <2>3
<1>2. PICK texts \in Seq(Ops) :
        Script = texts \o tail /\ \A i \in 1 .. Len(texts) : texts[i] # "flip"
  <2>1. \A i \in 1 .. Len(EarlyText) : EarlyText[i] \in Chars BY <1>1, ElementOfSeq
  <2>2. \A i \in 1 .. Len(LateText) : LateText[i] \in Chars BY <1>1, ElementOfSeq
  <2>3. EarlyText \in Seq(Ops) /\ LateText \in Seq(Ops) /\ Len(EarlyText) \in Nat
    BY <1>1, SeqMonotonic, LenProperties
  <2> DEFINE early == EarlyText \o <<"clear">>
  <2>4. early \in Seq(Ops) /\ Len(early) \in Nat /\ \A i \in 1 .. Len(early) : early[i] # "flip"
    <3>1. /\ early \in Seq(Ops) /\ Len(early) = Len(EarlyText) + 1
          /\ \A i \in 1 .. Len(EarlyText) + 1 :
               early[i] = IF i <= Len(EarlyText) THEN EarlyText[i]
                          ELSE <<"clear">>[i - Len(EarlyText)]
      <4> HIDE DEF Ops
      <4>1. Len(<<"clear">>) = 1 OBVIOUS
      <4> QED BY <1>1, <2>3, <4>1, ConcatProperties
    <3>2. early[Len(EarlyText) + 1] = "clear" BY <2>3, <3>1
    <3> HIDE DEF early, Ops
    <3> QED BY <2>1, <2>3, <3>1, <3>2, CharFacts
  <2> HIDE DEF early
  <2>5. /\ early \o LateText \in Seq(Ops)
        /\ Len(early \o LateText) = Len(early) + Len(LateText)
        /\ \A i \in 1 .. Len(early) + Len(LateText) :
             (early \o LateText)[i] = IF i <= Len(early) THEN early[i]
                                      ELSE LateText[i - Len(early)]
    <3> HIDE DEF Ops
    <3> QED BY <2>3, <2>4, ConcatProperties
  <2>6. \A i \in 1 .. Len(early \o LateText) : (early \o LateText)[i] # "flip"
    <3> SUFFICES ASSUME NEW i \in 1 .. Len(early) + Len(LateText)
                 PROVE (early \o LateText)[i] # "flip"
      BY <2>5
    <3>1. CASE i <= Len(early) BY <2>4, <2>5, <3>1
    <3>2. CASE i > Len(early)
      <4>1. Len(LateText) \in Nat BY <1>1, LenProperties
      <4>2. i - Len(early) \in 1 .. Len(LateText) BY <2>4, <3>2, <4>1
      <4>3. LateText[i - Len(early)] \in Chars BY <2>2, <4>2
      <4> QED BY <2>4, <2>5, <3>2, <4>3, CharFacts
    <3> QED BY <2>4, <3>1, <3>2
  <2>7. Script = (early \o LateText) \o tail BY DEF Script, early
  <2> QED BY <2>5, <2>6, <2>7
<1> HIDE DEF Ops, tail
<1>3. /\ Len(texts) \in Nat /\ Len(Script) = Len(texts) + 2
      /\ \A i \in 1 .. Len(texts) + 2 :
           Script[i] = IF i <= Len(texts) THEN texts[i] ELSE tail[i - Len(texts)]
  <2>1. texts \in Seq(Ops) /\ Script = texts \o tail BY <1>2
  <2>2. Len(texts) \in Nat BY <2>1, LenProperties
  <2>3. Len(texts \o tail) = Len(texts) + Len(tail) BY <1>1, <2>1, ConcatProperties
  <2>4. \A i \in 1 .. Len(texts) + Len(tail) :
          (texts \o tail)[i] = IF i <= Len(texts) THEN texts[i] ELSE tail[i - Len(texts)]
    BY <1>1, <2>1, ConcatProperties
  <2> QED BY <1>1, <2>1, <2>2, <2>3, <2>4
<1>4. Script[Len(texts) + 1] = PromptChar /\ Script[Len(texts) + 2] = "flip"
  BY <1>1, <1>3
<1>5. \A i \in 1 .. Len(texts) : texts[i] \in Ops /\ texts[i] # "flip" BY <1>2, ElementOfSeq
<1>6. PromptChar # "flip" /\ PromptChar \in Ops /\ "flip" \in Ops BY CharFacts DEF Ops
<1>7. \A i \in 1 .. Len(Script) :
        i \in 1 .. Len(texts) \/ i = Len(texts) + 1 \/ i = Len(texts) + 2
  BY <1>3
<1>8. \A i \in 1 .. Len(Script) : Script[i] \in Ops BY <1>3, <1>4, <1>5, <1>6, <1>7
<1>9. \A i \in 1 .. Len(Script) : Script[i] = "flip" <=> i = Len(Script)
  BY <1>3, <1>4, <1>5, <1>6, <1>7
<1> QED BY <1>3, <1>8, <1>9 DEF Ops

(* What is printed of a line, and of each reply, is characters; replies end *)
(* a line.                                                                  *)
LEMMA PrintedTyped ==
  ASSUME NEW buf \in [1 .. VGA_WIDTH + 1 -> CellChars], buf[VGA_WIDTH + 1] = NUL
  PROVE  Printed(buf) \in Seq(Chars)
<1> DEFINE ends == {n \in 0 .. VGA_WIDTH : buf[n + 1] = NUL}
<1>1. ends \subseteq Nat /\ VGA_WIDTH \in ends BY Sizes
<1>2. PICK n \in ends : \A m \in ends : n <= m
  <2> HIDE DEF ends
  <2> QED BY <1>1, LeastNumber
<1>3. \A i \in 1 .. n : buf[i] # NUL
  <2> SUFFICES ASSUME NEW i \in 1 .. n, buf[i] = NUL PROVE FALSE OBVIOUS
  <2>1. i - 1 \in ends BY Sizes
  <2> QED BY <1>2, <2>1, Sizes
<1>4. PICK len \in 0 .. VGA_WIDTH : Printed(buf) = [i \in 1 .. len |-> buf[i]]
  BY <1>2, <1>3 DEF Printed
<1>5. \A i \in 1 .. len : buf[i] \in Chars BY CharFacts, Sizes
<1>6. [i \in 1 .. len |-> buf[i]] \in Seq(Chars) BY <1>5, Sizes, IsASeq
<1> QED BY <1>4, <1>6

LEMMA TextsTyped ==
  /\ HelpReply \in Seq(Chars) /\ InvalidText \in Seq(Chars) /\ UnhandledText \in Seq(Chars)
  /\ UnhandledText # <<>>
  /\ \A s \in LspciReplies : s \in Seq(Chars) /\ EndsLine(s)
  /\ EndsLine(HelpReply)
<1>1. /\ HelpReply \in PrintableTexts /\ InvalidText \in PrintableTexts
      /\ UnhandledText \in PrintableTexts /\ LspciReplies \subseteq PrintableTexts
  BY TextAssumption
<1>2. \A s \in PrintableTexts : s \in Seq(Chars)
  <2> SUFFICES ASSUME NEW s \in Seq(Chars \ {NUL, Tab, Backspace}) PROVE s \in Seq(Chars)
    BY DEF PrintableTexts
  <2> QED BY SeqMonotonic
<1>3. UnhandledText # <<>> BY TextAssumption
<1> QED BY <1>1, <1>2, <1>3, TextAssumption

LEMMA ReplyShape ==
  ASSUME NEW buf \in [1 .. VGA_WIDTH + 1 -> CellChars], buf[VGA_WIDTH + 1] = NUL,
         NEW command \in {"help", "clear", "lspci", "invalid"}, NEW s \in Replies(command, buf)
  PROVE  s \in Seq(Chars) /\ EndsLine(s) /\ (command = "clear" => s = <<>>)
<1>1. CASE command = "invalid"
  <2> DEFINE head == InvalidText \o Printed(buf) tail == <<Newline>>
  <2>1. head \in Seq(Chars) BY TextsTyped, PrintedTyped, ConcatProperties
  <2>2. tail \in Seq(Chars) /\ Len(tail) = 1 /\ tail[1] = Newline BY CharFacts
  <2>3. s = head \o tail BY <1>1 DEF Replies
  <2> HIDE DEF head, tail
  <2>4. Len(head) \in Nat BY <2>1, LenProperties
  <2>5. s \in Seq(Chars) BY <2>1, <2>2, <2>3, ConcatProperties
  <2>6. Len(s) = Len(head) + Len(tail) BY <2>1, <2>2, <2>3, ConcatProperties
  <2>7. \A i \in 1 .. Len(head) + Len(tail) :
          s[i] = IF i <= Len(head) THEN head[i] ELSE tail[i - Len(head)]
    BY <2>1, <2>2, <2>3, ConcatProperties
  <2>8. s[Len(s)] = Newline BY <2>2, <2>4, <2>6, <2>7
  <2> QED BY <1>1, <2>5, <2>8 DEF EndsLine
<1>2. CASE command = "clear"
  <2>1. s = <<>> BY <1>2 DEF Replies
  <2> QED BY <1>2, <2>1, EmptySeq DEF EndsLine
<1>3. CASE command \in {"help", "lspci"} BY <1>3, TextsTyped DEF Replies
<1> QED BY <1>1, <1>2, <1>3

(* The next character to print, and what is left then.                      *)
LEMMA NextChar ==
  ASSUME NEW s \in Seq(Chars), s # <<>>
  PROVE  /\ Head(s) \in Chars /\ Tail(s) \in Seq(Chars)
         /\ Tail(s) = <<>> => s[Len(s)] = Head(s)
         /\ Tail(s) # <<>> => Tail(s)[Len(Tail(s))] = s[Len(s)]
<1>1. /\ Head(s) \in Chars /\ Tail(s) \in Seq(Chars) /\ Len(Tail(s)) = Len(s) - 1
      /\ \A i \in 1 .. Len(Tail(s)) : Tail(s)[i] = s[i+1]
  BY HeadTailProperties
<1>2. Len(s) \in Nat \ {0} /\ Head(s) = s[1] BY EmptySeq
<1>3. Tail(s) = <<>> => Len(s) = 1 BY <1>1, <1>2
<1>4. Tail(s) # <<>> => Len(Tail(s)) \in 1 .. Len(Tail(s)) BY <1>1, <1>2, EmptySeq
<1> QED BY <1>1, <1>2, <1>3, <1>4

(* A key does not change which character came first since the prompt.       *)
LEMMA FirstKey ==
  ASSUME NEW c, NEW s \in Seq(Keys \cup {Newline}), c \in Keys, s # <<>>
  PROVE  Append(s, c)[1] = s[1] /\ Append(s, c) # <<>>
<1>1. Len(s) \in Nat \ {0} BY EmptySeq
<1> QED BY <1>1, AppendProperties
-----------------------------------------------------------------------------
LEMMA InitInv == Init => IInv
<1> SUFFICES ASSUME Init PROVE IInv OBVIOUS
<1> USE DEF Init
<1>1. ip \in 1 .. Len(Script) /\ 1 < Len(Script) BY ScriptShape
<1>2. TypeOK
  <2>1. terminal_buffer \in [Cells -> CellChars] BY CharFacts DEF Cells
  <2>2. terminal_row \in Rows /\ terminal_column \in Columns /\ 0 \in Rows
    <3>1. PICK d \in Nat : VGA_WIDTH = d + 1
      <4>1. VGA_WIDTH - 1 \in Nat /\ VGA_WIDTH = (VGA_WIDTH - 1) + 1 BY Sizes
      <4> QED BY <4>1
    <3>2. VGA_HEIGHT * (d + 1) = VGA_HEIGHT * d + VGA_HEIGHT /\ VGA_HEIGHT * d \in Nat
      BY <3>1, Sizes
    <3>3. VGA_HEIGHT * (d + 1) = VGA_WIDTH * VGA_HEIGHT BY <3>1, Sizes
    <3>4. VGA_HEIGHT <= Wrap16 BY <3>2, <3>3, Sizes
    <3> QED BY <3>4, Sizes DEF Rows, Columns
  <2>3. crtc \in [{"lo", "hi"} -> 0 .. CursorByte - 1] BY Sizes
  <2>4. isr \in Seq(Chars) /\ typed \in Seq(Keys \cup {Newline}) BY CharFacts, EmptySeq
  <2>5. ch \in CellChars /\ late \subseteq Rows BY CharFacts
  <2>6. x \in 0 .. VgaCells /\ y \in Rows /\ interrupts \in 0 .. MaxInterrupts /\ spaces \in 0 .. 4
    BY <2>2, Sizes
  <2>7. /\ is_term_mode = FALSE /\ crtc_index = "hi" /\ pc = "start" /\ cmd = "none"
    OBVIOUS
  <2>8. ip \in 1 .. Len(Script) + 1 BY <1>1, ScriptShape
  <2> HIDE DEF Init
  <2> QED BY <2>1, <2>2, <2>3, <2>4, <2>5, <2>6, <2>7, <2>8 DEF TypeOK, SPACES_PER_TAB
<1>3. ~BootDone /\ ~SincePrompt BY <1>1 DEF BootDone, SincePrompt
<1>4. BootInv BY DEF BootInv, Glyphing, Carrying, Clearing
<1>5. ModeDiscipline BY <1>3 DEF ModeDiscipline
<1>6. CommandInv BY DEF CommandInv
<1>7. ClearLeavesOnlyLate BY DEF ClearLeavesOnlyLate, InClear
<1>8. PokeInv BY DEF PokeInv
<1>9. CursorInv BY <1>3 DEF CursorInv
<1> QED BY <1>2, <1>4, <1>5, <1>6, <1>7, <1>8, <1>9 DEF IInv
-----------------------------------------------------------------------------
LEMMA BootKept ==
  ASSUME BootInv, UNCHANGED boot
  PROVE  /\ BootInv' /\ (BootDone' <=> BootDone) /\ (InClear' <=> InClear)
         /\ ColumnRange' = ColumnRange
BY DEF BootInv, boot, BootDone, InClear, ColumnRange

LEMMA ColumnTyped == TypeOK => terminal_column \in ColumnRange
BY DEF TypeOK, ColumnRange

(* Once boot is over, and between its operations, it is in the row.         *)
LEMMA ColumnAfterBoot ==
  ASSUME IInv, BootDone
  PROVE  terminal_column \in Columns
BY ScriptShape DEF IInv, TypeOK, BootInv, BootDone

LEMMA StoredTyped ==
  ASSUME NEW b \in [Cells -> CellChars], NEW pos, NEW c \in CellChars
  PROVE  /\ Stored(b, pos, c) \in [Cells -> CellChars]
         /\ \A i \in Cells : Stored(b, pos, c)[i] = IF i = pos THEN c ELSE b[i]
BY DEF Stored

(* A handler that writes a cell during clear_screen leaves it in late.      *)
LEMMA ScreenCells == Screen \subseteq Cells
BY Sizes DEF Screen, Cells

LEMMA LateCovers ==
  ASSUME IInv, UNCHANGED boot, late \subseteq late',
         \A i \in Screen : terminal_buffer'[i] # NUL =>
                             terminal_buffer[i] # NUL \/ (InClear => i \in late')
  PROVE  ClearLeavesOnlyLate' /\ PokeInv'
BY BootKept DEF IInv, ClearLeavesOnlyLate, PokeInv, InClear, boot

(* What writing a glyph, or erasing one, does.                              *)
LEMMA CursorWritten ==
  ASSUME NEW pos \in Rows, UpdateCursor(pos)
  PROVE  /\ crtc_index' \in {"lo", "hi"} /\ crtc' \in [{"lo", "hi"} -> 0 .. CursorByte - 1]
         /\ CursorAt' = pos
<1>1. /\ crtc' = [r \in {"lo", "hi"} |->
                    IF r = "lo" THEN pos % CursorByte ELSE (pos \div CursorByte) % CursorByte]
      /\ crtc_index' = "hi"
  BY DEF UpdateCursor
<1>2. crtc'["hi"] = (pos \div CursorByte) % CursorByte /\ crtc'["lo"] = pos % CursorByte
  BY <1>1
<1>3. CursorAt' = pos BY <1>2, TwoBytes DEF CursorAt
<1>4. crtc' \in [{"lo", "hi"} -> 0 .. CursorByte - 1]
  <2>1. pos % CursorByte \in 0 .. CursorByte - 1
        /\ (pos \div CursorByte) % CursorByte \in 0 .. CursorByte - 1
    BY TwoBytes
  <2> QED BY <1>1, <2>1
<1> QED BY <1>1, <1>3, <1>4

LEMMA GlyphPut ==
  ASSUME IInv, UNCHANGED boot, NEW c \in CellChars, PutGlyph(c)
  PROVE  /\ terminal_buffer' \in [Cells -> CellChars]
         /\ terminal_row' \in Rows /\ terminal_column' \in ColumnRange
         /\ crtc_index' \in {"lo", "hi"} /\ crtc' \in [{"lo", "hi"} -> 0 .. CursorByte - 1]
         /\ late' \subseteq Rows
         /\ BootDone => CursorAt' \in Before(terminal_row', terminal_column')
         /\ ClearLeavesOnlyLate' /\ PokeInv'
<1> DEFINE pos == Index(terminal_row, terminal_column)
<1> USE DEF PutGlyph
<1>1. /\ terminal_buffer \in [Cells -> CellChars] /\ terminal_row \in Rows
      /\ terminal_column \in ColumnRange /\ late \subseteq Rows
  BY ColumnTyped DEF IInv, TypeOK
<1>2. pos \in Rows
  <2>1. terminal_row \in Nat /\ terminal_column \in Nat BY <1>1, ColumnKept DEF Rows
  <2> QED BY <2>1, IndexTyped
<1>3. terminal_row' \in Rows /\ terminal_column' \in ColumnRange
  BY <1>1, NextPlace, ColumnKept
<1>4. /\ terminal_buffer' \in [Cells -> CellChars]
      /\ \A i \in Cells : terminal_buffer'[i] = IF i = pos THEN c ELSE terminal_buffer[i]
  BY <1>1, StoredTyped
<1>5. late' \subseteq Rows /\ late \subseteq late' /\ (InClear => pos \in late') BY <1>1, <1>2
<1>6. ClearLeavesOnlyLate' /\ PokeInv' BY <1>4, <1>5, LateCovers, ScreenCells
<1>7. BootDone => pos \in Before(terminal_row', terminal_column')
  <2> SUFFICES ASSUME BootDone PROVE pos \in Before(terminal_row', terminal_column') OBVIOUS
  <2>1. <<terminal_row, terminal_column>> \in Rows \X Columns BY <1>1, ColumnAfterBoot
  <2> QED BY <2>1 DEF Before
<1> QED BY <1>2, <1>3, <1>4, <1>5, <1>6, <1>7, CursorWritten

LEMMA KeyPressInv == ASSUME IInv, NEW c \in Keys, KeyPress(c) PROVE IInv'
<1> USE DEF KeyPress
<1>1. c \in Chars /\ <<c>> \in Seq(Chars) BY CharFacts
<1>2. typed \in Seq(Keys \cup {Newline}) /\ typed' = Append(typed, c) BY DEF IInv, TypeOK
<1>3. TypeOK'
  <2>1. typed' \in Seq(Keys \cup {Newline}) BY <1>2, AppendProperties
  <2>2. interrupts' \in 0 .. MaxInterrupts BY Sizes DEF IInv, TypeOK
  <2>3. isr' \in Seq(Chars) BY <1>1
  <2> QED BY <2>1, <2>2, <2>3 DEF IInv, TypeOK, console, cursor, boot
<1>4. BootInv' /\ (BootDone' <=> BootDone) BY BootKept DEF IInv
<1>5. ModeDiscipline' BY <1>4 DEF IInv, ModeDiscipline, console
<1>6. CommandInv' BY DEF CommandInv, Quiet
<1>7. ClearLeavesOnlyLate' /\ PokeInv' BY LateCovers DEF console
<1>8. SincePrompt' => SincePrompt
  BY <1>2, FirstKey DEF SincePrompt
<1>9. CursorAt' = CursorAt /\ Before(terminal_row, terminal_column)' = Before(terminal_row, terminal_column)
  BY DEF cursor, console, CursorAt, Before
<1>10. CursorInv'
  BY <1>4, <1>8, <1>9 DEF IInv, CursorInv, console
<1> QED BY <1>3, <1>4, <1>5, <1>6, <1>7, <1>10 DEF IInv

LEMMA UnhandledInv == ASSUME IInv, UnhandledInterrupt PROVE IInv'
<1> USE DEF UnhandledInterrupt
<1>1. TypeOK'
  <2>1. interrupts' \in 0 .. MaxInterrupts BY Sizes DEF IInv, TypeOK
  <2> QED BY <2>1, TextsTyped DEF IInv, TypeOK, console, cursor, boot
<1>2. BootInv' /\ (BootDone' <=> BootDone) BY BootKept DEF IInv
<1>3. ModeDiscipline' BY <1>2 DEF IInv, ModeDiscipline, console
<1>4. CommandInv' BY DEF CommandInv, Quiet
<1>5. ClearLeavesOnlyLate' /\ PokeInv' BY LateCovers DEF console
<1>6. CursorAt' = CursorAt /\ Before(terminal_row, terminal_column)' = Before(terminal_row, terminal_column)
  BY DEF cursor, console, CursorAt, Before
<1>7. CursorInv' BY <1>2, <1>6 DEF IInv, CursorInv, SincePrompt, console
<1> QED BY <1>1, <1>2, <1>3, <1>4, <1>5, <1>7 DEF IInv

(* A glyph the handler prints: of a command's text it is never the last     *)
(* character, which is a newline.                                           *)
LEMMA PrintInv ==
  ASSUME IInv, isr # <<>>, NEW c \in CellChars, PutGlyph(c),
         isr' = isr \/ (isr' = Tail(isr) /\ Char \in CellChars),
         spaces' \in 0 .. SPACES_PER_TAB,
         UNCHANGED <<is_term_mode, boot, cmd, interrupts, typed>>
  PROVE  IInv'
<1>1. isr \in Seq(Chars) BY DEF IInv, TypeOK
<1>2. isr' \in Seq(Chars) /\ (isr = isr' \/ (isr' = <<>> => isr[Len(isr)] \in CellChars))
      /\ (isr' # <<>> => isr'[Len(isr')] = isr[Len(isr)])
  BY <1>1, NextChar DEF Char
<1>3. TypeOK'
  <2>1. terminal_column' \in ColumnRange /\ pc' = pc BY GlyphPut DEF boot
  <2>2. terminal_column' \in IF pc' = "wrap" THEN 0 .. Wrap16 - 1 ELSE Columns
    BY <2>1 DEF ColumnRange
  <2>3. TypeOK BY DEF IInv
  <2> QED BY <1>2, <2>2, <2>3, GlyphPut DEF TypeOK, boot
<1>4. BootInv' /\ (BootDone' <=> BootDone) BY BootKept DEF IInv
<1>5. ModeDiscipline' BY <1>4 DEF IInv, ModeDiscipline
<1>6. CommandInv' BY <1>2, <1>4, CharFacts DEF IInv, CommandInv
<1>7. CursorInv' BY <1>4, <1>5, GlyphPut DEF IInv, CursorInv, SincePrompt, ModeDiscipline
<1> QED BY <1>3, <1>4, <1>5, <1>6, <1>7, GlyphPut DEF IInv

LEMMA HandlerPutInv == ASSUME IInv, HandlerPut PROVE IInv'
<1>1. Char \in CellChars BY DEF HandlerPut, CellChars
<1>2. 0 \in 0 .. SPACES_PER_TAB BY DEF SPACES_PER_TAB
<1> QED BY <1>1, <1>2, PrintInv DEF HandlerPut

LEMMA HandlerTabSpaceInv == ASSUME IInv, HandlerTabSpace PROVE IInv'
<1>1. spaces + 1 \in 0 .. SPACES_PER_TAB BY DEF HandlerTabSpace, IInv, TypeOK, SPACES_PER_TAB
<1> QED BY <1>1, PrintInv, CharFacts DEF HandlerTabSpace

LEMMA HandlerEraseInv == ASSUME IInv, HandlerErase PROVE IInv'
<1> USE DEF HandlerErase
<1> DEFINE pos == Index(terminal_row, terminal_column - 1)
<1>1. /\ terminal_buffer \in [Cells -> CellChars] /\ terminal_row \in Rows
      /\ terminal_column \in ColumnRange /\ late \subseteq Rows /\ isr \in Seq(Chars)
  BY ColumnTyped DEF IInv, TypeOK
<1>2. terminal_column - 1 \in ColumnRange /\ terminal_column - 1 \in Nat
  BY <1>1, ColumnKept
<1>3. pos \in Rows
  <2>1. terminal_row \in Nat BY <1>1 DEF Rows
  <2> QED BY <1>2, <2>1, IndexTyped
<1>4. /\ terminal_buffer' \in [Cells -> CellChars]
      /\ \A i \in Cells : terminal_buffer'[i] = IF i = pos THEN Space ELSE terminal_buffer[i]
  BY <1>1, StoredTyped, CharFacts
<1>5. late' \subseteq Rows /\ late \subseteq late' /\ (InClear => pos \in late') BY <1>1, <1>3
<1>6. ClearLeavesOnlyLate' /\ PokeInv' BY <1>4, <1>5, LateCovers, ScreenCells
<1>7. Char \in CellChars BY DEF CellChars
<1>8. isr' \in Seq(Chars) /\ (isr' = <<>> => isr[Len(isr)] \in CellChars)
      /\ (isr' # <<>> => isr'[Len(isr')] = isr[Len(isr)])
  BY <1>1, <1>7, NextChar DEF Char
<1>9. TypeOK'
  <2>1. terminal_column' \in IF pc' = "wrap" THEN 0 .. Wrap16 - 1 ELSE Columns
    BY <1>2 DEF ColumnRange, boot
  <2> QED BY <1>3, <1>4, <1>5, <1>8, <2>1, CursorWritten DEF IInv, TypeOK, boot
<1>10. BootInv' /\ (BootDone' <=> BootDone) BY BootKept DEF IInv
<1>11. ModeDiscipline' BY <1>10 DEF IInv, ModeDiscipline
<1>12. CommandInv' BY <1>8, <1>10, CharFacts DEF IInv, CommandInv
<1>13. CursorAt' = Index(terminal_row', terminal_column') BY <1>3, CursorWritten
<1>14. CursorInv' BY <1>10, <1>13 DEF IInv, CursorInv, SincePrompt
<1> QED BY <1>6, <1>9, <1>10, <1>11, <1>12, <1>14 DEF IInv

LEMMA HandlerNewlineInv == ASSUME IInv, HandlerNewline PROVE IInv'
<1> USE DEF HandlerNewline
<1>1. terminal_row \in Rows /\ isr \in Seq(Chars) BY DEF IInv, TypeOK
<1>2. terminal_row' \in Rows /\ terminal_column' \in Columns /\ terminal_column' \in 0 .. Wrap16 - 1
  BY <1>1, NextPlace, Sizes DEF Columns
<1>3. isr' \in Seq(Chars) /\ (isr' # <<>> => isr'[Len(isr')] = isr[Len(isr)])
  BY <1>1, NextChar
<1>4. TypeOK' BY <1>2, <1>3 DEF IInv, TypeOK, boot, cursor
<1>5. BootInv' /\ (BootDone' <=> BootDone) BY BootKept DEF IInv
<1>6. ModeDiscipline' BY <1>5 DEF IInv, ModeDiscipline
<1>7. CommandInv' BY <1>3, <1>5 DEF IInv, CommandInv
<1>8. ClearLeavesOnlyLate' /\ PokeInv' BY LateCovers
<1>9. CursorInv' BY <1>5 DEF IInv, CursorInv, SincePrompt
<1> QED BY <1>4, <1>5, <1>6, <1>7, <1>8, <1>9 DEF IInv

LEMMA CommandNamed ==
  ASSUME NEW buf
  PROVE  Command(buf) \in {"help", "clear", "lspci", "invalid"}
BY DEF Command

LEMMA HandlerCommandInv == ASSUME IInv, HandlerCommand PROVE IInv'
<1> USE DEF HandlerCommand
<1>1. /\ terminal_row \in Rows /\ isr \in Seq(Chars)
      /\ terminal_buffer \in [Cells -> CellChars]
  BY DEF IInv, TypeOK
<1>2. PICK buf \in ReadLine((NextLine(terminal_row) - 1) % Wrap16) :
        cmd' = Command(buf) /\ isr' \in Replies(cmd', buf)
  OBVIOUS
<1>3. buf \in [1 .. VGA_WIDTH + 1 -> CellChars] /\ buf[VGA_WIDTH + 1] = NUL
  BY <1>2 DEF ReadLine
<1>4. cmd' \in {"help", "clear", "lspci", "invalid"} BY <1>2, CommandNamed
<1>5. isr' \in Seq(Chars) /\ EndsLine(isr') /\ (cmd' = "clear" => isr' = <<>>)
  BY <1>2, <1>3, <1>4, ReplyShape
<1>6. /\ Blank(terminal_buffer) \in [Cells -> CellChars]
      /\ \A i \in Screen : Blank(terminal_buffer)[i] = NUL
      /\ \A i \in Cells : Blank(terminal_buffer)[i] # NUL => terminal_buffer[i] # NUL
  BY <1>1, CharFacts, ScreenCells DEF Blank
<1>7. terminal_row' \in Rows /\ terminal_column' \in Columns /\ terminal_column' \in 0 .. Wrap16 - 1
  <2>1. 0 \in Rows /\ 0 \in Columns /\ 0 \in 0 .. Wrap16 - 1 BY Sizes DEF Rows, Columns
  <2>2. NextLine(terminal_row) \in Rows BY <1>1, NextPlace
  <2>3. terminal_row' = 0 \/ terminal_row' = NextLine(terminal_row) OBVIOUS
  <2> QED BY <2>1, <2>2, <2>3
<1>8. TypeOK'
  <2>1. terminal_buffer' \in [Cells -> CellChars] BY <1>1, <1>6
  <2>2. is_term_mode' \in BOOLEAN BY DEF FlipMode
  <2>3. UNCHANGED <<cursor, boot, spaces, interrupts, typed, late>> OBVIOUS
  <2> HIDE DEF HandlerCommand
  <2> QED BY <1>4, <1>5, <1>7, <2>1, <2>2, <2>3 DEF IInv, TypeOK, boot, cursor
<1>9. BootInv' /\ (BootDone' <=> BootDone) BY BootKept DEF IInv
<1>10. BootDone /\ is_term_mode' = FALSE BY DEF IInv, ModeDiscipline, FlipMode
<1>11. ModeDiscipline' BY <1>4, <1>9, <1>10 DEF ModeDiscipline
<1>12. CommandInv' BY <1>5, <1>6, <1>9, <1>10 DEF CommandInv, EndsLine
<1>13. ClearLeavesOnlyLate' /\ PokeInv' BY <1>6, LateCovers, ScreenCells
<1>14. CursorInv' BY <1>9, <1>10 DEF CursorInv
<1> QED BY <1>8, <1>9, <1>11, <1>12, <1>13, <1>14 DEF IInv

LEMMA CommandReturnInv == ASSUME IInv, CommandReturn PROVE IInv'
<1> USE DEF CommandReturn
<1>1. TypeOK'
  <2>1. typed' \in Seq(Keys \cup {Newline}) BY EmptySeq
  <2>2. is_term_mode' \in BOOLEAN BY DEF FlipMode
  <2>3. PromptChar \in CellChars /\ UNCHANGED boot BY CharFacts
  <2>4. terminal_column' \in IF pc' = "wrap" THEN 0 .. Wrap16 - 1 ELSE Columns
    BY <2>3, GlyphPut DEF ColumnRange, boot
  <2> QED BY <2>1, <2>2, <2>3, <2>4, GlyphPut DEF IInv, TypeOK, boot
<1>2. BootInv' /\ (BootDone' <=> BootDone) BY BootKept DEF IInv
<1>3. BootDone /\ is_term_mode' = TRUE BY DEF IInv, CommandInv, ModeDiscipline, FlipMode
<1>4. ModeDiscipline' BY <1>2, <1>3 DEF ModeDiscipline
<1>5. CommandInv' BY DEF CommandInv
<1>6. CursorInv' BY <1>2, <1>3, GlyphPut, CharFacts DEF CursorInv
<1> QED BY <1>1, <1>2, <1>4, <1>5, <1>6, GlyphPut, CharFacts DEF IInv
-----------------------------------------------------------------------------
(* A step of the boot thread that is not the flip leaves the mode off.      *)
LEMMA BootRuns ==
  ASSUME IInv, NEW place, BootAt(place)
  PROVE  /\ ip \in 1 .. Len(Script) /\ ~BootDone /\ ~SincePrompt /\ cmd = "none"
         /\ isr = <<>> /\ is_term_mode = FALSE
BY ScriptShape DEF IInv, TypeOK, BootAt, BootDone, CursorInv, ModeDiscipline, Quiet

LEMMA StillBooting ==
  ASSUME IInv, ~BootDone, cmd = "none", UNCHANGED <<is_term_mode, handler>>, ip' <= Len(Script),
         ip' \in Nat
  PROVE  ModeDiscipline' /\ CommandInv' /\ CursorInv'
<1>1. ~BootDone' BY ScriptShape DEF BootDone
<1>2. is_term_mode' = FALSE BY DEF IInv, ModeDiscipline
<1>3. cmd' = "none" /\ typed' = typed BY DEF handler
<1> QED BY <1>1, <1>2, <1>3 DEF IInv, ModeDiscipline, CommandInv, CursorInv, SincePrompt

(* Outside clear_screen nothing is said of the screen.                      *)
LEMMA NotClearing ==
  ASSUME BootInv', pc' \notin Clearing, TypeOK'
  PROVE  ClearLeavesOnlyLate' /\ PokeInv'
<1>1. pc' \in Glyphing \cup Carrying \cup {"start"}
  BY DEF TypeOK, Glyphing, Carrying, Clearing
<1>2. pc' # "start" => Script[ip'] # "clear" BY <1>1, CharFacts DEF BootInv
<1> QED BY <1>2 DEF ClearLeavesOnlyLate, PokeInv, InClear, Clearing

(* A step inside terminal_putchar or between operations, from the types of  *)
(* what it changes and from where it goes.                                  *)
LEMMA PutcharStep ==
  ASSUME IInv, ~BootDone, cmd = "none",
         UNCHANGED <<is_term_mode, handler, late>>,
         terminal_buffer' \in [Cells -> CellChars], terminal_row' \in Rows,
         terminal_column' \in Columns \/ (pc' = "wrap" /\ terminal_column' \in 0 .. Wrap16 - 1),
         crtc_index' \in {"lo", "hi"},
         crtc' \in [{"lo", "hi"} -> 0 .. CursorByte - 1],
         x' \in 0 .. VgaCells, y' \in Rows, ch' = ch,
         ip' \in 1 .. Len(Script), pc' \in Glyphing \cup Carrying \cup {"start"}, BootInv'
  PROVE  IInv'
<1>1. TypeOK'
  <2>1. terminal_column' \in IF pc' = "wrap" THEN 0 .. Wrap16 - 1 ELSE Columns
    BY Sizes DEF Columns
  <2> QED BY <2>1, ScriptShape DEF IInv, TypeOK, handler, Glyphing, Carrying
<1>2. ModeDiscipline' /\ CommandInv' /\ CursorInv' BY StillBooting, ScriptShape
<1>3. pc' \notin Clearing BY DEF Glyphing, Carrying, Clearing
<1> QED BY <1>1, <1>2, <1>3, NotClearing DEF IInv

(* An operation other than the last is not the flip.                        *)
LEMMA NotLast ==
  ASSUME ip \in 1 .. Len(Script), Script[ip] \in Chars \cup {"clear"}
  PROVE  ip < Len(Script)
BY ScriptShape, CharFacts

LEMMA LoadInv == ASSUME IInv, BootLoad PROVE IInv'
<1>1. ASSUME NEW from, NEW to, LoadColumn(from, to),
             <<from, to>> \in {<<"start", "args">>, <<"load", "reload">>, <<"column", "store">>}
      PROVE IInv'
  <2> USE DEF LoadColumn
  <2>1. /\ ip \in 1 .. Len(Script) /\ ~BootDone /\ cmd = "none" /\ pc = from /\ pc' = to
        /\ ip' = ip /\ x' = terminal_column /\ terminal_column \in Columns
    BY <1>1, BootRuns DEF BootAt, Goto, IInv, TypeOK
  <2>2. Script[ip] \in CellChars
    BY <1>1, <2>1 DEF IInv, BootInv, Operation, Glyphing
  <2>3. ip < Len(Script) BY <2>1, <2>2, NotLast, CharFacts
  <2>4. BootInv' BY <1>1, <2>1, <2>2, <2>3 DEF BootInv, Glyphing, Carrying, Clearing
  <2>5. x' \in 0 .. VgaCells BY <2>1, Sizes DEF Columns
  <2>6. pc' \in Glyphing BY <1>1, <2>1 DEF Glyphing
  <2>7. UNCHANGED <<console, cursor, y, ch, handler, late>> BY <1>1
  <2>8. terminal_column' \in Columns BY <2>1, <2>7 DEF console
  <2> HIDE DEF LoadColumn
  <2> QED BY <2>1, <2>4, <2>5, <2>6, <2>7, <2>8, PutcharStep DEF IInv, TypeOK, console, cursor
<1>2. ASSUME NEW from, NEW to, LoadRow(from, to),
             <<from, to>> \in {<<"args", "index">>, <<"reload", "cell">>, <<"row", "carry">>}
      PROVE IInv'
  <2> USE DEF LoadRow
  <2>1. /\ ip \in 1 .. Len(Script) /\ ~BootDone /\ cmd = "none" /\ pc = from /\ pc' = to
        /\ ip' = ip /\ y' = terminal_row
    BY <1>2, BootRuns DEF BootAt, Goto
  <2>2. UNCHANGED <<console, cursor, x, ch, handler, late>> BY <1>2
  <2>3. BootInv'
    BY <1>2, <2>1, <2>2 DEF IInv, BootInv, Glyphing, Carrying, Clearing
  <2>4. pc' \in Glyphing \cup Carrying BY <1>2, <2>1 DEF Glyphing, Carrying
  <2>5. terminal_column' \in Columns
    <3>1. pc # "wrap" BY <1>2, <2>1
    <3>2. terminal_column \in Columns BY <3>1 DEF IInv, TypeOK
    <3> QED BY <2>2, <3>2 DEF console
  <2> HIDE DEF LoadRow
  <2> QED BY <2>1, <2>2, <2>3, <2>4, <2>5, PutcharStep DEF IInv, TypeOK, console, cursor
<1> QED BY <1>1, <1>2 DEF BootLoad

LEMMA CursorPortsInv == ASSUME IInv, BootCursor PROVE IInv'
<1>1. ASSUME NEW from, NEW register, NEW to, BootSelect(from, register, to),
             register \in {"lo", "hi"},
             <<from, to>> \in {<<"index", "lo">>, <<"select", "hi">>}
      PROVE IInv'
  <2> USE DEF BootSelect
  <2>1. /\ ip \in 1 .. Len(Script) /\ ~BootDone /\ cmd = "none" /\ pc = from /\ pc' = to
        /\ ip' = ip /\ crtc_index' = register
    BY <1>1, BootRuns DEF BootAt, Goto
  <2>2. UNCHANGED <<console, crtc, x, y, ch, handler, late>> BY <1>1
  <2>3. BootInv' BY <1>1, <2>1, <2>2 DEF IInv, BootInv, Glyphing, Carrying, Clearing
  <2>4. pc' \in Glyphing BY <1>1, <2>1 DEF Glyphing
  <2>5. terminal_column' \in Columns BY <1>1, <2>1, <2>2 DEF IInv, TypeOK, console
  <2> HIDE DEF BootSelect
  <2> QED BY <1>1, <2>1, <2>2, <2>3, <2>4, <2>5, PutcharStep DEF IInv, TypeOK, console
<1>2. ASSUME NEW from, NEW byte \in Nat, NEW to, BootCursorByte(from, byte, to),
             <<from, to>> \in {<<"lo", "select">>, <<"hi", "load">>}
      PROVE IInv'
  <2> USE DEF BootCursorByte
  <2>1. /\ ip \in 1 .. Len(Script) /\ ~BootDone /\ cmd = "none" /\ pc = from /\ pc' = to
        /\ ip' = ip /\ crtc' = [crtc EXCEPT ![crtc_index] = byte % CursorByte]
    BY <1>2, BootRuns DEF BootAt, Goto
  <2>2. UNCHANGED <<console, crtc_index, x, y, ch, handler, late>> BY <1>2
  <2>3. BootInv' BY <1>2, <2>1, <2>2 DEF IInv, BootInv, Glyphing, Carrying, Clearing
  <2>4. pc' \in Glyphing BY <1>2, <2>1 DEF Glyphing
  <2>5. byte % CursorByte \in 0 .. CursorByte - 1 BY <1>2, Sizes
  <2>6. crtc' \in [{"lo", "hi"} -> 0 .. CursorByte - 1] BY <2>1, <2>5 DEF IInv, TypeOK
  <2>7. terminal_column' \in Columns BY <1>2, <2>1, <2>2 DEF IInv, TypeOK, console
  <2> HIDE DEF BootCursorByte
  <2> QED BY <2>1, <2>2, <2>3, <2>4, <2>6, <2>7, PutcharStep DEF IInv, TypeOK, console
<1>3. ASSUME pc \in {"lo", "hi"}
      PROVE Index(y, x) \in Nat /\ Index(y, x) \div CursorByte \in Nat
  <2>1. x \in Nat /\ y \in Nat
    BY <1>3, Sizes DEF IInv, BootInv, TypeOK, Glyphing, Columns, Rows
  <2>2. Index(y, x) \in Rows BY <2>1, IndexTyped
  <2> QED BY <2>2, Sizes DEF Rows
<1>4. pc \in {"lo", "hi"} \/ BootSelect("index", "lo", "lo") \/ BootSelect("select", "hi", "hi")
  BY DEF BootCursor, BootCursorByte, BootAt
<1> QED BY <1>1, <1>2, <1>3, <1>4 DEF BootCursor, BootSelect, BootCursorByte, BootAt

LEMMA StoreCellInv == ASSUME IInv, BootStoreCell PROVE IInv'
<1> USE DEF BootStoreCell
<1>1. /\ ip \in 1 .. Len(Script) /\ ~BootDone /\ cmd = "none" /\ pc = "cell" /\ pc' = "column"
      /\ ip' = ip
  BY BootRuns DEF BootAt, Goto
<1>2. Script[ip] \in CellChars /\ x \in Columns /\ ip < Len(Script)
  BY <1>1 DEF IInv, BootInv, Glyphing
<1>3. terminal_buffer' \in [Cells -> CellChars]
  BY <1>2, StoredTyped DEF IInv, TypeOK, Operation
<1>4. BootInv' BY <1>1, <1>2 DEF BootInv, Glyphing, Carrying, Clearing
<1>5. pc' \in Glyphing BY <1>1 DEF Glyphing
<1>6. UNCHANGED <<terminal_row, terminal_column, is_term_mode, cursor, x, y, ch, handler, late>>
  OBVIOUS
<1>7. terminal_column' \in Columns BY <1>1, <1>6 DEF IInv, TypeOK
<1> HIDE DEF BootStoreCell
<1> QED BY <1>1, <1>3, <1>4, <1>5, <1>6, <1>7, PutcharStep DEF IInv, TypeOK, cursor

LEMMA StoreColumnInv == ASSUME IInv, BootStoreColumn PROVE IInv'
<1> USE DEF BootStoreColumn
<1>1. ip \in 1 .. Len(Script) /\ ~BootDone /\ cmd = "none" /\ pc = "store"
  BY BootRuns DEF BootAt
<1>2. Script[ip] \in CellChars /\ x \in Columns /\ ip < Len(Script)
  BY <1>1 DEF IInv, BootInv, Glyphing
<1>3. terminal_column' = x + 1
  <2>1. x + 1 \in Nat /\ x + 1 < Wrap16 BY <1>2, Sizes DEF Columns
  <2> QED BY <2>1, Sizes
<1>4. \/ x + 1 = VGA_WIDTH /\ ip' = ip /\ pc' = "wrap"
      \/ x + 1 # VGA_WIDTH /\ ip' = ip + 1 /\ pc' = "start"
  BY DEF Goto, Advance
<1>5. ip' \in 1 .. Len(Script) /\ pc' \in {"wrap", "start"} BY <1>1, <1>2, <1>4, ScriptShape
<1>6. UNCHANGED <<terminal_buffer, terminal_row, is_term_mode, cursor, x, y, ch, handler, late>>
  OBVIOUS
<1>9. terminal_column' \in Columns \/ (pc' = "wrap" /\ terminal_column' \in 0 .. Wrap16 - 1)
  <2>1. x \in Nat /\ x < VGA_WIDTH BY <1>2, Sizes DEF Columns
  <2>2. CASE x + 1 = VGA_WIDTH BY <1>3, <1>4, <2>1, <2>2, Sizes
  <2>3. CASE x + 1 # VGA_WIDTH BY <1>3, <2>1, <2>3, Sizes DEF Columns
  <2> QED BY <2>2, <2>3
<1> HIDE DEF BootStoreColumn
<1>7. BootInv' BY <1>2, <1>4, CharFacts DEF BootInv, Glyphing, Carrying, Clearing
<1>8. pc' \in Glyphing \cup Carrying \cup {"start"} BY <1>5 DEF Carrying
<1> QED BY <1>1, <1>5, <1>6, <1>7, <1>8, <1>9, PutcharStep DEF IInv, TypeOK, cursor

LEMMA WrapColumnInv == ASSUME IInv, BootWrapColumn PROVE IInv'
<1> USE DEF BootWrapColumn
<1>1. /\ ip \in 1 .. Len(Script) /\ ~BootDone /\ cmd = "none" /\ pc = "wrap" /\ pc' = "row"
      /\ ip' = ip
  BY BootRuns DEF BootAt, Goto
<1>2. Script[ip] \in Chars /\ ip < Len(Script) BY <1>1 DEF IInv, BootInv, Carrying
<1>3. terminal_column' \in Columns BY Sizes DEF Columns
<1>4. UNCHANGED <<terminal_buffer, terminal_row, is_term_mode, cursor, x, y, ch, handler, late>>
  OBVIOUS
<1> HIDE DEF BootWrapColumn
<1>5. BootInv' BY <1>1, <1>2 DEF BootInv, Glyphing, Carrying, Clearing
<1>6. pc' \in Carrying BY <1>1 DEF Carrying
<1> QED BY <1>1, <1>3, <1>4, <1>5, <1>6, PutcharStep DEF IInv, TypeOK, cursor

LEMMA BootNewlineInv == ASSUME IInv, BootNewline PROVE IInv'
<1> USE DEF BootNewline
<1>1. /\ ip \in 1 .. Len(Script) /\ ~BootDone /\ cmd = "none" /\ ip' = ip /\ pc' = "row"
      /\ Script[ip] = Newline
  BY BootRuns DEF BootAt, Goto, Operation
<1>2. ip < Len(Script) BY <1>1, NotLast, CharFacts
<1>3. terminal_column' \in Columns BY Sizes DEF Columns
<1>4. UNCHANGED <<terminal_buffer, terminal_row, is_term_mode, cursor, x, y, ch, handler, late>>
  OBVIOUS
<1> HIDE DEF BootNewline
<1>5. BootInv' BY <1>1, <1>2, CharFacts DEF BootInv, Glyphing, Carrying, Clearing
<1>6. pc' \in Carrying BY <1>1 DEF Carrying
<1> QED BY <1>1, <1>3, <1>4, <1>5, <1>6, PutcharStep DEF IInv, TypeOK, cursor

LEMMA StoreRowInv == ASSUME IInv, BootStoreRow PROVE IInv'
<1> USE DEF BootStoreRow
<1>1. ip \in 1 .. Len(Script) /\ ~BootDone /\ cmd = "none" /\ pc = "carry"
  BY BootRuns DEF BootAt
<1>2. Script[ip] \in Chars /\ ip < Len(Script) BY <1>1 DEF IInv, BootInv, Carrying
<1>3. \/ ip' = ip /\ pc' = "over"
      \/ ip' = ip + 1 /\ pc' = "start"
  BY DEF Goto, Advance
<1>4. ip' \in 1 .. Len(Script) /\ pc' \in {"over", "start"} BY <1>1, <1>2, <1>3, ScriptShape
<1>5. terminal_row' \in Rows BY NextPlace DEF IInv, TypeOK
<1>6. UNCHANGED <<terminal_buffer, terminal_column, is_term_mode, cursor, x, y, ch, handler, late>>
  OBVIOUS
<1>7. terminal_column' \in Columns BY <1>1, <1>6 DEF IInv, TypeOK
<1> HIDE DEF BootStoreRow
<1>8. BootInv' BY <1>2, <1>3 DEF BootInv, Glyphing, Carrying, Clearing
<1>9. pc' \in Glyphing \cup Carrying \cup {"start"} BY <1>4 DEF Carrying
<1> QED BY <1>1, <1>4, <1>5, <1>6, <1>7, <1>8, <1>9, PutcharStep DEF IInv, TypeOK, cursor

LEMMA WrapRowInv == ASSUME IInv, BootWrapRow PROVE IInv'
<1> USE DEF BootWrapRow
<1>1. ip \in 1 .. Len(Script) /\ ~BootDone /\ cmd = "none" /\ pc = "over"
  BY BootRuns DEF BootAt
<1>2. ip < Len(Script) BY <1>1 DEF IInv, BootInv
<1>3. ip' \in 1 .. Len(Script) /\ pc' = "start" BY <1>1, <1>2, ScriptShape DEF Advance
<1>4. terminal_row' \in Rows BY Sizes DEF Rows
<1>5. UNCHANGED <<terminal_buffer, terminal_column, is_term_mode, cursor, x, y, ch, handler, late>>
  OBVIOUS
<1>6. terminal_column' \in Columns BY <1>1, <1>5 DEF IInv, TypeOK
<1> HIDE DEF BootWrapRow
<1>7. BootInv' BY <1>3 DEF BootInv, Glyphing, Carrying, Clearing
<1> QED BY <1>1, <1>3, <1>4, <1>5, <1>6, <1>7, PutcharStep DEF IInv, TypeOK, cursor

(* A step inside clear_screen, from what it leaves of the screen.           *)
LEMMA ClearStep ==
  ASSUME IInv, ~BootDone, cmd = "none",
         UNCHANGED <<is_term_mode, cursor, y, handler, ip>>,
         terminal_buffer' \in [Cells -> CellChars], terminal_row' \in Rows,
         terminal_column' \in Columns, x' \in 0 .. VgaCells, ch' \in CellChars,
         late' \subseteq Rows, ip \in 1 .. Len(Script), Script[ip] = "clear",
         pc' \in Clearing,
         pc' = "poke" /\ ch' # NUL => 0 \in late',
         \A i \in Screen :
           (pc' = "wipe" => i < x') /\ terminal_buffer'[i] # NUL => i \in late'
  PROVE  IInv'
<1>1. TypeOK'
  <2>1. terminal_column' \in IF pc' = "wrap" THEN 0 .. Wrap16 - 1 ELSE Columns
    BY DEF Clearing
  <2> QED BY <2>1, ScriptShape DEF IInv, TypeOK, handler, cursor, Clearing
<1>2. ModeDiscipline' /\ CommandInv' /\ CursorInv' BY StillBooting, ScriptShape
<1>3. BootInv'
  <2>1. ip < Len(Script) BY NotLast
  <2> QED BY <2>1 DEF BootInv, Glyphing, Carrying, Clearing
<1>4. ClearLeavesOnlyLate' BY DEF ClearLeavesOnlyLate
<1>5. PokeInv' BY DEF PokeInv
<1> QED BY <1>1, <1>2, <1>3, <1>4, <1>5 DEF IInv

LEMMA ClearInv ==
  ASSUME IInv, BootClear \/ BootWipe \/ BootPoke \/ BootTop
  PROVE  IInv'
<1>1. ip \in 1 .. Len(Script) /\ ~BootDone /\ cmd = "none"
  BY BootRuns DEF BootClear, BootWipe, BootPoke, BootTop, BootAt
<1>2. Script[ip] = "clear"
  BY DEF IInv, BootInv, BootClear, BootWipe, BootPoke, BootTop, BootAt, Operation, Clearing
<1>3. pc # "start" => InClear BY <1>1, <1>2, ScriptShape DEF InClear
<1>4. 0 \in Screen /\ 0 \in Cells /\ Screen \subseteq Cells
  BY ScreenCells, Sizes, SizeAssumption DEF Screen, Cells
<1>0. pc # "wrap" BY DEF BootClear, BootWipe, BootPoke, BootTop, BootAt
<1>5. /\ terminal_buffer \in [Cells -> CellChars] /\ terminal_row \in Rows
      /\ terminal_column \in Columns /\ late \subseteq Rows /\ ch \in CellChars
      /\ x \in 0 .. VgaCells
  BY <1>0 DEF IInv, TypeOK
<1>6. CASE BootClear
  <2>1. /\ x' = 0 /\ late' = {} /\ ip' = ip /\ pc' = "wipe"
        /\ UNCHANGED <<console, cursor, y, ch, handler>>
    BY <1>6 DEF BootClear, Goto
  <2>2. \A i \in Screen : ~(i < x') BY <2>1 DEF Screen
  <2> QED BY <1>1, <1>2, <1>5, <2>1, <2>2, ClearStep, Sizes DEF Clearing, console
<1>7. CASE BootWipe
  <2>1. pc = "wipe" /\ ip' = ip
        /\ UNCHANGED <<terminal_row, terminal_column, is_term_mode, cursor, y, handler, late>>
    BY <1>7 DEF BootWipe, BootAt, Goto
  <2>2. \A i \in Screen : i < x /\ terminal_buffer[i] # NUL => i \in late
    BY <1>3, <2>1 DEF IInv, ClearLeavesOnlyLate
  <2>3. CASE x \in Screen
    <3>1. /\ terminal_buffer' = [terminal_buffer EXCEPT ![x] = NUL]
          /\ x' = x + 1 /\ pc' = "wipe" /\ ch' = ch
      BY <1>7, <2>3 DEF BootWipe, Goto
    <3>2. x' \in 0 .. VgaCells BY <2>3, <3>1, Sizes DEF Screen
    <3>3. terminal_buffer' \in [Cells -> CellChars] BY <1>5, <3>1, CharFacts
    <3>4. \A i \in Screen : i < x' /\ terminal_buffer'[i] # NUL => i \in late'
      <4> SUFFICES ASSUME NEW i \in Screen, i < x', terminal_buffer'[i] # NUL PROVE i \in late
        BY <2>1
      <4>1. i # x BY <1>4, <1>5, <2>3, <3>1
      <4>2. i < x /\ terminal_buffer[i] # NUL
        BY <1>4, <1>5, <2>3, <3>1, <4>1, Sizes DEF Screen
      <4> QED BY <2>2, <4>2
    <3> QED BY <1>1, <1>2, <1>5, <2>1, <3>1, <3>2, <3>3, <3>4, ClearStep DEF Clearing
  <2>4. CASE x \notin Screen
    <3>1. ch' = terminal_buffer[0] /\ pc' = "poke" /\ UNCHANGED <<terminal_buffer, x>>
      BY <1>7, <2>4 DEF BootWipe, Goto
    <3>2. \A i \in Screen : i < x BY <1>5, <2>4, Sizes DEF Screen
    <3>3. ch' # NUL => 0 \in late' BY <1>4, <2>1, <2>2, <3>1, <3>2
    <3> QED BY <1>1, <1>2, <1>4, <1>5, <2>1, <2>2, <3>1, <3>2, <3>3, ClearStep DEF Clearing
  <2> QED BY <2>3, <2>4
<1>8. CASE BootPoke
  <2>1. /\ pc = "poke" /\ ip' = ip /\ pc' = "top"
        /\ terminal_buffer' = [terminal_buffer EXCEPT ![0] = ch]
        /\ UNCHANGED <<terminal_row, terminal_column, is_term_mode, cursor, x, y, ch, handler, late>>
    BY <1>8 DEF BootPoke, BootAt, Goto
  <2>2. \A i \in Screen : terminal_buffer[i] # NUL => i \in late
    BY <1>3, <2>1 DEF IInv, ClearLeavesOnlyLate
  <2>3. ch # NUL => 0 \in late BY <2>1 DEF IInv, PokeInv
  <2>4. terminal_buffer' \in [Cells -> CellChars] BY <1>4, <1>5, <2>1
  <2>5. \A i \in Screen : terminal_buffer'[i] # NUL => i \in late'
    BY <1>4, <1>5, <2>1, <2>2, <2>3
  <2> QED BY <1>1, <1>2, <1>5, <2>1, <2>4, <2>5, ClearStep DEF Clearing
<1>9. CASE BootTop
  <2>1. /\ pc = "top" /\ ip' = ip /\ pc' = "left" /\ terminal_row' = 0
        /\ UNCHANGED <<terminal_buffer, terminal_column, is_term_mode, cursor, x, y, ch, handler, late>>
    BY <1>9 DEF BootTop, BootAt, Goto
  <2>2. \A i \in Screen : terminal_buffer[i] # NUL => i \in late
    BY <1>3, <2>1 DEF IInv, ClearLeavesOnlyLate
  <2>3. terminal_row' \in Rows BY <2>1, Sizes DEF Rows
  <2> QED BY <1>1, <1>2, <1>5, <2>1, <2>2, <2>3, ClearStep DEF Clearing
<1> QED BY <1>6, <1>7, <1>8, <1>9

LEMMA ClearEndsInv == ASSUME IInv, BootLeft PROVE IInv'
<1> USE DEF BootLeft
<1>1. ip \in 1 .. Len(Script) /\ ~BootDone /\ cmd = "none" /\ pc = "left"
  BY BootRuns DEF BootAt
<1>2. ip < Len(Script) BY <1>1 DEF IInv, BootInv
<1>3. ip' \in 1 .. Len(Script) /\ pc' = "start" BY <1>1, <1>2, ScriptShape DEF Advance
<1>4. terminal_column' \in Columns BY Sizes DEF Columns
<1>5. UNCHANGED <<terminal_buffer, terminal_row, is_term_mode, cursor, x, y, ch, handler, late>>
  OBVIOUS
<1> HIDE DEF BootLeft
<1>6. BootInv' BY <1>3 DEF BootInv, Glyphing, Carrying, Clearing
<1> QED BY <1>1, <1>3, <1>4, <1>5, <1>6, PutcharStep DEF IInv, TypeOK, cursor

LEMMA FlipInv == ASSUME IInv, BootFlip PROVE IInv'
<1> USE DEF BootFlip
<1>1. /\ ip \in 1 .. Len(Script) /\ ~SincePrompt /\ cmd = "none" /\ isr = <<>>
      /\ is_term_mode = FALSE /\ Script[ip] = "flip"
  BY BootRuns DEF BootAt, Operation
<1>2. ip' = Len(Script) + 1 /\ pc' = "start" BY <1>1, ScriptShape DEF Advance
<1>3. is_term_mode' = TRUE BY <1>1 DEF FlipMode
<1>4. UNCHANGED <<terminal_buffer, terminal_row, terminal_column, cursor, x, y, ch, handler, late>>
  OBVIOUS
<1> HIDE DEF BootFlip
<1>13. terminal_column' \in IF pc' = "wrap" THEN 0 .. Wrap16 - 1 ELSE Columns
  <2>1. pc = "start" BY DEF BootFlip, BootAt
  <2> QED BY <1>2, <1>4, <2>1 DEF IInv, TypeOK
<1>5. TypeOK' BY <1>2, <1>3, <1>4, <1>13, ScriptShape DEF IInv, TypeOK, cursor, handler
<1>6. BootDone' BY <1>2, ScriptShape DEF BootDone
<1>7. cmd' = "none" /\ typed' = typed BY <1>1, <1>4 DEF handler
<1>8. ModeDiscipline' BY <1>3, <1>6, <1>7 DEF ModeDiscipline
<1>9. CommandInv' BY <1>7 DEF CommandInv
<1>10. BootInv' BY <1>2 DEF BootInv, Glyphing, Carrying, Clearing
<1>11. CursorInv' BY <1>1, <1>6, <1>7 DEF CursorInv, SincePrompt
<1>12. ClearLeavesOnlyLate' /\ PokeInv' BY <1>2, <1>5, <1>10, NotClearing DEF Clearing
<1> QED BY <1>5, <1>8, <1>9, <1>10, <1>11, <1>12 DEF IInv

LEMMA StutterInv == ASSUME IInv, UNCHANGED vars PROVE IInv'
BY DEF IInv, vars, console, cursor, boot, handler, TypeOK, BootInv, ModeDiscipline, BootDone,
   CommandInv, ClearLeavesOnlyLate, InClear, PokeInv, CursorInv, CursorAt, SincePrompt

LEMMA NextInv == IInv /\ [Next]_vars => IInv'
<1> SUFFICES ASSUME IInv, [Next]_vars PROVE IInv' OBVIOUS
<1>1. CASE \E c \in Keys : KeyPress(c) BY <1>1, KeyPressInv
<1>2. CASE UnhandledInterrupt BY <1>2, UnhandledInv
<1>3. CASE HandlerStep
  BY <1>3, HandlerPutInv, HandlerTabSpaceInv, HandlerEraseInv, HandlerNewlineInv,
     HandlerCommandInv, CommandReturnInv DEF HandlerStep
<1>4. CASE BootStep
  BY <1>4, LoadInv, CursorPortsInv, StoreCellInv, StoreColumnInv, WrapColumnInv,
     BootNewlineInv, StoreRowInv, WrapRowInv, ClearInv, ClearEndsInv, FlipInv DEF BootStep
<1>5. CASE UNCHANGED vars BY <1>5, StutterInv
<1> QED BY <1>1, <1>2, <1>3, <1>4, <1>5 DEF Next

LEMMA Invariance == Spec => []IInv
BY InitInv, NextInv, PTL DEF Spec
-----------------------------------------------------------------------------
(* The types, for every screen and every text.                              *)
THEOREM TypeCorrect == Spec => []TypeOK
<1>1. IInv => TypeOK BY DEF IInv
<1> QED BY <1>1, Invariance, PTL

(* flip_console_mode toggles, so one flip too many or too few would stay:   *)
(* a newline runs a command exactly when boot is over and none is running.  *)
THEOREM ModeDisciplined == Spec => []ModeDiscipline
<1>1. IInv => ModeDiscipline BY DEF IInv
<1> QED BY <1>1, Invariance, PTL

(* What clear_screen leaves on the screen, and what it has already passed,  *)
(* was written by a handler while its loop ran.                             *)
THEOREM ClearLeavesLate == Spec => []ClearLeavesOnlyLate
<1>1. IInv => ClearLeavesOnlyLate BY DEF IInv
<1> QED BY <1>1, Invariance, PTL

(* A torn update_cursor of the boot thread is mended by the first command.  *)
THEOREM CursorFollows == Spec => []CursorFollowsLine
<1>1. IInv => CursorFollowsLine
  BY DEF IInv, CursorInv, CursorFollowsLine, AtPrompt, SincePrompt, CursorAt
<1> QED BY <1>1, Invariance, PTL

(* Only the return of run_command ends a command.                           *)
LEMMA OnlyReturnEnds ==
  ASSUME IInv, [Next]_vars, cmd # "none", cmd' = "none"
  PROVE  CommandReturn
<1>1. BootDone BY DEF IInv, CommandInv
<1>2. ~BootStep
  BY <1>1, ScriptShape DEF IInv, TypeOK, BootDone, BootStep, BootLoad, LoadColumn, LoadRow,
     BootCursor, BootSelect, BootCursorByte, BootStoreCell, BootStoreColumn, BootNewline,
     BootStoreRow, BootWrapColumn, BootWrapRow, BootClear, BootWipe, BootPoke, BootTop,
     BootLeft, BootFlip, BootAt
<1>3. ~UnhandledInterrupt /\ ~(\E c \in Keys : KeyPress(c))
  BY DEF UnhandledInterrupt, KeyPress, Quiet
<1>4. ~HandlerCommand
  BY DEF HandlerCommand, Command, IInv, ModeDiscipline
<1>5. ~HandlerPut /\ ~HandlerTabSpace /\ ~HandlerErase /\ ~HandlerNewline
  BY DEF HandlerPut, HandlerTabSpace, HandlerErase, HandlerNewline
<1>6. ~UNCHANGED vars BY DEF vars, handler
<1> QED BY <1>2, <1>3, <1>4, <1>5, <1>6 DEF Next, HandlerStep

LEMMA PromptPlaced ==
  ASSUME IInv, CommandReturn
  PROVE  /\ terminal_row' = terminal_row /\ terminal_column = 0 /\ terminal_column' = 1
         /\ terminal_buffer' = Stored(terminal_buffer, Index(terminal_row, 0), PromptChar)
<1>1. terminal_column = 0 BY DEF CommandReturn, IInv, CommandInv
<1>2. NextColumn(0) = 1 /\ 0 + 1 # VGA_WIDTH BY Sizes DEF NextColumn
<1> QED BY <1>1, <1>2 DEF CommandReturn, PutGlyph

(* Whatever a command printed, the prompt stands at the start of a line.    *)
THEOREM PromptFollowsCommand == Spec => PromptAfterCommand
<1> DEFINE Prompted ==
      cmd # "none" /\ cmd' = "none" =>
        /\ terminal_column' = 1
        /\ Index(terminal_row', 0) \in Cells =>
             terminal_buffer'[Index(terminal_row', 0)] = PromptChar
<1>1. IInv /\ [Next]_vars => Prompted
  <2> SUFFICES ASSUME IInv, [Next]_vars, cmd # "none", cmd' = "none" PROVE Prompted
    OBVIOUS
  <2>1. CommandReturn BY OnlyReturnEnds
  <2> DEFINE pos == Index(terminal_row, 0)
  <2>2. terminal_buffer \in [Cells -> CellChars] BY DEF IInv, TypeOK
  <2>3. pos \in Cells => Stored(terminal_buffer, pos, PromptChar)[pos] = PromptChar
    BY <2>2, StoredTyped, CharFacts
  <2>4. Index(terminal_row', 0) = pos BY <2>1, PromptPlaced
  <2> QED BY <2>1, <2>3, <2>4, PromptPlaced
<1>2. IInv /\ [Next]_vars => [Prompted]_vars BY <1>1
<1> QED BY <1>2, Invariance, PTL DEF Spec, PromptAfterCommand

(* The clear command leaves nothing on the screen but a prompt in its first *)
(* cell, from whatever row and after whatever torn update.                  *)
THEOREM ClearRecovers == Spec => ClearRecoversScreen
<1> DEFINE Recovered ==
      cmd = "clear" /\ cmd' = "none" =>
        /\ terminal_row' = 0
        /\ \A i \in Screen : terminal_buffer'[i] = IF i = 0 THEN PromptChar ELSE NUL
<1>1. IInv /\ [Next]_vars => Recovered
  <2> SUFFICES ASSUME IInv, [Next]_vars, cmd = "clear", cmd' = "none" PROVE Recovered
    OBVIOUS
  <2>1. CommandReturn BY OnlyReturnEnds
  <2>2. terminal_row = 0 /\ \A i \in Screen : terminal_buffer[i] = NUL
    BY DEF IInv, CommandInv
  <2>3. Index(0, 0) = 0 BY Sizes DEF Index
  <2>4. terminal_buffer \in [Cells -> CellChars] BY DEF IInv, TypeOK
  <2>5. \A i \in Cells : Stored(terminal_buffer, 0, PromptChar)[i]
                           = IF i = 0 THEN PromptChar ELSE terminal_buffer[i]
    BY <2>4, StoredTyped, CharFacts
  <2>6. /\ terminal_row' = 0
        /\ terminal_buffer' = Stored(terminal_buffer, 0, PromptChar)
    BY <2>1, <2>2, <2>3, PromptPlaced
  <2> QED BY <2>2, <2>5, <2>6, ScreenCells
<1>2. IInv /\ [Next]_vars => [Recovered]_vars BY <1>1
<1> QED BY <1>2, Invariance, PTL DEF Spec, ClearRecoversScreen
-----------------------------------------------------------------------------
(* A row that lies in video memory: its cells are where the columns say.    *)
LEMMA RowCells ==
  ASSUME NEW r \in Rows, NEW c \in Columns, (r + 1) * VGA_WIDTH <= VgaCells
  PROVE  r * VGA_WIDTH \in Nat /\ Index(r, c) = r * VGA_WIDTH + c /\ r * VGA_WIDTH + c \in Cells
<1>1. r \in Nat /\ c \in Nat /\ c < VGA_WIDTH BY Sizes DEF Rows, Columns
<1>2. PICK p \in Nat : p = r * VGA_WIDTH BY <1>1, Sizes
<1>3. (r + 1) * VGA_WIDTH = r * VGA_WIDTH + VGA_WIDTH BY <1>1, Sizes
<1>4. p + c < VgaCells /\ p + c \in Nat BY <1>1, <1>2, <1>3, Sizes
<1>5. (p + c) % Wrap16 = p + c BY <1>4, Sizes
<1> QED BY <1>2, <1>4, <1>5, Sizes DEF Index, Cells

LEMMA TypedSeq ==
  ASSUME IInv
  PROVE  /\ typed \in Seq(Chars) /\ Len(typed) \in Nat
         /\ \A i \in 1 .. Len(typed) : typed[i] \in Chars
<1>1. typed \in Seq(Keys \cup {Newline}) BY DEF IInv, TypeOK
<1>2. typed \in Seq(Chars) BY <1>1, SeqMonotonic, CharFacts
<1> QED BY <1>2, ElementOfSeq, LenProperties

(* At rest, a key leaves the row as it was and is still to be printed.      *)
LEMMA KeyPressLine ==
  ASSUME IInv, LineInv, NEW c \in Keys, KeyPress(c), is_term_mode', SincePrompt'
  PROVE  LineInv'
<1> DEFINE n == Len(typed)
<1>1. /\ isr = <<>> /\ isr' = <<c>> /\ typed' = Append(typed, c)
      /\ UNCHANGED console
  BY DEF KeyPress, Quiet
<1>2. n \in Nat /\ typed \in Seq(Chars) /\ c \in Chars BY TypedSeq, CharFacts
<1>3. /\ Len(typed') = n + 1 /\ typed'[n + 1] = c /\ typed' # <<>>
      /\ \A i \in 1 .. n : typed'[i] = typed[i]
  <2> HIDE DEF n
  <2>1. typed' \in Seq(Chars) /\ Len(typed') = Len(typed) + 1
    BY <1>1, <1>2, AppendProperties
  <2>2. \A i \in 1 .. n : typed'[i] = typed[i]
    BY <1>1, <1>2, AppendProperties DEF n
  <2>3. typed'[n + 1] = c BY <1>1, <1>2, AppendProperties DEF n
  <2>4. typed' # <<>> BY <1>2, <2>1, EmptySeq DEF n
  <2> QED BY <2>1, <2>2, <2>3, <2>4 DEF n
<1>4. SincePrompt
  BY <1>1, FirstKey DEF IInv, TypeOK, SincePrompt
<1>5. AtRest BY <1>1, <1>4 DEF LineInv, Reporting, Echoing, console
<1> HIDE DEF n
<1>6. Len(typed') - 1 = n BY <1>2, <1>3
<1>7. NoEnter(Len(typed) - 1)' BY <1>3, <1>5, <1>6 DEF AtRest, NoEnter, n
<1>8. OnLine(Len(typed) - 1)'
  <2>1. OnLine(n) BY <1>5 DEF AtRest, n
  <2>2. KeysPlain(Len(typed) - 1)' => KeysPlain(n) BY <1>3, <1>6 DEF KeysPlain
  <2>3. UNCHANGED <<terminal_row, terminal_column, terminal_buffer>> BY <1>1 DEF console
  <2> QED BY <1>3, <1>6, <2>1, <2>2, <2>3 DEF OnLine, RowStored
<1>9. isr' = <<typed'[Len(typed')]>> BY <1>1, <1>3
<1>10. Echoing' BY <1>3, <1>7, <1>8, <1>9 DEF Echoing
<1> QED BY <1>10 DEF LineInv

LEMMA UnhandledLine ==
  ASSUME IInv, LineInv, UnhandledInterrupt, is_term_mode', SincePrompt'
  PROVE  LineInv'
<1>1. isr = <<>> /\ isr' = UnhandledText /\ UNCHANGED <<console, typed>>
  BY DEF UnhandledInterrupt, Quiet
<1>2. UnhandledText # <<>> /\ UnhandledText[Len(UnhandledText)] = Newline
  BY TextsTyped, TextAssumption DEF EndsLine
<1>3. AtRest BY <1>1 DEF LineInv, Reporting, Echoing, console, SincePrompt
<1>4. Reporting' BY <1>1, <1>2, <1>3 DEF AtRest, Reporting, NoEnter
<1> QED BY <1>4 DEF LineInv

(* A report loses characters from its front and keeps its newline.          *)
LEMMA ReportGoesOn ==
  ASSUME IInv, Reporting, Char # Newline, isr' = Tail(isr), typed' = typed
  PROVE  Reporting'
<1>1. isr \in Seq(Chars) /\ isr # <<>> BY DEF IInv, TypeOK, Reporting
<1>2. Tail(isr) # <<>> /\ Tail(isr)[Len(Tail(isr))] = Newline
  BY <1>1, NextChar DEF Reporting, Char
<1> QED BY <1>2 DEF Reporting, NoEnter

(* The last key, when it is the only character left to print.               *)
LEMMA EchoedKey ==
  ASSUME IInv, Echoing
  PROVE  /\ Len(typed) \in Nat \ {0} /\ Char = typed[Len(typed)] /\ isr[1] = Char
         /\ Tail(isr) = <<>> /\ isr # <<>>
         /\ Char # Newline => NoEnter(Len(typed))
<1>1. typed \in Seq(Chars) /\ typed # <<>> BY TypedSeq DEF Echoing
<1>2. Len(typed) \in Nat \ {0} BY <1>1, EmptySeq
<1>3. PICK k : k = typed[Len(typed)] /\ isr = <<k>> BY DEF Echoing
<1>4. Head(<<k>>) = k /\ Tail(<<k>>) = <<>> /\ <<k>>[1] = k /\ <<k>> # <<>> OBVIOUS
<1>5. k # Newline => NoEnter(Len(typed)) BY <1>2, <1>3 DEF Echoing, NoEnter
<1> QED BY <1>2, <1>3, <1>4, <1>5 DEF Char

(* A key that is printed on the row it was typed on.                        *)
LEMMA KeyPrinted ==
  ASSUME IInv, Echoing, HandlerPut
  PROVE  OnLine(Len(typed))'
<1> DEFINE n == Len(typed)
<1>1. n \in Nat \ {0} /\ Char = typed[n] /\ isr[1] = Char BY EchoedKey
<1>2. UNCHANGED <<is_term_mode, typed>> /\ PutGlyph(Char) BY DEF HandlerPut
<1>3. SUFFICES ASSUME KeysPlain(n)', n + 1 < VGA_WIDTH
               PROVE  /\ terminal_column' = n + 1
                      /\ RowStored' =>
                           /\ terminal_buffer'[terminal_row' * VGA_WIDTH] = PromptChar
                           /\ \A i \in 1 .. n :
                                terminal_buffer'[terminal_row' * VGA_WIDTH + i] = typed[i]
  BY <1>2 DEF OnLine
<1>4. KeysPlain(n) /\ KeysPlain(n - 1)
  <2>1. n' = n BY <1>2
  <2> HIDE DEF n
  <2> QED BY <1>1, <1>2, <1>3, <2>1 DEF KeysPlain
<1> HIDE DEF n
<1>5. Char \in Plain BY <1>1, <1>4 DEF KeysPlain
<1>6. OnLine(n - 1) BY <1>1, <1>5 DEF Echoing, Plain, n
<1>7. terminal_column = n
      /\ (RowStored =>
            /\ terminal_buffer[terminal_row * VGA_WIDTH] = PromptChar
            /\ \A i \in 1 .. n - 1 : terminal_buffer[terminal_row * VGA_WIDTH + i] = typed[i])
  BY <1>1, <1>3, <1>4, <1>6, Sizes DEF OnLine
<1>8. terminal_column' = n + 1 /\ terminal_row' = terminal_row
      /\ terminal_buffer' = Stored(terminal_buffer, Index(terminal_row, n), Char)
  BY <1>1, <1>2, <1>3, <1>7, NextPlace, Sizes DEF PutGlyph, Columns
<1>9. ASSUME RowStored
      PROVE  /\ terminal_buffer'[terminal_row * VGA_WIDTH] = PromptChar
             /\ \A i \in 1 .. n : terminal_buffer'[terminal_row * VGA_WIDTH + i] = typed[i]
  <2> DEFINE base == terminal_row * VGA_WIDTH
  <2>1. terminal_row \in Rows /\ terminal_buffer \in [Cells -> CellChars] BY DEF IInv, TypeOK
  <2>2. \A c \in Columns : base \in Nat /\ Index(terminal_row, c) = base + c /\ base + c \in Cells
    BY <1>9, <2>1, RowCells DEF RowStored
  <2>3. \A i \in 0 .. n : i \in Columns BY <1>1, <1>3, Sizes DEF Columns
  <2>4. Char \in CellChars BY <1>5, CharFacts DEF Plain
  <2> HIDE DEF base
  <2>5. 0 \in 0 .. n /\ n \in 0 .. n BY <1>1
  <2>6. base \in Nat /\ Index(terminal_row, n) = base + n BY <2>2, <2>3, <2>5
  <2>7. ASSUME NEW i \in 0 .. n
        PROVE  terminal_buffer'[base + i] = IF i = n THEN Char ELSE terminal_buffer[base + i]
    <3>1. base + i \in Cells BY <2>2, <2>3
    <3>2. base + i = base + n <=> i = n BY <1>1, <2>6
    <3> QED BY <1>8, <2>1, <2>4, <2>6, <3>1, <3>2, StoredTyped
  <2>8. terminal_buffer'[base + 0] = terminal_buffer[base + 0] BY <1>1, <2>5, <2>7
  <2>9. terminal_buffer'[base] = PromptChar BY <1>7, <1>9, <2>6, <2>8 DEF base
  <2>10. \A i \in 1 .. n : terminal_buffer'[base + i] = typed[i]
    BY <1>1, <1>7, <1>9, <2>7 DEF base
  <2> QED BY <2>9, <2>10 DEF base
<1> QED BY <1>8, <1>9 DEF RowStored

LEMMA PutLine ==
  ASSUME IInv, LineInv, HandlerPut, is_term_mode', SincePrompt'
  PROVE  LineInv'
<1>1. /\ isr # <<>> /\ isr' = Tail(isr) /\ Char # Newline
      /\ UNCHANGED <<is_term_mode, typed>>
  BY CharFacts DEF HandlerPut, Newline, Tab, Backspace
<1>2. Reporting \/ Echoing BY <1>1 DEF LineInv, AtRest, SincePrompt
<1>3. CASE Reporting BY <1>1, <1>3, ReportGoesOn DEF LineInv
<1>4. CASE Echoing
  <2>1. isr' = <<>> /\ NoEnter(Len(typed)) BY <1>1, <1>4, EchoedKey
  <2>2. OnLine(Len(typed))' BY <1>4, KeyPrinted
  <2> QED BY <1>1, <2>1, <2>2 DEF LineInv, AtRest, NoEnter
<1> QED BY <1>2, <1>3, <1>4

(* A tab or a backspace makes the row another than what was typed.          *)
LEMMA MovedLine ==
  ASSUME IInv, LineInv, HandlerTabSpace \/ HandlerErase, is_term_mode', SincePrompt'
  PROVE  LineInv'
<1>1. /\ isr # <<>> /\ Char \in {Tab, Backspace} /\ Char # Newline
      /\ UNCHANGED <<is_term_mode, typed>>
      /\ isr' = isr \/ isr' = Tail(isr)
      /\ Char = Tab => isr' = isr
      /\ Char = Backspace => isr' = Tail(isr)
  BY DEF HandlerTabSpace, HandlerErase, Newline, Tab, Backspace
<1>2. Reporting \/ Echoing BY <1>1 DEF LineInv, AtRest, SincePrompt
<1>3. CASE Reporting
  <2>1. CASE isr' = isr BY <1>1, <1>3, <2>1 DEF LineInv, Reporting, NoEnter
  <2> QED BY <1>1, <1>3, <2>1, ReportGoesOn DEF LineInv
<1>4. CASE Echoing
  <2>1. CASE isr' = isr
    <3>1. isr'[1] = Char BY <1>4, <2>1, EchoedKey
    <3> QED BY <1>1, <1>4, <2>1, <3>1 DEF LineInv, Echoing, NoEnter
  <2>2. CASE isr' = Tail(isr)
    <3>1. /\ isr' = <<>> /\ NoEnter(Len(typed)) /\ Len(typed) \in Nat \ {0}
          /\ typed[Len(typed)] \notin Plain
      BY <1>1, <1>4, <2>2, EchoedKey DEF Plain
    <3>2. ~KeysPlain(Len(typed))' BY <1>1, <3>1 DEF KeysPlain
    <3> QED BY <1>1, <3>1, <3>2 DEF LineInv, AtRest, NoEnter, OnLine
  <2> QED BY <1>1, <2>1, <2>2
<1> QED BY <1>2, <1>3, <1>4

(* The prompt that follows a command begins a row.                          *)
LEMMA ReturnLine == ASSUME IInv, CommandReturn PROVE LineInv'
<1>1. isr' = <<>> /\ typed' = <<>> /\ Len(typed') = 0 BY DEF CommandReturn
<1>2. /\ terminal_row' = terminal_row /\ terminal_column' = 1
      /\ terminal_buffer' = Stored(terminal_buffer, Index(terminal_row, 0), PromptChar)
  BY PromptPlaced
<1>3. ASSUME RowStored PROVE terminal_buffer'[terminal_row * VGA_WIDTH] = PromptChar
  <2>1. /\ terminal_row \in Rows /\ terminal_buffer \in [Cells -> CellChars]
        /\ 0 \in Columns /\ PromptChar \in CellChars
    BY CharFacts, Sizes DEF IInv, TypeOK, Columns
  <2>2. /\ Index(terminal_row, 0) = terminal_row * VGA_WIDTH + 0
        /\ terminal_row * VGA_WIDTH \in Nat /\ terminal_row * VGA_WIDTH + 0 \in Cells
    BY <1>3, <2>1, RowCells DEF RowStored
  <2>3. Index(terminal_row, 0) = terminal_row * VGA_WIDTH
        /\ terminal_row * VGA_WIDTH \in Cells
    BY <2>2
  <2> QED BY <1>2, <2>1, <2>3, StoredTyped
<1>4. OnLine(0)' BY <1>2, <1>3 DEF OnLine, RowStored
<1>5. AtRest' BY <1>1, <1>4 DEF AtRest, NoEnter
<1> QED BY <1>5 DEF LineInv

LEMMA LineNext == IInv /\ LineInv /\ [Next]_vars => LineInv'
<1> SUFFICES ASSUME IInv, LineInv, [Next]_vars, is_term_mode', SincePrompt' PROVE LineInv'
  BY DEF LineInv
<1>1. CASE \E c \in Keys : KeyPress(c) BY <1>1, KeyPressLine
<1>2. CASE UnhandledInterrupt BY <1>2, UnhandledLine
<1>3. CASE HandlerStep
  <2>1. ~HandlerNewline BY DEF HandlerNewline
  <2>2. ~HandlerCommand BY DEF HandlerCommand, FlipMode
  <2> QED BY <1>3, <2>1, <2>2, PutLine, MovedLine, ReturnLine DEF HandlerStep
<1>4. CASE BootStep
  <2>1. \E place : BootAt(place)
    BY <1>4 DEF BootStep, BootLoad, LoadColumn, LoadRow, BootCursor, BootSelect, BootCursorByte,
       BootStoreCell, BootStoreColumn, BootNewline, BootStoreRow, BootWrapColumn, BootWrapRow,
       BootClear, BootWipe, BootPoke, BootTop, BootLeft, BootFlip
  <2>2. ~SincePrompt BY <2>1, BootRuns
  <2>3. typed' = typed
    BY <1>4 DEF BootStep, BootLoad, LoadColumn, LoadRow, BootCursor, BootSelect, BootCursorByte,
       BootStoreCell, BootStoreColumn, BootNewline, BootStoreRow, BootWrapColumn, BootWrapRow,
       BootClear, BootWipe, BootPoke, BootTop, BootLeft, BootFlip, handler
  <2> QED BY <2>2, <2>3 DEF SincePrompt
<1>5. CASE UNCHANGED vars
  BY <1>5 DEF LineInv, AtRest, Reporting, Echoing, NoEnter, OnLine, KeysPlain, RowStored,
     SincePrompt, vars, console, handler
<1> QED BY <1>1, <1>2, <1>3, <1>4, <1>5 DEF Next

LEMMA LineInvariance == Spec => []LineInv
<1>1. Init => LineInv BY DEF Init, LineInv
<1> QED BY <1>1, LineNext, Invariance, PTL DEF Spec
-----------------------------------------------------------------------------
(* A number below the modulus is its own remainder.                         *)
LEMMA SmallRemainder == ASSUME NEW r \in Nat, NEW w \in Nat, r < w PROVE r % w = r
OBVIOUS

(* One less than 0, in uint16_t.                                            *)
LEMMA MinusOneWraps == (0 - 1) % Wrap16 = Wrap16 - 1
<1> DEFINE q == (0 - 1) \div Wrap16 r == (0 - 1) % Wrap16
<1>1. q \in Int /\ r \in Int /\ 0 <= r /\ r < Wrap16 /\ 0 - 1 = Wrap16 * q + r BY Sizes
<1> HIDE DEF q, r
<1>2. q < 0
  <2>1. SUFFICES ASSUME q \in Nat PROVE FALSE BY <1>1
  <2>2. Wrap16 * q \in Nat BY <2>1, Sizes
  <2> QED BY <1>1, <2>2
<1>3. q > -2
  <2>1. SUFFICES ASSUME NEW d \in Nat, q = -2 - d PROVE FALSE
    <3>1. q <= -2 => -2 - q \in Nat /\ q = -2 - (-2 - q) BY <1>1
    <3> QED BY <1>1, <3>1
  <2>2. Wrap16 * q = 0 - 2 * Wrap16 - Wrap16 * d /\ Wrap16 * d \in Nat BY <2>1, Sizes
  <2> QED BY <1>1, <2>2, Sizes
<1>4. q = -1 BY <1>1, <1>2, <1>3
<1>5. Wrap16 * q = 0 - Wrap16 BY <1>4, Sizes
<1> QED BY <1>1, <1>5, Sizes DEF r

(* read_line finds the row that is left: what was typed behind its prompt   *)
(* is what strcmp sees.                                                     *)
LEMMA NameIsRead ==
  ASSUME IInv, RowStored, NEW name, name \in {HelpName, ClearName},
         OnLine(Len(name) - 1), \A i \in 1 .. Len(name) - 1 : typed[i] = name[i + 1],
         NEW buf \in ReadLine((NextLine(terminal_row) - 1) % Wrap16)
  PROVE  \A i \in 1 .. Len(name) : buf[i] = name[i]
<1> DEFINE base == terminal_row * VGA_WIDTH
           n == Len(name)
<1>1. n \in 2 .. VGA_WIDTH - 1 /\ name \in Seq(CellChars) /\ name[1] = PromptChar
      /\ \A i \in 2 .. n : name[i] \in Plain
  <2>1. n \in 2 .. VGA_WIDTH - 1 /\ name \in Seq(CellChars) /\ name[1] = PromptChar
        /\ \A i \in 2 .. n : name[i] \notin {Tab, Backspace}
    BY NameAssumption, TextAssumption
  <2>2. \A i \in 1 .. n : name[i] \in CellChars BY <2>1, ElementOfSeq
  <2> QED BY <2>1, <2>2, Sizes, CharFacts DEF Plain
<1>2. terminal_row \in Rows /\ (NextLine(terminal_row) - 1) % Wrap16 = terminal_row
  <2>1. terminal_row \in Rows BY DEF IInv, TypeOK
  <2>2. terminal_row \in Nat /\ terminal_row < Wrap16 BY <2>1, Sizes DEF Rows
  <2>3. CASE terminal_row + 1 < Wrap16
    <3>1. NextLine(terminal_row) = terminal_row + 1
      <4>1. terminal_row + 1 \in Nat /\ Wrap16 \in Nat BY <2>2, Sizes
      <4>2. (terminal_row + 1) % Wrap16 = terminal_row + 1 BY <2>3, <4>1, SmallRemainder
      <4> QED BY <4>2 DEF NextLine
    <3>2. (terminal_row + 1) - 1 = terminal_row BY <2>2
    <3>3. terminal_row % Wrap16 = terminal_row BY <2>2, Sizes, SmallRemainder
    <3> QED BY <2>1, <3>1, <3>2, <3>3
  <2>4. CASE terminal_row + 1 = Wrap16
    <3>1. NextLine(terminal_row) = 0 BY <2>4, Sizes DEF NextLine
    <3>2. (0 - 1) % Wrap16 = Wrap16 - 1 BY MinusOneWraps
    <3>3. (NextLine(terminal_row) - 1) % Wrap16 = (0 - 1) % Wrap16 BY <3>1
    <3> QED BY <2>1, <2>2, <2>4, <3>2, <3>3
  <2>5. terminal_row + 1 < Wrap16 \/ terminal_row + 1 = Wrap16 BY <2>2, Sizes
  <2> QED BY <2>3, <2>4, <2>5
<1>3. /\ base \in Nat /\ \A c \in Columns : base + c \in Cells
  BY <1>2, RowCells, Sizes DEF RowStored, Columns
<1> HIDE DEF n
<1>4. KeysPlain(n - 1)
  <2>1. \A i \in 1 .. n - 1 : i + 1 \in 2 .. n BY <1>1, Sizes
  <2> QED BY <1>1, <2>1 DEF KeysPlain, n
<1>5. /\ terminal_buffer[base] = PromptChar
      /\ \A i \in 1 .. n - 1 : terminal_buffer[base + i] = name[i + 1]
  BY <1>1, <1>4, Sizes DEF OnLine, n
<1>6. \A i \in 1 .. VGA_WIDTH : base + i - 1 \in Cells => buf[i] = terminal_buffer[base + i - 1]
  BY <1>2 DEF ReadLine
<1> HIDE DEF base
<1>7. ASSUME NEW i \in 1 .. n PROVE buf[i] = name[i]
  <2>1. i - 1 \in Columns /\ i \in 1 .. VGA_WIDTH BY <1>1, Sizes DEF Columns
  <2>2. base + (i - 1) = base + i - 1 BY <1>3
  <2>3. buf[i] = terminal_buffer[base + (i - 1)] BY <1>3, <1>6, <2>1, <2>2
  <2>4. CASE i = 1
    <3>1. base + (i - 1) = base BY <1>3, <2>4
    <3> QED BY <1>1, <1>5, <2>3, <2>4, <3>1
  <2>5. CASE i # 1
    <3>1. i - 1 \in 1 .. n - 1 /\ (i - 1) + 1 = i BY <1>1, <2>5, Sizes
    <3> QED BY <1>5, <2>3, <3>1
  <2> QED BY <2>4, <2>5
<1> QED BY <1>7 DEF n

(* The keys of a name and Enter, one by one.                                *)
LEMMA NameAndEnter ==
  ASSUME NEW name, name \in {HelpName, ClearName}
  PROVE  LET line == Tail(name) \o <<Newline>>
         IN  /\ Len(line) = Len(name) /\ line[Len(name)] = Newline
             /\ \A i \in 1 .. Len(name) - 1 : line[i] = name[i + 1]
<1>1. /\ name \in Seq(CellChars) /\ Len(name) \in 2 .. VGA_WIDTH - 1
  BY NameAssumption, TextAssumption
<1>2. name # <<>> /\ Len(name) \in Nat /\ Len(name) > 1 BY <1>1, EmptySeq, Sizes
<1>3. /\ Tail(name) \in Seq(CellChars) /\ Len(Tail(name)) = Len(name) - 1
      /\ \A i \in 1 .. Len(Tail(name)) : Tail(name)[i] = name[i + 1]
  BY <1>1, <1>2, HeadTailProperties
<1>4. PICK keys : /\ keys = Tail(name) /\ keys \in Seq(Chars) /\ Len(keys) = Len(name) - 1
                  /\ \A i \in 1 .. Len(name) - 1 : keys[i] = name[i + 1]
  <2>1. Tail(name) \in Seq(Chars) BY <1>3, SeqMonotonic, CharFacts
  <2> QED BY <1>3, <2>1
<1>5. PICK enter : /\ enter = <<Newline>> /\ enter \in Seq(Chars) /\ Len(enter) = 1
                   /\ enter[1] = Newline
  <2>1. <<Newline>> \in Seq(Chars) /\ Len(<<Newline>>) = 1 /\ <<Newline>>[1] = Newline
    BY CharFacts
  <2> QED BY <2>1
<1>6. /\ Len(keys \o enter) = Len(keys) + Len(enter)
      /\ \A i \in 1 .. Len(keys) + Len(enter) :
           (keys \o enter)[i] = IF i <= Len(keys) THEN keys[i] ELSE enter[i - Len(keys)]
  BY <1>4, <1>5, ConcatProperties
<1> DEFINE line == keys \o enter
<1>7. line = Tail(name) \o <<Newline>> BY <1>4, <1>5
<1> HIDE DEF line
<1>8. /\ Len(line) = Len(name)
      /\ \A i \in 1 .. Len(name) :
           line[i] = IF i <= Len(name) - 1 THEN keys[i] ELSE enter[i - (Len(name) - 1)]
  <2>1. Len(line) = Len(name) - 1 + 1 BY <1>4, <1>5, <1>6 DEF line
  <2>2. \A i \in 1 .. (Len(name) - 1) + 1 :
          line[i] = IF i <= Len(name) - 1 THEN keys[i] ELSE enter[i - (Len(name) - 1)]
    BY <1>4, <1>5, <1>6 DEF line
  <2> QED BY <1>2, <2>1, <2>2
<1>9. line[Len(name)] = Newline
  <2>1. Len(name) - (Len(name) - 1) = 1 BY <1>2
  <2> QED BY <1>2, <1>5, <1>8, <2>1
<1>10. \A i \in 1 .. Len(name) - 1 : line[i] = name[i + 1] BY <1>2, <1>4, <1>8
<1> QED BY <1>7, <1>8, <1>9, <1>10

LEMMA NameTyped ==
  ASSUME NEW name, name \in {HelpName, ClearName}, typed = Tail(name) \o <<Newline>>
  PROVE  /\ Len(typed) = Len(name) /\ Len(name) \in Nat /\ Len(name) > 1
         /\ typed[Len(typed)] = Newline
         /\ \A i \in 1 .. Len(name) - 1 : typed[i] = name[i + 1]
         /\ SincePrompt
<1>1. /\ Len(typed) = Len(name) /\ typed[Len(name)] = Newline
      /\ \A i \in 1 .. Len(name) - 1 : typed[i] = name[i + 1]
  BY NameAndEnter, Zenon
<1>2. name \in Seq(CellChars) /\ Len(name) \in Nat /\ Len(name) > 1
  BY NameAssumption, TextAssumption, Sizes
<1>3. name[2] # Newline
  <2>1. \A i \in 1 .. Len(name) : name[i] \in CellChars BY <1>2, ElementOfSeq
  <2> QED BY <1>2, <2>1, CharFacts
<1>4. typed[1] = name[1 + 1] BY <1>1, <1>2
<1> QED BY <1>1, <1>2, <1>3, <1>4 DEF SincePrompt

(* Enter after a name: the row holds it, and strcmp compares it.            *)
LEMMA NameRuns ==
  ASSUME IInv, LineInv, RowStored, HandlerCommand, cmd = "none",
         NEW name, name \in {HelpName, ClearName}, typed = Tail(name) \o <<Newline>>
  PROVE  \E buf : cmd' = Command(buf) /\ \A i \in 1 .. Len(name) : buf[i] = name[i]
<1>1. /\ Len(typed) = Len(name) /\ Len(name) \in Nat /\ Len(name) > 1
      /\ typed[Len(typed)] = Newline
      /\ \A i \in 1 .. Len(name) - 1 : typed[i] = name[i + 1]
      /\ SincePrompt
  BY NameTyped
<1>2. isr # <<>> /\ is_term_mode BY DEF HandlerCommand
<1>3. ~NoEnter(Len(typed)) BY <1>1 DEF NoEnter
<1>4. Echoing BY <1>1, <1>2, <1>3 DEF LineInv, AtRest, Reporting
<1>5. OnLine(Len(name) - 1)
  <2>1. isr[1] = Newline BY <1>1, <1>4, EchoedKey
  <2> QED BY <1>1, <1>4, <2>1 DEF Echoing, Newline, Tab, Backspace
<1>6. PICK buf \in ReadLine((NextLine(terminal_row) - 1) % Wrap16) : cmd' = Command(buf)
  BY DEF HandlerCommand
<1>7. \A i \in 1 .. Len(name) : buf[i] = name[i] BY <1>1, <1>5, <1>6, NameIsRead
<1> QED BY <1>6, <1>7

(* A row that holds the one name does not hold the other.                   *)
LEMMA NamesDiffer ==
  ASSUME NEW buf, \A i \in 1 .. Len(ClearName) : buf[i] = ClearName[i]
  PROVE  ~Matches(buf, HelpName)
<1>1. PICK i \in 1 .. Len(HelpName) : i <= Len(ClearName) /\ HelpName[i] # ClearName[i]
  BY NameAssumption
<1>2. \A name \in {HelpName, ClearName} : Len(name) \in 2 .. VGA_WIDTH - 1 BY NameAssumption
<1>3. i \in 1 .. Len(ClearName) BY <1>1, <1>2, Sizes
<1> QED BY <1>1, <1>3 DEF Matches

(* A name typed behind the prompt is the command that Enter runs: no report *)
(* in between, no row of video memory and nothing the row held before makes *)
(* read_line and strcmp see another one.                                    *)
THEOREM TypedNameRuns == Spec => TypedCommandRuns
<1> DEFINE Runs ==
      cmd = "none" /\ cmd' # "none" /\ (terminal_row + 1) * VGA_WIDTH <= VgaCells =>
        /\ typed = Tail(HelpName) \o <<Newline>> => cmd' = "help"
        /\ typed = Tail(ClearName) \o <<Newline>> => cmd' = "clear"
<1>1. IInv /\ LineInv /\ [Next]_vars => Runs
  <2> SUFFICES ASSUME IInv, LineInv, [Next]_vars, cmd = "none", cmd' # "none", RowStored
               PROVE  /\ typed = Tail(HelpName) \o <<Newline>> => cmd' = "help"
                      /\ typed = Tail(ClearName) \o <<Newline>> => cmd' = "clear"
    BY DEF RowStored
  <2>1. HandlerCommand
    BY DEF Next, KeyPress, UnhandledInterrupt, HandlerStep, HandlerPut, HandlerTabSpace,
       HandlerErase, HandlerNewline, CommandReturn, BootStep, BootLoad, LoadColumn, LoadRow,
       BootCursor, BootSelect, BootCursorByte, BootStoreCell, BootStoreColumn, BootNewline,
       BootStoreRow, BootWrapColumn, BootWrapRow, BootClear, BootWipe, BootPoke, BootTop,
       BootLeft, BootFlip, handler, vars
  <2>2. \A name \in {HelpName, ClearName} : Len(name) <= VGA_WIDTH + 1
    BY NameAssumption, Sizes
  <2>3. CASE typed = Tail(HelpName) \o <<Newline>>
    <3>1. PICK buf : cmd' = Command(buf) /\ \A i \in 1 .. Len(HelpName) : buf[i] = HelpName[i]
      BY <2>1, <2>3, NameRuns
    <3>2. cmd' = "help" BY <2>2, <3>1 DEF Command, Matches
    <3>3. typed # Tail(ClearName) \o <<Newline>>
      <4>1. SUFFICES ASSUME typed = Tail(ClearName) \o <<Newline>> PROVE FALSE OBVIOUS
      <4>2. PICK b : cmd' = Command(b) /\ \A i \in 1 .. Len(ClearName) : b[i] = ClearName[i]
        BY <2>1, <4>1, NameRuns
      <4>3. ~Matches(b, HelpName) BY <4>2, NamesDiffer
      <4> QED BY <3>2, <4>2, <4>3 DEF Command
    <3> QED BY <3>2, <3>3
  <2>4. CASE typed = Tail(ClearName) \o <<Newline>>
    <3>1. PICK buf : cmd' = Command(buf) /\ \A i \in 1 .. Len(ClearName) : buf[i] = ClearName[i]
      BY <2>1, <2>4, NameRuns
    <3>2. ~Matches(buf, HelpName) BY <3>1, NamesDiffer
    <3>3. cmd' = "clear" BY <2>2, <3>1, <3>2 DEF Command, Matches
    <3>4. typed # Tail(HelpName) \o <<Newline>>
      <4>1. SUFFICES ASSUME typed = Tail(HelpName) \o <<Newline>> PROVE FALSE OBVIOUS
      <4>2. PICK b : cmd' = Command(b) /\ \A i \in 1 .. Len(HelpName) : b[i] = HelpName[i]
        BY <2>1, <4>1, NameRuns
      <4> QED BY <2>2, <3>3, <4>2 DEF Command, Matches
    <3> QED BY <3>3, <3>4
  <2> QED BY <2>3, <2>4
<1>2. IInv /\ LineInv /\ [Next]_vars => [Runs]_vars BY <1>1
<1> QED BY <1>2, Invariance, LineInvariance, PTL DEF Spec, TypedCommandRuns
=============================================================================
