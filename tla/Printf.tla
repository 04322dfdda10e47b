--------------------------------- MODULE Printf ---------------------------------
(***************************************************************************)
(* The formatter behind printf: _vsnprintf walks over the format, one phase *)
(* of a directive after the other, takes the arguments as it goes and gives *)
(* each character to the sink its entry point chose.  A call runs alone: it *)
(* has locals only, and two contexts meet in the console (Console).         *)
(* Floating point directives, which no report of the kernel uses, are left  *)
(* out.  A character is a string, the NUL that ends a string is NUL, and a  *)
(* pointer to a string is a number that Strings maps to the characters.     *)
(***************************************************************************)
EXTENDS Integers, SequencesExt, FiniteSetsExt

CONSTANTS
  PRINTF_NTOA_BUFFER_SIZE,                 \* digits a number may have
  CharValues, ShortValues, IntValues,      \* how many values a char, a short, an
  LLValues,                                \* int or long, and a long long have
  PointerDigits,                           \* sizeof(void *) * 2
  SizeMax,                                 \* the largest size_t
  Characters,                              \* what a char may be
  Chars, Strings,                          \* what a %c and a %s argument mean
  Calls    \* the calls: entry point, whether the buffer is NULL, count, format,
           \* args, and items, the directives as the caller means them

NUL == "NUL"
DigitChar == <<"0","1","2","3","4","5","6","7","8","9","a","b","c","d","e","f">>
UpperChar == <<"0","1","2","3","4","5","6","7","8","9","A","B","C","D","E","F">>
ValueSpecs == {"d", "i", "u", "x", "X", "o", "b", "c", "s", "p"}
Entries == {"printf_", "vprintf_", "fctprintf", "sprintf_", "snprintf_", "vsnprintf_"}
Phases == {"text", "flags", "precision", "length", "specifier", "done"}
AllFlags == {"ZEROPAD", "LEFT", "PLUS", "SPACE", "HASH", "UPPERCASE", "CHAR", "SHORT",
             "LONG", "LONG_LONG", "PRECISION"}

ASSUME WidthAssumption ==
  /\ PRINTF_NTOA_BUFFER_SIZE \in Nat \ {0}
  /\ \A n \in {CharValues, ShortValues, IntValues, LLValues} : n \in Nat \ {0} /\ n % 2 = 0
  /\ PointerDigits \in 0 .. IntValues - 1 /\ SizeMax \in Nat
ASSUME CharacterAssumption ==
  /\ {NUL, "%", " ", "-", "+", "x", "X", "b"} \subseteq Characters
  /\ \A k \in 1 .. 16 : DigitChar[k] \in Characters /\ UpperChar[k] \in Characters
  /\ Chars \in [0 .. CharValues - 1 -> Characters]
  /\ \A p \in DOMAIN Strings :
       Strings[p] \in Seq(Characters \ {NUL}) /\ Len(Strings[p]) <= SizeMax

VARIABLES
  call,                              \* the call under way
  pc, format, va,                    \* phase, place in the format, next argument
  flags, width, precision, idx,      \* locals of _vsnprintf
  screen, buffer,                    \* what _putchar got; what was stored where
  text, fields                       \* history: what was given to the sink, and
                                     \* where in it each directive's text lies

locals == <<flags, width, precision>>
output == <<idx, screen, buffer, text>>
vars == <<call, pc, format, va, locals, output, fields>>

(* A number n converted to an unsigned, or a signed, type of so many values.*)
Unsigned(n, values) == n % values
Signed(n, values) ==
  IF Unsigned(n, values) < values \div 2 THEN Unsigned(n, values)
  ELSE Unsigned(n, values) - values

(* An entry point chooses the sink and its size, and a NULL buffer gets     *)
(* nothing; the wrapped function of fctprintf takes what _putchar would.    *)
maxlen == IF call.entry \in {"snprintf_", "vsnprintf_"} THEN call.count ELSE SizeMax
sink == IF call.null THEN "null"
        ELSE IF call.entry \in {"printf_", "vprintf_", "fctprintf"} THEN "screen"
        ELSE "buffer"

(* The pointer into the format stays inside it, each argument is taken when *)
(* there is one, width and precision are unsigned, and nothing is stored    *)
(* beyond the buffer.                                                       *)
TypeOK ==
  /\ pc \in Phases
  /\ format \in 1 .. Len(call.format) + 1 /\ va \in 1 .. Len(call.args) + 1
  /\ flags \subseteq AllFlags
  /\ width \in 0 .. IntValues - 1 /\ precision \in 0 .. IntValues - 1
  /\ idx = Len(text)
  /\ DOMAIN buffer \subseteq 0 .. maxlen - 1

Char(p) == IF p <= Len(call.format) THEN call.format[p] ELSE NUL

Init ==
  /\ call \in Calls
  /\ pc = "text" /\ format = 1 /\ va = 1
  /\ flags = {} /\ width = 0 /\ precision = 0 /\ idx = 0
  /\ screen = <<>> /\ buffer = <<>> /\ text = <<>> /\ fields = <<>>
-----------------------------------------------------------------------------
(* The sinks.  The console and a caller's function are not given a NUL.     *)
Shown(s) ==
  LET shown[n \in 0 .. Len(s)] ==
        IF n = 0 THEN <<>>
        ELSE IF s[n] = NUL THEN shown[n-1] ELSE Append(shown[n-1], s[n])
  IN  shown[Len(s)]
out_char(s) == screen' = screen \o Shown(s)
out_buffer(s, at) ==
  buffer' = [k \in DOMAIN buffer \cup {j \in at .. at + Len(s) - 1 : j < maxlen} |->
               IF k \in at .. at + Len(s) - 1 THEN s[k - at + 1] ELSE buffer[k]]
Give(s, at) ==
  CASE sink = "screen" -> out_char(s) /\ UNCHANGED buffer
    [] sink = "buffer" -> out_buffer(s, at) /\ UNCHANGED screen
    [] sink = "null" -> UNCHANGED <<screen, buffer>>

Out(s) == Give(s, idx) /\ idx' = idx + Len(s) /\ text' = text \o s

Repeat(c, n) == [k \in 1 .. n |-> c]

(* Numbers: a buffer of digits, the last first, filled, signed and turned.  *)
out_rev(buf, w, fl) ==
  LET pad == Repeat(" ", Max({w - Len(buf), 0}))
  IN  (IF fl \cap {"LEFT", "ZEROPAD"} = {} THEN pad ELSE <<>>) \o Reverse(buf)
        \o (IF "LEFT" \in fl THEN pad ELSE <<>>)

Room(buf, s) == IF Len(buf) < PRINTF_NTOA_BUFFER_SIZE THEN buf \o s ELSE buf
ZerosTo(buf, n) ==
  buf \o Repeat("0", Max({Min({n, PRINTF_NTOA_BUFFER_SIZE}) - Len(buf), 0}))

SignOf(negative, fl) ==
  CASE negative -> <<"-">> [] ~negative /\ "PLUS" \in fl -> <<"+">>
    [] ~negative /\ "PLUS" \notin fl /\ "SPACE" \in fl -> <<" ">> [] OTHER -> <<>>

(* Mutant: a sign comes on top of the zeros.                                *)
SignPlaceNone(negative, w, fl) == w
(* A sign takes its place from the zeros.                                   *)
SignPlace(negative, w, fl) ==
  IF w # 0 /\ "ZEROPAD" \in fl /\ (negative \/ fl \cap {"PLUS", "SPACE"} # {})
    THEN w - 1 ELSE w

(* The prefix of the # flag takes the place of the last digits, filled in   *)
(* or not, when they fill the field.                                        *)
Hash(buf, base, prec, w, fl) ==
  LET full == "PRECISION" \notin fl /\ Len(buf) > 0 /\ Len(buf) \in {prec, w}
      cut == IF ~full THEN 0 ELSE IF base = 16 THEN Min({2, Len(buf)}) ELSE 1
      letter == CASE base = 16 -> <<IF "UPPERCASE" \in fl THEN "X" ELSE "x">>
                  [] base = 2 -> <<"b">> [] OTHER -> <<>>
  IN  Room(Room(SubSeq(buf, 1, Len(buf) - cut), letter), <<"0">>)

ntoa_format(buf, negative, base, prec, w, fl) ==
  LET place == IF "LEFT" \in fl THEN w ELSE SignPlace(negative, w, fl)
      filled == IF "LEFT" \in fl THEN buf ELSE ZerosTo(buf, prec)
      padded == IF {"LEFT", "ZEROPAD"} \cap fl = {"ZEROPAD"}
                  THEN ZerosTo(filled, place) ELSE filled
      hashed == IF "HASH" \in fl THEN Hash(padded, base, prec, place, fl) ELSE padded
  IN  out_rev(Room(hashed, SignOf(negative, fl)), place, fl)

(* As many digits as the value has, one for 0, and no more than fit: the    *)
(* same code twice, for a long and for a long long.                         *)
DigitsOf(value, base, fl) ==
  LET char == IF "UPPERCASE" \in fl THEN UpperChar ELSE DigitChar
      digits[v \in Nat] == IF v < base THEN <<char[v+1]>>
                           ELSE <<char[(v % base) + 1]>> \o digits[v \div base]
  IN  SubSeq(digits[value], 1, Min({Len(digits[value]), PRINTF_NTOA_BUFFER_SIZE}))
ntoa_long(value, negative, base, prec, w, fl) ==
  ntoa_format(IF "PRECISION" \in fl /\ value = 0 THEN <<>> ELSE DigitsOf(value, base, fl),
              negative, base, prec, w, IF value = 0 THEN fl \ {"HASH"} ELSE fl)
-----------------------------------------------------------------------------
(* The walk over the format.                                                *)
Literal ==
  /\ pc = "text" /\ Char(format) \notin {"%", NUL}
  /\ Out(<<Char(format)>>) /\ format' = format + 1
  /\ UNCHANGED <<call, pc, va, locals, fields>>

Percent ==
  /\ pc = "text" /\ Char(format) = "%"
  /\ pc' = "flags" /\ format' = format + 1
  /\ flags' = {}
  /\ UNCHANGED <<call, va, width, precision, output, fields>>

FlagOf == [c \in {"0", "-", "+", " ", "#"} |->
  CASE c = "0" -> "ZEROPAD" [] c = "-" -> "LEFT" [] c = "+" -> "PLUS"
    [] c = " " -> "SPACE" [] c = "#" -> "HASH"]

Flag ==
  /\ pc = "flags" /\ Char(format) \in DOMAIN FlagOf
  /\ flags' = flags \cup {FlagOf[Char(format)]} /\ format' = format + 1
  /\ UNCHANGED <<call, pc, va, width, precision, output, fields>>

is_digit(c) == c \in {DigitChar[k] : k \in 1 .. 10}
Value(c) == CHOOSE n \in 0 .. 9 : DigitChar[n+1] = c

(* The end of the digits that start at p, and their value.                  *)
DigitsEnd(p) == Min({q \in p .. Len(call.format) + 1 : ~is_digit(Char(q))})
atoi(p) ==
  LET value[n \in 0 .. DigitsEnd(p) - p] ==
        IF n = 0 THEN 0
        ELSE Unsigned(value[n-1] * 10 + Value(Char(p + n - 1)), IntValues)
  IN  value[DigitsEnd(p) - p]

Argument == call.args[va]

WidthNone ==
  /\ pc = "flags" /\ pc' = "precision"
  /\ Char(format) \notin DOMAIN FlagOf \cup {"*"} /\ ~is_digit(Char(format))
  /\ width' = 0
  /\ UNCHANGED <<call, format, va, flags, precision, output, fields>>

WidthDigits ==
  /\ pc = "flags" /\ pc' = "precision"
  /\ Char(format) \notin DOMAIN FlagOf /\ is_digit(Char(format))
  /\ width' = atoi(format) /\ format' = DigitsEnd(format)
  /\ UNCHANGED <<call, va, flags, precision, output, fields>>

(* A negative width asks for the left.                                      *)
WidthStar ==
  /\ pc = "flags" /\ pc' = "precision" /\ Char(format) = "*"
  /\ LET w == Signed(Argument, IntValues) IN
       /\ flags' = IF w < 0 THEN flags \cup {"LEFT"} ELSE flags
       /\ width' = Unsigned(IF w < 0 THEN -w ELSE w, IntValues)
  /\ format' = format + 1 /\ va' = va + 1
  /\ UNCHANGED <<call, precision, output, fields>>

(* Mutant: a negative precision is kept.                                    *)
StarPrecisionSigned == Signed(Argument, IntValues)
StarPrecision == Max({Signed(Argument, IntValues), 0})

PrecisionNone ==
  /\ pc = "precision" /\ pc' = "length" /\ Char(format) # "."
  /\ precision' = 0
  /\ UNCHANGED <<call, format, va, flags, width, output, fields>>

PrecisionDigits ==
  /\ pc = "precision" /\ pc' = "length"
  /\ Char(format) = "." /\ Char(format + 1) # "*"
  /\ flags' = flags \cup {"PRECISION"}
  /\ precision' = atoi(format + 1) /\ format' = DigitsEnd(format + 1)
  /\ UNCHANGED <<call, va, width, output, fields>>

PrecisionStar ==
  /\ pc = "precision" /\ pc' = "length"
  /\ Char(format) = "." /\ Char(format + 1) = "*"
  /\ flags' = flags \cup {"PRECISION"}
  /\ precision' = StarPrecision /\ format' = format + 2 /\ va' = va + 1
  /\ UNCHANGED <<call, width, output, fields>>

(* A size and a difference of pointers are as wide as a long, an intmax_t   *)
(* as a long long.                                                          *)
LengthFlags(a, b) ==
  CASE a = "l" -> IF b = "l" THEN {"LONG", "LONG_LONG"} ELSE {"LONG"}
    [] a = "h" -> IF b = "h" THEN {"SHORT", "CHAR"} ELSE {"SHORT"}
    [] a \in {"t", "z"} -> {"LONG"}
    [] a = "j" -> {"LONG_LONG"}
    [] OTHER -> {}
Length ==
  /\ pc = "length" /\ pc' = "specifier"
  /\ LET a == Char(format) b == Char(format + 1) IN
       /\ flags' = flags \cup LengthFlags(a, b)
       /\ format' = format + (IF a \in {"l", "h"} /\ b = a THEN 2
                              ELSE IF a \in {"l", "h", "t", "j", "z"} THEN 1 ELSE 0)
  /\ UNCHANGED <<call, va, width, precision, output, fields>>

(* The end of a directive, which has printed s.                             *)
Finish(s) ==
  /\ pc' = "text" /\ format' = format + 1
  /\ Out(s)
  /\ fields' = Append(fields, [from |-> idx + 1, to |-> idx + Len(s)])

Values(fl) ==
  CASE "LONG_LONG" \in fl -> LLValues
    [] {"LONG_LONG", "LONG"} \cap fl = {"LONG"} -> IntValues
    [] OTHER -> IF "CHAR" \in fl THEN CharValues ELSE IF "SHORT" \in fl THEN ShortValues
                ELSE IntValues

Base(c) == CASE c \in {"x", "X"} -> 16 [] c = "o" -> 8 [] c = "b" -> 2 [] OTHER -> 10

(* The flags an integer directive drops, and the one X adds.                *)
IntegerFlags(c) ==
  (flags \ ((IF Base(c) = 10 THEN {"HASH"} ELSE {})
            \cup (IF c \notin {"d", "i"} THEN {"PLUS", "SPACE"} ELSE {})
            \cup (IF "PRECISION" \in flags THEN {"ZEROPAD"} ELSE {})))
    \cup (IF c = "X" THEN {"UPPERCASE"} ELSE {})

FormatSigned ==
  /\ pc = "specifier" /\ Char(format) \in {"d", "i"}
  /\ LET v == Signed(Argument, Values(flags)) IN
       Finish(ntoa_long(IF v > 0 THEN v ELSE 0 - v, v < 0, Base(Char(format)), precision,
                        width, IntegerFlags(Char(format))))
  /\ va' = va + 1
  /\ UNCHANGED <<call, locals>>

FormatUnsigned ==
  /\ pc = "specifier" /\ Char(format) \in {"u", "x", "X", "o", "b"}
  /\ Finish(ntoa_long(Unsigned(Argument, Values(flags)), FALSE, Base(Char(format)),
                      precision, width, IntegerFlags(Char(format))))
  /\ va' = va + 1
  /\ UNCHANGED <<call, locals>>

Padded(s) ==
  LET pad == Repeat(" ", Max({width - Len(s), 0}))
  IN  IF "LEFT" \in flags THEN s \o pad ELSE pad \o s

FormatChar ==
  /\ pc = "specifier" /\ Char(format) = "c"
  /\ Finish(Padded(<<Chars[Unsigned(Argument, CharValues)]>>))
  /\ va' = va + 1
  /\ UNCHANGED <<call, locals>>

(* The length of a string, looked for in its first maxsize characters.      *)
strnlen_s(str, maxsize) == Min({Len(str), maxsize})

FormatString ==
  /\ pc = "specifier" /\ Char(format) = "s"
  /\ LET p == Strings[Argument]
         length == strnlen_s(p, IF precision # 0 THEN precision ELSE SizeMax)
         l == IF "PRECISION" \in flags THEN Min({length, precision}) ELSE length
     IN  Finish(Padded(SubSeq(p, 1, l)))
  /\ va' = va + 1
  /\ UNCHANGED <<call, locals>>

FormatPointer ==
  /\ pc = "specifier" /\ Char(format) = "p"
  /\ width' = PointerDigits /\ flags' = flags \cup {"ZEROPAD", "UPPERCASE"}
  /\ Finish(ntoa_long(Unsigned(Argument, IntValues), FALSE, 16, precision, width', flags'))
  /\ va' = va + 1
  /\ UNCHANGED <<call, precision>>

(* Any other character, the percent sign among them, stands for itself.     *)
FormatOther ==
  /\ pc = "specifier"
  /\ Char(format) \notin ValueSpecs
  /\ Finish(<<Char(format)>>)
  /\ UNCHANGED <<call, va, locals>>

(* Mutant: the NUL follows the text wherever it ends.                       *)
TerminatorAtEnd == idx
TerminatorAt ==
  IF idx < maxlen THEN idx ELSE (maxlen + SizeMax) % (SizeMax + 1)

Terminate ==
  /\ pc = "text" /\ Char(format) = NUL
  /\ pc' = "done"
  /\ Give(<<NUL>>, TerminatorAt)
  /\ UNCHANGED <<call, format, va, locals, idx, text, fields>>

Next ==
  \/ Literal \/ Percent \/ Flag
  \/ WidthNone \/ WidthDigits \/ WidthStar
  \/ PrecisionNone \/ PrecisionDigits \/ PrecisionStar
  \/ Length
  \/ FormatSigned \/ FormatUnsigned \/ FormatChar \/ FormatString \/ FormatPointer
  \/ FormatOther \/ Terminate

Spec == Init /\ [][Next]_vars
-----------------------------------------------------------------------------
(* What a directive means: an item has the flags and the numbers the caller *)
(* wrote or passed (width 0 and precision NoPrecision when absent), the     *)
(* length, the specifier and the argument.                                  *)
NoPrecision == -IntValues
Left(item) == "-" \in item.flags \/ item.width < 0
Field(item) == IF item.width < 0 THEN -item.width ELSE item.width

Number(item) ==
  LET values == CASE item.spec = "p" -> IntValues
                  [] item.spec # "p" /\ item.length = "hh" -> CharValues
                  [] item.spec # "p" /\ item.length = "h" -> ShortValues
                  [] item.spec # "p" /\ item.length \in {"ll", "j"} -> LLValues
                  [] OTHER -> IntValues
  IN  IF item.spec \in {"d", "i"} THEN Signed(item.arg, values)
      ELSE Unsigned(item.arg, values)

(* The numeral of n, its first digit first.                                 *)
Numeral(n, base, char) ==
  LET num[k \in Nat] == IF k < base THEN <<char[k+1]>>
                         ELSE Append(num[k \div base], char[(k % base) + 1])
  IN  num[n]

Fill(s, n) == Repeat("0", Max({n - Len(s), 0})) \o s

Digits(item) ==
  LET n == Number(item)
      abs == IF n < 0 THEN -n ELSE n
      char == IF item.spec \in {"X", "p"} THEN UpperChar ELSE DigitChar
      base == IF item.spec = "p" THEN 16 ELSE Base(item.spec)
  IN  IF n = 0 /\ item.precision = 0 THEN <<>> ELSE Numeral(abs, base, char)

Prefix(item) ==
  CASE Number(item) < 0 -> <<"-">>
    [] Number(item) >= 0 /\ item.spec \in {"d", "i"} /\ "+" \in item.flags -> <<"+">>
    [] Number(item) >= 0 /\ item.spec \in {"d", "i"} /\ "+" \notin item.flags
         /\ " " \in item.flags -> <<" ">>
    [] Number(item) # 0 /\ item.spec \in {"x", "X"} /\ "#" \in item.flags
         -> <<"0", item.spec>>
    [] OTHER -> <<>>

NumberText(item) ==
  LET prefix == Prefix(item)
      least == CASE item.spec = "p" -> PointerDigits
                 [] item.spec # "p" /\ item.precision >= 0 -> item.precision
                 [] item.spec # "p" /\ item.precision < 0 /\ "0" \in item.flags
                      /\ ~Left(item) -> Field(item) - Len(prefix)
                 [] OTHER -> 0
  IN  prefix \o Fill(Digits(item), least)

Content(item) ==
  CASE item.spec = "c" -> <<Chars[Unsigned(item.arg, CharValues)]>>
    [] item.spec = "s" ->
         SubSeq(Strings[item.arg], 1,
                IF item.precision >= 0 THEN Min({item.precision, Len(Strings[item.arg])})
                ELSE Len(Strings[item.arg]))
    [] item.spec \in {"d", "i", "u", "x", "X", "o", "b", "p"} -> NumberText(item)
    [] OTHER -> <<item.spec>>

Meaning(item) ==
  LET pad == Repeat(" ", IF item.spec \notin ValueSpecs THEN 0
                         ELSE Max({Field(item) - Len(Content(item)), 0}))
  IN  IF Left(item) THEN Content(item) \o pad ELSE pad \o Content(item)

(* How it is written: item lies in the format of c from the percent sign at *)
(* item.at to the specifier at item.specAt, its parts start where it says,  *)
(* and so do the arguments it takes.  A number is written or passed.        *)
LengthChars(l) ==
  CASE l = "" -> <<>> [] l = "hh" -> <<"h", "h">> [] l = "ll" -> <<"l", "l">>
    [] OTHER -> <<l>>
Amount(c, p, q, a, b, n) ==
  \/ b = a /\ n \in 0 .. IntValues - 1
     /\ SubSeq(c.format, p, q - 1) = Numeral(n, 10, DigitChar)
  \/ c.format[p] = "*" /\ q = p + 1 /\ b = a + 1 /\ n = c.args[a]
     /\ n \in -(IntValues \div 2) .. (IntValues \div 2) - 1

Directive(c, item) ==
  LET ch == c.format IN
    /\ {item.at, item.widthAt, item.precisionAt, item.lengthAt, item.specAt} \subseteq DOMAIN ch
    /\ item.at < item.widthAt /\ item.widthAt <= item.precisionAt
    /\ item.precisionAt <= item.lengthAt /\ item.lengthAt <= item.specAt
    /\ ch[item.at] = "%"
    /\ item.flags = {ch[p] : p \in item.at + 1 .. item.widthAt - 1}
    /\ item.flags \subseteq DOMAIN FlagOf /\ ch[item.widthAt] \notin DOMAIN FlagOf
    /\ \/ Amount(c, item.widthAt, item.precisionAt, item.widthArg, item.precisionArg, item.width)
       \/ /\ item.precisionAt = item.widthAt /\ ch[item.widthAt] # "*"
          /\ item.width = 0 /\ item.precisionArg = item.widthArg
    /\ ~is_digit(ch[item.precisionAt])
    /\ \/ ch[item.precisionAt] = "." /\
          \/ Amount(c, item.precisionAt + 1, item.lengthAt, item.precisionArg, item.valueArg,
                    item.precision)
          \/ /\ item.lengthAt = item.precisionAt + 1 /\ ch[item.lengthAt] # "*"
             /\ item.precision = 0 /\ item.valueArg = item.precisionArg
       \/ /\ ch[item.precisionAt] # "." /\ item.lengthAt = item.precisionAt
          /\ item.precision = NoPrecision /\ item.valueArg = item.precisionArg
    /\ ~is_digit(ch[item.lengthAt])
    /\ item.length \in {"", "hh", "h", "l", "ll", "z", "t", "j"}
    /\ SubSeq(ch, item.lengthAt, item.specAt - 1) = LengthChars(item.length)
    /\ ch[item.specAt] = item.spec /\ item.spec \notin {"l", "h", "t", "j", "z"}
    /\ item.spec \notin {"f", "F", "e", "E", "g", "G"}
    /\ IF item.spec \notin ValueSpecs THEN item.nextArg = item.valueArg
         ELSE /\ item.nextArg = item.valueArg + 1 /\ item.arg = c.args[item.valueArg]
              /\ item.spec = "s" => item.arg \in DOMAIN Strings
    /\ {item.widthArg, item.precisionArg, item.valueArg, item.nextArg} \subseteq
         1 .. Len(c.args) + 1

(* A call's directives follow one another, its other characters stand for   *)
(* themselves, and there is an argument for each use of one.                *)
ASSUME CallAssumption ==
  \A c \in Calls :
    /\ c.entry \in Entries /\ c.null \in BOOLEAN /\ c.count \in 0 .. SizeMax
    /\ c.format \in Seq(Characters \ {NUL}) /\ c.args \in Seq(Int)
    /\ Len(c.items) \in Nat /\ DOMAIN c.items = 1 .. Len(c.items)
    /\ \A k \in DOMAIN c.items :
         /\ Directive(c, c.items[k])
         /\ c.items[k].widthArg = IF k = 1 THEN 1 ELSE c.items[k-1].nextArg
         /\ \A j \in 1 .. k - 1 : c.items[j].specAt < c.items[k].at
    /\ \A p \in DOMAIN c.format : c.format[p] = "%" =>
         \E k \in DOMAIN c.items : p \in c.items[k].at .. c.items[k].specAt

(* What the formatter does otherwise: it drops the precision on the left    *)
(* and gives %p a width of its own, a negative precision counts as 0, a     *)
(* number has room for so many digits, and the # prefix overwrites a number *)
(* that fills its field.                                                    *)
Regular(item) ==
  /\ item.precision >= 0 \/ item.precision = NoPrecision
  /\ item.spec \in {"d", "i", "u", "x", "X", "o", "b", "p"} =>
       /\ Left(item) => item.precision = NoPrecision
       /\ item.spec = "p" => item.flags \subseteq {"0"} /\ item.width = 0
                             /\ item.precision = NoPrecision
       /\ Len(NumberText(item)) <= PRINTF_NTOA_BUFFER_SIZE
       /\ "#" \in item.flags => /\ item.spec \in {"d", "i", "u", "x", "X"}
                                /\ Len(Digits(item)) \notin {Field(item) - 1, Field(item)}
                                   \/ item.precision # NoPrecision

(* Each directive prints what it says of its own argument, whatever came    *)
(* before it: the argument's value in its base and length, the precision's  *)
(* digits, the sign, the padding on the side asked for, exactly as wide as  *)
(* the field.                                                               *)
FieldsAsMeant ==
  \A k \in DOMAIN fields :
    Regular(call.items[k]) =>
      SubSeq(text, fields[k].from, fields[k].to) = Meaning(call.items[k])

(* A buffer is written below its size only, and holds in the end as much of *)
(* the text as leaves room for the NUL after it; the console gets the whole *)
(* text.                                                                    *)
OutputIsText ==
  LET kept == Min({Len(text), maxlen - 1})
  IN  /\ DOMAIN buffer \subseteq 0 .. maxlen - 1
      /\ sink = "screen" => screen = Shown(text)
      /\ pc = "done" /\ sink = "buffer" /\ maxlen > 0 =>
           buffer = [k \in 0 .. kept |-> IF k = kept THEN NUL ELSE text[k+1]]
=============================================================================
