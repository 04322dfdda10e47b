-------------------------------- MODULE MCPrintf --------------------------------
(* Every shape of a directive, alone and followed by another, and each sink.*)
EXTENDS Printf

MCChars == <<"A", "B", "C", "D", "E", "F", "G">> @@ (0 :> NUL)
MCCharacters ==
  {MCChars[n] : n \in 0 .. 7} \cup {DigitChar[k] : k \in 1 .. 16} \cup {UpperChar[k] : k \in 1 .. 16}
  \cup {"%", " ", "-", "+", "#", "*", ".", "=", "x", "X", "o", "u", "i", "s", "p", "P",
        "h", "l", "z", "t", "j"}
MCStrings == (0 :> <<>>) @@ (1 :> <<"h", "e", "l", "l", "o">>)

(* A number in the format: absent, written, or passed.                      *)
Forms == {"none", "digits", "star"}

Decimal(n) == Numeral(n, 10, DigitChar)
Written(form, n) ==
  CASE form = "none" -> <<>> [] form = "digits" -> Decimal(n) [] form = "star" -> <<"*">>

(* The flags, in one order.                                                 *)
FlagChars(fl) == SelectSeq(<<"#", " ", "+", "0", "-">>, LAMBDA c : c \in fl)

Item(fl, w, p, l, spec, arg) ==
  [flags |-> fl, width |-> w[2], precision |-> p[2], length |-> l, spec |-> spec,
   arg |-> arg, wform |-> w[1], pform |-> p[1]]

ItemFormat(it) ==
  <<"%">> \o FlagChars(it.flags) \o Written(it.wform, it.width)
    \o (IF it.pform = "none" THEN <<>> ELSE IF it.pform = "dot" THEN <<".">>
        ELSE <<".">> \o Written(it.pform, it.precision))
    \o LengthChars(it.length) \o <<it.spec>>
ItemArgs(it) ==
  (IF it.wform = "star" THEN <<it.width>> ELSE <<>>)
    \o (IF it.pform = "star" THEN <<it.precision>> ELSE <<>>)
    \o (IF it.spec \in {"%", "P"} THEN <<>> ELSE <<it.arg>>)

(* The item, at place at of the format and arg of the arguments.            *)
Placed(it, at, arg) ==
  LET widthAt == at + 1 + Len(FlagChars(it.flags))
      precisionAt == widthAt + Len(Written(it.wform, it.width))
      specAt == at + Len(ItemFormat(it)) - 1
      precisionArg == arg + (IF it.wform = "star" THEN 1 ELSE 0)
  IN  it @@ [at |-> at, widthAt |-> widthAt, precisionAt |-> precisionAt,
             lengthAt |-> specAt - Len(LengthChars(it.length)), specAt |-> specAt,
             widthArg |-> arg, precisionArg |-> precisionArg,
             valueArg |-> precisionArg + (IF it.pform = "star" THEN 1 ELSE 0),
             nextArg |-> arg + Len(ItemArgs(it))]

MCCall(items, entry, null, count) ==
  LET Format(n) == FlattenSeq([k \in 1 .. n |-> <<"=">> \o ItemFormat(items[k])])
      Args(n) == FlattenSeq([k \in 1 .. n |-> ItemArgs(items[k])])
  IN  [items |-> [k \in DOMAIN items |->
                   Placed(items[k], Len(Format(k-1)) + 2, Len(Args(k-1)) + 1)],
       entry |-> entry, null |-> null, count |-> count,
       format |-> Format(Len(items)), args |-> Args(Len(items))]

NoWidth == <<"none", 0>>
NoPrec == <<"none", NoPrecision>>
FlagSets == SUBSET {"#", " ", "+", "0", "-"}

Alone == {MCCall(<<it>>, "printf_", FALSE, 0) : it \in
  {Item(fl, w, p, "", spec, arg) :
     fl \in FlagSets, w \in {NoWidth, <<"digits", 4>>, <<"star", -3>>},
     p \in {NoPrec, <<"dot", 0>>, <<"digits", 3>>}, spec \in {"d", "u", "x", "o", "b"},
     arg \in {0, 13, -16}}
  \cup
  {Item(fl, w, p, l, spec, arg) :
     fl \in {{}, {"0"}, {"+"}}, w \in {NoWidth, <<"digits", 10>>, <<"star", 5>>},
     p \in {NoPrec, <<"star", 2>>, <<"star", -2>>},
     l \in {"hh", "h", "l", "ll", "z", "t", "j"}, spec \in {"i", "X", "b"},
     arg \in {-9, 7, 200}}
  \cup
  {Item(fl, w, p, "", spec, arg) :
     fl \in {{}, {"0"}, {"-"}, {" "}}, w \in {NoWidth, <<"digits", 7>>, <<"star", -7>>},
     p \in {NoPrec, <<"dot", 0>>, <<"digits", 2>>, <<"star", 9>>},
     spec \in {"c", "s", "p", "%", "P"}, arg \in {0, 1}}}

Short == {Item(fl, w, p, "", spec, 1) :
  fl \in {{}, {"0"}, {"-"}, {"+"}}, w \in {NoWidth, <<"digits", 3>>},
  p \in {NoPrec, <<"digits", 2>>}, spec \in {"d", "x", "s", "c", "p", "%"}}

Pairs == {MCCall(<<a, b>>, "fctprintf", FALSE, 0) : a \in Short, b \in Short}

Stored == {MCCall(<<it>>, entry, null, n) :
  it \in {Item({}, NoWidth, NoPrec, "", "s", 1), Item({}, NoWidth, NoPrec, "", "c", 0),
          Item({"-"}, <<"digits", 3>>, NoPrec, "", "x", 13)},
  entry \in {"snprintf_", "sprintf_"}, null \in BOOLEAN, n \in 0 .. 8}

MCCalls == Alone \cup Pairs \cup Stored
=============================================================================
