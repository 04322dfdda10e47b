------------------------------ MODULE Ps2Proofs ------------------------------
(***************************************************************************)
(* Theorems about the PS/2 driver of Ps2, for every firmware configuration, *)
(* every test result and any number of key events.                          *)
(***************************************************************************)
EXTENDS Ps2, SequenceTheorems, TLAPS

(* init_ps2 has not emptied the output buffer yet; it has sent a command    *)
(* and not read the answer; it has started the keyboard's port.             *)
Opening == {"disable1", "disable2", "flush"}
Asked == {"readConfig", "readSelfTest", "readDual", "readTest1", "readTest2", "readStatus"}
Started == {"enable2", "writeFinal", "get_status", "readStatus", "status", "done"}

(* The inductive invariant.  OwnAnswers is not inductive by itself: it      *)
(* needs that no scan code can enter the output buffer, hence that the      *)
(* keyboard's port is stopped, hence that the configuration byte init_ps2   *)
(* writes back in newcb came from an answer in which it was stopped.        *)
PortStopped == pc \notin Started \cup {"disable1"} => Off1Bit \in config
CopyStopped ==
  /\ pc = "readDual" => Off1Bit \in answer
  /\ pc \in {"redisable2", "writeNew", "newcb"} => Off1Bit \in cb
NothingAskedYet == pc \in Opening => answers = <<>>

(* The output buffer can hold answers only.                                 *)
AnswersOnly == pc \notin Opening /\ (pc \notin Started \/ events = 0)
Waiting == answers = <<answer>> /\ ~full
Answered == answers = <<>> /\ out = answer
Exchange ==
  AnswersOnly => IF pc \in Asked THEN Waiting \/ Answered ELSE answers = <<>> /\ ~full

(* As long as no key is touched the port stays started, once it is.         *)
Untouched ==
  events = 0 =>
    /\ wire = <<>>
    /\ pc \in Started => Off1Bit \notin config
    /\ pc = "readStatus" => Off1Bit \notin answer
    /\ pc = "status" => Off1Bit \notin cb
    /\ pc = "done" => Irq1Bit \in config

IInv == TypeOK /\ PortStopped /\ CopyStopped /\ NothingAskedYet /\ Exchange /\ Untouched

-----------------------------------------------------------------------------
LEMMA OneByte ==
  ASSUME NEW b \in Byte
  PROVE  /\ <<b>> \in Seq(Byte) /\ Len(<<b>>) = 1 /\ <<b>> # <<>>
         /\ Head(<<b>>) = b /\ Tail(<<b>>) = <<>>
  OBVIOUS

LEMMA NoByte == <<>> \in Seq(Byte) /\ Len(<<>>) = 0
  BY EmptySeq

LEMMA Bytes ==
  /\ Resend \in Byte /\ SelfTestPassed \in Byte /\ {} \in Byte
  /\ \A k \in Keys : Make(k) \in Byte /\ Break(k) \in Byte
  /\ \A b \in Byte : b \cup {Off1Bit} \in Byte /\ b \cup {Off2Bit} \in Byte
  /\ \A b \in Byte : b \ {Off1Bit} \in Byte /\ b \ {Off2Bit} \in Byte
  <1>1. \A k \in Keys : Make(k) \in Byte
    BY DEF Keys, Make, Byte
  <1>2. \A b \in Byte : b \cup {7} \in Byte
    BY DEF Byte
  <1> QED BY <1>1, <1>2 DEF Break, Resend, SelfTestPassed, Byte, Off1Bit, Off2Bit

(* The two bytes that init_ps2 composes.                                    *)
LEMMA Composed ==
  ASSUME NEW b \in Byte
  PROVE  /\ Toggle(b, {Irq2Bit, Off2Bit}) \in Byte /\ b \cup Mask \in Byte
         /\ Off1Bit \in b => Off1Bit \in Toggle(b, {Irq2Bit, Off2Bit})
         /\ Off1Bit \notin b => Off1Bit \notin b \cup Mask
         /\ Irq1Bit \in b \cup Mask
  BY DEF Toggle, Mask, Byte, Irq1Bit, Irq2Bit, Off1Bit, Off2Bit

LEMMA AnswersShape ==
  ASSUME answers \in Seq(Byte), Len(answers) <= 1, answers # <<>>
  PROVE  Head(answers) \in Byte /\ Tail(answers) = <<>>
  <1>1. Len(answers) \in Nat /\ Len(answers) # 0
    BY LenProperties, EmptySeq
  <1>2. Head(answers) \in Byte /\ Tail(answers) \in Seq(Byte) /\ Len(Tail(answers)) = Len(answers) - 1
    BY HeadTailProperties
  <1>3. Len(Tail(answers)) = 0
    BY <1>1, <1>2
  <1> QED BY <1>2, <1>3, EmptySeq

-----------------------------------------------------------------------------
LEMMA InitIInv == Init => IInv
  <1> SUFFICES ASSUME Init PROVE IInv
    OBVIOUS
  <1>1. answers \in Seq(Byte) /\ Len(answers) <= 1 /\ wire \in Seq(Byte)
    BY NoByte DEF Init
  <1>2. config \in Byte /\ cb \in Byte /\ out \in Byte /\ answer \in Byte
    BY ConfigAssumption, Bytes DEF Init
  <1>3. {is_caps, is_lshift, is_rshift} \subseteq BOOLEAN /\ write = FALSE
    BY DEF Init
  <1>4. TypeOK
    <2>1. write <=> (pc \in {"newcb", "get_status", "readStatus", "status"}) /\ write \in BOOLEAN
      <3>1. pc \notin {"newcb", "get_status", "readStatus", "status"}
        BY DEF Init
      <3> QED BY <3>1, <1>3, Zenon
    <2>2. lost \subseteq Shifts /\ down \subseteq Keys /\ events \in 0 .. MaxEvents
      BY EventsAssumption DEF Init
    <2> QED BY <1>1, <1>2, <1>3, <2>1, <2>2 DEF Init, TypeOK, Places
  <1> QED BY <1>4 DEF Init, IInv, PortStopped, CopyStopped, NothingAskedYet, Exchange,
                      AnswersOnly, Opening, Asked, Started, Untouched

-----------------------------------------------------------------------------
(* The types, action by action.                                             *)
LEMMA KeyEventType ==
  ASSUME TypeOK, NEW k \in Keys, NEW up \in BOOLEAN, KeyEvent(k, up)
  PROVE  TypeOK'
  <1> USE DEF TypeOK, KeyEvent, init, flags, controller
  <1>1. wire' \in Seq(Byte)
    <2>1. (IF up THEN Break(k) ELSE Make(k)) \in Byte
      BY Bytes
    <2> QED BY <2>1, AppendProperties
  <1>2. down' \subseteq Keys /\ events' \in 0 .. MaxEvents
    BY EventsAssumption
  <1> QED BY <1>1, <1>2

LEMMA DeviceType == TypeOK /\ Device => TypeOK'
  <1> USE DEF TypeOK, init, flags, keyboard
  <1>1. ASSUME TypeOK, Answer PROVE TypeOK'
    <2>1. Head(answers) \in Byte /\ Tail(answers) = <<>>
      BY <1>1, AnswersShape DEF Answer
    <2> QED BY <1>1, <2>1, NoByte DEF Answer
  <1>2. ASSUME TypeOK, Receive PROVE TypeOK'
    <2>1. Head(wire) \in Byte /\ Tail(wire) \in Seq(Byte)
      BY <1>2, HeadTailProperties DEF Receive
    <2> QED BY <1>2, <2>1 DEF Receive
  <1> QED BY <1>1, <1>2 DEF Device

LEMMA HandlerType == TypeOK /\ handle_ps2 => TypeOK'
  <1> SUFFICES ASSUME TypeOK, handle_ps2 PROVE TypeOK'
    OBVIOUS
  <1>1. {is_caps', is_lshift', is_rshift'} \subseteq BOOLEAN
    <2>1. is_lshift' \in BOOLEAN
      BY Zenon DEF TypeOK, handle_ps2, Decode
    <2>2. is_rshift' \in BOOLEAN
      BY Zenon DEF TypeOK, handle_ps2, Decode
    <2>3. is_caps' \in BOOLEAN
      BY Zenon DEF TypeOK, handle_ps2, Decode
    <2> QED BY <2>1, <2>2, <2>3, Zenon
  <1>2. shown' \in {"none", "a", "A", "newline"}
    BY Zenon DEF TypeOK, handle_ps2, Decode
  <1> QED BY <1>1, <1>2 DEF TypeOK, handle_ps2, init, keyboard

(* What every step of init_ps2 leaves alone, and what it keeps of the types *)
(* when it leaves the rest right.                                           *)
LEMMA InitPs2Type ==
  ASSUME TypeOK, UNCHANGED <<flags, shown, down, events>>,
         pc' \in Places, write' \in BOOLEAN, write' <=> (pc' \in {"newcb", "get_status", "readStatus", "status"}),
         cb' \in Byte, is_dual_port' \in BOOLEAN, config' \in Byte, out' \in Byte,
         full' \in BOOLEAN, answers' \in Seq(Byte), Len(answers') <= 1, answer' \in Byte,
         wire' \in Seq(Byte), lost' \subseteq Shifts
  PROVE  TypeOK'
  <1>1. {is_caps', is_lshift', is_rshift'} \subseteq BOOLEAN
    BY DEF TypeOK, flags
  <1> QED BY <1>1 DEF TypeOK

LEMMA SetClocksType == TypeOK /\ SetClocks => TypeOK'
  <1> SUFFICES ASSUME TypeOK, SetClocks PROVE TypeOK'
    OBVIOUS
  <1>1. config' \in Byte
    BY Bytes DEF SetClocks, Clock, TypeOK
  <1>2. /\ pc' \in Places
        /\ write' <=> (pc' \in {"newcb", "get_status", "readStatus", "status"})
    BY DEF SetClocks, Clock, Command, At, TypeOK, Places
  <1>3. UNCHANGED <<flags, shown, down, events, wire, cb, is_dual_port, out, full, answers,
                    write, answer, lost>>
    BY DEF SetClocks, Clock, Silent, keyboard
  <1> QED BY <1>1, <1>2, <1>3, InitPs2Type DEF TypeOK

LEMMA AskType == TypeOK /\ AskController => TypeOK'
  <1> SUFFICES ASSUME TypeOK, AskController PROVE TypeOK'
    OBVIOUS
  <1>1. \E r \in Byte : answers' = <<r>> /\ answer' = r
    BY Bytes, ConfigAssumption DEF AskController, Ask, Say, TypeOK
  <1>2. answers' \in Seq(Byte) /\ Len(answers') <= 1 /\ answer' \in Byte
    BY <1>1, OneByte
  <1>3. /\ pc' \in Places
        /\ write' <=> (pc' \in {"newcb", "get_status", "readStatus", "status"})
    BY DEF AskController, Ask, Command, At, TypeOK, Places
  <1>4. UNCHANGED <<flags, shown, down, events, wire, cb, is_dual_port, config, out, full, write,
                    lost>>
    BY DEF AskController, Ask, keyboard
  <1> QED BY <1>2, <1>3, <1>4, InitPs2Type DEF TypeOK

LEMMA AnnounceType == TypeOK /\ AnnounceWrite => TypeOK'
  <1> SUFFICES ASSUME TypeOK, AnnounceWrite PROVE TypeOK'
    OBVIOUS
  <1>1. /\ pc' \in Places /\ write' \in BOOLEAN
        /\ write' <=> (pc' \in {"newcb", "get_status", "readStatus", "status"})
    <2>1. pc' \in Places /\ pc' \in {"newcb", "get_status"} /\ write' = TRUE
      BY DEF AnnounceWrite, Command, At, TypeOK, Places
    <2> QED BY <2>1
  <1>2. UNCHANGED <<flags, shown, down, events, wire, cb, is_dual_port, config, out, full,
                    answers, answer, lost>>
    BY DEF AnnounceWrite, Silent, keyboard
  <1> QED BY <1>1, <1>2, InitPs2Type DEF TypeOK

Reads == ReadIgnored \/ ReadSelfTest \/ ReadDual \/ ReadTests \/ ReadStatus

LEMMA ReadsType == TypeOK /\ Reads => TypeOK'
  <1> SUFFICES ASSUME TypeOK, Reads PROVE TypeOK'
    OBVIOUS
  <1> USE DEF Reads, ReadIgnored, ReadSelfTest, ReadDual, ReadTests, ReadStatus, Read
  <1>1. full' = FALSE /\ lost' \subseteq Shifts
    BY DEF TypeOK, ShiftOf
  <1>2. cb' \in Byte /\ is_dual_port' \in BOOLEAN
    BY DEF TypeOK
  <1>3. UNCHANGED <<flags, shown, down, events, wire, config, out, answers, write, answer>>
    BY DEF keyboard
  <1>4. /\ pc' \in Places
        /\ write' <=> (pc' \in {"newcb", "get_status", "readStatus", "status"})
    BY <1>3 DEF At, TypeOK, Places
  <1> QED BY <1>1, <1>2, <1>3, <1>4, InitPs2Type DEF TypeOK

(* A configuration byte reaches the controller.                             *)
LEMMA WriteDataEffect ==
  ASSUME write, NEW from, NEW byte, NEW to, WriteData(from, byte, to)
  PROVE  config' = byte /\ wire' = wire
  <1>1. IF write THEN config' = byte /\ wire' = wire
        ELSE wire' = Append(wire, Resend) /\ config' = config
    BY Zenon DEF WriteData
  <1> QED BY <1>1, Zenon

LEMMA WriteConfigType == TypeOK /\ WriteConfig => TypeOK'
  <1> SUFFICES ASSUME TypeOK, WriteConfig PROVE TypeOK'
    OBVIOUS
  <1>1. write /\ write' = FALSE
    BY DEF WriteConfig, WriteData, At, TypeOK
  <1>2. config' \in Byte /\ wire' = wire
    <2>1. config' \in {Toggle(cb, {Irq2Bit, Off2Bit}), cb \cup Mask} /\ wire' = wire
      BY <1>1, WriteDataEffect DEF WriteConfig
    <2>2. cb \in Byte
      BY DEF TypeOK
    <2>3. Toggle(cb, {Irq2Bit, Off2Bit}) \in Byte /\ cb \cup Mask \in Byte
      BY <2>2, Composed
    <2> QED BY <2>1, <2>3, Zenon
  <1>3. pc' \in {"test1", "done"}
    BY DEF WriteConfig, WriteData
  <1>4. UNCHANGED <<flags, shown, down, events, cb, is_dual_port, out, full, answers, answer,
                    lost>>
    BY DEF WriteConfig, WriteData
  <1>5. /\ pc' \in Places /\ write' \in BOOLEAN
        /\ write' <=> (pc' \in {"newcb", "get_status", "readStatus", "status"})
    <2>1. pc' \in Places /\ pc' \notin {"newcb", "get_status", "readStatus", "status"}
      BY <1>3 DEF Places
    <2> QED BY <1>1, <2>1, Zenon
  <1> QED BY <1>2, <1>4, <1>5, InitPs2Type DEF TypeOK

LEMMA NextType == TypeOK /\ [Next]_vars => TypeOK'
  <1> SUFFICES ASSUME TypeOK, [Next]_vars PROVE TypeOK'
    OBVIOUS
  <1>1. CASE \E k \in Keys, up \in BOOLEAN : KeyEvent(k, up)
    BY <1>1, KeyEventType
  <1>2. CASE Device \/ handle_ps2
    BY <1>2, DeviceType, HandlerType
  <1>3. CASE init_ps2
    BY <1>3, SetClocksType, AskType, AnnounceType, ReadsType, WriteConfigType
       DEF init_ps2, Reads
  <1>4. CASE UNCHANGED vars
    BY <1>4 DEF vars, init, flags, controller, keyboard, TypeOK
  <1> QED BY <1>1, <1>2, <1>3, <1>4 DEF Next

-----------------------------------------------------------------------------
(* The rest of the invariant, for the steps of the hardware, of the handler *)
(* and of init_ps2.                                                         *)
Core == PortStopped /\ CopyStopped /\ NothingAskedYet /\ Exchange /\ Untouched

LEMMA KeyEventCore ==
  ASSUME IInv, NEW k \in Keys, NEW up \in BOOLEAN, KeyEvent(k, up)
  PROVE  Core'
  <1>1. events' # 0
    BY DEF KeyEvent, IInv, TypeOK
  <1> QED BY <1>1 DEF KeyEvent, init, controller, IInv, Core, PortStopped, CopyStopped,
               NothingAskedYet, Exchange, AnswersOnly, Waiting, Answered, Untouched

LEMMA AnswerCore == IInv /\ Answer => Core'
  <1> SUFFICES ASSUME IInv, Answer PROVE Core'
    OBVIOUS
  <1>1. Exchange'
    <2>1. ASSUME AnswersOnly PROVE pc \in Asked /\ Answered'
      <3>1. pc \in Asked /\ answers = <<answer>>
        BY <2>1 DEF Answer, IInv, Exchange, Waiting, Answered
      <3>2. Head(answers) = answer /\ Tail(answers) = <<>>
        BY <3>1, OneByte DEF IInv, TypeOK
      <3> QED BY <3>1, <3>2 DEF Answer, Answered
    <2> QED BY <2>1 DEF Answer, init, keyboard, Exchange, AnswersOnly
  <1>2. pc \notin Opening
    BY DEF Answer, IInv, NothingAskedYet
  <1> QED BY <1>1, <1>2 DEF Answer, init, keyboard, IInv, Core, PortStopped, CopyStopped,
               NothingAskedYet, Untouched

LEMMA ReceiveCore == IInv /\ Receive => Core'
  <1> SUFFICES ASSUME IInv, Receive PROVE Core'
    OBVIOUS
  <1>1. events # 0 /\ ~AnswersOnly
    BY DEF Receive, IInv, Untouched, PortStopped, AnswersOnly, Opening
  <1> QED BY <1>1 DEF Receive, init, IInv, Core, PortStopped, CopyStopped,
               NothingAskedYet, Exchange, AnswersOnly, Untouched

LEMMA HandlerCore == IInv /\ handle_ps2 => Core'
  <1> SUFFICES ASSUME IInv, handle_ps2 PROVE Core'
    OBVIOUS
  <1>1. Exchange'
    BY DEF handle_ps2, init, keyboard, IInv, Exchange, AnswersOnly, Waiting, Answered
  <1> QED BY <1>1 DEF handle_ps2, init, keyboard, IInv, Core, PortStopped, CopyStopped,
               NothingAskedYet, Untouched

(* At a port access no answer is under way.                                 *)
LEMMA AtExchange ==
  ASSUME IInv, NEW place, At(place), AnswersOnly
  PROVE  answers = <<>> /\ (pc \in Asked => out = answer) /\ (pc \notin Asked => ~full)
  BY DEF IInv, At, Exchange, Waiting, Answered

LEMMA SetClocksCore == IInv /\ SetClocks => Core'
  <1> SUFFICES ASSUME IInv, SetClocks PROVE Core'
    OBVIOUS
  <1> USE DEF SetClocks, Clock, Command, At, Silent
  <1>1. PortStopped' /\ CopyStopped'
    BY DEF IInv, PortStopped, CopyStopped, Started, Off1Bit, Off2Bit
  <1>2. NothingAskedYet'
    BY DEF IInv, NothingAskedYet, Opening
  <1>3. Exchange'
    BY DEF IInv, Exchange, AnswersOnly, Opening, Started, Asked, Waiting, keyboard
  <1>4. Untouched'
    BY DEF IInv, Untouched, Started, keyboard, Off1Bit, Off2Bit
  <1> QED BY <1>1, <1>2, <1>3, <1>4 DEF Core

LEMMA AskCore == IInv /\ AskController => Core'
  <1> SUFFICES ASSUME IInv, AskController PROVE Core'
    OBVIOUS
  <1> USE DEF AskController, Ask, Command, Say
  <1>1. PortStopped' /\ CopyStopped'
    BY DEF IInv, PortStopped, CopyStopped, Started, At
  <1>2. NothingAskedYet'
    BY DEF IInv, NothingAskedYet, Opening, At
  <1>3. Exchange'
    <2>1. AnswersOnly' => AnswersOnly
      BY DEF AnswersOnly, Opening, Started, At, keyboard
    <2>2. pc \notin Asked /\ pc' \in Asked /\ answers' = <<answer'>> /\ full' = full
      BY DEF Asked, At
    <2>3. AnswersOnly => ~full
      BY <2>2, AtExchange
    <2> QED BY <2>1, <2>2, <2>3 DEF Exchange, Waiting
  <1>4. Untouched'
    BY DEF IInv, Untouched, Started, At, keyboard
  <1> QED BY <1>1, <1>2, <1>3, <1>4 DEF Core

LEMMA AnnounceCore == IInv /\ AnnounceWrite => Core'
  <1> SUFFICES ASSUME IInv, AnnounceWrite PROVE Core'
    OBVIOUS
  <1> USE DEF AnnounceWrite, Command, At, Silent
  <1>1. PortStopped' /\ CopyStopped' /\ NothingAskedYet'
    BY DEF IInv, PortStopped, CopyStopped, NothingAskedYet, Opening, Started
  <1>2. Exchange'
    BY DEF IInv, Exchange, AnswersOnly, Opening, Started, Asked, keyboard
  <1>3. Untouched'
    BY DEF IInv, Untouched, Started, keyboard
  <1> QED BY <1>1, <1>2, <1>3 DEF Core

LEMMA ReadsCore == IInv /\ Reads => Core'
  <1> SUFFICES ASSUME IInv, Reads PROVE Core'
    OBVIOUS
  <1> USE DEF Reads, ReadIgnored, ReadSelfTest, ReadDual, ReadTests, ReadStatus, Read
  <1>1. UNCHANGED <<config, out, answers, answer, keyboard>> /\ full' = FALSE
    OBVIOUS
  <1>2. At(pc) /\ pc \in Asked \cup {"flush"} /\ pc' \notin Asked \cup Opening
    BY DEF At, Asked, Opening
  <1>3. PortStopped'
    BY <1>1 DEF At, IInv, PortStopped, Started
  <1>4. AnswersOnly' /\ pc # "flush" => AnswersOnly
    BY <1>1 DEF At, AnswersOnly, Opening, Started, keyboard
  <1>5. CopyStopped'
    <2>1. CASE pc = "readDual"
      <3>1. out = answer
        BY <1>2, <2>1, AtExchange DEF AnswersOnly, Opening, Started, Asked
      <3> QED BY <2>1, <3>1 DEF At, IInv, CopyStopped
    <2>2. CASE pc # "readDual"
      BY <1>1, <2>2 DEF At, IInv, CopyStopped
    <2> QED BY <2>1, <2>2
  <1>6. Exchange'
    <2>1. ASSUME AnswersOnly' PROVE answers = <<>>
      BY <1>2, <1>4, <2>1, AtExchange DEF IInv, NothingAskedYet, Opening
    <2> QED BY <1>1, <1>2, <2>1 DEF Exchange
  <1>7. Untouched'
    <2>1. CASE pc = "readStatus"
      <3>1. events = 0 => out = answer
        BY <1>2, <2>1, AtExchange DEF AnswersOnly, Opening, Asked
      <3> QED BY <1>1, <2>1, <3>1 DEF At, IInv, Untouched, keyboard, Started
    <2>2. CASE pc # "readStatus"
      BY <1>1, <2>2 DEF At, IInv, Untouched, keyboard, Started
    <2> QED BY <2>1, <2>2
  <1> QED BY <1>2, <1>3, <1>5, <1>6, <1>7 DEF Core, NothingAskedYet

LEMMA WriteConfigCore == IInv /\ WriteConfig => Core'
  <1> SUFFICES ASSUME IInv, WriteConfig PROVE Core'
    OBVIOUS
  <1>1. write /\ cb \in Byte
    BY DEF WriteConfig, WriteData, At, IInv, TypeOK
  <1>2. /\ UNCHANGED <<cb, out, full, answers, answer, events>> /\ At(pc)
        /\ \/ pc = "newcb" /\ pc' = "test1"
           \/ pc = "status" /\ pc' = "done"
    BY DEF WriteConfig, WriteData, At
  <1>3. wire' = wire
    BY <1>1, WriteDataEffect DEF WriteConfig
  <1>4. /\ pc = "newcb" => config' = Toggle(cb, {Irq2Bit, Off2Bit})
        /\ pc = "status" => config' = cb \cup Mask
    BY <1>1, WriteDataEffect DEF WriteConfig, WriteData, At
  <1>5. /\ Off1Bit \in cb => Off1Bit \in Toggle(cb, {Irq2Bit, Off2Bit})
        /\ Off1Bit \notin cb => Off1Bit \notin cb \cup Mask
        /\ Irq1Bit \in cb \cup Mask
    BY <1>1, Composed
  <1>6. PortStopped' /\ CopyStopped' /\ NothingAskedYet'
    BY <1>2, <1>4, <1>5 DEF IInv, PortStopped, CopyStopped, NothingAskedYet, Started, Opening
  <1>7. Exchange'
    BY <1>2 DEF IInv, Exchange, AnswersOnly, Opening, Started, Asked
  <1>8. Untouched'
    BY <1>2, <1>3, <1>4, <1>5 DEF IInv, Untouched, Started
  <1> QED BY <1>6, <1>7, <1>8 DEF Core

LEMMA NextIInv == IInv /\ [Next]_vars => IInv'
  <1> SUFFICES ASSUME IInv, [Next]_vars PROVE IInv'
    OBVIOUS
  <1>1. TypeOK'
    BY NextType DEF IInv
  <1>2. Core'
    <2>1. CASE \E k \in Keys, up \in BOOLEAN : KeyEvent(k, up)
      BY <2>1, KeyEventCore
    <2>2. CASE Device \/ handle_ps2
      BY <2>2, AnswerCore, ReceiveCore, HandlerCore DEF Device
    <2>3. CASE init_ps2
      BY <2>3, SetClocksCore, AskCore, AnnounceCore, ReadsCore, WriteConfigCore
         DEF init_ps2, Reads
    <2>4. CASE UNCHANGED vars
      BY <2>4 DEF vars, init, controller, keyboard, IInv, Core, PortStopped, CopyStopped,
           NothingAskedYet, Exchange, AnswersOnly, Waiting, Answered, Untouched
    <2> QED BY <2>1, <2>2, <2>3, <2>4 DEF Next
  <1> QED BY <1>1, <1>2 DEF IInv, Core

LEMMA Invariance == Spec => []IInv
  BY InitIInv, NextIInv, PTL DEF Spec

-----------------------------------------------------------------------------
(* The types, and that the controller waits for a configuration byte        *)
(* exactly where init_ps2 is about to send one.                             *)
THEOREM TypeCorrect == Spec => []TypeOK
  <1>1. IInv => TypeOK
    BY DEF IInv
  <1> QED BY <1>1, Invariance, PTL

(* Until it starts the keyboard's port again, init_ps2 takes nothing but    *)
(* the answer to its last command for an answer, though it never asks the   *)
(* controller whether there is one and the handler may have read it first.  *)
THEOREM AnswersAreOwn == Spec => []OwnAnswers
  <1>1. IInv => OwnAnswers
    <2> SUFFICES ASSUME IInv, answers = <<>> \/ full,
                        pc \in {"readConfig", "readSelfTest", "readDual", "readTest1",
                                "readTest2"}
                 PROVE  out = answer
      BY DEF OwnAnswers
    <2>1. pc \in Asked /\ AnswersOnly
      BY DEF Asked, AnswersOnly, Opening, Started
    <2> QED BY <2>1, AtExchange DEF At
  <1> QED BY <1>1, Invariance, PTL

(* When a test fails init_ps2 leaves the keyboard's port stopped.           *)
THEOREM FailuresLeavePortOff == Spec => []FailureLeavesPortOff
  <1>1. IInv => FailureLeavesPortOff
    BY DEF IInv, PortStopped, Started, FailureLeavesPortOff
  <1> QED BY <1>1, Invariance, PTL

(* With no key touched, init_ps2 returns 0 with the keyboard running.       *)
THEOREM UndisturbedInitEnables == Spec => []UndisturbedMeansEnabled
  <1>1. IInv => UndisturbedMeansEnabled
    BY DEF IInv, Untouched, Started, UndisturbedMeansEnabled, KeyboardRuns
  <1> QED BY <1>1, Invariance, PTL
-----------------------------------------------------------------------------
(* The shift flags follow the keyboard if the controller says nothing that  *)
(* is a shift key's byte and may reach the handler: bit 3 of the            *)
(* configuration is zero on an 8042, and the tests have five results, 0 to  *)
(* 4.                                                                       *)
ZeroBit == 3
Of(k, b) == b \in {Make(k), Break(k)}
BytesApart ==
  /\ \A b \in FirmwareConfigs : ZeroBit \notin b
  /\ \A r \in TestResults, k \in Shifts : ~Of(k, r)

(* The byte that says where a shift key is, and its flag in the driver.     *)
Now(k) == IF k \in down THEN Make(k) ELSE Break(k)
Flag(k) == IF k = "lshift" THEN is_lshift ELSE is_rshift

(* Commands whose answer is read before the keyboard's port is started.     *)
Early == Asked \ {"readStatus"}

(* Of a key's bytes on the wire the last one says where it is; if there is  *)
(* none the byte in the buffer does, unless it is an answer that cannot     *)
(* interrupt; and if that is none either, the flag does.                    *)
Absent(k) == \A i \in 1 .. Len(wire) : ~Of(k, wire[i])
LastSays(k) ==
  \A i \in 1 .. Len(wire) :
    Of(k, wire[i]) /\ (\A j \in i + 1 .. Len(wire) : ~Of(k, wire[j])) => wire[i] = Now(k)
BufferSays(k) ==
  Absent(k) /\ full /\ Of(k, out) => out = Now(k) \/ (pc \in Early /\ Irq1Bit \notin config)
FlagSays(k) ==
  Absent(k) /\ ~(full /\ Of(k, out)) /\ k \notin lost => Flag(k) = (k \in down)

(* No answer that can interrupt is a shift key's byte.                      *)
ZeroStays ==
  /\ pc # "done" => ZeroBit \notin config
  /\ pc = "readDual" => ZeroBit \notin answer
  /\ pc \in {"redisable2", "writeNew", "newcb"} => ZeroBit \notin cb
PortStarted == pc \in Started \ {"done"} => Off1Bit \notin config
AnswersApart ==
  answers # <<>> => \A k \in Shifts : Of(k, Head(answers)) => pc \in Early /\ Irq1Bit \notin config

Says == \A k \in Shifts : LastSays(k) /\ BufferSays(k) /\ FlagSays(k)
FlagInv == ZeroStays /\ PortStarted /\ AnswersApart /\ Says

LEMMA ShiftBytes ==
  ASSUME NEW k \in Shifts
  PROVE  /\ k \in Keys /\ Make(k) # Break(k)
         /\ \A j \in Keys : j # k => ~Of(k, Make(j)) /\ ~Of(k, Break(j))
         /\ ~Of(k, SelfTestPassed)
         /\ \A b : Of(k, b) => Irq1Bit \notin b /\ (ZeroBit \in b \/ Off1Bit \in b)
         /\ \A b : k \in ShiftOf(b) <=> Of(k, b)
  <1> USE DEF Shifts, Keys, Make, Break, Of
  <1>1. k \in Keys /\ Make(k) # Break(k)
    <2>1. 7 \in Break(k) /\ 7 \notin Make(k)
      OBVIOUS
    <2> QED BY <2>1, Zenon
  <1>2. ASSUME NEW j \in Keys, j # k PROVE ~Of(k, Make(j)) /\ ~Of(k, Break(j))
    <2>1. CASE k = "lshift"
      <3>1. \A b : Of(k, b) => 5 \in b /\ 4 \notin b /\ 1 \in b
        BY <2>1
      <3>2. \A b \in {Make(j), Break(j)} : ~(5 \in b /\ 4 \notin b /\ 1 \in b)
        BY <1>2, <2>1
      <3> HIDE DEF Of, Make, Break
      <3> QED BY <3>1, <3>2
    <2>2. CASE k = "rshift"
      <3>1. \A b : Of(k, b) => 5 \in b /\ 4 \in b /\ 2 \in b
        BY <2>2
      <3>2. \A b \in {Make(j), Break(j)} : ~(5 \in b /\ 4 \in b /\ 2 \in b)
        BY <1>2, <2>2
      <3> HIDE DEF Of, Make, Break
      <3> QED BY <3>1, <3>2
    <2> QED BY <2>1, <2>2
  <1>3. \A b : Of(k, b) => Irq1Bit \notin b /\ (ZeroBit \in b \/ Off1Bit \in b)
    BY DEF Irq1Bit, Off1Bit, ZeroBit
  <1>4. Irq1Bit \in SelfTestPassed
    BY DEF Irq1Bit, SelfTestPassed
  <1>5. ~Of(k, SelfTestPassed)
    BY <1>3, <1>4
  <1>6. \A b : k \in ShiftOf(b) <=> Of(k, b)
    BY DEF ShiftOf
  <1> QED BY <1>1, <1>2, <1>3, <1>5, <1>6

LEMMA InitFlagInv == ASSUME BytesApart, Init PROVE FlagInv
  <1>1. ZeroStays /\ PortStarted /\ AnswersApart
    BY DEF Init, BytesApart, ZeroStays, PortStarted, Started, AnswersApart
  <1>2. Len(wire) = 0
    BY EmptySeq DEF Init
  <1>3. ASSUME NEW k \in Shifts PROVE LastSays(k) /\ BufferSays(k) /\ FlagSays(k)
    <2>1. LastSays(k) /\ BufferSays(k)
      BY <1>2 DEF Init, LastSays, BufferSays
    <2>2. Flag(k) = FALSE /\ (k \in down) = FALSE
      BY DEF Init, Flag
    <2> QED BY <2>1, <2>2 DEF FlagSays
  <1> QED BY <1>1, <1>3 DEF FlagInv, Says

(* A key event puts the byte that says where the key is on the wire.        *)
LEMMA KeyEventFlags ==
  ASSUME IInv, FlagInv, NEW j \in Keys, NEW up \in BOOLEAN, KeyEvent(j, up)
  PROVE  FlagInv'
  <1>1. UNCHANGED <<init, flags, controller, lost>>
    BY DEF KeyEvent
  <1>2. ZeroStays' /\ PortStarted' /\ AnswersApart'
    BY <1>1 DEF FlagInv, ZeroStays, PortStarted, AnswersApart, init, controller
  <1> DEFINE b == IF up THEN Break(j) ELSE Make(j)
             n == Len(wire)
  <1>3. /\ wire \in Seq(Byte) /\ b \in Byte /\ wire' = Append(wire, b)
    BY Bytes DEF KeyEvent, IInv, TypeOK
  <1> HIDE DEF b
  <1>4. /\ n \in Nat /\ Len(wire') = n + 1 /\ wire'[n + 1] = b
        /\ \A i \in 1 .. n : wire'[i] = wire[i]
    BY <1>3, LenProperties, AppendProperties
  <1>5. down' = IF up THEN down \ {j} ELSE down \cup {j}
    BY DEF KeyEvent
  <1>6. ASSUME NEW k \in Shifts PROVE LastSays(k)' /\ BufferSays(k)' /\ FlagSays(k)'
    <2>1. CASE k = j
      <3>1. b = Now(k)' /\ Of(k, b)
        BY <1>5, <2>1 DEF b, Now, Of
      <3>2. ~Absent(k)'
        BY <1>4, <3>1 DEF Absent
      <3>3. LastSays(k)'
        BY <1>4, <3>1 DEF LastSays
      <3> QED BY <3>2, <3>3 DEF BufferSays, FlagSays
    <2>2. CASE k # j
      <3>1. ~Of(k, b)
        BY <2>2, ShiftBytes DEF b
      <3>2. (k \in down' <=> k \in down) /\ Now(k)' = Now(k)
        BY <1>5, <2>2 DEF Now
      <3>3. Absent(k)' => Absent(k)
        BY <1>4 DEF Absent
      <3>4. LastSays(k)'
        <4> SUFFICES ASSUME NEW i \in 1 .. Len(wire'), Of(k, wire'[i]),
                            \A m \in i + 1 .. Len(wire') : ~Of(k, wire'[m])
                     PROVE  wire'[i] = Now(k)'
          BY DEF LastSays
        <4>1. i \in 1 .. n /\ Of(k, wire[i])
          BY <1>4, <3>1
        <4>2. \A m \in i + 1 .. n : ~Of(k, wire[m])
          BY <1>4, <4>1
        <4> QED BY <1>4, <3>2, <4>1, <4>2 DEF FlagInv, Says, LastSays
      <3>5. BufferSays(k)' /\ FlagSays(k)'
        BY <1>1, <3>2, <3>3 DEF FlagInv, Says, BufferSays, FlagSays, Flag, init, flags, controller
      <3> QED BY <3>4, <3>5
    <2> QED BY <2>1, <2>2
  <1> QED BY <1>2, <1>6 DEF FlagInv, Says

LEMMA AnswerFlags == ASSUME IInv, FlagInv, Answer PROVE FlagInv'
  <1>1. /\ UNCHANGED <<init, flags, config, answer, keyboard, lost>> /\ ~full /\ full'
        /\ answers # <<>> /\ out' = Head(answers) /\ answers' = <<>>
    BY AnswersShape DEF Answer, IInv, TypeOK
  <1>2. ZeroStays' /\ PortStarted' /\ AnswersApart'
    BY <1>1 DEF FlagInv, ZeroStays, PortStarted, AnswersApart, init
  <1>3. ASSUME NEW k \in Shifts PROVE LastSays(k)' /\ BufferSays(k)' /\ FlagSays(k)'
    <2>1. LastSays(k)' /\ (Absent(k)' <=> Absent(k))
      BY <1>1 DEF FlagInv, Says, LastSays, Absent, Now, keyboard
    <2>2. BufferSays(k)'
      BY <1>1 DEF FlagInv, AnswersApart, BufferSays, init
    <2>3. FlagSays(k)'
      BY <1>1, <2>1 DEF FlagInv, Says, FlagSays, Flag, flags, keyboard
    <2> QED BY <2>1, <2>2, <2>3
  <1> QED BY <1>2, <1>3 DEF FlagInv, Says

(* The buffer takes over from the wire.                                     *)
LEMMA ReceiveFlags == ASSUME IInv, FlagInv, Receive PROVE FlagInv'
  <1>1. /\ UNCHANGED <<init, flags, config, answers, answer, down, lost>> /\ ~full /\ full'
        /\ out' = Head(wire) /\ wire' = Tail(wire) /\ wire \in Seq(Byte) /\ wire # <<>>
    BY DEF Receive, IInv, TypeOK
  <1>2. ZeroStays' /\ PortStarted' /\ AnswersApart'
    BY <1>1 DEF FlagInv, ZeroStays, PortStarted, AnswersApart, init
  <1> DEFINE n == Len(wire)
  <1>3. /\ n \in Nat \ {0} /\ Len(wire') = n - 1 /\ out' = wire[1]
        /\ \A i \in 1 .. n - 1 : wire'[i] = wire[i + 1]
    BY <1>1, EmptySeq, LenProperties, HeadTailProperties
  <1>4. ASSUME NEW k \in Shifts PROVE LastSays(k)' /\ BufferSays(k)' /\ FlagSays(k)'
    <2>1. Now(k)' = Now(k) /\ Flag(k)' = Flag(k)
      BY <1>1 DEF Now, Flag, flags
    <2>2. LastSays(k)'
      <3> SUFFICES ASSUME NEW i \in 1 .. Len(wire'), Of(k, wire'[i]),
                          \A m \in i + 1 .. Len(wire') : ~Of(k, wire'[m])
                   PROVE  wire'[i] = Now(k)'
        BY DEF LastSays
      <3>1. i + 1 \in 1 .. n /\ Of(k, wire[i + 1]) /\ wire'[i] = wire[i + 1]
        BY <1>3
      <3>2. ASSUME NEW m \in i + 2 .. n PROVE ~Of(k, wire[m])
        <4>1. m - 1 \in i + 1 .. Len(wire') /\ m - 1 \in 1 .. n - 1 /\ (m - 1) + 1 = m
          BY <1>3
        <4> QED BY <1>3, <4>1
      <3> QED BY <2>1, <3>1, <3>2 DEF FlagInv, Says, LastSays
    <2>3. ASSUME Absent(k)' PROVE \A m \in 2 .. n : ~Of(k, wire[m])
      <3> SUFFICES ASSUME NEW m \in 2 .. n PROVE ~Of(k, wire[m])
        OBVIOUS
      <3>1. m - 1 \in 1 .. Len(wire') /\ m - 1 \in 1 .. n - 1 /\ (m - 1) + 1 = m
        BY <1>3
      <3> QED BY <1>3, <2>3, <3>1 DEF Absent
    <2>4. BufferSays(k)'
      <3> SUFFICES ASSUME Absent(k)', Of(k, out)' PROVE out' = Now(k)'
        BY DEF BufferSays
      <3>1. 1 \in 1 .. n /\ Of(k, wire[1]) /\ \A m \in 1 + 1 .. n : ~Of(k, wire[m])
        BY <1>3, <2>3 DEF Of
      <3> QED BY <1>3, <2>1, <3>1 DEF FlagInv, Says, LastSays
    <2>5. FlagSays(k)'
      <3> SUFFICES ASSUME Absent(k)', ~Of(k, out)', k \notin lost
                   PROVE  Flag(k) = (k \in down)
        BY <1>1, <2>1 DEF FlagSays
      <3>1. Absent(k)
        <4> SUFFICES ASSUME NEW m \in 1 .. n PROVE ~Of(k, wire[m])
          BY DEF Absent
        <4>1. m = 1 \/ m \in 2 .. n
          BY <1>3
        <4> QED BY <1>3, <2>3, <4>1 DEF Of
      <3> QED BY <1>1, <3>1 DEF FlagInv, Says, FlagSays
    <2> QED BY <2>2, <2>4, <2>5
  <1> QED BY <1>2, <1>4 DEF FlagInv, Says

(* The handler moves what the byte says to the flag.                        *)
LEMMA HandlerFlags == ASSUME IInv, FlagInv, handle_ps2 PROVE FlagInv'
  <1>1. /\ UNCHANGED <<init, config, out, answers, answer, keyboard>> /\ full /\ ~full'
        /\ Irq1Bit \in config /\ lost' = lost \ ShiftOf(out)
    BY DEF handle_ps2, IInv, TypeOK
  <1>2. ZeroStays' /\ PortStarted' /\ AnswersApart'
    BY <1>1 DEF FlagInv, ZeroStays, PortStarted, AnswersApart, init
  <1>3. ASSUME NEW k \in Shifts PROVE LastSays(k)' /\ BufferSays(k)' /\ FlagSays(k)'
    <2>1. LastSays(k)' /\ (Absent(k)' <=> Absent(k))
      BY <1>1 DEF FlagInv, Says, LastSays, Absent, Now, keyboard
    <2>2. BufferSays(k)'
      BY <1>1 DEF BufferSays
    <2>3. /\ out = Make(k) => Flag(k)' = TRUE
          /\ out = Break(k) => Flag(k)' = FALSE
          /\ ~Of(k, out) => Flag(k)' = Flag(k)
      BY ShiftBytes, Zenon DEF handle_ps2, Decode, Flag, Shifts, Of
    <2>4. FlagSays(k)'
      <3> SUFFICES ASSUME Absent(k), k \notin lost' PROVE Flag(k)' = (k \in down)
        BY <1>1, <2>1 DEF FlagSays, keyboard
      <3>1. CASE Of(k, out)
        <4>1. out = Now(k)
          BY <1>1, <3>1 DEF FlagInv, Says, BufferSays
        <4>2. CASE k \in down
          BY <2>3, <4>1, <4>2 DEF Now
        <4>3. CASE k \notin down
          <5>1. (k \in down) = FALSE
            BY <4>3
          <5> QED BY <2>3, <4>1, <4>3, <5>1 DEF Now
        <4> QED BY <4>2, <4>3
      <3>2. CASE ~Of(k, out)
        <4>1. k \notin lost
          BY <1>1, <3>2, ShiftBytes
        <4> QED BY <2>3, <3>2, <4>1 DEF FlagInv, Says, FlagSays
      <3> QED BY <3>1, <3>2
    <2> QED BY <2>1, <2>2, <2>4
  <1> QED BY <1>2, <1>3 DEF FlagInv, Says

(* A step of init_ps2 that sends a command or a byte changes none of them.  *)
LEMMA SaysKept ==
  ASSUME Says, pc \notin Early, UNCHANGED <<flags, down, wire, out, full, lost>>
  PROVE  Says'
  <1> SUFFICES ASSUME NEW k \in Shifts PROVE LastSays(k)' /\ BufferSays(k)' /\ FlagSays(k)'
    BY DEF Says
  <1>1. (Absent(k)' <=> Absent(k)) /\ Now(k)' = Now(k) /\ Flag(k)' = Flag(k)
    BY DEF Absent, Now, Flag, flags
  <1> QED BY <1>1 DEF Says, LastSays, BufferSays, FlagSays

LEMMA SetClocksFlags == ASSUME IInv, FlagInv, SetClocks PROVE FlagInv'
  <1>1. /\ UNCHANGED <<flags, out, full, answers, answer, cb, keyboard, lost>>
        /\ pc \notin Asked /\ pc' \notin Asked
    BY DEF SetClocks, Clock, Command, At, Silent, Asked
  <1>2. Says'
    BY <1>1, SaysKept DEF FlagInv, keyboard, Early
  <1>3. ZeroStays'
    BY DEF SetClocks, Clock, Command, At, Silent, FlagInv, ZeroStays, ZeroBit, Off1Bit, Off2Bit
  <1>4. PortStarted'
    BY DEF SetClocks, Clock, Command, At, FlagInv, PortStarted, Started, Off1Bit, Off2Bit
  <1>5. AnswersApart'
    BY <1>1 DEF FlagInv, AnswersApart, Early
  <1> QED BY <1>2, <1>3, <1>4, <1>5 DEF FlagInv

(* What the controller answers cannot be taken for a shift key's byte.      *)
LEMMA AskFlags == ASSUME BytesApart, IInv, FlagInv, AskController PROVE FlagInv'
  <1>1. /\ UNCHANGED <<flags, out, full, config, cb, keyboard, lost>>
        /\ pc \notin Asked /\ pc # "done"
    BY DEF AskController, Ask, Command, At, Asked
  <1>2. Says'
    BY <1>1, SaysKept DEF FlagInv, keyboard, Early
  <1>3. ZeroStays' /\ PortStarted'
    BY <1>1 DEF AskController, Ask, Command, At, Say, FlagInv, ZeroStays, PortStarted, Started
  <1>4. AnswersApart'
    <2> SUFFICES ASSUME NEW k \in Shifts, Of(k, Head(answers'))
                 PROVE  pc' \in Early /\ Irq1Bit \notin config
      BY <1>1 DEF AnswersApart
    <2>1. PICK r \in Byte : answers' = <<r>> /\ AskController
      BY Bytes, ConfigAssumption DEF AskController, Ask, Say, IInv, TypeOK
    <2>2. Of(k, r)
      BY <2>1, OneByte
    <2>3. Irq1Bit \notin r /\ (ZeroBit \in r \/ Off1Bit \in r)
      BY <2>2, ShiftBytes
    <2>4. r = config \/ r = SelfTestPassed \/ r \in TestResults
      BY <2>1 DEF AskController, Ask, Say
    <2>5. r = config
      BY <2>2, <2>4, ShiftBytes DEF BytesApart
    <2>6. pc # "get_status"
      BY <1>1, <2>3, <2>5 DEF FlagInv, ZeroStays, PortStarted, Started
    <2>7. pc' \in Early
      BY <2>6 DEF AskController, Ask, Command, At, Early, Asked
    <2> QED BY <2>3, <2>5, <2>7
  <1> QED BY <1>2, <1>3, <1>4 DEF FlagInv

LEMMA AnnounceFlags == ASSUME IInv, FlagInv, AnnounceWrite PROVE FlagInv'
  <1>1. /\ UNCHANGED <<flags, out, full, answers, answer, config, cb, keyboard, lost>>
        /\ pc \notin Asked /\ pc' \notin Asked
        /\ \/ pc = "writeNew" /\ pc' = "newcb"
           \/ pc = "writeFinal" /\ pc' = "get_status"
    BY DEF AnnounceWrite, Command, At, Silent, Asked
  <1>2. Says'
    BY <1>1, SaysKept DEF FlagInv, keyboard, Early
  <1>3. ZeroStays' /\ PortStarted' /\ AnswersApart'
    BY <1>1 DEF FlagInv, ZeroStays, PortStarted, Started, AnswersApart, Early
  <1> QED BY <1>2, <1>3 DEF FlagInv

(* A read of init_ps2 takes the byte from the handler: the key is lost.     *)
LEMMA ReadsFlags == ASSUME IInv, FlagInv, Reads PROVE FlagInv'
  <1>1. /\ UNCHANGED <<config, out, answers, answer, flags, keyboard>> /\ ~full' /\ At(pc)
        /\ lost' = IF full THEN lost \cup ShiftOf(out) ELSE lost
    BY DEF Reads, ReadIgnored, ReadSelfTest, ReadDual, ReadTests, ReadStatus, Read, At
  <1>2. /\ pc \in Asked \cup {"flush"} /\ pc' \notin Asked /\ pc' # "done"
        /\ pc' \in Started => pc \in Started
        /\ pc' \in {"redisable2", "writeNew", "newcb"} => pc = "readDual" /\ cb' = out
    <2> USE DEF Read, At, Asked, Started
    <2>1. CASE ReadIgnored \/ ReadSelfTest \/ ReadTests
      BY <2>1 DEF ReadIgnored, ReadSelfTest, ReadTests
    <2>2. CASE ReadDual
      BY <2>2 DEF ReadDual
    <2>3. CASE ReadStatus
      BY <2>3 DEF ReadStatus
    <2> QED BY <2>1, <2>2, <2>3 DEF Reads
  <1>3. pc \in Early => answers = <<>> /\ out = answer
    BY <1>1, AtExchange DEF AnswersOnly, Early, Asked, Opening, Started
  <1>4. ZeroStays'
    <2>1. pc = "readDual" => out = answer
      BY <1>3 DEF Early, Asked
    <2> QED BY <1>1, <1>2, <2>1 DEF FlagInv, ZeroStays, Asked
  <1>5. PortStarted'
    BY <1>1, <1>2 DEF FlagInv, PortStarted, Asked
  <1>6. AnswersApart'
    <2>1. CASE pc \in Early \cup {"flush"}
      BY <1>1, <1>3, <2>1 DEF IInv, NothingAskedYet, Opening, AnswersApart
    <2>2. CASE pc \notin Early \cup {"flush"}
      BY <1>1, <2>2 DEF FlagInv, AnswersApart
    <2> QED BY <2>1, <2>2
  <1>7. ASSUME NEW k \in Shifts PROVE LastSays(k)' /\ BufferSays(k)' /\ FlagSays(k)'
    <2>1. (Absent(k)' <=> Absent(k)) /\ Now(k)' = Now(k) /\ Flag(k)' = Flag(k)
      BY <1>1 DEF Absent, Now, Flag, flags, keyboard
    <2>2. k \notin lost' => k \notin lost /\ ~(full /\ Of(k, out))
      BY <1>1, ShiftBytes
    <2>3. LastSays(k)' /\ BufferSays(k)'
      BY <1>1, <2>1 DEF FlagInv, Says, LastSays, BufferSays, keyboard
    <2>4. FlagSays(k)'
      BY <1>1, <2>1, <2>2 DEF FlagInv, Says, FlagSays, keyboard
    <2> QED BY <2>3, <2>4
  <1> QED BY <1>4, <1>5, <1>6, <1>7 DEF FlagInv, Says

LEMMA WriteConfigFlags == ASSUME IInv, FlagInv, WriteConfig PROVE FlagInv'
  <1>1. write
    BY DEF WriteConfig, WriteData, At, IInv, TypeOK
  <1>2. /\ UNCHANGED <<cb, out, full, answers, answer, flags, down, lost>>
        /\ \/ pc = "newcb" /\ pc' = "test1"
           \/ pc = "status" /\ pc' = "done"
    BY DEF WriteConfig, WriteData, At
  <1>3. wire' = wire
    BY <1>1, WriteDataEffect DEF WriteConfig
  <1>4. pc = "newcb" => config' = Toggle(cb, {Irq2Bit, Off2Bit})
    BY <1>1, WriteDataEffect DEF WriteConfig, WriteData, At
  <1>5. Says'
    BY <1>2, <1>3, SaysKept DEF FlagInv, Early, Asked
  <1>6. ZeroStays'
    BY <1>2, <1>4 DEF FlagInv, ZeroStays, Toggle, ZeroBit, Irq2Bit, Off2Bit
  <1>7. PortStarted' /\ AnswersApart'
    BY <1>2 DEF FlagInv, PortStarted, Started, AnswersApart, Early, Asked
  <1> QED BY <1>5, <1>6, <1>7 DEF FlagInv

LEMMA NextFlagInv == ASSUME BytesApart, IInv, FlagInv, [Next]_vars PROVE FlagInv'
  <1>1. CASE \E k \in Keys, up \in BOOLEAN : KeyEvent(k, up)
    BY <1>1, KeyEventFlags
  <1>2. CASE Device \/ handle_ps2
    BY <1>2, AnswerFlags, ReceiveFlags, HandlerFlags DEF Device
  <1>3. CASE init_ps2
    BY <1>3, SetClocksFlags, AskFlags, AnnounceFlags, ReadsFlags, WriteConfigFlags
       DEF init_ps2, Reads
  <1>4. CASE UNCHANGED vars
    <2>1. UNCHANGED <<init, flags, controller, keyboard, lost>>
      BY <1>4 DEF vars
    <2>2. ZeroStays' /\ PortStarted' /\ AnswersApart'
      BY <2>1 DEF FlagInv, ZeroStays, PortStarted, AnswersApart, init, controller
    <2>3. Says'
      BY <2>1 DEF FlagInv, Says, LastSays, BufferSays, FlagSays, Absent, Now, Flag, init, flags,
         controller, keyboard
    <2> QED BY <2>2, <2>3 DEF FlagInv
  <1> QED BY <1>1, <1>2, <1>3, <1>4 DEF Next

(* Whatever init_ps2 and the handler read from under each other, with       *)
(* nothing on its way a shift flag is wrong only if init_ps2 read the key's *)
(* last byte.                                                               *)
THEOREM FlagsFollowKeyboard == ASSUME BytesApart PROVE Spec => []FlagsMatchKeyboard
  <1>1. Init => IInv /\ FlagInv
    BY InitIInv, InitFlagInv
  <1>2. IInv /\ FlagInv /\ [Next]_vars => (IInv /\ FlagInv)'
    BY NextIInv, NextFlagInv
  <1>3. IInv /\ FlagInv => FlagsMatchKeyboard
    <2> SUFFICES ASSUME FlagInv, wire = <<>>, ~full
                 PROVE  /\ "lshift" \notin lost => is_lshift = ("lshift" \in down)
                        /\ "rshift" \notin lost => is_rshift = ("rshift" \in down)
      BY DEF FlagsMatchKeyboard
    <2>1. Len(wire) = 0
      BY EmptySeq
    <2>2. ASSUME NEW k \in Shifts, k \notin lost PROVE Flag(k) = (k \in down)
      BY <2>1, <2>2 DEF FlagInv, Says, FlagSays, Absent
    <2> QED BY <2>2 DEF Flag, Shifts
  <1> QED BY <1>1, <1>2, <1>3, PTL DEF Spec
=============================================================================
