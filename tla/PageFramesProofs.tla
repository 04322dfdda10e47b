--------------------------- MODULE PageFramesProofs ---------------------------
(***************************************************************************)
(* Theorems about PageFrames, for every number of frames, every width of   *)
(* the counters, every kernel size and every set of memory maps that the   *)
(* assumptions of PageFrames allow.                                        *)
(***************************************************************************)
EXTENDS PageFrames, TLAPS

USE DEF NULL

(* Frame arithmetic: a frame's address is a natural number and dividing it  *)
(* by the page size gives the frame back.                                   *)
LEMMA FrameAddress ==
  ASSUME NEW f \in Nat
  PROVE  f * PageSize \in Nat /\ (f * PageSize) \div PageSize = f
  BY PageSizeAssumption

LEMMA FrameOfAddress == ASSUME NEW a \in Nat PROVE a \div PageSize \in Nat
  BY PageSizeAssumption

LEMMA Wrapped == ASSUME NEW i \in Nat PROVE i % Wrap16 \in 0 .. Wrap16 - 1
  <1>1. Wrap16 \in Nat \ {0}
    BY Wrap16Assumption, EndKernelAssumption, FrameOfAddress
  <1> QED BY <1>1

(* Only frame 0 has the address that doubles as NULL.                       *)
LEMMA FrameZeroIsNull == ASSUME NEW f \in Nat PROVE f * PageSize = NULL <=> f = 0
  BY PageSizeAssumption

LEMMA KernelFramesAreFrames == KernelFrames \subseteq Frames /\ 0 \in KernelFrames
  BY Wrap16Assumption, EndKernelAssumption, FrameOfAddress DEF KernelFrames, Frames

(* What reserve_addr does to the frame that get_free_phy_page found.        *)
LEMMA ReserveFound ==
  ASSUME TypeOK, ReserveAddr,
         NEW f \in Frames, phy = f * PageSize
  PROVE  /\ IsFree(f)
         /\ global_page_map' = [global_page_map EXCEPT ![f] = TRUE]
         /\ held' = held \cup {f}
  <1>1. phy \div PageSize = f
    BY FrameAddress DEF Frames
  <1> QED BY <1>1 DEF ReserveAddr

-----------------------------------------------------------------------------
(* The inductive invariant.  None of the properties below is inductive by   *)
(* itself: that the frame found is fresh needs that held frames stay        *)
(* reserved and that the look-up result is still what a search would find;  *)
(* that NULL means full needs frame 0 reserved.                             *)
KernelReserved == pc # "kernel" => \A f \in KernelFrames : ~IsFree(f)
SetupHoldsNothing == ~SetupDone => held = {} /\ ~cwpage
HeldReserved == \A f \in held : ~IsFree(f) /\ f \notin KernelFrames
FoundStillFirst == pc = "got" => FreePhyPage(phy)
KallocAsksOnce == pc = "got" /\ caller = "kalloc" => ~cwpage
HighFramesFree == ~cwpage => \A f \in Wrap16 .. NFrames - 1 : IsFree(f)

IInv ==
  /\ TypeOK
  /\ KernelReserved
  /\ SetupHoldsNothing
  /\ HeldReserved
  /\ FoundStillFirst
  /\ KallocAsksOnce
  /\ HighFramesFree
  /\ NoHoleBelowHeld

LEMMA InitIInv == Init => IInv
  <1> SUFFICES ASSUME Init PROVE IInv
    OBVIOUS
  <1>1. TypeOK
    <2>1. 0 \in Frames /\ phy = 0 * PageSize
      BY PageSizeAssumption, KernelFramesAreFrames DEF Init
    <2>2. o \in 0 .. Wrap16 - 1
      BY Wrap16Assumption, EndKernelAssumption, FrameOfAddress DEF Init
    <2> QED BY <2>1, <2>2, MemoryMapsAssumption DEF Init, TypeOK
  <1>2. \A f \in Wrap16 .. NFrames - 1 : IsFree(f)
    BY Wrap16Assumption DEF Init, IsFree, Frames
  <1> QED
    BY <1>1, <1>2 DEF Init, IInv, KernelReserved, SetupHoldsNothing, SetupDone,
      HeldReserved, FoundStillFirst, KallocAsksOnce, HighFramesFree, NoHoleBelowHeld

(* The set-up steps other than the two that write the map.                  *)
LEMMA WalkIInv == IInv /\ (SkipRegion \/ EnterRegion \/ EndRegion \/ EndSetup) => IInv'
  <1> SUFFICES ASSUME IInv, SkipRegion \/ EnterRegion \/ EndRegion \/ EndSetup
               PROVE  IInv'
    OBVIOUS
  <1> USE DEF IInv
  <1>1. TypeOK'
    <2>1. ASSUME EnterRegion PROVE FirstFrame(mmap[entry]) \in 0 .. Wrap16 - 1
      <3>1. mmap[entry] \in Regions
        BY <2>1 DEF EnterRegion, TypeOK
      <3> QED BY <3>1, FrameOfAddress, Wrapped DEF FirstFrame, Regions
    <2> QED BY <2>1 DEF SkipRegion, EnterRegion, EndRegion, EndSetup, TypeOK, clients
  <1>2. /\ UNCHANGED <<global_page_map, held, cwpage, phy, caller>>
        /\ pc # "kernel" /\ ~SetupDone /\ pc' # "got" /\ pc' # "kernel"
    BY DEF SkipRegion, EnterRegion, EndRegion, EndSetup, clients, SetupDone
  <1> QED
    BY <1>1, <1>2 DEF KernelReserved, SetupHoldsNothing, SetupDone, HeldReserved, IsFree,
      FoundStillFirst, KallocAsksOnce, HighFramesFree, NoHoleBelowHeld

LEMMA ReserveKernelIInv == IInv /\ ReserveKernel => IInv'
  <1> SUFFICES ASSUME IInv, ReserveKernel PROVE IInv'
    OBVIOUS
  <1> USE DEF IInv
  <1>1. TypeOK'
    BY DEF ReserveKernel, TypeOK, clients
  <1>2. KernelReserved'
    BY KernelFramesAreFrames DEF ReserveKernel, KernelReserved, IsFree
  <1>3. held' = {} /\ cwpage' = FALSE /\ pc' = "next"
    BY DEF ReserveKernel, SetupHoldsNothing, SetupDone, clients, TypeOK
  <1>4. HighFramesFree'
    <2> SUFFICES ASSUME NEW f \in Wrap16 .. NFrames - 1
                 PROVE  ~global_page_map'[f]
      BY DEF HighFramesFree, IsFree
    <2>1. f \in Frames /\ f \notin KernelFrames
      BY Wrap16Assumption, EndKernelAssumption, FrameOfAddress DEF Frames, KernelFrames
    <2>2. ~global_page_map[f]
      BY <2>1 DEF ReserveKernel, SetupHoldsNothing, SetupDone, HighFramesFree, IsFree
    <2> QED BY <2>1, <2>2 DEF ReserveKernel
  <1> QED
    BY <1>1, <1>2, <1>3, <1>4 DEF SetupHoldsNothing, SetupDone, HeldReserved,
      FoundStillFirst, KallocAsksOnce, NoHoleBelowHeld

LEMMA ReserveRegionFrameIInv == IInv /\ ReserveRegionFrame => IInv'
  <1> SUFFICES ASSUME IInv, ReserveRegionFrame PROVE IInv'
    OBVIOUS
  <1> USE DEF IInv
  <1>1. o \in Frames /\ o \in Nat /\ o < Wrap16
    BY Wrap16Assumption DEF TypeOK, Frames
  <1>2. TypeOK'
    <2>1. (o + 1) % Wrap16 \in 0 .. Wrap16 - 1
      BY <1>1, Wrapped
    <2> QED BY <2>1 DEF ReserveRegionFrame, TypeOK, clients
  <1>3. \A f \in Frames : ~IsFree(f) => ~IsFree(f)'
    BY <1>1 DEF ReserveRegionFrame, IsFree, TypeOK
  <1>4. held' = {} /\ cwpage' = cwpage /\ pc' = "inner" /\ pc = "inner"
    BY DEF ReserveRegionFrame, SetupHoldsNothing, SetupDone, clients
  <1>5. KernelReserved'
    BY <1>3, <1>4, KernelFramesAreFrames DEF KernelReserved
  <1>6. HighFramesFree'
    BY <1>1, <1>4, Wrap16Assumption DEF ReserveRegionFrame, HighFramesFree, IsFree, TypeOK, Frames
  <1> QED
    BY <1>2, <1>4, <1>5, <1>6 DEF SetupHoldsNothing, SetupDone, HeldReserved,
      FoundStillFirst, KallocAsksOnce, NoHoleBelowHeld

LEMMA GetFreePhyPageIInv ==
  ASSUME IInv, NEW c \in {"kalloc", "kappend_page"}, GetFreePhyPage(c)
  PROVE  IInv'
  <1> USE DEF IInv
  <1>1. TypeOK'
    BY DEF GetFreePhyPage, TypeOK
  <1>2. FoundStillFirst'
    BY DEF GetFreePhyPage, FoundStillFirst, FreePhyPage, IsFree
  <1>3. KallocAsksOnce'
    BY DEF GetFreePhyPage, KallocAsksOnce
  <1>4. UNCHANGED <<global_page_map, held, cwpage>> /\ pc = "ready" /\ pc' = "got"
    BY DEF GetFreePhyPage
  <1> QED
    BY <1>1, <1>2, <1>3, <1>4 DEF KernelReserved, SetupHoldsNothing, SetupDone, HeldReserved,
      HighFramesFree, NoHoleBelowHeld, IsFree

(* A caller's second step, when the frame was found and is reserved.        *)
LEMMA ReservedIInv ==
  ASSUME IInv, pc = "got", ReserveAddr, cwpage' = TRUE, pc' = "ready",
         UNCHANGED <<mmap, entry, o, phy, caller>>
  PROVE  IInv'
  <1> USE DEF IInv
  <1>1. PICK f \in Frames : phy = f * PageSize
    BY DEF TypeOK
  <1>2. /\ IsFree(f)
        /\ global_page_map' = [global_page_map EXCEPT ![f] = TRUE]
        /\ held' = held \cup {f}
    BY <1>1, ReserveFound
  <1>3. f \notin KernelFrames
    BY <1>2 DEF KernelReserved
  <1>4. \A g \in 0 .. f - 1 : ~IsFree(g)
    <2>1. f # 0
      BY <1>3, KernelFramesAreFrames
    <2>2. phy # NULL
      BY <1>1, <2>1, FrameZeroIsNull DEF Frames
    <2>3. PICK h \in Frames : phy = h * PageSize /\ \A g \in 0 .. h - 1 : ~IsFree(g)
      BY <2>2 DEF FoundStillFirst, FreePhyPage
    <2>4. h = f
      BY <1>1, <2>3, FrameAddress DEF Frames
    <2> QED BY <2>3, <2>4
  <1>5. \A g \in Frames : ~IsFree(g) => ~IsFree(g)'
    BY <1>2 DEF IsFree, TypeOK
  <1>6. ~IsFree(f)'
    BY <1>2 DEF IsFree, TypeOK
  <1>7. TypeOK'
    BY <1>2 DEF TypeOK
  <1>8. HeldReserved'
    BY <1>2, <1>3, <1>5, <1>6 DEF HeldReserved, TypeOK
  <1>9. NoHoleBelowHeld'
    <2> SUFFICES ASSUME NEW x \in held', NEW g \in 0 .. x PROVE ~IsFree(g)'
      BY DEF NoHoleBelowHeld
    <2>1. x \in Frames /\ g \in Frames
      BY <1>7, Wrap16Assumption DEF TypeOK, Frames
    <2>2. CASE x = f
      BY <2>1, <2>2, <1>4, <1>5, <1>6 DEF Frames
    <2>3. CASE x # f
      BY <2>1, <2>3, <1>2, <1>5 DEF NoHoleBelowHeld
    <2> QED BY <2>2, <2>3
  <1>10. KernelReserved'
    BY <1>5, KernelFramesAreFrames DEF KernelReserved
  <1> QED
    BY <1>7, <1>8, <1>9, <1>10 DEF SetupHoldsNothing, SetupDone, FoundStillFirst,
      KallocAsksOnce, HighFramesFree

(* The same step when nothing is reserved.                                  *)
LEMMA NotReservedIInv ==
  ASSUME IInv, pc = "got", pc' = "ready", cwpage' = cwpage \/ cwpage' = TRUE,
         UNCHANGED <<mmap, global_page_map, held, entry, o, phy, caller>>
  PROVE  IInv'
  <1> USE DEF IInv
  <1>1. TypeOK'
    BY DEF TypeOK
  <1> QED
    BY <1>1 DEF KernelReserved, SetupHoldsNothing, SetupDone, HeldReserved, FoundStillFirst,
      KallocAsksOnce, HighFramesFree, NoHoleBelowHeld, IsFree

LEMMA NextIInv == IInv /\ [Next]_vars => IInv'
  <1> SUFFICES ASSUME IInv, [Next]_vars PROVE IInv'
    OBVIOUS
  <1>1. CASE SetupStep
    BY <1>1, WalkIInv, ReserveKernelIInv, ReserveRegionFrameIInv DEF SetupStep
  <1>2. CASE \E c \in {"kalloc", "kappend_page"} : GetFreePhyPage(c)
    BY <1>2, GetFreePhyPageIInv
  <1>3. CASE KallocReserve
    BY <1>3, ReservedIInv, NotReservedIInv DEF KallocReserve
  <1>4. CASE KappendReserve
    BY <1>4, ReservedIInv, NotReservedIInv DEF KappendReserve
  <1>5. CASE UNCHANGED vars
    BY <1>5 DEF vars, IInv, TypeOK, KernelReserved, SetupHoldsNothing, SetupDone, HeldReserved,
      FoundStillFirst, FreePhyPage, KallocAsksOnce, HighFramesFree, NoHoleBelowHeld, IsFree
  <1> QED BY <1>1, <1>2, <1>3, <1>4, <1>5 DEF Next

LEMMA Invariance == Spec => []IInv
  BY InitIInv, NextIInv, PTL DEF Spec

-----------------------------------------------------------------------------
(* The state of the allocator is well-formed: in particular both set-up     *)
(* counters index inside the map whatever the memory map says.              *)
THEOREM TypeCorrect == Spec => []TypeOK
  <1>1. IInv => TypeOK
    BY DEF IInv
  <1> QED BY <1>1, Invariance, PTL

(* For every memory map, no frame below the kernel's end is handed out.     *)
THEOREM KernelFramesSafe == Spec => []KernelNeverTaken
  <1>1. IInv => KernelNeverTaken
    BY DEF IInv, HeldReserved, KernelNeverTaken
  <1> QED BY <1>1, Invariance, PTL

(* No frame is handed out twice.                                            *)
THEOREM GrantsAreFresh == Spec => []GrantIsFresh
  <1>1. ASSUME IInv, pc = "got", phy # NULL
        PROVE  IsFree(phy \div PageSize) /\ phy \div PageSize \notin held
    <2>1. PICK f \in Frames : phy = f * PageSize /\ IsFree(f)
      BY <1>1 DEF IInv, FoundStillFirst, FreePhyPage
    <2>2. phy \div PageSize = f
      BY <2>1, FrameAddress DEF Frames
    <2> QED BY <1>1, <2>1, <2>2 DEF IInv, HeldReserved
  <1>2. IInv => GrantIsFresh
    BY <1>1 DEF GrantIsFresh
  <1> QED BY <1>2, Invariance, PTL

(* get_free_phy_page answers NULL only when every frame is reserved.        *)
THEOREM NullIsExhaustion == Spec => []NullMeansFull
  <1>1. ASSUME IInv, pc = "got", phy = NULL PROVE \A f \in Frames : ~IsFree(f)
    <2>1. ~IsFree(0)
      BY <1>1, KernelFramesAreFrames DEF IInv, KernelReserved
    <2>2. ASSUME NEW f \in Frames, phy = f * PageSize PROVE f = 0
      BY <1>1, <2>2, FrameZeroIsNull DEF Frames
    <2> QED BY <1>1, <2>1, <2>2 DEF IInv, FoundStillFirst, FreePhyPage
  <1>2. IInv => NullMeansFull
    BY <1>1 DEF NullMeansFull
  <1> QED BY <1>2, Invariance, PTL

(* The set-up's 16-bit counters cannot exhaust the map, so kalloc's first   *)
(* look-up succeeds.                                                        *)
THEOREM KallocFindsFrame == Spec => []KallocNeverRefused
  <1>1. ASSUME IInv, pc = "got", caller = "kalloc" PROVE phy # NULL
    <2>1. ~cwpage
      BY <1>1 DEF IInv, KallocAsksOnce
    <2>2. Wrap16 \in Frames /\ IsFree(Wrap16)
      BY <1>1, <2>1, Wrap16Assumption DEF IInv, HighFramesFree, Frames
    <2>3. SUFFICES ASSUME phy = NULL PROVE FALSE
      OBVIOUS
    <2>4. PICK f \in Frames : phy = f * PageSize /\ IsFree(f)
      BY <1>1, <2>2 DEF IInv, FoundStillFirst, FreePhyPage
    <2>5. f = 0
      BY <2>3, <2>4, FrameZeroIsNull DEF Frames
    <2> QED BY <1>1, <2>4, <2>5, KernelFramesAreFrames DEF IInv, KernelReserved
  <1>2. IInv => KallocNeverRefused
    BY <1>1 DEF KallocNeverRefused
  <1> QED BY <1>2, Invariance, PTL

(* What the region loop has withheld so far, and that its counter has not   *)
(* left the region downwards.                                               *)
WithheldInv ==
  /\ AvailableNotWithheld
  /\ CountersFit /\ pc = "inner" =>
       entry \in 1 .. Len(mmap) /\ ~mmap[entry].available
         /\ mmap[entry].addr \div PageSize <= o

(* From a region's first frame to the bound in mixed units, frames hold     *)
(* bytes of the region.                                                     *)
LEMMA BoundInsideRegion ==
  ASSUME NEW r \in Regions, NEW f \in Nat, r.addr \div PageSize <= f, f < StopFrame(r)
  PROVE  Overlaps(f, r)
  <1> DEFINE a == r.addr  l == r.len  q == r.addr \div PageSize
  <1>1. a \in Nat /\ l \in Nat BY DEF Regions
  <1> HIDE DEF a, l
  <1>2. PICK p \in Nat : p = PageSize /\ p > 0 BY PageSizeAssumption
  <1>3. q \in Nat /\ q <= a /\ a < (q + 1) * p BY <1>1, <1>2 DEF a
  <1>4. (q + 1) * p <= (f + 1) * p BY <1>2, <1>3
  <1>5. PICK s \in Nat : s = StopFrame(r) /\ s * p <= l + q
    <2>1. l + q \in Nat BY <1>1, <1>3
    <2>2. (l + q) \div p \in Nat /\ ((l + q) \div p) * p <= l + q BY <1>2, <2>1
    <2> QED BY <1>2, <2>2 DEF StopFrame, l, a
  <1>6. f * p < s * p
    <2>1. f + 1 <= s BY <1>5
    <2>2. (f + 1) * p <= s * p BY <1>2, <1>5, <2>1
    <2> QED BY <1>2, <2>2
  <1> QED BY <1>1, <1>2, <1>3, <1>4, <1>5, <1>6 DEF Overlaps, a, l

LEMMA WithheldStep == IInv /\ WithheldInv /\ [Next]_vars => WithheldInv'
  <1> SUFFICES ASSUME IInv, WithheldInv, [Next]_vars, CountersFit' PROVE WithheldInv'
    BY DEF WithheldInv, AvailableNotWithheld
  <1>0. mmap' = mmap /\ CountersFit
    BY DEF Next, SetupStep, ReserveKernel, SkipRegion, EnterRegion, EndSetup,
       ReserveRegionFrame, EndRegion, GetFreePhyPage, KallocReserve, KappendReserve, vars,
       CountersFit
  <1> DEFINE Region(f) == \E i \in 1 .. Len(mmap) : ~mmap[i].available /\ Overlaps(f, mmap[i])
             Explained(f) == f \in KernelFrames \cup held \/ Region(f)
  <1>1. \A f \in Frames : ~IsFree(f) => Explained(f)
    BY <1>0 DEF WithheldInv, AvailableNotWithheld
  <1>2. SUFFICES /\ \A f \in Frames : ~IsFree(f)' => f \in KernelFrames \cup held' \/ Region(f)
                 /\ pc' = "inner" => entry' \in 1 .. Len(mmap) /\ ~mmap[entry'].available
                                       /\ mmap[entry'].addr \div PageSize <= o'
    BY <1>0 DEF WithheldInv, AvailableNotWithheld, Overlaps
  <1> HIDE DEF Region
  <1>3. CASE ReserveKernel BY <1>1, <1>3 DEF ReserveKernel, IsFree, clients
  <1>4. CASE SkipRegion \/ EndSetup \/ EndRegion
    BY <1>1, <1>4 DEF SkipRegion, EndSetup, EndRegion, IsFree, clients, IInv, TypeOK
  <1>5. CASE EnterRegion
    <2>1. entry \in 1 .. Len(mmap) /\ ~mmap[entry].available
      BY <1>5 DEF EnterRegion, IInv, TypeOK
    <2>2. mmap[entry] \in Regions BY <2>1 DEF IInv, TypeOK
    <2>3. mmap[entry].addr \div PageSize \in 0 .. Wrap16 - 1
      <3>1. mmap[entry].addr \in Nat BY <2>2 DEF Regions
      <3>2. mmap[entry].addr \div PageSize \in Nat BY <3>1, FrameOfAddress
      <3>3. mmap[entry].addr \div PageSize < Wrap16 BY <1>0, <2>1 DEF CountersFit
      <3> QED BY <3>2, <3>3, Wrap16Assumption
    <2>4. FirstFrame(mmap[entry]) = mmap[entry].addr \div PageSize
      BY <2>3, Wrap16Assumption DEF FirstFrame
    <2> QED BY <1>1, <1>5, <2>1, <2>3, <2>4 DEF EnterRegion, IsFree, clients
  <1>6. CASE ReserveRegionFrame
    <2>1. /\ pc = "inner" /\ entry \in 1 .. Len(mmap) /\ ~mmap[entry].available
          /\ mmap[entry].addr \div PageSize <= o /\ o < StopFrame(mmap[entry])
      BY <1>0, <1>6 DEF ReserveRegionFrame, InRegion, WithheldInv
    <2>2. mmap[entry] \in Regions /\ o \in Nat /\ mmap[entry].addr \div PageSize \in Nat
      <3>1. mmap[entry] \in Regions /\ o \in Nat BY <2>1, Wrap16Assumption DEF IInv, TypeOK
      <3>2. mmap[entry].addr \in Nat BY <3>1 DEF Regions
      <3> QED BY <3>1, <3>2, FrameOfAddress
    <2>3. Region(o) BY <2>1, <2>2, BoundInsideRegion DEF Region
    <2>4. o + 1 \in 0 .. Wrap16 - 1
      <3>1. StopFrame(mmap[entry]) < Wrap16 BY <1>0, <2>1 DEF CountersFit
      <3>2. StopFrame(mmap[entry]) \in Nat
        <4>1. mmap[entry].len + mmap[entry].addr \div PageSize \in Nat BY <2>2 DEF Regions
        <4> QED BY <4>1, FrameOfAddress DEF StopFrame
      <3> QED BY <2>1, <2>2, <3>1, <3>2, Wrap16Assumption
    <2>5. o' = o + 1 BY <1>6, <2>4, Wrap16Assumption DEF ReserveRegionFrame
    <2>6. \A f \in Frames : ~IsFree(f)' => f = o \/ ~IsFree(f)
      BY <1>6 DEF ReserveRegionFrame, IsFree, IInv, TypeOK
    <2> QED BY <1>1, <1>6, <2>1, <2>2, <2>3, <2>5, <2>6 DEF ReserveRegionFrame, clients
  <1>7. CASE \E c \in {"kalloc", "kappend_page"} : GetFreePhyPage(c)
    BY <1>1, <1>7 DEF GetFreePhyPage, IsFree
  <1>8. CASE KallocReserve \/ KappendReserve
    <2>1. PICK f \in Frames : phy = f * PageSize BY DEF IInv, TypeOK
    <2>2. pc' = "ready" BY <1>8 DEF KallocReserve, KappendReserve
    <2>3. CASE ReserveAddr
      <3>1. global_page_map' = [global_page_map EXCEPT ![f] = TRUE] /\ held' = held \cup {f}
        BY <2>1, <2>3, ReserveFound DEF IInv
      <3> QED BY <1>1, <2>2, <3>1 DEF IsFree, IInv, TypeOK
    <2>4. CASE UNCHANGED <<global_page_map, held>> BY <1>1, <2>2, <2>4 DEF IsFree
    <2> QED BY <1>8, <2>3, <2>4 DEF KallocReserve, KappendReserve
  <1>9. CASE UNCHANGED vars
    BY <1>0, <1>1, <1>9 DEF vars, IsFree, WithheldInv
  <1> QED BY <1>3, <1>4, <1>5, <1>6, <1>7, <1>8, <1>9 DEF Next, SetupStep

(* Where the 16-bit counter fits, no available frame is withheld by the     *)
(* region loop (pageframe.c:67).                                            *)
THEOREM AvailableStaysFree == Spec => []AvailableNotWithheld
  <1>1. Init => WithheldInv
    BY DEF Init, WithheldInv, AvailableNotWithheld, IsFree
  <1>2. WithheldInv => AvailableNotWithheld BY DEF WithheldInv
  <1> QED BY <1>1, <1>2, WithheldStep, Invariance, PTL DEF Spec

(* What is handed out was the lowest free frame.                            *)
THEOREM FirstFit == Spec => []NoHoleBelowHeld
  <1>1. IInv => NoHoleBelowHeld
    BY DEF IInv
  <1> QED BY <1>1, Invariance, PTL

(* No step frees a frame.                                                   *)
LEMMA StepKeepsReservations ==
  IInv /\ [Next]_vars => [\A f \in Frames : ~IsFree(f) => ~IsFree(f)']_vars
  <1> SUFFICES ASSUME IInv, Next, NEW f \in Frames, ~IsFree(f) PROVE ~IsFree(f)'
    BY DEF vars, IsFree
  <1> USE DEF IInv, TypeOK, IsFree
  <1>1. CASE SetupStep
    BY <1>1 DEF SetupStep, ReserveKernel, SkipRegion, EnterRegion, EndSetup, ReserveRegionFrame, EndRegion
  <1>2. CASE \E c \in {"kalloc", "kappend_page"} : GetFreePhyPage(c)
    BY <1>2 DEF GetFreePhyPage
  <1>3. CASE KallocReserve
    BY <1>3 DEF KallocReserve, ReserveAddr
  <1>4. CASE KappendReserve
    BY <1>4 DEF KappendReserve, ReserveAddr
  <1> QED BY <1>1, <1>2, <1>3, <1>4 DEF Next

THEOREM ReservationsLast == Spec => ReservationsPermanent
  BY Invariance, StepKeepsReservations, PTL DEF Spec, ReservationsPermanent

-----------------------------------------------------------------------------
(* The refinement: the set-up's steps withdraw frames or open the pool, a   *)
(* look-up changes nothing, and a reservation is a grant.                   *)
LEMMA InitRefines == Init => Pool!Init
  BY DEF Init, Pool!Init, SetupDone, IsFree

LEMMA GrantRefines ==
  ASSUME IInv, pc = "got", pc' = "ready", ReserveAddr
  PROVE  Pool!Next
  <1>1. PICK f \in Frames : phy = f * PageSize
    BY DEF IInv, TypeOK
  <1>2. /\ IsFree(f)
        /\ global_page_map' = [global_page_map EXCEPT ![f] = TRUE]
        /\ held' = held \cup {f}
    BY <1>1, ReserveFound DEF IInv
  <1>3. {g \in Frames : IsFree(g)}' = {g \in Frames : IsFree(g)} \ {f}
    BY <1>2 DEF IsFree, IInv, TypeOK
  <1>4. Pool!Grant(f)
    BY <1>2, <1>3 DEF Pool!Grant, SetupDone
  <1> QED BY <1>4 DEF Pool!Next

LEMMA NextRefines == IInv /\ IInv' /\ [Next]_vars => [Pool!Next]_(Pool!vars)
  <1> SUFFICES ASSUME IInv, IInv', [Next]_vars PROVE Pool!Next \/ UNCHANGED Pool!vars
    OBVIOUS
  <1>1. CASE ReserveKernel \/ ReserveRegionFrame
    <2>1. ~SetupDone /\ UNCHANGED <<SetupDone, held>>
      BY <1>1 DEF ReserveKernel, ReserveRegionFrame, SetupDone, clients
    <2>2. {f \in Frames : IsFree(f)}' \subseteq {f \in Frames : IsFree(f)}
      BY <1>1 DEF ReserveKernel, ReserveRegionFrame, IsFree, IInv, TypeOK
    <2> QED BY <2>1, <2>2 DEF Pool!Next, Pool!Withdraw
  <1>2. CASE SkipRegion \/ EnterRegion \/ EndRegion
    BY <1>2 DEF SkipRegion, EnterRegion, EndRegion, SetupDone, IsFree, Pool!vars, clients
  <1>3. CASE EndSetup
    BY <1>3 DEF EndSetup, SetupDone, IsFree, clients, Pool!Next, Pool!Open
  <1>4. CASE \E c \in {"kalloc", "kappend_page"} : GetFreePhyPage(c)
    BY <1>4 DEF GetFreePhyPage, SetupDone, IsFree, Pool!vars
  <1>5. CASE KallocReserve \/ KappendReserve
    <2>1. CASE ReserveAddr
      BY <1>5, <2>1, GrantRefines DEF KallocReserve, KappendReserve
    <2>2. CASE UNCHANGED <<global_page_map, held>>
      BY <1>5, <2>2 DEF KallocReserve, KappendReserve, SetupDone, IsFree, Pool!vars
    <2> QED BY <1>5, <2>1, <2>2 DEF KallocReserve, KappendReserve
  <1>6. CASE UNCHANGED vars
    BY <1>6 DEF vars, SetupDone, IsFree, Pool!vars
  <1> QED BY <1>1, <1>2, <1>3, <1>4, <1>5, <1>6 DEF Next, SetupStep

(* The allocator implements the pool of frames.                             *)
THEOREM PageFramesImplementFramePool == Spec => ImplementsFramePool
  BY InitRefines, NextRefines, Invariance, PTL DEF Spec, ImplementsFramePool, Pool!Spec
=============================================================================
