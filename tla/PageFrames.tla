------------------------------ MODULE PageFrames ------------------------------
(***************************************************************************)
(* The physical page frame allocator of mem/pageframe/pageframe.c with its  *)
(* two callers in mem/alloc/alloc.c.  One BOOLEAN per frame says whether it *)
(* is reserved; the set-up walks the memory map the boot loader left, and   *)
(* the callers then look a free frame up and reserve it in two calls.       *)
(* No interrupt handler reaches this code, so it has a single thread.       *)
(***************************************************************************)
EXTENDS Integers, Sequences

CONSTANTS
  NFrames,      \* PAGE_MMAP_SIZE, the length of global_page_map
  PageSize,     \* PAGE_SIZE, bytes in a frame
  Wrap16,       \* the values of uint16_t, the type of both set-up counters
  EndKernel,    \* &endkernel, the address the linker gives the image's end
  MemoryMaps    \* the memory maps a boot loader may pass in mbd

Regions == [available : BOOLEAN, addr : Nat, len : Nat]

ASSUME PageSizeAssumption == PageSize \in Nat \ {0}
ASSUME Wrap16Assumption == Wrap16 \in Nat /\ NFrames \in Nat /\ Wrap16 < NFrames
ASSUME EndKernelAssumption == EndKernel \in Nat /\ EndKernel \div PageSize + 1 < Wrap16
ASSUME MemoryMapsAssumption == MemoryMaps \subseteq Seq(Regions)

VARIABLES
  mmap,             \* the boot loader's memory map, mbd->mmap_addr
  global_page_map,  \* TRUE is PAGEFRAME_RESERVED, FALSE is PAGEFRAME_FREE
  pc,               \* where the thread is
  entry,            \* the region the set-up loop is at
  o,                \* its inner counter, a uint16_t
  phy,              \* what get_free_phy_page returned, 0 being NULL
  caller,           \* the function that asked for it
  cwpage,           \* FALSE while cwpage is still CWPAGE_DEFAULT
  held              \* history: frames handed to a caller that reserved them

vars == <<mmap, global_page_map, pc, entry, o, phy, caller, cwpage, held>>

Frames == 0 .. NFrames - 1
NULL == 0
KernelFrames == 0 .. EndKernel \div PageSize

IsFree(f) == ~global_page_map[f]

(* Mutant: the sum in bytes, rounded up also where a region ends at a       *)
(* frame's end.                                                             *)
StopFrameRounded(r) == (r.addr + r.len) \div PageSize + 1

(* The bounds of the inner loop over a region.  The first is truncated to   *)
(* the uint16_t counter; the second divides the sum of a length in bytes    *)
(* and an index in frames.                                                  *)
FirstFrame(r) == (r.addr \div PageSize) % Wrap16
StopFrame(r) == (r.len + r.addr \div PageSize) \div PageSize

TypeOK ==
  /\ mmap \in Seq(Regions)
  /\ global_page_map \in [Frames -> BOOLEAN]
  /\ pc \in {"kernel", "next", "inner", "ready", "got"}
  /\ entry \in Nat \ {0}
  /\ o \in 0 .. Wrap16 - 1
  /\ \E f \in Frames : phy = f * PageSize
  /\ caller \in {"kalloc", "kappend_page"}
  /\ cwpage \in BOOLEAN
  /\ held \subseteq Frames

Init ==
  /\ mmap \in MemoryMaps
  /\ global_page_map = [f \in Frames |-> FALSE]
  /\ pc = "kernel"
  /\ entry = 1
  /\ o = 0
  /\ phy = NULL
  /\ caller = "kalloc"
  /\ cwpage = FALSE
  /\ held = {}

clients == <<phy, caller, cwpage, held>>

(* Mutant: the loop stops one frame early (the "+ 1" of its bound is lost). *)
ReserveKernelShort ==
  /\ pc = "kernel"
  /\ global_page_map' = [f \in Frames |-> f \in KernelFrames \ {EndKernel \div PageSize}]
  /\ pc' = "next"
  /\ UNCHANGED <<mmap, entry, o, clients>>

(* Mutant: the loop starts at startkernel instead of 0.                     *)
ReserveKernelOnly ==
  /\ pc = "kernel"
  /\ global_page_map' = [f \in Frames |-> f \in KernelFrames \ {0}]
  /\ pc' = "next"
  /\ UNCHANGED <<mmap, entry, o, clients>>

(* setup_pageframe_allocator: the BIOS area and the kernel image.           *)
ReserveKernel ==
  /\ pc = "kernel"
  /\ global_page_map' = [f \in Frames |-> f \in KernelFrames \/ global_page_map[f]]
  /\ pc' = "next"
  /\ UNCHANGED <<mmap, entry, o, clients>>

(* The outer loop passes over an available region, enters any other one,    *)
(* and after the last region the allocator is ready.                        *)
SkipRegion ==
  /\ pc = "next" /\ entry <= Len(mmap)
  /\ mmap[entry].available
  /\ entry' = entry + 1
  /\ UNCHANGED <<mmap, global_page_map, pc, o, clients>>

EnterRegion ==
  /\ pc = "next" /\ entry <= Len(mmap)
  /\ ~mmap[entry].available
  /\ pc' = "inner"
  /\ o' = FirstFrame(mmap[entry])
  /\ UNCHANGED <<mmap, global_page_map, entry, clients>>

EndSetup ==
  /\ pc = "next" /\ entry > Len(mmap)
  /\ pc' = "ready"
  /\ UNCHANGED <<mmap, global_page_map, entry, o, clients>>

(* Mutant: "<=" in the condition of the inner loop.                         *)
InRegionInclusive == o <= StopFrame(mmap[entry])

(* The condition of the inner loop.                                         *)
InRegion == o < StopFrame(mmap[entry])

(* Mutant: the counter is as wide as the map.                               *)
ReserveRegionFrameWide ==
  /\ pc = "inner"
  /\ InRegion
  /\ global_page_map' = [global_page_map EXCEPT ![o] = TRUE]
  /\ o' = o + 1
  /\ UNCHANGED <<mmap, pc, entry, clients>>

(* One turn of the inner loop; o++ wraps.                                   *)
ReserveRegionFrame ==
  /\ pc = "inner"
  /\ InRegion
  /\ global_page_map' = [global_page_map EXCEPT ![o] = TRUE]
  /\ o' = (o + 1) % Wrap16
  /\ UNCHANGED <<mmap, pc, entry, clients>>

EndRegion ==
  /\ pc = "inner"
  /\ ~InRegion
  /\ pc' = "next"
  /\ entry' = entry + 1
  /\ UNCHANGED <<mmap, global_page_map, o, clients>>

(* get_free_phy_page returns the address of the lowest free frame, or NULL. *)
FreePhyPage(p) ==
  \/ \E f \in Frames : /\ p = f * PageSize
                       /\ IsFree(f)
                       /\ \A g \in 0 .. f - 1 : ~IsFree(g)
  \/ p = NULL /\ \A f \in Frames : ~IsFree(f)

(* A caller looks a frame up: kalloc only for its first page, kappend_page  *)
(* whenever it is called.                                                   *)
GetFreePhyPage(c) ==
  /\ pc = "ready"
  /\ c = "kalloc" => ~cwpage
  /\ \E p \in {f * PageSize : f \in Frames} :
       /\ FreePhyPage(p)
       /\ phy' = p
  /\ caller' = c
  /\ pc' = "got"
  /\ UNCHANGED <<mmap, global_page_map, entry, o, cwpage, held>>

(* Mutant: reserve_addr tests the frame and forgets to mark it.             *)
ReserveAddrUnmarked ==
  /\ IsFree(phy \div PageSize)
  /\ held' = held \cup {phy \div PageSize}
  /\ UNCHANGED global_page_map

(* reserve_addr(phy) returning 0.                                           *)
ReserveAddr ==
  /\ IsFree(phy \div PageSize)
  /\ global_page_map' = [global_page_map EXCEPT ![phy \div PageSize] = TRUE]
  /\ held' = held \cup {phy \div PageSize}

(* kalloc gives up on NULL and when reserve_addr returns 1.  Otherwise      *)
(* append_page, whose flags are the low half of phy, finds an entry that is *)
(* not present in the empty kernel_page_table1 each time and returns 0.     *)
KallocReserve ==
  /\ pc = "got" /\ caller = "kalloc"
  /\ IF phy # NULL /\ IsFree(phy \div PageSize)
       THEN ReserveAddr /\ cwpage' = TRUE
       ELSE UNCHANGED <<global_page_map, held, cwpage>>
  /\ pc' = "ready"
  /\ UNCHANGED <<mmap, entry, o, phy, caller>>

(* kappend_page reports a NULL and goes on; reserve_addr's result is        *)
(* dropped, and cwpage is set in every case.                                *)
KappendReserve ==
  /\ pc = "got" /\ caller = "kappend_page"
  /\ \/ ReserveAddr
     \/ ~IsFree(phy \div PageSize) /\ UNCHANGED <<global_page_map, held>>
  /\ cwpage' = TRUE
  /\ pc' = "ready"
  /\ UNCHANGED <<mmap, entry, o, phy, caller>>

SetupStep ==
  \/ ReserveKernel
  \/ SkipRegion \/ EnterRegion \/ EndSetup
  \/ ReserveRegionFrame \/ EndRegion

Next ==
  \/ SetupStep
  \/ \E c \in {"kalloc", "kappend_page"} : GetFreePhyPage(c)
  \/ KallocReserve
  \/ KappendReserve

(* The set-up is straight-line code on the only thread: it keeps going.     *)
Spec == Init /\ [][Next]_vars /\ WF_vars(SetupStep)

-----------------------------------------------------------------------------
SetupDone == pc \in {"ready", "got"}

(* No frame of the BIOS area or of the kernel image is ever handed out:     *)
(* kalloc writes a header into the frame it gets (alloc.c, prepare_page).   *)
KernelNeverTaken == held \cap KernelFrames = {}

(* Between the look-up and the reservation the frame is still free and in   *)
(* nobody's hands, so no frame is handed out twice and the result that      *)
(* kappend_page drops is never a failure for a frame that was found.        *)
GrantIsFresh ==
  pc = "got" /\ phy # NULL =>
    IsFree(phy \div PageSize) /\ phy \div PageSize \notin held

(* Address 0 doubles as NULL: a caller may read it as "no memory" because   *)
(* it is returned only when no frame is left (frame 0 is the kernel's).     *)
NullMeansFull == pc = "got" /\ phy = NULL => \A f \in Frames : ~IsFree(f)

(* First fit: whatever was handed out has no free frame below it.           *)
NoHoleBelowHeld == \A f \in held : \A g \in 0 .. f : ~IsFree(g)

(* The set-up counters are 16 bits wide and the map is not, so a memory map *)
(* alone never exhausts the allocator; kalloc asks only for the first page, *)
(* so it always gets one and never prints "no more pages available".        *)
KallocNeverRefused == pc = "got" /\ caller = "kalloc" => phy # NULL

(* A reservation is for good: no step frees a frame.                        *)
ReservationsPermanent ==
  [][\A f \in Frames : ~IsFree(f) => ~IsFree(f)']_vars

BoundsFit == \A i \in 1 .. Len(mmap) : ~mmap[i].available => StopFrame(mmap[i]) < Wrap16

(* With every bound of the region loop below 2^16 the set-up ends.          *)
SetupCompletesIfBoundsFit == BoundsFit => <>SetupDone

(* kernel.c reports "pageframe allocator setup" after the call, for every   *)
(* memory map: the set-up always ends.                                      *)
SetupCompletes == <>SetupDone

(* A frame that holds a byte of a region.                                   *)
Overlaps(f, r) == r.addr < (f + 1) * PageSize /\ f * PageSize < r.addr + r.len

(* Every region that is not available starts and stops where the counter    *)
(* reaches.                                                                 *)
CountersFit ==
  \A i \in 1 .. Len(mmap) : ~mmap[i].available =>
    mmap[i].addr \div PageSize < Wrap16 /\ StopFrame(mmap[i]) < Wrap16

(* Where the counter fits, the mixed units of its bound err on one side     *)
(* only: the loop withholds too little, never a frame of available memory.  *)
(* A start that the counter truncates would withhold frames elsewhere.      *)
AvailableNotWithheld ==
  CountersFit =>
    \A f \in Frames : ~IsFree(f) =>
      \/ f \in KernelFrames \cup held
      \/ \E i \in 1 .. Len(mmap) : ~mmap[i].available /\ Overlaps(f, mmap[i])

(* What the region loop is for: no frame that overlaps a region reported as *)
(* not available is handed out.                                             *)
UnavailableNeverTaken ==
  \A i \in 1 .. Len(mmap) :
    ~mmap[i].available =>
      \A f \in held : ~Overlaps(f, mmap[i])

Pool == INSTANCE FramePool WITH
  open <- SetupDone, free <- {f \in Frames : IsFree(f)}

(* The allocator implements the pool of frames: set-up only withdraws, and  *)
(* each reservation by a caller takes one free frame for one holder.        *)
ImplementsFramePool == Pool!Spec
=============================================================================
