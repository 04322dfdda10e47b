------------------------------- MODULE AhciProofs -------------------------------
(* Theorems about Ahci and the page tables under it, for every table size,  *)
(* machine, frame and behaviour of the TLB.                                 *)
EXTENDS Ahci, HeapProofs

(* Where a page number falls: every page has a slot and an entry, the pages *)
(* of the first table are their own entries, and the second table's first   *)
(* two pages are its first two entries.                                     *)
LEMMA SizeFacts ==
  /\ TableSize \in Nat /\ NTables \in Nat /\ 2 <= NTables /\ 2 <= TableSize
  /\ 0 \in Slots /\ 1 \in Slots /\ 0 \in Entries /\ 1 \in Entries
  /\ \A e \in Entries : e \in Nat
BY SizeAssumption DEF Slots, Entries

LEMMA PageParts ==
  ASSUME NEW p \in Nat
  PROVE  /\ p \div TableSize \in Nat /\ p % TableSize \in Entries
         /\ p = TableSize * (p \div TableSize) + (p % TableSize)
BY SizeFacts DEF Entries

LEMMA FirstTablePages ==
  ASSUME NEW p \in Entries
  PROVE  p \in Pages /\ p \div TableSize = 0 /\ p % TableSize = p
<1>1. p \in Nat /\ p < TableSize BY SizeFacts DEF Entries
<1>2. p \div TableSize = 0 /\ p % TableSize = p BY <1>1, SizeFacts
<1>3. TableSize <= NTables * TableSize BY SizeFacts
<1> QED BY <1>1, <1>2, <1>3, SizeFacts DEF Pages

LEMMA SecondTablePages ==
  ASSUME NEW k \in {0, 1}
  PROVE  /\ TableSize + k \in Pages
         /\ (TableSize + k) \div TableSize = 1 /\ (TableSize + k) % TableSize = k
<1>1. (TableSize + k) \div TableSize = 1 /\ (TableSize + k) % TableSize = k BY SizeFacts
<1>2. 2 * TableSize <= NTables * TableSize BY SizeFacts
<1> QED BY <1>1, <1>2, SizeFacts DEF Pages

LEMMA PageInTables ==
  ASSUME NEW p \in Pages
  PROVE  p \div TableSize \in Slots /\ p % TableSize \in Entries
<1>1. p \in Nat /\ p < NTables * TableSize BY SizeFacts DEF Pages
<1>2. p \div TableSize < NTables
  <2>1. SUFFICES ASSUME NTables <= p \div TableSize PROVE FALSE
    BY <1>1, PageParts, SizeFacts
  <2>2. PICK d \in Nat : p \div TableSize = NTables + d
    BY <1>1, <2>1, PageParts, SizeFacts
  <2>3. p >= TableSize * (NTables + d) BY <1>1, <2>2, PageParts, SizeFacts DEF Entries
  <2>4. TableSize * (NTables + d) = NTables * TableSize + TableSize * d BY <1>1, SizeFacts
  <2>5. TableSize * d \in Nat BY SizeFacts
  <2>6. NTables * TableSize \in Nat BY SizeFacts
  <2> QED BY <1>1, <2>3, <2>4, <2>5, <2>6
<1> QED BY <1>1, <1>2, PageParts, SizeFacts DEF Slots
-----------------------------------------------------------------------------
(* The tables as paging_setup leaves them, and once the registers of the    *)
(* controller are mapped, in the first entry of the empty table.            *)
SetUp ==
  [s \in Slots |-> [e \in Entries |->
     IF s = 1 THEN Absent ELSE Present(IF s = 0 THEN e ELSE Page(s - 1, e))]]
Mapped == [SetUp EXCEPT ![1][0] = Present(Bar)]

Unmapped == {"find", "kalloc", "prepare", "search", "config", "map"}
Probing == {"pi", "probe"}

(* The inductive invariant.  TlbCoherent needs that the entry that is       *)
(* filled was absent, hence that it is the second table's; the registers    *)
(* are reached because the TLB agrees with the tables.                      *)
TablesInv ==
  /\ paging <=> pc # "paging"
  /\ ~paging => DOMAIN tlb = {}
  /\ pc \in Unmapped => table = SetUp
  /\ pc \in Probing => table = Mapped /\ ahci_mem_base = TableSize
  /\ pc \in {"done", "fault", "lost"} => table \in {SetUp, Mapped}
  /\ pc = "probe" => pi = implemented
  /\ pc \notin {"probe", "done", "fault"} => seen = {}

(* Until the configuration is written, and from kalloc until then.          *)
CopyingInv ==
  /\ pc \in {"paging", "find", "kalloc", "prepare", "search", "config"} => written = {}
  /\ pc \in {"prepare", "search", "config"} => phy \in FreeFrames

Searched(p) == p[1] < bus \/ (p[1] = bus /\ p[2] < dev)
SearchInv ==
  /\ bus = Buses => dev = 0
  /\ pc \notin {"paging", "find"} => bus = Buses
  /\ is_valid => pci[<<ahci_bus, ahci_device, 0>>] = "ahci" /\ ahci_bus < bus
  /\ \A p \in Places : Searched(p) /\ pci[p] = "ahci" /\ p[3] = 0 =>
       is_valid /\ (p[1] < ahci_bus \/ (p[1] = ahci_bus /\ ahci_device <= p[2]))

IInv == TypeOK /\ TablesInv /\ CopyingInv /\ TlbCoherent /\ SearchInv /\ RegistersAreDevices

LEMMA BarIsFrame == TypeOK => Bar \in Nat
BY PciAssumption DEF TypeOK, Bar

(* What is where in either state of the tables.                             *)
LEMMA FirstTableIdentity ==
  ASSUME table \in {SetUp, Mapped}, NEW p \in Entries
  PROVE  EntryOf(p) = Present(p) /\ table[0][p] = Present(p)
<1>1. SetUp[0] = [e \in Entries |-> Present(e)] BY SizeFacts DEF SetUp
<1>2. Mapped[0] = SetUp[0] BY SizeFacts DEF Mapped, SetUp
<1> QED BY <1>1, <1>2, FirstTablePages DEF EntryOf

LEMMA SecondTable ==
  ASSUME table = Mapped
  PROVE  EntryOf(TableSize) = Present(Bar) /\ EntryOf(TableSize + 1) = Absent
<1>1. SetUp[1] = [e \in Entries |-> Absent] /\ 1 \in DOMAIN SetUp BY SizeFacts DEF SetUp
<1>2. Mapped[1] = [SetUp[1] EXCEPT ![0] = Present(Bar)] BY <1>1 DEF Mapped
<1>3. Mapped[1][0] = Present(Bar) /\ Mapped[1][1] = Absent BY <1>1, <1>2, SizeFacts
<1>4. TableSize + 0 = TableSize BY SizeFacts
<1> QED BY <1>3, <1>4, SecondTablePages DEF EntryOf

LEMMA EntryNames == \A f, g : Present(f) # Absent /\ (Present(f) = Present(g) => f = g)
BY DEF Present, Absent

(* What an access reaches: the identity in the first table; the registers   *)
(* and nothing else in the second.                                          *)
LEMMA ReachesIdentity ==
  ASSUME IInv, pc # "paging", NEW p \in Entries
  PROVE  Reaches(p) = {p}
<1>1. paging /\ table \in {SetUp, Mapped}
  BY DEF IInv, TypeOK, TablesInv, Unmapped, Probing
<1>2. EntryOf(p) = Present(p) /\ p \in Pages BY <1>1, FirstTableIdentity, FirstTablePages
<1>3. p \in DOMAIN tlb => tlb[p] = p BY <1>2, EntryNames DEF IInv, TlbCoherent
<1>4. EntryOf(p).present /\ EntryOf(p).frame = p BY <1>2 DEF Present
<1> QED BY <1>1, <1>2, <1>3, <1>4 DEF Reaches

LEMMA ReachesRegisters ==
  ASSUME IInv, pc \in Probing
  PROVE  Reaches(ahci_mem_base) = {Bar} /\ Reaches(ahci_mem_base + 1) = {}
<1>1. paging /\ table = Mapped /\ ahci_mem_base = TableSize
  BY DEF IInv, TablesInv, Probing
<1>2. TableSize + 0 = TableSize BY SizeFacts
<1>3. TableSize \in Pages /\ TableSize + 1 \in Pages BY <1>2, SecondTablePages
<1>4. TableSize \in DOMAIN tlb => tlb[TableSize] = Bar
  BY <1>1, SecondTable, EntryNames DEF IInv, TlbCoherent
<1>5. TableSize + 1 \notin DOMAIN tlb
  BY <1>1, SecondTable, EntryNames DEF IInv, TlbCoherent
<1>6. Present(Bar).present /\ Present(Bar).frame = Bar /\ ~Absent.present
  BY DEF Present, Absent
<1> QED BY <1>1, <1>3, <1>4, <1>5, <1>6, SecondTable DEF Reaches
-----------------------------------------------------------------------------
LEMMA InitInv == Init => IInv
<1> SUFFICES ASSUME Init PROVE IInv OBVIOUS
<1> USE DEF Init, MemoryInit
<1>1. TypeOK
  <2>1. MemoryTypeOK BY SizeFacts DEF MemoryTypeOK, Absent
  <2>2. 0 \in Pages BY SizeFacts, FirstTablePages
  <2>3. /\ bus \in 0 .. Buses /\ dev \in 0 .. Devices - 1
        /\ <<ahci_bus, ahci_device, 0>> \in Places
    BY PciAssumption DEF Places
  <2>4. i \in 0 .. NPorts BY PortAssumption
  <2> QED BY <2>1, <2>2, <2>3, <2>4 DEF TypeOK, NULL
<1>2. TablesInv BY DEF TablesInv, Unmapped, Probing
<1>3. TlbCoherent BY DEF TlbCoherent
<1>4. SearchInv BY PciAssumption DEF SearchInv, Searched, Places
<1>5. RegistersAreDevices BY DEF RegistersAreDevices
<1>6. CopyingInv BY DEF CopyingInv
<1> QED BY <1>1, <1>2, <1>3, <1>4, <1>5, <1>6 DEF IInv

(* A step that changes neither the tables nor the TLB nor what the          *)
(* registers were read from keeps what is said of them.                     *)
LEMMA MemoryKept ==
  ASSUME IInv, UNCHANGED memory
  PROVE  MemoryTypeOK' /\ TlbCoherent'
BY DEF IInv, TypeOK, MemoryTypeOK, TlbCoherent, EntryOf, memory

LEMMA SearchKept ==
  ASSUME IInv, UNCHANGED <<pci, search>>, pc' \in {"paging", "find"} => pc \in {"paging", "find"},
         pc' \notin {"paging", "find"} => bus = Buses
  PROVE  SearchInv'
BY DEF IInv, SearchInv, Searched, search, Places

LEMMA SetUpTyped == SetUp \in [Slots -> [Entries -> [present : BOOLEAN, frame : Nat]]]
<1>1. \A s \in Slots \ {0, 1}, e \in Entries : Page(s - 1, e) \in Nat
  <2>1. \A s \in Slots \ {0, 1} : s - 1 \in Nat BY SizeFacts DEF Slots
  <2> QED BY <2>1, SizeFacts DEF Page
<1> QED BY <1>1, SizeFacts DEF SetUp, Present, Absent

LEMMA PagingSetupInv == ASSUME IInv, PagingSetup PROVE IInv'
<1>1. table' = SetUp /\ paging' = TRUE /\ DOMAIN tlb' = {} /\ pc' = "find"
  BY DEF PagingSetup, paging_setup, SetupTables, SetUp
<1>2. UNCHANGED <<pci, implemented, search, setup>> /\ pc = "paging" BY DEF PagingSetup
<1>3. TypeOK'
  BY <1>1, <1>2, SetUpTyped DEF IInv, TypeOK, MemoryTypeOK, search, setup
<1>4. TablesInv' BY <1>1, <1>2 DEF IInv, TablesInv, Unmapped, Probing, setup
<1>5. TlbCoherent' BY <1>1 DEF TlbCoherent
<1>6. SearchInv' BY <1>1, <1>2, SearchKept
<1>7. RegistersAreDevices' BY <1>2 DEF IInv, RegistersAreDevices, Bar, search, setup
<1>8. CopyingInv' BY <1>1, <1>2 DEF IInv, CopyingInv, setup
<1> QED BY <1>3, <1>4, <1>5, <1>6, <1>7, <1>8 DEF IInv

LEMMA FindAhciInv == ASSUME IInv, FindAhci PROVE IInv'
<1> USE DEF FindAhci
<1>1. MemoryTypeOK' /\ TlbCoherent' BY MemoryKept
<1>2. bus \in 0 .. Buses - 1 /\ dev \in 0 .. Devices - 1 /\ Buses \in Nat /\ Devices \in Nat
  BY PciAssumption DEF IInv, TypeOK
<1>3. TypeOK'
  <2>1. bus' \in 0 .. Buses /\ dev' \in 0 .. Devices - 1 BY <1>2
  <2>2. is_valid' \in BOOLEAN /\ <<ahci_bus', ahci_device', 0>> \in Places
    BY <1>2, PciAssumption DEF IInv, TypeOK, Places
  <2> QED BY <1>1, <2>1, <2>2 DEF IInv, TypeOK, setup
<1>4. TablesInv' BY DEF IInv, TablesInv, Unmapped, Probing, memory, setup
<1>5. SearchInv'
  <2>1. CASE is_ahci(bus, dev)
    <3>1. is_valid' = TRUE /\ ahci_bus' = bus /\ ahci_device' = dev /\ bus' = bus + 1 /\ dev' = 0
      BY <2>1
    <3>2. pci[<<bus, dev, 0>>] = "ahci" BY <2>1 DEF is_ahci
    <3>3. ASSUME NEW p \in Places, Searched(p)', pci[p] = "ahci", p[3] = 0
          PROVE  p[1] < bus \/ (p[1] = bus /\ dev <= p[2])
      <4>1. p[1] \in Nat /\ p[2] \in Nat BY DEF Places
      <4>2. p[1] <= bus BY <3>1, <3>3, <4>1, <1>2 DEF Searched
      <4>3. Searched(p) => p[1] < bus
        BY <3>3, <4>1, <1>2 DEF IInv, SearchInv, TypeOK, Places
      <4> QED BY <4>1, <4>2, <4>3, <1>2 DEF Searched
    <3> QED BY <3>1, <3>2, <3>3, <1>2 DEF SearchInv
  <2>2. CASE ~is_ahci(bus, dev)
    <3>1. UNCHANGED <<is_valid, ahci_bus, ahci_device>> BY <2>2
    <3>2. \/ dev = Devices - 1 /\ bus' = bus + 1 /\ dev' = 0
          \/ dev # Devices - 1 /\ bus' = bus /\ dev' = dev + 1
      BY <2>2
    <3>3. ASSUME NEW p \in Places, Searched(p)', pci[p] = "ahci", p[3] = 0 PROVE Searched(p)
      <4>1. p[1] \in Nat /\ p[2] \in 0 .. Devices - 1 BY DEF Places
      <4>2. p = <<p[1], p[2], 0>> BY <3>3 DEF Places
      <4>3. ~(p[1] = bus /\ p[2] = dev) BY <2>2, <3>3, <4>2 DEF is_ahci
      <4> QED BY <3>2, <3>3, <4>1, <4>3, <1>2 DEF Searched
    <3> QED BY <3>1, <3>2, <3>3, <1>2 DEF IInv, SearchInv, TypeOK, Places
  <2> QED BY <2>1, <2>2
<1>6. RegistersAreDevices'
  BY DEF IInv, TablesInv, RegistersAreDevices, setup
<1>7. CopyingInv' BY DEF IInv, CopyingInv, setup
<1> QED BY <1>1, <1>3, <1>4, <1>5, <1>6, <1>7 DEF IInv

LEMMA FindReturnsInv == ASSUME IInv, FindAhciReturns PROVE IInv'
<1> USE DEF FindAhciReturns
<1>1. MemoryTypeOK' /\ TlbCoherent' BY MemoryKept
<1>2. TypeOK' BY <1>1 DEF IInv, TypeOK, search, setup
<1>3. TablesInv' BY DEF IInv, TablesInv, Unmapped, Probing, memory, setup
<1>4. SearchInv' BY SearchKept
<1>5. RegistersAreDevices' BY DEF IInv, RegistersAreDevices, search, setup, Bar
<1>6. CopyingInv' BY DEF IInv, CopyingInv, setup
<1> QED BY <1>1, <1>2, <1>3, <1>4, <1>5, <1>6 DEF IInv

(* append_page as it is called fills an absent entry with an absent one.    *)
LEMMA AppendChangesNothing ==
  ASSUME table = SetUp, append_page
  PROVE  UNCHANGED memory
<1>1. PICK s \in Slots, e \in Entries : ~table[s][e].present /\ Set(s, e, Absent)
  BY DEF append_page, IsFirst, IsAbsent
<1>2. table[s][e] = Absent BY <1>1 DEF SetUp, Present
<1>3. table' = table BY <1>1, <1>2 DEF Set, SetUp
<1> QED BY <1>3 DEF append_page, memory

LEMMA KallocInv == ASSUME IInv, Kalloc PROVE IInv'
<1> USE DEF Kalloc
<1>1. UNCHANGED memory BY AppendChangesNothing DEF IInv, TablesInv, Unmapped
<1>2. MemoryTypeOK' /\ TlbCoherent' BY <1>1, MemoryKept
<1>3. TypeOK' BY <1>2 DEF IInv, TypeOK, search
<1>4. TablesInv' BY <1>1 DEF IInv, TablesInv, Unmapped, Probing, memory
<1>5. SearchInv' BY SearchKept DEF IInv, SearchInv
<1>6. RegistersAreDevices' BY DEF IInv, RegistersAreDevices, search, Bar
<1>7. CopyingInv' BY DEF IInv, CopyingInv
<1> QED BY <1>2, <1>3, <1>4, <1>5, <1>6, <1>7 DEF IInv

(* A fault stops the boot thread where it is, and so does the loss of the   *)
(* program's memory.                                                        *)
Stops ==
  /\ pc' \in {"fault", "lost"} /\ (pc' = "lost" => pc \in Unmapped)
  /\ stray' \in UnsetPages \cup {stray}
  /\ UNCHANGED <<memory, pci, implemented, search, phy, header, ahci_config, ahci_mem_base,
                 pi, i, written, seen>>

LEMMA StopsInv ==
  ASSUME IInv, pc \in {"prepare", "search", "config", "pi", "probe"}, Stops
  PROVE  IInv'
<1> USE DEF Stops
<1>1. MemoryTypeOK' /\ TlbCoherent' BY MemoryKept
<1>2. TypeOK'
  <2>1. stray' \subseteq Nat BY FrameAssumption DEF IInv, TypeOK
  <2> QED BY <1>1, <2>1 DEF IInv, TypeOK, search
<1>3. TablesInv'
  <2>1. Mapped' = Mapped BY DEF Mapped, Bar, search
  <2> QED BY <2>1 DEF IInv, TablesInv, Unmapped, Probing, memory
<1>4. SearchInv' BY SearchKept DEF IInv, SearchInv
<1>5. RegistersAreDevices' BY DEF IInv, RegistersAreDevices, search, Bar
<1>6. CopyingInv' BY DEF CopyingInv
<1> QED BY <1>1, <1>2, <1>3, <1>4, <1>5, <1>6 DEF IInv

LEMMA FaultsInv ==
  ASSUME IInv, pc \in {"prepare", "search", "config", "pi", "probe"}, NEW page, Faults(page)
  PROVE  IInv'
<1>1. Stops BY DEF Stops, Faults, setup
<1> QED BY <1>1, StopsInv

(* What an access reaches is a frame.                                       *)
LEMMA ReachesFrames ==
  ASSUME IInv, pc # "paging", NEW p
  PROVE  Reaches(p) \subseteq Nat
<1>1. paging BY DEF IInv, TablesInv
<1>2. p \in DOMAIN tlb => tlb[p] \in Nat BY DEF IInv, TypeOK, MemoryTypeOK
<1>3. p \in Pages => EntryOf(p).frame \in Nat
  BY PageInTables DEF IInv, TypeOK, MemoryTypeOK, EntryOf
<1> QED BY <1>1, <1>2, <1>3 DEF Reaches

(* The steps of setup_ahci between kalloc and the mapping leave everything  *)
(* but their own results alone.                                             *)
LEMMA CopyInv ==
  ASSUME IInv, PreparePage \/ SearchPage \/ GetPciDevice
  PROVE  IInv'
<1>1. CASE \E page : Faults(page)
  BY <1>1, FaultsInv DEF PreparePage, SearchPage, GetPciDevice
<1>2. CASE (PreparePage \/ SearchPage)
             /\ \E pages \in UnsetPages : StrayFaults(pages) \/ StrayOverwrites(pages)
  <2>1. pc \in {"prepare", "search"} BY <1>2 DEF PreparePage, SearchPage
  <2>2. Stops BY <1>2, <2>1 DEF Stops, StrayFaults, StrayOverwrites, Unmapped, setup
  <2> QED BY <2>1, <2>2, StopsInv
<1>3. CASE /\ UNCHANGED <<memory, pci, implemented, search, phy, ahci_mem_base, pi, i, stray,
                          seen>>
           /\ header' \in {header, {}} \cup Garbage
           /\ \/ pc = "prepare" /\ pc' = "search" /\ written' = written
              \/ pc = "search" /\ pc' = "config" /\ written' = written
              \/ pc = "config" /\ pc' = "map"
                  /\ written' = UNION {Reaches(p) : p \in ConfigPages}
  <2>1. MemoryTypeOK' /\ TlbCoherent' BY <1>3, MemoryKept
  <2>2. written' \subseteq Nat
    <3>1. UNION {Reaches(p) : p \in ConfigPages} \subseteq Nat
      BY <1>3, ReachesFrames
    <3> QED BY <1>3, <3>1 DEF IInv, TypeOK
  <2>3. TypeOK' BY <1>3, <2>1, <2>2, ConfigAssumption DEF IInv, TypeOK, search
  <2>4. TablesInv' BY <1>3 DEF IInv, TablesInv, Unmapped, Probing, memory
  <2>5. SearchInv' BY <1>3, SearchKept DEF IInv, SearchInv
  <2>6. RegistersAreDevices' BY <1>3 DEF IInv, RegistersAreDevices, search, Bar
  <2>7. CopyingInv' BY <1>3 DEF IInv, CopyingInv
  <2> QED BY <2>1, <2>3, <2>4, <2>5, <2>6, <2>7 DEF IInv
<1> QED BY <1>1, <1>2, <1>3 DEF PreparePage, SearchPage, GetPciDevice, setup

(* The entry append_page_at_addr finds is the first of the empty table: no  *)
(* other slot's table has an absent entry where the loop looks.             *)
LEMMA RegistersGoToSecondTable ==
  ASSUME table = SetUp, NEW frame, NEW page, append_page_at_addr(frame, page)
  PROVE  page = TableSize /\ table' = [SetUp EXCEPT ![1][0] = Present(frame)]
<1>1. ASSUME NEW s \in Slots, NEW e \in Entries PROVE TestEntry(s, e) <=> s = 1
  <2>1. s \in Entries BY SizeAssumption DEF Slots, Entries
  <2> QED BY <2>1 DEF TestEntry, SetUp, Present, Absent
<1>2. PICK s \in Slots, e \in Entries :
        IsFirst(s, e, TestEntry) /\ Set(s, e, Present(frame)) /\ page = Page(s, e)
  <2>1. TestEntry(1, 0) BY <1>1, SizeFacts
  <2> QED BY <2>1, SizeFacts DEF append_page_at_addr
<1>3. s = 1 BY <1>1, <1>2 DEF IsFirst
<1>4. e = 0
  <2>1. ~(Page(1, 0) < Page(1, e)) BY <1>1, <1>2, <1>3, SizeFacts DEF IsFirst
  <2> QED BY <2>1, SizeFacts DEF Page, Entries
<1>5. Page(1, 0) = TableSize BY SizeFacts DEF Page
<1> QED BY <1>2, <1>3, <1>4, <1>5 DEF Set

LEMMA MapRegistersInv == ASSUME IInv, MapRegisters PROVE IInv'
<1> USE DEF MapRegisters
<1>1. table = SetUp /\ paging BY DEF IInv, TablesInv, Unmapped
<1>2. ahci_mem_base' = TableSize /\ table' = Mapped
  BY <1>1, RegistersGoToSecondTable DEF Mapped
<1>3. Mapped' = Mapped BY DEF Mapped, Bar, search
<1>4. paging' = paging /\ tlb' = tlb BY DEF append_page_at_addr
<1>5. MemoryTypeOK'
  <2>1. Mapped \in [Slots -> [Entries -> [present : BOOLEAN, frame : Nat]]]
    BY SetUpTyped, SizeFacts, BarIsFrame DEF Mapped, Present, IInv
  <2> QED BY <1>2, <1>4, <2>1 DEF IInv, TypeOK, MemoryTypeOK
<1>6. TypeOK' BY <1>5 DEF IInv, TypeOK, search
<1>7. TablesInv'
  BY <1>2, <1>3, <1>4 DEF IInv, TablesInv, Unmapped, Probing
<1>8. TlbCoherent'
  <2> SUFFICES ASSUME NEW p \in DOMAIN tlb PROVE EntryOf(p)' = Present(tlb[p])
    BY <1>4 DEF TlbCoherent
  <2>1. p \in Pages /\ EntryOf(p) = Present(tlb[p])
    BY DEF IInv, TypeOK, MemoryTypeOK, TlbCoherent
  <2> DEFINE s == p \div TableSize e == p % TableSize
  <2>2. s \in Slots /\ e \in Entries BY <2>1, PageInTables
  <2>3. SetUp[s][e] # Absent BY <1>1, <2>1, EntryNames DEF EntryOf
  <2>4. s # 1 BY <2>2, <2>3 DEF SetUp
  <2>5. Mapped[s][e] = SetUp[s][e]
    <3> HIDE DEF s, e
    <3> QED BY <2>2, <2>4 DEF Mapped, SetUp
  <2> QED BY <1>1, <1>2, <2>1, <2>5 DEF EntryOf
<1>9. SearchInv' BY SearchKept DEF IInv, SearchInv
<1>10. RegistersAreDevices' BY DEF IInv, RegistersAreDevices, search, Bar
<1>11. CopyingInv' BY DEF CopyingInv
<1> QED BY <1>6, <1>7, <1>8, <1>9, <1>10, <1>11 DEF IInv

LEMMA ReadPortsInv == ASSUME IInv, ReadPorts PROVE IInv'
<1>1. CASE Faults(ahci_mem_base) BY <1>1, FaultsInv DEF ReadPorts
<1>2. CASE \E f \in Reaches(ahci_mem_base) : ~Faults(ahci_mem_base)
  <2>1. /\ pc = "pi" /\ pc' = "probe" /\ pi' = implemented
        /\ UNCHANGED <<memory, pci, implemented, search, phy, header, ahci_config,
                       ahci_mem_base, i, stray, written, seen>>
    BY <1>2, ReachesRegisters DEF ReadPorts, Probing
  <2>2. MemoryTypeOK' /\ TlbCoherent' BY <2>1, MemoryKept
  <2>3. TypeOK' BY <2>1, <2>2, PortAssumption DEF IInv, TypeOK, search
  <2>4. TablesInv'
    <3>1. Mapped' = Mapped BY <2>1 DEF Mapped, Bar, search
    <3> QED BY <2>1, <3>1 DEF IInv, TablesInv, Unmapped, Probing, memory
  <2>5. SearchInv' BY <2>1, SearchKept DEF IInv, SearchInv
  <2>6. RegistersAreDevices' BY <2>1 DEF IInv, RegistersAreDevices, search, Bar
  <2>7. CopyingInv' BY <2>1 DEF CopyingInv
  <2> QED BY <2>2, <2>3, <2>4, <2>5, <2>6, <2>7 DEF IInv
<1> QED BY <1>1, <1>2 DEF ReadPorts

(* A port whose registers are read lies in the page that was mapped.        *)
LEMMA PortIsNear ==
  ASSUME IInv, pc = "probe"
  PROVE  Reaches(PortPage) = IF i < NearPorts THEN {Bar} ELSE {}
<1>1. ahci_mem_base + 0 = ahci_mem_base BY DEF IInv, TypeOK, Pages
<1> QED BY <1>1, ReachesRegisters DEF PortPage, Probing

LEMMA ProbePortInv == ASSUME IInv, ProbePort PROVE IInv'
<1>1. CASE Faults(PortPage) BY <1>1, FaultsInv DEF ProbePort
<1>2. CASE ~Faults(PortPage)
  <2>1. /\ pc = "probe" /\ i < NPorts /\ i' = i + 1
        /\ seen' = seen \/ (i < NearPorts /\ seen' = seen \cup {<<i, Bar>>})
        /\ UNCHANGED <<memory, pci, implemented, pc, search, phy, header, ahci_config,
                       ahci_mem_base, pi, stray, written>>
    BY <1>2, PortIsNear DEF ProbePort
  <2>2. MemoryTypeOK' /\ TlbCoherent' BY <2>1, MemoryKept
  <2>3. TypeOK' BY <2>1, <2>2, BarIsFrame, PortAssumption DEF IInv, TypeOK, search
  <2>4. Mapped' = Mapped /\ Bar' = Bar BY <2>1 DEF Mapped, Bar, search
  <2>5. TablesInv' BY <2>1, <2>4 DEF IInv, TablesInv, Unmapped, Probing, memory
  <2>6. SearchInv' BY <2>1, SearchKept DEF IInv, SearchInv
  <2>7. RegistersAreDevices' BY <2>1, <2>4 DEF IInv, RegistersAreDevices
  <2>8. CopyingInv' BY <2>1 DEF CopyingInv
  <2> QED BY <2>2, <2>3, <2>5, <2>6, <2>7, <2>8 DEF IInv
<1> QED BY <1>1, <1>2

LEMMA ProbeReturnsInv == ASSUME IInv, ProbeReturns PROVE IInv'
<1> USE DEF ProbeReturns
<1>1. MemoryTypeOK' /\ TlbCoherent' BY MemoryKept
<1>2. TypeOK' BY <1>1 DEF IInv, TypeOK, search, setup
<1>3. Mapped' = Mapped /\ Bar' = Bar BY DEF Mapped, Bar, search
<1>4. TablesInv' BY <1>3 DEF IInv, TablesInv, Unmapped, Probing, memory, setup
<1>5. SearchInv' BY SearchKept DEF IInv, SearchInv
<1>6. RegistersAreDevices' BY <1>3 DEF IInv, RegistersAreDevices, setup
<1>7. CopyingInv' BY DEF CopyingInv
<1> QED BY <1>1, <1>2, <1>4, <1>5, <1>6, <1>7 DEF IInv

(* What the TLB takes or drops was in the tables.                           *)
LEMMA TlbInv == ASSUME IInv, TlbStep PROVE IInv'
<1> USE DEF TlbStep
<1>1. UNCHANGED <<paging, table, pci, implemented, pc, search, setup>>
  BY DEF TlbFill, TlbEvict
<1>2. /\ DOMAIN tlb' \subseteq Pages /\ (~paging => DOMAIN tlb' = {})
      /\ \A p \in DOMAIN tlb' : tlb'[p] \in Nat /\ EntryOf(p) = Present(tlb'[p])
  <2>0. ~paging => DOMAIN tlb = {} BY DEF IInv, TablesInv
  <2>1. CASE TlbFill
    <3>1. PICK p \in Pages \ DOMAIN tlb :
            /\ paging /\ EntryOf(p).present
            /\ tlb' = [q \in DOMAIN tlb \cup {p} |->
                         IF q = p THEN EntryOf(p).frame ELSE tlb[q]]
      BY <2>1 DEF TlbFill
    <3>2. EntryOf(p) \in [present : BOOLEAN, frame : Nat]
      BY PageInTables DEF IInv, TypeOK, MemoryTypeOK, EntryOf
    <3>3. EntryOf(p) = Present(EntryOf(p).frame) BY <3>1, <3>2 DEF Present
    <3> QED BY <3>1, <3>2, <3>3 DEF IInv, TypeOK, MemoryTypeOK, TlbCoherent
  <2>2. CASE TlbEvict
    BY <2>0, <2>2 DEF TlbEvict, IInv, TypeOK, MemoryTypeOK, TlbCoherent
  <2> QED BY <2>1, <2>2
<1>3. \A p : EntryOf(p)' = EntryOf(p) BY <1>1 DEF EntryOf
<1>4. TlbCoherent' BY <1>2, <1>3 DEF TlbCoherent
<1>5. TypeOK' BY <1>1, <1>2 DEF IInv, TypeOK, MemoryTypeOK, search, setup
<1>6. Mapped' = Mapped /\ Bar' = Bar BY <1>1 DEF Mapped, Bar, search
<1>7. TablesInv' BY <1>1, <1>2, <1>6 DEF IInv, TablesInv, Unmapped, Probing, setup
<1>8. SearchInv' BY <1>1, SearchKept DEF IInv, SearchInv
<1>9. RegistersAreDevices' BY <1>1, <1>6 DEF IInv, RegistersAreDevices, setup
<1>10. CopyingInv' BY <1>1 DEF IInv, CopyingInv, setup
<1> QED BY <1>4, <1>5, <1>7, <1>8, <1>9, <1>10 DEF IInv

LEMMA StutterInv == ASSUME IInv, UNCHANGED vars PROVE IInv'
<1> USE DEF vars
<1>1. MemoryTypeOK' /\ TlbCoherent' BY MemoryKept
<1>2. TypeOK' BY <1>1 DEF IInv, TypeOK, search, setup
<1>3. Mapped' = Mapped /\ Bar' = Bar BY DEF Mapped, Bar, search
<1>4. TablesInv' BY <1>3 DEF IInv, TablesInv, Unmapped, Probing, memory, setup
<1>5. SearchInv' BY SearchKept DEF IInv, SearchInv
<1>6. RegistersAreDevices' BY <1>3 DEF IInv, RegistersAreDevices, setup
<1>7. CopyingInv' BY DEF IInv, CopyingInv, setup
<1> QED BY <1>1, <1>2, <1>4, <1>5, <1>6, <1>7 DEF IInv

LEMMA NextInv == IInv /\ [Next]_vars => IInv'
<1> SUFFICES ASSUME IInv, [Next]_vars PROVE IInv' OBVIOUS
<1>1. CASE BootStep
  BY <1>1, PagingSetupInv, FindAhciInv, FindReturnsInv, KallocInv, CopyInv, MapRegistersInv,
     ReadPortsInv, ProbePortInv, ProbeReturnsInv DEF BootStep
<1>2. CASE TlbStep BY <1>2, TlbInv
<1>3. CASE UNCHANGED vars BY <1>3, StutterInv
<1> QED BY <1>1, <1>2, <1>3 DEF Next

LEMMA Invariance == Spec => []IInv
BY InitInv, NextInv, PTL DEF Spec
-----------------------------------------------------------------------------
(* The types of every variable.                                             *)
THEOREM TypeCorrect == Spec => []TypeOK
<1>1. IInv => TypeOK BY DEF IInv
<1> QED BY <1>1, Invariance, PTL

(* The pages of the kernel stay mapped where they are, through every call   *)
(* that fills an entry (append_page, append_page_at_addr).                  *)
THEOREM KernelStaysMapped == Spec => []IdentityKept
<1>1. IInv => IdentityKept
  <2>1. IInv /\ paging => table \in {SetUp, Mapped}
    BY DEF IInv, TypeOK, TablesInv, Unmapped, Probing
  <2> QED BY <2>1, FirstTableIdentity DEF IdentityKept
<1> QED BY <1>1, Invariance, PTL

(* Without a flush the TLB never holds a translation the tables do not.     *)
THEOREM NoStaleTranslation == Spec => []TlbCoherent
<1>1. IInv => TlbCoherent BY DEF IInv
<1> QED BY <1>1, Invariance, PTL

(* find_ahci reports a controller exactly when function 0 of some device is *)
(* one (AHCI.c:11-19), and then the first of the last bus that has one; a   *)
(* controller at another function is never found.                           *)
THEOREM SearchFinds == Spec => []FindsLastBus
<1>1. IInv => FindsLastBus
  <2> SUFFICES ASSUME IInv, pc \notin {"paging", "find"}
               PROVE  /\ is_valid <=> \E p \in Places : pci[p] = "ahci" /\ p[3] = 0
                      /\ is_valid => /\ pci[<<ahci_bus, ahci_device, 0>>] = "ahci"
                                     /\ \A p \in Places : pci[p] = "ahci" /\ p[3] = 0 =>
                                          p[1] < ahci_bus
                                            \/ (p[1] = ahci_bus /\ ahci_device <= p[2])
    BY DEF FindsLastBus
  <2>1. \A p \in Places : Searched(p)
    BY PciAssumption DEF IInv, SearchInv, Searched, Places
  <2>2. <<ahci_bus, ahci_device, 0>> \in Places BY DEF IInv, TypeOK
  <2>3. <<ahci_bus, ahci_device, 0>>[3] = 0 OBVIOUS
  <2> QED BY <2>1, <2>2, <2>3 DEF IInv, SearchInv
<1> QED BY <1>1, Invariance, PTL

(* Each register probe_port reads is the controller's, whatever the TLB     *)
(* keeps.                                                                   *)
THEOREM RegistersReached == Spec => []RegistersAreDevices
<1>1. IInv => RegistersAreDevices BY DEF IInv
<1> QED BY <1>1, Invariance, PTL

LEMMA FrameUnmapped ==
  ASSUME IInv, pc # "paging", NEW p \in Nat, Reaches(p) = {}
  PROVE  p >= TableSize
BY ReachesIdentity, SizeFacts DEF Entries

(* The third table and the later ones reach no frame of the first, and the  *)
(* second none before the registers are mapped.                             *)
LEMMA LaterTables ==
  ASSUME table = SetUp, NEW p \in Pages, p >= TableSize
  PROVE  /\ EntryOf(p).present => EntryOf(p).frame \in Nat /\ EntryOf(p).frame >= TableSize
         /\ p >= 2 * TableSize => EntryOf(p).present
<1> DEFINE s == p \div TableSize e == p % TableSize
<1>1. p \in Nat BY SizeFacts DEF Pages
<1>2. s \in Slots /\ e \in Entries /\ s \in Nat /\ e \in Nat /\ p = TableSize * s + e
  BY <1>1, PageInTables, PageParts, SizeFacts
<1> HIDE DEF s, e
<1>3. s # 0
  <2>1. s = 0 => p = e BY <1>2, SizeFacts
  <2> QED BY <1>2, <2>1, SizeFacts DEF Entries
<1>4. CASE s = 1
  <2>1. EntryOf(p) = Absent BY <1>2, <1>4 DEF EntryOf, SetUp, s, e
  <2>2. p < 2 * TableSize BY <1>2, <1>4, SizeFacts DEF Entries
  <2> QED BY <1>1, <2>1, <2>2, SizeFacts DEF Absent
<1>5. CASE s # 1
  <2>1. EntryOf(p) = Present(Page(s - 1, e)) BY <1>2, <1>3, <1>5 DEF EntryOf, SetUp, s, e
  <2>2. PICK d \in Nat : s = d + 2 BY <1>2, <1>3, <1>5
  <2>3. Page(s - 1, e) = d * TableSize + TableSize + e BY <1>2, <2>2, SizeFacts DEF Page
  <2>4. d * TableSize \in Nat BY <2>2, SizeFacts
  <2> QED BY <1>2, <2>1, <2>3, <2>4, SizeFacts DEF Present
<1> QED BY <1>4, <1>5

(* While the registers are not mapped, only the second table's pages and    *)
(* those behind the last reach nothing.                                     *)
LEMMA FaultUnmappable ==
  ASSUME IInv, pc \in Unmapped, NEW p \in Nat, Reaches(p) = {}
  PROVE  Unmappable(p)
<1> SUFFICES ASSUME ~Unmappable(p) PROVE FALSE OBVIOUS
<1>1. p >= TableSize BY FrameUnmapped DEF Unmapped
<1>2. p >= 2 * TableSize /\ p < NTables * TableSize
  <2>1. NTables * TableSize \in Nat /\ 2 * TableSize \in Nat BY SizeFacts
  <2> QED BY <1>1, <2>1, SizeFacts DEF Unmappable
<1>3. p \in Pages
  <2>1. NTables * TableSize \in Nat BY SizeFacts
  <2> QED BY <1>2, <2>1 DEF Pages
<1>4. table = SetUp /\ paging BY DEF IInv, TablesInv, Unmapped
<1>5. EntryOf(p).present BY <1>1, <1>2, <1>3, <1>4, LaterTables
<1> QED BY <1>3, <1>4, <1>5 DEF Reaches

(* A page from kalloc's on reaches no frame of the program.                 *)
LEMMA ProgramBelow ==
  ASSUME IInv, pc = "config", NEW p \in Nat, phy <= p
  PROVE  Reaches(p) \cap KernelFrames = {}
<1>1. phy \in Nat /\ \A k \in KernelFrames : k \in Nat /\ k < TableSize /\ k < phy
  <2>1. phy \in FreeFrames BY DEF IInv, CopyingInv
  <2>2. phy \in Nat BY <2>1, FrameAssumption
  <2>3. ASSUME NEW k \in KernelFrames PROVE k \in Nat /\ k < TableSize /\ k < phy
    <3>1. k \in 1 .. TableSize - 1 BY FrameAssumption
    <3>2. k < phy BY <2>1, FrameAssumption
    <3> QED BY <3>1, <3>2, SizeFacts
  <2> QED BY <2>2, <2>3
<1>2. CASE p < TableSize
  <2>1. Reaches(p) = {p} BY <1>2, ReachesIdentity, SizeFacts DEF Entries
  <2> QED BY <1>1, <2>1
<1>3. CASE p >= TableSize
  <2>1. table = SetUp /\ paging BY DEF IInv, TablesInv, Unmapped
  <2>2. ASSUME NEW f \in Reaches(p) PROVE f \in Nat /\ f >= TableSize
    <3>1. p \in Pages /\ EntryOf(p).present /\ EntryOf(p).frame = f
      <4>1. CASE p \in DOMAIN tlb
        <5>1. p \in Pages BY <4>1 DEF IInv, TypeOK, MemoryTypeOK
        <5>2. f = tlb[p] /\ EntryOf(p) = Present(tlb[p])
          BY <2>1, <2>2, <4>1 DEF Reaches, IInv, TlbCoherent
        <5> QED BY <5>1, <5>2 DEF Present
      <4>2. CASE p \notin DOMAIN tlb BY <2>1, <2>2, <4>2 DEF Reaches
      <4> QED BY <4>1, <4>2
    <3> QED BY <1>3, <2>1, <3>1, LaterTables
  <2> QED BY <1>1, <2>2, SizeFacts
<1> QED BY <1>2, <1>3, SizeFacts

(* The pages of the structure kalloc returned.                              *)
LEMMA ConfigPageNear ==
  ASSUME IInv, ConfigPlaced, pc = "config", ahci_config # Failed, NEW p \in ConfigPages
  PROVE  phy \in Nat /\ p \in {phy, phy + 1}
<1>1. phy \in Nat BY FrameAssumption DEF IInv, CopyingInv
<1>2. ahci_config \in Nat /\ ahci_config + ConfigBytes <= 2 * PageBytes
  BY DEF ConfigPlaced
<1>3. PICK b \in {ahci_config, ahci_config + ConfigBytes - 1} : p = phy + (b \div PageBytes)
  BY DEF ConfigPages
<1>4. b \in Nat /\ b < 2 * PageBytes BY <1>2, <1>3, ConfigAssumption, HeapAssumption
<1>5. PageBytes \in Nat /\ PageBytes > 0 BY <1>4, HeapAssumption
<1>6. b \div PageBytes \in {0, 1} BY <1>4, <1>5
<1> QED BY <1>1, <1>3, <1>6

(* Where the configuration is written: through NULL to frame 0, and         *)
(* otherwise above the program.                                             *)
LEMMA WrittenClear ==
  ASSUME IInv, ConfigPlaced, pc = "config"
  PROVE  LET frames == UNION {Reaches(p) : p \in ConfigPages}
         IN  frames \cap KernelFrames = {} /\ (ahci_config = Failed => frames = {NULL})
<1>1. CASE ahci_config = Failed
  <2>1. Reaches(0) = {0} BY ReachesIdentity, SizeFacts
  <2>2. ConfigPages = {0} BY <1>1 DEF ConfigPages, NULL
  <2>3. UNION {Reaches(p) : p \in ConfigPages} = {0} BY <2>1, <2>2
  <2>4. 0 \notin KernelFrames BY FrameAssumption
  <2> QED BY <2>3, <2>4 DEF NULL
<1>2. CASE ahci_config # Failed
  <2>1. ASSUME NEW p \in ConfigPages PROVE Reaches(p) \cap KernelFrames = {}
    <3>1. p \in Nat /\ phy <= p BY <1>2, <2>1, ConfigPageNear
    <3> QED BY <3>1, ProgramBelow
  <2> QED BY <1>2, <2>1
<1> QED BY <1>1, <1>2

(* Only the search places the configuration, and where it may is what the   *)
(* lemmas on the heap say: behind the header, and early enough to end in    *)
(* the next page.                                                           *)
LEMMA PlacedInv == IInv /\ ConfigPlaced /\ [Next]_vars => ConfigPlaced'
<1> SUFFICES ASSUME IInv, ConfigPlaced, [Next]_vars PROVE ConfigPlaced' OBVIOUS
<1>1. CASE UNCHANGED <<ahci_config, header, written>> BY <1>1 DEF ConfigPlaced
<1>2. CASE /\ pc = "search" /\ written' = written
           /\ \/ header' \in {{}} \cup Garbage /\ ahci_config' = Allocation[header']
              \/ ahci_config' = Failed
  <2>1. written = {} BY <1>2 DEF IInv, CopyingInv
  <2>2. CASE header' \in {{}} \cup Garbage /\ ahci_config' = Allocation[header']
    <3>1. ahci_config' = SearchHeap(header', PointerBytes) BY <2>2 DEF Allocation
    <3>2. HeaderBytes <= PageBytes /\ HeaderBytes \in Nat /\ PageBytes \in Nat
      BY ConfigAssumption, HeapSizes
    <3>3. ahci_config' \in Room /\ (header' = {} => ahci_config' = HeaderBytes)
      BY <3>1, <3>2, SearchStaysClear
    <3> QED BY <1>2, <2>1, <3>2, <3>3, ConfigAssumption DEF ConfigPlaced, Room
  <2>3. CASE ahci_config' = Failed BY <1>2, <2>1, <2>3 DEF ConfigPlaced
  <2> QED BY <1>2, <2>2, <2>3
<1>3. CASE /\ pc = "config" /\ UNCHANGED <<ahci_config, header>>
           /\ written' = UNION {Reaches(p) : p \in ConfigPages}
  BY <1>3, WrittenClear DEF ConfigPlaced
<1> QED
  BY <1>1, <1>2, <1>3 DEF Next, BootStep, TlbStep, vars, setup, PagingSetup, FindAhci,
     FindAhciReturns, Kalloc, PreparePage, SearchPage, GetPciDevice, MapRegisters, ReadPorts,
     ProbePort, ProbeReturns, Faults, StrayFaults, StrayOverwrites

(* The device's configuration goes behind the header of kalloc's page, or,  *)
(* if kalloc read another bitmap than it wrote, no further than the page    *)
(* after it; and wherever it is written, also through NULL, it leaves the   *)
(* program's own memory alone.                                              *)
THEOREM ConfigurationPlaced == Spec => []ConfigPlaced
<1>1. Init => ConfigPlaced BY DEF Init, ConfigPlaced
<1> QED BY <1>1, PlacedInv, Invariance, PTL DEF Spec

(* Where the copy of the configuration may fault.                           *)
LEMMA ConfigFault ==
  ASSUME IInv, ConfigPlaced, pc = "config", NEW p \in ConfigPages, Reaches(p) = {}
  PROVE  phy + 1 >= TableSize
<1>1. ahci_config # Failed
  <2>1. Reaches(0) # {} BY ReachesIdentity, SizeFacts
  <2> QED BY <2>1 DEF ConfigPages, NULL
<1>2. phy \in Nat /\ p \in {phy, phy + 1} BY <1>1, ConfigPageNear
<1> QED BY <1>2, FrameUnmapped, SizeFacts

(* The boot thread faults for one of three reasons only: kalloc's page or   *)
(* the next is not mapped, a port lies beyond the page of registers, or a   *)
(* pointer that prepare_page or kalloc never set (alloc.c:42, 136) led into *)
(* the empty table or behind the last.                                      *)
THEOREM FaultsHaveThreeCauses == Spec => []FaultsExplained
<1>1. Init => FaultsExplained BY DEF Init, FaultsExplained
<1>2. IInv /\ ConfigPlaced /\ FaultsExplained /\ [Next]_vars => FaultsExplained'
  <2> SUFFICES ASSUME IInv, ConfigPlaced, FaultsExplained, [Next]_vars, pc' = "fault"
               PROVE  \/ phy' + 1 >= TableSize \/ \E p \in implemented' : p >= NearPorts
                      \/ \E p \in stray' : Unmappable(p)
    BY DEF FaultsExplained
  <2>1. CASE pc = "fault"
    BY <2>1 DEF FaultsExplained, Next, BootStep, TlbStep, vars, setup, PagingSetup, FindAhci,
       FindAhciReturns, Kalloc, PreparePage, SearchPage, GetPciDevice, MapRegisters, ReadPorts,
       ProbePort, ProbeReturns
  <2>2. CASE pc # "fault"
    <3>1. /\ UNCHANGED <<phy, implemented>>
          /\ \/ pc \in {"prepare", "search"} /\ Faults(phy)
             \/ /\ pc \in {"prepare", "search"}
                /\ \E pages \in UnsetPages : StrayFaults(pages)
             \/ pc = "config" /\ \E p \in ConfigPages : Faults(p)
             \/ pc = "pi" /\ Faults(ahci_mem_base)
             \/ pc = "probe" /\ i \in pi /\ Faults(PortPage)
      BY <2>2 DEF Next, BootStep, TlbStep, vars, setup, PagingSetup, FindAhci,
         FindAhciReturns, Kalloc, PreparePage, SearchPage, GetPciDevice, MapRegisters,
         ReadPorts, ProbePort, ProbeReturns, Faults, StrayFaults, StrayOverwrites
    <3>2. CASE pc \in {"prepare", "search"} /\ Faults(phy)
      <4>1. phy \in Nat BY FrameAssumption DEF IInv, TypeOK, NULL
      <4> QED BY <3>1, <3>2, <4>1, FrameUnmapped, SizeFacts DEF Faults
    <3>3. CASE pc \in {"prepare", "search"} /\ \E pages \in UnsetPages : StrayFaults(pages)
      <4>1. PICK pages \in UnsetPages : StrayFaults(pages) BY <3>3
      <4>2. PICK p \in pages : Reaches(p) = {} BY <4>1 DEF StrayFaults
      <4>3. p \in Nat BY <4>2, FrameAssumption
      <4>4. Unmappable(p) BY <3>3, <4>2, <4>3, FaultUnmappable DEF Unmapped
      <4>5. stray' = pages BY <4>1 DEF StrayFaults
      <4> QED BY <4>2, <4>4, <4>5
    <3>4. CASE pc = "config" /\ \E p \in ConfigPages : Faults(p)
      BY <3>1, <3>4, ConfigFault DEF Faults
    <3>5. CASE pc = "pi" /\ Faults(ahci_mem_base)
      BY <3>5, ReachesRegisters DEF Faults, Probing
    <3>6. CASE pc = "probe" /\ i \in pi /\ Faults(PortPage)
      <4>1. i \in implemented /\ i \in Nat /\ ~(i < NearPorts)
        BY <3>6, PortIsNear DEF Faults, IInv, TypeOK, TablesInv
      <4> QED BY <3>1, <4>1, PortAssumption
    <3> QED BY <3>1, <3>2, <3>3, <3>4, <3>5, <3>6
  <2> QED BY <2>1, <2>2
<1> QED BY <1>1, <1>2, Invariance, ConfigurationPlaced, PTL DEF Spec
=============================================================================
