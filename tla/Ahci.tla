---------------------------------- MODULE Ahci ----------------------------------
(***************************************************************************)
(* How kernel_main brings the AHCI controller up: find_ahci searches the    *)
(* PCI buses, setup_ahci takes a page from kalloc, copies the device's      *)
(* configuration into it, maps the controller's registers, and probe_port   *)
(* reads them.  The command line is off meanwhile, so that nobody else      *)
(* reads PCI configuration words (Console, ModeDiscipline), and a word is   *)
(* read in one step.  prepare_page and kalloc write a page's header through *)
(* two pointers they never set.  Where these point is a choice of the       *)
(* model: at a page that is not mapped, a page fault; at the program's own  *)
(* memory, which is lost, and nothing is said of what follows; at NULL; or  *)
(* at other memory, which keeps what is written or shows something else.    *)
(***************************************************************************)
EXTENDS PageTables, Heap

CONSTANTS
  Buses, Devices, Functions,  \* numbers of buses, devices and functions
  PciMaps,           \* what the functions are, in the machines considered
  Bar5,              \* the frame of each function's registers
  PortSets,          \* what the controller's port mask may be
  NPorts, NearPorts, \* the ports the mask has bits for, and how many of
                     \* them have their registers in the first page
  FreeFrames,        \* the frames get_free_phy_page may return
  KernelFrames,      \* the frames of the program, its stack and its tables
  UnsetPages,        \* the pages a header lies in behind a pointer never set
  Garbage,           \* bitmaps that memory which keeps no copy may show
  ConfigBytes,       \* sizeof(HEADER_TYPE_0x0)
  PointerBytes       \* sizeof(AHCI_PCI_HEADER), which is a pointer

Places == (0 .. Buses - 1) \X (0 .. Devices - 1) \X (0 .. Functions - 1)
Kinds == {"none", "other", "storage", "ahci"}
NULL == 0

ASSUME PciAssumption ==
  /\ Buses \in Nat \ {0} /\ Devices \in Nat \ {0} /\ Functions \in Nat \ {0}
  /\ PciMaps \subseteq [Places -> Kinds] /\ Bar5 \in [Places -> Nat]
ASSUME PortAssumption ==
  NPorts \in Nat /\ NearPorts \in Nat /\ PortSets \subseteq SUBSET (0 .. NPorts - 1)
(* The program lies in the first table's pages, and free frames behind it   *)
(* (PageFrames, KernelNeverTaken).                                          *)
ASSUME FrameAssumption ==
  /\ FreeFrames \subseteq Nat
  /\ KernelFrames \subseteq 1 .. TableSize - 1
  /\ \A f \in FreeFrames, k \in KernelFrames : k < f
  /\ UnsetPages \subseteq SUBSET Nat
ASSUME ConfigAssumption ==
  /\ ConfigBytes \in Nat \ {0} /\ PointerBytes \in Nat
  /\ Garbage \subseteq SUBSET (0 .. PageBytes - 1)
  /\ HeaderBytes + ConfigBytes <= PageBytes    \* 513 + 64 <= 4096

VARIABLES
  pci, implemented,      \* the machine
  pc,                    \* where the boot thread is
  bus, dev, is_valid, ahci_bus, ahci_device,        \* find_ahci
  phy, ahci_config, ahci_mem_base, pi, i,     \* setup_ahci and probe_port
  header,                \* the bitmap kalloc saw
  stray,                 \* history: where a pointer never set led to a fault
  written,               \* history: frames the configuration was written to
  seen                   \* history: ports read, each with the frame reached

search == <<bus, dev, is_valid, ahci_bus, ahci_device>>
setup == <<phy, header, ahci_config, ahci_mem_base, pi, i, stray, written, seen>>
vars == <<memory, pci, implemented, pc, search, setup>>

TypeOK ==
  /\ MemoryTypeOK
  /\ pci \in PciMaps /\ implemented \in PortSets
  /\ pc \in {"paging", "find", "kalloc", "prepare", "search", "config", "map", "pi", "probe",
             "done", "fault", "lost"}
  /\ bus \in 0 .. Buses /\ dev \in 0 .. Devices - 1 /\ is_valid \in BOOLEAN
  /\ <<ahci_bus, ahci_device, 0>> \in Places
  /\ phy \in FreeFrames \cup {NULL} /\ ahci_mem_base \in Pages
  /\ header \subseteq 0 .. PageBytes - 1
  /\ stray \subseteq Nat /\ written \subseteq Nat
  /\ pi \subseteq 0 .. NPorts - 1 /\ i \in 0 .. NPorts
  /\ seen \subseteq (0 .. NPorts - 1) \X Nat

Init ==
  /\ MemoryInit
  /\ pci \in PciMaps /\ implemented \in PortSets
  /\ pc = "paging"
  /\ bus = 0 /\ dev = 0 /\ is_valid = FALSE /\ ahci_bus = 0 /\ ahci_device = 0
  /\ phy = NULL /\ header = {} /\ ahci_config = Failed
  /\ ahci_mem_base = 0 /\ pi = {} /\ i = 0
  /\ stray = {} /\ written = {} /\ seen = {}

(* An access of the boot thread to a page that reaches no frame.            *)
Faults(page) ==
  /\ Reaches(page) = {}
  /\ pc' = "fault"
  /\ UNCHANGED <<memory, pci, implemented, search, setup>>

PagingSetup ==
  /\ pc = "paging" /\ pc' = "find"
  /\ paging_setup
  /\ UNCHANGED <<pci, implemented, search, setup>>

(* is_ahci returning 0: function 0 is there, of class 1 and subclass 6.  No *)
(* other function is looked at.                                             *)
(* Mutant: the subclass is not looked at.                                   *)
is_ahci_class(b, d) == pci[<<b, d, 0>>] \in {"storage", "ahci"}
is_ahci(b, d) == pci[<<b, d, 0>>] = "ahci"

(* A match leaves the inner loop and the search goes on at the next bus.    *)
FindAhci ==
  /\ pc = "find" /\ bus < Buses
  /\ IF is_ahci(bus, dev)
       THEN is_valid' = TRUE /\ ahci_bus' = bus /\ ahci_device' = dev
       ELSE UNCHANGED <<is_valid, ahci_bus, ahci_device>>
  /\ IF is_ahci(bus, dev) \/ dev = Devices - 1
       THEN bus' = bus + 1 /\ dev' = 0 ELSE bus' = bus /\ dev' = dev + 1
  /\ UNCHANGED <<memory, pci, implemented, pc, setup>>

FindAhciReturns ==
  /\ pc = "find" /\ bus = Buses
  /\ pc' = IF is_valid THEN "kalloc" ELSE "done"
  /\ UNCHANGED <<memory, pci, implemented, search, setup>>

(* kalloc finds a frame (PageFrames, KallocNeverRefused) and appends a page.*)
Kalloc ==
  /\ pc = "kalloc" /\ pc' = "prepare"
  /\ phy' \in FreeFrames
  /\ append_page
  /\ UNCHANGED <<pci, implemented, search, header, ahci_config, ahci_mem_base, pi, i,
                 stray, written, seen>>

(* A header is written to the pages a pointer never set leads to: one of    *)
(* them is not mapped,                                                      *)
StrayFaults(pages) ==
  /\ \E p \in pages : Reaches(p) = {}
  /\ pc' = "fault" /\ stray' = pages
  /\ UNCHANGED <<memory, pci, implemented, search, phy, header, ahci_config, ahci_mem_base,
                 pi, i, written, seen>>

(* or one is the program's,                                                 *)
StrayOverwrites(pages) ==
  /\ \E p \in pages : Reaches(p) \cap KernelFrames # {}
  /\ pc' = "lost"
  /\ UNCHANGED <<memory, pci, implemented, search, setup>>

(* or neither.                                                              *)
Harmless(pages) == \A p \in pages : Reaches(p) # {} /\ Reaches(p) \cap KernelFrames = {}

(* prepare_page makes the header behind such a pointer, and copies it to    *)
(* the frame through the frame's own address.                               *)
PreparePage ==
  /\ pc = "prepare"
  /\ \E pages \in UnsetPages :
       \/ StrayFaults(pages) \/ StrayOverwrites(pages)
       \/ Harmless(pages) /\ Faults(phy)
       \/ /\ Harmless(pages) /\ Reaches(phy) # {} /\ pc' = "search"
          /\ UNCHANGED <<memory, pci, implemented, search, setup>>

(* Where the structure goes, for each bitmap the search may see.            *)
Allocation == [bitmap \in {{}} \cup Garbage |-> SearchHeap(bitmap, PointerBytes)]

(* kalloc copies the header to where another such pointer leads, and        *)
(* returns NULL if that is NULL; setup_ahci asks for a pointer's size.      *)
SearchPage ==
  /\ pc = "search"
  /\ \E pages \in UnsetPages :
       \/ Faults(phy) \/ StrayFaults(pages) \/ StrayOverwrites(pages)
       \/ /\ Reaches(phy) # {} /\ Harmless(pages) /\ pc' = "config"
          /\ \/ /\ header' \in {{}} \cup Garbage
                /\ ahci_config' = Allocation[header']
             \/ pages = {NULL} /\ ahci_config' = Failed /\ UNCHANGED header
          /\ UNCHANGED <<memory, pci, implemented, search, phy, ahci_mem_base, pi, i, stray,
                         written, seen>>

(* get_pci_normal_device fills the structure kalloc returned, whose failure *)
(* setup_ahci reports and ignores.                                          *)
ConfigPages ==
  IF ahci_config = Failed THEN {NULL}
  ELSE {phy + (b \div PageBytes) : b \in {ahci_config, ahci_config + ConfigBytes - 1}}
GetPciDevice ==
  /\ pc = "config"
  /\ \/ \E p \in ConfigPages : Faults(p)
     \/ /\ \A p \in ConfigPages : Reaches(p) # {}
        /\ pc' = "map" /\ written' = UNION {Reaches(p) : p \in ConfigPages}
        /\ UNCHANGED <<memory, pci, implemented, search, phy, header, ahci_config,
                       ahci_mem_base, pi, i, stray, seen>>

Bar == Bar5[<<ahci_bus, ahci_device, 0>>]

MapRegisters ==
  /\ pc = "map" /\ pc' = "pi"
  /\ ahci_mem_base' \in Pages /\ append_page_at_addr(Bar, ahci_mem_base')
  /\ UNCHANGED <<pci, implemented, search, phy, header, ahci_config, pi, i, stray, written,
                 seen>>

(* probe_port reads the port mask, garbage if it is not the controller's,   *)
ReadPorts ==
  /\ pc = "pi"
  /\ \/ Faults(ahci_mem_base)
     \/ \E f \in Reaches(ahci_mem_base) :
          /\ IF f = Bar THEN pi' = implemented ELSE pi' \in PortSets
          /\ pc' = "probe"
          /\ UNCHANGED <<memory, pci, implemented, search, phy, header, ahci_config,
                         ahci_mem_base, i, stray, written, seen>>

(* The page of a port's registers.                                          *)
PortPage == ahci_mem_base + IF i < NearPorts THEN 0 ELSE 1

(* and then the registers of each port in it.                               *)
(* Mutant: the loop goes one port too far.                                  *)
ProbePortFar ==
  /\ pc = "probe" /\ i <= NPorts
  /\ \/ i \in pi /\ Faults(PortPage)
     \/ /\ i \notin pi /\ i' = i + 1 /\ UNCHANGED seen
        /\ UNCHANGED <<memory, pci, implemented, pc, search, phy, header, ahci_config,
                       ahci_mem_base, pi, stray, written>>
ProbePort ==
  /\ pc = "probe" /\ i < NPorts
  /\ \/ i \in pi /\ Faults(PortPage)
     \/ /\ \/ \E f \in Reaches(PortPage) : i \in pi /\ seen' = seen \cup {<<i, f>>}
           \/ i \notin pi /\ UNCHANGED seen
        /\ i' = i + 1
        /\ UNCHANGED <<memory, pci, implemented, pc, search, phy, header, ahci_config,
                       ahci_mem_base, pi, stray, written>>

ProbeReturns ==
  /\ pc = "probe" /\ i = NPorts /\ pc' = "done"
  /\ UNCHANGED <<memory, pci, implemented, search, setup>>

BootStep ==
  \/ PagingSetup \/ FindAhci \/ FindAhciReturns
  \/ Kalloc \/ PreparePage \/ SearchPage \/ GetPciDevice
  \/ MapRegisters \/ ReadPorts \/ ProbePort \/ ProbeReturns

TlbStep ==
  /\ TlbFill \/ TlbEvict
  /\ UNCHANGED <<pci, implemented, pc, search, setup>>

Next == BootStep \/ TlbStep

Spec == Init /\ [][Next]_vars
-----------------------------------------------------------------------------
(* find_ahci reports a controller exactly when one is at function 0 of a    *)
(* device, and chooses the first on the last such bus: its break leaves one *)
(* loop of two.  A controller at another function (print_dev has a loop for *)
(* those, pci.c:36) is reported as missing.                                 *)
FindsLastBus ==
  pc \notin {"paging", "find"} =>
    /\ is_valid <=> \E p \in Places : pci[p] = "ahci" /\ p[3] = 0
    /\ is_valid => /\ pci[<<ahci_bus, ahci_device, 0>>] = "ahci"
                   /\ \A p \in Places : pci[p] = "ahci" /\ p[3] = 0 =>
                        p[1] < ahci_bus \/ (p[1] = ahci_bus /\ ahci_device <= p[2])

(* Whatever the TLB holds, each port register read is the controller's, and *)
(* lies in the page that was mapped.                                        *)
RegistersAreDevices == \A r \in seen : r[1] < NearPorts /\ r[2] = Bar

(* The second table, which is empty, and what lies behind the last.         *)
Unmappable(p) == p \in TableSize .. 2 * TableSize - 1 \/ p >= NTables * TableSize

(* Bringing the controller up faults only if kalloc's page or the next one  *)
(* is not mapped, if a port is implemented beyond the page of registers, or *)
(* if a pointer that was never set led into the second table or behind the  *)
(* last: no other page can fault, whatever was filled and kept.             *)
FaultsExplained ==
  pc = "fault" =>
    \/ phy + 1 >= TableSize
    \/ \E p \in implemented : p >= NearPorts
    \/ \E p \in stray : Unmappable(p)

(* The structure that takes the device's configuration, sixteen times what  *)
(* kalloc was asked for, lies in kalloc's page behind its header when the   *)
(* header was read back as written; whatever was read, it ends no later     *)
(* than the next page.  Written there, or through the NULL that setup_ahci  *)
(* does not stop at, it never falls on the program, and goes to the first   *)
(* frame without a fault in the second case.                                *)
ConfigPlaced ==
  /\ ahci_config # Failed =>
       /\ ahci_config \in Nat /\ ahci_config + ConfigBytes <= 2 * PageBytes
       /\ header = {} =>
            HeaderBytes <= ahci_config /\ ahci_config + ConfigBytes <= PageBytes
  /\ written \cap KernelFrames = {}
  /\ written # {} /\ ahci_config = Failed => written = {NULL}
=============================================================================
