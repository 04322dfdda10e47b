------------------------------ MODULE PageTables ------------------------------
(***************************************************************************)
(* The kernel's page directory: paging_setup of mem/pagetable, append_page  *)
(* and append_page_at_addr of mem/pageframe, and the processor's TLB        *)
(* (external), which the kernel never flushes.  A directory slot that is    *)
(* present holds one of the tables 0 .. NTables - 1; an entry that is not   *)
(* present keeps no frame worth modelling.  kappend_page, map_page_at_addr, *)
(* remap_kernel and the TLB routines have no caller.                        *)
(***************************************************************************)
EXTENDS Naturals

CONSTANTS
  TableSize,   \* PAGE_TABLE_SIZE, entries of a table
  NTables      \* directory slots that paging_setup makes present

ASSUME SizeAssumption ==
  TableSize \in Nat /\ NTables \in Nat /\ 2 <= NTables /\ NTables <= TableSize

VARIABLES
  paging,      \* the processor translates addresses
  table,       \* the tables the directory holds
  tlb          \* the translations the processor has kept

memory == <<paging, table, tlb>>

Slots == 0 .. NTables - 1
Entries == 0 .. TableSize - 1
Absent == [present |-> FALSE, frame |-> 0]
Present(f) == [present |-> TRUE, frame |-> f]

(* create_virtual_address with offset 0, in pages.                          *)
Page(slot, entry) == slot * TableSize + entry
Pages == 0 .. NTables * TableSize - 1
EntryOf(p) == table[p \div TableSize][p % TableSize]

MemoryTypeOK ==
  /\ paging \in BOOLEAN
  /\ table \in [Slots -> [Entries -> [present : BOOLEAN, frame : Nat]]]
  /\ DOMAIN tlb \subseteq Pages /\ \A p \in DOMAIN tlb : tlb[p] \in Nat

MemoryInit ==
  /\ paging = FALSE
  /\ table = [s \in Slots |-> [e \in Entries |-> Absent]]
  /\ tlb = [p \in {} |-> 0]

(* What an access to a page reaches: a frame, or nothing, a page fault.     *)
Reaches(p) ==
  IF ~paging THEN {p}
  ELSE IF p \in DOMAIN tlb THEN {tlb[p]}
  ELSE IF p \in Pages /\ EntryOf(p).present THEN {EntryOf(p).frame} ELSE {}

(* Mutant: the loop leaves the last entry out.                              *)
SetupTablesShort ==
  table' = [s \in Slots |-> [e \in Entries |->
              IF s = 1 \/ e = TableSize - 1 THEN Absent
              ELSE Present(IF s = 0 THEN e ELSE Page(s - 1, e))]]
(* Mutant: the first table is shifted like the others.                      *)
SetupTablesShifted ==
  table' = [s \in Slots |-> [e \in Entries |->
              IF s = 1 THEN Absent ELSE Present(IF s = 0 THEN e + 1 ELSE Page(s - 1, e))]]

(* The first table is the identity; the second is left empty; the others    *)
(* map the frames one table below their pages.                              *)
SetupTables ==
  table' = [s \in Slots |-> [e \in Entries |->
              IF s = 1 THEN Absent ELSE Present(IF s = 0 THEN e ELSE Page(s - 1, e))]]

(* Loading CR3 empties the TLB.                                             *)
paging_setup ==
  /\ SetupTables
  /\ paging' = TRUE /\ tlb' = [p \in {} |-> 0]

(* The first entry, in the order of the two loops, that satisfies Test.     *)
IsFirst(s, e, Test(_, _)) ==
  /\ s \in Slots /\ e \in Entries /\ Test(s, e)
  /\ \A s2 \in Slots, e2 \in Entries : Page(s2, e2) < Page(s, e) => ~Test(s2, e2)

Set(s, e, entry) == table' = [table EXCEPT ![s][e] = entry]

IsAbsent(s, e) == ~table[s][e].present

(* Mutant: the third argument of kalloc's call, 3, is taken as the flags.   *)
append_page_flags ==
  /\ \E s \in Slots, e \in Entries :
       IsFirst(s, e, IsAbsent) /\ Set(s, e, Present(Page(s, e)))
  /\ UNCHANGED <<paging, tlb>>
(* append_page as kalloc calls it, its flags the low half of an address: of *)
(* a page's address the present bit is 0, so the entry it fills is as       *)
(* absent as before.                                                        *)
append_page ==
  /\ \E s \in Slots, e \in Entries : IsFirst(s, e, IsAbsent) /\ Set(s, e, Absent)
  /\ UNCHANGED <<paging, tlb>>

(* append_page_at_addr tests the entry numbered like the slot and fills the *)
(* one its inner loop is at, which is then still the first.                 *)
(* Mutant: "!= 0" for "== 0".                                               *)
TestEntryInverted(s, e) == table[s][s].present
TestEntry(s, e) == ~table[s][s].present

append_page_at_addr(frame, page) ==
  /\ \/ \E s \in Slots, e \in Entries :
          /\ IsFirst(s, e, TestEntry)
          /\ Set(s, e, Present(frame)) /\ page = Page(s, e)
     \/ (\A s \in Slots, e \in Entries : ~TestEntry(s, e)) /\ page = 0 /\ UNCHANGED table
  /\ UNCHANGED <<paging, tlb>>

(* The processor keeps and forgets translations as it likes.                *)
TlbFill ==
  /\ \E p \in Pages \ DOMAIN tlb :
       /\ paging /\ EntryOf(p).present
       /\ tlb' = [q \in DOMAIN tlb \cup {p} |-> IF q = p THEN EntryOf(p).frame ELSE tlb[q]]
  /\ UNCHANGED <<paging, table>>

TlbEvict ==
  /\ \E p \in DOMAIN tlb : tlb' = [q \in DOMAIN tlb \ {p} |-> tlb[q]]
  /\ UNCHANGED <<paging, table>>
-----------------------------------------------------------------------------
(* The kernel, its stack, its tables and video memory lie in the first      *)
(* table's pages: they stay where they are, in every context.               *)
IdentityKept == paging => \A e \in Entries : table[0][e] = Present(e)

(* Nothing flushes the TLB, so no entry that is present may change.         *)
TlbCoherent == \A p \in DOMAIN tlb : EntryOf(p) = Present(tlb[p])
=============================================================================
