---------------------------------- MODULE Heap ----------------------------------
(***************************************************************************)
(* The search kalloc makes in its page for room, as a function of the       *)
(* bitmap it sees.  A page starts with a header: a signature and a bit for  *)
(* each of its bytes.  kalloc never sets the pointer it copies the header   *)
(* through, so the bitmap it searches is the page's only if what is there   *)
(* keeps what is written; and it drops the bits it computes to mark the     *)
(* room as taken, so every call finds the bitmap prepare_page left.  A      *)
(* bitmap is the set of the bits that are set; addresses count from the     *)
(* page.                                                                    *)
(***************************************************************************)
EXTENDS Integers

CONSTANTS
  PageBytes,   \* PAGE_SIZE
  WordBits     \* bits of an unsigned int, the type currfit - size has

ASSUME HeapAssumption == PageBytes \in Nat /\ PageBytes % 8 = 0 /\ WordBits \in Nat

BITMAP_BYTES == PageBytes \div 8
HeaderBytes == 1 + BITMAP_BYTES

(* The bits the two loops read: the first bytes of the bitmap are skipped,  *)
(* as many as the header would have if it had an eighth of its size.        *)
FirstBit == 8 * (HeaderBytes \div 8)
BitsRead == 8 * BITMAP_BYTES - FirstBit

Failed == -1
Start == [currfit |-> 0, bestfit |-> 0, bestfitaddr |-> Failed, result |-> Failed]

Unsigned(n) == n % 2^WordBits

(* One turn: free bits add up over the ones in use between them, and the    *)
(* unsigned difference makes room that is too small look the largest.       *)
Turn(bitmap, size, s, bit) ==
  LET more == Unsigned(s.currfit - size)
      addr == bit + HeaderBytes - s.currfit
  IN  CASE s.result # Failed -> s
        [] s.result = Failed /\ bit \notin bitmap -> [s EXCEPT !.currfit = @ + 1]
        [] s.result = Failed /\ bit \in bitmap /\ more = 0 -> [s EXCEPT !.result = addr]
        [] s.result = Failed /\ bit \in bitmap /\ more # 0 ->
             IF s.bestfit < more
               THEN [s EXCEPT !.bestfitaddr = addr, !.bestfit = s.currfit] ELSE s

(* The state of the loops after each number of bits.                        *)
AfterBits(bitmap, size) ==
  LET after[k \in 0 .. BitsRead] ==
        IF k = 0 THEN Start ELSE Turn(bitmap, size, after[k - 1], FirstBit + k - 1)
  IN  after

(* What the search returns once the loops are over.                         *)
(* Mutant: the start of the page, header and all.                           *)
AfterSearchAtStart(s) ==
  IF s.result # Failed THEN s.result
  ELSE IF s.bestfit = 0 /\ s.currfit >= PageBytes - HeaderBytes THEN 0
  ELSE IF s.currfit = 0 /\ s.bestfit = 0 THEN Failed
  ELSE s.bestfitaddr
AfterSearch(s) ==
  IF s.result # Failed THEN s.result
  ELSE IF s.bestfit = 0 /\ s.currfit >= PageBytes - HeaderBytes THEN HeaderBytes
  ELSE IF s.currfit = 0 /\ s.bestfit = 0 THEN Failed
  ELSE s.bestfitaddr

SearchHeap(bitmap, size) == AfterSearch(AfterBits(bitmap, size)[BitsRead])
=============================================================================
