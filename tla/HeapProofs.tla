------------------------------- MODULE HeapProofs -------------------------------
(***************************************************************************)
(* Where kalloc's search of the bitmap may put what it is asked for, for    *)
(* every page size, bitmap and size.                                        *)
(***************************************************************************)
EXTENDS Heap, RecursionLemmas

LEMMA HeapSizes ==
  /\ PageBytes \in Nat /\ BITMAP_BYTES \in Nat /\ PageBytes = 8 * BITMAP_BYTES
  /\ HeaderBytes = BITMAP_BYTES + 1
  /\ FirstBit \in Nat /\ FirstBit <= HeaderBytes
  /\ BitsRead \in Int /\ BitsRead = PageBytes - FirstBit
BY HeapAssumption DEF BITMAP_BYTES, HeaderBytes, FirstBit, BitsRead

(* What the loops keep, and where an address they may return can lie: past  *)
(* the header, and within a page and a header of it.                        *)
States == [currfit : Nat, bestfit : Nat, bestfitaddr : Int, result : Int]
Room == {Failed} \cup HeaderBytes .. HeaderBytes + PageBytes - 1

LEMMA StartTyped == Start \in States
BY DEF Start, States, Failed

(* One turn, field by field: a free bit is counted, a set one may give the *)
(* address of the room before it.                                           *)
LEMMA TurnFields ==
  ASSUME NEW bitmap, NEW size, NEW s \in States, NEW bit \in Int
  PROVE  /\ Turn(bitmap, size, s, bit) \in States
         /\ Turn(bitmap, size, s, bit).currfit <= s.currfit + 1
         /\ Turn(bitmap, size, s, bit).result \in {s.result, bit + HeaderBytes - s.currfit}
         /\ Turn(bitmap, size, s, bit).bestfitaddr
              \in {s.bestfitaddr, bit + HeaderBytes - s.currfit}
<1> DEFINE t == Turn(bitmap, size, s, bit)
           addr == bit + HeaderBytes - s.currfit
           free == [s EXCEPT !.currfit = s.currfit + 1]
           found == [s EXCEPT !.result = addr]
           better == [s EXCEPT !.bestfitaddr = addr, !.bestfit = s.currfit]
<1>1. addr \in Int /\ s.currfit \in Nat BY HeapSizes DEF States
<1>2. t \in {s, free, found, better} BY DEF Turn
<1> HIDE DEF t, addr
<1>3. /\ free \in States /\ free.currfit = s.currfit + 1
      /\ free.result = s.result /\ free.bestfitaddr = s.bestfitaddr
  BY <1>1 DEF States
<1>4. /\ found \in States /\ found.currfit = s.currfit
      /\ found.result = addr /\ found.bestfitaddr = s.bestfitaddr
  BY <1>1 DEF States
<1>5. /\ better \in States /\ better.currfit = s.currfit
      /\ better.result = s.result /\ better.bestfitaddr = addr
  BY <1>1 DEF States
<1> HIDE DEF free, found, better
<1>6. /\ t \in States /\ t.currfit <= s.currfit + 1
      /\ t.result \in {s.result, addr} /\ t.bestfitaddr \in {s.bestfitaddr, addr}
  BY <1>1, <1>2, <1>3, <1>4, <1>5
<1> QED BY <1>6 DEF t, addr

(* A free bit before anything is found, in the page as it starts out.       *)
LEMMA FreeTurn ==
  ASSUME NEW size, NEW k \in Nat, NEW bit
  PROVE  Turn({}, size, [Start EXCEPT !.currfit = k], bit) = [Start EXCEPT !.currfit = k + 1]
BY DEF Turn, Start, Failed

(* The two loops as a function of the number of bits read.                  *)
LEMMA LoopsDefined ==
  ASSUME NEW bitmap, NEW size, BitsRead \in Nat
  PROVE  LET f == AfterBits(bitmap, size)
         IN  /\ f \in [0 .. BitsRead -> States] /\ f[0] = Start
             /\ \A k \in 1 .. BitsRead :
                  f[k] = Turn(bitmap, size, f[k - 1], FirstBit + k - 1)
<1> DEFINE step == [k \in Nat |-> [s \in States |-> Turn(bitmap, size, s, FirstBit + k - 1)]]
           Body(f) == [k \in 0 .. BitsRead |->
                         IF k = 0 THEN Start
                         ELSE Turn(bitmap, size, f[k - 1], FirstBit + k - 1)]
<1>1. \A k \in Nat, s \in States : Turn(bitmap, size, s, FirstBit + k - 1) \in States
  <2>1. \A k \in Nat : FirstBit + k - 1 \in Int BY HeapSizes
  <2> QED BY <2>1, TurnFields
<1>2. step \in [Nat -> [States -> States]] BY <1>1
<1>3. PICK f \in [0 .. BitsRead -> States] :
        f[0] = Start /\ \A k \in 1 .. BitsRead : f[k] = step[k][f[k - 1]]
  <2> HIDE DEF step
  <2>1. PICK M \in Nat : M = BitsRead OBVIOUS
  <2>2. Iterable(States, Start, step) BY <1>2, StartTyped DEF Iterable
  <2>3. \E f \in [0 .. M -> States] : Iterates(f, Start, step, M) BY <2>2, Iteration
  <2>4. \E f \in [0 .. M -> States] :
          f[0] = Start /\ \A k \in 1 .. M : f[k] = step[k][f[k - 1]]
    BY <2>3 DEF Iterates
  <2> QED BY <2>1, <2>4
<1>4. \A k \in 1 .. BitsRead : f[k] = Turn(bitmap, size, f[k - 1], FirstBit + k - 1)
  <2> SUFFICES ASSUME NEW k \in 1 .. BitsRead
               PROVE f[k] = Turn(bitmap, size, f[k - 1], FirstBit + k - 1)
    OBVIOUS
  <2>1. k \in Nat /\ f[k - 1] \in States BY <1>3
  <2> QED BY <1>3, <2>1
<1>5. f = Body(f)
  <2>1. \A k \in 0 .. BitsRead : f[k] = Body(f)[k]
    <3> SUFFICES ASSUME NEW k \in 0 .. BitsRead PROVE f[k] = Body(f)[k] OBVIOUS
    <3>1. CASE k = 0 BY <1>3, <3>1
    <3>2. CASE k # 0
      <4>1. k \in 1 .. BitsRead BY <3>2
      <4> QED BY <1>4, <3>2, <4>1
    <3> QED BY <3>1, <3>2
  <2> QED BY <1>3, <2>1
<1>6. AfterBits(bitmap, size) = CHOOSE g : g = Body(g) BY DEF AfterBits
<1>7. PICK g : g = AfterBits(bitmap, size) /\ g = Body(g) BY <1>5, <1>6
<1>8. DOMAIN g = 0 .. BitsRead /\ g[0] = Start BY <1>7
<1>9. \A k \in 1 .. BitsRead : g[k] = Turn(bitmap, size, g[k - 1], FirstBit + k - 1)
  BY <1>7
<1>10. g \in [0 .. BitsRead -> States]
  <2> DEFINE T == {k \in 0 .. BitsRead : g[k] \in States}
  <2>1. 0 \in T BY <1>8, StartTyped
  <2>2. ASSUME NEW k \in 0 .. BitsRead, k \in T, k < BitsRead PROVE k + 1 \in T
    <3>1. k + 1 \in 1 .. BitsRead /\ (k + 1) - 1 = k BY <2>2
    <3>2. g[k + 1] = Turn(bitmap, size, g[k], FirstBit + (k + 1) - 1) BY <1>9, <3>1
    <3>3. k + 1 \in Nat /\ g[k] \in States BY <2>2
    <3>4. Turn(bitmap, size, g[k], FirstBit + (k + 1) - 1) \in States BY <1>1, <3>3
    <3> QED BY <2>2, <3>1, <3>2, <3>4
  <2>3. 0 .. BitsRead \subseteq T
    <3> HIDE DEF T
    <3> QED BY <2>1, <2>2, BoundedInduction
  <2> QED BY <1>7, <2>3
<1> QED BY <1>7, <1>8, <1>9, <1>10
-----------------------------------------------------------------------------
(* Whatever the bitmap shows: free bits are counted at most once, so that   *)
(* an address never falls into the header or below the page.                *)
LEMMA AddressesInRoom ==
  ASSUME NEW bitmap, NEW size, BitsRead \in Nat
  PROVE  LET s == AfterBits(bitmap, size)[BitsRead]
         IN  s.bestfitaddr \in Room /\ s.result \in Room
<1> DEFINE f == AfterBits(bitmap, size)
           T == {k \in 0 .. BitsRead : /\ f[k].currfit <= k
                                       /\ f[k].bestfitaddr \in Room /\ f[k].result \in Room}
<1>1. /\ f \in [0 .. BitsRead -> States] /\ f[0] = Start
      /\ \A k \in 1 .. BitsRead : f[k] = Turn(bitmap, size, f[k - 1], FirstBit + k - 1)
  BY LoopsDefined
<1> HIDE DEF f
<1>2. 0 \in T BY <1>1 DEF Start, Room
<1>3. ASSUME NEW k \in 0 .. BitsRead, k \in T, k < BitsRead PROVE k + 1 \in T
  <2> DEFINE bit == FirstBit + k
             addr == bit + HeaderBytes - f[k].currfit
  <2>1. k + 1 \in 1 .. BitsRead /\ (k + 1) - 1 = k /\ FirstBit + (k + 1) - 1 = bit
    BY <1>3, HeapSizes
  <2>2. f[k + 1] = Turn(bitmap, size, f[k], bit) BY <1>1, <2>1
  <2>3. bit \in Int /\ f[k] \in States BY <1>1, HeapSizes
  <2>4. f[k].currfit \in Nat /\ f[k].currfit <= k /\ f[k].bestfitaddr \in Room
        /\ f[k].result \in Room
    BY <1>3, <2>3 DEF States
  <2>5. addr \in Room
    BY <1>3, <2>4, HeapSizes DEF Room
  <2>6. /\ f[k + 1].currfit <= f[k].currfit + 1
        /\ f[k + 1].result \in {f[k].result, addr}
        /\ f[k + 1].bestfitaddr \in {f[k].bestfitaddr, addr}
        /\ f[k + 1] \in States
    BY <2>2, <2>3, TurnFields
  <2>7. /\ f[k + 1].currfit <= k + 1
        /\ f[k + 1].bestfitaddr \in Room /\ f[k + 1].result \in Room
    <3> HIDE DEF addr
    <3> QED BY <2>4, <2>5, <2>6 DEF States
  <2> QED BY <2>1, <2>7
<1>4. BitsRead \in T
  <2>1. 0 .. BitsRead \subseteq T
    <3> HIDE DEF T
    <3> QED BY <1>2, <1>3, BoundedInduction
  <2> QED BY <2>1
<1> QED BY <1>4 DEF f

(* The bitmap prepare_page left: every bit read is counted, and nothing is  *)
(* found before the loops end.                                              *)
LEMMA EmptyPageCounted ==
  ASSUME NEW size, BitsRead \in Nat
  PROVE  AfterBits({}, size)[BitsRead] = [Start EXCEPT !.currfit = BitsRead]
<1> DEFINE f == AfterBits({}, size)
           T == {k \in 0 .. BitsRead : f[k] = [Start EXCEPT !.currfit = k]}
<1>1. /\ f \in [0 .. BitsRead -> States] /\ f[0] = Start
      /\ \A k \in 1 .. BitsRead : f[k] = Turn({}, size, f[k - 1], FirstBit + k - 1)
  BY LoopsDefined
<1> HIDE DEF f
<1>2. 0 \in T BY <1>1 DEF Start
<1>3. ASSUME NEW k \in 0 .. BitsRead, k \in T, k < BitsRead PROVE k + 1 \in T
  <2>1. k + 1 \in 1 .. BitsRead /\ (k + 1) - 1 = k BY <1>3
  <2>2. f[k + 1] = Turn({}, size, f[k], FirstBit + (k + 1) - 1) BY <1>1, <2>1
  <2>3. f[k] = [Start EXCEPT !.currfit = k] BY <1>3
  <2>4. f[k + 1] = [Start EXCEPT !.currfit = k + 1] BY <2>2, <2>3, FreeTurn
  <2> QED BY <2>1, <2>4
<1>4. BitsRead \in T
  <2>1. 0 .. BitsRead \subseteq T
    <3> HIDE DEF T
    <3> QED BY <1>2, <1>3, BoundedInduction
  <2> QED BY <2>1
<1> QED BY <1>4 DEF f

(* What kalloc returns lies past the header, whatever bitmap it reads, and  *)
(* right behind it when it reads the one prepare_page wrote: the page it    *)
(* took is new, and the bits of what it handed out before are never set.    *)
THEOREM SearchStaysClear ==
  ASSUME HeaderBytes <= PageBytes, NEW size
  PROVE  /\ \A bitmap : SearchHeap(bitmap, size) \in Room
         /\ SearchHeap({}, size) = HeaderBytes
<1>1. BitsRead \in Nat BY HeapSizes
<1>2. HeaderBytes \in Room BY HeapSizes DEF Room
<1>3. ASSUME NEW bitmap PROVE SearchHeap(bitmap, size) \in Room
  <2>1. Failed \in Room BY DEF Room
  <2> QED BY <1>1, <1>2, <2>1, AddressesInRoom DEF SearchHeap, AfterSearch
<1>4. SearchHeap({}, size) = HeaderBytes
  <2> DEFINE s == AfterBits({}, size)[BitsRead]
  <2>1. s = [Start EXCEPT !.currfit = BitsRead] BY <1>1, EmptyPageCounted
  <2>2. s.result = Failed /\ s.bestfit = 0 /\ s.currfit = BitsRead BY <2>1 DEF Start
  <2>3. BitsRead >= PageBytes - HeaderBytes BY HeapSizes
  <2> HIDE DEF s
  <2>4. AfterSearch(s) = HeaderBytes BY <2>2, <2>3 DEF AfterSearch
  <2> QED BY <2>4 DEF SearchHeap, s
<1> QED BY <1>3, <1>4
=============================================================================
