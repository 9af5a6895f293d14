-------------------------------- MODULE Heap --------------------------------
(***************************************************************************)
(* The heap of the kernel, heap.cc, and that of the programs, heap.c.      *)
(*                                                                         *)
(* One array holds everything.  A block has its size at both ends, below   *)
(* zero while it is taken; a free one has the links of the free list       *)
(* behind its first word.  Two taken blocks at the ends of the array are   *)
(* never given out.  The two heaps differ in the search for a block, and   *)
(* programs have realloc().  In the kernel a call is one step since it is  *)
(* made under theLock; a program has one thread.                           *)
(***************************************************************************)
EXTENDS Integers, Sequences, FiniteSets

CONSTANTS
  Kinds,     \* BOUND: the heaps to look at, "kernel" and "program"
  Len4,      \* the words of the array, len
  CountDown, \* how many blocks that fit malloc() looks at
  SizeW,         \* sizes are taken modulo SizeW (2^32)
  LockBytes, \* the size of theLock
  Asks,      \* BOUND: the sizes that are asked for
  Value,     \* BOUND: what owners store, which could be taken for a size
  MaxCalls   \* BOUND: how many calls there are

ASSUME HeapAssumption ==
  /\ Kinds \subseteq {"kernel", "program"}
  /\ Len4 \in Nat /\ Len4 >= 8 /\ CountDown \in Nat \ {0}
  /\ SizeW \in Nat /\ SizeW % 4 = 0 /\ SizeW >= 4 * Len4
  /\ Asks \subseteq 1..(SizeW - 1) /\ LockBytes \in 1..(4 * Len4 - 24) /\ Value \in Int /\ MaxCalls \in Nat

VARIABLES
  kind,      \* which heap this is
  heap,      \* array and avail
  held,      \* per pointer in use, the bytes asked for and what was stored
  last,      \* the words that a malloc() just looked for, and whether it failed
  heapPanic,
  calls      \* how many calls there were

heapVars == <<kind, heap, held, last, heapPanic, calls>>

Index == 0..(Len4 - 1)

-----------------------------------------------------------------------------

size(h, i) == IF h.array[i] < 0 THEN -h.array[i] ELSE h.array[i]
headerFromFooter(h, i) == i - size(h, i) + 1
footerFromHeader(h, i) == i + size(h, i) - 1

left(h, i) == headerFromFooter(h, i - 1)
right(h, i) == i + size(h, i)
next(h, i) == h.array[i + 1]
prev(h, i) == h.array[i + 2]

isAvail(h, i) == h.array[i] > 0
isTaken(h, i) == h.array[i] < 0

setNext(h, i, x) == [h EXCEPT !.array[i + 1] = x]
setPrev(h, i, x) == [h EXCEPT !.array[i + 2] = x]

(* Fault: the block behind keeps its link to the one that is gone.         *)
RemoveForward(h, i) ==
  IF prev(h, i) = 0 THEN [h EXCEPT !.avail = next(h, i)]
  ELSE setNext(h, prev(h, i), next(h, i))

remove(h, i) ==
  LET unlinked == IF prev(h, i) = 0 THEN [h EXCEPT !.avail = next(h, i)]
                  ELSE setNext(h, prev(h, i), next(h, i))
  IN  IF next(h, i) = 0 THEN unlinked ELSE setPrev(unlinked, next(h, i), prev(h, i))

Tag(h, i, n, tag) == [h EXCEPT !.array[i] = tag, !.array[i + n - 1] = tag]

makeAvail(h, i, ints) ==
  LET linked == setPrev(setNext(Tag(h, i, ints, ints), i, h.avail), i, 0)
      back == IF h.avail = 0 THEN linked ELSE setPrev(linked, h.avail, i)
  IN  [back EXCEPT !.avail = i]

makeTaken(h, i, ints) == Tag(h, i, ints, -ints)

UpTo(s, n) == IF n < Len(s) THEN SubSeq(s, 1, n) ELSE s

(* A block has four words at least, so that there are no more than these.  *)
MaxBlocks == Len4 \div 4

(* The places of a walk through the array from the first one on.           *)
Walk(first, onwards) ==
  LET at[n \in 0..MaxBlocks] == IF n = 0 THEN first ELSE onwards[at[n - 1]] IN at

(* The free list as it is linked; one that runs in circles or leads out of *)
(* the array is cut off.                                                   *)
List(h) ==
  LET onwards == [p \in Index |-> IF p # 0 /\ next(h, p) \in Index THEN next(h, p) ELSE 0]
      at == Walk(h.avail, onwards)
  IN  [k \in {n \in 1..MaxBlocks : at[n - 1] # 0} |-> at[k - 1]]

-----------------------------------------------------------------------------

(* heapInit() on memory that holds zeros, before theLock.                  *)
Empty ==
  LET zeros == [array |-> [i \in Index |-> 0], avail |-> 0] IN
  makeTaken(makeAvail(makeTaken(zeros, 0, 2), 2, Len4 - 4), Len4 - 2, 2)

(* The words of a block for a size; the sum in it wraps around.            *)
Ints(bytes) ==
  LET ints == ((bytes + 3) % SizeW) \div 4 + 2 IN IF ints < 4 THEN 4 ELSE ints

(* The blocks of a list that are big enough, by their numbers in it.       *)
Fitting(h, list, ints) == {k \in DOMAIN list : size(h, list[k]) >= ints}

(* The search of the kernel ends with the last block that counts.          *)
Seen(h, list, ints) ==
  {k \in DOMAIN list : Cardinality(Fitting(h, list, ints) \cap 1..(k - 1)) < CountDown}

(* Of these blocks the first of the smallest, 0 if there are none.         *)
FirstOfSmallest(h, list, blocks) ==
  IF blocks = {} THEN 0
  ELSE list[CHOOSE k \in blocks : \A j \in blocks :
              \/ size(h, list[k]) < size(h, list[j])
              \/ size(h, list[k]) = size(h, list[j]) /\ k <= j]

(* Fault: the search of the kernel gives up when the countdown is over,    *)
(* whatever it has seen.                                                   *)
BestFitOfSeen(h, ints) ==
  LET list == List(h) IN
  FirstOfSmallest(h, list, Fitting(h, list, ints) \cap 1..CountDown)

BestFit(h, ints) ==
  LET list == List(h) IN
  FirstOfSmallest(h, list, Fitting(h, list, ints) \cap Seen(h, list, ints))

(* A program takes the first that is big enough.                           *)
FirstFit(h, ints) ==
  LET list == List(h)
      fits == Fitting(h, list, ints) IN
  IF fits = {} THEN 0 ELSE list[CHOOSE k \in fits : \A j \in fits : k <= j]

Search(h, ints) == IF kind = "kernel" THEN BestFit(h, ints) ELSE FirstFit(h, ints)

(* Fault: the block stays in the free list.                                *)
TakeLinked(h, it, ints) ==
  LET mx == size(h, it)
      extra == mx - ints IN
  IF extra >= 4 THEN makeAvail(makeTaken(h, it, ints), it + ints, extra)
  ELSE makeTaken(h, it, mx)

(* Block it, which is big enough, without what is left over.               *)
Take(h, it, ints) ==
  LET mx == size(h, it)
      extra == mx - ints
      without == remove(h, it) IN
  IF extra >= 4 THEN makeAvail(makeTaken(without, it, ints), it + ints, extra)
  ELSE makeTaken(without, it, mx)

(* A block is given back and joined with its free neighbours.              *)
Give(h, idx) ==
  LET l == left(h, idx)
      r == right(h, idx)
      withLeft == IF isAvail(h, l) THEN remove(h, l) ELSE h
      start == IF isAvail(h, l) THEN l ELSE idx
      withRight == IF isAvail(h, r) THEN remove(withLeft, r) ELSE withLeft
      end == IF isAvail(h, r) THEN r + size(h, r) ELSE r
  IN  makeAvail(withRight, start, end - start)

NoSearch == [ints |-> 0, failed |-> FALSE]

(* The kernel makes theLock for the heap on the heap.                      *)
HeapInit ==
  /\ kind \in Kinds
  /\ heap = IF kind = "kernel" THEN Take(Empty, 2, Ints(LockBytes)) ELSE Empty
  /\ held = [p \in {} |-> 0]
  /\ last = NoSearch
  /\ heapPanic = FALSE
  /\ calls = 0

-----------------------------------------------------------------------------

Block(p) == p - 1
NewPiece(bytes, value) == [bytes |-> bytes, value |-> value]
Holding(f, p, piece) == [q \in DOMAIN f \cup {p} |-> IF q = p THEN piece ELSE f[q]]
Dropping(f, p) == [q \in DOMAIN f \ {p} |-> f[q]]

(* The kernel stops when a block of its list is not free.                  *)
BadList(ints) ==
  /\ kind = "kernel"
  /\ LET list == List(heap) IN \E k \in Seen(heap, list, ints) : ~isAvail(heap, list[k])

(* The sum of Ints() is beyond the width.                                  *)
Wrapped(bytes) == bytes + 3 >= SizeW

(* The words that a number of bytes takes.                                 *)
InWords(bytes) == (bytes + 3) \div 4

(* The owner fills a block at once, if he got what he asked for.           *)
Stored(bytes) == IF Wrapped(bytes) THEN <<>> ELSE [k \in 1..InWords(bytes) |-> Value]

Filled(h, p, data) ==
  [h EXCEPT !.array = [i \in Index |-> IF i - p + 1 \in DOMAIN data THEN data[i - p + 1] ELSE @[i]]]

malloc(bytes) ==
  LET ints == Ints(bytes)
      it == Search(heap, ints) IN
  /\ last' = [ints |-> ints, failed |-> ~BadList(ints) /\ it = 0]
  /\ heapPanic' = BadList(ints)
  /\ IF BadList(ints) \/ it = 0 THEN UNCHANGED <<heap, held>>
     ELSE /\ heap' = Filled(Take(heap, it, ints), it + 1, Stored(bytes))
          /\ held' = Holding(held, it + 1, NewPiece(bytes, Stored(bytes)))
  /\ UNCHANGED kind

(* A pointer that malloc() gave.  The kernel stops if the block is free, a *)
(* program does nothing.                                                   *)
free(p) ==
  /\ p \in DOMAIN held
  /\ held' = Dropping(held, p)
  /\ IF isTaken(heap, Block(p))
     THEN heap' = Give(heap, Block(p)) /\ UNCHANGED heapPanic
     ELSE heapPanic' = (kind = "kernel") /\ UNCHANGED heap
  /\ last' = NoSearch
  /\ UNCHANGED kind

Copied(h, from, to, n) ==
  [h EXCEPT !.array = [i \in Index |-> IF i \in to..(to + n - 1) THEN @[from + i - to] ELSE @[i]]]

(* Fault: the old block is given back before the new one is looked for.    *)
ReallocFreeFirst(p, bytes) ==
  LET sz == size(heap, Block(p)) * 4
      given == Give(heap, Block(p))
      it == Search(given, Ints(bytes))
      kept == IF bytes > sz THEN sz ELSE bytes IN
  /\ kind = "program" /\ p \in DOMAIN held /\ isTaken(heap, Block(p))
  /\ IF it = 0 THEN heap' = given /\ held' = Dropping(held, p)
     ELSE /\ heap' = Copied(Take(given, it, Ints(bytes)), p, it + 1, InWords(kept))
          /\ held' = Holding(Dropping(held, p), it + 1, NewPiece(bytes, UpTo(held[p].value, InWords(bytes))))
  /\ last' = [ints |-> Ints(bytes), failed |-> it = 0]
  /\ UNCHANGED <<kind, heapPanic>>

(* Of the value as much is kept as both sizes have; it is gone with the    *)
(* old block when there is no room for a new one.  The size of the block   *)
(* that the copy goes by counts the words at its ends as well.             *)
Realloc(p, bytes) ==
  LET sz == size(heap, Block(p)) * 4
      it == Search(heap, Ints(bytes))
      taken == Take(heap, it, Ints(bytes))
      kept == IF bytes > sz THEN sz ELSE bytes IN
  /\ kind = "program" /\ p \in DOMAIN held /\ isTaken(heap, Block(p))
  /\ IF it = 0 THEN heap' = Give(heap, Block(p)) /\ held' = Dropping(held, p)
     ELSE /\ heap' = Give(Copied(taken, p, it + 1, InWords(kept)), Block(p))
          /\ held' = Holding(Dropping(held, p), it + 1,
                       NewPiece(bytes, UpTo(held[p].value, InWords(bytes))))
  /\ last' = [ints |-> Ints(bytes), failed |-> it = 0]
  /\ UNCHANGED <<kind, heapPanic>>

HeapNext ==
  /\ ~heapPanic
  /\ calls < MaxCalls /\ calls' = calls + 1
  /\ \/ \E b \in Asks : malloc(b)
     \/ \E p \in DOMAIN held :
          \/ free(p)
          \/ \E b \in Asks : ~Wrapped(b) /\ Realloc(p, b)

HeapSpec == HeapInit /\ [][HeapNext]_heapVars

-----------------------------------------------------------------------------

(* The starts of the blocks between the two at the ends, from the first on;*)
(* 0 is among them when a size leads outside.                              *)
Starts ==
  LET end == Len4 - 2
      onwards == [i \in Index |->
                    IF i = end THEN end
                    ELSE IF i # 0 /\ size(heap, i) >= 4 /\ right(heap, i) <= end
                    THEN right(heap, i) ELSE 0]
      at == Walk(2, onwards)
  IN  {at[n] : n \in 0..MaxBlocks} \ {end}

(* The blocks fill the array, and each has the same size at both ends.     *)
TagsTile ==
  /\ 0 \notin Starts
  /\ \A i \in Starts \cup {0, Len4 - 2} : heap.array[footerFromHeader(heap, i)] = heap.array[i]

(* The list has every free block, once, and leads back as it leads on.     *)
ListComplete ==
  LET list == List(heap) IN
  /\ {list[k] : k \in DOMAIN list} = {i \in Starts : isAvail(heap, i)}
  /\ \A k \in DOMAIN list : prev(heap, list[k]) = IF k = 1 THEN 0 ELSE list[k - 1]

(* Free space that touches is one block.                                   *)
Coalesced == \A i \in Starts : ~(isAvail(heap, i) /\ isAvail(heap, right(heap, i)))

(* After any sequence of calls malloc() and free() find the array in the   *)
(* form that their walks over tags and links rely on; their calls of       *)
(* Debug::panic are not reached.                                           *)
WellFormed == TagsTile /\ ListComplete /\ Coalesced /\ ~heapPanic

(* A block keeps what its owner has stored in it, whatever is allocated,   *)
(* split, joined and moved around it, and also when realloc() moves it.    *)
ContentsKept ==
  \A p \in DOMAIN held : \A k \in DOMAIN held[p].value : heap.array[p + k - 1] = held[p].value[k]

(* malloc() fails only if there is no free block that is big enough; "out  *)
(* of memory" (heap.cc:231) is the truth, also after a countdown.          *)
FailsOnlyWithoutRoom ==
  [][last'.failed /\ last' # last =>
       \A i \in Starts : isAvail(heap, i) => size(heap, i) < last'.ints]_heapVars

(* Pieces in use are apart, and as long as was asked for if the size did   *)
(* not wrap around.                                                        *)
Promise == INSTANCE Allocator WITH
  Words <- Index,
  live <- [p \in DOMAIN held |->
             IF Wrapped(held[p].bytes) THEN 1 ELSE InWords(held[p].bytes)]

ImplementsAllocator == Promise!Spec

=============================================================================
