------------------------------- MODULE MemPool -------------------------------
(***************************************************************************)
(* base/allocator/mem_pool.cpp: the memory pool of one loop, which carves  *)
(* small blocks out of areas got from malloc and keeps returned blocks in  *)
(* free lists, one per size.  All of it happens in the loop thread (the    *)
(* asserts of allocate, deallocate and the destructor).                    *)
(*                                                                         *)
(* Addresses are byte numbers, 0 is nullptr.  malloc places an area behind *)
(* the areas before, never right next to one; large blocks lie before them. *)
(* It fails whenever it likes; the handler of master_alloc is part of that *)
(* choice.  A large request that fails changes nothing and is left out.    *)
(*                                                                         *)
(* Callers keep the rule of the STL and of operator delete: a block goes   *)
(* back once, with the size it was asked for, and none has size 0.         *)
(***************************************************************************)
EXTENDS Naturals, Sequences, FiniteSetsExt

CONSTANTS kALIGN, kMax_Bytes,
          Objs,      \* n_objs of refill, 20 in the code
          Requests,  \* sizes asked for
          MaxAreas,  \* bound: areas malloc has room for
          MaxLive    \* bound: blocks in use

ASSUME MemPoolAssumption ==
    /\ kALIGN \in Nat \ {0} /\ kMax_Bytes \in Nat \ {0}
    /\ kMax_Bytes % kALIGN = 0 /\ Objs \in Nat \ {0}
    /\ Requests \subseteq Nat \ {0} /\ MaxAreas \in Nat /\ MaxLive \in Nat

VARIABLES
    pool,    \* the mem_pool
    areas,   \* what malloc gave to the pool and has not got back
    live,    \* blocks in use: [ptr, n]
    heap,    \* addresses master_alloc gave out for large blocks
    oom,     \* the size for which std::bad_alloc was just thrown, or 0
    alive    \* the pool is not destructed

poolVars == <<pool, areas, live, heap, oom, alive>>

ROUND_UP(bytes) == ((bytes + kALIGN - 1) \div kALIGN) * kALIGN

GET_FREELIST_INDEX(bytes) == (bytes + kALIGN - 1) \div kALIGN - 1

kFreeLists == 0 .. kMax_Bytes \div kALIGN - 1

PoolInit ==
    /\ pool = [free_lists |-> [i \in kFreeLists |-> <<>>],
               begin_free |-> 0, end_free |-> 0, heap_size |-> 0,
               allocated_area |-> {}]
    /\ areas = {} /\ live = {} /\ heap = {} /\ oom = 0 /\ alive = TRUE

-----------------------------------------------------------------------------
left_size(p) == p.end_free - p.begin_free

PushBlock(p, ptr, n) ==
    [p EXCEPT !.free_lists[GET_FREELIST_INDEX(n)] = <<ptr>> \o @]

\* The first two cases of chunk_alloc: Objs blocks, or as many as there are.
Carve(p, size) ==
    LET n == IF left_size(p) >= size * Objs THEN Objs
             ELSE left_size(p) \div size
    IN  [p |-> [p EXCEPT !.begin_free = @ + n * size],
         chunk |-> p.begin_free, n_objs |-> n]

\* Mutant: the residual space is forgotten.
Salvage_Forgets(p) == p

\* What is left and too small for one block goes to the list of its size.
Salvage(p) == IF left_size(p) > 0 THEN PushBlock(p, p.begin_free, left_size(p))
              ELSE p

BytesToGet(p, size) == 2 * size * Objs + ROUND_UP(p.heap_size \div 16)

\* Mutant: the area is not put on record.
FromMalloc_Unrecorded(p, a, bytes) ==
    [p EXCEPT !.begin_free = a, !.end_free = a + bytes, !.heap_size = @ + bytes]

\* malloc found room at address a.
FromMalloc(p, a, bytes) ==
    [p EXCEPT !.begin_free = a, !.end_free = a + bytes,
              !.heap_size = @ + bytes, !.allocated_area = @ \cup {a}]

\* It did not, but the second try, by master_alloc, did.
FromMasterAlloc(p, a, bytes) ==
    [p EXCEPT !.begin_free = a, !.end_free = a + bytes,
              !.heap_size = @ + bytes, !.allocated_area = @ \cup {0}]

\* Mutant: the list of the largest blocks is not searched.
Fitting_BelowMax(p, size) ==
    {i \in kFreeLists : i >= GET_FREELIST_INDEX(size)
        /\ (i + 1) * kALIGN < kMax_Bytes /\ p.free_lists[i] # <<>>}

\* Lists with a block that can hold one of `size'.
Fitting(p, size) ==
    {i \in kFreeLists : i >= GET_FREELIST_INDEX(size) /\ p.free_lists[i] # <<>>}

\* malloc failed: a block of list i becomes the space to carve from.
FromList(p, i) ==
    LET a == Head(p.free_lists[i])
    IN  [p EXCEPT !.free_lists[i] = Tail(@), !.allocated_area = @ \cup {0},
                  !.begin_free = a, !.end_free = a + (i + 1) * kALIGN]

\* malloc failed and so did master_alloc.
Exhausted(p) == [p EXCEPT !.begin_free = 0, !.end_free = 0,
                          !.allocated_area = @ \cup {0}]

Address == 1 + Max({MaxLive} \cup {a.base + a.size : a \in areas})
LargeAddress == Min(1 .. MaxLive \ heap)
MallocOk == Cardinality(areas) < MaxAreas

-----------------------------------------------------------------------------
\* allocate.

Asks(n) == alive /\ Cardinality(live) < MaxLive /\ n <= kMax_Bytes

Returns(ptr, n) ==
    /\ live' = live \cup {[ptr |-> ptr, n |-> n]}
    /\ oom' = 0 /\ UNCHANGED <<heap, alive>>

AllocateFromList(n) ==
    LET i == GET_FREELIST_INDEX(n)
        list == pool.free_lists[i]
    IN
    /\ Asks(n) /\ list # <<>>
    /\ pool' = [pool EXCEPT !.free_lists[i] = Tail(list)]
    /\ Returns(Head(list), n) /\ UNCHANGED areas

Refills(n) == Asks(n) /\ pool.free_lists[GET_FREELIST_INDEX(n)] = <<>>

\* refill with the blocks chunk_alloc carves from p: the first is returned,
\* the others become the list, in the order of their addresses.
refill(p, n) ==
    LET size == ROUND_UP(n)
        cut == Carve(p, size)
        others == [k \in 1 .. cut.n_objs - 1 |-> cut.chunk + k * size]
    IN
    /\ pool' = IF cut.n_objs = 1 THEN cut.p
               ELSE [cut.p EXCEPT !.free_lists[GET_FREELIST_INDEX(n)] = others]
    /\ Returns(cut.chunk, n)

\* There is space for at least one block.
AllocateFromSpace(n) ==
    /\ Refills(n) /\ left_size(pool) >= ROUND_UP(n)
    /\ refill(pool, n) /\ UNCHANGED areas

\* There is not: the rest of the space is put away and malloc is called.
NeedsArea(n) == Refills(n) /\ left_size(pool) < ROUND_UP(n)

NewArea(n, via) ==
    areas' = areas \cup
        {[base |-> Address, size |-> BytesToGet(pool, ROUND_UP(n)), via |-> via]}

AllocateFromMalloc(n) ==
    /\ NeedsArea(n) /\ MallocOk
    /\ refill(FromMalloc(Salvage(pool), Address,
                         BytesToGet(pool, ROUND_UP(n))), n)
    /\ NewArea(n, "malloc")

\* malloc fails.
AllocateFromLargerBlock(n) ==
    LET fits == Fitting(Salvage(pool), ROUND_UP(n)) IN
    /\ NeedsArea(n) /\ fits # {}
    /\ refill(FromList(Salvage(pool), Min(fits)), n) /\ UNCHANGED areas

AllocateFromMasterAlloc(n) ==
    /\ NeedsArea(n) /\ MallocOk /\ Fitting(Salvage(pool), ROUND_UP(n)) = {}
    /\ refill(FromMasterAlloc(Salvage(pool), Address,
                              BytesToGet(pool, ROUND_UP(n))), n)
    /\ NewArea(n, "master_alloc")

AllocateThrows(n) ==
    /\ NeedsArea(n) /\ Fitting(Salvage(pool), ROUND_UP(n)) = {}
    /\ pool' = Exhausted(Salvage(pool)) /\ oom' = n
    /\ UNCHANGED <<areas, live, heap, alive>>

\* A large block comes from master_alloc and goes back there.
AllocateLarge(n) ==
    /\ alive /\ Cardinality(live) < MaxLive /\ n > kMax_Bytes
    /\ live' = live \cup {[ptr |-> LargeAddress, n |-> n]}
    /\ heap' = heap \cup {LargeAddress}
    /\ oom' = 0 /\ UNCHANGED <<pool, areas, alive>>

Allocate(n) ==
    \/ AllocateFromList(n) \/ AllocateFromSpace(n) \/ AllocateFromMalloc(n)
    \/ AllocateFromLargerBlock(n) \/ AllocateFromMasterAlloc(n)
    \/ AllocateThrows(n) \/ AllocateLarge(n)

Deallocate(b) ==
    /\ alive /\ live' = live \ {b} /\ oom' = 0
    /\ IF b.n > kMax_Bytes
       THEN heap' = heap \ {b.ptr} /\ UNCHANGED pool
       ELSE pool' = PushBlock(pool, b.ptr, b.n) /\ UNCHANGED heap
    /\ UNCHANGED <<areas, alive>>

\* ~mem_pool: the areas on record are freed.
Destruct ==
    /\ alive /\ alive' = FALSE
    /\ areas' = {a \in areas : a.base \notin pool.allocated_area}
    /\ pool' = [pool EXCEPT !.allocated_area = {}]
    /\ oom' = 0 /\ UNCHANGED <<live, heap>>

PoolNext ==
    \/ \E n \in Requests : Allocate(n)
    \/ \E b \in live : Deallocate(b)
    \/ Destruct

PoolSpec == PoolInit /\ [][PoolNext]_poolVars

-----------------------------------------------------------------------------
\* The pieces the areas of pool p are cut into, if `blocks' are in use.
InUse(blocks) == {<<"live", b>> : b \in {x \in blocks : x.n <= kMax_Bytes}}
Listed(p) ==
    UNION {{<<"list", i, k>> : k \in DOMAIN p.free_lists[i]} : i \in kFreeLists}
Free(p) == Listed(p) \cup {<<"space">>}
Pieces(p, blocks) == InUse(blocks) \cup Free(p)

First(p, x) == CASE x[1] = "live" -> x[2].ptr
                 [] x[1] = "list" -> p.free_lists[x[2]][x[3]]
                 [] x[1] = "space" -> p.begin_free

Size(p, x) == CASE x[1] = "live" -> ROUND_UP(x[2].n)
                [] x[1] = "list" -> (x[2] + 1) * kALIGN
                [] x[1] = "space" -> left_size(p)

Bytes(first, size) == first .. first + size - 1
Held(p, x) == Bytes(First(p, x), Size(p, x))
AreaBytes == UNION {Bytes(a.base, a.size) : a \in areas}

\* The pieces are all of `bytes', and no two of them overlap.
Tiles(p, blocks, bytes) ==
    /\ UNION {Held(p, x) : x \in Pieces(p, blocks)} = bytes
    /\ \A x, y \in Pieces(p, blocks) : x # y => Held(p, x) \cap Held(p, y) = {}

\* Every byte of the areas is in use, in one free list or in the space left,
\* and in only one of them, also after malloc failed: no block is handed out
\* twice, overlaps another or is lost.
Accounted ==
    alive => /\ Tiles(pool, live, AreaBytes)
             /\ heap = {b.ptr : b \in {x \in live : x.n > kMax_Bytes}}

\* std::bad_alloc is thrown only when no free block and no space left could
\* hold the request (mem_pool.cpp:133-148).
ThrowsOnlyWhenEmpty ==
    oom > 0 => \A x \in Free(pool) : Size(pool, x) < ROUND_UP(oom)

\* The destructor gives back every area malloc gave at the first try
\* (mem_pool.h:117).  What master_alloc gave after malloc had failed is not on
\* record, and is not given back.
AreasReturned == ~alive => \A a \in areas : a.via = "master_alloc"

=============================================================================
