----------------------------- MODULE RingBuffer -----------------------------
(***************************************************************************)
(* RingBuffer (src/memory/ring_buffer.cc): one process allocates blocks of *)
(* different size from a circular memory, others free them in any order.   *)
(* free() takes no lock: it clears the lock of the item and then counts    *)
(* it; alloc() collects, from the oldest on, what was freed.               *)
(*                                                                         *)
(* A unit of the memory is 8 bytes: sizeof(RingBufferItem), and what sizes *)
(* are aligned to.                                                         *)
(***************************************************************************)
EXTENDS Integers, FiniteSets

CONSTANTS
  RingSize,   \* impl->size, in units
  Blocks,     \* sizes asked for, in units
  Wrap        \* stands for 2^32, the range of uint32_t

ASSUME RingAssumption == RingSize \in Nat /\ \A n \in Blocks : n + 1 < RingSize - 1

VARIABLES
  item,         \* the items by offset: lock and length; what user data covers is no item
  ring_status,  \* status
  alloc_offset, collect_offset, free_count,
  want,         \* the size alloc() was called for, 0: it was not
  apc, turns,       \* where alloc() is, and the counter of collect()
  held,         \* offsets of blocks in use
  uncounted     \* calls of free() between its two steps

ringVars == <<item, ring_status, alloc_offset, collect_offset, free_count, want, apc, turns, held, uncounted>>

NoItem == [lock |-> 2, length |-> 0]

RingInit ==
  /\ item = [a \in 0 .. RingSize - 1 |-> NoItem]
  /\ ring_status = 0 /\ alloc_offset = 0 /\ collect_offset = 0 /\ free_count = 0
  /\ want = 0 /\ apc = "idle" /\ turns = 0
  /\ held = {} /\ uncounted = 0

(* alloc() is called, again if it returned null.                           *)
alloc(n) ==
  /\ apc = "idle"
  /\ want \in {0, n}
  /\ want' = n
  /\ turns' = 0
  /\ apc' = IF free_count > 0 THEN "collect" ELSE "place"
  /\ UNCHANGED <<item, ring_status, alloc_offset, collect_offset, free_count, held, uncounted>>

(* Mutant: the walk does not look at the lock.                             *)
collect_Locked ==
  /\ apc = "collect"
  /\ IF turns < free_count
     THEN LET next == collect_offset + item[collect_offset].length + 1
              around == next + 1 > RingSize IN
          /\ collect_offset' = IF around THEN 0 ELSE next
          /\ ring_status' = IF around THEN 0 ELSE ring_status
          /\ free_count' = free_count - 1
          /\ turns' = turns + 1
          /\ UNCHANGED apc
     ELSE /\ apc' = "place"
          /\ UNCHANGED <<collect_offset, ring_status, free_count, turns>>
  /\ UNCHANGED <<item, alloc_offset, want, held, uncounted>>

(* One turn of collect().                                                  *)
collect ==
  /\ apc = "collect"
  /\ IF turns < free_count /\ item[collect_offset].lock = 0
     THEN LET next == collect_offset + item[collect_offset].length + 1
              around == next + 1 > RingSize IN
          /\ collect_offset' = IF around THEN 0 ELSE next
          /\ ring_status' = IF around THEN 0 ELSE ring_status
          /\ free_count' = free_count - 1
          /\ turns' = turns + 1
          /\ UNCHANGED apc
     ELSE /\ apc' = "place"
          /\ UNCHANGED <<collect_offset, ring_status, free_count, turns>>
  /\ UNCHANGED <<item, alloc_offset, want, held, uncounted>>

(* The user's data covers the items that were inside the block.            *)
Written(items, a, n) ==
  [b \in DOMAIN items |-> IF b = a THEN [lock |-> 1, length |-> n]
                          ELSE IF b \in a + 1 .. a + n THEN NoItem ELSE items[b]]

(* The rest of alloc(): at the end of the memory an item that is free from *)
(* the start covers what is left.  capacity is unsigned.                   *)
place ==
  LET turn == ring_status = 0 /\ alloc_offset + want + 1 >= RingSize - 1
      skip == turn /\ RingSize - alloc_offset >= 1
      items == IF skip THEN [item EXCEPT ![alloc_offset] = [lock |-> 0, length |-> RingSize - alloc_offset - 1]]
               ELSE item
      from == IF turn THEN 0 ELSE alloc_offset
      capacity == IF ring_status = 0 /\ ~turn THEN RingSize - from ELSE (collect_offset - from) % Wrap IN
  /\ apc = "place"
  /\ apc' = "idle"
  /\ ring_status' = IF turn THEN 1 ELSE ring_status
  /\ free_count' = IF skip THEN free_count + 1 ELSE free_count
  /\ IF capacity < want + 1
     THEN /\ item' = items
          /\ alloc_offset' = from
          /\ UNCHANGED <<held, want>>
     ELSE /\ item' = Written(items, from, want)
          /\ alloc_offset' = from + want + 1
          /\ held' = held \union {from}
          /\ want' = 0
  /\ UNCHANGED <<collect_offset, turns, uncounted>>

(* free() in the process that has the block: the lock, then the count.     *)
ring_free(a) ==
  /\ a \in held
  /\ held' = held \ {a}
  /\ item' = [item EXCEPT ![a].lock = 0]
  /\ uncounted' = uncounted + 1
  /\ UNCHANGED <<ring_status, alloc_offset, collect_offset, free_count, want, apc, turns>>

(* Mutant: two processes increment the count at the same time.             *)
count_free_Lost ==
  /\ uncounted > 0
  /\ uncounted' = 0
  /\ free_count' = free_count + 1
  /\ UNCHANGED <<item, ring_status, alloc_offset, collect_offset, want, apc, turns, held>>

count_free ==
  /\ uncounted > 0
  /\ uncounted' = uncounted - 1
  /\ free_count' = free_count + 1
  /\ UNCHANGED <<item, ring_status, alloc_offset, collect_offset, want, apc, turns, held>>

RingNext ==
  \/ \E n \in Blocks : alloc(n)
  \/ collect \/ place
  \/ \E a \in held : ring_free(a)
  \/ count_free

(* A caller of alloc() that got null calls again, and those who hold       *)
(* blocks free them.                                                       *)
RingFairness ==
  /\ WF_ringVars(collect \/ place) /\ WF_ringVars(want > 0 /\ \E n \in Blocks : alloc(n))
  /\ WF_ringVars(\E a \in held : ring_free(a))
  /\ WF_ringVars(count_free)

RingSpec == RingInit /\ [][RingNext]_ringVars /\ RingFairness

-----------------------------------------------------------------------------
(* Properties.                                                             *)

(* Blocks in use lie inside the memory, none covers another or another's   *)
(* header, and the collector stands on an item as long as there is one to  *)
(* collect.                                                                *)
BlocksApart ==
  /\ \A a \in held : item[a].lock = 1 /\ a + item[a].length < RingSize
  /\ \A a, b \in held : a < b => a + item[a].length < b
  /\ free_count + uncounted > 0 => item[collect_offset] # NoItem

(* Whatever the order of frees and the moment of their count, blocks in    *)
(* use stay apart; and an allocation that fails succeeds when it is        *)
(* repeated: the space behind freed blocks comes back, although one call   *)
(* collects only a part of it.                                             *)
RingSound == [][BlocksApart']_ringVars /\ (want > 0 ~> want = 0)

=============================================================================
