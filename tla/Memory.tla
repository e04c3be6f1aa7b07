------------------------------- MODULE Memory -------------------------------
(***************************************************************************)
(* The memory of rvm-memory, from pages to recovery.  First the buddy page *)
(* allocator (allocator.rs).  Free blocks of every order share one flat    *)
(* bitmap: the bits of order o start at bit_offset[o].  A page is a        *)
(* number; a block <<order, index>> is 2^order pages.  The history         *)
(* variable held is the set of pages callers own: they may return only     *)
(* those, in blocks of any order, as free_pages asks.                      *)
(***************************************************************************)
EXTENDS Integers, FiniteSets, FiniteSetsExt, Sequences, SequencesExt

CONSTANTS
  TOTAL_PAGES,      \* "Must be a power of two" (type parameter)
  MAX_ORDER,        \* 10 in the code
  WORD              \* bits of a bitmap word: 64 in the code

ASSUME BuddyAssumption ==
  /\ TOTAL_PAGES \in Nat /\ MAX_ORDER \in Nat /\ WORD \in Nat \ {0}
  /\ \E k \in 0..TOTAL_PAGES : TOTAL_PAGES = 2 ^ k

VARIABLES
  bitmap,           \* the bits that are set: free blocks
  held              \* history: the pages callers hold

buddyVars == <<bitmap, held>>

Shr(n, k) == n \div 2 ^ k

max_usable_order ==
  Max({o \in 0..MAX_ORDER : o = 0 \/ 2 ^ o <= TOTAL_PAGES})

Order == 0..max_usable_order

\* The first bit of each order, computed once by new, and the bit of a block.
bit_offset == [o \in Order |-> MapThenSumSet(LAMBDA k : Shr(TOTAL_PAGES, k), 0..(o - 1))]
Bit(o, blk) == bit_offset[o] + blk

Block == {b \in Order \X (0..(TOTAL_PAGES - 1)) : b[2] < Shr(TOTAL_PAGES, b[1])}

Pages(b) == (b[2] * 2 ^ b[1])..((b[2] + 1) * 2 ^ b[1] - 1)

is_free(o, blk) == Bit(o, blk) \in bitmap

\* new, init_free_all: every block of the largest order, and nothing else.
BuddyInit ==
  /\ bitmap = {Bit(max_usable_order, blk) :
                 blk \in 0..(Shr(TOTAL_PAGES, max_usable_order) - 1)}
  /\ held = {}

-----------------------------------------------------------------------------

\* find_first_free looks at one word after another.  trailing_zeros gives the
\* lowest bit of the word that is not below the order's first bit; it counts
\* when it lies before the order's end.
Lowest(w, base) ==
  LET bits == {b \in bitmap : b \div WORD = w /\ b >= base}
  IN  IF bits = {} THEN {} ELSE {Min(bits)}

Found(o) ==
  LET base == bit_offset[o]
      n == Shr(TOTAL_PAGES, o)
      words == (base \div WORD)..((base + n) \div WORD)
      lowest == UNION {Lowest(w, base) : w \in words}
  IN  {b - base : b \in {c \in lowest : c - base < n}}

find_first_free(o) == Min(Found(o))

\* alloc_pages: the smallest order that has a free block; its first free block
\* is split down to the requested order, and every right half becomes free.
alloc_pages(o) ==
  /\ \E s \in Order : s >= o /\ Found(s) # {}
  /\ LET s == Min({k \in Order : k >= o /\ Found(k) # {}})
         blk == find_first_free(s)
         right(k) == blk * 2 ^ (s - k) + 1
     IN  /\ bitmap' = (bitmap \ {Bit(s, blk)})
                        \cup {Bit(k, right(k)) : k \in o..(s - 1)}
         /\ held' = held \cup Pages(<<o, blk * 2 ^ (s - o)>>)

\* is_block_free: the block, or a larger block that contains it.
is_block_free(o, blk) == \E k \in Order : k >= o /\ is_free(k, Shr(blk, k - o))

Buddy(blk) == IF blk % 2 = 0 THEN blk + 1 ELSE blk - 1

\* coalesce: merge with the buddy for as long as there is one and it is free.
Merges(o, blk, k) ==
  /\ k < max_usable_order
  /\ Buddy(Shr(blk, k - o)) < Shr(TOTAL_PAGES, k)
  /\ is_free(k, Buddy(Shr(blk, k - o)))

BugCoalesced(o, blk) ==
  IF Merges(o, blk, o)
    THEN (bitmap \ {Bit(o, Buddy(blk))}) \cup {Bit(o + 1, Shr(blk, 1))}
    ELSE bitmap \cup {Bit(o, blk)}

Coalesced(o, blk) ==
  LET top == Min({k \in o..max_usable_order : ~ Merges(o, blk, k)})
      buddies == {Bit(k, Buddy(Shr(blk, k - o))) : k \in o..(top - 1)}
  IN  (bitmap \ buddies) \cup {Bit(top, Shr(blk, top - o))}

\* free_pages of a block the caller holds, as the function asks: all of what
\* alloc_pages gave, a part of it, or neighbours together.
free_pages(o, blk) ==
  /\ Pages(<<o, blk>>) \subseteq held
  /\ ~ is_block_free(o, blk)
  /\ bitmap' = Coalesced(o, blk)
  /\ held' = held \ Pages(<<o, blk>>)

BuddyNext ==
  \/ \E o \in Order : alloc_pages(o)
  \/ \E b \in Block : free_pages(b[1], b[2])

-----------------------------------------------------------------------------

FreeBlocks == {b \in Block : is_free(b[1], b[2])}
FreePages == UNION {Pages(b) : b \in FreeBlocks}

free_page_count == MapThenSumSet(LAMBDA b : 2 ^ b[1], FreeBlocks)

\* No page is ever free twice or lost: whatever was split, merged and returned
\* in other pieces, the free blocks tile exactly the pages nobody holds, so no
\* two callers share a page, and free_page_count is what is left.
Tiling ==
  /\ LET free == FreeBlocks IN \A b, c \in free : b # c => Pages(b) \cap Pages(c) = {}
  /\ FreePages = 0..(TOTAL_PAGES - 1) \ held
  /\ free_page_count = TOTAL_PAGES - Cardinality(held)

\* Coalescing and the word scan are complete: alloc_pages(o) succeeds whenever
\* some aligned block of that order is entirely free (at whatever mixture of
\* orders its pages became free), and the double-free test knows it is free.
AllocFindsRoom ==
  LET free == FreePages IN
  \A b \in Block :
    Pages(b) \subseteq free =>
      /\ is_block_free(b[1], b[2])
      /\ \E k \in Order : k >= b[1] /\ Found(k) # {}

-----------------------------------------------------------------------------
(***************************************************************************)
(* Guest memory: the region manager (rvm-memory, region.rs), which maps    *)
(* guest pages of partitions to host pages, and the tier manager (tier.rs) *)
(* the kernel keeps beside it (rvm-kernel, register_region to              *)
(* region_tier).  Addresses count pages, so every address is aligned;      *)
(* address ranges do not reach the end of the 64-bit space.                *)
(*                                                                         *)
(* Scores are in units of STEP basis points.                               *)
(***************************************************************************)

CONSTANTS
  MaxRegions,       \* MAX: slots of the region manager
  RegionOwner,
  GuestPage, HostPage,   \* base addresses
  PageCount,        \* page counts of a region
  RegionId,         \* caller-supplied ids (create), positive integers
  MaxNextId,        \* bound on next_id
  MaxTiered,        \* MAX_REGIONS of the tier manager
  MaxScore, Boost, Midpoint,            \* 10000, 1000, 5000
  DecayAmount,      \* arguments of decay_recency; the kernel passes 200
  MaxEpoch,         \* u32::MAX: current_epoch stays there
  hot_to_warm, warm_to_dormant, dormant_to_cold,  \* TierThresholds
  warm_to_hot, dormant_to_warm

ASSUME RegionAssumption ==
  /\ MaxRegions \in Nat /\ MaxTiered \in Nat
  /\ GuestPage \subseteq Nat /\ HostPage \subseteq Nat
  /\ PageCount \subseteq Nat \ {0} /\ RegionId \subseteq Nat
  /\ {MaxScore, Boost, Midpoint, MaxEpoch} \cup DecayAmount \subseteq Nat
  /\ {hot_to_warm, warm_to_dormant, dormant_to_cold, warm_to_hot, dormant_to_warm} \subseteq Nat
  /\ Midpoint <= MaxScore
  \* TierThresholds::DEFAULT, with which the kernel makes its manager, leaves a
  \* gap between entering a tier and leaving it.
  /\ hot_to_warm < warm_to_hot /\ warm_to_dormant < dormant_to_warm

VARIABLES
  regions,          \* slot -> region or Empty
  next_id,          \* the id create_auto_id gives next
  tiers,            \* slot -> RegionTierState or Untracked
  current_epoch

regionVars == <<regions, next_id>>
tierVars == <<tiers, current_epoch>>

Empty == [id |-> 0]
RegionSlot == 1..MaxRegions
Occupied == {i \in RegionSlot : regions[i] # Empty}

Hot == 0
Warm == 1
Dormant == 2
Cold == 3
Tier == Hot..Cold

RegionsInit ==
  /\ regions = [i \in RegionSlot |-> Empty]
  /\ next_id = 1

-----------------------------------------------------------------------------

Overlap(a, alen, b, blen) == a < b + blen /\ b < a + alen

SharesGuest(r, s) ==
  /\ r.owner = s.owner
  /\ Overlap(r.guest_base, r.page_count, s.guest_base, s.page_count)

SharesHost(r, s) == Overlap(r.host_base, r.page_count, s.host_base, s.page_count)

\* create: no overlap within the partition's guest pages, nor with any region's
\* host pages; the first free slot.
RegionFits(r) ==
  /\ Cardinality(Occupied) < MaxRegions
  /\ \A i \in Occupied : ~ SharesGuest(r, regions[i]) /\ ~ SharesHost(r, regions[i])

Created(r) == [regions EXCEPT ![Min(RegionSlot \ Occupied)] = r]

create(r) ==
  /\ RegionFits(r)
  /\ regions' = Created(r)
  /\ UNCHANGED next_id

\* create_auto_id: a refused creation uses the id up as well.
create_auto_id(r) ==
  /\ next_id < MaxNextId
  /\ next_id' = next_id + 1
  /\ regions' = IF RegionFits(r) THEN Created([r EXCEPT !.id = next_id]) ELSE regions

\* find_slot: the first region with the id; ids given to create may repeat.
WithId(id) == {i \in Occupied : regions[i].id = id}

destroy(id) ==
  /\ WithId(id) # {}
  /\ regions' = [regions EXCEPT ![Min(WithId(id))] = Empty]
  /\ UNCHANGED next_id

transfer(id, new_owner) ==
  /\ WithId(id) # {}
  /\ LET idx == Min(WithId(id))
         moved == [regions[idx] EXCEPT !.owner = new_owner]
     IN  /\ \A i \in Occupied \ {idx} : ~ SharesGuest(moved, regions[i])
         /\ regions' = [regions EXCEPT ![idx] = moved]
  /\ UNCHANGED next_id

Config ==
  [id : RegionId, owner : RegionOwner, guest_base : GuestPage,
   host_base : HostPage, page_count : PageCount]

RegionsNext ==
  \/ \E r \in Config : create(r)
  \/ \E r \in Config : r.id = Min(RegionId) /\ create_auto_id(r)
  \/ \E id \in RegionId \cup 1..MaxNextId : destroy(id)
  \/ \E id \in RegionId \cup 1..MaxNextId, p \in RegionOwner : transfer(id, p)

Mapped(r) == r.guest_base..(r.guest_base + r.page_count - 1)

\* translate: the host pages behind a guest page; the code takes the first.
translate(p, g) ==
  {regions[i].host_base + (g - regions[i].guest_base) :
     i \in {j \in Occupied : regions[j].owner = p /\ g \in Mapped(regions[j])}}

RegionsSpec == RegionsInit /\ [][RegionsNext]_regionVars

\* Partitions stay isolated through any history of creations, transfers and
\* destructions, repeated ids included: a guest page has one host page at most,
\* and no host page is reachable from two guest pages, of one partition or two.
Isolation ==
  LET pages == UNION {Mapped(regions[i]) : i \in Occupied}
  IN  /\ \A p \in RegionOwner, g \in pages : Cardinality(translate(p, g)) <= 1
      /\ \A p, q \in RegionOwner, g, h \in pages :
           translate(p, g) \cap translate(q, h) # {} => p = q /\ g = h

-----------------------------------------------------------------------------
(* Tiers. *)

TierSlot == 1..MaxTiered
Untracked == [region_id |-> 0]
Tracked == {i \in TierSlot : tiers[i] # Untracked}

\* new, or with_thresholds: the thresholds are constants here.
TiersInit ==
  /\ tiers = [i \in TierSlot |-> Untracked]
  /\ current_epoch = 0

\* find_slot, as the set of the slot or nothing: register admits an id once.
TierSlotOf(id) == {i \in Tracked : tiers[i].region_id = id}

Clamp(n) == Min({n, MaxScore})

\* residency_score: at most twice MaxScore, so it does not saturate.
residency_score(r) == r.cut_value + r.recency_score

advance_epoch ==
  /\ current_epoch' = Min({current_epoch + 1, MaxEpoch})
  /\ UNCHANGED tiers

register(id, initial_tier) ==
  /\ Cardinality(Tracked) < MaxTiered
  /\ TierSlotOf(id) = {}
  /\ tiers' = [tiers EXCEPT ![Min(TierSlot \ Tracked)] =
                 [region_id |-> id, tier |-> initial_tier,
                  last_access_epoch |-> current_epoch,
                  cut_value |-> 0, recency_score |-> Midpoint]]
  /\ UNCHANGED current_epoch

unregister(id) ==
  \E i \in TierSlotOf(id) :
    /\ tiers' = [tiers EXCEPT ![i] = Untracked]
    /\ UNCHANGED current_epoch

record_access(id) ==
  \E i \in TierSlotOf(id) :
    /\ tiers' = [tiers EXCEPT ![i].last_access_epoch = current_epoch,
                              ![i].recency_score = Clamp(@ + Boost)]
    /\ UNCHANGED current_epoch

update_cut_value(id, cut) ==
  \E i \in TierSlotOf(id) :
    /\ tiers' = [tiers EXCEPT ![i].cut_value = Clamp(cut)]
    /\ UNCHANGED current_epoch

\* Promotion targets; no score reaches the threshold of Dormant or Cold.
promotion_threshold(target) ==
  CASE target = Hot -> warm_to_hot
    [] target = Warm -> dormant_to_warm
    [] OTHER -> 2 * MaxScore + 1

BugPromote(id, target) ==
  \E i \in TierSlotOf(id) :
    /\ target < tiers[i].tier
    /\ residency_score(tiers[i]) >= promotion_threshold(target)
    /\ tiers' = [tiers EXCEPT ![i].tier = target,
                              ![i].last_access_epoch = current_epoch]
    /\ UNCHANGED current_epoch

promote(id, target) ==
  \E i \in TierSlotOf(id) :
    /\ target < tiers[i].tier
    /\ tiers[i].tier # Cold
    /\ residency_score(tiers[i]) >= promotion_threshold(target)
    /\ tiers' = [tiers EXCEPT ![i].tier = target,
                              ![i].last_access_epoch = current_epoch]
    /\ UNCHANGED current_epoch

demote(id, target) ==
  \E i \in TierSlotOf(id) :
    /\ target > tiers[i].tier
    /\ tiers' = [tiers EXCEPT ![i].tier = target]
    /\ UNCHANGED current_epoch

decay_recency(amount) ==
  /\ tiers' = [i \in TierSlot |->
                 IF i \in Tracked
                   THEN [tiers[i] EXCEPT !.recency_score = Max({@ - amount, 0})]
                   ELSE tiers[i]]
  /\ UNCHANGED current_epoch

demotion_threshold(tier) ==
  CASE tier = Hot -> hot_to_warm
    [] tier = Warm -> warm_to_dormant
    [] tier = Dormant -> dormant_to_cold
    [] OTHER -> 0

\* find_demotion_candidates: each region below its tier's threshold with the next
\* tier, from the first slot on, as many as the caller's buffer has room for.
find_demotion_candidates(room) ==
  LET below == {i \in Tracked :
                  residency_score(tiers[i]) < demotion_threshold(tiers[i].tier)}
  IN  {<<tiers[i].region_id, tiers[i].tier + 1>> :
         i \in {j \in below : Cardinality({k \in below : k < j}) < room}}

TiersNext ==
  \/ advance_epoch
  \/ \E id \in RegionId, t \in Tier : register(id, t)
  \/ \E id \in RegionId : unregister(id) \/ record_access(id)
  \/ \E id \in RegionId, cut \in {0, MaxScore + 1} : update_cut_value(id, cut)
  \/ \E id \in RegionId, t \in Tier : promote(id, t) \/ demote(id, t)
  \/ \E amount \in DecayAmount : decay_recency(amount)

TiersSpec == TiersInit /\ [][TiersNext]_tierVars

\* Tiers do not thrash and Cold is final: a promotion never makes the region a
\* demotion candidate at once (the score has to fall first), whatever slots the
\* regions came to have, and a region that became Cold is warm again only after
\* it was registered anew.
NoThrash ==
  [][\A i \in Tracked \cap Tracked' :
       tiers'[i].tier < tiers[i].tier =>
         /\ tiers[i].tier # Cold
         /\ \A c \in find_demotion_candidates(MaxTiered)' :
              c[1] # tiers'[i].region_id]_tierVars
-----------------------------------------------------------------------------
(* Dormant memory (reconstruction.rs): a region is kept as a compressed    *)
(* checkpoint and the deltas written after it, and is rebuilt from both.   *)
(* The stores may damage the compressed checkpoint and the delta data.     *)
(*                                                                         *)
(* A compressed stream is a sequence of items: the length header, then     *)
(* blocks of a tag, a block length and, for literals, the bytes.  A hash   *)
(* of contents is the contents (FNV-1a without collisions).                *)

CONSTANTS
  RegionSize,       \* bytes of the region
  Byte,             \* byte values; 0 is the one compressed
  MaxRun,           \* longest block: 0xFFFF in the code
  MAX_DELTAS,       \* capacity of the pipeline
  MaxSequence       \* bound on writes

ASSUME ReconstructionAssumption ==
  /\ 0 \in Byte /\ Byte \subseteq Nat
  /\ {RegionSize, MaxRun} \subseteq Nat \ {0} /\ {MAX_DELTAS, MaxSequence} \subseteq Nat

VARIABLES
  past,             \* history: past[n + 1] is the contents after write n
  written,          \* the deltas, one per write, and their data as stored
  checkpoint,       \* the CompressedCheckpoint
  stored,           \* its compressed data as stored
  deltas            \* the pipeline's deltas

reconVars == <<past, written, checkpoint, stored, deltas>>

TAG_ZERO_RUN == 0
TAG_LITERAL == 1

-----------------------------------------------------------------------------
\* compress and decompress.

\* The run of zeros, or of other bytes, that starts at position i.
Run(s, i) ==
  CHOOSE n \in 1..MaxRun :
    /\ i + n - 1 <= Len(s)
    /\ \A j \in i..(i + n - 1) : (s[j] = 0) <=> (s[i] = 0)
    /\ \/ n = MaxRun
       \/ i + n > Len(s)
       \/ (s[i + n] = 0) # (s[i] = 0)

compress(s) ==
  LET blocks[i \in 1..(Len(s) + 1)] ==
        IF i > Len(s) THEN <<>>
        ELSE LET n == Run(s, i)
             IN  (IF s[i] = 0 THEN <<TAG_ZERO_RUN, n>>
                              ELSE <<TAG_LITERAL, n>> \o SubSeq(s, i, i + n - 1))
                   \o blocks[i + n]
  IN  <<Len(s)>> \o blocks[1]

\* The contents as a set: none when the stream is corrupted.
decompress(in, size) ==
  LET rest[pos \in Nat, left \in Nat] ==
        IF left = 0 THEN {<<>>}
        ELSE IF pos + 1 > Len(in) THEN {}
        ELSE LET n == in[pos + 1]
                 next == IF in[pos] = TAG_LITERAL THEN pos + 2 + n ELSE pos + 2
                 block == IF in[pos] = TAG_LITERAL THEN SubSeq(in, pos + 2, pos + 1 + n)
                                                   ELSE [j \in 1..n |-> 0]
             IN  IF in[pos] \in {TAG_ZERO_RUN, TAG_LITERAL} /\ n <= left
                    /\ next - 1 <= Len(in)
                   THEN {block \o r : r \in rest[next, left - n]}
                   ELSE {}
  IN  IF in = <<>> \/ in[1] > size THEN {} ELSE rest[2, in[1]]

-----------------------------------------------------------------------------

\* create_checkpoint of the contents s after write n.
create_checkpoint(s, n) ==
  [witness_sequence |-> n, uncompressed_hash |-> s,
   uncompressed_size |-> Len(s), compressed_size |-> Len(compress(s))]

Blank == [i \in 1..RegionSize |-> 0]
Current == past[Len(past)]

ReconInit ==
  /\ past = <<Blank>>
  /\ written = <<>>
  /\ checkpoint = create_checkpoint(Blank, 0)
  /\ stored = compress(Blank)
  /\ deltas = <<>>

Patch(s, d, data) ==
  [i \in 1..Len(s) |->
     IF i \in (d.offset + 1)..(d.offset + d.length) THEN data[i - d.offset] ELSE s[i]]

\* The region is written: a delta is recorded, with the hash of its data.
Write(offset, data) ==
  /\ Len(written) < MaxSequence
  /\ offset + Len(data) <= RegionSize
  /\ LET d == [sequence |-> Len(past), offset |-> offset,
               length |-> Len(data), data_hash |-> data]
     IN  /\ past' = Append(past, Patch(Current, d, data))
         /\ written' = Append(written, [delta |-> d, data |-> data])
  /\ UNCHANGED <<checkpoint, stored, deltas>>

Checkpoint ==
  /\ checkpoint.witness_sequence < Len(written)
  /\ checkpoint' = create_checkpoint(Current, Len(written))
  /\ stored' = compress(Current)
  /\ UNCHANGED <<past, written, deltas>>

\* Deltas are added in sequence order; the pipeline does not ask for all of them.
add_delta(d) ==
  /\ Len(deltas) < MAX_DELTAS
  /\ deltas # <<>> => d.sequence > Last(deltas).sequence
  /\ deltas' = Append(deltas, d)
  /\ UNCHANGED <<past, written, checkpoint, stored>>

clear ==
  /\ deltas # <<>>
  /\ deltas' = <<>>
  /\ UNCHANGED <<past, written, checkpoint, stored>>

\* Storage faults: one item of the stream changes or its end is lost; delta data
\* changes.
DamageStream ==
  /\ stored = compress(checkpoint.uncompressed_hash)
  /\ \/ \E i \in 1..Len(stored), v \in 0..2 :
          stored' = [stored EXCEPT ![i] = v]
     \/ \E n \in 0..(Len(stored) - 1) : stored' = SubSeq(stored, 1, n)
  /\ UNCHANGED <<past, written, checkpoint, deltas>>

DamageDelta ==
  /\ \E i \in 1..Len(written), v \in Byte :
       written' = [written EXCEPT ![i].data[1] = v]
  /\ UNCHANGED <<past, checkpoint, stored, deltas>>

-----------------------------------------------------------------------------

\* delta_data_fn
Data(d) == written[d.sequence].data

\* Steps 1 and 2 of reconstruct: decompress, compare size and hash.
Baseline(c) ==
  IF Len(stored) < c.compressed_size THEN {}
  ELSE {s \in decompress(SubSeq(stored, 1, c.compressed_size), c.uncompressed_size) :
          Len(s) = c.uncompressed_size /\ s = c.uncompressed_hash}

\* Step 3: apply the deltas in order; all of them must be in bounds and intact.
reconstruct ==
  IF \A i \in 1..Len(deltas) :
       /\ deltas[i].offset + deltas[i].length <= checkpoint.uncompressed_size
       /\ Data(deltas[i]) = deltas[i].data_hash
    THEN {FoldLeft(LAMBDA s, d : Patch(s, d, Data(d)), base, deltas) :
            base \in Baseline(checkpoint)}
    ELSE {}

ReconNext ==
  \/ \E off \in 0..(RegionSize - 1), data \in UNION {[1..n -> Byte] : n \in 1..2} :
       Write(off, data)
  \/ Checkpoint
  \/ \E i \in 1..Len(written) : add_delta(written[i].delta)
  \/ clear
  \/ DamageStream
  \/ DamageDelta

-----------------------------------------------------------------------------

\* The deltas in the pipeline are the first k after the checkpoint.
Follows(k) ==
  deltas = [i \in 1..k |-> written[checkpoint.witness_sequence + i].delta]

\* Recovery is to a point in time: given the deltas that follow the checkpoint
\* without a gap, reconstruct returns the contents as of the last of them or an
\* error, and an error only if a store was damaged; compression loses nothing
\* and no damage is taken for contents.
PointInTime ==
  \A k \in 0..(Len(written) - checkpoint.witness_sequence) :
    Follows(k) =>
      /\ reconstruct \subseteq {past[checkpoint.witness_sequence + k + 1]}
      /\ ( /\ stored = compress(checkpoint.uncompressed_hash)
           /\ \A i \in 1..Len(written) : written[i].data = written[i].delta.data_hash )
         => reconstruct # {}
=============================================================================
