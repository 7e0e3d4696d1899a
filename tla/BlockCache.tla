------------------------------- MODULE BlockCache -------------------------------
(***************************************************************************)
(* The write-through sector cache of ra8_io_blockdev_cache, over a backend *)
(* block device whose calls may fail.                                      *)
(*                                                                         *)
(* A read or a write of a range is one step per sector and stops at the    *)
(* first that fails; the loop keeps no state in the cache, so any sequence *)
(* of sectors is allowed.  A backend read that fails may have filled the   *)
(* buffer it was given in part, or completely (a CRC error is only known   *)
(* at the end), and that buffer is the cache's own sector.  A backend      *)
(* write or erase that fails may have been done in part.  Either leaves    *)
(* contents that may be anything.  What a free slot holds is never looked  *)
(* at, so all free slots are alike.  The hit and miss counters are left    *)
(* out.                                                                    *)
(***************************************************************************)
EXTENDS Integers

CONSTANTS N,         \* sectors of the backend
          K,         \* n_slots
          ClockMod,  \* the LRU clock wraps here; 2^32 in the code
          Data,      \* sector contents
          Blank      \* the contents of an erased sector

ASSUME CacheAssumption ==
  /\ N \in Nat \ {0}
  /\ K \in Nat \ {0}
  /\ ClockMod \in Nat /\ ClockMod > 1
  /\ Blank \in Data

LBA == 0 .. N - 1
Slots == 0 .. K - 1

VARIABLES
  backend,  \* LBA -> Data
  slots,    \* Slots -> [lba, last_use, valid]
  sector,   \* Slots -> Data, the cached bytes
  clock,    \* the LRU clock
  older,    \* history: <<s, t>> when slot s was last used before slot t
  fault,    \* history: what a failed backend call did to a slot since it was claimed
  wrapped   \* history: the clock has wrapped

cache == <<slots, sector, clock>>
vars == <<backend, cache, older, fault, wrapped>>

FreeSlot == [lba |-> 0, last_use |-> 0, valid |-> FALSE]
InUse == {s \in Slots : slots[s].valid}

-------------------------------------------------------------------------------
\* find: the slots holding a sector.
Find(lba) == {s \in Slots : slots[s].valid /\ slots[s].lba = lba}

\* pickVictim: the first free slot, else the first with the smallest stamp.
PickVictim ==
  LET free == {s \in Slots : ~slots[s].valid}
  IN  IF free # {}
      THEN {s \in free : \A t \in free : s <= t}
      ELSE {s \in Slots : \A t \in Slots :
              \/ slots[s].last_use < slots[t].last_use
              \/ slots[s].last_use = slots[t].last_use /\ s <= t}

\* Mutant: the clock is not reduced to its width.
TickNoWrap ==
  /\ clock' = clock + 1
  /\ UNCHANGED wrapped

\* st.clock +%= 1.
Tick ==
  /\ clock' = (clock + 1) % ClockMod
  /\ wrapped' = (wrapped \/ clock' = 0)

\* A slot is used: the others are now older.
Use(s) == older' = {p \in older : s \notin {p[1], p[2]}} \cup {<<t, s>> : t \in InUse \ {s}}

\* claim: the slot now stands for the sector, as of this tick.
Claim(s, lba) ==
  /\ slots' = [slots EXCEPT ![s] = [lba |-> lba, last_use |-> clock', valid |-> TRUE]]
  /\ fault' = [fault EXCEPT ![s] = "none"]
  /\ Use(s)

-------------------------------------------------------------------------------
\* Mutant: a hit does not renew the stamp.
ReadHitNoStamp(lba) ==
  /\ Tick
  /\ \E s \in Find(lba) : Use(s)
  /\ UNCHANGED <<backend, slots, sector, fault>>

\* readBlock, a hit: the stamp is renewed, the backend is not asked.
ReadHit(lba) ==
  /\ Tick
  /\ \E s \in Find(lba) :
       /\ slots' = [slots EXCEPT ![s].last_use = clock']
       /\ Use(s)
  /\ UNCHANGED <<backend, sector, fault>>

\* readBlock, a miss: the backend reads straight into the victim's sector, and
\* only when that succeeded does the slot change hands.
ReadMiss(lba, ok) ==
  /\ Find(lba) = {}
  /\ Tick
  /\ \E v \in PickVictim :
       IF ok
       THEN /\ sector' = [sector EXCEPT ![v] = backend[lba]]
            /\ Claim(v, lba)
       ELSE /\ IF slots[v].valid
               THEN /\ \E c \in Data :
                         sector' = [sector EXCEPT ![v] = c]
                    /\ fault' = [fault EXCEPT ![v] = "clobbered"]
               ELSE UNCHANGED <<sector, fault>>
            /\ UNCHANGED <<slots, older>>
  /\ UNCHANGED backend

\* Mutant: a write that misses always takes a new slot, also when it hits.
WriteBlockNoFind(lba, ok) ==
  /\ ok
  /\ Tick
  /\ \E c \in Data, s \in PickVictim :
       /\ backend' = [backend EXCEPT ![lba] = c]
       /\ sector' = [sector EXCEPT ![s] = c]
       /\ Claim(s, lba)

\* writeBlock: the backend first, then the cached copy.  A write that fails leaves
\* the sector with any contents and the cache as it was.
WriteBlock(lba, ok) ==
  \E data \in Data :
    /\ backend' = [backend EXCEPT ![lba] = data]
    /\ IF ok
       THEN /\ Tick
            /\ \E s \in IF Find(lba) # {} THEN Find(lba) ELSE PickVictim :
                 /\ sector' = [sector EXCEPT ![s] = data]
                 /\ Claim(s, lba)
       ELSE /\ fault' = [s \in Slots |-> IF s \in Find(lba) THEN "failed" ELSE fault[s]]
            /\ UNCHANGED <<cache, older, wrapped>>

\* Mutant: the cached copies of erased sectors are kept.
CacheEraseKeeps(lba, count, ok) ==
  /\ lba + count <= N
  /\ backend' = [l \in LBA |-> IF l \in lba .. lba + count - 1 THEN Blank ELSE backend[l]]
  /\ UNCHANGED <<cache, older, fault, wrapped>>

\* cacheErase: the backend erases in order; on success the range is invalidated.
CacheErase(lba, count, ok) ==
  /\ lba + count <= N
  /\ LET range == lba .. lba + count - 1
         hit == {s \in Slots : slots[s].valid /\ slots[s].lba \in range}
     IN  IF ok
         THEN /\ backend' = [l \in LBA |-> IF l \in range THEN Blank ELSE backend[l]]
              /\ slots' = [s \in Slots |-> IF s \in hit THEN FreeSlot ELSE slots[s]]
              /\ sector' = [s \in Slots |-> IF s \in hit THEN Blank ELSE sector[s]]
              /\ fault' = [s \in Slots |-> IF s \in hit THEN "none" ELSE fault[s]]
              /\ older' = {p \in older : p[1] \notin hit /\ p[2] \notin hit}
         ELSE /\ \E rest \in [range -> Data] :
                   backend' = [l \in LBA |-> IF l \in range THEN rest[l] ELSE backend[l]]
              /\ fault' = [s \in Slots |-> IF s \in hit THEN "failed" ELSE fault[s]]
              /\ UNCHANGED <<slots, sector, older>>
  /\ UNCHANGED <<clock, wrapped>>

\* ra8_io_blockdev_cache_init: every slot is free.
Init ==
  /\ backend \in [LBA -> Data]
  /\ slots = [s \in Slots |-> FreeSlot]
  /\ sector = [s \in Slots |-> Blank]
  /\ clock = 0
  /\ older = {}
  /\ fault = [s \in Slots |-> "none"]
  /\ wrapped = FALSE

Next ==
  \/ \E lba \in LBA : ReadHit(lba)
  \/ \E lba \in LBA, ok \in BOOLEAN : ReadMiss(lba, ok) \/ WriteBlock(lba, ok)
  \/ \E lba \in LBA, count \in 1 .. N, ok \in BOOLEAN : CacheErase(lba, count, ok)

Spec == Init /\ [][Next]_vars

-------------------------------------------------------------------------------
(* Properties.                                                             *)

\* Every variable has its type.
TypeOK ==
  /\ backend \in [LBA -> Data]
  /\ slots \in [Slots -> [lba : LBA, last_use : 0 .. ClockMod - 1, valid : BOOLEAN]]
  /\ sector \in [Slots -> Data]
  /\ clock \in 0 .. ClockMod - 1
  /\ older \subseteq InUse \X InUse
  /\ fault \in [Slots -> {"none", "failed", "clobbered"}]
  /\ wrapped \in BOOLEAN

\* A sector is cached in at most one slot, so a write or an erase reaches every
\* copy of it: find stops at the first.
OneSlotPerSector ==
  \A s, t \in Slots :
    slots[s].valid /\ slots[t].valid /\ slots[s].lba = slots[t].lba => s = t

\* Write-through: a cached sector is what the backend holds, except when a backend
\* call failed on that sector or was filling that slot when it failed.
Coherent ==
  \A s \in Slots :
    slots[s].valid /\ fault[s] = "none" => sector[s] = backend[slots[s].lba]

\* Eviction is least-recently-used, whatever mix of hits, misses, writes, erases
\* and failures came before, as long as the stamps have not wrapped: the slot that
\* changes hands (pickVictim) was last used before every other.
EvictsLRU ==
  [][\A s \in Slots :
       /\ slots[s].valid /\ slots'[s].valid /\ slots'[s].lba # slots[s].lba
       /\ ~wrapped'
       => \A t \in Slots \ {s} : <<s, t>> \in older]_vars

\* ra8_io_blockdev_cache.h: "`cached` now behaves like sd_bd but caches 32
\* sectors".  A sector on which no call failed is read as the backend holds it.
BehavesLikeBackend ==
  \A s \in Slots :
    slots[s].valid /\ fault[s] # "failed" => sector[s] = backend[slots[s].lba]
================================================================================
