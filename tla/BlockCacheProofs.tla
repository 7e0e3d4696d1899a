---------------------------- MODULE BlockCacheProofs ----------------------------
(***************************************************************************)
(* Proofs about BlockCache, for every number of sectors and slots, every   *)
(* width of the LRU clock and every set of contents.                       *)
(***************************************************************************)
EXTENDS BlockCache, TLAPS

\* The types of all but the LRU history, which has an invariant of its own below.
Stamp == 0 .. ClockMod - 1
Shape ==
  /\ backend \in [LBA -> Data]
  /\ slots \in [Slots -> [lba : LBA, last_use : Stamp, valid : BOOLEAN]]
  /\ sector \in [Slots -> Data]
  /\ clock \in Stamp
  /\ fault \in [Slots -> {"none", "failed", "clobbered"}]

IInv == Shape /\ OneSlotPerSector /\ Coherent

-------------------------------------------------------------------------------
\* A victim is a slot.
LEMMA VictimIsSlot == PickVictim \subseteq Slots
BY DEF PickVictim

\* The clock keeps to its width, and advances by one until it has wrapped.
LEMMA TickStamp ==
  ASSUME clock \in Stamp, Tick
  PROVE  clock' \in Stamp /\ (~wrapped' => ~wrapped /\ clock' = clock + 1)
  <1>1. clock \in Nat /\ ClockMod \in Nat /\ ClockMod > 1 /\ clock < ClockMod
    BY CacheAssumption DEF Stamp
  <1>2. clock' = (clock + 1) % ClockMod
    BY DEF Tick
  <1>3. clock' \in Stamp
    BY <1>1, <1>2 DEF Stamp
  <1>4. clock' # 0 => clock' = clock + 1
    <2>1. CASE clock + 1 < ClockMod
      BY <1>1, <1>2, <2>1
    <2>2. CASE clock + 1 = ClockMod
      BY <1>1, <1>2, <2>2
    <2> QED BY <1>1, <2>1, <2>2
  <1>5. ~wrapped' => ~wrapped /\ clock' # 0
    BY DEF Tick
  <1> QED BY <1>3, <1>4, <1>5

\* The initial states, where every slot is free.
LEMMA InitInv == Init => IInv
  <1> SUFFICES ASSUME Init PROVE IInv
    OBVIOUS
  <1>1. 0 \in LBA
    BY CacheAssumption DEF LBA
  <1>2. Shape
    BY <1>1, CacheAssumption DEF Init, Shape, FreeSlot, Stamp
  <1>3. \A s \in Slots : ~slots[s].valid
    BY DEF Init, FreeSlot
  <1> QED BY <1>2, <1>3 DEF IInv, OneSlotPerSector, Coherent

\* Claiming a slot for a sector that no other slot holds keeps the invariant, when
\* the slot is filled with what the backend now holds and no other sector changes.
LEMMA ClaimInv ==
  ASSUME IInv, Tick,
         NEW s \in Slots, NEW lba \in LBA, NEW c \in Data,
         \A t \in Slots \ {s} : slots[t].valid => slots[t].lba # lba,
         sector' = [sector EXCEPT ![s] = c],
         backend' = [backend EXCEPT ![lba] = c],
         Claim(s, lba)
  PROVE  IInv'
  <1>1. clock' \in Stamp
    BY TickStamp DEF IInv, Shape
  <1>2. /\ slots' = [slots EXCEPT ![s] = [lba |-> lba, last_use |-> clock', valid |-> TRUE]]
        /\ fault' = [fault EXCEPT ![s] = "none"]
    BY DEF Claim
  <1>3. Shape'
    BY <1>1, <1>2 DEF IInv, Shape
  <1>4. slots'[s].valid /\ slots'[s].lba = lba /\ sector'[s] = c /\ backend'[lba] = c
    BY <1>2 DEF IInv, Shape
  <1>5. \A t \in Slots \ {s} :
          slots'[t] = slots[t] /\ sector'[t] = sector[t] /\ fault'[t] = fault[t]
    BY <1>2 DEF IInv, Shape
  <1>6. OneSlotPerSector'
    BY <1>4, <1>5 DEF IInv, OneSlotPerSector
  <1>7. \A l \in LBA \ {lba} : backend'[l] = backend[l]
    BY DEF IInv, Shape
  <1>8. \A t \in Slots \ {s} : slots[t].lba \in LBA
    BY DEF IInv, Shape
  <1>9. Coherent'
    BY <1>4, <1>5, <1>7, <1>8 DEF IInv, Coherent
  <1> QED BY <1>3, <1>6, <1>9 DEF IInv

\* A hit only renews a stamp.
LEMMA ReadHitInv ==
  ASSUME IInv, NEW lba \in LBA, ReadHit(lba)
  PROVE  IInv'
  <1>1. PICK s \in Slots : slots' = [slots EXCEPT ![s].last_use = clock']
    BY DEF ReadHit, Find
  <1>2. clock' \in Stamp /\ UNCHANGED <<backend, sector, fault>>
    BY TickStamp DEF ReadHit, IInv, Shape
  <1>3. Shape'
    BY <1>1, <1>2 DEF IInv, Shape
  <1>4. \A t \in Slots : slots'[t].valid = slots[t].valid /\ slots'[t].lba = slots[t].lba
    BY <1>1 DEF IInv, Shape
  <1>5. OneSlotPerSector' /\ Coherent'
    BY <1>2, <1>4 DEF IInv, OneSlotPerSector, Coherent
  <1> QED BY <1>3, <1>5 DEF IInv

\* A miss claims the victim, or leaves it clobbered.
LEMMA ReadMissInv ==
  ASSUME IInv, NEW lba \in LBA, NEW ok \in BOOLEAN, ReadMiss(lba, ok)
  PROVE  IInv'
  <1>1. CASE ok
    <2>1. PICK v \in Slots : sector' = [sector EXCEPT ![v] = backend[lba]] /\ Claim(v, lba)
      BY <1>1, VictimIsSlot DEF ReadMiss
    <2>2. \A t \in Slots : slots[t].valid => slots[t].lba # lba
      BY DEF ReadMiss, Find
    <2>3. Tick /\ backend[lba] \in Data /\ backend' = [backend EXCEPT ![lba] = backend[lba]]
      BY DEF ReadMiss, IInv, Shape
    <2> QED BY <2>1, <2>2, <2>3, ClaimInv
  <1>2. CASE ~ok
    <2>1. PICK v \in Slots :
            \/ UNCHANGED <<sector, fault>>
            \/ /\ \E c \in Data : sector' = [sector EXCEPT ![v] = c]
               /\ fault' = [fault EXCEPT ![v] = "clobbered"]
      BY <1>2, VictimIsSlot DEF ReadMiss
    <2>2. UNCHANGED <<slots, backend>> /\ clock' \in Stamp
      BY <1>2, TickStamp DEF ReadMiss, IInv, Shape
    <2>3. Shape'
      BY <2>1, <2>2 DEF IInv, Shape
    <2>4. \A t \in Slots : fault'[t] = "none" => fault[t] = "none" /\ sector'[t] = sector[t]
      BY <2>1 DEF IInv, Shape
    <2>5. OneSlotPerSector' /\ Coherent'
      BY <2>2, <2>4 DEF IInv, OneSlotPerSector, Coherent
    <2> QED BY <2>3, <2>5 DEF IInv
  <1> QED BY <1>1, <1>2

\* A write claims the sector's slot or a victim, or taints the cached copy.
LEMMA WriteBlockInv ==
  ASSUME IInv, NEW lba \in LBA, NEW ok \in BOOLEAN, WriteBlock(lba, ok)
  PROVE  IInv'
  <1>1. PICK data \in Data : WriteBlock(lba, ok)!(data)
    BY DEF WriteBlock
  <1>2. backend' = [backend EXCEPT ![lba] = data]
    BY <1>1
  <1>3. CASE ok
    <2>1. PICK s \in IF Find(lba) # {} THEN Find(lba) ELSE PickVictim :
            sector' = [sector EXCEPT ![s] = data] /\ Claim(s, lba)
      BY <1>1, <1>3
    <2>2. s \in Slots
      BY <2>1, VictimIsSlot DEF Find
    <2>3. \A t \in Slots \ {s} : slots[t].valid => slots[t].lba # lba
      <3>1. CASE Find(lba) # {}
        BY <2>1, <2>2, <3>1 DEF Find, IInv, OneSlotPerSector
      <3>2. CASE Find(lba) = {}
        BY <3>2 DEF Find
      <3> QED BY <3>1, <3>2
    <2>4. Tick
      BY <1>1, <1>3
    <2> QED BY <1>2, <2>1, <2>2, <2>3, <2>4, ClaimInv
  <1>4. CASE ~ok
    <2>1. /\ fault' = [s \in Slots |-> IF s \in Find(lba) THEN "failed" ELSE fault[s]]
          /\ UNCHANGED <<slots, sector, clock>>
      BY <1>1, <1>4 DEF cache
    <2>2. Shape'
      BY <1>2, <2>1 DEF IInv, Shape
    <2>3. \A t \in Slots : slots[t].valid /\ fault'[t] = "none"
                             => slots[t].lba # lba /\ fault[t] = "none"
      BY <2>1 DEF Find
    <2>4. \A t \in Slots : slots[t].lba \in LBA
      BY DEF IInv, Shape
    <2>5. \A l \in LBA \ {lba} : backend'[l] = backend[l]
      BY <1>2 DEF IInv, Shape
    <2>6. OneSlotPerSector' /\ Coherent'
      BY <2>1, <2>3, <2>4, <2>5 DEF IInv, OneSlotPerSector, Coherent
    <2> QED BY <2>2, <2>6 DEF IInv
  <1> QED BY <1>3, <1>4

\* An erase frees the slots of the range, or taints them.
LEMMA CacheEraseInv ==
  ASSUME IInv, NEW lba \in LBA, NEW count \in 1 .. N, NEW ok \in BOOLEAN,
         CacheErase(lba, count, ok)
  PROVE  IInv'
  <1> DEFINE range == lba .. lba + count - 1
             hit == {s \in Slots : slots[s].valid /\ slots[s].lba \in range}
  <1>0. 0 \in LBA /\ 0 \in Stamp /\ Blank \in Data /\ clock' = clock
    BY CacheAssumption DEF LBA, Stamp, CacheErase
  <1>1. CASE ok
    <2>1. /\ backend' = [l \in LBA |-> IF l \in range THEN Blank ELSE backend[l]]
          /\ slots' = [s \in Slots |-> IF s \in hit THEN FreeSlot ELSE slots[s]]
          /\ sector' = [s \in Slots |-> IF s \in hit THEN Blank ELSE sector[s]]
          /\ fault' = [s \in Slots |-> IF s \in hit THEN "none" ELSE fault[s]]
      BY <1>1 DEF CacheErase
    <2> HIDE DEF range
    <2>2. Shape'
      BY <1>0, <2>1 DEF IInv, Shape, FreeSlot
    <2>3. \A s \in Slots : slots'[s].valid =>
            /\ slots'[s] = slots[s] /\ sector'[s] = sector[s] /\ fault'[s] = fault[s]
            /\ slots[s].lba \in LBA \ range
      BY <2>1 DEF IInv, Shape, FreeSlot
    <2>4. OneSlotPerSector' /\ Coherent'
      BY <2>1, <2>3 DEF IInv, OneSlotPerSector, Coherent
    <2> QED BY <2>2, <2>4 DEF IInv
  <1>2. CASE ~ok
    <2>1. /\ \E rest \in [range -> Data] :
               backend' = [l \in LBA |-> IF l \in range THEN rest[l] ELSE backend[l]]
          /\ fault' = [s \in Slots |-> IF s \in hit THEN "failed" ELSE fault[s]]
          /\ UNCHANGED <<slots, sector>>
      BY <1>2 DEF CacheErase
    <2> HIDE DEF range
    <2>2. Shape'
      BY <1>0, <2>1 DEF IInv, Shape
    <2>3. \A s \in Slots : slots[s].valid /\ fault'[s] = "none" =>
            fault[s] = "none" /\ slots[s].lba \in LBA \ range
      BY <2>1 DEF IInv, Shape
    <2>4. \A l \in LBA \ range : backend'[l] = backend[l]
      BY <2>1
    <2>5. OneSlotPerSector' /\ Coherent'
      BY <2>1, <2>3, <2>4 DEF IInv, OneSlotPerSector, Coherent
    <2> QED BY <2>2, <2>5 DEF IInv
  <1> QED BY <1>1, <1>2

\* IInv is inductive.
LEMMA NextInv == IInv /\ [Next]_vars => IInv'
  <1> SUFFICES ASSUME IInv, [Next]_vars PROVE IInv'
    OBVIOUS
  <1>1. CASE Next
    BY <1>1, ReadHitInv, ReadMissInv, WriteBlockInv, CacheEraseInv DEF Next
  <1>2. CASE UNCHANGED vars
    BY <1>2 DEF vars, cache, IInv, Shape, OneSlotPerSector, Coherent
  <1> QED BY <1>1, <1>2

-------------------------------------------------------------------------------
\* The invariant holds throughout.
THEOREM Invariance == Spec => []IInv
BY InitInv, NextInv, PTL DEF Spec

\* A sector is never cached twice, whatever calls failed before.
THEOREM NoDuplicates == Spec => []OneSlotPerSector
  <1>1. IInv => OneSlotPerSector
    BY DEF IInv
  <1> QED BY <1>1, Invariance, PTL

\* The cache is write-through: outside the sectors hit by a failed backend call a
\* cached sector is what the backend holds.
THEOREM Coherence == Spec => []Coherent
  <1>1. IInv => Coherent
    BY DEF IInv
  <1> QED BY <1>1, Invariance, PTL

-------------------------------------------------------------------------------
(* The LRU history.                                                        *)

\* Until the clock wraps, the stamps of the slots in use are distinct, none lies in
\* the future, and they say which slot was used before which.
Ordered ==
  ~wrapped =>
    /\ \A s \in InUse : slots[s].last_use <= clock
    /\ \A s, t \in InUse : s # t => slots[s].last_use # slots[t].last_use
    /\ \A s, t \in InUse : <<s, t>> \in older <=> slots[s].last_use < slots[t].last_use

HInv == older \subseteq InUse \X InUse /\ wrapped \in BOOLEAN /\ Ordered

\* Using a slot, with the stamp of this tick, keeps the history right.
LEMMA UseHistory ==
  ASSUME Shape, HInv, Shape', Tick, NEW s \in Slots, Use(s),
         slots'[s].valid, slots'[s].last_use = clock',
         \A t \in Slots \ {s} : slots'[t] = slots[t]
  PROVE  HInv'
  <1>1. /\ s \in InUse' /\ InUse \subseteq Slots /\ InUse' \subseteq Slots
        /\ \A t \in Slots \ {s} : t \in InUse <=> t \in InUse'
    BY DEF InUse
  <1>2. older' = {p \in older : s \notin {p[1], p[2]}} \cup {<<t, s>> : t \in InUse \ {s}}
    BY DEF Use
  <1>3. \A p \in older : p = <<p[1], p[2]>> /\ p[1] \in InUse /\ p[2] \in InUse
    BY DEF HInv
  <1>4. older' \subseteq InUse' \X InUse'
    BY <1>1, <1>2, <1>3
  <1>5. wrapped' \in BOOLEAN
    BY DEF Tick, HInv
  <1>6. ASSUME NEW t \in InUse', NEW u \in InUse'
        PROVE  <<t, u>> \in older' <=> t # s /\ (u = s \/ <<t, u>> \in older)
    <2> DEFINE p == <<t, u>>
    <2>1. p[1] = t /\ p[2] = u
      OBVIOUS
    <2>2. p \in {<<x, s>> : x \in InUse \ {s}} <=> u = s /\ t \in InUse \ {s}
      OBVIOUS
    <2>3. t # s => t \in InUse
      BY <1>1
    <2>4. p \in {q \in older : s \notin {q[1], q[2]}} <=> p \in older /\ t # s /\ u # s
      BY <2>1
    <2> QED BY <1>2, <2>2, <2>3, <2>4
  <1>7. ASSUME ~wrapped' PROVE Ordered'
    <2>1. ~wrapped /\ clock' = clock + 1 /\ clock \in Int /\ clock' \in Int
      BY <1>7, TickStamp DEF Shape, Stamp
    <2>2. \A t \in Slots : slots[t].last_use \in Int /\ slots'[t].last_use \in Int
      BY DEF Shape, Stamp
    <2>3. \A t \in InUse' \ {s} : slots'[t].last_use = slots[t].last_use
                                  /\ slots[t].last_use < clock' /\ t \in InUse
      BY <1>1, <2>1, <2>2 DEF HInv, Ordered
    <2>4. \A t \in InUse' : slots'[t].last_use <= clock'
      BY <1>1, <2>1, <2>2, <2>3
    <2>5. \A t, u \in InUse' : t # u => slots'[t].last_use # slots'[u].last_use
      <3> SUFFICES ASSUME NEW t \in InUse', NEW u \in InUse', t # u
                   PROVE  slots'[t].last_use # slots'[u].last_use
        OBVIOUS
      <3>1. CASE t # s /\ u # s
        BY <2>1, <2>3, <3>1 DEF HInv, Ordered
      <3>2. CASE t = s \/ u = s
        BY <1>1, <2>1, <2>2, <2>3, <3>2
      <3> QED BY <3>1, <3>2
    <2>6. \A t, u \in InUse' :
            <<t, u>> \in older' <=> slots'[t].last_use < slots'[u].last_use
      <3> SUFFICES ASSUME NEW t \in InUse', NEW u \in InUse'
                   PROVE  <<t, u>> \in older' <=> slots'[t].last_use < slots'[u].last_use
        OBVIOUS
      <3>1. CASE t # s /\ u # s
        <4>1. <<t, u>> \in older' <=> <<t, u>> \in older
          BY <1>6, <3>1
        <4>2. /\ t \in InUse /\ u \in InUse
              /\ slots'[t].last_use = slots[t].last_use
              /\ slots'[u].last_use = slots[u].last_use
          BY <2>3, <3>1
        <4>3. <<t, u>> \in older <=> slots[t].last_use < slots[u].last_use
          BY <2>1, <4>2 DEF HInv, Ordered
        <4> QED BY <4>1, <4>2, <4>3
      <3>2. CASE t = s \/ u = s
        BY <1>1, <1>6, <2>1, <2>2, <2>3, <3>2
      <3> QED BY <3>1, <3>2
    <2> QED BY <2>4, <2>5, <2>6 DEF Ordered
  <1> QED BY <1>4, <1>5, <1>7 DEF HInv, Ordered

\* A step that uses no slot leaves the stamps of the slots that stay in use alone,
\* and the clock does not go back.
LEMMA NoUseHistory ==
  ASSUME Shape, HInv, clock' \in Stamp, wrapped' \in BOOLEAN,
         ~wrapped' => ~wrapped /\ clock <= clock',
         InUse' \subseteq InUse,
         \A t \in InUse' : slots'[t] = slots[t],
         older' = {p \in older : p[1] \in InUse' /\ p[2] \in InUse'}
  PROVE  HInv'
  <1>1. older' \subseteq InUse' \X InUse'
    BY DEF HInv
  <1>2. \A t, u \in InUse' : <<t, u>> \in older' <=> <<t, u>> \in older
    OBVIOUS
  <1>3. \A t \in InUse' : t \in InUse /\ slots[t].last_use \in Int
    BY DEF InUse, Shape, Stamp
  <1>4. clock \in Int /\ clock' \in Int
    BY DEF Shape, Stamp
  <1>5. Ordered'
    BY <1>2, <1>3, <1>4 DEF HInv, Ordered
  <1> QED BY <1>1, <1>5 DEF HInv

\* The slot that is claimed is the one used.
LEMMA ClaimHistory ==
  ASSUME Shape, HInv, Shape', Tick, NEW s \in Slots, NEW lba \in LBA, Claim(s, lba)
  PROVE  HInv'
  <1>1. /\ slots' = [slots EXCEPT ![s] = [lba |-> lba, last_use |-> clock', valid |-> TRUE]]
        /\ Use(s)
    BY DEF Claim
  <1>2. /\ slots'[s].valid /\ slots'[s].last_use = clock'
        /\ \A t \in Slots \ {s} : slots'[t] = slots[t]
    BY <1>1 DEF Shape
  <1> QED BY <1>1, <1>2, UseHistory

\* The history is right throughout.
LEMMA NextHistory ==
  ASSUME IInv, HInv, IInv', [Next]_vars
  PROVE  HInv'
  <1>0. Shape /\ Shape'
    BY DEF IInv
  <1>1. older = {p \in older : p[1] \in InUse /\ p[2] \in InUse}
    BY DEF HInv
  <1>2. ASSUME NEW lba \in LBA, ReadHit(lba) PROVE HInv'
    <2>1. Tick
      BY <1>2 DEF ReadHit
    <2>2. PICK s \in Find(lba) : slots' = [slots EXCEPT ![s].last_use = clock'] /\ Use(s)
      BY <1>2 DEF ReadHit
    <2>3. s \in Slots /\ slots[s].valid
      BY DEF Find
    <2>4. /\ slots'[s].valid /\ slots'[s].last_use = clock'
          /\ \A t \in Slots \ {s} : slots'[t] = slots[t]
      BY <1>0, <2>2, <2>3 DEF Shape
    <2> QED BY <1>0, <2>1, <2>2, <2>3, <2>4, UseHistory
  <1>3. ASSUME NEW lba \in LBA, NEW ok \in BOOLEAN, ReadMiss(lba, ok) PROVE HInv'
    <2>1. Tick
      BY <1>3 DEF ReadMiss
    <2>2. CASE ok
      <3>1. PICK v \in Slots : Claim(v, lba)
        BY <1>3, <2>2, VictimIsSlot DEF ReadMiss
      <3> QED BY <1>0, <2>1, <3>1, ClaimHistory
    <2>3. CASE ~ok
      <3>1. UNCHANGED <<slots, older>>
        BY <1>3, <2>3 DEF ReadMiss
      <3>2. clock' \in Stamp /\ (~wrapped' => ~wrapped /\ clock <= clock')
        BY <1>0, <2>1, TickStamp DEF Shape, Stamp
      <3>3. wrapped' \in BOOLEAN
        BY <2>1 DEF Tick, HInv
      <3>4. InUse' = InUse
        BY <3>1 DEF InUse
      <3> QED BY <1>0, <1>1, <3>1, <3>2, <3>3, <3>4, NoUseHistory
    <2> QED BY <2>2, <2>3
  <1>4. ASSUME NEW lba \in LBA, NEW ok \in BOOLEAN, WriteBlock(lba, ok) PROVE HInv'
    <2>1. CASE ok
      <3>1. Tick /\ \E s \in IF Find(lba) # {} THEN Find(lba) ELSE PickVictim : Claim(s, lba)
        BY <1>4, <2>1 DEF WriteBlock
      <3>2. PICK s \in Slots : Claim(s, lba)
        BY <3>1, VictimIsSlot DEF Find
      <3> QED BY <1>0, <3>1, <3>2, ClaimHistory
    <2>2. CASE ~ok
      <3>1. UNCHANGED <<slots, clock, older, wrapped>>
        BY <1>4, <2>2 DEF WriteBlock, cache
      <3> QED BY <3>1 DEF HInv, Ordered, InUse
    <2> QED BY <2>1, <2>2
  <1>5. ASSUME NEW lba \in LBA, NEW count \in 1 .. N, NEW ok \in BOOLEAN,
               CacheErase(lba, count, ok)
        PROVE  HInv'
    <2> DEFINE range == lba .. lba + count - 1
               hit == {s \in Slots : slots[s].valid /\ slots[s].lba \in range}
    <2>1. UNCHANGED <<clock, wrapped>>
      BY <1>5 DEF CacheErase
    <2>2. CASE ok
      <3>1. /\ slots' = [s \in Slots |-> IF s \in hit THEN FreeSlot ELSE slots[s]]
            /\ older' = {p \in older : p[1] \notin hit /\ p[2] \notin hit}
        BY <1>5, <2>2 DEF CacheErase
      <3> HIDE DEF range
      <3>2. InUse' = InUse \ hit /\ \A t \in InUse' : slots'[t] = slots[t]
        BY <3>1 DEF InUse, FreeSlot
      <3> HIDE DEF hit
      <3>3. older' = {p \in older : p[1] \in InUse' /\ p[2] \in InUse'}
        BY <1>1, <3>1, <3>2
      <3>4. clock' \in Stamp /\ wrapped' \in BOOLEAN /\ (~wrapped' => ~wrapped /\ clock <= clock')
        BY <1>0, <2>1 DEF Shape, Stamp, HInv
      <3> QED BY <1>0, <3>2, <3>3, <3>4, NoUseHistory
    <2>3. CASE ~ok
      <3>1. UNCHANGED <<slots, older>>
        BY <1>5, <2>3 DEF CacheErase
      <3> QED BY <2>1, <3>1 DEF HInv, Ordered, InUse
    <2> QED BY <2>2, <2>3
  <1>6. CASE UNCHANGED vars
    BY <1>6 DEF vars, cache, HInv, Ordered, InUse
  <1> QED BY <1>2, <1>3, <1>4, <1>5, <1>6 DEF Next

\* The victim is the oldest slot, once all are in use.
LEMMA VictimOldest ==
  ASSUME Shape, HInv, ~wrapped, NEW v \in PickVictim, slots[v].valid
  PROVE  \A t \in Slots \ {v} : <<v, t>> \in older
  <1>1. v \in Slots /\ {s \in Slots : ~slots[s].valid} = {}
    BY DEF PickVictim
  <1>2. ASSUME NEW t \in Slots \ {v} PROVE <<v, t>> \in older
    <2>1. v \in InUse /\ t \in InUse
      BY <1>1 DEF InUse
    <2>2. \/ slots[v].last_use < slots[t].last_use
          \/ slots[v].last_use = slots[t].last_use
      BY <1>1 DEF PickVictim
    <2> QED BY <2>1, <2>2 DEF HInv, Ordered
  <1> QED BY <1>2

\* A slot changes hands only as the victim.
LEMMA NextEvicts ==
  ASSUME IInv, HInv, [Next]_vars, NEW s \in Slots,
         slots[s].valid, slots'[s].valid, slots'[s].lba # slots[s].lba, ~wrapped'
  PROVE  \A t \in Slots \ {s} : <<s, t>> \in older
  <1>0. Shape
    BY DEF IInv
  <1>1. ASSUME Tick, NEW v \in Slots, NEW lba \in LBA, Claim(v, lba)
        PROVE  v = s /\ ~wrapped /\ lba # slots[s].lba
    <2>1. slots' = [slots EXCEPT ![v] = [lba |-> lba, last_use |-> clock', valid |-> TRUE]]
      BY <1>1 DEF Claim
    <2>2. ~wrapped
      BY <1>0, <1>1, TickStamp DEF Shape
    <2> QED BY <1>0, <2>1, <2>2 DEF Shape
  <1>2. ASSUME NEW lba \in LBA, ReadHit(lba) PROVE FALSE
    <2>1. PICK v \in Slots : slots' = [slots EXCEPT ![v].last_use = clock']
      BY <1>2 DEF ReadHit, Find
    <2> QED BY <1>0, <2>1 DEF Shape
  <1>3. ASSUME NEW lba \in LBA, NEW ok \in BOOLEAN, ReadMiss(lba, ok)
        PROVE  \A t \in Slots \ {s} : <<s, t>> \in older
    <2>1. ok
      BY <1>3 DEF ReadMiss
    <2>2. Tick /\ \E v \in PickVictim : Claim(v, lba)
      BY <1>3, <2>1 DEF ReadMiss
    <2> QED BY <1>0, <1>1, <2>2, VictimIsSlot, VictimOldest
  <1>4. ASSUME NEW lba \in LBA, NEW ok \in BOOLEAN, WriteBlock(lba, ok)
        PROVE  \A t \in Slots \ {s} : <<s, t>> \in older
    <2>1. ok
      BY <1>4 DEF WriteBlock, cache
    <2>2. Tick /\ \E v \in IF Find(lba) # {} THEN Find(lba) ELSE PickVictim : Claim(v, lba)
      BY <1>4, <2>1 DEF WriteBlock
    <2>3. CASE Find(lba) # {}
      BY <1>1, <2>2, <2>3 DEF Find
    <2>4. CASE Find(lba) = {}
      BY <1>0, <1>1, <2>2, <2>4, VictimIsSlot, VictimOldest
    <2> QED BY <2>3, <2>4
  <1>5. ASSUME NEW lba \in LBA, NEW count \in 1 .. N, NEW ok \in BOOLEAN,
               CacheErase(lba, count, ok)
        PROVE  FALSE
    <2>1. slots'[s] = FreeSlot \/ slots'[s] = slots[s]
      BY <1>5 DEF CacheErase
    <2> QED BY <2>1 DEF FreeSlot
  <1>6. CASE UNCHANGED vars
    BY <1>6 DEF vars, cache
  <1> QED BY <1>2, <1>3, <1>4, <1>5, <1>6 DEF Next

-------------------------------------------------------------------------------
\* The stamps tell the order of use until the clock wraps.
THEOREM HistoryRight == Spec => []HInv
  <1>1. Init => HInv
    <2> SUFFICES ASSUME Init PROVE HInv
      OBVIOUS
    <2>1. InUse = {} /\ older = {} /\ wrapped = FALSE
      BY DEF Init, InUse, FreeSlot
    <2> QED BY <2>1 DEF HInv, Ordered
  <1>2. IInv /\ HInv /\ IInv' /\ [Next]_vars => HInv'
    BY NextHistory
  <1> QED BY <1>1, <1>2, Invariance, PTL DEF Spec

\* Every variable keeps its type: stamps and clock their width in particular, which
\* the wrapping addition in the code relies on.
THEOREM TypeCorrect == Spec => []TypeOK
  <1>1. IInv /\ HInv => TypeOK
    BY DEF IInv, Shape, Stamp, HInv, TypeOK
  <1> QED BY <1>1, Invariance, HistoryRight, PTL

\* pickVictim evicts the least recently used sector, for every number of slots and
\* after any history of hits, misses, erases and failures, until the clock wraps.
THEOREM LeastRecentlyUsed == Spec => EvictsLRU
  <1>1. IInv /\ HInv /\ [Next]_vars =>
          [\A s \in Slots :
             /\ slots[s].valid /\ slots'[s].valid /\ slots'[s].lba # slots[s].lba
             /\ ~wrapped'
             => \A t \in Slots \ {s} : <<s, t>> \in older]_vars
    BY NextEvicts
  <1> QED BY <1>1, Invariance, HistoryRight, PTL DEF Spec, EvictsLRU
================================================================================
