------------------------------- MODULE FtlProofs -------------------------------
(***************************************************************************)
(* Proofs about Ftl, for every geometry the mount accepts and every set of *)
(* block contents.                                                         *)
(***************************************************************************)
EXTENDS Ftl, FiniteSetTheorems, TLAPS

\* What the outstanding raw call is about: the block it works on is not live, and
\* is blank by the time it is programmed; a request only runs on a mounted handle
\* and stays within the logical blocks.
CallInv ==
  /\ pc # "idle" => mounted
  /\ pc = "reclaim" => pstate[cur] = "stale"
  /\ pc \in {"erase", "program"} => pstate[cur] = "free"
  /\ pc \in {"reclaim", "erase", "program"} =>
       /\ at < end
       /\ \A l \in LBN : at <= l /\ l < end => buf[l] \in Data
  /\ pc = "program" => medium[cur] = Blank
  /\ pc = "tail_program" => tail = BlankTail

\* The tables of an unbound handle are the cold-start ones.
UnboundInv == ~mounted => map = NoMap

\* A checkpoint on the tail agrees with what was synced, for every block that was
\* not touched since; while mounted it even maps those blocks to the same place.
CheckpointInv ==
  tail.kind = "ckpt" =>
    \A l \in LBN \ touched :
      /\ ReadOne(tail.map, l) = synced[l]
      /\ mounted => tail.map[l] = map[l]

IInv == TypeOK /\ MapLive /\ CallInv /\ UnboundInv /\ CheckpointInv

-------------------------------------------------------------------------------
(* Facts about the helpers.                                                *)

\* The index sets and the sentinel: block 0 exists on both sides of the map and no
\* physical block is the unmapped sentinel.
LEMMA Geometry ==
  /\ LBN \subseteq Nat /\ PB \subseteq Nat
  /\ 0 \in LBN /\ 0 \in PB
  /\ Unmapped \notin PB
BY GeometryAssumption DEF LBN, PB, Unmapped

\* The cold-start tables of resetTables are well typed and valid.
LEMMA ColdTables ==
  /\ NoMap \in Map /\ AllFree \in [PB -> PState] /\ NoWear \in [PB -> Nat]
  /\ AllBlank \in [LBN -> Data \cup {Blank}]
  /\ TablesValid(NoMap, AllFree)
BY Geometry DEF NoMap, AllFree, NoWear, AllBlank, Map, PState, TablesValid

\* What a return leaves behind is well typed.
LEMMA ReturnType ==
  ASSUME Return
  PROVE  /\ pc' = "idle" /\ cur' \in PB /\ at' \in LBN /\ end' \in 0 .. L
         /\ buf' \in [LBN -> Data \cup {Blank}] /\ closing' \in BOOLEAN
  <1>1. 0 \in 0 .. L
    BY GeometryAssumption
  <1>2. pc' = "idle" /\ cur' \in PB /\ at' \in LBN /\ end' \in 0 .. L
    BY Zenon, Geometry, <1>1 DEF Return
  <1>3. buf' \in [LBN -> Data \cup {Blank}]
    BY ColdTables DEF Return
  <1>4. closing' \in BOOLEAN
    BY Zenon DEF Return
  <1> QED BY <1>2, <1>3, <1>4

\* allocBlank goes on to erase a free block or to reclaim a stale one.
LEMMA AllocBlankStep ==
  ASSUME NEW ps, NEW ec, AllocBlank(ps, ec)
  PROVE  /\ pc' \in {"erase", "reclaim"} /\ cur' \in PB
         /\ pc' = "erase" => ps[cur'] = "free"
         /\ pc' = "reclaim" => ps[cur'] = "stale"
         /\ closing' = closing
BY DEF AllocBlank, PickFree, NextStale, Free, Stale

\* commitWrite keeps the tables valid when the block it takes is a free one.
LEMMA CommitWriteValid ==
  ASSUME map \in Map, pstate \in [PB -> PState], TablesValid(map, pstate),
         NEW l \in LBN, NEW p \in PB, pstate[p] = "free", CommitWrite(l, p)
  PROVE  /\ map' \in Map /\ pstate' \in [PB -> PState]
         /\ TablesValid(map', pstate')
  <1>1. map' \in Map /\ pstate' \in [PB -> PState]
    BY DEF CommitWrite, Map, PState
  <1>2. \A k \in LBN : map[k] # p
    BY DEF TablesValid
  <1>3. \A k \in LBN : map'[k] = IF k = l THEN p ELSE map[k]
    BY DEF CommitWrite, Map
  <1>4. \A q \in PB : pstate'[q] = IF q = p THEN "live"
                                  ELSE IF q = map[l] THEN "stale" ELSE pstate[q]
    BY DEF CommitWrite
  <1>5. \A k \in LBN : map'[k] # Unmapped => map'[k] \in PB
    BY <1>1 DEF Map
  <1>6. \A j, k \in LBN : map'[j] # Unmapped /\ map'[j] = map'[k] => j = k
    BY <1>2, <1>3 DEF TablesValid
  <1>7. \A q \in PB : pstate'[q] = "live" <=> \E k \in LBN : map'[k] = q
    <2> SUFFICES ASSUME NEW q \in PB
                 PROVE  pstate'[q] = "live" <=> \E k \in LBN : map'[k] = q
      OBVIOUS
    <2>1. CASE q = p
      BY <1>3, <1>4, <2>1
    <2>2. CASE q # p /\ q = map[l]
      BY <1>3, <1>4, <2>2, Geometry DEF TablesValid
    <2>3. CASE q # p /\ q # map[l]
      BY <1>3, <1>4, <2>3 DEF TablesValid
    <2> QED BY <2>1, <2>2, <2>3
  <1> QED BY <1>1, <1>5, <1>6, <1>7 DEF TablesValid

-------------------------------------------------------------------------------
(* Every step preserves the invariant.                                     *)

\* A freshly constructed handle over a device with a blank tail.
LEMMA InitInv == Init => IInv
  <1> SUFFICES ASSUME Init PROVE IInv
    OBVIOUS
  <1>0. 0 \in 0 .. L
    BY GeometryAssumption
  <1>1. TypeOK
    <2>1. medium \in [PB -> Cell]
      BY DEF Init, Cell
    <2>2. tail \in [kind : {"blank", "torn", "ckpt"}, map : Map,
                   pstate : [PB -> PState], ecount : [PB -> Nat]]
      BY ColdTables DEF Init, BlankTail, NoTables
    <2>3. synced \in [LBN -> Cell] /\ touched \in SUBSET LBN
      BY ColdTables DEF Init, Cell, AllBlank
    <2>4. mounted \in BOOLEAN /\ closing \in BOOLEAN
      BY Zenon DEF Init
    <2> QED BY <1>0, <2>1, <2>2, <2>3, <2>4, ColdTables, Geometry DEF Init, TypeOK
  <1>2. MapLive
    BY ColdTables DEF Init, MapLive, BlankTail, NoTables
  <1>3. CallInv /\ UnboundInv /\ CheckpointInv
    BY DEF Init, CallInv, UnboundInv, CheckpointInv, BlankTail, NoTables
  <1> QED BY <1>1, <1>2, <1>3 DEF IInv

\* Accepting a write only chooses the first block to work on, which is not live.
LEMMA DevWriteInv ==
  ASSUME IInv, NEW lba \in LBN, NEW count \in 1 .. L, NEW data \in [LBN -> Data],
         DevWrite(lba, count, data)
  PROVE  IInv'
  <1> USE DEF IInv
  <1>0. UNCHANGED <<map, pstate, ecount, medium, tail, mounted, synced, touched>>
    BY DEF DevWrite, tables, history
  <1>1. CASE NoMem(pstate)
    <2>1. Return
      BY <1>1 DEF DevWrite
    <2>2. TypeOK'
      BY <1>0, <2>1, ReturnType DEF TypeOK
    <2>3. CallInv' /\ UnboundInv'
      BY <1>0, <2>1, ReturnType DEF CallInv, UnboundInv
    <2>4. MapLive' /\ CheckpointInv'
      BY <1>0 DEF MapLive, TablesValid, CheckpointInv, ReadOne
    <2> QED BY <2>2, <2>3, <2>4
  <1>2. CASE ~NoMem(pstate)
    <2>1. /\ at' = lba /\ end' = lba + count
          /\ buf' = [l \in LBN |-> IF l >= lba /\ l < lba + count THEN data[l] ELSE Blank]
          /\ AllocBlank(pstate, ecount)
          /\ mounted /\ lba <= L - count
      BY <1>2 DEF DevWrite
    <2>2. /\ pc' \in {"erase", "reclaim"} /\ cur' \in PB
          /\ pc' = "erase" => pstate[cur'] = "free"
          /\ pc' = "reclaim" => pstate[cur'] = "stale"
          /\ closing' = closing
      BY <2>1, AllocBlankStep
    <2>3. at' \in LBN /\ end' \in 0 .. L /\ at' < end'
      BY <2>1, GeometryAssumption DEF LBN
    <2>4. /\ buf' \in [LBN -> Data \cup {Blank}]
          /\ \A l \in LBN : at' <= l /\ l < end' => buf'[l] \in Data
      BY <2>1
    <2>5. TypeOK'
      BY Zenon, <1>0, <2>2, <2>3, <2>4 DEF TypeOK
    <2>6. CallInv' /\ UnboundInv'
      BY Zenon, <1>0, <2>1, <2>2, <2>3, <2>4 DEF CallInv, UnboundInv
    <2>7. MapLive' /\ CheckpointInv'
      BY <1>0 DEF MapLive, TablesValid, CheckpointInv, ReadOne
    <2> QED BY <2>5, <2>6, <2>7
  <1> QED BY <1>1, <1>2

\* A block that is not live is not mapped, neither by the tables nor, for a block
\* that was not touched since the sync, by the checkpoint: changing it changes no
\* contents and keeps the checkpoint's agreement.
LEMMA NotLive ==
  ASSUME IInv, mounted, NEW p \in PB, pstate[p] # "live"
  PROVE  /\ \A l \in LBN : map[l] # p
         /\ tail.kind = "ckpt" => \A l \in LBN \ touched : tail.map[l] # p
BY DEF IInv, MapLive, TablesValid, CheckpointInv

\* So a raw call that changes only such a block keeps what a checkpoint promises.
LEMMA CheckpointKept ==
  ASSUME IInv, mounted, NEW p \in PB, pstate[p] # "live",
         NEW c, medium' = [medium EXCEPT ![p] = c], UNCHANGED <<tail, synced>>,
         touched \subseteq touched',
         \A l \in LBN \ touched' : map'[l] = map[l]
  PROVE  CheckpointInv'
  <1> SUFFICES ASSUME tail.kind = "ckpt", NEW l \in LBN \ touched'
               PROVE  /\ ReadOne(tail.map, l)' = synced[l]
                      /\ tail.map[l] = map'[l]
    BY Zenon DEF CheckpointInv
  <1>1. l \in LBN \ touched
    BY Zenon
  <1>2. tail.map[l] # p
    BY Zenon, <1>1, NotLive
  <1>3. ReadOne(tail.map, l) = synced[l] /\ tail.map[l] = map[l]
    BY <1>1 DEF IInv, CheckpointInv
  <1>4. tail.map[l] # Unmapped => medium'[tail.map[l]] = medium[tail.map[l]]
    BY <1>2 DEF IInv, TypeOK, Map
  <1> QED BY Zenon, <1>3, <1>4 DEF ReadOne

\* A raw call that failed, or was cut short while its handle lives on: one block
\* that is not live changes and the request returns.
LEMMA FailedCallInv ==
  ASSUME IInv, pc \in {"reclaim", "erase", "program"},
         NEW c \in Cell, medium' = [medium EXCEPT ![cur] = c], Return,
         UNCHANGED <<map, pstate, ecount, tail, mounted, synced, touched>>
  PROVE  IInv'
  <1> USE DEF IInv
  <1>1. cur \in PB /\ pstate[cur] # "live" /\ mounted
    BY DEF TypeOK, CallInv
  <1>2. medium' \in [PB -> Cell]
    BY DEF TypeOK
  <1>3. TypeOK'
    BY Zenon, <1>2, ReturnType DEF TypeOK
  <1>4. CallInv' /\ UnboundInv'
    BY Zenon, ReturnType DEF CallInv, UnboundInv
  <1>5. MapLive'
    BY DEF MapLive, TablesValid
  <1>6. CheckpointInv'
    BY Zenon, <1>1, CheckpointKept
  <1> QED BY <1>3, <1>4, <1>5, <1>6

\* The outcomes of an erase or a program that stopped are block contents.
LEMMA PartialCell ==
  ASSUME TypeOK, NEW new \in Data \cup {Blank}
  PROVE  Partial(medium[cur], new) \subseteq Cell
BY DEF TypeOK, Partial, Cell

\* Reclaiming erases a stale block, which no map entry refers to.
LEMMA ReclaimStaleInv ==
  ASSUME IInv, NEW ok \in BOOLEAN, ReclaimStale(ok)
  PROVE  IInv'
  <1> USE DEF IInv
  <1>0. /\ pc = "reclaim" /\ cur \in PB /\ pstate[cur] = "stale" /\ mounted /\ at < end
        /\ UNCHANGED <<map, tail, mounted, synced, touched>>
    BY Zenon DEF ReclaimStale, TypeOK, CallInv, history
  <1>1. CASE ok
    <2>1. /\ medium' = [medium EXCEPT ![cur] = Blank]
          /\ ecount' = [ecount EXCEPT ![cur] = @ + 1]
          /\ pstate' = [pstate EXCEPT ![cur] = "free"]
          /\ UNCHANGED <<at, end, buf>>
      BY Zenon, <1>1 DEF ReclaimStale
    <2>2. pstate' \in [PB -> PState] /\ medium' \in [PB -> Cell]
      BY Zenon, <2>1 DEF TypeOK, PState, Cell
    <2>3. ecount' \in [PB -> Nat]
      BY <2>1 DEF TypeOK
    <2>4. /\ pc' \in {"erase", "reclaim"} /\ cur' \in PB
          /\ pc' = "erase" => pstate'[cur'] = "free"
          /\ pc' = "reclaim" => pstate'[cur'] = "stale"
          /\ closing' = closing
      <3>1. CASE NextStale(pstate', cur + 1) # {}
        <4>1. cur' \in NextStale(pstate', cur + 1) /\ UNCHANGED <<pc, closing>>
          BY <1>1, <3>1 DEF ReclaimStale
        <4> QED BY <1>0, <4>1 DEF NextStale, Stale
      <3>2. CASE NextStale(pstate', cur + 1) = {}
        <4>1. AllocBlank(pstate', ecount')
          BY Zenon, <1>1, <3>2 DEF ReclaimStale
        <4> HIDE DEF IInv
        <4> QED BY <4>1, AllocBlankStep
      <3> QED BY <3>1, <3>2
    <2>5. TypeOK'
      BY Zenon, <1>0, <2>1, <2>2, <2>3, <2>4 DEF TypeOK
    <2>6. CallInv' /\ UnboundInv'
      BY Zenon, <1>0, <2>1, <2>4 DEF CallInv, UnboundInv
    <2>7. MapLive'
      <3>1. \A p \in PB : pstate'[p] = "live" <=> pstate[p] = "live"
        BY Zenon, <1>0, <2>1 DEF TypeOK
      <3> QED BY <1>0, <3>1 DEF MapLive, TablesValid
    <2>8. CheckpointInv'
      BY Zenon, <1>0, <2>1, CheckpointKept
    <2> QED BY Zenon, <2>5, <2>6, <2>7, <2>8
  <1>2. CASE ~ok
    <2>1. PICK c \in Partial(medium[cur], Blank) : medium' = [medium EXCEPT ![cur] = c]
      BY Zenon, <1>2 DEF ReclaimStale
    <2>2. c \in Cell
      BY <2>1, PartialCell
    <2>3. Return /\ UNCHANGED <<ecount, pstate>>
      BY Zenon, <1>2 DEF ReclaimStale
    <2> QED BY Zenon, <1>0, <2>1, <2>2, <2>3, FailedCallInv
  <1> QED BY <1>1, <1>2

\* The erase of the block allocBlank picked leaves it free and blank.
LEMMA AllocEraseInv ==
  ASSUME IInv, NEW ok \in BOOLEAN, AllocErase(ok)
  PROVE  IInv'
  <1> USE DEF IInv
  <1>0. /\ pc = "erase" /\ cur \in PB /\ pstate[cur] = "free" /\ mounted /\ at < end
        /\ UNCHANGED <<map, pstate, tail, mounted, synced, touched>>
    BY Zenon DEF AllocErase, TypeOK, CallInv, history
  <1>1. CASE ok
    <2>1. /\ medium' = [medium EXCEPT ![cur] = Blank]
          /\ ecount' = [ecount EXCEPT ![cur] = @ + 1]
          /\ pc' = "program"
          /\ UNCHANGED <<cur, at, end, buf, closing>>
      BY Zenon, <1>1 DEF AllocErase
    <2>2. medium' \in [PB -> Cell] /\ medium'[cur] = Blank
      BY Zenon, <1>0, <2>1 DEF TypeOK, Cell
    <2>3. ecount' \in [PB -> Nat]
      BY <2>1 DEF TypeOK
    <2>4. TypeOK'
      BY Zenon, <1>0, <2>1, <2>2, <2>3 DEF TypeOK
    <2>5. CallInv' /\ UnboundInv'
      BY Zenon, <1>0, <2>1, <2>2 DEF CallInv, UnboundInv
    <2>6. MapLive'
      BY <1>0 DEF MapLive, TablesValid
    <2>7. CheckpointInv'
      BY Zenon, <1>0, <2>1, CheckpointKept
    <2> QED BY <2>4, <2>5, <2>6, <2>7
  <1>2. CASE ~ok
    <2>1. PICK c \in Partial(medium[cur], Blank) : medium' = [medium EXCEPT ![cur] = c]
      BY Zenon, <1>2 DEF AllocErase
    <2>2. c \in Cell
      BY <2>1, PartialCell
    <2>3. Return /\ UNCHANGED <<ecount, pstate>>
      BY Zenon, <1>0, <1>2 DEF AllocErase
    <2> QED BY Zenon, <1>0, <2>1, <2>2, <2>3, FailedCallInv
  <1> QED BY <1>1, <1>2

\* A program that succeeds commits; one that fails leaves a free block dirty.
LEMMA WriteOneInv ==
  ASSUME IInv, NEW ok \in BOOLEAN, WriteOne(ok)
  PROVE  IInv'
  <1> USE DEF IInv
  <1>0. /\ pc = "program" /\ cur \in PB /\ pstate[cur] = "free" /\ mounted /\ at < end
        /\ at \in LBN /\ end \in 0 .. L /\ buf[at] \in Data \cup {Blank}
        /\ UNCHANGED <<ecount, tail, mounted, synced>>
    BY Zenon DEF WriteOne, TypeOK, CallInv
  <1>1. CASE ok
    <2>1. /\ medium' = [medium EXCEPT ![cur] = buf[at]]
          /\ CommitWrite(at, cur)
          /\ touched' = touched \cup {at}
      BY <1>1 DEF WriteOne
    <2>2. map' \in Map /\ pstate' \in [PB -> PState] /\ TablesValid(map', pstate')
      BY Zenon, <1>0, <2>1, CommitWriteValid DEF TypeOK, MapLive
    <2>3. medium' \in [PB -> Cell] /\ touched' \in SUBSET LBN
      BY Zenon, <1>0, <2>1 DEF TypeOK, Cell
    <2>4. MapLive'
      <3>1. tail' = tail
        BY <1>0
      <3> QED BY Zenon, <2>2, <3>1 DEF MapLive, TablesValid
    <2>5. CheckpointInv'
      <3>1. \A l \in LBN \ touched' : map'[l] = map[l]
        BY <2>1 DEF CommitWrite, TypeOK, Map
      <3> QED BY Zenon, <1>0, <2>1, <3>1, CheckpointKept
    <2>6. CASE at + 1 = end \/ NoMem(pstate')
      <3>1. Return
        BY <1>1, <2>6 DEF WriteOne
      <3>2. TypeOK'
        BY <1>0, <2>2, <2>3, <3>1, ReturnType DEF TypeOK
      <3>3. CallInv' /\ UnboundInv'
        BY Zenon, <1>0, <3>1, ReturnType DEF CallInv, UnboundInv
      <3> QED BY <2>4, <2>5, <3>2, <3>3
    <2>7. CASE ~(at + 1 = end \/ NoMem(pstate'))
      <3>1. at' = at + 1 /\ UNCHANGED <<end, buf>> /\ AllocBlank(pstate', ecount)
        BY Zenon, <1>1, <2>7 DEF WriteOne
      <3>2. /\ pc' \in {"erase", "reclaim"} /\ cur' \in PB
            /\ pc' = "erase" => pstate'[cur'] = "free"
            /\ pc' = "reclaim" => pstate'[cur'] = "stale"
            /\ closing' = closing
        <4> HIDE DEF IInv
        <4> QED BY <3>1, AllocBlankStep
      <3>3. /\ at' \in LBN /\ at' < end'
            /\ \A l \in LBN : at' <= l /\ l < end' => buf'[l] \in Data
        BY <1>0, <2>7, <3>1, GeometryAssumption DEF LBN, CallInv
      <3>4. TypeOK'
        BY Zenon, <1>0, <2>2, <2>3, <3>1, <3>2, <3>3 DEF TypeOK
      <3>5. CallInv' /\ UnboundInv'
        BY Zenon, <1>0, <3>2, <3>3 DEF CallInv, UnboundInv
      <3> QED BY <2>4, <2>5, <3>4, <3>5
    <2> QED BY <2>6, <2>7
  <1>2. CASE ~ok
    <2>1. PICK c \in Partial(medium[cur], buf[at]) : medium' = [medium EXCEPT ![cur] = c]
      BY Zenon, <1>2 DEF WriteOne
    <2>2. c \in Cell
      BY Zenon, <1>0, <2>1, PartialCell
    <2>3. Return /\ UNCHANGED <<map, pstate, touched>>
      BY Zenon, <1>2 DEF WriteOne
    <2> QED BY Zenon, <1>0, <2>1, <2>2, <2>3, FailedCallInv
  <1> QED BY <1>1, <1>2

\* Unmapping a range makes exactly the blocks it referred to stale.
LEMMA DevEraseInv ==
  ASSUME IInv, NEW lba \in LBN, NEW count \in 1 .. L, DevErase(lba, count)
  PROVE  IInv'
  <1> USE DEF IInv
  <1> DEFINE range == lba .. lba + count - 1
  <1>0. /\ mounted /\ pc = "idle" /\ lba <= L - count
        /\ pstate' = [p \in PB |-> IF \E l \in range : map[l] = p THEN "stale" ELSE pstate[p]]
        /\ map' = [l \in LBN |-> IF l \in range THEN Unmapped ELSE map[l]]
        /\ touched' = touched \cup range
        /\ UNCHANGED <<ecount, medium, tail, mounted, synced>>
        /\ UNCHANGED <<pc, cur, at, end, buf, closing>>
    BY Zenon DEF DevErase, request
  <1>1. range \subseteq LBN
    BY <1>0, GeometryAssumption DEF LBN
  <1> HIDE DEF range
  <1>2. map' \in Map /\ pstate' \in [PB -> PState] /\ touched' \in SUBSET LBN
    BY Zenon, <1>0, <1>1 DEF TypeOK, Map, PState
  <1>3. TypeOK'
    BY Zenon, <1>0, <1>2 DEF TypeOK
  <1>4. CallInv' /\ UnboundInv'
    BY Zenon, <1>0 DEF CallInv, UnboundInv
  <1>5. \A p \in PB : pstate'[p] = "live" <=> \E l \in LBN : map'[l] = p
    <2> SUFFICES ASSUME NEW p \in PB
                 PROVE  pstate'[p] = "live" <=> \E l \in LBN : map'[l] = p
      BY Zenon
    <2>1. CASE \E l \in range : map[l] = p
      BY <1>0, <1>1, <2>1, Geometry DEF MapLive, TablesValid
    <2>2. CASE ~\E l \in range : map[l] = p
      BY <1>0, <1>1, <2>2, Geometry DEF MapLive, TablesValid
    <2> QED BY Zenon, <2>1, <2>2
  <1>6. MapLive'
    <2>1. \A k \in LBN : map'[k] # Unmapped => map'[k] = map[k]
      BY Zenon, <1>0
    <2>2. \A k \in LBN : map'[k] # Unmapped => map'[k] \in PB
      BY <1>2 DEF Map
    <2>3. \A k, l \in LBN : map'[k] # Unmapped /\ map'[k] = map'[l] => k = l
      BY <2>1 DEF MapLive, TablesValid
    <2> QED BY <1>0, <1>5, <2>2, <2>3 DEF MapLive, TablesValid
  <1>7. CheckpointInv'
    <2>1. \A l \in LBN \ touched' : l \in LBN \ touched /\ map'[l] = map[l]
      BY Zenon, <1>0
    <2> QED BY Zenon, <1>0, <2>1 DEF CheckpointInv, ReadOne
  <1> QED BY <1>3, <1>4, <1>6, <1>7

\* What any valid map reads back are block contents.
LEMMA ReadOneCell ==
  ASSUME TypeOK, NEW m \in Map
  PROVE  [l \in LBN |-> ReadOne(m, l)] \in [LBN -> Cell]
BY Zenon DEF TypeOK, ReadOne, Map, Cell

\* A mount takes over tables that are valid, cold or from the checkpoint.
LEMMA MountInv ==
  ASSUME IInv, Mount
  PROVE  IInv'
  <1> USE DEF IInv
  <1>0. /\ mounted' = TRUE /\ touched' = {} /\ UNCHANGED <<medium, tail>>
        /\ UNCHANGED <<pc, cur, at, end, buf, closing>>
        /\ synced' = [l \in LBN |-> ReadOne(map', l)]
        /\ ~mounted
    BY DEF Mount, request
  <1>1. /\ map' \in Map /\ pstate' \in [PB -> PState] /\ ecount' \in [PB -> Nat]
        /\ TablesValid(map', pstate')
        /\ tail.kind = "ckpt" => map' = tail.map
    BY ColdTables DEF Mount, ResetTables, TypeOK
  <1>2. synced' \in [LBN -> Cell]
    BY <1>0, <1>1, ReadOneCell
  <1>3. TypeOK'
    BY <1>0, <1>1, <1>2 DEF TypeOK
  <1>4. CallInv' /\ UnboundInv'
    BY Zenon, <1>0 DEF CallInv, UnboundInv
  <1>5. MapLive'
    BY Zenon, <1>0, <1>1 DEF MapLive, TablesValid
  <1>6. CheckpointInv'
    BY Zenon, <1>0, <1>1 DEF CheckpointInv, ReadOne
  <1> QED BY <1>3, <1>4, <1>5, <1>6

\* Beginning a sync changes no table.
LEMMA SyncInv ==
  ASSUME IInv, NEW unmount \in BOOLEAN, Sync(unmount)
  PROVE  IInv'
  <1> USE DEF IInv
  <1>0. /\ mounted /\ pc' = "tail_erase" /\ closing' = unmount
        /\ UNCHANGED <<map, pstate, ecount, medium, tail, mounted, synced, touched>>
        /\ UNCHANGED <<cur, at, end, buf>>
    BY DEF Sync, tables, history
  <1>1. TypeOK'
    BY Zenon, <1>0 DEF TypeOK
  <1>2. CallInv' /\ UnboundInv' /\ MapLive'
    BY Zenon, <1>0 DEF CallInv, UnboundInv, MapLive
  <1>3. CheckpointInv'
    BY Zenon, <1>0 DEF CheckpointInv, ReadOne
  <1> QED BY <1>1, <1>2, <1>3

\* The blank and the torn tail are well typed, and hold no checkpoint.
LEMMA EmptyTails ==
  /\ {BlankTail, TornTail} \subseteq
       [kind : {"blank", "torn", "ckpt"}, map : Map, pstate : [PB -> PState], ecount : [PB -> Nat]]
  /\ BlankTail.kind = "blank" /\ TornTail.kind = "torn"
  /\ TablesValid(BlankTail.map, BlankTail.pstate) /\ TablesValid(TornTail.map, TornTail.pstate)
BY ColdTables DEF BlankTail, TornTail, NoTables

\* Erasing the tail gives up the old checkpoint, whatever is left of it.
LEMMA TailEraseInv ==
  ASSUME IInv, NEW ok \in BOOLEAN, TailErase(ok)
  PROVE  IInv'
  <1> USE DEF IInv
  <1>0. /\ pc = "tail_erase" /\ mounted
        /\ UNCHANGED <<map, pstate, ecount, medium, mounted, synced, touched>>
        /\ tail' \in {tail, TornTail, BlankTail}
    BY Zenon DEF TailErase, tables, history, CallInv
  <1>1. MapLive'
    <2>1. UNCHANGED <<map, pstate>> /\ tail' \in {tail, TornTail, BlankTail}
      BY <1>0
    <2>2. CASE tail' = tail
      BY Zenon, <2>1, <2>2 DEF MapLive, TablesValid
    <2>3. CASE tail' \in {TornTail, BlankTail}
      BY <2>1, <2>3, EmptyTails DEF MapLive, TablesValid
    <2> QED BY <2>1, <2>2, <2>3
  <1>2. CheckpointInv'
    BY Zenon, <1>0, EmptyTails DEF CheckpointInv, ReadOne
  <1>3. CASE ok
    <2>1. tail' = BlankTail /\ pc' = "tail_program" /\ UNCHANGED <<cur, at, end, buf, closing>>
      BY <1>3 DEF TailErase
    <2>2. TypeOK'
      BY Zenon, <1>0, <2>1, EmptyTails DEF TypeOK
    <2>3. CallInv' /\ UnboundInv'
      BY Zenon, <1>0, <2>1 DEF CallInv, UnboundInv, BlankTail, NoTables, NoMap, AllFree, NoWear
    <2> QED BY <1>1, <1>2, <2>2, <2>3
  <1>4. CASE ~ok
    <2>1. Return
      BY <1>4 DEF TailErase
    <2>2. TypeOK'
      BY Zenon, <1>0, <2>1, EmptyTails, ReturnType DEF TypeOK
    <2>3. CallInv' /\ UnboundInv'
      BY Zenon, <1>0, <2>1, ReturnType DEF CallInv, UnboundInv
    <2> QED BY <1>1, <1>2, <2>2, <2>3
  <1> QED BY <1>3, <1>4

\* Programming the tail, completely or not, leaves a tail that is well typed and
\* valid, and that keeps its promise.
LEMMA TailWritten ==
  ASSUME IInv, UNCHANGED medium, TailProgrammed \/ TailTorn,
         mounted' => mounted /\ UNCHANGED map
  PROVE  /\ tail' \in [kind : {"blank", "torn", "ckpt"}, map : Map,
                       pstate : [PB -> PState], ecount : [PB -> Nat]]
         /\ synced' \in [LBN -> Cell] /\ touched' \in SUBSET LBN
         /\ TablesValid(tail'.map, tail'.pstate)
         /\ CheckpointInv'
  <1> USE DEF IInv
  <1>1. CASE TailProgrammed
    <2>1. /\ tail' = Checkpoint /\ synced' = Contents /\ touched' = {}
          /\ Checkpoint.map = map /\ Checkpoint.pstate = pstate
      BY Zenon, <1>1 DEF TailProgrammed, Checkpoint
    <2>2. Checkpoint \in [kind : {"blank", "torn", "ckpt"}, map : Map,
                          pstate : [PB -> PState], ecount : [PB -> Nat]]
      BY Zenon DEF Checkpoint, TypeOK
    <2>3. Contents \in [LBN -> Cell]
      BY Zenon, ReadOneCell DEF Contents, TypeOK
    <2>4. CheckpointInv'
      <3> SUFFICES ASSUME NEW l \in LBN
                   PROVE  /\ ReadOne(tail.map, l)' = Contents[l]
                          /\ mounted' => tail'.map[l] = map'[l]
        BY Zenon, <2>1 DEF CheckpointInv, ReadOne
      <3>1. Contents[l] = ReadOne(map, l)
        BY DEF Contents
      <3> QED BY Zenon, <2>1, <3>1 DEF ReadOne
    <2> QED BY Zenon, <2>1, <2>2, <2>3, <2>4 DEF MapLive
  <1>2. CASE TailTorn
    <2>1. tail' \in {tail, TornTail} /\ UNCHANGED <<synced, touched>>
      BY <1>2 DEF TailTorn, history
    <2>2. CheckpointInv'
      BY <2>1, EmptyTails DEF CheckpointInv, ReadOne
    <2>3. TablesValid(tail'.map, tail'.pstate)
      BY Zenon, <2>1, EmptyTails DEF MapLive
    <2> QED BY Zenon, <2>1, <2>2, <2>3, EmptyTails DEF TypeOK
  <1> QED BY Zenon, <1>1, <1>2

\* Programming the tail, finished or not, and the unmount that may end with it.
LEMMA TailProgramInv ==
  ASSUME IInv, NEW ok \in BOOLEAN, TailProgram(ok)
  PROVE  IInv'
  <1> USE DEF IInv
  <1>0. /\ UNCHANGED medium /\ Return /\ mounted /\ closing \in BOOLEAN
        /\ TailProgrammed \/ TailTorn
    BY Zenon DEF TailProgram, CallInv, TypeOK
  <1>1. CASE ok /\ closing
    <2>1. mounted' = FALSE /\ ResetTables
      BY Zenon, <1>1 DEF TailProgram
    <2>2. TypeOK' /\ MapLive' /\ CheckpointInv'
      BY Zenon, <1>0, <2>1, TailWritten, ReturnType, ColdTables DEF TypeOK, MapLive, ResetTables
    <2>3. CallInv' /\ UnboundInv'
      BY Zenon, <1>0, <2>1, ReturnType DEF CallInv, UnboundInv, ResetTables, NoMap
    <2> QED BY <2>2, <2>3
  <1>2. CASE ~(ok /\ closing)
    <2>1. mounted' = TRUE /\ UNCHANGED <<map, pstate, ecount>>
      BY Zenon, <1>0, <1>2 DEF TailProgram, tables, TypeOK
    <2>2. TypeOK'
      BY Zenon, <1>0, <2>1, TailWritten, ReturnType DEF TypeOK
    <2>3. MapLive'
      <3>1. UNCHANGED <<map, pstate>>
        BY <2>1
      <3>2. TablesValid(tail'.map, tail'.pstate)
        BY Zenon, <1>0, <2>1, TailWritten
      <3> QED BY Zenon, <3>1, <3>2 DEF MapLive, TablesValid
    <2>4. CallInv' /\ UnboundInv'
      BY Zenon, <1>0, <2>1, ReturnType DEF CallInv, UnboundInv
    <2>5. CheckpointInv'
      BY Zenon, <1>0, <2>1, TailWritten
    <2> QED BY <2>2, <2>3, <2>4, <2>5
  <1> QED BY <1>1, <1>2

\* A power loss during any raw call leaves a checkpoint that is still right about
\* the untouched blocks, or none.
LEMMA PowerLossInv ==
  ASSUME IInv, PowerLoss
  PROVE  IInv'
  <1> USE DEF IInv
  <1>0. mounted /\ mounted' = FALSE /\ ResetTables /\ Return
    BY Zenon DEF PowerLoss
  <1>1. CallInv' /\ UnboundInv'
    BY Zenon, <1>0, ReturnType DEF CallInv, UnboundInv, ResetTables, NoMap
  <1>2. SUFFICES /\ medium' \in [PB -> Cell]
                 /\ tail' \in [kind : {"blank", "torn", "ckpt"}, map : Map,
                              pstate : [PB -> PState], ecount : [PB -> Nat]]
                 /\ synced' \in [LBN -> Cell] /\ touched' \in SUBSET LBN
                 /\ TablesValid(tail'.map, tail'.pstate)
                 /\ CheckpointInv'
    BY Zenon, <1>0, <1>1, ReturnType, ColdTables DEF TypeOK, MapLive, ResetTables
  <1>3. CASE pc \in {"reclaim", "erase", "program"}
    <2>1. /\ UNCHANGED <<tail, synced, touched>>
          /\ \E c \in Cell : medium' = [medium EXCEPT ![cur] = c]
      <3>1. Blank \in Data \cup {Blank} /\ buf[at] \in Data \cup {Blank}
        BY DEF TypeOK
      <3> QED BY Zenon, <1>3, <3>1, PartialCell DEF PowerLoss, history
    <2>2. PICK c \in Cell : medium' = [medium EXCEPT ![cur] = c]
      BY Zenon, <2>1
    <2>3. cur \in PB /\ pstate[cur] # "live"
      BY Zenon, <1>3 DEF TypeOK, CallInv
    <2>4. medium' \in [PB -> Cell]
      BY Zenon, <2>2 DEF TypeOK
    <2>5. CheckpointInv'
      <3> SUFFICES ASSUME tail.kind = "ckpt", NEW l \in LBN \ touched
                   PROVE  ReadOne(tail.map, l)' = synced[l]
        BY Zenon, <1>0, <2>1 DEF CheckpointInv, ReadOne
      <3>1. tail.map[l] # cur
        BY Zenon, <1>0, <2>3, NotLive
      <3>2. tail.map[l] # Unmapped => medium'[tail.map[l]] = medium[tail.map[l]]
        BY Zenon, <2>2, <3>1 DEF TypeOK, Map
      <3> QED BY Zenon, <2>1, <3>2 DEF CheckpointInv, ReadOne
    <2> QED BY Zenon, <2>1, <2>4, <2>5 DEF TypeOK, MapLive
  <1>4. CASE pc = "tail_program"
    BY Zenon, <1>0, <1>4, TailWritten DEF PowerLoss, TypeOK
  <1>5. CASE pc \in {"idle", "tail_erase"}
    <2>1. tail' \in {tail, TornTail, BlankTail} /\ UNCHANGED <<medium, synced, touched>>
      BY Zenon, <1>5 DEF PowerLoss, history
    <2>2. CheckpointInv'
      BY Zenon, <1>0, <2>1, EmptyTails DEF CheckpointInv, ReadOne
    <2> QED BY Zenon, <2>1, <2>2, EmptyTails DEF TypeOK, MapLive
  <1> QED BY Zenon, <1>3, <1>4, <1>5 DEF TypeOK

\* Erasing a torn tail while unbound.
LEMMA EraseTornTailInv ==
  ASSUME IInv, EraseTornTail
  PROVE  IInv'
  <1> USE DEF IInv
  <1>0. /\ ~mounted /\ tail' = BlankTail
        /\ UNCHANGED <<map, pstate, ecount, medium, mounted, synced, touched>>
        /\ UNCHANGED <<pc, cur, at, end, buf, closing>>
    BY Zenon DEF EraseTornTail, tables, request, history
  <1>1. TypeOK'
    BY Zenon, <1>0, EmptyTails DEF TypeOK
  <1>2. MapLive'
    BY Zenon, <1>0, EmptyTails DEF MapLive
  <1>3. CallInv' /\ UnboundInv' /\ CheckpointInv'
    BY Zenon, <1>0, EmptyTails DEF CallInv, UnboundInv, CheckpointInv
  <1> QED BY Zenon, <1>1, <1>2, <1>3

\* IInv is inductive.
LEMMA NextInv == IInv /\ [Next]_vars => IInv'
  <1> SUFFICES ASSUME IInv, [Next]_vars PROVE IInv'
    OBVIOUS
  <1>1. CASE Next
    BY Zenon, <1>1, DevWriteInv, DevEraseInv, ReclaimStaleInv, AllocEraseInv, WriteOneInv, MountInv,
       SyncInv, TailEraseInv, TailProgramInv, PowerLossInv, EraseTornTailInv
       DEF Next, RawCall
  <1>2. CASE UNCHANGED vars
    <2>1. UNCHANGED <<tables, medium, tail, mounted, request, history>>
      BY <1>2 DEF vars
    <2>2. TypeOK'
      BY Zenon, <2>1 DEF tables, request, history, IInv, TypeOK
    <2>3. MapLive'
      BY Zenon, <2>1 DEF tables, IInv, MapLive, TablesValid
    <2>4. CallInv'
      BY Zenon, <2>1 DEF tables, request, IInv, CallInv
    <2>5. UnboundInv'
      BY <2>1 DEF tables, IInv, UnboundInv
    <2>6. CheckpointInv'
      BY Zenon, <2>1 DEF tables, history, IInv, CheckpointInv, ReadOne
    <2> QED BY Zenon, <2>2, <2>3, <2>4, <2>5, <2>6 DEF IInv
  <1> QED BY <1>1, <1>2

-------------------------------------------------------------------------------
(* The theorems.                                                           *)

\* The conjunction IInv is an invariant of the layer.
THEOREM Invariance == Spec => []IInv
BY InitInv, NextInv, PTL DEF Spec

\* Every variable keeps its type, for every geometry.
THEOREM TypeCorrect == Spec => []TypeOK
  <1>1. IInv => TypeOK
    BY DEF IInv
  <1> QED BY <1>1, Invariance, PTL

\* The mapping tables and every checkpoint stay valid: map entries are distinct
\* and the live blocks are exactly the referenced ones, whatever fails and whenever
\* power is lost.
THEOREM MappingValid == Spec => []MapLive
  <1>1. IInv => MapLive
    BY DEF IInv
  <1> QED BY <1>1, Invariance, PTL

\* Only blank blocks are programmed: the erase-before-write contract of the raw
\* device is honoured.
THEOREM ProgramsOnlyBlank == Spec => []EraseBeforeProgram
  <1>1. IInv => EraseBeforeProgram
    BY DEF IInv, CallInv, EraseBeforeProgram
  <1> QED BY <1>1, Invariance, PTL

\* Valid tables leave a spare block: the live blocks are at most as many as the
\* logical ones, of which there are fewer than physical ones.
LEMMA SpareBlock ==
  ASSUME NEW m \in Map, NEW ps \in [PB -> PState], TablesValid(m, ps)
  PROVE  \E p \in PB : ps[p] # "live"
  <1> SUFFICES ASSUME \A p \in PB : ps[p] = "live" PROVE FALSE
    OBVIOUS
  <1> DEFINE Home(p) == CHOOSE l \in LBN : m[l] = p
             h == [p \in PB |-> Home(p)]
  <1>1. \A p \in PB : Home(p) \in LBN /\ m[Home(p)] = p
    BY Zenon DEF TablesValid
  <1>2. h \in Injection(PB, LBN)
    BY <1>1 DEF Injection, IsInjective
  <1>3. IsFiniteSet(LBN) /\ Cardinality(LBN) = L
    BY FS_Interval, GeometryAssumption DEF LBN
  <1>4. IsFiniteSet(PB) /\ Cardinality(PB) = P
    BY FS_Interval, GeometryAssumption DEF PB
  <1>5. Cardinality(PB) <= Cardinality(LBN)
    BY Zenon, <1>2, <1>3, <1>4, FS_Injection
  <1> QED BY <1>3, <1>4, <1>5, GeometryAssumption

\* allocBlank never runs out of blocks: a write fails only when the device does.
THEOREM NeverOutOfBlocks == Spec => []SpareAvailable
  <1>1. IInv => SpareAvailable
    <2> SUFFICES ASSUME IInv PROVE ~NoMem(pstate)
      BY DEF SpareAvailable
    <2>1. PICK p \in PB : pstate[p] # "live"
      BY Zenon, SpareBlock DEF IInv, TypeOK, MapLive
    <2>2. pstate[p] \in {"free", "stale"}
      BY Zenon, <2>1 DEF IInv, TypeOK, PState
    <2> QED BY <2>2 DEF NoMem, Free, Stale
  <1> QED BY <1>1, Invariance, PTL

\* A step changes the medium only at the block of the outstanding raw call.
LEMMA OneBlockChanges ==
  ASSUME IInv, [Next]_vars, NEW p \in PB, medium'[p] # medium[p]
  PROVE  p = cur /\ pc \in {"reclaim", "erase", "program"}
  <1>1. UNCHANGED medium \/ (pc \in {"reclaim", "erase", "program"}
                            /\ \E c : medium' = [medium EXCEPT ![cur] = c])
    <2>1. CASE Next
      BY Zenon, <2>1 DEF Next, RawCall, DevWrite, DevErase, ReclaimStale, AllocErase, WriteOne, Mount,
         Sync, TailErase, TailProgram, PowerLoss, EraseTornTail
    <2>2. CASE UNCHANGED vars
      BY <2>2 DEF vars
    <2> QED BY Zenon, <2>1, <2>2
  <1> QED BY Zenon, <1>1 DEF IInv, TypeOK

\* No raw call, complete or cut short, changes a block that holds current data.
THEOREM CurrentDataSafe == Spec => LiveDataUntouched
  <1>1. IInv /\ [Next]_vars =>
          [\A p \in PB : medium'[p] # medium[p] => \A l \in LBN : map[l] # p]_vars
    <2> SUFFICES ASSUME IInv, [Next]_vars, NEW p \in PB, medium'[p] # medium[p],
                        NEW l \in LBN
                 PROVE  map[l] # p
      BY Zenon
    <2>1. p = cur /\ pc \in {"reclaim", "erase", "program"}
      BY Zenon, OneBlockChanges
    <2>2. mounted /\ pstate[p] # "live"
      BY Zenon, <2>1 DEF IInv, CallInv
    <2> QED BY <2>2, NotLive
  <1> QED BY <1>1, Invariance, PTL DEF Spec, LiveDataUntouched

-------------------------------------------------------------------------------
(* The layer implements BlockStore.                                        *)

\* Changing a block that is not live changes no logical contents.
LEMMA ContentsKept ==
  ASSUME IInv, mounted, NEW p \in PB, pstate[p] # "live",
         NEW c, medium' = [medium EXCEPT ![p] = c], UNCHANGED map
  PROVE  Contents' = Contents
  <1>1. \A l \in LBN : ReadOne(map, l)' = ReadOne(map, l)
    <2> SUFFICES ASSUME NEW l \in LBN PROVE ReadOne(map, l)' = ReadOne(map, l)
      BY Zenon
    <2>1. map[l] # p
      BY Zenon, NotLive
    <2> QED BY Zenon, <2>1 DEF ReadOne, IInv, TypeOK, Map
  <1> QED BY Zenon, <1>1 DEF Contents

\* The cold-start map reads back blank.
LEMMA ColdContents ==
  ASSUME map' = NoMap
  PROVE  Contents' = AllBlank
BY DEF Contents, ReadOne, NoMap, AllBlank

\* Data-path steps: writes and erases of the device, or nothing at all.
LEMMA DataPathRefines ==
  ASSUME IInv,
         \/ \E lba \in LBN, count \in 1 .. L, data \in [LBN -> Data] : DevWrite(lba, count, data)
         \/ \E lba \in LBN, count \in 1 .. L : DevErase(lba, count)
         \/ \E ok \in BOOLEAN : ReclaimStale(ok) \/ AllocErase(ok) \/ WriteOne(ok)
  PROVE  [Store!Next]_(Store!vars)
  <1>1. ASSUME NEW lba \in LBN, NEW count \in 1 .. L, NEW data \in [LBN -> Data],
               DevWrite(lba, count, data)
        PROVE  UNCHANGED Store!vars
    <2>1. UNCHANGED <<map, medium, tail, mounted, synced, touched>> /\ pc = "idle"
      BY Zenon, <1>1 DEF DevWrite, tables, history
    <2>2. pc' \notin {"tail_erase", "tail_program"}
      BY Zenon, <1>1, AllocBlankStep DEF DevWrite, Return
    <2>3. Contents' = Contents
      BY Zenon, <2>1 DEF Contents, ReadOne
    <2> QED BY <2>1, <2>2, <2>3 DEF Store!vars
  <1>2. ASSUME NEW lba \in LBN, NEW count \in 1 .. L, DevErase(lba, count)
        PROVE  Store!Next
    <2> DEFINE range == lba .. lba + count - 1
    <2>1. /\ mounted /\ pc = "idle" /\ lba <= L - count
          /\ map' = [l \in LBN |-> IF l \in range THEN Unmapped ELSE map[l]]
          /\ touched' = touched \cup range
          /\ UNCHANGED <<medium, tail, mounted, pc, synced>>
      BY Zenon, <1>2 DEF DevErase, request
    <2>2. range \in SUBSET LBN
      BY <2>1, GeometryAssumption DEF LBN
    <2> HIDE DEF range
    <2>3. Contents' = [l \in LBN |-> IF l \in range THEN Blank ELSE Contents[l]]
      BY Zenon, <2>1 DEF Contents, ReadOne
    <2>4. Store!Erase(range)
      BY Zenon, <2>1, <2>3 DEF Store!Erase
    <2> QED BY <2>2, <2>4 DEF Store!Next
  <1>3. ASSUME NEW ok \in BOOLEAN, ReclaimStale(ok) \/ AllocErase(ok) \/ (WriteOne(ok) /\ ~ok)
        PROVE  UNCHANGED Store!vars
    <2>1. /\ UNCHANGED <<map, tail, mounted, synced, touched>>
          /\ pc \in {"reclaim", "erase", "program"}
          /\ \E c : medium' = [medium EXCEPT ![cur] = c]
      BY Zenon, <1>3 DEF ReclaimStale, AllocErase, WriteOne, history
    <2>2. pc' \notin {"tail_erase", "tail_program"}
      BY Zenon, <1>3, AllocBlankStep DEF ReclaimStale, AllocErase, WriteOne, Return
    <2>3. cur \in PB /\ pstate[cur] # "live" /\ mounted
      BY Zenon, <2>1 DEF IInv, TypeOK, CallInv
    <2>4. Contents' = Contents
      BY Zenon, <2>1, <2>3, ContentsKept
    <2> QED BY <2>1, <2>2, <2>4 DEF Store!vars
  <1>4. ASSUME WriteOne(TRUE)
        PROVE  Store!Next
    <2>1. /\ UNCHANGED <<tail, mounted, synced>> /\ pc = "program"
          /\ medium' = [medium EXCEPT ![cur] = buf[at]]
          /\ CommitWrite(at, cur) /\ touched' = touched \cup {at}
      BY Zenon, <1>4 DEF WriteOne
    <2>2. pc' \notin {"tail_erase", "tail_program"}
      BY Zenon, <1>4, AllocBlankStep DEF WriteOne, Return
    <2>3. /\ cur \in PB /\ pstate[cur] # "live" /\ mounted /\ at \in LBN
          /\ buf[at] \in Data
      BY <2>1, Geometry DEF IInv, TypeOK, CallInv
    <2>4. Contents' = [Contents EXCEPT ![at] = buf[at]]
      <3>1. \A l \in LBN : ReadOne(map, l)' = IF l = at THEN buf[at] ELSE ReadOne(map, l)
        <4> SUFFICES ASSUME NEW l \in LBN
                     PROVE  ReadOne(map, l)' = IF l = at THEN buf[at] ELSE ReadOne(map, l)
          OBVIOUS
        <4>1. map[l] # cur
          BY Zenon, <2>3, NotLive
        <4>2. map'[l] = IF l = at THEN cur ELSE map[l]
          BY Zenon, <2>1, <2>3 DEF CommitWrite, IInv, TypeOK, Map
        <4>3. CASE l = at
          BY <2>1, <2>3, <4>2, <4>3, Geometry DEF ReadOne, IInv, TypeOK
        <4>4. CASE l # at
          BY Zenon, <2>1, <2>3, <4>1, <4>2, <4>4 DEF ReadOne, IInv, TypeOK, Map
        <4> QED BY <4>3, <4>4
      <3> QED BY Zenon, <3>1 DEF Contents
    <2>5. Store!Write(at)
      <3>1. UNCHANGED <<synced, mounted, pc \in {"tail_erase", "tail_program"},
                       \/ tail.kind = "torn"
                       \/ tail.kind = "blank" /\ synced # AllBlank>>
        BY <2>1, <2>2
      <3>2. \E v \in Data : Contents' = [Contents EXCEPT ![at] = v]
        BY Zenon, <2>3, <2>4
      <3>3. mounted /\ ~pc \in {"tail_erase", "tail_program"} /\ touched' = touched \cup {at}
        BY Zenon, <2>1, <2>3
      <3> QED BY <3>1, <3>2, <3>3, Zenon DEF Store!Write
    <2> QED BY Zenon, <2>3, <2>5 DEF Store!Next
  <1> QED BY Zenon, <1>1, <1>2, <1>3, <1>4

\* Mounting: a checkpoint gives back every untouched block; a blank tail comes up
\* empty, which is either all there ever was or follows a lost checkpoint.
LEMMA MountRefines ==
  ASSUME IInv, Mount
  PROVE  Store!Next
  <1>1. /\ ~mounted /\ mounted' = TRUE /\ touched' = {} /\ UNCHANGED <<medium, tail, pc>>
        /\ synced' = Contents' /\ pc = "idle"
    BY Zenon DEF Mount, request, IInv, CallInv, Contents, ReadOne
  <1>2. map' \in Map /\ TypeOK'
    BY Zenon, MountInv DEF IInv, TypeOK
  <1>3. Contents' \in [LBN -> Cell]
    BY Zenon, <1>1, <1>2 DEF TypeOK
  <1>4. CASE tail.kind = "ckpt"
    <2>1. map' = tail.map
      BY Zenon, <1>4 DEF Mount
    <2>2. \A l \in LBN \ touched : Contents'[l] = synced[l]
      BY Zenon, <1>1, <1>4, <2>1 DEF IInv, CheckpointInv, Contents, ReadOne
    <2>3. Store!Recover
      BY <1>1, <1>3, <1>4, <2>2 DEF Store!Recover
    <2> QED BY <2>3 DEF Store!Next
  <1>5. CASE tail.kind = "blank"
    <2>1. Contents' = AllBlank
      BY Zenon, <1>5, ColdContents DEF Mount, ResetTables
    <2>2. Contents' = Store!AllBlank
      BY <2>1 DEF Store!AllBlank, AllBlank
    <2>3. synced = AllBlank => \A l \in LBN \ touched : Contents'[l] = synced[l]
      BY <2>1
    <2>4. Store!Recover
      BY <1>1, <1>3, <1>5, <2>1, <2>2, <2>3 DEF Store!Recover
    <2> QED BY <2>4 DEF Store!Next
  <1> QED BY Zenon, <1>4, <1>5 DEF Mount

\* A sync, step by step, and the unmount that ends with one.
LEMMA SyncRefines ==
  ASSUME IInv,
         \/ \E unmount \in BOOLEAN : Sync(unmount)
         \/ \E ok \in BOOLEAN : TailErase(ok) \/ TailProgram(ok)
  PROVE  Store!Next
  <1>1. ASSUME NEW unmount \in BOOLEAN, Sync(unmount)
        PROVE  Store!Next
    <2>1. /\ mounted /\ pc = "idle" /\ pc' = "tail_erase"
          /\ UNCHANGED <<map, medium, tail, mounted, synced, touched>>
      BY Zenon, <1>1 DEF Sync, tables, history
    <2>2. Contents' = Contents
      BY Zenon, <2>1 DEF Contents, ReadOne
    <2>3. Store!BeginSync
      BY Zenon, <2>1, <2>2 DEF Store!BeginSync
    <2> QED BY <2>3 DEF Store!Next
  <1>2. ASSUME NEW ok \in BOOLEAN, TailErase(ok)
        PROVE  Store!Next
    <2>1. /\ pc = "tail_erase"
          /\ UNCHANGED <<map, medium, mounted, synced, touched>>
      BY Zenon, <1>2 DEF TailErase, tables, history
    <2>2. Contents' = Contents
      BY Zenon, <2>1 DEF Contents, ReadOne
    <2>3. Store!SyncProgress
      BY <2>1, <2>2 DEF Store!SyncProgress
    <2> QED BY <2>3 DEF Store!Next
  <1>3. ASSUME NEW ok \in BOOLEAN, TailProgram(ok)
        PROVE  Store!Next
    <2>1. /\ pc = "tail_program" /\ pc' = "idle" /\ UNCHANGED medium
          /\ mounted /\ mounted' \in BOOLEAN
      BY Zenon, <1>3, TailProgramInv DEF TailProgram, Return, IInv, CallInv, TypeOK
    <2>2. Contents' = IF mounted' THEN Contents ELSE AllBlank
      <3>1. CASE ok /\ closing
        BY Zenon, <1>3, <2>1, <3>1, ColdContents DEF TailProgram, ResetTables
      <3>2. CASE ~(ok /\ closing)
        <4>1. mounted' = TRUE /\ UNCHANGED map
          BY Zenon, <1>3, <2>1, <3>2 DEF TailProgram, tables, IInv, TypeOK
        <4> QED BY Zenon, <2>1, <4>1 DEF Contents, ReadOne
      <3> QED BY <3>1, <3>2
    <2>3. CASE TailProgrammed
      <3>1. tail'.kind = "ckpt" /\ synced' = Contents /\ touched' = {}
        BY Zenon, <2>3 DEF TailProgrammed, Checkpoint
      <3>2. Store!EndSync
        BY <2>1, <2>2, <3>1 DEF Store!EndSync, Store!AllBlank, AllBlank
      <3> QED BY <3>2 DEF Store!Next
    <2>4. CASE ~TailProgrammed
      <3>1. TailTorn /\ UNCHANGED <<mounted, map>>
        BY Zenon, <1>3, <2>4 DEF TailProgram, tables
      <3>2. UNCHANGED <<synced, touched>> /\ Contents' = Contents
        BY Zenon, <2>1, <2>2, <3>1 DEF TailTorn, history
      <3>3. Store!SyncProgress
        BY <2>1, <3>1, <3>2 DEF Store!SyncProgress
      <3> QED BY <3>3 DEF Store!Next
    <2> QED BY <2>3, <2>4
  <1> QED BY <1>1, <1>2, <1>3

\* A power loss keeps the history, unless it hits a sync whose checkpoint was
\* already complete: then it is the end of that sync.
LEMMA PowerLossRefines ==
  ASSUME IInv, PowerLoss
  PROVE  Store!Next
  <1>1. /\ mounted' = FALSE /\ pc' = "idle" /\ Contents' = AllBlank
    BY Zenon, ColdContents DEF PowerLoss, ResetTables, Return
  <1>2. Contents' = Store!AllBlank
    BY <1>1 DEF Store!AllBlank, AllBlank
  <1>3. CASE pc = "tail_program" /\ TailProgrammed
    <2>1. tail'.kind = "ckpt" /\ synced' = Contents /\ touched' = {}
      BY Zenon, <1>3 DEF TailProgrammed, Checkpoint
    <2>2. Contents' = IF mounted' THEN Contents ELSE Store!AllBlank
      BY Zenon, <1>1, <1>2
    <2>3. /\ mounted' \in BOOLEAN
          /\ (pc \in {"tail_erase", "tail_program"})' = FALSE
      <3>1. mounted' \in BOOLEAN
        BY Zenon, <1>1
      <3>2. ~pc' \in {"tail_erase", "tail_program"}
        BY <1>1
      <3> QED BY <3>1, <3>2
    <2>4. (\/ tail.kind = "torn"
           \/ tail.kind = "blank" /\ synced # AllBlank)' = FALSE
      BY <2>1
    <2>5. Store!EndSync
      BY <1>3, <2>1, <2>2, <2>3, <2>4, Zenon DEF Store!EndSync
    <2> QED BY <2>5 DEF Store!Next
  <1>4. CASE ~(pc = "tail_program" /\ TailProgrammed)
    <2>1. UNCHANGED history
      BY Zenon, <1>4 DEF PowerLoss, TailTorn
    <2>2. pc \notin {"tail_erase", "tail_program"} => UNCHANGED tail
      BY Zenon DEF PowerLoss
    <2>3. UNCHANGED <<synced, touched>>
      BY <2>1 DEF history
    <2>4. CASE pc \in {"tail_erase", "tail_program"}
      <3>1. Store!PowerLoss
        BY <1>1, <1>2, <2>3, <2>4 DEF Store!PowerLoss
      <3> QED BY <3>1 DEF Store!Next
    <2>5. CASE pc \notin {"tail_erase", "tail_program"}
      <3>1. Store!PowerLoss
        BY <1>1, <1>2, <2>2, <2>3, <2>5 DEF Store!PowerLoss
      <3> QED BY <3>1 DEF Store!Next
    <2> QED BY Zenon, <2>4, <2>5
  <1> QED BY Zenon, <1>3, <1>4

\* Erasing a torn tail abandons what was lost.
LEMMA EraseTornTailRefines ==
  ASSUME IInv, EraseTornTail
  PROVE  Store!Next
  <1>1. ~mounted /\ tail.kind = "torn" /\ UNCHANGED <<map, medium, mounted, pc, synced, touched>>
    BY Zenon DEF EraseTornTail, tables, request, history
  <1>2. Contents' = Contents
    BY Zenon, <1>1 DEF Contents, ReadOne
  <1>3. Store!Abandon
    BY Zenon, <1>1, <1>2 DEF Store!Abandon
  <1> QED BY <1>3 DEF Store!Next

\* The initial states are initial states of BlockStore.
LEMMA InitRefines ==
  ASSUME Init
  PROVE  Store!Init
  <1>1. Contents = Store!AllBlank /\ synced = Store!AllBlank
    BY Zenon DEF Init, Contents, ReadOne, NoMap, AllBlank, Store!AllBlank
  <1>2. tail.kind = "blank" /\ synced = AllBlank
    BY Zenon DEF Init, BlankTail, NoTables
  <1> QED BY <1>1, <1>2 DEF Init, Store!Init

\* The mounted layer is the block device BlockStore describes, for every number
\* of logical and physical blocks: failed writes change nothing, and after a
\* power loss at any raw call of any request the next mount finds every block
\* that was not touched since the last completed sync.
THEOREM Refinement == Spec => ImplementsStore
  <1>1. IInv /\ [Next]_vars => [Store!Next]_(Store!vars)
    <2> SUFFICES ASSUME IInv, [Next]_vars
                 PROVE  [Store!Next]_(Store!vars)
      OBVIOUS
    <2>1. CASE \/ \E lba \in LBN, count \in 1 .. L, data \in [LBN -> Data] :
                     DevWrite(lba, count, data)
               \/ \E lba \in LBN, count \in 1 .. L : DevErase(lba, count)
               \/ \E ok \in BOOLEAN : ReclaimStale(ok) \/ AllocErase(ok) \/ WriteOne(ok)
      BY Zenon, <2>1, DataPathRefines
    <2>2. CASE \/ \E unmount \in BOOLEAN : Sync(unmount)
               \/ \E ok \in BOOLEAN : TailErase(ok) \/ TailProgram(ok)
      BY <2>2, SyncRefines
    <2>3. CASE Mount
      BY <2>3, MountRefines
    <2>4. CASE PowerLoss
      BY <2>4, PowerLossRefines
    <2>5. CASE EraseTornTail
      BY <2>5, EraseTornTailRefines
    <2>6. CASE UNCHANGED vars
      <3>1. UNCHANGED <<map, medium, tail, mounted, pc, synced, touched>>
        BY Zenon, <2>6 DEF vars, tables, request, history
      <3>2. Contents' = Contents
        BY Zenon, <3>1 DEF Contents, ReadOne
      <3> QED BY Zenon, <3>1, <3>2 DEF Store!vars
    <2> QED BY Zenon, <2>1, <2>2, <2>3, <2>4, <2>5, <2>6 DEF Next, RawCall
  <1>2. Init => Store!Init
    BY InitRefines
  <1> QED BY <1>1, <1>2, Invariance, PTL DEF Spec, ImplementsStore, Store!Spec
-------------------------------------------------------------------------------
\* Where ResumedIntact fails and where it cannot: ra8_ftl_mount resuming from a
\* checkpoint reads back, as it was synced, every block that no write and no erase
\* has touched since, however many blocks were reclaimed, reprogrammed or torn in
\* between.  What the header promises is lost only for the blocks touched.
THEOREM ResumesUntouched ==
  Spec => [][~mounted /\ mounted' /\ tail.kind = "ckpt"
               => \A l \in LBN \ touched : Contents'[l] = synced[l]]_vars
  <1>1. IInv /\ [Next]_vars =>
          [~mounted /\ mounted' /\ tail.kind = "ckpt"
             => \A l \in LBN \ touched : Contents'[l] = synced[l]]_vars
    <2> SUFFICES ASSUME IInv, Next, ~mounted, mounted', tail.kind = "ckpt"
                 PROVE  \A l \in LBN \ touched : Contents'[l] = synced[l]
      OBVIOUS
    <2>1. pc = "idle"
      BY DEF IInv, CallInv
    <2>2. Mount
      BY Zenon, <2>1 DEF Next, RawCall, DevWrite, DevErase, ReclaimStale, AllocErase, WriteOne,
                  TailErase, TailProgram, Sync, PowerLoss, EraseTornTail
    <2>3. map' = tail.map /\ medium' = medium
      BY Zenon, <2>2 DEF Mount
    <2> QED BY Zenon, <2>3 DEF IInv, CheckpointInv, Contents, ReadOne
  <1> QED BY <1>1, Invariance, PTL DEF Spec
================================================================================
