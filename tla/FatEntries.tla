------------------------------ MODULE FatEntries -------------------------------
(* The steps of Fat that free clusters and write directory entries: each keeps *)
(* the invariant, and without a fault leaves every cluster accounted for.      *)
EXTENDS FatInvariant, TLAPS

--------------------------------------------------------------------------------
(* Steps that free a cluster.                                                  *)

(* A cluster is freed, or its table entry refused.                             *)
LEMMA ReleaseStep ==
  ASSUME Counting, IInv, mounted, NEW c \in Cluster, fat[c] # Free,
         (FatSet(c, Free) /\ Gave) \/ (FatSetFails(c, Free) /\ UNCHANGED alloc),
         UNCHANGED <<slots, fsi, dirc, mounted>>, torn' \in BOOLEAN, h' \in FileHandle,
         op' \in Call, Lengths', Where', Counts',
         torn' \/ (Chained' /\ Directory' /\ Handle' /\ Held')
  PROVE  IInv'
<1>1. Types /\ TypeNumbers /\ TypeFlags /\ Counted
  BY TypeParts DEF IInv
<1>2. /\ Accepted \/ Refused
      /\ fat' = fat \/ fat' = [fat EXCEPT ![c] = Free]
      /\ Refused \/ (Accepted /\ Gave /\ fat' = [fat EXCEPT ![c] = Free])
      /\ Gave \/ UNCHANGED alloc
  BY DEF FatSet, FatSetFails
<1>3. Types'
  <2>1. TypeFat'
    BY <1>1, <1>2, FatType
  <2>2. TypeNumbers'
    <3>1. nfree' \in 0 .. NClus
      BY <1>1, <1>2, FreeCount DEF TypeNumbers, alloc
    <3> QED BY <1>1, <1>2, <3>1, FaultCount DEF TypeNumbers
  <2>3. TypeFlags'
    <3>1. fsdirty' = TRUE \/ fsdirty' = fsdirty
      BY <1>2 DEF Gave, alloc
    <3>2. fsdirty' \in BOOLEAN
      BY Zenon, <1>1, <3>1 DEF TypeFlags
    <3> QED BY <1>1, <3>2 DEF TypeFlags
  <2>4. TypeSlots' /\ dirc' \in SUBSET Cluster
    BY <1>1 DEF Types, TypeSlots
  <2> QED BY <2>1, <2>2, <2>3, <2>4, TypeJoin
<1>4. Counted'
  BY <1>1, <1>2, CountedGave, RefusedCounted
<1> QED BY <1>3, <1>4 DEF IInv

(* The one cluster of a failed growth or mkdir is given back.                  *)
LEMMA UndoStep ==
  ASSUME Counting, IInv, Undo
  PROVE  IInv'
<1>0. /\ op.pc = "undo" /\ h' = h /\ UNCHANGED <<slots, fsi, dirc, mounted>> /\ op' = Idle
      /\ (FatSet(op.d, Free) /\ Gave) \/ (FatSetFails(op.d, Free) /\ UNCHANGED alloc)
  BY DEF Undo, Return
<1>a. torn' = (torn \/ (op.d \in dirc /\ fat'[op.d] = Free))
  BY DEF Undo
<1>1. /\ Types /\ Chained /\ Directory /\ Handle /\ Held /\ mounted /\ ~torn /\ Lengths
      /\ Calm /\ ~Beheaded /\ op.pc # "commit"
  BY <1>0, Running DEF Calm, Beheaded
<1>2. /\ op.d \in Cluster /\ fat[op.d] = EOC
      /\ op.d \notin dirc => Unled(op.d, NoSlot) /\ (IsOpen => h.first # op.d)
  BY <1>0, <1>1 DEF Held, NewCluster
<1>3. op' \in Call /\ Where' /\ Counts' /\ Held'
  BY <1>0, Returned
<1>4. torn' \in BOOLEAN /\ (torn' \/ ~(op.d \in dirc /\ fat'[op.d] = Free))
  BY Zenon, <1>a
<1>5. h' \in FileHandle /\ Lengths'
  BY Zenon, <1>0, <1>1, LengthsKept DEF Types
<1>6. fat' = fat \/ fat' = [fat EXCEPT ![op.d] = Free]
  BY <1>0 DEF FatSet, FatSetFails
<1>7. ASSUME ~torn' PROVE Chained' /\ Directory' /\ Handle'
  <2>0. Kept /\ Entries' \subseteq Entries
    BY <1>0, <1>1, CalmKept
  <2>1. CASE fat' = fat
    <3>1. Chained' /\ Directory' /\ \A e, x : Unled(e, x) => Unled(e, x)'
      BY Zenon, <1>0, <1>1, <2>0, <2>1, SameTable
    <3> QED BY <1>0, <1>1, <2>1, <3>1, HandleKept
  <2>2. CASE fat' = [fat EXCEPT ![op.d] = Free]
    <3>1. fat'[op.d] = Free
      BY <1>1, <1>2, <2>2 DEF Types
    <3>2. Unled(op.d, NoSlot) /\ (IsOpen => h.first # op.d)
      BY <1>2, <1>4, <1>7, <3>1
    <3>3. \A s \in Entries' : slots'[s].first # op.d
      BY <1>0, <2>0, <3>2, EntryFacts, ConstantFacts DEF Unled
    <3>4. /\ Chained' /\ Directory' /\ \A e, x : Unled(e, x) => Unled(e, x)'
          /\ \A e \in Cluster : e # op.d /\ fat[e] # Free => fat'[e] # Free
      <4>1. op.d # Root /\ \A p \in Cluster : fat[p] # op.d
        BY <3>2 DEF Unled
      <4> QED BY Zenon, <1>0, <1>1, <1>2, <2>0, <2>2, <3>3, <4>1, Release
    <3>5. CASE IsOpen
      BY <1>0, <1>1, <3>2, <3>4, <3>5, HandleKept
    <3>6. CASE ~IsOpen
      <4>1. ~IsOpen'
        BY <1>0, <3>6 DEF IsOpen
      <4> QED BY <3>4, <4>1 DEF Handle
    <3> QED BY <3>4, <3>5, <3>6
  <2> QED BY <1>6, <2>1, <2>2
<1>8. fat[op.d] # Free
  BY <1>2, ConstantFacts
<1> QED BY Zenon, <1>0, <1>1, <1>2, <1>3, <1>4, <1>5, <1>7, <1>8, ReleaseStep

(* The chain being freed, one cluster shorter.                                 *)
LEMMA ChainFreed ==
  ASSUME IInv, op.pc = "free", UNCHANGED <<slots, dirc>>,
         fat' = [fat EXCEPT ![op.c] = Free],
         \A s \in Entries' : s \in Entries \/ slots[s].first = 0,
         FreesAll => op.at \notin Entries' \/ slots[op.at].first = 0
  PROVE  /\ Chained' /\ Directory'
         /\ \A e, x : Unled(e, x) => Unled(e, x)'
         /\ \A e \in Cluster : e # op.c /\ fat[e] # Free => fat'[e] # Free
         /\ \A e \in Cluster : e = fat[op.c] => Unled(e, NoSlot)' /\ fat'[e] # Free
<1>1. Types /\ Chained /\ Directory /\ Held
  BY Running
<1>2. /\ Unled(op.c, op.at)
      /\ FreesAll \/ (op.at \in Entries => slots[op.at].first # op.c)
  BY <1>1 DEF Held, Head
<1>3. Kept
  BY DEF Kept
<1>4. ASSUME NEW s \in Entries', slots'[s].first = op.c PROVE FALSE
  <2>1. slots[s].first # 0 /\ s \in Entries
    BY <1>2, <1>4, FatAssumption DEF Unled
  <2>2. s = op.at
    BY <1>2, <1>4, <2>1 DEF Unled
  <2> QED BY <1>2, <1>4, <2>1, <2>2
<1>5. op.c \in Cluster /\ op.c # Root /\ \A p \in Cluster : fat[p] # op.c
  BY <1>2 DEF Unled
<1> QED BY Zenon, <1>1, <1>3, <1>4, <1>5, Release

(* One more cluster of a chain is freed, or that is refused.                   *)
LEMMA FreeChainStep ==
  ASSUME Counting, IInv, FreeChain
  PROVE  IInv'
<1>0. /\ op.pc = "free" /\ UNCHANGED <<slots, fsi, dirc, mounted>>
      /\ (FatSet(op.c, Free) /\ Gave) \/ (FatSetFails(op.c, Free) /\ UNCHANGED alloc)
  BY DEF FreeChain
<1>1. /\ Types /\ Chained /\ Directory /\ Handle /\ Held /\ Where /\ mounted /\ ~torn /\ Lengths
      /\ op \in Call /\ op.call \in {"open", "trunc", "unlink", "rmdir"}
      /\ op.n \in Length /\ h \in FileHandle
      /\ op.call = "trunc" => IsOpen /\ op.at = h.at
  BY Zenon, <1>0, Running, CallOf, CallFacts DEF Types, Where
<1>2. /\ Unled(op.c, op.at) /\ op.c \in Cluster /\ fat[op.c] # Free
      /\ FreesAll /\ slots[op.at].first # 0 => \A p \in Cluster : fat[p] # slots[op.at].first
      /\ Beheaded => Headless
      /\ op.call # "trunc" => ~IsOpen \/ h.first # op.c
      /\ op.call = "trunc" => h.first # 0
      /\ op.call = "trunc" /\ op.n > 0 => h.first # op.c
  BY Zenon, <1>0, <1>1 DEF Held, Head, Unled
<1>3. IsOpen /\ h.first # 0 => Unled(h.first, h.at) /\ (Beheaded \/ fat[h.first] # Free)
  BY Zenon, <1>1 DEF Handle
<1>4. /\ Entries = {s \in DirSlots : slots[s].kind \in Live}
                     \ (IF FreesAll /\ Headless THEN {op.at} ELSE {})
  BY <1>0 DEF Entries, Exposed
<1>b. IsOpen => h.at \in DirSlots /\ slots[h.at].kind = "file"
                  /\ (h.first = 0 => slots[h.at].first = 0)
  BY <1>0, <1>1 DEF Handle
<1>5. ASSUME FatSet(op.c, Free), fat[op.c] \in Cluster, op' = [op EXCEPT !.c = fat[op.c]], h' = h,
             torn' = torn, Gave
      PROVE  IInv'
  <2>1. /\ op'.call = op.call /\ op'.pc = "free" /\ op'.at = op.at /\ op'.n = op.n
        /\ op'.c = fat[op.c] /\ op' \in Call /\ fat' = [fat EXCEPT ![op.c] = Free]
    <3>1. fat[op.c] \in MaybeCluster
      BY <1>5, ConstantFacts
    <3> QED BY <1>0, <1>1, <1>5, <3>1 DEF Call, FatSet
  <2>2. (FreesAll <=> FreesAll') /\ (FreesAll => Headless')
    <3>1. FreesAll <=> FreesAll'
      BY <2>1 DEF FreesAll
    <3>2. FreesAll => Headless'
      BY <1>0, <1>2, <1>5, <2>1, FatAssumption DEF Headless
    <3> QED BY <3>1, <3>2
  <2>3. Entries' = {s \in DirSlots : slots[s].kind \in Live} \ (IF FreesAll THEN {op.at} ELSE {})
    BY <1>0, <2>1, <2>2 DEF Entries, Exposed, DirSlots
  <2>4. /\ Chained' /\ Directory'
        /\ \A e, x : Unled(e, x) => Unled(e, x)'
        /\ \A e \in Cluster : e # op.c /\ fat[e] # Free => fat'[e] # Free
        /\ \A e \in Cluster : e = fat[op.c] => Unled(e, NoSlot)' /\ fat'[e] # Free
    <3>1. Entries' \subseteq Entries /\ (FreesAll => op.at \notin Entries')
      BY <1>4, <2>3
    <3> QED BY <1>0, <2>1, <3>1, ChainFreed
  <2>5. Unled(op.c, NoSlot)' /\ fat'[op'.c] # Free
    BY <1>5, <2>1, <2>4
  <2>6. IsOpen => h.first # fat[op.c]
    BY <1>2, <1>3, <1>5, FatAssumption DEF Unled
  <2>7. Head'
    <3>1. Unled(op.c, op.at)' /\ (op'.at \in Entries' => slots'[op'.at].first # op'.c)
      <4>1. Entries' \subseteq Slot
        BY DEF Entries, DirSlots
      <4> QED BY <2>5, <4>1, ConstantFacts DEF Unled
    <3>2. FreesAll' /\ slots'[op'.at].first # 0 => \A p \in Cluster : fat'[p] # slots'[op'.at].first
      BY <1>0, <1>1, <1>2, <2>1, <2>2, FatAssumption DEF Types, Free
    <3>3. Beheaded' => Headless'
      BY <2>1, <2>2 DEF Beheaded, FreesAll
    <3>4. IsOpen' => h'.first # op'.c
      BY <1>5, <2>1, <2>6 DEF IsOpen
    <3>5. op'.call = "trunc" => h'.first # 0 /\ h'.first # op'.c
      BY <1>1, <1>2, <1>5, <2>1, <2>6
    <3> QED BY <2>1, <2>5, <3>1, <3>2, <3>3, <3>4, <3>5 DEF Head
  <2>8. Held'
    <3>1. NewCluster' /\ Blank' /\ Target' /\ Place'
      BY Zenon, <2>1 DEF NewCluster, Blank, Target, Place
    <3> QED BY <2>7, <3>1 DEF Held
  <2>9. Counts'
    BY <2>1 DEF Counts
  <2>10. Where'
    BY <1>0, <1>1, <1>5, <2>1 DEF Where, StepsOf, IsOpen, DirSlots, NotOpen
  <2>11. Lengths'
    BY <1>0, <1>1, <1>5, LengthsKept
  <2>12. Handle'
    <3>1. ASSUME IsOpen, h.first # 0
          PROVE  Unled(h.first, h.at)' /\ (Beheaded' \/ fat'[h'.first] # Free)
      <4>1. Unled(h.first, h.at)'
        BY <1>3, <1>5, <2>4, <3>1
      <4>2. h.first \in Cluster
        BY <1>3, <3>1 DEF Unled
      <4>3. CASE op.call = "trunc" /\ op.n = 0
        BY Zenon, <1>5, <2>1, <2>6, <3>1, <4>1, <4>3 DEF Beheaded
      <4>4. CASE ~(op.call = "trunc" /\ op.n = 0)
        <5>1. h.first # op.c /\ ~Beheaded
          BY <1>1, <1>2, <3>1, <4>4 DEF Beheaded, Length
        <5> QED BY Zenon, <1>3, <1>5, <2>4, <3>1, <4>1, <4>2, <5>1
      <4> QED BY <4>3, <4>4
    <3>2. IsOpen => h'.at \in DirSlots' /\ slots'[h'.at].kind = "file"
                      /\ (h'.first = 0 => slots'[h'.at].first = 0)
      BY <1>0, <1>5, <1>b DEF DirSlots
    <3>3. IsOpen' => IsOpen
      BY <1>5 DEF IsOpen
    <3> QED BY <1>5, <3>1, <3>2, <3>3 DEF Handle
  <2>13. torn' \in BOOLEAN /\ h' \in FileHandle
    BY <1>1, <1>5 DEF Types
  <2> QED BY Zenon, <1>0, <1>1, <1>2, <1>5, <2>1, <2>4, <2>8, <2>9, <2>10, <2>11, <2>12, <2>13, ReleaseStep
<1>6. ASSUME FatSet(op.c, Free), op' = [op EXCEPT !.c = 0, !.pc = AfterFree], torn' = torn, Gave,
             h' = IF op.call = "trunc"
                  THEN [h EXCEPT !.size = op.n, !.first = IF op.n = 0 THEN 0 ELSE h.first]
                  ELSE h
      PROVE  IInv'
  <2>1. /\ op'.call = op.call /\ op'.at = op.at /\ op'.n = op.n /\ fat' = [fat EXCEPT ![op.c] = Free]
        /\ op'.pc = AfterFree /\ op' \in Call
    <3>1. AfterFree \in Steps /\ 0 \in MaybeCluster
      BY ConstantFacts DEF AfterFree, Steps
    <3> QED BY Zenon, <1>1, <1>6, <3>1 DEF Call, FatSet
  <2>2. /\ op.call = "open" => op'.pc = "zero"
        /\ op.call = "trunc" => op'.pc = "commit"
        /\ op.call \in {"unlink", "rmdir"} => op'.pc = "erase"
    BY <2>1 DEF AfterFree
  <2>3. /\ h'.at = h.at /\ h' \in FileHandle /\ (op.call # "trunc" => h' = h)
        /\ op.call = "trunc" => /\ h'.size = op.n
                                /\ h'.first = IF op.n = 0 THEN 0 ELSE h.first
    <3>1. 0 \in MaybeCluster /\ h.first \in MaybeCluster
      BY Zenon, <1>1, HandleFacts, ConstantFacts
    <3> QED BY Zenon, <1>1, <1>6, <3>1 DEF FileHandle
  <2>4. FreesAll /\ slots[op.at].first # 0 => Exposed'
    BY Zenon, <1>0, <1>1, <2>1, <2>2, <2>3 DEF FreesAll, Exposed
  <2>5. /\ Entries' \subseteq {s \in DirSlots : slots[s].kind \in Live}
        /\ FreesAll => op.at \notin Entries' \/ slots[op.at].first = 0
    BY Zenon, <1>0, <2>1, <2>4 DEF Entries, DirSlots
  <2>6. /\ Chained' /\ Directory'
        /\ \A e, x : Unled(e, x) => Unled(e, x)'
        /\ \A e \in Cluster : e # op.c /\ fat[e] # Free => fat'[e] # Free
    <3>1. \A s \in Entries' : s \in Entries \/ slots[s].first = 0
      BY <1>4, <2>5
    <3> QED BY Zenon, <1>0, <2>1, <2>5, <3>1, ChainFreed
  <2>7. Held'
    BY Zenon, <1>1, <2>2 DEF Held, NewCluster, Blank, Target, Place, Head
  <2>8. Counts'
    BY Zenon, <1>1, <2>2 DEF Counts
  <2>9. Where'
    <3>1. /\ IsOpen <=> IsOpen'
          /\ op.call = "open" => op'.at \in DirSlots' /\ slots'[op'.at].kind = "file" /\ ~IsOpen'
          /\ op.call \in {"unlink", "rmdir"} => NotOpen(op.at)'
      BY Zenon, <1>0, <1>1, <2>1, <2>3 DEF Where, DirSlots, IsOpen, NotOpen
    <3> QED BY <1>0, <1>1, <1>6, <2>1, <2>2, <2>3, <3>1 DEF Where, StepsOf
  <2>10. Lengths'
    <3>1. h'.size > 0 => h'.first # 0
      BY SMTT(30), <1>1, <1>2, <2>3 DEF Lengths, Length
    <3>2. ~IsOpen' => h' = Closed
      BY Zenon, <1>1, <2>3 DEF Lengths, IsOpen
    <3> QED BY Zenon, <1>0, <1>1, <3>1, <3>2 DEF Lengths
  <2>11. Handle'
    <3>1. ASSUME IsOpen, h'.first # 0 PROVE Unled(h.first, h.at)' /\ fat'[h'.first] # Free
      <4>1. h'.first = h.first /\ h.first # 0 /\ h.first # op.c /\ ~Beheaded
        BY <1>1, <1>2, <2>3, <3>1 DEF Beheaded, Length
      <4>2. Unled(h.first, h.at) /\ fat[h.first] # Free
        BY <1>3, <3>1, <4>1
      <4>3. h.first \in Cluster
        BY Zenon, <4>2 DEF Unled
      <4> QED BY <2>3, <2>6, <4>1, <4>2, <4>3
    <3>2. IsOpen => h'.at \in DirSlots' /\ slots'[h'.at].kind = "file"
      BY Zenon, <1>0, <1>b, <2>3 DEF DirSlots
    <3>3. IsOpen /\ h'.first = 0 /\ slots'[h'.at].first # 0 => op'.pc = "commit"
      BY <1>0, <1>b, <2>2, <2>3
    <3>4. IsOpen' => IsOpen
      BY <2>3 DEF IsOpen
    <3> QED BY Zenon, <3>1, <3>2, <3>3, <3>4 DEF Handle
  <2>12. torn' \in BOOLEAN
    BY <1>1, <1>6 DEF Types
  <2> QED BY <1>0, <1>1, <1>2, <1>6, <2>1, <2>3, <2>6, <2>7, <2>8, <2>9, <2>10, <2>11, <2>12, ReleaseStep
<1>7. ASSUME FatSetFails(op.c, Free), torn' = (torn \/ (FreesAll /\ (Headless \/ fat' # fat))),
             op' = Idle, h' = h, UNCHANGED alloc
      PROVE  IInv'
  <2>1. torn' \in BOOLEAN /\ (torn' \/ ~FreesAll \/ (~Headless /\ fat' = fat))
    BY Zenon, <1>7
  <2>2. /\ op' \in Call /\ Where' /\ Counts' /\ Held'
        /\ Entries' = {s \in DirSlots' : slots'[s].kind \in Live}
    BY <1>7, Returned
  <2>3. Lengths' /\ h' \in FileHandle
    BY Zenon, <1>0, <1>1, <1>7, LengthsKept
  <2>4. ASSUME ~torn' PROVE Chained' /\ Directory' /\ Handle'
    <3>1. Entries' = Entries
      <4>1. ~(FreesAll /\ Headless)
        BY <2>1, <2>4
      <4> QED BY Zenon, <1>0, <1>4, <2>2, <4>1 DEF DirSlots
    <3>2. Kept
      BY <1>0, <3>1 DEF Kept
    <3>3. ~Beheaded /\ op.pc # "commit"
      BY Zenon, <1>0, <1>2, <2>1, <2>4 DEF Beheaded, FreesAll
    <3>4. CASE fat' = fat
      <4>1. Chained' /\ Directory' /\ \A e, x : Unled(e, x) => Unled(e, x)'
        BY Zenon, <1>0, <1>1, <3>2, <3>4, SameTable
      <4> QED BY Zenon, <1>0, <1>1, <1>7, <3>3, <3>4, <4>1, HandleKept
    <3>5. CASE fat' # fat
      <4>1. ~FreesAll /\ fat' = [fat EXCEPT ![op.c] = Free]
        BY <1>7, <2>1, <2>4, <3>5 DEF FatSetFails
      <4>2. /\ Chained' /\ Directory' /\ \A e, x : Unled(e, x) => Unled(e, x)'
            /\ \A e \in Cluster : e # op.c /\ fat[e] # Free => fat'[e] # Free
        BY Zenon, <1>0, <3>1, <4>1, ChainFreed
      <4>3. h.first # op.c
        BY <1>1, <1>2, <4>1 DEF FreesAll, Length
      <4> QED BY Zenon, <1>0, <1>1, <1>7, <3>3, <4>2, <4>3, HandleKept
    <3> QED BY <3>4, <3>5
  <2> QED BY Zenon, <1>0, <1>1, <1>2, <2>1, <2>2, <2>3, <2>4, ReleaseStep
<1>8. CASE FatSet(op.c, Free) /\ Gave /\ torn' = torn
           /\ IF fat[op.c] \in Cluster
              THEN op' = [op EXCEPT !.c = fat[op.c]] /\ h' = h
              ELSE /\ op' = [op EXCEPT !.c = 0, !.pc = AfterFree]
                   /\ h' = IF op.call = "trunc"
                           THEN [h EXCEPT !.size = op.n, !.first = IF op.n = 0 THEN 0 ELSE h.first]
                           ELSE h
  BY <1>5, <1>6, <1>8
<1>9. CASE FatSetFails(op.c, Free) /\ torn' = (torn \/ (FreesAll /\ (Headless \/ fat' # fat)))
           /\ op' = Idle /\ h' = h /\ UNCHANGED alloc
  BY <1>7, <1>9
<1> QED BY <1>8, <1>9 DEF FreeChain, Return

--------------------------------------------------------------------------------
(* Steps that write a directory slot.                                          *)

(* An entry is made to lead to cluster c, or to none.                          *)
LEMMA Refile ==
  ASSUME Chained, Directory, fat' = fat, dirc' = dirc, NEW x, NEW c,
         c # 0 => /\ c \in Cluster /\ c # Root /\ fat[c] # Free /\ \A p \in Cluster : fat[p] # c
                  /\ \A s \in Entries' : s # x => slots'[s].first # c,
         \A s \in Entries' : \/ slots'[s].first = 0
                             \/ s = x /\ slots'[s].first = c
                             \/ s \in Entries /\ slots'[s].first = slots[s].first
  PROVE  /\ Chained' /\ Directory' /\ (c # 0 => Unled(c, x)')
         /\ \A e, y : e # c /\ Unled(e, y) => Unled(e, y)'
<1>1. c # 0 => Unled(c, x)'
  BY DEF Unled
<1>2. ASSUME NEW e, NEW y, e # c, Unled(e, y) PROVE Unled(e, y)'
  BY Zenon, <1>2, FatAssumption DEF Unled
<1>3. Chained'
  <2>1. ASSUME NEW s \in Entries', slots'[s].first # 0
        PROVE  Unled(slots[s].first, s)' /\ fat'[slots'[s].first] # Free
    <3>1. CASE s = x /\ slots'[s].first = c
      BY Zenon, <1>1, <2>1, <3>1
    <3>2. CASE s \in Entries /\ slots'[s].first = slots[s].first /\ slots[s].first # c
      BY Zenon, <1>2, <2>1, <3>2 DEF Chained
    <3> QED BY <2>1, <3>1, <3>2
  <2> QED BY Zenon, <2>1 DEF Chained
<1> QED BY Zenon, <1>1, <1>2, <1>3 DEF Directory

(* A step that writes slots and leaves the table as it is.                     *)
LEMMA SlotStep ==
  ASSUME IInv, mounted, Accepted \/ Refused, UNCHANGED <<fat, fsi, dirc, mounted, alloc>>,
         TypeSlots', torn' \in BOOLEAN, h' \in FileHandle, op' \in Call, Lengths', Where', Counts',
         torn' \/ (Chained' /\ Directory' /\ Handle' /\ Held')
  PROVE  IInv'
<1>1. Types /\ TypeNumbers /\ TypeFlags /\ Counted
  BY TypeParts DEF IInv
<1>2. Types'
  <2>1. TypeNumbers' /\ TypeFlags'
    BY Zenon, <1>1, FaultCount DEF TypeNumbers, TypeFlags, alloc
  <2>2. TypeFat' /\ dirc' \in SUBSET Cluster
    BY <1>1 DEF Types, TypeFat
  <2> QED BY Zenon, <2>1, <2>2, TypeJoin
<1>3. Counted'
  <2>1. FreeClusters' = FreeClusters
    BY Zenon DEF FreeClusters
  <2> QED BY <1>1, <2>1, CountedSame, RefusedCounted
<1> QED BY <1>2, <1>3 DEF IInv

(* The slot is not written: the entry leads nowhere, or the volume is torn.    *)
LEMMA SlotRefused ==
  ASSUME IInv, op.pc \in {"zero", "erase"}, Refused, UNCHANGED <<fat, fsi, dirc, mounted, alloc, slots, h>>,
         torn' = (torn \/ slots[op.at].first # 0), op' = Idle
  PROVE  IInv'
<1>1. Types /\ Lengths /\ Chained /\ Directory /\ Handle /\ mounted /\ ~torn
  BY Running
<1>2. torn' \in BOOLEAN /\ (torn' \/ slots[op.at].first = 0)
  BY Zenon
<1>3. /\ op' \in Call /\ Where' /\ Counts' /\ Held'
      /\ Entries' = {s \in DirSlots' : slots'[s].kind \in Live}
  BY Zenon, Returned
<1>4. Lengths' /\ h' \in FileHandle /\ TypeSlots'
  BY <1>1, LengthsKept DEF Types, TypeSlots
<1>5. ASSUME ~torn' PROVE Chained' /\ Directory' /\ Handle'
  <2>1. Entries = {s \in DirSlots : slots[s].kind \in Live}
    BY Zenon, <1>2, <1>5 DEF Entries, Exposed
  <2>2. Kept
    BY <1>3, <2>1 DEF Kept, DirSlots
  <2>3. Chained' /\ Directory' /\ \A e, x : Unled(e, x) => Unled(e, x)'
    BY Zenon, <1>1, <2>2, SameTable
  <2>4. ~Beheaded /\ op.pc # "commit"
    BY DEF Beheaded
  <2> QED BY Zenon, <1>1, <2>3, <2>4, HandleKept
<1> QED BY Zenon, <1>1, <1>2, <1>3, <1>4, <1>5, SlotStep

(* The entry is gone.                                                          *)
LEMMA EraseStep ==
  ASSUME IInv, Erase
  PROVE  IInv'
<1>0. op.pc = "erase" /\ op' = Idle /\ UNCHANGED <<fat, fsi, dirc, mounted, alloc, h>>
  BY DEF Erase, Return
<1>1. CASE Refused /\ slots' = slots /\ torn' = (torn \/ slots[op.at].first # 0)
  BY Zenon, <1>0, <1>1, SlotRefused
<1>2. CASE Accepted /\ slots' = [slots EXCEPT ![op.at] = Mark("gone")] /\ torn' = torn
  <2>1. /\ Types /\ Lengths /\ Where /\ Chained /\ Directory /\ Handle /\ mounted /\ ~torn
        /\ op.call \in {"rename", "unlink", "rmdir"}
    BY Zenon, <1>0, Running, CallOf
  <2>2. NotOpen(op.at)
    BY Zenon, <1>0, <2>1 DEF Where
  <2>3. Mark("gone") \in Entry /\ Mark("gone").size = 0 /\ Mark("gone").kind = "gone"
    BY FatAssumption DEF Mark, Entry, MaybeCluster, Length
  <2>4. \A s \in Slot : slots'[s] = IF s = op.at THEN Mark("gone") ELSE slots[s]
    BY <1>2, <2>1 DEF Types
  <2>5. /\ op' \in Call /\ Where' /\ Counts' /\ Held'
        /\ Entries' = {s \in DirSlots' : slots'[s].kind \in Live}
    BY <1>0, Returned
  <2>6. TypeSlots'
    BY Zenon, <1>2, <2>1, <2>3 DEF Types, TypeSlots
  <2>7. Lengths'
    <3>1. \A s \in Slot : slots'[s].size > 0 => slots'[s].first # 0
      BY <2>1, <2>3, <2>4 DEF Lengths
    <3> QED BY <1>0, <2>1, <3>1 DEF Lengths, IsOpen
  <2>8. Kept
    <3>1. \A s \in DirSlots : slots[s].kind \in Live /\ s # op.at => s \in Entries
      BY DEF Entries
    <3>2. \A s \in Entries' : s \in DirSlots /\ s # op.at /\ slots'[s] = slots[s]
      BY Zenon, <1>0, <2>3, <2>4, <2>5 DEF DirSlots, Live
    <3> QED BY Zenon, <2>5, <3>1, <3>2 DEF Kept
  <2>9. Chained' /\ Directory' /\ \A e, x : Unled(e, x) => Unled(e, x)'
    BY <1>0, <2>1, <2>8, SameTable
  <2>10. Handle'
    <3>1. ~Beheaded /\ op.pc # "commit"
      BY <1>0 DEF Beheaded
    <3>2. IsOpen => slots'[h.at] = slots[h.at]
      BY Zenon, <2>1, <2>2, <2>4 DEF NotOpen, Handle, DirSlots
    <3> QED BY <1>0, <2>1, <2>9, <3>1, <3>2, HandleKept
  <2>11. torn' \in BOOLEAN /\ h' \in FileHandle
    BY Zenon, <1>0, <1>2, <2>1 DEF Types
  <2> QED BY Zenon, <1>0, <1>2, <2>1, <2>5, <2>6, <2>7, <2>9, <2>10, <2>11, SlotStep
<1> QED BY Zenon, <1>1, <1>2 DEF Erase

(* The entry leads nowhere.                                                    *)
LEMMA TruncateExistingStep ==
  ASSUME IInv, TruncateExisting
  PROVE  IInv'
<1>0. op.pc = "zero" /\ op' = Idle /\ UNCHANGED <<fat, fsi, dirc, mounted, alloc>>
  BY DEF TruncateExisting, Return
<1>1. CASE Refused /\ slots' = slots /\ h' = h /\ torn' = (torn \/ slots[op.at].first # 0)
  BY Zenon, <1>0, <1>1, SlotRefused
<1>2. CASE /\ Accepted /\ slots' = [slots EXCEPT ![op.at].first = 0, ![op.at].size = 0]
           /\ h' = [Closed EXCEPT !.at = op.at] /\ torn' = torn
  <2>1. /\ Types /\ Lengths /\ Where /\ Chained /\ Directory /\ mounted /\ ~torn
        /\ op.call = "open" /\ op.at \in DirSlots /\ slots[op.at].kind = "file" /\ op.at \in Slot
    BY Zenon, <1>0, Running, CallOf DEF Where, DirSlots
  <2>2. /\ h'.at = op.at /\ h'.first = 0 /\ h'.size = 0 /\ h' \in FileHandle /\ IsOpen'
    <3>1. op.at \in MaybeSlot /\ op.at # NoSlot
      BY Zenon, <2>1, ConstantFacts
    <3> QED BY <1>2, <3>1, ConstantFacts, FatAssumption DEF Closed, FileHandle, IsOpen
  <2>3. [slots[op.at] EXCEPT !.first = 0, !.size = 0] \in Entry
    <3>1. slots[op.at] \in Entry /\ 0 \in MaybeCluster /\ 0 \in Length
      BY <2>1, ConstantFacts, FatAssumption DEF Types, Length
    <3> QED BY Zenon, <3>1 DEF Entry
  <2>4. /\ slots' = [slots EXCEPT ![op.at] = [slots[op.at] EXCEPT !.first = 0, !.size = 0]]
        /\ \A s \in Slot : s # op.at => slots'[s] = slots[s]
        /\ slots'[op.at].first = 0 /\ slots'[op.at].size = 0 /\ slots'[op.at].kind = "file"
    BY Zenon, <1>2, <2>1 DEF Types, Entry
  <2>5. /\ op' \in Call /\ Where' /\ Counts' /\ Held'
        /\ Entries' = {s \in DirSlots' : slots'[s].kind \in Live}
    BY <1>0, Returned
  <2>6. TypeSlots'
    BY <2>1, <2>3, <2>4 DEF Types, TypeSlots
  <2>7. Lengths'
    <3>1. \A s \in Slot : slots'[s].size > 0 => slots'[s].first # 0
      BY <2>1, <2>4 DEF Lengths
    <3> QED BY <2>2, <3>1 DEF Lengths
  <2>8. Kept
    <3>1. \A s \in DirSlots : slots[s].kind \in Live /\ s # op.at => s \in Entries
      BY DEF Entries
    <3>2. \A s \in Entries' : s \in DirSlots /\ s \in Slot /\ slots'[s].kind \in Live
      BY Zenon, <1>0, <2>5 DEF DirSlots
    <3> QED BY <2>4, <3>1, <3>2 DEF Kept
  <2>9. Chained' /\ Directory'
    BY Zenon, <1>0, <2>1, <2>8, SameTable
  <2>10. Handle'
    BY Zenon, <1>0, <2>1, <2>2, <2>4 DEF Handle, DirSlots
  <2>11. torn' \in BOOLEAN
    BY Zenon, <1>2, <2>1 DEF Types
  <2> QED BY <1>0, <1>2, <2>1, <2>2, <2>5, <2>6, <2>7, <2>9, <2>10, <2>11, SlotStep
<1> QED BY <1>1, <1>2 DEF TruncateExisting

(* The open file is filed in its entry, or that is refused.                    *)
LEMMA FileStep ==
  ASSUME IInv, op.pc \in {"dirent", "commit"}, UNCHANGED <<fat, fsi, dirc, mounted, alloc>>,
         op' = Idle, h'.at = h.at, h'.first = h.first, h'.size = h.size, h' \in FileHandle,
         \/ /\ Accepted /\ torn' = torn
            /\ slots' = [slots EXCEPT ![h.at].first = h.first, ![h.at].size = h.size]
         \/ /\ Refused /\ torn' \in BOOLEAN /\ slots' = slots
            /\ torn' \/ ~(h.first = 0 /\ slots[h.at].first # 0)
  PROVE  IInv'
<1>1. /\ Types /\ Lengths /\ Where /\ Chained /\ Directory /\ Handle /\ mounted /\ ~torn
      /\ IsOpen /\ IsOpen' /\ ~Beheaded /\ (op.pc = "commit" => op.at = h.at)
  BY Zenon, Running, CallOf DEF Where, IsOpen, Beheaded
<1>2. /\ h.at \in DirSlots /\ h.at \in Slot /\ slots[h.at].kind = "file"
      /\ h.first # 0 => Unled(h.first, h.at) /\ fat[h.first] # Free
      /\ op.pc # "commit" => ~(h.first = 0 /\ slots[h.at].first # 0)
  BY <1>1 DEF Handle, DirSlots
<1>3. /\ op' \in Call /\ Where' /\ Counts' /\ Held'
      /\ Entries' = {s \in DirSlots' : slots'[s].kind \in Live}
  BY Returned
<1>4. Exposed => op.at = h.at /\ h.first = 0 /\ slots[h.at].first # 0
  BY <1>1 DEF Exposed
<1>5. ASSUME slots' = [slots EXCEPT ![h.at].first = h.first, ![h.at].size = h.size], Accepted, torn' = torn
      PROVE  IInv'
  <2>1. [slots[h.at] EXCEPT !.first = h.first, !.size = h.size] \in Entry
    <3>1. slots[h.at] \in Entry /\ h.first \in MaybeCluster /\ h.size \in Length
      BY Zenon, <1>1, <1>2, HandleFacts DEF Types
    <3> QED BY Zenon, <3>1 DEF Entry
  <2>2. /\ slots' = [slots EXCEPT ![h.at] = [slots[h.at] EXCEPT !.first = h.first, !.size = h.size]]
        /\ \A s \in Slot : s # h.at => slots'[s] = slots[s]
        /\ slots'[h.at].first = h.first /\ slots'[h.at].size = h.size /\ slots'[h.at].kind = "file"
    BY ZenonT(30), <1>1, <1>2, <1>5 DEF Types, Entry
  <2>3. TypeSlots'
    BY Zenon, <1>1, <2>1, <2>2 DEF Types, TypeSlots
  <2>4. Lengths'
    <3>1. \A s \in Slot : slots'[s].size > 0 => slots'[s].first # 0
      BY <1>1, <2>2 DEF Lengths
    <3> QED BY <1>1, <3>1 DEF Lengths
  <2>5. ASSUME NEW s \in Entries', s # h.at PROVE s \in Entries /\ slots'[s] = slots[s]
    BY Zenon, <1>3, <1>4, <2>2, <2>5 DEF Entries, DirSlots
  <2>6. h.first # 0 => /\ h.first \in Cluster /\ h.first # Root /\ fat[h.first] # Free
                       /\ \A p \in Cluster : fat[p] # h.first
                       /\ \A s \in Entries' : s # h.at => slots'[s].first # h.first
    BY <1>2, <2>5 DEF Unled
  <2>7. Chained' /\ Directory' /\ \A c, x : c = h.first /\ x = h.at /\ c # 0 => Unled(c, x)'
    <3>1. \A s \in Entries' : \/ slots'[s].first = 0
                              \/ s = h.at /\ slots'[s].first = h.first
                              \/ s \in Entries /\ slots'[s].first = slots[s].first
      BY <2>2, <2>5
    <3>2. ASSUME NEW c, NEW x, c = h.first, x = h.at PROVE Chained' /\ Directory' /\ (c # 0 => Unled(c, x)')
      <4>1. c # 0 => /\ c \in Cluster /\ c # Root /\ fat[c] # Free /\ \A p \in Cluster : fat[p] # c
                     /\ \A s \in Entries' : s # x => slots'[s].first # c
        BY <2>6, <3>2
      <4>2. \A s \in Entries' : \/ slots'[s].first = 0
                                \/ s = x /\ slots'[s].first = c
                                \/ s \in Entries /\ slots'[s].first = slots[s].first
        BY <3>1, <3>2
      <4> QED BY <1>1, <4>1, <4>2, Refile
    <3> QED BY <3>2
  <2>8. Handle'
    <3>1. h'.first # 0 => Unled(h.first, h.at)' /\ fat'[h'.first] # Free
      BY <1>2, <2>7
    <3>2. h'.at \in DirSlots' /\ slots'[h'.at].kind = "file" /\ slots'[h'.at].first = h'.first
      BY <1>2, <2>2 DEF DirSlots
    <3> QED BY <3>1, <3>2 DEF Handle
  <2>9. torn' \in BOOLEAN
    BY <1>1, <1>5 DEF Types
  <2> QED BY Zenon, <1>1, <1>3, <1>5, <2>3, <2>4, <2>7, <2>8, <2>9, SlotStep
<1>6. ASSUME Refused, torn' \in BOOLEAN, slots' = slots, torn' \/ ~(h.first = 0 /\ slots[h.at].first # 0)
      PROVE  IInv'
  <2>1. TypeSlots' /\ Lengths'
    BY <1>1, <1>6 DEF Types, TypeSlots, Lengths
  <2>2. ASSUME ~torn' PROVE Chained' /\ Directory' /\ Handle'
    <3>1. Kept
      <4>1. ~Exposed
        BY <1>4, <1>6, <2>2
      <4> QED BY <1>3, <1>6, <4>1 DEF Kept, Entries, DirSlots
    <3>2. Chained' /\ Directory' /\ \A c, x : Unled(c, x) => Unled(c, x)'
      BY <1>1, <3>1, SameTable
    <3>3. h'.first # 0 => Unled(h.first, h.at)' /\ fat'[h'.first] # Free
      BY <1>2, <3>2
    <3>4. h'.at \in DirSlots' /\ slots'[h'.at].kind = "file"
      BY <1>2, <1>6 DEF DirSlots
    <3> QED BY Zenon, <1>6, <2>2, <3>2, <3>3, <3>4 DEF Handle
  <2> QED BY Zenon, <1>1, <1>3, <1>6, <2>1, <2>2, SlotStep
<1> QED BY <1>5, <1>6

(* write files the open file in its entry.                                     *)
LEMMA WriteDirentStep ==
  ASSUME IInv, WriteDirent
  PROVE  IInv'
<1>0. /\ op.pc = "dirent" /\ op' = Idle /\ UNCHANGED <<fat, fsi, dirc, mounted, alloc, torn>>
      /\ h' = [h EXCEPT !.dirty = 1]
      /\ \/ Accepted /\ slots' = [slots EXCEPT ![h.at].first = h.first, ![h.at].size = h.size]
         \/ Refused /\ slots' = slots
  BY DEF WriteDirent, Return
<1>1. Types /\ Handle /\ h \in FileHandle /\ IsOpen
  BY <1>0, Running, CallOf DEF Types, Where
<1>2. h'.at = h.at /\ h'.first = h.first /\ h'.size = h.size /\ h' \in FileHandle
  BY <1>0, <1>1 DEF FileHandle
<1>3. ~(h.first = 0 /\ slots[h.at].first # 0)
  BY <1>0, <1>1 DEF Handle
<1>4. torn' = torn /\ torn' \in BOOLEAN
  BY <1>0, <1>1 DEF Types
<1>5. op.pc \in {"dirent", "commit"}
  BY <1>0
<1> QED BY <1>0, <1>2, <1>3, <1>4, <1>5, FileStep

(* truncate files the open file in its entry.                                  *)
LEMMA TruncCommitStep ==
  ASSUME IInv, TruncCommit
  PROVE  IInv'
<1>0. op.pc = "commit" /\ op' = Idle /\ UNCHANGED <<fat, fsi, dirc, mounted, alloc>>
  BY DEF TruncCommit, Return
<1>1. Types /\ h \in FileHandle /\ h.off \in Length /\ h.size \in Length
  BY Zenon, <1>0, Running, HandleFacts DEF Types
<1>5. op.pc \in {"dirent", "commit"}
  BY <1>0
<1>2. ASSUME Accepted, slots' = [slots EXCEPT ![h.at].first = h.first, ![h.at].size = h.size],
             h' = [h EXCEPT !.dirty = 1, !.off = IF h.off > h.size THEN h.size ELSE h.off],
             torn' = torn
      PROVE  IInv'
  <2>1. h'.at = h.at /\ h'.first = h.first /\ h'.size = h.size /\ h' \in FileHandle
    <3>1. (IF h.off > h.size THEN h.size ELSE h.off) \in Length
      BY <1>1
    <3>2. ASSUME NEW o \in Length, h' = [h EXCEPT !.dirty = 1, !.off = o]
          PROVE  h'.at = h.at /\ h'.first = h.first /\ h'.size = h.size /\ h' \in FileHandle
      <4>1. h \in FileHandle /\ 1 \in 0 .. 1
        BY <1>1
      <4> QED BY Zenon, <3>2, <4>1 DEF FileHandle
    <3> QED BY Zenon, <1>2, <3>1, <3>2
  <2> QED BY <1>0, <1>2, <1>5, <2>1, FileStep
<1>3. ASSUME Refused, torn' = (torn \/ (h.first = 0 /\ slots[h.at].first # 0)), slots' = slots, h' = h
      PROVE  IInv'
  <2>1. torn' \in BOOLEAN /\ (torn' \/ ~(h.first = 0 /\ slots[h.at].first # 0))
    BY Zenon, <1>3
  <2>2. h'.at = h.at /\ h'.first = h.first /\ h'.size = h.size /\ h' \in FileHandle
    BY Zenon, <1>1, <1>3
  <2> QED BY Zenon, <1>0, <1>3, <1>5, <2>1, <2>2, FileStep
<1> QED BY <1>2, <1>3 DEF TruncCommit

(* A slot that held no entry is filled with entry e.                           *)
LEMMA Filled ==
  ASSUME Types, Lengths, op.at \in DirSlots, slots[op.at].kind \notin Live,
         NEW e \in Entry, e.size > 0 => e.first # 0, slots' = [slots EXCEPT ![op.at] = e]
  PROVE  /\ TypeSlots' /\ \A s \in Slot : slots'[s] = IF s = op.at THEN e ELSE slots[s]
         /\ \A s \in Slot : slots'[s].size > 0 => slots'[s].first # 0
         /\ \A s \in DirSlots : slots[s].kind \in Live => slots'[s] = slots[s] /\ s # op.at
<1>1. op.at \in Slot /\ DirSlots \subseteq Slot
  BY Zenon DEF DirSlots
<1>2. \A s \in Slot : slots'[s] = IF s = op.at THEN e ELSE slots[s]
  BY Zenon, <1>1 DEF Types
<1>3. TypeSlots'
  BY Zenon, <1>1 DEF Types, TypeSlots
<1>4. \A s \in Slot : slots'[s].size > 0 => slots'[s].first # 0
  BY Zenon, <1>2 DEF Lengths
<1>5. ASSUME NEW s \in DirSlots, slots[s].kind \in Live PROVE slots'[s] = slots[s] /\ s # op.at
  BY Zenon, <1>1, <1>2, <1>5
<1> QED BY Zenon, <1>2, <1>3, <1>4, <1>5

(* The reserved slot is about to be filled.                                    *)
LEMMA InsertFacts ==
  ASSUME IInv, Insert
  PROVE  /\ op.pc = "insert" /\ UNCHANGED <<fat, fsi, dirc, mounted, alloc, torn>>
         /\ Types /\ Chained /\ Directory /\ Handle /\ Held /\ Where /\ mounted /\ ~torn /\ Lengths
         /\ Calm /\ op \in Call /\ ~Beheaded /\ op.pc # "commit" /\ op.pc # "idle"
         /\ op.call \in {"create", "rename", "mkdir"} /\ torn' \in BOOLEAN
         /\ op.at \in DirSlots /\ slots[op.at].kind \notin Live
         /\ Entries = {s \in DirSlots : slots[s].kind \in Live}
<1>1. op.pc = "insert" /\ UNCHANGED <<fat, fsi, dirc, mounted, alloc, torn>>
  BY DEF Insert
<1>2. /\ Types /\ Chained /\ Directory /\ Handle /\ Held /\ Where /\ mounted /\ ~torn /\ Lengths
      /\ op.call \in {"create", "rename", "mkdir"}
  BY Zenon, <1>1, Running, CallOf
<1>3. Calm /\ ~Beheaded /\ Entries = {s \in DirSlots : slots[s].kind \in Live}
  BY <1>1, NotExposed DEF Calm, Beheaded
<1>4. op \in Call /\ torn' \in BOOLEAN
  BY <1>1, <1>2 DEF Types
<1>5. op.at \in DirSlots /\ slots[op.at].kind \notin Live
  BY Zenon, <1>1, <1>2 DEF Held, Target
<1> QED BY Zenon, <1>1, <1>2, <1>3, <1>4, <1>5

(* The new entry is refused.                                                   *)
LEMMA InsertRefused ==
  ASSUME IInv, Insert, Refused, slots' = slots, h' = h,
         op' = IF op.call = "mkdir" THEN [op EXCEPT !.pc = "undo"] ELSE Idle
  PROVE  IInv'
<1>1. /\ op.pc = "insert" /\ UNCHANGED <<fat, fsi, dirc, mounted, alloc, torn>>
      /\ Types /\ Chained /\ Directory /\ Handle /\ Held /\ Where /\ mounted /\ ~torn /\ Lengths
      /\ Calm /\ op \in Call /\ ~Beheaded /\ op.pc # "commit" /\ op.pc # "idle"
      /\ op.call \in {"create", "rename", "mkdir"} /\ torn' \in BOOLEAN
  BY InsertFacts
<1>2. Kept
  BY <1>1, CalmKept
<1>3. Chained' /\ Directory' /\ \A e, x : Unled(e, x) => Unled(e, x)'
  BY <1>1, <1>2, SameTable
<1>4. Handle'
  BY <1>1, <1>3, HandleKept
<1>5. TypeSlots' /\ Lengths' /\ h' \in FileHandle
  BY <1>1, LengthsKept DEF Types, TypeSlots
<1>6. op' \in Call /\ Where' /\ Counts' /\ Held'
  <2>1. CASE op.call # "mkdir"
    BY <2>1, Returned
  <2>2. CASE op.call = "mkdir"
    <3>1. /\ op'.call = op.call /\ op'.pc = "undo" /\ op'.old = op.old /\ op'.d = op.d
          /\ op' \in Call
      BY <1>1, <2>2 DEF Call, Steps
    <3>2. Where'
      BY Zenon, <1>1, <3>1, NamedCall
    <3>3. Counts'
      BY <3>1 DEF Counts
    <3>4. op.d \in Cluster /\ fat[op.d] = EOC /\ Unled(op.d, NoSlot) /\ (IsOpen => h.first # op.d)
      BY <1>1, <2>2 DEF Held, NewCluster
    <3>5. NewCluster'
      BY Zenon, <1>1, <1>3, <3>1, <3>4 DEF NewCluster, IsOpen
    <3>6. Blank' /\ Target' /\ Place' /\ Head'
      BY Zenon, <3>1 DEF Blank, Target, Place, Head
    <3> QED BY <3>1, <3>2, <3>3, <3>5, <3>6 DEF Held
  <2> QED BY <2>1, <2>2
<1> QED BY Zenon, <1>1, <1>3, <1>4, <1>5, <1>6, SlotStep

(* The new entry is written, whatever it leads to.                             *)
LEMMA InsertAccepted ==
  ASSUME IInv, Insert, Accepted, NEW e \in Entry, e.kind \in Live, e.size > 0 => e.first # 0,
         slots' = [slots EXCEPT ![op.at] = e], h' \in FileHandle, op' \in Call, Where', Counts', Held',
         ~IsOpen' => h' = Closed, h'.size > 0 => h'.first # 0,
         e.first # 0 => /\ e.first \in Cluster /\ e.first # Root /\ fat[e.first] # Free
                        /\ \A p \in Cluster : fat[p] # e.first
                        /\ \A s \in Entries' : s # op.at => slots'[s].first # e.first,
         (\A c, x : c # e.first /\ Unled(c, x) => Unled(c, x)') => Handle'
  PROVE  IInv'
<1>1. /\ UNCHANGED <<fat, fsi, dirc, mounted, alloc, torn>>
      /\ Types /\ Chained /\ Directory /\ mounted /\ ~torn /\ Lengths /\ torn' \in BOOLEAN
      /\ op.at \in DirSlots /\ slots[op.at].kind \notin Live
      /\ Entries = {s \in DirSlots : slots[s].kind \in Live}
  BY Zenon, InsertFacts
<1>2. /\ TypeSlots' /\ \A s \in Slot : slots'[s] = IF s = op.at THEN e ELSE slots[s]
      /\ \A s \in Slot : slots'[s].size > 0 => slots'[s].first # 0
  BY Zenon, <1>1, Filled
<1>3. Lengths'
  BY Zenon, <1>2 DEF Lengths
<1>4. ASSUME NEW x, NEW c, x = op.at, c = e.first
      PROVE  Chained' /\ Directory' /\ \A d, y : d # c /\ Unled(d, y) => Unled(d, y)'
  <2>1. c # 0 => /\ c \in Cluster /\ c # Root /\ fat[c] # Free /\ \A p \in Cluster : fat[p] # c
                 /\ \A s \in Entries' : s # x => slots'[s].first # c
    BY Zenon, <1>4
  <2>2. \A s \in Entries' : s \in DirSlots /\ s \in Slot /\ slots'[s].kind \in Live
    BY Zenon, <1>1 DEF Entries, DirSlots
  <2>3. \A s \in Entries' : \/ slots'[s].first = 0
                            \/ s = x /\ slots'[s].first = c
                            \/ s \in Entries /\ slots'[s].first = slots[s].first
    BY Zenon, <1>1, <1>2, <1>4, <2>2
  <2>4. Chained /\ Directory /\ fat' = fat /\ dirc' = dirc
    BY Zenon, <1>1
  <2>5. Chained' /\ Directory' /\ \A d, y : d # c /\ Unled(d, y) => Unled(d, y)'
    BY SMTT(60), <2>1, <2>3, <2>4, Refile
  <2> QED BY Zenon, <2>5
<1> QED BY Zenon, <1>1, <1>2, <1>3, <1>4, SlotStep

(* create: the new entry leads nowhere.                                        *)
LEMMA InsertCreate ==
  ASSUME IInv, Insert, Accepted, op.call = "create",
         slots' = [slots EXCEPT ![op.at] = [kind |-> "file", name |-> op.name, first |-> 0, size |-> 0]],
         h' = [Closed EXCEPT !.at = op.at], op' = Idle
  PROVE  IInv'
<1> DEFINE e == [kind |-> "file", name |-> op.name, first |-> 0, size |-> 0]
<1>1. /\ op.pc = "insert" /\ dirc' = dirc /\ Types /\ op \in Call /\ Lengths /\ op.at \in DirSlots
      /\ op.at \in Slot /\ slots[op.at].kind \notin Live
  BY Zenon, InsertFacts DEF DirSlots
<1>2. e \in Entry /\ e.kind \in Live /\ e.first = 0 /\ e.size = 0 /\ e.kind = "file"
  <2>1. op.name \in Names \cup {NoName} /\ 0 \in Length /\ 0 \in MaybeCluster
    BY <1>1, ConstantFacts, FatAssumption DEF Call, Length
  <2> QED BY Zenon, <2>1 DEF Entry, Live
<1> HIDE DEF e
<1>3. slots' = [slots EXCEPT ![op.at] = e]
  BY DEF e
<1>4. op' \in Call /\ Where' /\ Counts' /\ Held'
  BY Zenon, Returned
<1>5. h'.at = op.at /\ h'.first = 0 /\ h'.size = 0 /\ h' \in FileHandle /\ IsOpen'
  <2>1. op.at \in MaybeSlot /\ op.at # NoSlot
    BY <1>1, ConstantFacts
  <2> QED BY Zenon, <2>1, ConstantFacts, FatAssumption DEF Closed, FileHandle, IsOpen
<1>6. slots'[op.at] = e
  BY Zenon, <1>1, <1>3 DEF Types
<1>7. Handle'
  BY Zenon, <1>1, <1>2, <1>5, <1>6 DEF Handle, DirSlots
<1>8. (e.size > 0 => e.first # 0) /\ (h'.size > 0 => h'.first # 0)
  BY <1>2, <1>5
<1> QED BY Zenon, <1>2, <1>3, <1>4, <1>5, <1>7, <1>8, InsertAccepted

(* mkdir: the new entry leads to the new cluster.                              *)
LEMMA InsertMkdir ==
  ASSUME IInv, Insert, Accepted, op.call = "mkdir", h' = h, op' = Idle,
         slots' = [slots EXCEPT ![op.at] = [kind |-> "dir", name |-> op.name, first |-> op.d, size |-> 0]]
  PROVE  IInv'
<1> DEFINE e == [kind |-> "dir", name |-> op.name, first |-> op.d, size |-> 0]
<1>1. /\ op.pc = "insert" /\ dirc' = dirc /\ fat' = fat /\ Types /\ op \in Call /\ Lengths
      /\ op.at \in DirSlots /\ slots[op.at].kind \notin Live /\ Held /\ Handle /\ ~Beheaded
      /\ op.pc # "commit"
      /\ Entries = {s \in DirSlots : slots[s].kind \in Live}
  BY Zenon, InsertFacts
<1>2. op.d \in Cluster /\ fat[op.d] # Free /\ Unled(op.d, NoSlot) /\ (IsOpen => h.first # op.d)
  BY Zenon, <1>1, ConstantFacts DEF Held, NewCluster
<1>3. e \in Entry /\ e.kind \in Live /\ e.first = op.d /\ e.size = 0
  <2>1. op.name \in Names \cup {NoName} /\ 0 \in Length /\ op.d \in MaybeCluster
    BY <1>1, FatAssumption DEF Call, Length
  <2> QED BY Zenon, <2>1 DEF Entry, Live
<1> HIDE DEF e
<1>4. slots' = [slots EXCEPT ![op.at] = e]
  BY Zenon DEF e
<1>5. op' \in Call /\ Where' /\ Counts' /\ Held' /\ Entries' = {s \in DirSlots' : slots'[s].kind \in Live}
  BY Zenon, Returned
<1>6. /\ \A s \in Slot : slots'[s] = IF s = op.at THEN e ELSE slots[s]
      /\ \A s \in DirSlots : slots[s].kind \in Live => slots'[s] = slots[s] /\ s # op.at
  <2>1. e.size > 0 => e.first # 0
    BY <1>3
  <2> QED BY Zenon, <1>1, <1>3, <1>4, <2>1, Filled
<1>7. \A s \in Entries' : s # op.at => s \in Entries /\ slots'[s].first = slots[s].first /\ s # NoSlot
  <2>1. ASSUME NEW s \in Entries', s # op.at PROVE s \in DirSlots /\ s \in Slot /\ slots'[s].kind \in Live
    BY Zenon, <1>1, <1>5, <2>1 DEF DirSlots
  <2>2. ASSUME NEW s \in Entries', s # op.at PROVE slots'[s] = slots[s]
    BY Zenon, <1>6, <2>1, <2>2
  <2> QED BY Zenon, <1>1, <2>1, <2>2, ConstantFacts
<1>8. /\ e.first \in Cluster /\ e.first # Root /\ fat[e.first] # Free
      /\ \A p \in Cluster : fat[p] # e.first
      /\ \A s \in Entries' : s # op.at => slots'[s].first # e.first
  BY Zenon, <1>2, <1>3, <1>7 DEF Unled
<1>9. ASSUME \A c, x : c # e.first /\ Unled(c, x) => Unled(c, x)' PROVE Handle'
  <2>1. CASE IsOpen
    <3>1. slots'[h.at] = slots[h.at]
      BY Zenon, <1>1, <1>6, <2>1 DEF Handle, Live
    <3> QED BY Zenon, <1>1, <1>2, <1>3, <1>9, <2>1, <3>1, HandleKept
  <2>2. CASE ~IsOpen
    <3>1. ~IsOpen'
      BY Zenon, <2>2 DEF IsOpen
    <3> QED BY Zenon, <3>1 DEF Handle
  <2> QED BY Zenon, <2>1, <2>2
<1>10. h' \in FileHandle /\ (~IsOpen' => h' = Closed) /\ (h'.size > 0 => h'.first # 0)
  BY Zenon, <1>1 DEF Types, Lengths, IsOpen
<1>11. e.size > 0 => e.first # 0
  BY <1>3
<1> QED BY Zenon, <1>3, <1>4, <1>5, <1>8, <1>9, <1>10, <1>11, InsertAccepted

(* rename: the new entry leads where the old one does.                         *)
LEMMA InsertRename ==
  ASSUME IInv, Insert, Accepted, op.call = "rename", h' = h,
         op' = [op EXCEPT !.at = op.old, !.pc = "erase"],
         slots' = [slots EXCEPT ![op.at] = [slots[op.old] EXCEPT !.name = op.name]]
  PROVE  IInv'
<1> DEFINE e == [slots[op.old] EXCEPT !.name = op.name]
<1>1. /\ op.pc = "insert" /\ dirc' = dirc /\ fat' = fat /\ Types /\ op \in Call /\ Lengths /\ Chained
      /\ op.at \in DirSlots /\ slots[op.at].kind \notin Live /\ Held /\ Handle /\ ~Beheaded /\ Where
      /\ op.pc # "commit" /\ mounted /\ mounted' /\ ~torn /\ ~torn'
      /\ Entries = {s \in DirSlots : slots[s].kind \in Live}
  BY InsertFacts
<1>2. /\ op.old \in DirSlots /\ op.old \in Slot /\ slots[op.old].kind \in Live /\ NotOpen(op.old)
      /\ op.old \in Entries /\ op.old # op.at
  BY Zenon, <1>1 DEF Where, DirSlots
<1>3. /\ e \in Entry /\ e.kind = slots[op.old].kind /\ e.first = slots[op.old].first
      /\ e.size = slots[op.old].size
  <2>1. op.name \in Names \cup {NoName} /\ slots[op.old] \in Entry
    BY Zenon, <1>1, <1>2 DEF Call, Types
  <2> QED BY <2>1 DEF Entry
<1> HIDE DEF e
<1>4. slots' = [slots EXCEPT ![op.at] = e] /\ (e.size > 0 => e.first # 0)
  BY Zenon, <1>1, <1>2, <1>3 DEF e, Lengths
<1>5. /\ op'.call = "rename" /\ op'.pc = "erase" /\ op'.at = op.old /\ op'.old = op.old /\ op' \in Call
  BY Zenon, <1>1 DEF Call, Steps
<1>6. /\ \A s \in Slot : slots'[s] = IF s = op.at THEN e ELSE slots[s]
      /\ \A s \in DirSlots : slots[s].kind \in Live => slots'[s] = slots[s] /\ s # op.at
  BY Zenon, <1>1, <1>3, <1>4, Filled
<1>7. Where'
  <2>1. op'.old \in DirSlots' /\ slots'[op'.old].kind \in Live /\ NotOpen(op.old)'
    BY Zenon, <1>1, <1>2, <1>5, <1>6 DEF DirSlots, NotOpen
  <2> QED BY <1>1, <1>5, <2>1 DEF Where, StepsOf
<1>8. Counts' /\ Held'
  BY Zenon, <1>5 DEF Counts, Held, NewCluster, Blank, Target, Place, Head
<1>9. Entries' \subseteq {s \in DirSlots : slots'[s].kind \in Live}
      /\ (e.first # 0 => op.old \notin Entries')
  <2>1. slots'[op.old].first = e.first
    BY Zenon, <1>2, <1>3, <1>6
  <2> QED BY Zenon, <1>1, <1>5, <2>1 DEF Entries, Exposed, DirSlots
<1>10. \A s \in Entries' : s # op.at => s \in Entries /\ slots'[s] = slots[s]
  BY <1>1, <1>6, <1>9 DEF DirSlots
<1>11. e.first # 0 => /\ e.first \in Cluster /\ e.first # Root /\ fat[e.first] # Free
                      /\ \A p \in Cluster : fat[p] # e.first
                      /\ \A s \in Entries' : s # op.at => slots'[s].first # e.first
  <2>1. ASSUME e.first # 0 PROVE Unled(slots[op.old].first, op.old) /\ fat[slots[op.old].first] # Free
    BY Zenon, <1>1, <1>2, <1>3, <2>1 DEF Chained
  <2> QED BY Zenon, <1>3, <1>9, <1>10, <2>1 DEF Unled
<1>12. ASSUME \A c, x : c # e.first /\ Unled(c, x) => Unled(c, x)' PROVE Handle'
  <2>1. CASE IsOpen
    <3>1. slots'[h.at] = slots[h.at]
      BY Zenon, <1>1, <1>6, <2>1 DEF Handle, Live
    <3>2. h.first # 0 => Unled(h.first, h.at)
      BY Zenon, <1>1, <2>1 DEF Handle
    <3>3. h.first # 0 => h.first # e.first
      BY Zenon, <1>2, <1>3, <3>2 DEF Unled, NotOpen
    <3>4. \A c, x : c = h.first /\ Unled(c, x) => c # 0
      BY FatAssumption DEF Unled
    <3> QED BY Zenon, <1>1, <1>12, <2>1, <3>1, <3>3, <3>4, HandleKept
  <2>2. CASE ~IsOpen
    <3>1. ~IsOpen'
      BY <2>2 DEF IsOpen
    <3> QED BY <3>1 DEF Handle
  <2> QED BY <2>1, <2>2
<1>13. h' \in FileHandle /\ (~IsOpen' => h' = Closed) /\ (h'.size > 0 => h'.first # 0)
  BY <1>1 DEF Types, Lengths, IsOpen
<1>14. e.kind \in Live
  BY Zenon, <1>2, <1>3
<1> QED BY Zenon, <1>3, <1>4, <1>5, <1>7, <1>8, <1>11, <1>12, <1>13, <1>14, InsertAccepted

(* The new entry of create, mkdir and rename.                                  *)
LEMMA InsertStep ==
  ASSUME IInv, Insert
  PROVE  IInv'
<1>1. op.call \in {"create", "rename", "mkdir"}
  BY Zenon, InsertFacts
<1>2. CASE Refused /\ slots' = slots /\ h' = h /\ op' = IF op.call = "mkdir" THEN [op EXCEPT !.pc = "undo"] ELSE Idle
  BY <1>2, InsertRefused
<1>3. CASE ~(Refused /\ slots' = slots /\ h' = h /\ op' = IF op.call = "mkdir" THEN [op EXCEPT !.pc = "undo"] ELSE Idle)
  <2>1. CASE op.call = "create"
    <3>1. /\ Accepted /\ h' = [Closed EXCEPT !.at = op.at] /\ op' = Idle
          /\ slots' = [slots EXCEPT ![op.at] = [kind |-> "file", name |-> op.name, first |-> 0, size |-> 0]]
      BY <1>3, <2>1 DEF Insert
    <3> QED BY <2>1, <3>1, InsertCreate
  <2>2. CASE op.call = "mkdir"
    <3>1. /\ Accepted /\ h' = h /\ op' = Idle
          /\ slots' = [slots EXCEPT ![op.at] = [kind |-> "dir", name |-> op.name, first |-> op.d, size |-> 0]]
      BY Zenon, <1>3, <2>2 DEF Insert
    <3> QED BY Zenon, <2>2, <3>1, InsertMkdir
  <2>3. CASE op.call = "rename"
    <3>1. /\ Accepted /\ h' = h /\ op' = [op EXCEPT !.at = op.old, !.pc = "erase"]
          /\ slots' = [slots EXCEPT ![op.at] = [slots[op.old] EXCEPT !.name = op.name]]
      BY Zenon, <1>3, <2>3 DEF Insert
    <3> QED BY Zenon, <2>3, <3>1, InsertRename
  <2> QED BY Zenon, <1>1, <2>1, <2>2, <2>3
<1> QED BY <1>2, <1>3

--------------------------------------------------------------------------------
(* The same steps leave every cluster accounted for.                           *)

(* A chain is freed from its head: the next cluster is held.                   *)
LEMMA FreeChainAccounted ==
  ASSUME IInv, Accounted, FreeChain, faults' = 0
  PROVE  Accounted'
<1>0. op.pc = "free" /\ slots' = slots /\ dirc' = dirc
  BY DEF FreeChain
<1>1. /\ ~Taken /\ Types /\ TypeNumbers /\ op \in Call /\ Held /\ Handle /\ Where /\ Chained
      /\ h \in FileHandle /\ op.call \in {"open", "trunc", "unlink", "rmdir"}
  BY Zenon, <1>0, Running, CallOf, TypeParts DEF Taken, Types
<1>2. ~Refused
  BY Zenon, <1>1, FaultCount
<1>3. /\ fat' = [fat EXCEPT ![op.c] = Free]
      /\ \/ /\ fat[op.c] \in Cluster /\ op' = [op EXCEPT !.c = fat[op.c]] /\ h' = h
         \/ /\ fat[op.c] \notin Cluster /\ op' = [op EXCEPT !.c = 0, !.pc = AfterFree]
            /\ h' = IF op.call = "trunc"
                    THEN [h EXCEPT !.size = op.n, !.first = IF op.n = 0 THEN 0 ELSE h.first]
                    ELSE h
  BY Zenon, <1>2 DEF FreeChain, FatSet, FatSetFails
<1>4. /\ op.c \in Cluster /\ fat[op.c] # Free /\ \A p \in Cluster : fat[p] # op.c
      /\ \A s \in Entries : s # op.at => slots[s].first # op.c
      /\ FreesAll /\ slots[op.at].first # 0 => \A p \in Cluster : fat[p] # slots[op.at].first
      /\ op.call = "trunc" => IsOpen /\ op.at = h.at /\ h.first # 0
  BY Zenon, <1>0, <1>1 DEF Held, Head, Unled, Where
<1>5. IsOpen => Agree
  BY Zenon, <1>0 DEF Accounted, Filed, Growing
<1>6. /\ op'.call = op.call /\ op'.at = op.at /\ op'.n = op.n
      /\ fat[op.c] \in Cluster => op'.pc = "free" /\ op'.c = fat[op.c] /\ h' = h
      /\ fat[op.c] \notin Cluster => op'.pc = AfterFree
  <2>1. CASE fat[op.c] \in Cluster
    BY Zenon, <1>0, <1>1, <1>3, <2>1 DEF Call
  <2>2. CASE fat[op.c] \notin Cluster
    BY Zenon, <1>1, <1>3, <2>2 DEF Call
  <2> QED BY Zenon, <2>1, <2>2
<1>7. \A e \in Cluster : fat'[e] = IF e = op.c THEN Free ELSE fat[e]
  BY Zenon, <1>1, <1>3 DEF Types
<1>8. h'.at = h.at /\ (op.call # "trunc" => h' = h)
      /\ (op.call = "trunc" /\ fat[op.c] \notin Cluster
            => h'.size = op.n /\ h'.first = IF op.n = 0 THEN 0 ELSE h.first)
  BY Zenon, <1>1, <1>3 DEF FileHandle
<1>9. ASSUME NEW s \in Entries, slots[s].first \in Cluster, slots[s].first # op.c
      PROVE  s \in Entries'
  <2>1. s \in DirSlots' /\ slots'[s].kind \in Live
    BY Zenon, <1>0 DEF Entries, DirSlots
  <2>2. CASE s # op.at
    BY Zenon, <1>6, <2>1, <2>2 DEF Entries
  <2>3. CASE s = op.at
    <3>1. ~Exposed
      BY Zenon, <2>3 DEF Entries
    <3>2. ~FreesAll
      BY Zenon, <1>0, <1>9, <2>3, <3>1 DEF Exposed, Headless
    <3>3. op.call = "trunc" /\ op.n # 0 /\ ~FreesAll'
      BY Zenon, <1>6, <3>2 DEF FreesAll
    <3>4. h'.first # 0
      BY Zenon, <1>4, <1>6, <1>8, <3>3
    <3>5. op'.pc \in {"free", "commit"}
      BY Zenon, <1>6, <3>3 DEF AfterFree
    <3>6. ~Exposed'
      BY Zenon, <3>3, <3>4, <3>5 DEF Exposed
    <3> QED BY Zenon, <2>1, <3>6 DEF Entries
  <2> QED BY Zenon, <2>2, <2>3
<1>10. ASSUME NEW e \in Cluster, e # op.c, Led(e) PROVE Led(e)' \/ Holding(e)'
  <2>1. CASE e = Root
    BY Zenon, <2>1 DEF Led
  <2>2. ASSUME NEW p \in Cluster, fat[p] = e PROVE Led(e)' \/ Holding(e)'
    <3>1. CASE p = op.c
      BY Zenon, <1>6, <2>2, <3>1 DEF Holding
    <3>2. CASE p # op.c
      BY Zenon, <1>7, <2>2, <3>2 DEF Led
    <3> QED BY Zenon, <3>1, <3>2
  <2>3. ASSUME NEW s \in Entries, slots[s].first = e PROVE Led(e)'
    <3>1. s \in Entries'
      BY Zenon, <1>9, <1>10, <2>3
    <3> QED BY Zenon, <1>0, <2>3, <3>1 DEF Led
  <2> QED BY Zenon, <1>10, <2>1, <2>2, <2>3 DEF Led
<1>11. ASSUME NEW e \in Cluster, e # op.c, fat[e] # Free, Holding(e) PROVE Holding(e)'
  <2>1. IsOpen /\ e = h.first
    BY Zenon, <1>1, <1>11 DEF Holding
  <2>2. CASE h'.first = h.first
    BY Zenon, <1>8, <2>1, <2>2 DEF Holding, IsOpen
  <2>3. CASE h'.first # h.first
    <3>1. op.call = "trunc" /\ op.n = 0 /\ fat[op.c] \notin Cluster
      BY Zenon, <1>6, <1>8, <2>3
    <3> QED BY Zenon, <1>0, <1>11, <2>1, <3>1 DEF Accounted, AtEnd, Beheaded
  <2> QED BY Zenon, <2>2, <2>3
<1>12. Reached'
  <2>1. \A e \in Cluster : fat'[e] # Free => e # op.c /\ fat[e] # Free
    BY Zenon, <1>7
  <2> QED BY Zenon, <1>10, <1>11, <2>1 DEF Accounted, Reached
<1>13. Files'
  <2> SUFFICES ASSUME NEW s \in Entries', s \notin Entries, slots[s].first # 0 PROVE FALSE
    BY Zenon, <1>0 DEF Accounted, Files
  <2>1. s = op.at /\ Exposed
    BY Zenon, <1>0 DEF Entries, DirSlots
  <2>2. FreesAll /\ Headless /\ FreesAll'
    BY Zenon, <1>0, <1>6, <2>1 DEF Exposed, FreesAll
  <2>3. ~Exposed'
    BY Zenon, <1>6, <2>1 DEF Entries
  <2>4. CASE fat[op.c] \in Cluster
    <3>1. fat[op.c] # slots[op.at].first
      BY Zenon, <1>4, <2>1, <2>2
    <3> QED BY Zenon, <1>0, <1>6, <2>2, <2>3, <2>4, <3>1 DEF Exposed, Headless
  <2>5. CASE fat[op.c] \notin Cluster
    <3>1. op'.pc = AfterFree /\ op'.at = op.at
      BY Zenon, <1>6, <2>5
    <3>2. op.call = "trunc" => h'.first = 0
      BY Zenon, <1>8, <2>2, <2>5 DEF FreesAll
    <3> QED BY <1>0, <1>1, <2>1, <2>3, <3>1, <3>2 DEF Exposed, AfterFree
  <2> QED BY <2>4, <2>5
<1>14. AtEnd'
  <2>1. op'.pc # "link"
    BY <1>6 DEF AfterFree
  <2>2. ASSUME Beheaded' PROVE fat'[h'.first] = Free
    <3>1. op.call = "trunc" /\ op.n = 0 /\ h' = h
      BY <1>6, <2>2 DEF Beheaded, AfterFree
    <3>2. h.first \in Cluster
      BY Zenon, <1>1, <1>4, <3>1, HandleFacts DEF MaybeCluster
    <3>3. h.first = op.c \/ fat[h.first] = Free
      BY Zenon, <1>0, <3>1 DEF Accounted, AtEnd, Beheaded
    <3> QED BY Zenon, <1>7, <3>1, <3>2, <3>3
  <2> QED BY Zenon, <2>1, <2>2 DEF AtEnd
<1>15. Filed'
  <2>1. CASE h' = h /\ op'.pc \notin Growing
    BY Zenon, <1>0, <2>1, FiledKept DEF Accounted, Growing
  <2>2. CASE op.call = "trunc" /\ fat[op.c] \notin Cluster
    <3>1. op'.pc = "commit" /\ IsOpen /\ Agree
      BY Zenon, <1>4, <1>5, <1>6, <2>2 DEF AfterFree
    <3> QED BY Zenon, <1>0, <1>8, <2>2, <3>1 DEF Filed, Agree, Growing
  <2>3. (h' = h /\ op'.pc \notin Growing) \/ (op.call = "trunc" /\ fat[op.c] \notin Cluster)
    BY <1>1, <1>6, <1>8 DEF AfterFree, Growing
  <2> QED BY Zenon, <2>1, <2>2, <2>3
<1> QED BY Zenon, <1>12, <1>13, <1>14, <1>15 DEF Accounted

(* A directory slot is written.                                                *)
LEMMA SlotReached ==
  ASSUME Accounted, op.pc # "free", fat' = fat,
         \A s \in Entries : slots[s].first \in Cluster => \E t \in Entries' : slots'[t].first = slots[s].first,
         \A c : Taken /\ c = op.d => Led(c)', IsOpen => IsOpen' /\ h'.first = h.first
  PROVE  Reached'
<1>1. ASSUME NEW c \in Cluster, Led(c) PROVE Led(c)'
  BY Zenon, <1>1 DEF Led
<1>2. ASSUME NEW c \in Cluster, Holding(c) PROVE Led(c)' \/ Holding(c)'
  <2>1. CASE Taken /\ c = op.d
    BY Zenon, <2>1
  <2>2. CASE IsOpen /\ c = h.first
    BY Zenon, <2>2 DEF Holding
  <2> QED BY Zenon, <1>2, <2>1, <2>2 DEF Holding
<1> QED BY Zenon, <1>1, <1>2 DEF Accounted, Reached

(* The entry is gone, or of no length.                                         *)
LEMMA EraseAccounted ==
  ASSUME IInv, Accounted, Erase \/ TruncateExisting, faults' = 0
  PROVE  Accounted'
<1>0. op.pc \in {"erase", "zero"} /\ op' = Idle /\ fat' = fat /\ dirc' = dirc
  BY DEF Erase, TruncateExisting, Return
<1>1. /\ ~Taken /\ Types /\ TypeNumbers /\ Where /\ Handle
      /\ op.pc = "zero" => op.call = "open"
      /\ op.pc = "erase" => op.call \in {"rename", "unlink", "rmdir"}
  BY Zenon, <1>0, Running, CallOf, TypeParts DEF Taken
<1>2. ~Refused
  BY Zenon, <1>1, FaultCount
<1>3. op'.pc = "idle" /\ Entries' = {s \in DirSlots' : slots'[s].kind \in Live}
  BY Zenon, <1>0, Returned DEF Idle
<1>4. /\ \A s \in Slot : s # op.at => slots'[s] = slots[s]
      /\ op.pc = "erase" => (op.at \in Slot => slots'[op.at] = Mark("gone")) /\ h' = h
      /\ op.pc = "zero" => /\ op.at \in Slot => slots'[op.at].first = 0
                           /\ h' = [Closed EXCEPT !.at = op.at]
  <2>1. CASE op.pc = "erase"
    <3>1. slots' = [slots EXCEPT ![op.at] = Mark("gone")] /\ h' = h
      BY Zenon, <1>2, <2>1 DEF Erase, TruncateExisting
    <3> QED BY Zenon, <1>1, <2>1, <3>1 DEF Types
  <2>2. CASE op.pc = "zero"
    <3>1. /\ slots' = [slots EXCEPT ![op.at].first = 0, ![op.at].size = 0]
          /\ h' = [Closed EXCEPT !.at = op.at]
      BY Zenon, <1>2, <2>2 DEF Erase, TruncateExisting
    <3>2. op.at \in Slot => slots[op.at] \in Entry
      BY Zenon, <1>1 DEF Types
    <3> QED BY Zenon, <1>1, <2>2, <3>1, <3>2 DEF Types, Entry
  <2> QED BY <1>0, <2>1, <2>2
<1>5. ASSUME NEW s \in Entries, slots[s].first \in Cluster
      PROVE  s \in Entries' /\ slots'[s].first = slots[s].first
  <2>1. s # op.at
    BY Zenon, <1>0, <1>5, FatAssumption DEF Entries, Exposed
  <2>2. s \in Slot /\ s \in DirSlots /\ slots[s].kind \in Live
    BY Zenon DEF Entries, DirSlots
  <2> QED BY Zenon, <1>0, <1>3, <1>4, <2>1, <2>2 DEF DirSlots
<1>6. IsOpen => IsOpen' /\ h' = h
  BY Zenon, <1>0, <1>1, <1>4 DEF Where, IsOpen
<1>7. Reached'
  BY Zenon, <1>0, <1>1, <1>5, <1>6, SlotReached
<1>8. Files'
  <2>1. ASSUME NEW s \in Entries', slots'[s].kind = "file", slots'[s].size = 0 PROVE slots'[s].first = 0
    <3>1. s \in Slot /\ s \in DirSlots
      BY <1>0, <1>3 DEF DirSlots
    <3>2. CASE s = op.at
      BY <1>0, <1>4, <2>1, <3>1, <3>2 DEF Mark
    <3>3. CASE s # op.at
      <4>1. s \in Entries
        BY Zenon, <1>3, <1>4, <3>1, <3>3 DEF Entries
      <4> QED BY Zenon, <1>4, <2>1, <3>1, <3>3, <4>1 DEF Accounted, Files
    <3> QED BY Zenon, <3>2, <3>3
  <2> QED BY Zenon, <2>1 DEF Files
<1>9. Filed'
  <2>1. CASE op.pc = "erase"
    <3>1. IsOpen => h.at # op.at /\ h.at \in Slot
      BY Zenon, <1>1, <2>1 DEF Where, NotOpen, Handle, DirSlots
    <3> QED BY Zenon, <1>3, <1>4, <2>1, <3>1, FiledKept DEF Accounted, Growing
  <2>2. CASE op.pc = "zero"
    <3>1. op.at \in Slot
      BY Zenon, <1>1, <2>2 DEF Where, DirSlots
    <3>2. h'.at = op.at /\ h'.first = 0
      BY Zenon, <1>4, <2>2 DEF Closed
    <3> QED BY Zenon, <1>3, <1>4, <2>2, <3>1, <3>2 DEF Filed, Agree, Growing
  <2> QED BY Zenon, <1>0, <2>1, <2>2
<1> QED BY Zenon, <1>3, <1>7, <1>8, <1>9 DEF Accounted, AtEnd, Beheaded

(* The entry of the open file is brought up to date.                           *)
LEMMA FileAccounted ==
  ASSUME IInv, Accounted, WriteDirent \/ TruncCommit, faults' = 0
  PROVE  Accounted'
<1>0. op.pc \in {"dirent", "commit"} /\ op' = Idle /\ fat' = fat /\ dirc' = dirc
  BY DEF WriteDirent, TruncCommit, Return
<1>1. /\ ~Taken /\ Types /\ TypeNumbers /\ Where /\ Handle /\ IsOpen /\ h \in FileHandle
      /\ op.pc = "commit" => op.at = h.at
  BY Zenon, <1>0, Running, CallOf, TypeParts DEF Taken, Where, Types
<1>2. ~Refused
  BY Zenon, <1>1, FaultCount
<1>3. op'.pc = "idle" /\ Entries' = {s \in DirSlots' : slots'[s].kind \in Live}
  BY Zenon, <1>0, Returned DEF Idle
<1>4. slots' = [slots EXCEPT ![h.at].first = h.first, ![h.at].size = h.size]
  BY <1>2 DEF WriteDirent, TruncCommit
<1>5. h'.at = h.at /\ h'.first = h.first /\ h'.size = h.size /\ IsOpen'
  BY Zenon, <1>1, <1>2 DEF WriteDirent, TruncCommit, FileHandle, IsOpen
<1>6. h.at \in Slot /\ h.at \in DirSlots /\ slots[h.at].kind = "file" /\ slots[h.at] \in Entry
  BY Zenon, <1>1 DEF Handle, DirSlots, Types
<1>7. /\ \A s \in Slot : s # h.at => slots'[s] = slots[s]
      /\ slots'[h.at].first = h.first /\ slots'[h.at].size = h.size /\ slots'[h.at].kind = "file"
  BY <1>1, <1>4, <1>6 DEF Types, Entry
<1>8. /\ h.size = 0 => h.first = 0
      /\ h.first # 0 => slots[h.at].first \in {0, h.first}
      /\ h.first = 0 /\ slots[h.at].first # 0 => h.at \notin Entries
  <2>1. CASE op.pc = "dirent"
    <3>1. h.size \in Nat /\ h.size > 0 /\ slots[h.at].first \in {0, h.first}
      <4>1. h.size > 0 /\ slots[h.at].first \in {0, h.first}
        BY Zenon, <1>1, <2>1 DEF Accounted, Filed
      <4>2. h.size \in Nat
        BY <1>1, HandleFacts, FatAssumption DEF Length
      <4> QED BY Zenon, <4>1, <4>2
    <3> QED BY <3>1
  <2>2. CASE op.pc = "commit"
    BY Zenon, <1>1, <2>2 DEF Accounted, Filed, Entries, Exposed
  <2> QED BY Zenon, <1>0, <2>1, <2>2
<1>9. ASSUME NEW s \in Entries, slots[s].first \in Cluster
      PROVE  s \in Entries' /\ slots'[s].first = slots[s].first
  <2>1. s \in Slot /\ s \in DirSlots /\ slots[s].kind \in Live
    BY Zenon DEF Entries, DirSlots
  <2>2. CASE s # h.at
    BY Zenon, <1>0, <1>3, <1>7, <2>1, <2>2 DEF DirSlots
  <2>3. CASE s = h.at
    <3>1. slots[h.at].first = h.first
      BY Zenon, <1>8, <1>9, <2>3, FatAssumption
    <3> QED BY Zenon, <1>0, <1>3, <1>7, <2>1, <2>3, <3>1 DEF DirSlots, Live
  <2> QED BY Zenon, <2>2, <2>3
<1>10. Reached'
  BY Zenon, <1>0, <1>1, <1>5, <1>9, SlotReached
<1>11. Files'
  <2>1. ASSUME NEW s \in Entries', slots'[s].kind = "file", slots'[s].size = 0 PROVE slots'[s].first = 0
    <3>1. s \in Slot /\ s \in DirSlots
      BY Zenon, <1>0, <1>3 DEF DirSlots
    <3>2. CASE s = h.at
      BY Zenon, <1>7, <1>8, <2>1, <3>2
    <3>3. CASE s # h.at
      <4>1. s \in Entries
        BY <1>0, <1>1, <1>3, <1>7, <3>1, <3>3 DEF Entries, Exposed
      <4> QED BY Zenon, <1>7, <2>1, <3>1, <3>3, <4>1 DEF Accounted, Files
    <3> QED BY <3>2, <3>3
  <2> QED BY Zenon, <2>1 DEF Files
<1>12. Filed'
  BY Zenon, <1>3, <1>5, <1>7, <1>8 DEF Filed, Agree, Growing
<1> QED BY Zenon, <1>3, <1>10, <1>11, <1>12 DEF Accounted, AtEnd, Beheaded

(* The new entry: of no length, leading to the new directory, or a second one  *)
(* that leads where the old one does.                                          *)
LEMMA InsertAccounted ==
  ASSUME IInv, Accounted, Insert, faults' = 0
  PROVE  Accounted'
<1>0. /\ op.pc = "insert" /\ fat' = fat /\ dirc' = dirc /\ Types /\ Handle /\ Where /\ op \in Call
      /\ op.call \in {"create", "rename", "mkdir"} /\ op.at \in DirSlots /\ op.at \in Slot
      /\ slots[op.at].kind \notin Live /\ Entries = {s \in DirSlots : slots[s].kind \in Live}
  BY Zenon, InsertFacts DEF DirSlots
<1>1. ~Refused
  BY Zenon, <1>0, TypeParts, FaultCount
<1>2. /\ op.call = "create" => /\ h' = [Closed EXCEPT !.at = op.at] /\ op' = Idle
                               /\ slots' = [slots EXCEPT ![op.at] =
                                    [kind |-> "file", name |-> op.name, first |-> 0, size |-> 0]]
      /\ op.call = "mkdir" => /\ h' = h /\ op' = Idle
                              /\ slots' = [slots EXCEPT ![op.at] =
                                   [kind |-> "dir", name |-> op.name, first |-> op.d, size |-> 0]]
      /\ op.call = "rename" => /\ h' = h /\ op' = [op EXCEPT !.at = op.old, !.pc = "erase"]
                               /\ slots' = [slots EXCEPT ![op.at] = [slots[op.old] EXCEPT !.name = op.name]]
  BY Zenon, <1>1 DEF Insert
<1>3. /\ \A s \in Slot : s # op.at => slots'[s] = slots[s]
      /\ op.call = "create" => slots'[op.at].kind = "file" /\ slots'[op.at].first = 0
      /\ op.call = "mkdir" => slots'[op.at].kind = "dir" /\ slots'[op.at].first = op.d
  BY <1>0, <1>2 DEF Types
<1>4. \A s \in Entries : s \in Slot /\ s # op.at /\ s \in DirSlots' /\ slots'[s] = slots[s] /\ slots[s].kind \in Live
  BY Zenon, <1>0, <1>3 DEF DirSlots
<1>5. op.at \in DirSlots'
  BY Zenon, <1>0 DEF DirSlots
<1>6. IsOpen => h.at \in Entries
  BY Zenon, <1>0 DEF Handle, Live
<1>7. CASE op.call \in {"create", "mkdir"}
  <2>1. op'.pc = "idle" /\ Entries' = {s \in DirSlots' : slots'[s].kind \in Live}
    BY <1>2, <1>7, Returned DEF Idle
  <2>2. /\ op.at \in Entries' /\ \A s \in Entries : s \in Entries' /\ slots'[s].first = slots[s].first
        /\ \A s \in Entries' : s # op.at => s \in Entries /\ slots'[s] = slots[s]
    BY Zenon, <1>0, <1>3, <1>4, <1>5, <1>7, <2>1 DEF Live, DirSlots
  <2>3. ASSUME NEW c, Taken /\ c = op.d PROVE Led(c)'
    BY Zenon, <1>0, <1>3, <1>7, <2>2, <2>3 DEF Taken, Led
  <2>4. op.call = "create" => ~IsOpen
    BY Zenon, <1>0 DEF Where
  <2>5. Reached'
    <3>1. IsOpen => IsOpen' /\ h'.first = h.first
      BY Zenon, <1>2, <1>7, <2>4 DEF IsOpen
    <3>2. \A c : Taken /\ c = op.d => Led(c)'
      BY Zenon, <2>3
    <3> QED BY Zenon, <1>0, <2>2, <3>1, <3>2, SlotReached
  <2>6. Files'
    BY Zenon, <1>3, <1>7, <2>2 DEF Accounted, Files
  <2>7. Filed'
    <3>1. CASE op.call = "create"
      <4>1. h'.at = op.at /\ h'.first = 0
        BY <1>2, <3>1 DEF Closed
      <4> QED BY Zenon, <1>3, <2>1, <3>1, <4>1 DEF Filed, Agree, Growing
    <3>2. CASE op.call = "mkdir"
      BY Zenon, <1>0, <1>2, <1>4, <1>6, <2>1, <3>2, FiledKept DEF Accounted, Growing
    <3> QED BY Zenon, <1>7, <3>1, <3>2
  <2> QED BY Zenon, <2>1, <2>5, <2>6, <2>7 DEF Accounted, AtEnd, Beheaded
<1>8. CASE op.call = "rename"
  <2>1. /\ op.old \in DirSlots /\ op.old \in Slot /\ slots[op.old].kind \in Live /\ op.old \in Entries
        /\ slots[op.old] \in Entry
    BY Zenon, <1>0, <1>8 DEF Where, DirSlots, Types
  <2>2. op'.pc = "erase" /\ op'.at = op.old
    BY Zenon, <1>0, <1>2, <1>8 DEF Call
  <2>3. /\ slots'[op.at].kind = slots[op.old].kind /\ slots'[op.at].first = slots[op.old].first
        /\ slots'[op.at].size = slots[op.old].size
    BY <1>0, <1>2, <1>8, <2>1 DEF Types, Entry
  <2>4. /\ op.at \in Entries' /\ \A s \in Entries : s # op.old => s \in Entries'
        /\ \A s \in Entries' : s # op.at => s \in Entries /\ slots'[s] = slots[s]
    <3>1. op.at # op.old
      BY Zenon, <1>0, <2>1
    <3>2. /\ Entries' \subseteq {s \in DirSlots' : slots'[s].kind \in Live}
          /\ \A s \in DirSlots' : slots'[s].kind \in Live /\ s # op.old => s \in Entries'
      BY Zenon, <2>2 DEF Entries
    <3>3. op.at \in Entries' /\ \A s \in Entries : s # op.old => s \in Entries'
      BY Zenon, <1>4, <1>5, <2>1, <2>3, <3>1, <3>2
    <3>4. \A s \in Entries' : s # op.at => s \in Entries /\ slots'[s] = slots[s]
      BY Zenon, <1>0, <1>3, <3>2 DEF DirSlots
    <3> QED BY Zenon, <3>3, <3>4
  <2>5. \A s \in Entries : \E t \in Entries' : slots'[t].first = slots[s].first
    BY Zenon, <1>4, <2>3, <2>4
  <2>6. ~Taken /\ (IsOpen => IsOpen' /\ h'.first = h.first)
    BY Zenon, <1>0, <1>2, <1>8 DEF Taken, IsOpen
  <2>7. Reached'
    BY Zenon, <1>0, <2>5, <2>6, SlotReached
  <2>8. Files'
    BY Zenon, <2>1, <2>3, <2>4 DEF Accounted, Files
  <2>9. Filed' /\ AtEnd'
    BY Zenon, <1>0, <1>2, <1>4, <1>6, <1>8, <2>2, FiledKept DEF Accounted, Growing, AtEnd, Beheaded
  <2> QED BY Zenon, <2>7, <2>8, <2>9 DEF Accounted
<1> QED BY Zenon, <1>0, <1>7, <1>8
================================================================================
