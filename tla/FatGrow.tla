-------------------------------- MODULE FatGrow --------------------------------
(* The steps of Fat that take a cluster, link it, or overwrite one: each keeps *)
(* the invariant, and without a fault leaves every cluster accounted for.      *)
EXTENDS FatInvariant, TLAPS

--------------------------------------------------------------------------------
(* Steps that take a cluster.                                                  *)

(* A free cluster is taken, or its table entry refused.                        *)
LEMMA ClaimStep ==
  ASSUME Counting, IInv, ~torn, mounted, Calm, NEW c \in FreeClusters, Took,
         FatSet(c, EOC) \/ FatSetFails(c, EOC), UNCHANGED <<slots, fsi, dirc, mounted, torn>>,
         h' \in FileHandle, op' \in Call, Lengths', Where', Counts',
         (/\ \A d, x : Unled(d, x) => Unled(d, x)'
          /\ \A d \in Cluster : fat[d] # Free => fat'[d] # Free /\ d # c
          /\ c \in Cluster \ dirc
          /\ fat'[c] # Free => Unled(c, NoSlot)') => Handle' /\ Held'
  PROVE  IInv'
<1>1. Types /\ TypeNumbers /\ TypeFlags /\ Chained /\ Directory /\ Counted /\ c \in Cluster /\ fat[c] = Free
  BY TypeParts DEF IInv, FreeClusters
<1>2. /\ Accepted \/ Refused
      /\ fat' = fat \/ fat' = [fat EXCEPT ![c] = EOC]
      /\ (Accepted /\ fat' = [fat EXCEPT ![c] = EOC]) \/ Refused
  BY DEF FatSet, FatSetFails
<1>3. Kept
  BY CalmKept
<1>4. Types'
  <2>1. TypeFat'
    BY <1>1, <1>2, FatType
  <2>2. TypeNumbers'
    BY <1>1, <1>2, FaultCount, FreeCount DEF TypeNumbers
  <2>3. TypeFlags'
    <3>1. fsdirty' = TRUE
      BY DEF Took
    <3> QED BY <1>1, <3>1 DEF TypeFlags
  <2> QED BY <1>1, <2>1, <2>2, <2>3, TypeParts, TypeJoin DEF TypeSlots
<1>5. Counted'
  BY <1>1, <1>2, CountedTook, RefusedCounted
<1>6. Chained' /\ Directory' /\ Handle' /\ Held'
  <2>1. CASE fat' = fat
    <3>1. Chained' /\ Directory' /\ \A d, x : Unled(d, x) => Unled(d, x)'
      BY <1>1, <1>3, <2>1, SameTable
    <3>2. c \in Cluster \ dirc
      BY <1>1 DEF Directory
    <3> QED BY <1>1, <2>1, <3>1, <3>2
  <2>2. CASE fat' = [fat EXCEPT ![c] = EOC]
    <3>1. /\ Chained' /\ Directory' /\ c \in Cluster \ dirc /\ Unled(c, NoSlot)' /\ fat'[c] # Free
          /\ \A d, x : Unled(d, x) => Unled(d, x)'
          /\ \A d \in Cluster : fat[d] # Free => fat'[d] # Free /\ d # c
      BY Zenon, <1>1, <1>3, <2>2, Claim
    <3> QED BY <3>1
  <2> QED BY <1>2, <2>1, <2>2
<1> QED BY <1>4, <1>5, <1>6 DEF IInv

(* The table entry of the cluster is refused, and the call returns.            *)
LEMMA ClaimFails ==
  ASSUME Counting, IInv, op.pc # "idle", Calm, NEW c \in FreeClusters, Took, FatSetFails(c, EOC),
         UNCHANGED <<slots, fsi, dirc, mounted, torn, h>>, op' = Idle
  PROVE  IInv'
<1>1. Types /\ Lengths /\ Handle /\ mounted /\ ~torn
  BY Running
<1>2. op' \in Call /\ Where' /\ Counts' /\ Held'
  BY Returned
<1>3. Lengths'
  BY <1>1, LengthsKept
<1>4. ASSUME \A d, x : Unled(d, x) => Unled(d, x)',
             \A d \in Cluster : fat[d] # Free => fat'[d] # Free /\ d # c
      PROVE  Handle'
  <2>1. ~Beheaded /\ op.pc # "commit"
    BY DEF Calm, Beheaded
  <2> QED BY Zenon, <1>1, <1>4, <2>1, HandleKept
<1>5. h' \in FileHandle
  BY <1>1 DEF Types
<1> QED BY <1>1, <1>2, <1>3, <1>4, <1>5, ClaimStep

(* There is no free cluster, and the call returns.                             *)
LEMMA VolumeFull ==
  ASSUME IInv, op.pc # "idle", Calm, Quiet, h' = h, op' = Idle
  PROVE  IInv'
<1>1. op' \in Call /\ Where' /\ Counts' /\ Held'
  BY Returned
<1>2. ~torn
  BY Running
<1> QED BY <1>1, <1>2, CalmStep DEF Calm

(* A cluster is taken for the directory, or for a new one.                     *)
LEMMA GrowAllocStep ==
  ASSUME Counting, IInv, GrowAlloc \/ MkdirAlloc
  PROVE  IInv'
<1>0. op.pc \in {"reserve", "mkalloc"} /\ h' = h /\ UNCHANGED <<slots, fsi, dirc, mounted, torn>>
  BY Zenon DEF GrowAlloc, MkdirAlloc
<1>1. /\ Types /\ Lengths /\ Handle /\ Held /\ Where /\ mounted /\ ~torn /\ Calm /\ op \in Call
      /\ op.pc # "idle" /\ op.call \in {"create", "rename", "mkdir"}
      /\ op.pc = "mkalloc" => op.call = "mkdir"
  BY <1>0, Running, CallOf DEF Calm, Types
<1>2. CASE op' = Idle /\ UNCHANGED <<fat, alloc, faults>>
  BY <1>0, <1>1, <1>2, VolumeFull DEF Quiet, medium
<1>3. ASSUME NEW c \in FreeClusters, Took, FatSetFails(c, EOC), op' = Idle PROVE IInv'
  BY <1>0, <1>1, <1>3, ClaimFails
<1>4. ASSUME NEW c \in FreeClusters, Took, FatSet(c, EOC), NEW pc, op' = [op EXCEPT !.d = c, !.pc = pc],
             pc = IF op.pc = "reserve" THEN "gzero" ELSE "mkinit"
      PROVE  IInv'
  <2>1. op'.d = c /\ op'.pc = pc /\ op'.call = op.call /\ op'.at = op.at /\ op'.old = op.old
    BY <1>1, <1>4 DEF Call
  <2>2. op' \in Call
    <3>1. c \in MaybeCluster /\ pc \in Steps
      BY <1>4, ConstantFacts DEF FreeClusters, Steps
    <3> QED BY Zenon, <1>1, <1>4, <3>1 DEF Call
  <2>3. Where'
    BY <1>0, <1>1, <1>4, <2>1, NamedCall
  <2>4. Counts'
    BY <1>4, <2>1 DEF Counts
  <2>5. ASSUME \A d, x : Unled(d, x) => Unled(d, x)',
               \A d \in Cluster : fat[d] # Free => fat'[d] # Free /\ d # c,
               c \in Cluster \ dirc, fat'[c] # Free => Unled(c, NoSlot)'
        PROVE  Handle' /\ Held'
    <3>1. fat'[c] = EOC /\ fat'[c] # Free
      BY <1>1, <1>4, <2>5, ConstantFacts DEF FatSet, Types
    <3>2. IsOpen' => h'.first # c
      <4>1. ASSUME IsOpen, h.first = c PROVE FALSE
        <5>1. ~Beheaded /\ h.first # 0
          BY <1>0, <2>5, <4>1, FatAssumption DEF Beheaded
        <5> QED BY <1>1, <2>5, <4>1, <5>1 DEF Handle
      <4> QED BY <4>1, <1>0 DEF IsOpen
    <3>3. NewCluster'
      BY <1>0, <2>1, <2>5, <3>1, <3>2 DEF NewCluster
    <3>4. Blank' /\ Place' /\ Head'
      BY <1>4, <2>1 DEF Blank, Place, Head
    <3>5. Target'
      BY <1>0, <1>1, <1>4, <2>1 DEF Held, Target, DirSlots
    <3>6. Handle'
      <4>1. ~Beheaded /\ op.pc # "commit"
        BY <1>0 DEF Beheaded
      <4> QED BY <1>0, <1>1, <2>5, <4>1, HandleKept
    <3> QED BY <3>3, <3>4, <3>5, <3>6 DEF Held
  <2>6. Lengths' /\ h' \in FileHandle
    BY Zenon, <1>0, <1>1, LengthsKept DEF Types
  <2> QED BY <1>0, <1>1, <1>4, <2>2, <2>3, <2>4, <2>5, <2>6, ClaimStep
<1>5. CASE GrowAlloc
  BY Zenon, <1>2, <1>3, <1>4, <1>5 DEF GrowAlloc, Return
<1>6. CASE MkdirAlloc
  BY Zenon, <1>2, <1>3, <1>4, <1>6 DEF MkdirAlloc, Return
<1> QED BY <1>5, <1>6

(* The first cluster of the open file.                                         *)
LEMMA FirstCluster ==
  ASSUME Types, Lengths, Handle, IsOpen, NEW c \in Cluster, h' = [h EXCEPT !.first = c],
         slots' = slots, dirc' = dirc
  PROVE  /\ h' \in FileHandle /\ Lengths' /\ IsOpen' /\ h'.first = c /\ h'.at = h.at
         /\ h'.size = h.size /\ h'.off = h.off
         /\ Unled(c, NoSlot)' /\ fat'[c] # Free => Handle'
<1>1. h \in FileHandle /\ c \in MaybeCluster /\ c # 0
  BY ConstantFacts, FatAssumption DEF Types
<1>2. /\ h' \in FileHandle /\ h'.first = c /\ h'.at = h.at /\ h'.size = h.size /\ h'.off = h.off
  BY <1>1 DEF FileHandle
<1>3. IsOpen'
  BY <1>2 DEF IsOpen
<1>4. Lengths'
  BY <1>1, <1>2, <1>3 DEF Lengths
<1>5. ASSUME Unled(c, NoSlot)', fat'[c] # Free PROVE Handle'
  <2>1. Unled(h.first, h.at)'
    <3>1. Entries' \subseteq Slot
      BY DEF Entries, DirSlots
    <3> QED BY <1>2, <1>5, <3>1, ConstantFacts DEF Unled
  <2>2. h'.at \in DirSlots' /\ slots'[h'.at].kind = "file"
    BY <1>2 DEF Handle, DirSlots
  <2> QED BY <1>1, <1>2, <1>5, <2>1, <2>2 DEF Handle
<1> QED BY <1>2, <1>3, <1>4, <1>5

(* write takes a cluster, the first of the file or the next.                   *)
LEMMA WriteAllocStep ==
  ASSUME Counting, IInv, WriteAlloc
  PROVE  IInv'
<1>0. /\ op.pc = "pos" /\ UNCHANGED <<slots, fsi, dirc, mounted, torn>>
      /\ op.c # 0 => op.i < h.off
  BY Zenon DEF WriteAlloc
<1>1. /\ Types /\ Lengths /\ Handle /\ Held /\ Where /\ Counts /\ mounted /\ ~torn /\ Calm
      /\ op \in Call /\ op.call = "write" /\ IsOpen /\ ~Beheaded
  BY Zenon, <1>0, Running, CallOf DEF Calm, Types, Where, Beheaded
<1>2. CASE op' = Idle /\ UNCHANGED <<fat, alloc, faults, h>>
  BY <1>0, <1>1, <1>2, VolumeFull DEF Quiet, medium
<1>3. ASSUME NEW c \in FreeClusters, Took, FatSetFails(c, EOC), op' = Idle, h' = h PROVE IInv'
  BY <1>0, <1>1, <1>3, ClaimFails
<1>4. ASSUME NEW c \in FreeClusters, Took, FatSet(c, EOC), op.c = 0,
             op' = [op EXCEPT !.c = c, !.i = h.off], h' = [h EXCEPT !.first = c]
      PROVE  IInv'
  <2>0. c \in Cluster /\ c \in MaybeCluster /\ c # 0 /\ h.off \in Length /\ fat'[c] # Free
    BY <1>1, <1>4, HandleFacts, ConstantFacts, FatAssumption DEF FreeClusters, FatSet, Types
  <2>1. op'.c = c /\ op'.pc = op.pc /\ op'.call = op.call /\ op'.at = op.at /\ op'.n = op.n
    BY <1>1, <1>4 DEF Call
  <2>2. op' \in Call
    BY Zenon, <1>1, <1>4, <2>0 DEF Call
  <2>3. /\ h' \in FileHandle /\ Lengths' /\ h'.first = c /\ h'.at = h.at /\ h'.off = h.off
        /\ Unled(c, NoSlot)' /\ fat'[c] # Free => Handle'
    BY <1>0, <1>1, <1>4, <2>0, FirstCluster
  <2>4. Where'
    BY <1>0, <1>1, <2>1, <2>3, FileCall
  <2>5. Counts'
    BY <1>0, <1>1, <2>1, <2>3 DEF Counts
  <2>6. c \in Cluster \ dirc => Held'
    <3>1. NewCluster' /\ Blank' /\ Target' /\ Head'
      BY <1>0, <2>1 DEF NewCluster, Blank, Target, Head
    <3>2. c \in Cluster \ dirc => Place'
      BY <1>0, <2>0, <2>1, <2>3 DEF Place
    <3> QED BY <3>1, <3>2 DEF Held
  <2> QED BY <1>0, <1>1, <1>4, <2>0, <2>2, <2>3, <2>4, <2>5, <2>6, ClaimStep
<1>5. ASSUME NEW c \in FreeClusters, Took, FatSet(c, EOC), op.c # 0, h' = h,
             op' = [op EXCEPT !.d = c, !.pc = "link"]
      PROVE  IInv'
  <2>0. c \in Cluster /\ c \in MaybeCluster /\ c # 0 /\ fat'[c] # Free /\ fat'[c] = EOC
    BY <1>1, <1>5, ConstantFacts, FatAssumption DEF FreeClusters, FatSet, Types
  <2>1. /\ op'.d = c /\ op'.pc = "link" /\ op'.call = op.call /\ op'.at = op.at /\ op'.n = op.n
        /\ op'.i = op.i /\ op'.c = op.c
    BY <1>1, <1>5 DEF Call
  <2>2. op' \in Call
    BY Zenon, <1>1, <1>5, <2>0 DEF Call, Steps
  <2>3. Lengths' /\ h' \in FileHandle
    BY <1>0, <1>1, <1>5, LengthsKept DEF Types
  <2>4. Where'
    BY <1>0, <1>1, <1>5, <2>1, FileCall
  <2>5. Counts'
    BY <1>0, <1>1, <1>5, <2>1 DEF Counts
  <2>6. ASSUME \A d, x : Unled(d, x) => Unled(d, x)',
               \A d \in Cluster : fat[d] # Free => fat'[d] # Free /\ d # c,
               c \in Cluster \ dirc, Unled(c, NoSlot)'
        PROVE  Handle' /\ Held'
    <3>1. IsOpen' => h'.first # c
      BY <1>1, <1>5, <2>0, <2>6 DEF Handle
    <3>2. NewCluster'
      BY <1>0, <2>0, <2>1, <2>6, <3>1 DEF NewCluster
    <3>3. Blank' /\ Target' /\ Head'
      BY <2>1 DEF Blank, Target, Head
    <3>4. op.c \in Cluster \ dirc /\ fat[op.c] # Free /\ h.first # 0
      BY <1>0, <1>1, <1>5 DEF Held, Place
    <3>5. Place'
      BY <1>0, <1>5, <2>1, <2>6, <3>4 DEF Place
    <3>6. Handle'
      BY Zenon, <1>0, <1>1, <1>5, <2>6, HandleKept
    <3> QED BY <3>2, <3>3, <3>5, <3>6 DEF Held
  <2> QED BY Zenon, <1>0, <1>1, <1>5, <2>0, <2>2, <2>3, <2>4, <2>5, <2>6, ClaimStep
<1> QED BY Zenon, <1>2, <1>3, <1>4, <1>5 DEF WriteAlloc, Return

(* truncate takes a cluster, the first of the file or the next.                *)
LEMMA TruncAllocStep ==
  ASSUME Counting, IInv, TruncAlloc
  PROVE  IInv'
<1>0. op.pc = "extend" /\ UNCHANGED <<slots, fsi, dirc, mounted, torn>>
  BY Zenon DEF TruncAlloc
<1>1. /\ Types /\ Lengths /\ Handle /\ Held /\ Where /\ Counts /\ mounted /\ ~torn /\ Calm
      /\ op \in Call /\ op.call = "trunc" /\ IsOpen /\ ~Beheaded /\ op.n \in Length /\ op.i \in Length
  BY Zenon, <1>0, Running, CallOf, CallFacts DEF Calm, Types, Where, Beheaded
<1>2. CASE op' = Idle /\ UNCHANGED <<fat, alloc, faults, h>>
  BY Zenon, <1>0, <1>1, <1>2, VolumeFull DEF Quiet, medium
<1>3. ASSUME NEW c \in FreeClusters, Took, FatSetFails(c, EOC), op' = Idle, h' = h PROVE IInv'
  BY <1>0, <1>1, <1>3, ClaimFails
<1>4. ASSUME NEW c \in FreeClusters, Took, FatSet(c, EOC), op.i = 0,
             op' = [op EXCEPT !.c = c, !.i = 1, !.pc = "tzero"], h' = [h EXCEPT !.first = c]
      PROVE  IInv'
  <2>0. c \in Cluster /\ c \in MaybeCluster /\ c # 0 /\ fat'[c] # Free
    BY <1>1, <1>4, ConstantFacts, FatAssumption DEF FreeClusters, FatSet, Types
  <2>1. /\ op'.c = c /\ op'.pc = "tzero" /\ op'.call = op.call /\ op'.at = op.at /\ op'.n = op.n
        /\ op'.i = 1
    BY <1>1, <1>4 DEF Call
  <2>a. 1 \in Length /\ 1 <= op.n /\ h.size < op.n
    BY <1>0, <1>1, <1>4, FatAssumption DEF Counts, Length
  <2>2. op' \in Call
    BY Zenon, <1>1, <1>4, <2>0, <2>a DEF Call, Steps
  <2>3. /\ h' \in FileHandle /\ Lengths' /\ h'.first = c /\ h'.at = h.at /\ h'.size = h.size
        /\ Unled(c, NoSlot)' /\ fat'[c] # Free => Handle'
    BY <1>0, <1>1, <1>4, <2>0, FirstCluster
  <2>4. Where'
    BY <1>0, <1>1, <2>1, <2>3, FileCall
  <2>5. Counts'
    BY <2>1, <2>3, <2>a DEF Counts
  <2>6. c \in Cluster \ dirc => Held'
    <3>1. NewCluster' /\ Blank' /\ Target' /\ Head'
      BY <2>1 DEF NewCluster, Blank, Target, Head
    <3>2. c \in Cluster \ dirc => Place'
      BY Zenon, <1>0, <2>0, <2>1, <2>3 DEF Place
    <3> QED BY <3>1, <3>2 DEF Held
  <2> QED BY <1>0, <1>1, <1>4, <2>0, <2>2, <2>3, <2>4, <2>5, <2>6, ClaimStep
<1>5. ASSUME NEW c \in FreeClusters, Took, FatSet(c, EOC), op.i # 0, h' = h,
             op' = [op EXCEPT !.d = c, !.pc = "tlink"]
      PROVE  IInv'
  <2>0. c \in Cluster /\ c \in MaybeCluster /\ c # 0 /\ fat'[c] # Free /\ fat'[c] = EOC
    BY <1>1, <1>5, ConstantFacts, FatAssumption DEF FreeClusters, FatSet, Types
  <2>1. /\ op'.d = c /\ op'.pc = "tlink" /\ op'.call = op.call /\ op'.at = op.at /\ op'.n = op.n
        /\ op'.i = op.i /\ op'.c = op.c
    BY <1>1, <1>5 DEF Call
  <2>2. op' \in Call
    BY Zenon, <1>1, <1>5, <2>0 DEF Call, Steps
  <2>3. Lengths' /\ h' \in FileHandle
    BY <1>0, <1>1, <1>5, LengthsKept DEF Types
  <2>4. Where'
    BY <1>0, <1>1, <1>5, <2>1, FileCall
  <2>5. Counts'
    BY <1>0, <1>1, <1>5, <2>1 DEF Counts
  <2>6. ASSUME \A d, x : Unled(d, x) => Unled(d, x)',
               \A d \in Cluster : fat[d] # Free => fat'[d] # Free /\ d # c,
               c \in Cluster \ dirc, Unled(c, NoSlot)'
        PROVE  Handle' /\ Held'
    <3>1. IsOpen' => h'.first # c
      BY <1>1, <1>5, <2>0, <2>6 DEF Handle
    <3>2. NewCluster'
      BY <1>0, <2>0, <2>1, <2>6, <3>1 DEF NewCluster
    <3>3. Blank' /\ Target' /\ Head'
      BY <2>1 DEF Blank, Target, Head
    <3>4. op.c \in Cluster \ dirc /\ fat[op.c] # Free /\ h.first # 0
      BY <1>0, <1>1, <1>5 DEF Held, Place
    <3>5. Place'
      BY <1>0, <1>5, <2>1, <2>6, <3>4 DEF Place
    <3>6. Handle'
      <4>1. op.pc # "commit"
        BY <1>0
      <4> QED BY <1>0, <1>1, <1>5, <2>6, <4>1, HandleKept
    <3> QED BY <3>2, <3>3, <3>5, <3>6 DEF Held
  <2> QED BY <1>0, <1>1, <1>5, <2>0, <2>2, <2>3, <2>4, <2>5, <2>6, ClaimStep
<1> QED BY Zenon, <1>2, <1>3, <1>4, <1>5 DEF TruncAlloc, Return

--------------------------------------------------------------------------------
(* Steps that link a cluster to a file, or end its chain.                      *)

(* A table entry that was in use is overwritten, and stays in use.             *)
LEMMA RelinkStep ==
  ASSUME IInv, ~torn, mounted, Calm, NEW p \in Cluster, fat[p] # Free,
         NEW v \in {EOC} \cup Cluster, FatSet(p, v) \/ FatSetFails(p, v),
         UNCHANGED <<slots, fsi, mounted, alloc, torn, h>>, dirc' \in SUBSET Cluster,
         op' \in Call, Where', Counts', Chained', Directory', Handle', Held'
  PROVE  IInv'
<1>1. Types /\ TypeNumbers /\ TypeFlags /\ Counted /\ Lengths
  BY TypeParts DEF IInv
<1>2. /\ Accepted \/ Refused
      /\ fat' = fat \/ fat' = [fat EXCEPT ![p] = v]
  BY DEF FatSet, FatSetFails
<1>3. v # Free
  BY ConstantFacts
<1>4. Types'
  <2>1. TypeFat'
    BY <1>1, <1>2, FatType
  <2>2. TypeNumbers' /\ TypeFlags'
    BY <1>1, <1>2, FaultCount DEF TypeNumbers, TypeFlags, alloc
  <2>3. TypeSlots' /\ h' \in FileHandle
    BY <1>1 DEF Types, TypeSlots
  <2> QED BY <2>1, <2>2, <2>3, TypeJoin
<1>5. Counted'
  <2>1. FreeClusters' = FreeClusters
    BY Zenon, <1>1, <1>2, <1>3 DEF FreeClusters, Types
  <2> QED BY <1>1, <1>2, <2>1, CountedSame, RefusedCounted
<1>6. Lengths'
  BY <1>1, LengthsKept
<1> QED BY <1>4, <1>5, <1>6 DEF IInv

(* The new cluster is linked behind the last one of the file.                  *)
LEMMA LinkStep ==
  ASSUME IInv, WriteLink \/ TruncLink
  PROVE  IInv'
<1>0. /\ op.pc \in {"link", "tlink"} /\ h' = h /\ UNCHANGED <<slots, fsi, dirc, mounted, alloc, torn>>
      /\ FatSet(op.c, op.d) \/ FatSetFails(op.c, op.d)
  BY DEF WriteLink, TruncLink
<1>1. /\ Types /\ Chained /\ Directory /\ Handle /\ Held /\ Where /\ Counts /\ mounted /\ ~torn
      /\ Calm /\ op \in Call /\ IsOpen /\ ~Beheaded /\ op.pc # "commit"
      /\ op.i \in Length /\ op.n \in Length /\ h.off \in Length
      /\ op.call = IF op.pc = "link" THEN "write" ELSE "trunc"
  BY Zenon, <1>0, Running, CallOf, CallFacts, HandleFacts DEF Calm, Types, Where, Beheaded
<1>2. /\ op.c \in Cluster \ dirc /\ fat[op.c] # Free /\ h.first # 0
      /\ op.d \in Cluster \ dirc /\ Unled(op.d, NoSlot) /\ fat[op.d] # Free /\ h.first # op.d
  BY <1>0, <1>1, ConstantFacts DEF Held, Place, NewCluster
<1>3. Kept
  BY <1>0, <1>1, CalmKept
<1>4. /\ Chained' /\ Directory'
      /\ \A e, x : e # op.d /\ Unled(e, x) => Unled(e, x)'
      /\ \A e \in Cluster : fat[e] # Free => fat'[e] # Free
  <2>1. CASE fat' = fat
    BY Zenon, <1>0, <1>1, <1>3, <2>1, SameTable
  <2>2. CASE fat' = [fat EXCEPT ![op.c] = op.d]
    BY Zenon, <1>0, <1>1, <1>2, <1>3, <2>2, Link
  <2> QED BY Zenon, <1>0, <2>1, <2>2 DEF FatSet, FatSetFails
<1>5. Handle'
  BY Zenon, <1>0, <1>1, <1>2, <1>4, HandleKept
<1>6. op' \in Call /\ Where' /\ Counts' /\ Held'
  <2>1. CASE op' = Idle
    BY <2>1, Returned
  <2>2. ASSUME NEW pc, pc = IF op.pc = "link" THEN "pos" ELSE "tzero",
               op' = [op EXCEPT !.c = op.d, !.d = 0, !.i = op.i + 1, !.pc = pc]
        PROVE  op' \in Call /\ Where' /\ Counts' /\ Held'
    <3>1. /\ op'.c = op.d /\ op'.i = op.i + 1 /\ op'.pc = pc /\ op'.call = op.call
          /\ op'.at = op.at /\ op'.n = op.n
      BY <1>1, <2>2 DEF Call
    <3>2. op.i + 1 \in Length /\ (op.pc = "tlink" => op.i + 1 <= op.n)
      BY Zenon, <1>0, <1>1, Successor DEF Counts
    <3>3. op' \in Call
      <4>1. pc \in Steps /\ op.d \in MaybeCluster /\ 0 \in MaybeCluster
        BY <1>2, <2>2, ConstantFacts DEF Steps
      <4> QED BY Zenon, <1>1, <2>2, <3>2, <4>1 DEF Call
    <3>4. Where'
      BY <1>0, <1>1, <2>2, <3>1, FileCall
    <3>5. Counts'
      <4>1. CASE op.pc = "link"
        BY <1>0, <1>1, <2>2, <3>1, <4>1 DEF Counts
      <4>2. CASE op.pc = "tlink"
        BY <1>0, <1>1, <2>2, <3>1, <3>2, <4>2 DEF Counts, Length
      <4> QED BY <1>0, <4>1, <4>2
    <3>6. NewCluster' /\ Blank' /\ Target' /\ Head'
      BY <2>2, <3>1 DEF NewCluster, Blank, Target, Head
    <3>7. Place'
      BY <1>0, <1>2, <1>4, <2>2, <3>1 DEF Place
    <3> QED BY Zenon, <3>3, <3>4, <3>5, <3>6, <3>7 DEF Held
  <2>3. CASE WriteLink
    BY Zenon, <2>1, <2>2, <2>3 DEF WriteLink, Return
  <2>4. CASE TruncLink
    BY Zenon, <2>1, <2>2, <2>4 DEF TruncLink, Return
  <2> QED BY <2>3, <2>4
<1>7. dirc' \in SUBSET Cluster
  BY Zenon, <1>0, <1>1 DEF Types
<1> QED BY Zenon, <1>0, <1>1, <1>2, <1>4, <1>5, <1>6, <1>7, RelinkStep

(* truncate ends the chain at the new tail.                                    *)
LEMMA TruncCutStep ==
  ASSUME IInv, TruncCut
  PROVE  IInv'
<1>0. op.pc = "cut" /\ op.i = op.n /\ UNCHANGED <<slots, fsi, dirc, mounted, alloc, torn>>
  BY DEF TruncCut
<1>1. /\ Types /\ Chained /\ Directory /\ Handle /\ Held /\ Where /\ Counts /\ mounted /\ ~torn
      /\ Calm /\ op \in Call /\ IsOpen /\ ~Beheaded /\ op.call = "trunc" /\ op.at = h.at
      /\ op.n \in Length /\ 1 <= op.n /\ Lengths /\ Counted /\ h \in FileHandle
  BY Zenon, <1>0, Running, CallOf, CallFacts DEF Calm, Types, Where, Beheaded, Counts
<1>2. op.c \in Cluster \ dirc /\ fat[op.c] # Free /\ h.first # 0
  BY Zenon, <1>0, <1>1 DEF Held, Place
<1>3. Kept
  BY <1>0, <1>1, CalmKept
<1>a. Unled(h.first, h.at) /\ fat[h.first] # Free
  BY Zenon, <1>1, <1>2 DEF Handle
<1>4. CASE fat' = fat /\ faults' = faults /\ h' = [h EXCEPT !.size = op.n] /\ op' = [op EXCEPT !.pc = "commit"]
  <2>1. h'.at = h.at /\ h'.first = h.first /\ h'.size = op.n /\ h' \in FileHandle
    BY <1>1, <1>4 DEF FileHandle
  <2>2. op'.pc = "commit" /\ op'.call = op.call /\ op'.at = op.at /\ op' \in Call
    BY <1>1, <1>4 DEF Call, Steps
  <2>3. Lengths'
    BY Zenon, <1>0, <1>1, <1>2, <2>1 DEF Lengths, IsOpen
  <2>4. Where'
    BY Zenon, <1>0, <1>1, <2>1, <2>2, FileCall
  <2>5. Counts'
    BY <2>2 DEF Counts
  <2>6. Held'
    BY Zenon, <2>2 DEF Held, NewCluster, Blank, Target, Place, Head
  <2>7. Chained' /\ Directory' /\ \A e, x : Unled(e, x) => Unled(e, x)'
    BY Zenon, <1>0, <1>1, <1>3, <1>4, SameTable
  <2>8. Handle'
    <3>1. Unled(h.first, h.at)' /\ fat'[h'.first] # Free
      BY <1>4, <1>a, <2>1, <2>7
    <3>2. h'.at \in DirSlots' /\ slots'[h'.at].kind = "file"
      BY <1>0, <1>1, <2>1 DEF Handle, DirSlots
    <3> QED BY Zenon, <2>1, <2>2, <3>1, <3>2 DEF Handle
  <2>9. Types'
    BY Zenon, <1>0, <1>1, <1>4, <2>1, <2>2 DEF Types, alloc
  <2>10. Counted'
    BY <1>0, <1>1, <1>4 DEF Counted, FreeClusters, alloc
  <2> QED BY <2>3, <2>4, <2>5, <2>6, <2>7, <2>8, <2>9, <2>10 DEF IInv
<1>5. ASSUME fat[op.c] # EOC, h' = h, FatSet(op.c, EOC) \/ FatSetFails(op.c, EOC),
             op' = Idle \/ (fat' = [fat EXCEPT ![op.c] = EOC] /\ op' = [op EXCEPT !.c = fat[op.c], !.pc = "free"])
      PROVE  IInv'
  <2>1. fat[op.c] \in Cluster
    BY <1>1, <1>2, <1>5 DEF Types
  <2>2. /\ Chained' /\ Directory'
        /\ \A e, x : Unled(e, x) => Unled(e, x)'
        /\ \A e \in Cluster : fat[e] # Free => fat'[e] # Free
        /\ fat' = [fat EXCEPT ![op.c] = EOC] =>
             \A e \in Cluster : e = fat[op.c] => Unled(e, NoSlot)' /\ fat'[e] # Free
    <3>1. CASE fat' = fat
      BY <1>0, <1>1, <1>2, <1>3, <1>5, <3>1, SameTable DEF Types
    <3>2. CASE fat' = [fat EXCEPT ![op.c] = EOC]
      BY Zenon, <1>0, <1>1, <1>2, <1>3, <3>2, Cut
    <3> QED BY <1>5, <3>1, <3>2 DEF FatSet, FatSetFails
  <2>3. Handle'
    <3>1. op.pc # "commit"
      BY <1>0
    <3> QED BY Zenon, <1>0, <1>1, <1>5, <2>2, <3>1, HandleKept
  <2>4. op' \in Call /\ Where' /\ Counts' /\ Held'
    <3>1. CASE op' = Idle
      BY <3>1, Returned
    <3>2. CASE fat' = [fat EXCEPT ![op.c] = EOC] /\ op' = [op EXCEPT !.c = fat[op.c], !.pc = "free"]
      <4>1. /\ op'.c = fat[op.c] /\ op'.pc = "free" /\ op'.call = op.call /\ op'.at = op.at
            /\ op'.n = op.n
        BY <1>1, <3>2 DEF Call
      <4>2. op' \in Call
        <5>1. fat[op.c] \in MaybeCluster
          BY <2>1, ConstantFacts
        <5> QED BY Zenon, <1>1, <3>2, <5>1 DEF Call, Steps
      <4>3. Where'
        BY Zenon, <1>0, <1>1, <1>5, <4>1, FileCall
      <4>4. Counts' /\ NewCluster' /\ Blank' /\ Target' /\ Place'
        BY Zenon, <4>1 DEF Counts, NewCluster, Blank, Target, Place
      <4>5. \A e : e = fat[op.c] => Unled(e, NoSlot)' /\ fat'[e] # Free /\ e # h.first
        BY <1>2, <1>a, <2>1, <2>2, <3>2 DEF Unled
      <4>6. Unled(op.c, NoSlot)' /\ fat'[op'.c] # Free /\ op'.c # h'.first /\ h'.first # 0
        BY <4>1, <4>5, <1>2, <1>5
      <4>7. Entries' \subseteq Slot
        BY DEF Entries, DirSlots
      <4>8. Unled(op.c, op.at)' /\ (op'.at \in Entries' => slots'[op'.at].first # op'.c)
        BY Zenon, <4>6, <4>7, ConstantFacts DEF Unled
      <4>9. Head'
        BY SMTT(30), <1>1, <4>1, <4>6, <4>8 DEF Head, FreesAll, Beheaded, Length
      <4> QED BY Zenon, <4>2, <4>3, <4>4, <4>9 DEF Held
    <3> QED BY <1>5, <3>1, <3>2
  <2>5. dirc' \in SUBSET Cluster
    BY <1>0, <1>1 DEF Types
  <2> QED BY <1>0, <1>1, <1>2, <1>5, <2>2, <2>3, <2>4, <2>5, RelinkStep
<1> QED BY Zenon, <1>4, <1>5 DEF TruncCut, FatSet, Return

--------------------------------------------------------------------------------
(* Steps that overwrite a data cluster.                                        *)

(* Slots of a cluster outside the directory are overwritten.                   *)
LEMMA Overwritten ==
  ASSUME Types, Lengths, NEW c \in Cluster \ dirc, slots' = Zeroed(c) \/ slots' = Scribbled(c)
  PROVE  /\ TypeSlots' /\ \A s \in DirSlots : slots'[s] = slots[s]
         /\ \A s \in Slot : slots'[s].size > 0 => slots'[s].first # 0
<1>1. \A k \in {"end", "junk"} : Mark(k) \in Entry /\ Mark(k).size = 0
  BY FatAssumption DEF Mark, Entry, MaybeCluster, Length
<1>2. \A s \in Slot : slots'[s] = slots[s] \/ \E k \in {"end", "junk"} : slots'[s] = Mark(k)
  BY DEF Zeroed, Scribbled
<1>3. TypeSlots'
  BY Zenon, <1>1 DEF TypeSlots, Types, Zeroed, Scribbled
<1>4. \A s \in DirSlots : slots'[s] = slots[s]
  BY Zenon DEF DirSlots, Zeroed, Scribbled
<1>5. ASSUME NEW s \in Slot, slots'[s].size > 0 PROVE slots'[s].first # 0
  BY <1>1, <1>2, <1>5 DEF Lengths
<1> QED BY Zenon, <1>3, <1>4, <1>5

(* Such a step leaves the volume as sound as it was.                           *)
LEMMA OverwriteStep ==
  ASSUME IInv, ~torn, mounted, Calm, NEW c \in Cluster \ dirc,
         slots' = Zeroed(c) \/ slots' = Scribbled(c), Accepted \/ Refused,
         UNCHANGED <<fat, fsi, dirc, mounted, alloc, torn>>, h' \in FileHandle, op' \in Call,
         Where', Counts', h'.size > 0 => h'.first # 0, ~IsOpen' => h' = Closed,
         ((\A e, x : Unled(e, x) => Unled(e, x)') /\ \A s \in DirSlots : slots'[s] = slots[s])
           => Handle' /\ Held'
  PROVE  IInv'
<1>1. Types /\ TypeNumbers /\ TypeFlags /\ Counted /\ Lengths /\ Chained /\ Directory
  BY TypeParts DEF IInv
<1>2. /\ TypeSlots' /\ \A s \in DirSlots : slots'[s] = slots[s]
      /\ \A s \in Slot : slots'[s].size > 0 => slots'[s].first # 0
  BY Zenon, <1>1, Overwritten
<1>3. Kept
  <2>1. Entries = {s \in DirSlots : slots[s].kind \in Live}
    BY Zenon, NotExposed DEF Calm
  <2>2. Entries' \subseteq {s \in DirSlots : slots'[s].kind \in Live}
    BY Zenon DEF Entries, DirSlots
  <2> QED BY Zenon, <1>2, <2>1, <2>2 DEF Kept
<1>4. Chained' /\ Directory' /\ Handle' /\ Held'
  BY Zenon, <1>1, <1>2, <1>3, SameTable
<1>5. Lengths'
  BY Zenon, <1>2 DEF Lengths
<1>6. Counted'
  <2>1. FreeClusters' = FreeClusters
    BY Zenon DEF FreeClusters
  <2> QED BY Zenon, <1>1, <2>1, CountedSame, RefusedCounted
<1>7. Types'
  <2>1. TypeNumbers' /\ TypeFlags'
    BY Zenon, <1>1, FaultCount DEF TypeNumbers, TypeFlags, alloc
  <2>2. TypeFat' /\ dirc' \in SUBSET Cluster
    BY Zenon, <1>1 DEF Types, TypeFat
  <2> QED BY Zenon, <1>2, <2>1, <2>2, TypeJoin
<1> QED BY Zenon, <1>4, <1>5, <1>6, <1>7 DEF IInv

(* A new directory cluster is zeroed, or that is refused.                      *)
LEMMA ZeroStep ==
  ASSUME IInv, GrowZero \/ MkdirInit
  PROVE  IInv'
<1>0. /\ op.pc \in {"gzero", "mkinit"} /\ h' = h /\ UNCHANGED <<fat, fsi, dirc, mounted, alloc, torn>>
      /\ Accepted \/ Refused
      /\ \/ slots' = Zeroed(op.d) /\ op.pc = "gzero" /\ op' = [op EXCEPT !.pc = "glink"]
         \/ slots' = Zeroed(op.d) /\ op.pc = "mkinit" /\ op' = [op EXCEPT !.pc = "insert"]
         \/ slots' = Scribbled(op.d) /\ op' = [op EXCEPT !.pc = "undo"]
  BY DEF GrowZero, MkdirInit
<1>1. /\ Types /\ Handle /\ Held /\ Where /\ mounted /\ ~torn /\ Calm /\ op \in Call /\ Lengths
      /\ op.pc # "idle" /\ op.pc # "commit" /\ op.call \in {"create", "rename", "mkdir"} /\ ~Beheaded
      /\ op.pc = "mkinit" => op.call = "mkdir"
  BY <1>0, Running, CallOf DEF Calm, Types, Beheaded
<1>2. /\ op.d \in Cluster \ dirc /\ fat[op.d] = EOC /\ Unled(op.d, NoSlot)
      /\ IsOpen => h.first # op.d
  BY <1>0, <1>1 DEF Held, NewCluster
<1>3. /\ op'.call = op.call /\ op'.at = op.at /\ op'.old = op.old /\ op'.d = op.d
      /\ op' \in Call
      /\ \/ op'.pc = "glink" /\ slots' = Zeroed(op.d)
         \/ op'.pc = "insert" /\ op.pc = "mkinit"
         \/ op'.pc = "undo"
  BY <1>0, <1>1 DEF Call, Steps
<1>a. \A s \in DirSlots : slots'[s] = slots[s]
  BY <1>0, <1>1, <1>2, Overwritten
<1>4. Where'
  <2>1. op'.pc \in {"reserve", "gzero", "glink", "undo"} \/
          (op.call = "mkdir" /\ op'.pc \in {"mkalloc", "mkinit", "insert"})
    BY <1>1, <1>3
  <2> QED BY Zenon, <1>0, <1>1, <1>3, <1>a, <2>1, NamedCall
<1>5. Counts'
  BY Zenon, <1>3 DEF Counts
<1>6. ASSUME \A e, x : Unled(e, x) => Unled(e, x)' PROVE Handle' /\ Held'
  <2>1. Handle'
    <3>1. IsOpen => slots'[h.at] = slots[h.at]
      BY Zenon, <1>1, <1>a DEF Handle
    <3> QED BY <1>0, <1>1, <1>6, <3>1, HandleKept
  <2>2. NewCluster'
    BY <1>0, <1>2, <1>3, <1>6 DEF NewCluster, IsOpen
  <2>3. Blank'
    <3>1. slots' = Zeroed(op.d) => \A s \in Slot : s[1] = op.d => slots'[s].kind \notin Live
      BY DEF Zeroed, Mark, Live
    <3> QED BY Zenon, <1>3, <3>1 DEF Blank
  <2>4. Target'
    BY <1>0, <1>1, <1>3, <1>a DEF Held, Target, DirSlots
  <2>5. Place' /\ Head'
    BY Zenon, <1>3 DEF Place, Head
  <2> QED BY Zenon, <2>1, <2>2, <2>3, <2>4, <2>5 DEF Held
<1>7. h' \in FileHandle /\ (h'.size > 0 => h'.first # 0) /\ (~IsOpen' => h' = Closed)
  BY <1>0, <1>1 DEF Types, Lengths, IsOpen
<1>8. slots' = Zeroed(op.d) \/ slots' = Scribbled(op.d)
  BY <1>0
<1> QED BY <1>0, <1>1, <1>2, <1>3, <1>4, <1>5, <1>6, <1>7, <1>8, OverwriteStep

(* The handle grows with the file.                                             *)
LEMMA HandleGrows ==
  ASSUME Handle, IsOpen, ~Beheaded, h.first # 0, h'.at = h.at, h'.first = h.first,
         fat' = fat, dirc' = dirc, \A s \in DirSlots : slots'[s] = slots[s],
         \A e, x : Unled(e, x) => Unled(e, x)'
  PROVE  Handle'
<1>1. Unled(h.first, h.at) /\ fat[h.first] # Free
  BY Zenon DEF Handle
<1>2. Unled(h.first, h.at)' /\ fat'[h'.first] # Free
  BY Zenon, <1>1
<1>3. h'.at \in DirSlots' /\ slots'[h'.at].kind = "file"
  BY Zenon DEF Handle, DirSlots
<1> QED BY Zenon, <1>2, <1>3 DEF Handle

(* File data is written, or zeroes in its place.                               *)
LEMMA DataStep ==
  ASSUME IInv, WriteData \/ TruncZero
  PROVE  IInv'
<1>0. /\ \/ op.pc = "pos" /\ op.c # 0 /\ op.i = h.off
         \/ op.pc = "tzero"
      /\ UNCHANGED <<fat, fsi, dirc, mounted, alloc, torn>> /\ slots' = Scribbled(op.c)
      /\ Accepted \/ Refused
  BY DEF WriteData, TruncZero
<1>1. /\ Types /\ Handle /\ Held /\ Where /\ Counts /\ mounted /\ ~torn /\ Calm /\ op \in Call
      /\ IsOpen /\ ~Beheaded /\ Lengths /\ h \in FileHandle
      /\ op.i \in Length /\ op.n \in Length /\ h.off \in Length /\ h.size \in Length
      /\ op.call = IF op.pc = "pos" THEN "write" ELSE "trunc"
  BY Zenon, <1>0, Running, CallOf, CallFacts, HandleFacts DEF Calm, Types, Where, Beheaded
<1>2. op.c \in Cluster \ dirc /\ fat[op.c] # Free /\ h.first # 0
  BY Zenon, <1>0, <1>1 DEF Held, Place
<1>3. \A s \in DirSlots : slots'[s] = slots[s]
  BY Zenon, <1>0, <1>1, <1>2, Overwritten
<1>4. ASSUME h' \in FileHandle, op' \in Call, Where', Counts', h'.at = h.at, h'.first = h.first,
             (\A e, x : Unled(e, x) => Unled(e, x)') => Held'
      PROVE  IInv'
  <2>1. IsOpen'
    BY Zenon, <1>1, <1>4 DEF IsOpen
  <2>2. (\A e, x : Unled(e, x) => Unled(e, x)') => Handle'
    BY Zenon, <1>0, <1>1, <1>2, <1>3, <1>4, HandleGrows
  <2>3. slots' = Zeroed(op.c) \/ slots' = Scribbled(op.c)
    BY Zenon, <1>0
  <2> QED BY Zenon, <1>0, <1>1, <1>2, <1>4, <2>1, <2>2, <2>3, OverwriteStep
<1>5. CASE op' = Idle /\ h' = h
  <2>1. op' \in Call /\ Where' /\ Counts' /\ Held'
    BY <1>5, Returned
  <2> QED BY Zenon, <1>1, <1>4, <1>5, <2>1
<1>6. ASSUME op.pc = "pos", NEW z \in {h.size, h.off + 1}, h' = [h EXCEPT !.off = h.off + 1, !.size = z],
             op' = IF op.n > 1 THEN [op EXCEPT !.n = op.n - 1] ELSE [op EXCEPT !.pc = "dirent"]
      PROVE  IInv'
  <2>1. op.n >= 1 /\ h.off + op.n <= MaxSize
    BY <1>1, <1>6 DEF Counts
  <2>2. h.off + 1 \in Length /\ z \in Length /\ (op.n > 1 => op.n - 1 \in Length)
    BY <1>1, <1>6, <2>1, FatAssumption DEF Length
  <2>3. h'.at = h.at /\ h'.first = h.first /\ h'.off = h.off + 1 /\ h' \in FileHandle
    BY Zenon, <1>1, <1>6, <2>2 DEF FileHandle
  <2>4. /\ op'.call = op.call /\ op'.at = op.at /\ op'.c = op.c /\ op' \in Call
        /\ \/ op'.pc = "pos" /\ op.n > 1 /\ op'.n = op.n - 1
           \/ op'.pc = "dirent"
    BY <1>1, <1>6, <2>2 DEF Call, Steps
  <2>5. Where'
    BY Zenon, <1>0, <1>1, <1>6, <2>3, <2>4, FileCall
  <2>6. Counts'
    <3>1. op.n \in Int /\ h.off \in Int
      BY <1>1 DEF Length
    <3> QED BY <2>1, <2>3, <2>4, <3>1, FatAssumption DEF Counts
  <2>7. Held'
    <3>1. NewCluster' /\ Blank' /\ Target' /\ Head'
      BY Zenon, <2>4 DEF NewCluster, Blank, Target, Head
    <3>2. Place'
      BY Zenon, <1>0, <1>2, <2>3, <2>4 DEF Place
    <3> QED BY <3>1, <3>2 DEF Held
  <2> QED BY Zenon, <1>4, <2>3, <2>4, <2>5, <2>6, <2>7
<1>7. ASSUME op.pc = "tzero",
             \/ op.i = op.n /\ op' = [op EXCEPT !.pc = "commit"] /\ h' = [h EXCEPT !.size = op.n]
             \/ op.i # op.n /\ op' = [op EXCEPT !.pc = "extend"] /\ h' = h
      PROVE  IInv'
  <2>1. h'.at = h.at /\ h'.first = h.first /\ h' \in FileHandle
    BY <1>1, <1>7 DEF FileHandle
  <2>2. /\ op'.call = op.call /\ op'.at = op.at /\ op'.c = op.c /\ op'.i = op.i /\ op'.n = op.n
        /\ op' \in Call
        /\ op'.pc = "commit" \/ (op'.pc = "extend" /\ op.i # op.n /\ h' = h)
    BY <1>1, <1>7 DEF Call, Steps
  <2>3. Where'
    BY Zenon, <1>0, <1>1, <1>7, <2>1, <2>2, FileCall
  <2>4. Counts'
    BY <1>1, <1>7, <2>2 DEF Counts, Length
  <2>5. Held'
    <3>1. NewCluster' /\ Blank' /\ Target' /\ Head'
      BY Zenon, <2>2 DEF NewCluster, Blank, Target, Head
    <3>2. Place'
      BY Zenon, <1>0, <1>2, <2>1, <2>2 DEF Place
    <3> QED BY Zenon, <3>1, <3>2 DEF Held
  <2> QED BY Zenon, <1>4, <2>1, <2>2, <2>3, <2>4, <2>5
<1>8. CASE WriteData
  <2>1. op.pc = "pos"
    BY <1>8 DEF WriteData
  <2> QED BY Zenon, <1>5, <1>6, <1>8, <2>1 DEF WriteData, Return
<1>9. CASE TruncZero
  <2>1. op.pc = "tzero"
    BY <1>9 DEF TruncZero
  <2> QED BY Zenon, <1>5, <1>7, <1>9, <2>1 DEF TruncZero, Return
<1> QED BY <1>8, <1>9

--------------------------------------------------------------------------------
(* The directory grows by a blank cluster.                                     *)

(* A cluster nothing leads to, linked behind the last of the directory.        *)
LEMMA Extend ==
  ASSUME Types, Chained, Directory, NEW d, NEW last \in dirc, d \notin dirc, fat[last] = EOC,
         Unled(d, NoSlot), fat[d] = EOC, ~Exposed, ~Exposed', slots' = slots,
         \A s \in Slot : s[1] = d => slots[s].kind \notin Live,
         fat' = [fat EXCEPT ![last] = d], dirc' = dirc \cup {d}
  PROVE  /\ Chained' /\ Directory' /\ \A e, x : e # d /\ Unled(e, x) => Unled(e, x)'
         /\ \A e \in Cluster : fat[e] # Free => fat'[e] # Free
<1> USE ConstantFacts
<1>1. d \in Cluster /\ d # Root /\ (\A q \in Cluster : fat[q] # d) /\ last \in Cluster /\ last # d
  BY Zenon DEF Unled, Types
<1>2. \A e \in Cluster : fat'[e] = IF e = last THEN d ELSE fat[e]
  BY Zenon, <1>1 DEF Types
<1>3. Entries' = Entries /\ Entries \subseteq Slot
  BY Zenon DEF Entries, DirSlots
<1>4. ASSUME NEW e, NEW x, e # d, Unled(e, x) PROVE Unled(e, x)'
  BY Zenon, <1>2, <1>3, <1>4 DEF Unled
<1>5. Chained'
  <2>1. ASSUME NEW s \in Entries', slots'[s].first # 0
        PROVE  Unled(slots[s].first, s)' /\ fat'[slots'[s].first] # Free
    <3>1. Unled(slots[s].first, s) /\ fat[slots[s].first] # Free /\ slots[s].first # d
      BY Zenon, <1>3, <2>1 DEF Chained, Unled
    <3>2. slots[s].first \in Cluster
      BY Zenon, <3>1 DEF Unled
    <3> QED BY Zenon, <3>1, <3>2, <1>1, <1>2, <1>4
  <2>2. ASSUME NEW e \in Cluster, NEW q \in Cluster, fat'[e] = fat'[q], fat'[e] \in Cluster
        PROVE  e = q
    <3>1. CASE e = last \/ q = last
      BY Zenon, <1>1, <1>2, <2>2, <3>1
    <3>2. CASE e # last /\ q # last
      BY <1>2, <2>2, <3>2 DEF Chained
    <3> QED BY Zenon, <3>1, <3>2
  <2>3. ASSUME NEW e \in Cluster
        PROVE  fat'[e] # Root /\ (fat'[e] \in Cluster => fat'[fat'[e]] # Free)
    <3>1. CASE e = last
      BY SMTT(30), <1>1, <1>2, <3>1, FatAssumption
    <3>2. CASE e # last
      <4>1. fat'[e] = fat[e] /\ fat[e] # Root /\ (fat[e] \in Cluster => fat[fat[e]] # Free)
        BY Zenon, <1>2, <3>2 DEF Chained
      <4> QED BY Zenon, <1>1, <1>2, <4>1, FatAssumption
    <3> QED BY Zenon, <3>1, <3>2
  <2> QED BY Zenon, <2>1, <2>2, <2>3 DEF Chained
<1>6. Directory'
  <2>1. ASSUME NEW c \in dirc', c # Root PROVE \E p \in dirc' : fat'[p] = c
    <3>1. CASE c = d
      BY Zenon, <1>1, <1>2, <3>1
    <3>2. CASE c \in dirc
      <4>1. PICK p \in dirc : fat[p] = c
        BY Zenon, <2>1, <3>2 DEF Directory
      <4>2. p \in Cluster /\ p # last
        BY Zenon, <4>1, <3>2 DEF Types
      <4> QED BY Zenon, <4>1, <4>2, <1>2
    <3> QED BY Zenon, <3>1, <3>2
  <2>2. ASSUME NEW c \in dirc' PROVE fat'[c] # Free /\ (fat'[c] \in Cluster => fat'[c] \in dirc')
    BY SMTT(30), <1>1, <1>2 DEF Directory, Types
  <2> QED BY Zenon, <2>1, <2>2 DEF Directory
<1>7. \A e \in Cluster : fat[e] # Free => fat'[e] # Free
  BY Zenon, <1>1, <1>2
<1> QED BY Zenon, <1>4, <1>5, <1>6, <1>7

(* The directory is grown, or the link refused.                                *)
LEMMA GrowLinkStep ==
  ASSUME IInv, GrowLink
  PROVE  IInv'
<1>0. op.pc = "glink" /\ h' = h /\ UNCHANGED <<slots, fsi, mounted, alloc, torn>>
  BY DEF GrowLink
<1>1. /\ Types /\ Chained /\ Directory /\ Handle /\ Held /\ Where /\ mounted /\ ~torn
      /\ Calm /\ op \in Call /\ ~Beheaded /\ op.pc # "commit" /\ op.pc # "idle" /\ ~Exposed
      /\ op.call \in {"create", "rename", "mkdir"}
  BY Zenon, <1>0, Running, CallOf, NotExposed DEF Calm, Types, Beheaded
<1>2. /\ op.d \in Cluster \ dirc /\ fat[op.d] = EOC /\ Unled(op.d, NoSlot)
      /\ IsOpen => h.first # op.d
      /\ \A s \in Slot : s[1] = op.d => slots[s].kind \notin Live
  BY Zenon, <1>0, <1>1 DEF Held, NewCluster, Blank
<1>3. PICK last \in dirc :
        /\ fat[last] = EOC
        /\ \/ /\ FatSet(last, op.d)
              /\ op' = [op EXCEPT !.d = 0, !.pc = "reserve"]
           \/ /\ FatSetFails(last, op.d)
              /\ op' = [op EXCEPT !.c = last, !.pc = "undo"]
        /\ dirc' = IF fat' # fat THEN dirc \cup {op.d} ELSE dirc
  BY Zenon DEF GrowLink
<1>4. /\ op'.call = op.call /\ op'.at = op.at /\ op'.old = op.old /\ op' \in Call
      /\ \/ op'.pc = "reserve"
         \/ op'.pc = "undo" /\ op'.d = op.d
  <2>1. last \in MaybeCluster /\ 0 \in MaybeCluster
    BY Zenon, <1>1, ConstantFacts DEF Types
  <2> QED BY Zenon, <1>1, <1>3, <2>1 DEF Call, Steps
<1>5. ~Exposed'
  BY Zenon, <1>4 DEF Exposed
<1>6. /\ Chained' /\ Directory' /\ dirc \subseteq dirc' /\ dirc' \in SUBSET Cluster
      /\ \A e, x : e # op.d /\ Unled(e, x) => Unled(e, x)'
      /\ \A e \in Cluster : fat[e] # Free => fat'[e] # Free
      /\ op.d \notin dirc' => fat' = fat
      /\ fat'[op.d] = fat[op.d]
  <2>1. CASE fat' = fat
    <3>1. dirc' = dirc
      BY <1>3, <2>1
    <3>2. Kept
      BY Zenon, <1>0, <1>1, <3>1, CalmKept
    <3> QED BY Zenon, <1>1, <2>1, <3>1, <3>2, SameTable DEF Types
  <2>2. CASE fat' # fat
    <3>1. fat' = [fat EXCEPT ![last] = op.d] /\ dirc' = dirc \cup {op.d}
      BY Zenon, <1>3, <2>2 DEF FatSet, FatSetFails
    <3>2. fat'[op.d] = fat[op.d]
      BY Zenon, <1>1, <1>2, <3>1 DEF Types
    <3>3. /\ Chained' /\ Directory'
          /\ \A e, x : e # op.d /\ Unled(e, x) => Unled(e, x)'
          /\ \A e \in Cluster : fat[e] # Free => fat'[e] # Free
      BY Zenon, <1>0, <1>1, <1>2, <1>3, <1>5, <3>1, Extend
    <3> QED BY Zenon, <1>1, <1>2, <3>1, <3>2, <3>3 DEF Types
  <2> QED BY Zenon, <2>1, <2>2
<1>7. Handle'
  <2>1. \A c, x : c = h.first /\ Unled(c, x) /\ IsOpen => Unled(c, x)'
    BY Zenon, <1>2, <1>6
  <2>2. CASE IsOpen
    BY Zenon, <1>0, <1>1, <1>2, <1>6, <2>1, <2>2, HandleKept
  <2>3. CASE ~IsOpen
    BY Zenon, <1>0, <2>3 DEF Handle, IsOpen
  <2> QED BY <2>2, <2>3
<1>8. Where'
  BY Zenon, <1>0, <1>1, <1>4, <1>6, NamedCall
<1>9. Counts'
  BY Zenon, <1>4 DEF Counts
<1>10. Held'
  <2>1. Blank' /\ Target' /\ Place' /\ Head'
    BY Zenon, <1>4 DEF Blank, Target, Place, Head
  <2>2. NewCluster'
    <3>1. ASSUME op'.pc = "undo" PROVE op'.d \notin dirc' => Unled(op.d, NoSlot)'
      <4>1. ASSUME op.d \notin dirc' PROVE Unled(op.d, NoSlot)'
        <5>1. fat' = fat /\ dirc' = dirc
          BY Zenon, <1>2, <1>3, <1>6, <4>1
        <5>2. Kept
          BY Zenon, <1>0, <1>1, <5>1, CalmKept
        <5>3. \A e, x : Unled(e, x) => Unled(e, x)'
          BY Zenon, <1>1, <5>1, <5>2, SameTable
        <5> QED BY Zenon, <1>2, <1>4, <3>1, <5>3
      <4> QED BY Zenon, <1>4, <3>1, <4>1
    <3> QED BY Zenon, <1>0, <1>2, <1>4, <1>6, <3>1 DEF NewCluster, IsOpen
  <2> QED BY Zenon, <2>1, <2>2 DEF Held
<1>11. last \in Cluster /\ fat[last] # Free
  BY Zenon, <1>1, <1>3, ConstantFacts DEF Types
<1>12. FatSet(last, op.d) \/ FatSetFails(last, op.d)
  BY <1>3
<1> QED BY Zenon, <1>0, <1>1, <1>2, <1>4, <1>6, <1>7, <1>8, <1>9, <1>10, <1>11, <1>12, RelinkStep

--------------------------------------------------------------------------------
(* The same steps leave every cluster accounted for.                           *)

(* A cluster is taken: whoever took it holds it.                               *)
LEMMA ClaimReached ==
  ASSUME Types, Accounted, Calm, ~Taken, ~Exposed', slots' = slots, dirc' = dirc,
         NEW c \in FreeClusters, fat' = [fat EXCEPT ![c] = EOC], Holding(c)',
         IsOpen => IsOpen' /\ (h'.first = h.first \/ h.first = 0)
  PROVE  Reached' /\ Files'
<1> USE ConstantFacts DEF FreeClusters
<1>1. Entries' = Entries
  BY Zenon, NotExposed DEF Calm, Entries, DirSlots
<1>2. \A e \in Cluster : fat'[e] = IF e = c THEN EOC ELSE fat[e]
  BY Zenon DEF Types
<1>3. ASSUME NEW e \in Cluster, Led(e) PROVE Led(e)'
  <2>1. \A p \in Cluster : fat[p] = e => fat'[p] = e
    BY Zenon, <1>2
  <2> QED BY Zenon, <1>1, <1>3, <2>1 DEF Led
<1>4. ASSUME NEW e \in Cluster, Holding(e) PROVE Holding(e)'
  <2>1. IsOpen /\ e = h.first /\ e # 0
    BY Zenon, <1>4, FatAssumption DEF Holding, Calm
  <2> QED BY Zenon, <2>1 DEF Holding
<1>5. ASSUME NEW e \in Cluster, fat'[e] # Free PROVE Led(e)' \/ Holding(e)'
  BY Zenon, <1>2, <1>3, <1>4, <1>5 DEF Accounted, Reached
<1> QED BY Zenon, <1>1, <1>5 DEF Accounted, Reached, Files

(* A cluster is taken for a directory.                                         *)
LEMMA GrowAllocAccounted ==
  ASSUME IInv, Accounted, GrowAlloc \/ MkdirAlloc, faults' = 0
  PROVE  Accounted'
<1>0. op.pc \in {"reserve", "mkalloc"} /\ h' = h /\ slots' = slots /\ dirc' = dirc
  BY Zenon DEF GrowAlloc, MkdirAlloc
<1>1. Calm /\ ~Taken /\ Types /\ TypeNumbers /\ Handle /\ op \in Call
  BY Zenon, <1>0, Running, TypeParts DEF Calm, Taken, Types
<1>2. ~Refused
  BY Zenon, <1>1, FaultCount
<1>3. IsOpen => h.at \in Entries /\ IsOpen' /\ h'.first = h.first
  BY Zenon, <1>0, <1>1, OpenEntry DEF IsOpen
<1>4. CASE op' = Idle /\ fat' = fat
  <2>1. op'.pc = "idle" /\ ~Exposed'
    BY Zenon, <1>4 DEF Idle, Exposed
  <2>2. Reached' /\ Files'
    BY Zenon, <1>0, <1>1, <1>3, <1>4, <2>1, StillReached
  <2>3. Filed' /\ AtEnd'
    BY Zenon, <1>0, <2>1, FiledKept DEF Accounted, Growing, AtEnd, Beheaded
  <2> QED BY Zenon, <2>2, <2>3 DEF Accounted
<1>5. ASSUME NEW c \in FreeClusters, fat' = [fat EXCEPT ![c] = EOC],
             NEW pc \in {"gzero", "mkinit"}, op' = [op EXCEPT !.d = c, !.pc = pc]
      PROVE  Accounted'
  <2>1. op'.pc = pc /\ op'.d = c
    BY Zenon, <1>1, <1>5 DEF Call
  <2>2. ~Exposed' /\ Holding(c)'
    BY Zenon, <2>1 DEF Exposed, Holding, Taken
  <2>3. Reached' /\ Files'
    BY Zenon, <1>0, <1>1, <1>3, <1>5, <2>2, ClaimReached
  <2>4. Filed' /\ AtEnd'
    BY Zenon, <1>0, <2>1, FiledKept DEF Accounted, Growing, AtEnd, Beheaded
  <2> QED BY Zenon, <2>3, <2>4 DEF Accounted
<1> QED BY Zenon, <1>2, <1>4, <1>5 DEF GrowAlloc, MkdirAlloc, FatSet, FatSetFails, Return

(* A cluster is taken for a file.                                              *)
LEMMA FileAllocAccounted ==
  ASSUME IInv, Accounted, WriteAlloc \/ TruncAlloc, faults' = 0, ~leaky', leaky \in BOOLEAN
  PROVE  Accounted'
<1>0. op.pc \in {"pos", "extend"} /\ slots' = slots /\ dirc' = dirc
  BY Zenon DEF WriteAlloc, TruncAlloc
<1>1. /\ Calm /\ ~Taken /\ Types /\ TypeNumbers /\ Handle /\ op \in Call /\ IsOpen /\ Counts
      /\ h \in FileHandle /\ op.i \in Length /\ h.size \in Length
  BY Zenon, <1>0, Running, CallOf, TypeParts, CallFacts, HandleFacts DEF Calm, Taken, Types, Where
<1>2. ~Refused
  BY Zenon, <1>1, FaultCount
<1>3. h.at \in Entries
  BY Zenon, <1>1, OpenEntry
<1>4. CASE op' = Idle /\ fat' = fat /\ h' = h /\ leaky' = (leaky \/ h.first # slots[h.at].first)
  <2>1. op'.pc = "idle" /\ ~Exposed'
    BY Zenon, <1>4 DEF Idle, Exposed
  <2>2. Reached' /\ Files'
    BY Zenon, <1>0, <1>1, <1>3, <1>4, <2>1, StillReached
  <2>3. Agree
    BY Zenon, <1>0, <1>1, <1>4 DEF Accounted, Filed
  <2>4. Filed' /\ AtEnd'
    BY Zenon, <1>0, <1>4, <2>1, <2>3 DEF Filed, Agree, Growing, AtEnd, Beheaded
  <2> QED BY Zenon, <2>2, <2>4 DEF Accounted
<1>5. ASSUME NEW c \in FreeClusters, fat' = [fat EXCEPT ![c] = EOC], h' = [h EXCEPT !.first = c],
             \/ op.pc = "pos" /\ op.c = 0 /\ op' = [op EXCEPT !.c = c, !.i = h.off]
             \/ op.pc = "extend" /\ op.i = 0 /\ op' = [op EXCEPT !.c = c, !.i = 1, !.pc = "tzero"]
      PROVE  Accounted'
  <2>1. h'.first = c /\ h'.at = h.at /\ h'.size = h.size /\ IsOpen'
    BY Zenon, <1>1, <1>5 DEF FileHandle, IsOpen
  <2>2. op'.c = c /\ (op.pc = "pos" => op'.pc = "pos") /\ (op.pc = "extend" => op'.pc = "tzero")
    BY Zenon, <1>1, <1>5 DEF Call
  <2>3. h.first = 0 /\ slots[h.at].first = 0 /\ c # 0 /\ (op.pc = "extend" => h.size = 0)
    BY Zenon, <1>0, <1>1, <1>5, FatAssumption DEF Accounted, Filed, Agree, FreeClusters, Counts
  <2>4. ~Exposed' /\ Holding(c)'
    BY Zenon, <1>0, <2>1, <2>2 DEF Exposed, Holding
  <2>5. Reached' /\ Files'
    BY Zenon, <1>0, <1>1, <1>5, <2>1, <2>3, <2>4, ClaimReached
  <2>6. Filed' /\ AtEnd'
    BY Zenon, <1>0, <2>1, <2>2, <2>3 DEF Filed, Growing, AtEnd, Beheaded
  <2> QED BY Zenon, <2>5, <2>6 DEF Accounted
<1>6. ASSUME NEW c \in FreeClusters, fat' = [fat EXCEPT ![c] = EOC], h' = h,
             \/ op.pc = "pos" /\ op.c # 0 /\ fat[op.c] = EOC /\ op' = [op EXCEPT !.d = c, !.pc = "link"]
             \/ op.pc = "extend" /\ op' = [op EXCEPT !.d = c, !.pc = "tlink"]
      PROVE  Accounted'
  <2>1. op'.d = c /\ op'.c = op.c /\ (op.pc = "pos" => op'.pc = "link") /\ (op.pc = "extend" => op'.pc = "tlink")
    BY Zenon, <1>1, <1>6 DEF Call
  <2>2. ~Exposed' /\ Holding(c)' /\ IsOpen'
    BY Zenon, <1>0, <1>1, <1>6, <2>1 DEF Exposed, Holding, Taken, IsOpen
  <2>3. Reached' /\ Files'
    BY Zenon, <1>0, <1>1, <1>6, <2>2, ClaimReached
  <2>4. AtEnd'
    <3>1. op.pc = "pos" => op.c \in Cluster
      BY Zenon, <1>1, <1>6, CallFacts DEF MaybeCluster
    <3> QED BY Zenon, <1>0, <1>1, <1>6, <2>1, <3>1 DEF AtEnd, Beheaded, Types
  <2>5. Filed'
    BY Zenon, <1>0, <1>1, <1>6, <2>1 DEF Accounted, Filed, Agree, Growing
  <2> QED BY Zenon, <2>3, <2>4, <2>5 DEF Accounted
<1>7. CASE WriteAlloc
  <2>1. op.pc = "pos" /\ (op.c = 0 \/ fat[op.c] = EOC)
    BY Zenon, <1>7 DEF WriteAlloc
  <2>2. ASSUME NEW c \in FreeClusters, FatSet(c, EOC), op.c = 0,
               op' = [op EXCEPT !.c = c, !.i = h.off], h' = [h EXCEPT !.first = c]
        PROVE  Accounted'
    <3>1. fat' = [fat EXCEPT ![c] = EOC]
      BY Zenon, <2>2 DEF FatSet
    <3>2. \/ op.pc = "pos" /\ op.c = 0 /\ op' = [op EXCEPT !.c = c, !.i = h.off]
          \/ op.pc = "extend" /\ op.i = 0 /\ op' = [op EXCEPT !.c = c, !.i = 1, !.pc = "tzero"]
      BY Zenon, <2>1, <2>2
    <3> QED BY Zenon, <1>5, <2>2, <3>1, <3>2
  <2>3. ASSUME NEW c \in FreeClusters, FatSet(c, EOC), op.c # 0,
               op' = [op EXCEPT !.d = c, !.pc = "link"], h' = h
        PROVE  Accounted'
    <3>1. fat' = [fat EXCEPT ![c] = EOC]
      BY Zenon, <2>3 DEF FatSet
    <3>2. \/ op.pc = "pos" /\ op.c # 0 /\ fat[op.c] = EOC /\ op' = [op EXCEPT !.d = c, !.pc = "link"]
          \/ op.pc = "extend" /\ op' = [op EXCEPT !.d = c, !.pc = "tlink"]
      BY Zenon, <2>1, <2>3
    <3> QED BY Zenon, <1>6, <2>3, <3>1, <3>2
  <2> QED BY Zenon, <1>2, <1>4, <1>7, <2>2, <2>3 DEF WriteAlloc, FatSetFails, Return
<1>8. CASE TruncAlloc
  BY Zenon, <1>0, <1>2, <1>4, <1>5, <1>6, <1>8 DEF TruncAlloc, FatSet, FatSetFails, Return
<1> QED BY Zenon, <1>7, <1>8

(* A cluster is linked where a chain ended.                                    *)
LEMMA LinkReached ==
  ASSUME Types, Accounted, Taken, Calm, NEW p \in Cluster, fat[p] = EOC, fat' = [fat EXCEPT ![p] = op.d],
         Entries \subseteq Entries', \A s \in Entries : slots'[s] = slots[s], h' = h
  PROVE  Reached'
<1>1. \A e \in Cluster : fat'[e] = IF e = p THEN op.d ELSE fat[e]
  BY Zenon DEF Types
<1>2. ASSUME NEW e \in Cluster, Led(e) PROVE Led(e)'
  <2>1. \A q \in Cluster : fat[q] = e => fat'[q] = e
    BY Zenon, <1>1, ConstantFacts
  <2> QED BY Zenon, <1>2, <2>1 DEF Led
<1>3. ASSUME NEW e \in Cluster, Holding(e) PROVE Led(e)' \/ Holding(e)'
  <2>1. CASE e = op.d
    BY Zenon, <1>1, <2>1 DEF Led
  <2>2. CASE IsOpen /\ e = h.first
    BY Zenon, <2>2 DEF Holding, IsOpen
  <2> QED BY Zenon, <1>3, <2>1, <2>2 DEF Holding, Calm
<1>4. ASSUME NEW e \in Cluster, fat'[e] # Free PROVE fat[e] # Free
  BY Zenon, <1>1, <1>4, ConstantFacts
<1> QED BY Zenon, <1>2, <1>3, <1>4 DEF Accounted, Reached

(* A directory's chain leads to its new cluster.                               *)
LEMMA GrowLinkAccounted ==
  ASSUME IInv, Accounted, GrowLink, faults' = 0
  PROVE  Accounted'
<1>0. op.pc = "glink" /\ h' = h /\ slots' = slots
  BY DEF GrowLink
<1>1. Calm /\ Taken /\ Types /\ TypeNumbers /\ op \in Call /\ Held
  BY Zenon, <1>0, Running, TypeParts DEF Calm, Taken, Types
<1>2. ~Refused
  BY Zenon, <1>1, FaultCount
<1>3. PICK last \in dirc :
        /\ fat[last] = EOC /\ fat' = [fat EXCEPT ![last] = op.d]
        /\ op' = [op EXCEPT !.d = 0, !.pc = "reserve"]
        /\ dirc' = IF fat' # fat THEN dirc \cup {op.d} ELSE dirc
  BY <1>2 DEF GrowLink, FatSet, FatSetFails
<1>4. op'.pc = "reserve" /\ last \in Cluster
  BY Zenon, <1>1, <1>3 DEF Call, Types
<1>5. ~Exposed' /\ Entries = {s \in DirSlots : slots[s].kind \in Live}
      /\ Entries' = {s \in DirSlots' : slots[s].kind \in Live}
  BY Zenon, <1>0, <1>1, <1>4, NotExposed DEF Calm, Exposed, Entries
<1>6. Entries' = Entries
  <2>1. DirSlots \subseteq DirSlots' /\ \A s \in DirSlots' : s \in DirSlots \/ (s \in Slot /\ s[1] = op.d)
    BY <1>3 DEF DirSlots
  <2>2. \A s \in Slot : s[1] = op.d => slots[s].kind \notin Live
    BY Zenon, <1>0, <1>1 DEF Held, Blank
  <2> QED BY Zenon, <1>5, <2>1, <2>2
<1>7. Reached'
  BY Zenon, <1>0, <1>1, <1>3, <1>4, <1>6, LinkReached
<1>8. Files'
  BY Zenon, <1>0, <1>6 DEF Accounted, Files
<1>9. Filed' /\ AtEnd'
  BY Zenon, <1>0, <1>4, FiledKept DEF Accounted, Growing, AtEnd, Beheaded
<1> QED BY Zenon, <1>7, <1>8, <1>9 DEF Accounted

(* A file's chain leads to its new cluster.                                    *)
LEMMA LinkAccounted ==
  ASSUME IInv, Accounted, WriteLink \/ TruncLink, faults' = 0, ~leaky', leaky \in BOOLEAN
  PROVE  Accounted'
<1>0. op.pc \in {"link", "tlink"} /\ h' = h /\ slots' = slots /\ dirc' = dirc
  BY DEF WriteLink, TruncLink
<1>1. Calm /\ Taken /\ Types /\ TypeNumbers /\ op \in Call /\ Held /\ IsOpen
  BY Zenon, <1>0, Running, CallOf, TypeParts DEF Calm, Taken, Types, Where
<1>2. ~Refused
  BY Zenon, <1>1, FaultCount
<1>3. /\ fat' = [fat EXCEPT ![op.c] = op.d]
      /\ \/ op.pc = "link" /\ op' = [op EXCEPT !.c = op.d, !.d = 0, !.i = op.i + 1, !.pc = "pos"]
         \/ op.pc = "tlink" /\ op' = [op EXCEPT !.c = op.d, !.d = 0, !.i = op.i + 1, !.pc = "tzero"]
  BY Zenon, <1>2 DEF WriteLink, TruncLink, FatSet, FatSetFails
<1>4. /\ op'.c = op.d /\ (op.pc = "link" => op'.pc = "pos") /\ (op.pc = "tlink" => op'.pc = "tzero")
      /\ op.c \in Cluster /\ op.d \in Cluster
  BY Zenon, <1>0, <1>1, <1>3 DEF Call, Held, Place, NewCluster
<1>5. fat[op.c] = EOC
  <2>1. op.pc = "tlink" => leaky' = (leaky \/ fat[op.c] # EOC)
    BY DEF TruncLink, WriteLink
  <2> QED BY Zenon, <1>0, <2>1 DEF Accounted, AtEnd, Beheaded
<1>6. ~Exposed'
  BY Zenon, <1>0, <1>4 DEF Exposed
<1>7. Entries' = Entries
  BY Zenon, <1>0, <1>1, <1>6, NotExposed DEF Calm, Entries, DirSlots
<1>8. Reached'
  BY Zenon, <1>0, <1>1, <1>3, <1>4, <1>5, <1>7, LinkReached
<1>9. Files'
  BY Zenon, <1>0, <1>7 DEF Accounted, Files
<1>10. Filed' /\ AtEnd'
  BY Zenon, <1>0, <1>1, <1>4, FatAssumption DEF Accounted, Filed, Agree, Growing, AtEnd, Beheaded, IsOpen
<1> QED BY Zenon, <1>8, <1>9, <1>10 DEF Accounted

(* A cluster outside the directory is overwritten.                             *)
LEMMA OverwriteReached ==
  ASSUME Accounted, Calm, ~Exposed', fat' = fat, dirc' = dirc, \A s \in DirSlots : slots'[s] = slots[s],
         h'.at = h.at, h'.first = h.first, Taken => Taken' /\ op'.d = op.d
  PROVE  Reached' /\ Files'
<1>1. Entries' = Entries /\ Entries \subseteq DirSlots
  <2>1. Entries = {s \in DirSlots : slots[s].kind \in Live}
    BY Zenon, NotExposed DEF Calm
  <2>2. Entries' = {s \in DirSlots : slots'[s].kind \in Live}
    BY Zenon DEF Entries, DirSlots
  <2> QED BY Zenon, <2>1, <2>2
<1>2. \A c : Led(c) => Led(c)'
  BY Zenon, <1>1 DEF Led
<1>3. \A c : Holding(c) => Holding(c)'
  BY Zenon DEF Holding, IsOpen, Calm
<1> QED BY Zenon, <1>1, <1>2, <1>3 DEF Accounted, Reached, Files

(* A new directory cluster is cleared: no entry is among what it loses.        *)
LEMMA ZeroAccounted ==
  ASSUME IInv, Accounted, GrowZero \/ MkdirInit, faults' = 0
  PROVE  Accounted'
<1>0. op.pc \in {"gzero", "mkinit"} /\ h' = h /\ fat' = fat /\ dirc' = dirc
  BY DEF GrowZero, MkdirInit
<1>1. /\ Calm /\ Taken /\ Types /\ TypeNumbers /\ op \in Call /\ Held /\ Lengths /\ Handle
      /\ op.pc = "mkinit" => op.call = "mkdir"
  BY Zenon, <1>0, Running, CallOf, TypeParts DEF Calm, Taken, Types
<1>2. ~Refused
  BY <1>1, FaultCount
<1>3. /\ slots' = Zeroed(op.d)
      /\ \/ op.pc = "gzero" /\ op' = [op EXCEPT !.pc = "glink"]
         \/ op.pc = "mkinit" /\ op' = [op EXCEPT !.pc = "insert"]
  BY <1>2 DEF GrowZero, MkdirInit
<1>4. /\ op'.d = op.d /\ op'.call = op.call
      /\ op'.pc = "glink" \/ (op'.pc = "insert" /\ op.call = "mkdir")
  BY <1>1, <1>3 DEF Call
<1>5. \A s \in DirSlots : slots'[s] = slots[s]
  <2>1. op.d \in Cluster \ dirc
    BY Zenon, <1>0, <1>1 DEF Held, NewCluster
  <2> QED BY Zenon, <1>1, <1>3, <2>1, Overwritten
<1>6. ~Exposed' /\ Taken'
  BY Zenon, <1>4 DEF Exposed, Taken
<1>7. Reached' /\ Files'
  BY Zenon, <1>0, <1>1, <1>4, <1>5, <1>6, OverwriteReached
<1>8. IsOpen => slots'[h.at].first = slots[h.at].first
  BY Zenon, <1>1, <1>5, OpenEntry
<1>9. Filed' /\ AtEnd'
  BY Zenon, <1>0, <1>4, <1>8, FiledKept DEF Accounted, Growing, AtEnd, Beheaded
<1> QED BY <1>7, <1>9 DEF Accounted

(* A data cluster is written: the table and every entry stay as they are.      *)
LEMMA DataAccounted ==
  ASSUME IInv, Accounted, WriteData \/ TruncZero, faults' = 0
  PROVE  Accounted'
<1>0. /\ op.pc \in {"pos", "tzero"} /\ fat' = fat /\ dirc' = dirc /\ slots' = Scribbled(op.c)
      /\ op.pc = "pos" => op.c # 0
  BY DEF WriteData, TruncZero
<1>1. /\ Calm /\ ~Taken /\ Types /\ TypeNumbers /\ op \in Call /\ Held /\ Lengths /\ Handle /\ IsOpen
      /\ h \in FileHandle /\ h.off \in Length /\ h.size \in Length /\ op.n \in Length /\ op.i \in Length
      /\ Counts
  BY Zenon, <1>0, Running, CallOf, TypeParts, HandleFacts, CallFacts DEF Calm, Taken, Types, Where
<1>2. ~Refused
  BY Zenon, <1>1, FaultCount
<1>3. op.c \in Cluster \ dirc /\ h.first # 0
  BY Zenon, <1>0, <1>1 DEF Held, Place
<1>4. \A s \in DirSlots : slots'[s] = slots[s]
  BY Zenon, <1>0, <1>1, <1>3, Overwritten
<1>5. slots'[h.at] = slots[h.at] /\ h.at \in Slot
  BY Zenon, <1>1, <1>4, OpenEntry DEF DirSlots
<1>6. ASSUME op.pc = "pos"
      PROVE  /\ h'.at = h.at /\ h'.first = h.first /\ h'.size \in Int /\ h'.size > 0
             /\ (op'.pc = "pos" /\ op'.c = op.c) \/ op'.pc = "dirent"
  <2>1. /\ h' = [h EXCEPT !.off = h.off + 1, !.size = IF h.off + 1 > h.size THEN h.off + 1 ELSE h.size]
        /\ op' = IF op.n > 1 THEN [op EXCEPT !.n = op.n - 1] ELSE [op EXCEPT !.pc = "dirent"]
    BY <1>2, <1>6 DEF WriteData, TruncZero
  <2>2. /\ h'.at = h.at /\ h'.first = h.first
        /\ h'.size = IF h.off + 1 > h.size THEN h.off + 1 ELSE h.size
    BY <1>1, <2>1 DEF FileHandle
  <2>3. h.off \in Nat /\ h.size \in Nat
    BY <1>1, FatAssumption DEF Length
  <2>4. (op'.pc = "pos" /\ op'.c = op.c) \/ op'.pc = "dirent"
    BY Zenon, <1>1, <1>6, <2>1 DEF Call
  <2> QED BY <2>2, <2>3, <2>4
<1>7. ASSUME op.pc = "tzero"
      PROVE  /\ h'.at = h.at /\ h'.first = h.first
             /\ \/ op'.pc = "commit" /\ h'.size = op.n /\ op.n # 0
                \/ op'.pc = "extend" /\ op'.i # 0 /\ h' = h
  <2>1. \/ op' = [op EXCEPT !.pc = "commit"] /\ h' = [h EXCEPT !.size = op.n]
        \/ op' = [op EXCEPT !.pc = "extend"] /\ h' = h
    BY Zenon, <1>2, <1>7 DEF WriteData, TruncZero
  <2>2. op.i \in Nat /\ op.n \in Nat /\ op.i # 0 /\ op.n # 0
    BY <1>1, <1>7, FatAssumption DEF Length, Counts
  <2> QED BY <1>1, <2>1, <2>2 DEF FileHandle, Call
<1>8. ~Exposed' /\ IsOpen'
  BY Zenon, <1>0, <1>1, <1>3, <1>6, <1>7 DEF Exposed, IsOpen
<1>9. Reached' /\ Files'
  BY Zenon, <1>0, <1>1, <1>4, <1>6, <1>7, <1>8, OverwriteReached
<1>10. AtEnd'
  BY Zenon, <1>0, <1>6, <1>7 DEF AtEnd, Beheaded
<1>11. Filed'
  <2>1. CASE op.pc = "pos"
    <3>1. slots[h.at].first = h.first \/ (slots[h.at].first = 0 /\ h.first # 0)
      BY Zenon, <1>1, <2>1 DEF Accounted, Filed, Agree
    <3>2. /\ h'.at = h.at /\ h'.first = h.first /\ h'.size > 0 /\ h'.size # 0 /\ op.c # 0
          /\ slots'[h'.at] = slots[h.at]
      <4>1. h'.at = h.at /\ h'.first = h.first /\ h'.size > 0
        BY Zenon, <1>6, <2>1
      <4>2. h'.size # 0
        BY <4>1
      <4> QED BY Zenon, <1>0, <1>5, <2>1, <4>1, <4>2
    <3>3. CASE op'.pc = "pos" /\ op'.c = op.c
      BY Zenon, <3>1, <3>2, <3>3 DEF Filed, Agree, Growing
    <3>4. CASE op'.pc = "dirent"
      BY Zenon, <3>1, <3>2, <3>4 DEF Filed, Growing
    <3> QED BY Zenon, <1>6, <2>1, <3>3, <3>4
  <2>2. CASE op.pc = "tzero"
    BY Zenon, <1>0, <1>1, <1>3, <1>5, <1>7, <2>2 DEF Accounted, Filed, Agree, Growing
  <2> QED BY Zenon, <1>0, <2>1, <2>2
<1> QED BY Zenon, <1>9, <1>10, <1>11 DEF Accounted

(* A truncate ends the chain at its new tail: it holds what came after.        *)
LEMMA TruncCutAccounted ==
  ASSUME IInv, Accounted, TruncCut, faults' = 0
  PROVE  Accounted'
<1>0. op.pc = "cut" /\ slots' = slots /\ dirc' = dirc
  BY DEF TruncCut
<1>1. /\ Calm /\ ~Taken /\ Types /\ TypeNumbers /\ op \in Call /\ Held /\ Handle /\ IsOpen
      /\ h \in FileHandle /\ op.n \in Length /\ Counts /\ op.call = "trunc"
  BY Zenon, <1>0, Running, CallOf, TypeParts, CallFacts DEF Calm, Taken, Types, Where
<1>2. ~Refused
  BY <1>1, FaultCount
<1>3. op.c \in Cluster /\ fat[op.c] # Free /\ h.first # 0 /\ op.n # 0 /\ h.at \in Entries /\ Agree
  <2>1. op.n # 0
    <3>1. op.n >= 1
      BY Zenon, <1>0, <1>1 DEF Counts
    <3> QED BY <3>1
  <2>2. op.c \in Cluster /\ fat[op.c] # Free /\ h.first # 0
    BY Zenon, <1>0, <1>1 DEF Held, Place
  <2>3. h.at \in Entries /\ Agree
    BY Zenon, <1>0, <1>1, OpenEntry DEF Accounted, Filed, Growing
  <2> QED BY Zenon, <2>1, <2>2, <2>3
<1>4. CASE fat' = fat /\ h' = [h EXCEPT !.size = op.n] /\ op' = [op EXCEPT !.pc = "commit"]
  <2>1. h'.at = h.at /\ h'.first = h.first /\ h'.size = op.n /\ op'.pc = "commit" /\ IsOpen'
    BY <1>1, <1>4 DEF FileHandle, Call, IsOpen
  <2>2. ~Exposed'
    BY Zenon, <1>3, <2>1 DEF Exposed
  <2>3. Reached' /\ Files'
    BY Zenon, <1>0, <1>1, <1>3, <1>4, <2>1, <2>2, StillReached
  <2>4. Filed' /\ AtEnd'
    BY Zenon, <1>0, <1>3, <2>1 DEF Filed, Agree, Growing, AtEnd, Beheaded
  <2> QED BY <2>3, <2>4 DEF Accounted
<1>5. CASE fat[op.c] # EOC /\ h' = h /\ fat' = [fat EXCEPT ![op.c] = EOC]
           /\ op' = [op EXCEPT !.c = fat[op.c], !.pc = "free"]
  <2>1. op'.c = fat[op.c] /\ op'.pc = "free" /\ op'.call = "trunc" /\ op'.n = op.n
    BY <1>1, <1>5 DEF Call
  <2>2. ~Exposed'
    BY Zenon, <1>3, <2>1 DEF Exposed, FreesAll
  <2>3. Entries' = Entries
    BY Zenon, <1>0, <1>1, <2>2, NotExposed DEF Calm, Entries, DirSlots
  <2>4. \A e \in Cluster : fat'[e] = IF e = op.c THEN EOC ELSE fat[e]
    BY <1>1, <1>5 DEF Types
  <2>5. ASSUME NEW e \in Cluster, Led(e) PROVE Led(e)' \/ Holding(e)'
    <3>1. CASE e = fat[op.c]
      BY Zenon, <2>1, <3>1 DEF Holding
    <3>2. CASE e # fat[op.c]
      <4>1. \A p \in Cluster : fat[p] = e => fat'[p] = e
        BY Zenon, <2>4, <3>2
      <4> QED BY Zenon, <1>0, <2>3, <2>5, <4>1 DEF Led
    <3> QED BY Zenon, <3>1, <3>2
  <2>6. ASSUME NEW e \in Cluster, Holding(e) PROVE Holding(e)'
    BY <1>0, <1>1, <1>5, <2>6 DEF Holding, IsOpen
  <2>7. \A e \in Cluster : fat'[e] # Free => fat[e] # Free
    BY Zenon, <1>3, <2>4
  <2>8. Reached'
    BY Zenon, <2>5, <2>6, <2>7 DEF Accounted, Reached
  <2>9. Files'
    BY Zenon, <1>0, <2>3 DEF Accounted, Files
  <2>10. op'.n = op.n
    BY <1>1, <1>5 DEF Call
  <2>11. Filed' /\ AtEnd'
    BY Zenon, <1>0, <1>3, <1>5, <2>1, <2>10, FiledKept DEF Accounted, Growing, AtEnd, Beheaded
  <2> QED BY <2>8, <2>9, <2>11 DEF Accounted
<1> QED BY <1>2, <1>4, <1>5 DEF TruncCut, FatSet, FatSetFails
================================================================================
