------------------------------- MODULE FatProofs -------------------------------
(* The theorems about Fat, for volumes of every size, any number of names, any *)
(* length of file and any number of refused writes and power losses.           *)
EXTENDS FatGrow, FatEntries, FiniteSetTheorems, TLAPS

--------------------------------------------------------------------------------
(* The invariant holds from the formatted medium on.                           *)

(* Clusters can be counted: there are finitely many.                           *)
LEMMA CountingFacts == Counting
<1>1. NClus \in Nat
  BY FatAssumption, FS_CardinalityType DEF NClus
<1>2. NClus # 0
  BY Zenon, FatAssumption, FS_EmptySet DEF NClus
<1>3. ASSUME NEW F \in SUBSET Cluster
      PROVE  /\ Cardinality(F) \in 0 .. NClus
             /\ \A c \in F : Cardinality(F \ {c}) = Cardinality(F) - 1
             /\ \A c \in Cluster \ F : Cardinality(F \cup {c}) = Cardinality(F) + 1
  <2>1. IsFiniteSet(F) /\ Cardinality(F) <= NClus
    BY FatAssumption, FS_Subset DEF NClus
  <2>2. Cardinality(F) \in Nat
    BY <2>1, FS_CardinalityType
  <2>3. ASSUME NEW c \in F PROVE Cardinality(F \ {c}) = Cardinality(F) - 1
    BY Zenon, <2>1, FS_RemoveElement
  <2>4. ASSUME NEW c \in Cluster \ F PROVE Cardinality(F \cup {c}) = Cardinality(F) + 1
    BY Zenon, <2>1, FS_AddElement
  <2>5. Cardinality(F) \in 0 .. NClus
    BY <1>1, <2>1, <2>2
  <2> QED BY Zenon, <2>3, <2>4, <2>5
<1> QED BY <1>1, <1>2, <1>3 DEF Counting

(* On the formatted medium all clusters but one are free.                      *)
LEMMA InitCount == ASSUME Init PROVE Cardinality(FreeClusters) = NClus - 1
<1>1. FreeClusters = Cluster \ {Root}
  BY FatAssumption DEF Init, FreeClusters, Free, EOC
<1> QED BY Zenon, <1>1, FatAssumption, FS_RemoveElement DEF NClus

(* The formatted medium satisfies the invariant.                               *)
LEMMA InitInvariant == Init => IInv
<1> SUFFICES ASSUME Init PROVE IInv
  OBVIOUS
<1>1. /\ op = Idle /\ op.pc = "idle" /\ op.call = "none" /\ h = Closed /\ h.at = NoSlot /\ h.size = 0
      /\ mounted = FALSE /\ torn = FALSE /\ fsdirty = FALSE /\ dirc = {Root}
  BY DEF Init, Idle, Closed
<1>2. ~IsOpen /\ ~Exposed /\ Entries = {s \in DirSlots : slots[s].kind \in Live}
  BY <1>1 DEF IsOpen, Exposed, Entries
<1>3. ASSUME NEW s \in Slot
      PROVE  slots[s] \in Entry /\ slots[s].kind \notin Live /\ slots[s].size = 0
  <2>1. \A k \in {"end", "junk"} : Mark(k) \in Entry /\ Mark(k).kind \notin Live /\ Mark(k).size = 0
    BY FatAssumption DEF Mark, Entry, Live, Length, MaybeCluster
  <2>2. slots[s] = Mark("end") \/ slots[s] = Mark("junk")
    BY DEF Init
  <2> QED BY <2>1, <2>2
<1>4. \A c \in Cluster : fat[c] = IF c = Root THEN EOC ELSE Free
  BY DEF Init
<1>5. Types
  <2>1. TypeFat
    BY DEF Init, TypeFat
  <2>2. TypeSlots
    <3>1. slots = [s \in Slot |-> slots[s]]
      BY DEF Init
    <3> QED BY Zenon, <1>3, <3>1 DEF TypeSlots
  <2>3. TypeNumbers
    BY CountingFacts, FatAssumption DEF Counting, Init, TypeNumbers
  <2>4. TypeFlags
    BY Zenon, <1>1 DEF TypeFlags
  <2>5. dirc \in SUBSET Cluster /\ h \in FileHandle /\ op \in Call
    BY <1>1, FatAssumption, ConstantFacts
  <2> QED BY <2>1, <2>2, <2>3, <2>4, <2>5, TypeParts
<1>6. Lengths
  BY <1>1, <1>3 DEF Lengths
<1>7. Where /\ Counts
  BY <1>1 DEF Where, StepsOf, Counts
<1>8. Entries = {}
  BY <1>2, <1>3 DEF DirSlots
<1>9. Chained
  BY <1>4, <1>8, ConstantFacts, FatAssumption DEF Chained
<1>10. Directory
  BY <1>1, <1>4, ConstantFacts, FatAssumption DEF Directory
<1>11. Handle
  BY <1>2 DEF Handle
<1>12. Held
  BY <1>1 DEF Held, NewCluster, Blank, Target, Place, Head
<1>13. Counted
  <2>1. fsi = NClus - 1
    BY DEF Init
  <2> QED BY <1>1, <2>1, InitCount DEF Counted
<1> QED BY <1>5, <1>6, <1>7, <1>9, <1>10, <1>11, <1>12, <1>13 DEF IInv

(* Every step keeps the invariant.                                             *)
LEMMA NextInvariant == IInv /\ [Next]_vars => IInv'
<1> SUFFICES ASSUME IInv, [Next]_vars PROVE IInv'
  OBVIOUS
<1>1. ASSUME NEW s \in Slot,
             OpenAppend(s) \/ OpenWrite(s) \/ Reserve(s) \/ BeginUnlink(s) \/ BeginRmdir(s)
      PROVE  IInv'
  BY <1>1, OpenAppendStep, OpenWriteStep, ReserveStep, BeginUnlinkStep
<1>2. ASSUME NEW n \in Names,
             OpenCreate(n) \/ BeginMkdir(n) \/ \E s \in Slot : BeginRename(s, n)
      PROVE  IInv'
  BY <1>2, BeginNameStep
<1>3. ASSUME NEW k \in 1 .. MaxSize, BeginWrite(k) PROVE IInv'
  BY <1>3, BeginWriteStep
<1>4. ASSUME NEW k \in 0 .. MaxSize, BeginTruncate(k) \/ Seek(k) PROVE IInv'
  BY <1>4, BeginTruncateStep, SeekStep
<1>5. CASE TruncateExisting \/ GrowAlloc \/ GrowZero \/ GrowLink \/ Undo \/ Insert
  BY <1>5, TruncateExistingStep, GrowAllocStep, ZeroStep, GrowLinkStep, UndoStep, InsertStep,
     CountingFacts
<1>6. CASE WriteWalk \/ WriteAlloc \/ WriteLink \/ WriteData \/ WriteDirent
  BY <1>6, WriteWalkStep, WriteAllocStep, LinkStep, DataStep, WriteDirentStep, CountingFacts
<1>7. CASE TruncWalk \/ TruncCut \/ TruncAlloc \/ TruncLink \/ TruncZero \/ TruncCommit
  BY <1>7, TruncWalkStep, TruncCutStep, TruncAllocStep, LinkStep, DataStep, TruncCommitStep,
     CountingFacts
<1>8. CASE MkdirAlloc \/ MkdirInit \/ FreeChain \/ Erase
  BY <1>8, GrowAllocStep, ZeroStep, FreeChainStep, EraseStep, CountingFacts
<1>9. CASE Close \/ Unmount \/ Mount \/ PowerLoss
  BY <1>9, CloseStep, UnmountStep, MountStep, PowerLossStep, CountingFacts
<1>10. CASE UNCHANGED vars
  BY <1>10, StutterStep
<1> QED BY <1>1, <1>2, <1>3, <1>4, <1>5, <1>6, <1>7, <1>8, <1>9, <1>10 DEF Next

(* The inductive invariant holds throughout: every call of the driver keeps    *)
(* it, whichever of its sector writes is refused and wherever the power goes.  *)
THEOREM Invariance == Spec => []IInv
BY InitInvariant, NextInvariant, PTL DEF Spec

(* Nothing leads to a free cluster, until a call that frees first, or a        *)
(* rename, is cut short, or the second copy of a directory's link is refused   *)
(* and its cluster freed (priv_free_chain, internal_dir_grow).                 *)
THEOREM NothingDangles == Spec => []NoDangling
<1>1. ASSUME IInv PROVE NoDangling
  <2> SUFFICES ASSUME ~torn, NEW c \in Cluster, NEW x \in Referrers(c) PROVE fat[c] # Free
    BY DEF NoDangling
  <2>1. Chained /\ Directory
    BY <1>1 DEF IInv
  <2>2. \/ x \in Cluster /\ fat[x] = c
        \/ x \in Entries /\ slots[x].first = c
        \/ c = Root
    BY DEF Referrers
  <2>3. c # 0
    BY FatAssumption
  <2> QED BY <2>1, <2>2, <2>3 DEF Chained, Directory
<1> QED BY <1>1, Invariance, PTL

(* Until one of these three happens no cluster has two owners: no two files    *)
(* share one, and none runs into the directory.                                *)
THEOREM OneOwner == Spec => []SingleOwner
<1>1. ASSUME IInv PROVE SingleOwner
  <2> SUFFICES ASSUME ~torn, NEW c \in Cluster, NEW x \in Referrers(c), NEW y \in Referrers(c)
               PROVE  x = y
    BY DEF SingleOwner
  <2>1. Chained
    BY <1>1 DEF IInv
  <2>2. c # 0
    BY FatAssumption
  <2>3. ASSUME NEW z \in Referrers(c)
        PROVE  \/ z \in Cluster /\ fat[z] = c /\ c # Root
               \/ z \in Entries /\ slots[z].first = c /\ Unled(c, z)
               \/ z = NoSlot /\ c = Root
    BY Zenon, <2>1, <2>2, <2>3 DEF Referrers, Chained
  <2>4. CASE x \in Cluster /\ fat[x] = c /\ c # Root
    BY Zenon, <2>1, <2>3, <2>4 DEF Chained, Unled
  <2>5. CASE x \in Entries /\ slots[x].first = c /\ Unled(c, x)
    BY Zenon, <2>3, <2>5 DEF Unled
  <2>6. CASE x = NoSlot /\ c = Root
    BY <2>3, <2>6 DEF Unled
  <2> QED BY <2>3, <2>4, <2>5, <2>6
<1> QED BY <1>1, Invariance, PTL

(* Without refused writes and power losses the tracked free count is the       *)
(* number of free clusters whenever a volume is mounted.                       *)
THEOREM CountExact == Spec => []FreeCountExact
<1>1. IInv => FreeCountExact
  BY DEF IInv, Counted, FreeCountExact
<1> QED BY <1>1, Invariance, PTL

--------------------------------------------------------------------------------
(* A rename has two entries for the file before it erases one.                 *)

Twin ==
  (op.call = "rename" /\ op.pc = "erase") =>
    \E t \in DirSlots : /\ t # op.old /\ slots[t].kind \in Live
                        /\ slots[t].first = slots[op.old].first /\ slots[t].size = slots[op.old].size

(* What the new entry of a rename leaves in place.                             *)
LEMMA RenameInserts ==
  ASSUME IInv, Insert, op.call = "rename", op' # Idle
  PROVE  /\ op'.old = op.old /\ op.old \in DirSlots /\ op.at \in DirSlots /\ op.at # op.old
         /\ slots'[op.old] = slots[op.old] /\ slots[op.old].kind \in Live
         /\ slots'[op.at].kind = slots[op.old].kind
         /\ slots'[op.at].first = slots[op.old].first /\ slots'[op.at].size = slots[op.old].size
<1>1. /\ op.pc = "insert" /\ Types /\ op \in Call /\ Where /\ op.at \in DirSlots
      /\ slots[op.at].kind \notin Live
  BY Zenon, InsertFacts
<1>2. op.old \in DirSlots /\ slots[op.old].kind \in Live /\ op.old # op.at
  BY <1>1 DEF Where
<1>3. op.at \in Slot /\ op.old \in Slot /\ slots[op.old] \in Entry
  BY <1>1, <1>2 DEF DirSlots, Types
<1>4. op' = [op EXCEPT !.at = op.old, !.pc = "erase"]
      /\ slots' = [slots EXCEPT ![op.at] = [slots[op.old] EXCEPT !.name = op.name]]
  BY DEF Insert
<1>5. op'.old = op.old
  BY <1>1, <1>4 DEF Call
<1>6. slots'[op.old] = slots[op.old] /\ slots'[op.at] = [slots[op.old] EXCEPT !.name = op.name]
  BY <1>1, <1>2, <1>3, <1>4 DEF Types
<1>7. /\ slots'[op.at].kind = slots[op.old].kind
      /\ slots'[op.at].first = slots[op.old].first /\ slots'[op.at].size = slots[op.old].size
  BY <1>3, <1>6 DEF Entry
<1> QED BY <1>1, <1>2, <1>5, <1>6, <1>7

(* The second entry stays until the first is erased.                           *)
LEMMA TwinStep == IInv /\ Twin /\ [Next]_vars => Twin'
<1> SUFFICES ASSUME IInv, Twin, [Next]_vars, op'.call = "rename", op'.pc = "erase" PROVE Twin'
  BY DEF Twin
<1>1. CASE UNCHANGED vars
  BY Zenon, <1>1 DEF vars, medium, Twin, DirSlots
<1>2. CASE Next
  <2>1. Insert /\ op' # Idle
    BY <1>2, RenameErases DEF Idle
  <2>2. op.call = "rename" /\ dirc' = dirc /\ DirSlots' = DirSlots
    BY Zenon, <2>1, InsertFacts DEF Insert, Call, DirSlots
  <2> QED BY <2>1, <2>2, RenameInserts DEF Twin
<1> QED BY <1>1, <1>2

(* A rename never takes the file away: at every one of its steps, a power loss *)
(* included, some entry carries the cluster and the length the old one had.    *)
THEOREM RenameSafe == Spec => RenameKeepsFile
<1> DEFINE Kept2 == (op.call = "rename" /\ op.pc \in {"insert", "erase"})
              => \E s \in Slot : s[1] \in dirc' /\ slots'[s].kind \in Live
                                 /\ slots'[s].first = slots[op.old].first
                                 /\ slots'[s].size = slots[op.old].size
<1>1. Init => Twin
  BY DEF Init, Twin, Idle
<1>2. IInv /\ Twin /\ [Next]_vars => [Kept2]_vars
  <2> SUFFICES ASSUME IInv, Twin, Next, op.call = "rename", op.pc \in {"insert", "erase"}
               PROVE  \E s \in Slot : s[1] \in dirc' /\ slots'[s].kind \in Live
                                      /\ slots'[s].first = slots[op.old].first
                                      /\ slots'[s].size = slots[op.old].size
    BY Zenon
  <2>1. Insert \/ Erase \/ PowerLoss
    BY RenameSteps
  <2>2. op.old \in DirSlots /\ slots[op.old].kind \in Live /\ op.old \in Slot /\ op.old[1] \in dirc
        /\ (op.pc = "erase" => op.at = op.old) /\ Types
    BY Running DEF Where, DirSlots
  <2>3. CASE slots' = slots /\ dirc' = dirc
    BY Zenon, <2>2, <2>3
  <2>4. CASE Insert /\ op' # Idle
    <3>1. slots'[op.old] = slots[op.old] /\ dirc' = dirc
      BY Zenon, <2>4, RenameInserts DEF Insert
    <3> QED BY Zenon, <2>2, <3>1
  <2>5. CASE Erase /\ slots' = [slots EXCEPT ![op.at] = Mark("gone")]
    <3>1. op.pc = "erase" /\ dirc' = dirc /\ op.at = op.old
      BY Zenon, <2>2, <2>5 DEF Erase
    <3>2. PICK t \in DirSlots : /\ t # op.old /\ slots[t].kind \in Live
                                /\ slots[t].first = slots[op.old].first
                                /\ slots[t].size = slots[op.old].size
      BY Zenon, <3>1 DEF Twin
    <3>3. t \in Slot /\ t[1] \in dirc /\ slots'[t] = slots[t]
      BY <2>2, <2>5, <3>1, <3>2 DEF DirSlots, Types
    <3> QED BY Zenon, <3>1, <3>2, <3>3
  <2>6. Insert => (op' # Idle \/ (slots' = slots /\ dirc' = dirc))
    <3>1. [op EXCEPT !.at = op.old, !.pc = "erase"] # Idle
      <4>1. [op EXCEPT !.at = op.old, !.pc = "erase"].pc = "erase"
        BY <2>2 DEF Types, Call
      <4> QED BY Zenon, <4>1 DEF Idle
    <3> QED BY <3>1 DEF Insert
  <2>7. (Erase => (slots' = slots \/ slots' = [slots EXCEPT ![op.at] = Mark("gone")]) /\ dirc' = dirc)
        /\ (PowerLoss => slots' = slots /\ dirc' = dirc)
    BY DEF Erase, PowerLoss, medium
  <2> QED BY <2>1, <2>3, <2>4, <2>5, <2>6, <2>7
<1>3. [][Kept2]_vars => RenameKeepsFile
  BY PTL DEF RenameKeepsFile
<1> QED BY <1>1, <1>2, <1>3, Invariance, TwinStep, PTL DEF Spec

--------------------------------------------------------------------------------
(* No cluster is lost.                                                         *)

(* Every step without a fault keeps the clusters accounted for, or says so.    *)
LEMMA NextAccounted ==
  ASSUME IInv, Accounted, ~torn, op.pc # "undo", Next, faults' = 0, leaky \in BOOLEAN, ~leaky'
  PROVE  Accounted'
<1>1. ASSUME NEW s \in Slot,
             OpenAppend(s) \/ OpenWrite(s) \/ Reserve(s) \/ BeginUnlink(s) \/ BeginRmdir(s)
      PROVE  Accounted'
  BY Zenon, <1>1, OpenAppendAccounted, BeginAccounted, WalkAccounted
<1>2. ASSUME NEW n \in Names, OpenCreate(n) \/ BeginMkdir(n) \/ \E s \in Slot : BeginRename(s, n)
      PROVE  Accounted'
  BY Zenon, <1>2, BeginNameAccounted
<1>3. ASSUME NEW k \in 1 .. MaxSize, BeginWrite(k) PROVE Accounted'
  BY Zenon, <1>3, BeginWriteAccounted
<1>4. ASSUME NEW k \in 0 .. MaxSize, BeginTruncate(k) \/ Seek(k) PROVE Accounted'
  BY Zenon, <1>4, BeginTruncateAccounted, RestAccounted
<1>5. CASE TruncateExisting \/ GrowAlloc \/ GrowZero \/ GrowLink \/ Insert
  BY Zenon, <1>5, EraseAccounted, GrowAllocAccounted, ZeroAccounted, GrowLinkAccounted, InsertAccounted
<1>6. CASE WriteWalk \/ WriteAlloc \/ WriteLink \/ WriteData \/ WriteDirent
  BY Zenon, <1>6, WalkAccounted, FileAllocAccounted, LinkAccounted, DataAccounted, FileAccounted
<1>7. CASE TruncWalk \/ TruncCut \/ TruncAlloc \/ TruncLink \/ TruncZero \/ TruncCommit
  BY Zenon, <1>7, WalkAccounted, TruncCutAccounted, FileAllocAccounted, LinkAccounted, DataAccounted,
     FileAccounted
<1>8. CASE MkdirAlloc \/ MkdirInit \/ FreeChain \/ Erase
  BY Zenon, <1>8, GrowAllocAccounted, ZeroAccounted, FreeChainAccounted, EraseAccounted
<1>9. CASE Close \/ Unmount \/ Mount
  BY Zenon, <1>9, RestAccounted
<1>10. ~Undo /\ ~PowerLoss
  <2>1. TypeNumbers
    BY TypeParts DEF IInv
  <2> QED BY Zenon, <2>1, FaultCount DEF Undo, PowerLoss
<1> QED BY <1>1, <1>2, <1>3, <1>4, <1>5, <1>6, <1>7, <1>8, <1>9, <1>10 DEF Next

(* Every step keeps the books, or is one that leaks or fails.                  *)
LEMMA NextLInv == IInv /\ LInv /\ [Next]_vars => LInv'
<1>1. ASSUME IInv, LInv, Next PROVE LInv'
  <2>1. leaky \in BOOLEAN /\ leaky' \in BOOLEAN /\ (~leaky' => ~leaky)
    BY <1>1, LeakyStep DEF LInv
  <2>2. ASSUME faults' = 0 PROVE faults = 0 /\ ~torn /\ op.pc # "undo" /\ ~torn' /\ op'.pc # "undo"
    BY Zenon, <1>1, <2>2, CleanStep DEF LInv
  <2>3. ASSUME faults' = 0, ~leaky' PROVE Accounted'
    BY Zenon, <1>1, <2>1, <2>2, <2>3, NextAccounted DEF LInv
  <2> QED BY Zenon, <2>1, <2>2, <2>3 DEF LInv
<1> QED BY <1>1, StutterAccounted

(* Without a fault every cluster in use is accounted for throughout, until a   *)
(* call on a file that ran into the full volume has lost some.                 *)
THEOREM Accounting == Spec => []LInv
BY InitAccounted, NextLInv, Invariance, PTL DEF Spec

(* Without refused writes and power losses no cluster is lost, but by the two  *)
(* paths the model names: one in use is led to by an entry or a chain, or in   *)
(* the hands of the open file or of the call in progress.                      *)
THEOREM NothingLost == Spec => []NoneLost
<1>1. LInv => NoneLost
  <2> SUFFICES ASSUME LInv, faults = 0, ~leaky, NEW c \in Cluster, fat[c] # Free
               PROVE  Referrers(c) # {} \/ c \in InHand
    BY DEF NoneLost
  <2>1. Led(c) \/ Holding(c)
    BY Zenon DEF LInv, Accounted, Reached
  <2>2. Led(c) => Referrers(c) # {}
    BY DEF Led, Referrers
  <2>3. Holding(c) => c \in InHand
    BY DEF Holding, InHand
  <2> QED BY <2>1, <2>2, <2>3
<1> QED BY <1>1, Accounting, PTL

(* The medium and the driver's state are of their types: no call leaves a      *)
(* table entry that is not a cluster, a count beyond the volume, or a length   *)
(* past the bound.                                                             *)
THEOREM TypeCorrect == Spec => []TypeOK
<1>1. IInv /\ LInv => TypeOK
  BY Zenon DEF IInv, LInv, TypeOK
<1> QED BY <1>1, Invariance, Accounting, PTL

--------------------------------------------------------------------------------
(* Files do not touch each other.                                              *)

(* f_write and f_truncate stay on the chain of the open file, whichever calls  *)
(* went before: where they stand is reached from its first cluster.            *)
THEOREM OnChainAlways == Spec => []OnChain
<1>1. IInv /\ OnChain /\ [Next]_vars => OnChain'
  <2>1. OnChain /\ UNCHANGED vars => OnChain'
    BY DEF OnChain, InPlace, Chain, Follows, vars, medium
  <2> QED BY <2>1, OnChainStep
<1> QED BY <1>1, InitChain, Invariance, PTL DEF Spec

(* No call, complete, refused or cut short, writes to an entry, a table cell   *)
(* or a data cluster of a file or directory it is not about.                   *)
THEOREM FilesApart == Spec => OthersUntouched
<1>1. IInv /\ OnChain /\ [Next]_vars =>
        [/\ \A s \in OtherEntries : slots'[s] = slots[s]
         /\ \A c \in Written \cup {d \in Cluster : fat'[d] # fat[d]} :
              \A f \in OtherHeads : c \notin Chain(f)]_vars
  <2> SUFFICES ASSUME IInv, OnChain, Next
               PROVE  /\ \A s \in OtherEntries : slots'[s] = slots[s]
                      /\ \A c \in Written \cup {d \in Cluster : fat'[d] # fat[d]} :
                           \A f \in OtherHeads : c \notin Chain(f)
    OBVIOUS
  <2>1. ASSUME NEW c \in Written, NEW f \in OtherHeads PROVE c \notin Chain(f)
    <3>1. op.pc # "idle"
      BY <2>1 DEF Written
    <3> QED BY <2>1, <3>1, WrittenApart
  <2>2. ASSUME NEW c \in Cluster, fat'[c] # fat[c], NEW f \in OtherHeads PROVE c \notin Chain(f)
    <3>1. op.pc # "idle" /\ c \in Workplace
      BY <2>2, TableStep
    <3> QED BY <2>2, <3>1, WrittenApart
  <2> QED BY <2>1, <2>2, EntryStep
<1> QED BY <1>1, Invariance, OnChainAlways, PTL DEF Spec, OthersUntouched
================================================================================
