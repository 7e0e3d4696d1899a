---------------------------------- MODULE Fat ----------------------------------
(* The FAT32 driver of libs/ra8_fs: the allocation table, the root directory,  *)
(* one open file, and the calls that change them, down to the single sector    *)
(* write.  Calls are serialised by the library's lock, so one is in progress   *)
(* at a time (op); between two of its sector writes the power may go, and any  *)
(* sector write may be refused by the card.                                    *)
(*                                                                             *)
(* Lengths and offsets are in clusters, an entry takes one directory slot, and *)
(* subdirectories are made and removed but hold nothing.  A refused sector     *)
(* write leaves its sector as it was; the table is kept in several copies, of  *)
(* which only the first is ever read, so setting a table entry may fail after  *)
(* the copy that counts has been written.                                      *)
EXTENDS Integers, FiniteSets

CONSTANTS
  Names,       \* names of files and directories
  NoName,      \* the name of a slot that holds no entry
  Cluster,     \* data clusters of the volume
  Root,        \* the first cluster of the root directory
  PerDir,      \* directory slots per cluster
  MaxSize,     \* bound on the length of a file, in clusters
  MaxFaults    \* bound on refused writes and power losses

ASSUME FatAssumption ==
  /\ IsFiniteSet(Cluster) /\ Root \in Cluster /\ 0 \notin Cluster /\ 1 \notin Cluster
  /\ PerDir \in Nat \ {0}
  /\ MaxSize \in Nat
  /\ MaxFaults \in Nat
  /\ NoName \notin Names

(* Values of a table entry: free, end of chain, or the next cluster.  A first  *)
(* cluster of 0 is none.                                                       *)
Free == 0
EOC == 1
NClus == Cardinality(Cluster)
Slot == Cluster \X (1 .. PerDir)
NoSlot == <<0, 0>>
MaybeCluster == {0} \cup Cluster
MaybeSlot == {NoSlot} \cup Slot
Length == 0 .. MaxSize

Live == {"file", "dir"}
Entry == [kind : Live \cup {"end", "gone", "junk"}, name : Names \cup {NoName},
          first : MaybeCluster, size : Length]
Mark(kind) == [kind |-> kind, name |-> NoName, first |-> 0, size |-> 0]

VARIABLES
  fat,      \* medium: the allocation table, first copy
  slots,    \* medium: what the clusters hold, read as directory slots
  fsi,      \* medium: the free count in the FSInfo sector
  dirc,     \* the clusters a walk of the root directory passes through
  mounted,  \* a volume is mounted
  nfree,    \* tracked number of free clusters
  fsdirty,  \* FSInfo is behind nfree
  h,        \* the file handle
  op,       \* the call in progress
  faults,   \* refused writes and power losses so far
  torn,     \* a call left an entry or the directory leading to what it freed, or
            \* one file under two names (NoDangling lists the ways)
  leaky     \* some call on a file lost clusters, or may, without a fault (see NoneLost)

medium == <<fat, slots, fsi, dirc>>
alloc == <<nfree, fsdirty>>
vars == <<medium, mounted, alloc, h, op, faults, torn, leaky>>

Closed == [at |-> NoSlot, first |-> 0, size |-> 0, off |-> 0, dirty |-> 0]
IsOpen == h.at # NoSlot
Idle == [call |-> "none", pc |-> "idle", at |-> NoSlot, old |-> NoSlot,
         name |-> NoName, c |-> 0, d |-> 0, i |-> 0, n |-> 0]
Calls == {"none", "open", "create", "write", "trunc", "unlink", "mkdir", "rmdir", "rename"}
Steps == {"idle", "pos", "link", "dirent", "cut", "extend", "tlink", "tzero", "commit", "free",
          "zero", "erase", "reserve", "gzero", "glink", "mkalloc", "mkinit", "insert", "undo"}

FileHandle == [at : MaybeSlot, first : MaybeCluster, size : Length, off : Length, dirty : 0 .. 1]
Call == [call : Calls, pc : Steps, at : MaybeSlot, old : MaybeSlot, name : Names \cup {NoName},
         c : MaybeCluster, d : MaybeCluster, i : Length, n : Length]

(* The medium as formatted: an empty root directory of one cluster, FSInfo in  *)
(* step; what the other clusters hold is left over from before.                *)
Init ==
  /\ fat = [c \in Cluster |-> IF c = Root THEN EOC ELSE Free]
  /\ slots = [s \in Slot |-> Mark(IF s[1] = Root THEN "end" ELSE "junk")]
  /\ fsi = NClus - 1
  /\ dirc = {Root}
  /\ mounted = FALSE
  /\ nfree = 0 /\ fsdirty = FALSE
  /\ h = Closed /\ op = Idle /\ faults = 0 /\ torn = FALSE /\ leaky = FALSE

--------------------------------------------------------------------------------
(* Sector writes.                                                              *)

Refused == faults < MaxFaults /\ faults' = faults + 1
Accepted == faults' = faults

(* priv_fat_set: the copies in order, returning at the first that fails.       *)
FatSet(c, v) == Accepted /\ fat' = [fat EXCEPT ![c] = v]
FatSetFails(c, v) == Refused /\ fat' \in {fat, [fat EXCEPT ![c] = v]}

(* A cluster overwritten with file data: read as a directory it is junk.       *)
Scribbled(c) == [s \in Slot |-> IF s[1] = c THEN Mark("junk") ELSE slots[s]]
Zeroed(c) == [s \in Slot |-> IF s[1] = c THEN Mark("end") ELSE slots[s]]

Return == op' = Idle

--------------------------------------------------------------------------------
(* priv_alloc_cluster: any free cluster.  The driver takes the first one from  *)
(* a hint on, wrapping once; the hint starts from FSInfo, where it may stand   *)
(* anywhere.  The count drops before the table entry is written.               *)

FreeClusters == {c \in Cluster : fat[c] = Free}

\* Mutant: the count runs below zero.
TookUnclamped ==
  /\ nfree' = nfree - 1
  /\ fsdirty' = TRUE

Took ==
  /\ nfree' = IF nfree > 0 THEN nfree - 1 ELSE 0
  /\ fsdirty' = TRUE

\* Mutant: a freed cluster is counted and FSInfo not marked behind.
GaveClean ==
  /\ nfree' = IF nfree < NClus THEN nfree + 1 ELSE NClus
  /\ UNCHANGED fsdirty

Gave ==
  /\ nfree' = IF nfree < NClus THEN nfree + 1 ELSE NClus
  /\ fsdirty' = TRUE

(* priv_fsinfo_flush *)
FlushDone == fsi' = nfree /\ fsdirty' = FALSE

--------------------------------------------------------------------------------
(* The directory.                                                              *)

DirSlots == {s \in Slot : s[1] \in dirc}
Holds(s, n) == s \in DirSlots /\ slots[s].kind \in Live /\ slots[s].name = n
FreeSlots == {s \in DirSlots : slots[s].kind \in {"end", "gone"}}

(* priv_dir_find_free_run takes the first: every free slot of a cluster is as  *)
(* good as another here, except that the end marker must not move back.        *)
Earliest(s) == s \in FreeSlots /\ \A t \in FreeSlots : t[1] = s[1] => s[2] <= t[2]

Ready == mounted /\ op = Idle /\ ~torn
--------------------------------------------------------------------------------
(* ra8_fs_open.  Append opens an existing file as it is; write empties it      *)
(* first: its chain is freed, then the entry is written.  A name that does not *)
(* exist is created.  The caller has no other handle on the file.              *)

OpenAppend(s) ==
  /\ Ready /\ s \in DirSlots /\ slots[s].kind = "file" /\ ~IsOpen
  /\ h' = [at |-> s, first |-> slots[s].first, size |-> slots[s].size,
           off |-> slots[s].size, dirty |-> 0]
  /\ UNCHANGED <<medium, mounted, alloc, op, faults, torn, leaky>>

OpenWrite(s) ==
  /\ Ready /\ s \in DirSlots /\ slots[s].kind = "file" /\ ~IsOpen
  /\ op' = [Idle EXCEPT !.call = "open", !.at = s, !.c = slots[s].first,
                        !.pc = IF slots[s].first = 0 THEN "zero" ELSE "free"]
  /\ UNCHANGED <<medium, mounted, alloc, h, faults, torn, leaky>>

OpenCreate(n) ==
  /\ Ready /\ n \in Names /\ \A s \in Slot : ~Holds(s, n)
  /\ op' = [Idle EXCEPT !.call = "create", !.pc = "reserve", !.name = n]
  /\ UNCHANGED <<medium, mounted, alloc, h, faults, torn, leaky>>

(* The last step of internal_truncate_existing: the entry of no length.        *)
TruncateExisting ==
  /\ op.pc = "zero"
  /\ \/ /\ Accepted
        /\ slots' = [slots EXCEPT ![op.at].first = 0, ![op.at].size = 0]
        /\ h' = [Closed EXCEPT !.at = op.at]
        /\ torn' = torn
     \/ /\ Refused
        /\ torn' = (torn \/ slots[op.at].first # 0)
        /\ UNCHANGED <<slots, h>>
  /\ Return
  /\ UNCHANGED <<fat, fsi, dirc, mounted, alloc, leaky>>

--------------------------------------------------------------------------------
(* priv_dir_reserve: a free slot, growing the directory when there is none.    *)

AfterReserve == IF op.call = "mkdir" THEN "mkalloc" ELSE "insert"

(* internal_create_new looks for a free handle only after it has a slot.       *)
Reserve(s) ==
  /\ op.pc = "reserve" /\ Earliest(s)
  /\ IF op.call = "create" /\ IsOpen
     THEN Return
     ELSE op' = [op EXCEPT !.at = s, !.pc = AfterReserve]
  /\ UNCHANGED <<medium, mounted, alloc, h, faults, torn, leaky>>

(* internal_dir_grow: a new cluster, zeroed, then linked behind the last one.  *)
GrowAlloc ==
  /\ op.pc = "reserve" /\ FreeSlots = {}
  /\ \/ /\ FreeClusters = {}
        /\ Return
        /\ UNCHANGED <<fat, alloc, faults>>
     \/ \E c \in FreeClusters :
          /\ Took
          /\ \/ FatSet(c, EOC) /\ op' = [op EXCEPT !.d = c, !.pc = "gzero"]
             \/ FatSetFails(c, EOC) /\ Return
  /\ UNCHANGED <<slots, fsi, dirc, mounted, h, torn, leaky>>

GrowZero ==
  /\ op.pc = "gzero"
  /\ \/ Accepted /\ slots' = Zeroed(op.d) /\ op' = [op EXCEPT !.pc = "glink"]
     \/ Refused /\ slots' = Scribbled(op.d) /\ op' = [op EXCEPT !.pc = "undo"]
  /\ UNCHANGED <<fat, fsi, dirc, mounted, alloc, h, torn, leaky>>

GrowLink ==
  /\ op.pc = "glink"
  /\ \E last \in dirc :
       /\ fat[last] = EOC
       /\ \/ /\ FatSet(last, op.d)
             /\ op' = [op EXCEPT !.d = 0, !.pc = "reserve"]
          \/ /\ FatSetFails(last, op.d)
             /\ op' = [op EXCEPT !.c = last, !.pc = "undo"]
       /\ dirc' = IF fat' # fat THEN dirc \cup {op.d} ELSE dirc
  /\ UNCHANGED <<slots, fsi, mounted, alloc, h, torn, leaky>>

(* priv_free_chain on the one cluster a failed growth or mkdir had taken: also *)
(* on one that the directory runs into, when only the second copy of its link  *)
(* was refused.                                                                *)
Undo ==
  /\ op.pc = "undo"
  /\ \/ FatSet(op.d, Free) /\ Gave
     \/ FatSetFails(op.d, Free) /\ UNCHANGED alloc
  /\ torn' = (torn \/ (op.d \in dirc /\ fat'[op.d] = Free))
  /\ Return
  /\ UNCHANGED <<slots, fsi, dirc, mounted, h, leaky>>

(* priv_dir_commit of the reserved slot, and what each caller does around it.  *)
\* Mutants: rename returns without erasing the old entry; rename files the new
\* entry without the length of the file.
InsertKeepsOld ==
  /\ op.pc = "insert"
  /\ Accepted
  /\ slots' = [slots EXCEPT ![op.at] =
       IF op.call = "rename" THEN [slots[op.old] EXCEPT !.name = op.name]
       ELSE [kind |-> "file", name |-> op.name, first |-> 0, size |-> 0]]
  /\ h' = IF op.call = "create" THEN [Closed EXCEPT !.at = op.at] ELSE h
  /\ Return
  /\ UNCHANGED <<fat, fsi, dirc, mounted, alloc, torn, leaky>>

InsertForgetsLength ==
  /\ op.pc = "insert"
  /\ Accepted
  /\ slots' = [slots EXCEPT ![op.at] =
       IF op.call = "rename" THEN [slots[op.old] EXCEPT !.name = op.name, !.size = 0]
       ELSE [kind |-> "file", name |-> op.name, first |-> 0, size |-> 0]]
  /\ h' = IF op.call = "create" THEN [Closed EXCEPT !.at = op.at] ELSE h
  /\ op' = IF op.call = "rename" THEN [op EXCEPT !.at = op.old, !.pc = "erase"] ELSE Idle
  /\ UNCHANGED <<fat, fsi, dirc, mounted, alloc, torn, leaky>>

Insert ==
  /\ op.pc = "insert"
  /\ \/ /\ Accepted
        /\ slots' = [slots EXCEPT ![op.at] =
             CASE op.call = "create" ->
                    [kind |-> "file", name |-> op.name, first |-> 0, size |-> 0]
               [] op.call = "mkdir" ->
                    [kind |-> "dir", name |-> op.name, first |-> op.d, size |-> 0]
               [] OTHER -> [slots[op.old] EXCEPT !.name = op.name]]
        /\ h' = IF op.call = "create" THEN [Closed EXCEPT !.at = op.at] ELSE h
        /\ op' = IF op.call = "rename" THEN [op EXCEPT !.at = op.old, !.pc = "erase"] ELSE Idle
     \/ /\ Refused
        /\ op' = IF op.call = "mkdir" THEN [op EXCEPT !.pc = "undo"] ELSE Idle
        /\ UNCHANGED <<slots, h>>
  /\ UNCHANGED <<fat, fsi, dirc, mounted, alloc, torn, leaky>>

--------------------------------------------------------------------------------
(* ra8_fs_write of n clusters at the offset.                                   *)

BeginWrite(n) ==
  /\ Ready /\ IsOpen /\ h.off + n <= MaxSize
  /\ op' = [Idle EXCEPT !.call = "write", !.pc = "pos", !.c = h.first, !.n = n]
  /\ UNCHANGED <<medium, mounted, alloc, h, faults, torn, leaky>>

(* internal_walk_grow: along the chain, and past its end one cluster at a time.*)
WriteWalk ==
  /\ op.pc = "pos" /\ op.c # 0 /\ op.i < h.off /\ fat[op.c] \in Cluster
  /\ op' = [op EXCEPT !.c = fat[op.c], !.i = op.i + 1]
  /\ UNCHANGED <<medium, mounted, alloc, h, faults, torn, leaky>>

WriteAlloc ==
  /\ op.pc = "pos" /\ (op.c = 0 \/ (op.c # 0 /\ op.i < h.off /\ fat[op.c] = EOC))
  /\ \/ /\ FreeClusters = {}
        /\ Return
        /\ UNCHANGED <<fat, alloc, h, faults>>
        /\ leaky' = (leaky \/ h.first # slots[h.at].first)
     \/ \E c \in FreeClusters :
          /\ Took /\ leaky' = leaky
          /\ \/ /\ FatSet(c, EOC)
                /\ IF op.c = 0
                   THEN /\ op' = [op EXCEPT !.c = c, !.i = h.off]
                        /\ h' = [h EXCEPT !.first = c]
                   ELSE op' = [op EXCEPT !.d = c, !.pc = "link"] /\ h' = h
             \/ FatSetFails(c, EOC) /\ Return /\ h' = h
  /\ UNCHANGED <<slots, fsi, dirc, mounted, torn>>

WriteLink ==
  /\ op.pc = "link"
  /\ \/ FatSet(op.c, op.d) /\ op' = [op EXCEPT !.c = op.d, !.d = 0, !.i = op.i + 1, !.pc = "pos"]
     \/ FatSetFails(op.c, op.d) /\ Return
  /\ UNCHANGED <<slots, fsi, dirc, mounted, alloc, h, torn, leaky>>

WriteData ==
  /\ op.pc = "pos" /\ op.c # 0 /\ op.i = h.off
  /\ slots' = Scribbled(op.c)
  /\ \/ /\ Accepted
        /\ h' = [h EXCEPT !.off = h.off + 1, !.size = IF h.off + 1 > h.size THEN h.off + 1 ELSE h.size]
        /\ op' = IF op.n > 1 THEN [op EXCEPT !.n = op.n - 1] ELSE [op EXCEPT !.pc = "dirent"]
     \/ Refused /\ Return /\ h' = h
  /\ UNCHANGED <<fat, fsi, dirc, mounted, alloc, torn, leaky>>

WriteDirent ==
  /\ op.pc = "dirent"
  /\ \/ Accepted /\ slots' = [slots EXCEPT ![h.at].first = h.first, ![h.at].size = h.size]
     \/ Refused /\ slots' = slots
  /\ h' = [h EXCEPT !.dirty = 1]
  /\ Return
  /\ UNCHANGED <<fat, fsi, dirc, mounted, alloc, torn, leaky>>

Seek(k) ==
  /\ Ready /\ IsOpen /\ k <= h.size
  /\ h' = [h EXCEPT !.off = k]
  /\ UNCHANGED <<medium, mounted, alloc, op, faults, torn, leaky>>
--------------------------------------------------------------------------------
(* ra8_fs_truncate to n clusters.  The walks count clusters from the length    *)
(* the handle knows, not from the chain.                                       *)

BeginTruncate(n) ==
  /\ Ready /\ IsOpen
  /\ LET call(pc, c, i) == [Idle EXCEPT !.call = "trunc", !.pc = pc, !.at = h.at,
                                        !.c = c, !.i = i, !.n = n]
     IN  \/ n = h.size /\ op' = call("commit", 0, 0) /\ h' = h
         \/ /\ n = 0 /\ h.size > 0
            /\ IF h.first = 0
               THEN op' = call("commit", 0, 0) /\ h' = [h EXCEPT !.size = 0]
               ELSE op' = call("free", h.first, 0) /\ h' = h
         \/ 0 < n /\ n < h.size /\ op' = call("cut", h.first, 1) /\ h' = h
         \/ h.size < n /\ h.size = 0 /\ op' = call("extend", 0, 0) /\ h' = h
         \/ h.size < n /\ h.size > 0 /\ op' = call("extend", h.first, 1) /\ h' = h
  /\ UNCHANGED <<medium, mounted, alloc, faults, torn, leaky>>

(* internal_trunc_walk: a chain shorter than the length is an error.           *)
TruncWalk ==
  /\ \/ op.pc = "cut" /\ op.i < op.n
     \/ op.pc = "extend" /\ op.i < h.size
  /\ op' = IF fat[op.c] = EOC THEN Idle ELSE [op EXCEPT !.c = fat[op.c], !.i = op.i + 1]
  /\ UNCHANGED <<medium, mounted, alloc, h, faults, torn, leaky>>

(* internal_fat_trunc_shrink: end the chain at the new tail, then free the rest.*)
\* Mutant: the rest is freed, the tail left as it was.
TruncCutKeepsTail ==
  /\ op.pc = "cut" /\ op.i = op.n
  /\ op' = IF fat[op.c] = EOC THEN [op EXCEPT !.pc = "commit"]
                              ELSE [op EXCEPT !.c = fat[op.c], !.pc = "free"]
  /\ h' = [h EXCEPT !.size = op.n]
  /\ UNCHANGED <<medium, mounted, alloc, faults, torn, leaky>>

\* Mutant: the tail is ended, the rest not freed.
TruncCutLeaves ==
  /\ op.pc = "cut" /\ op.i = op.n
  /\ \/ fat[op.c] = EOC /\ UNCHANGED <<fat, faults>>
     \/ fat[op.c] # EOC /\ FatSet(op.c, EOC)
  /\ h' = [h EXCEPT !.size = op.n]
  /\ op' = [op EXCEPT !.pc = "commit"]
  /\ UNCHANGED <<slots, fsi, dirc, mounted, alloc, torn, leaky>>

TruncCut ==
  /\ op.pc = "cut" /\ op.i = op.n
  /\ \/ /\ fat[op.c] = EOC
        /\ h' = [h EXCEPT !.size = op.n]
        /\ op' = [op EXCEPT !.pc = "commit"]
        /\ UNCHANGED <<fat, faults>>
     \/ /\ fat[op.c] # EOC /\ h' = h
        /\ \/ FatSet(op.c, EOC) /\ op' = [op EXCEPT !.c = fat[op.c], !.pc = "free"]
           \/ FatSetFails(op.c, EOC) /\ Return
  /\ UNCHANGED <<slots, fsi, dirc, mounted, alloc, torn, leaky>>

(* internal_fat_trunc_extend *)
TruncAlloc ==
  /\ op.pc = "extend" /\ op.i >= h.size
  /\ \/ /\ FreeClusters = {}
        /\ Return
        /\ UNCHANGED <<fat, alloc, h, faults>>
        /\ leaky' = (leaky \/ h.first # slots[h.at].first)
     \/ \E c \in FreeClusters :
          /\ Took /\ leaky' = leaky
          /\ \/ /\ FatSet(c, EOC)
                /\ IF op.i = 0
                   THEN /\ op' = [op EXCEPT !.c = c, !.i = 1, !.pc = "tzero"]
                        /\ h' = [h EXCEPT !.first = c]
                   ELSE op' = [op EXCEPT !.d = c, !.pc = "tlink"] /\ h' = h
             \/ FatSetFails(c, EOC) /\ Return /\ h' = h
  /\ UNCHANGED <<slots, fsi, dirc, mounted, torn>>

TruncLink ==
  /\ op.pc = "tlink"
  /\ \/ FatSet(op.c, op.d) /\ op' = [op EXCEPT !.c = op.d, !.d = 0, !.i = op.i + 1, !.pc = "tzero"]
     \/ FatSetFails(op.c, op.d) /\ Return
  /\ leaky' = (leaky \/ fat[op.c] # EOC)
  /\ UNCHANGED <<slots, fsi, dirc, mounted, alloc, h, torn>>

TruncZero ==
  /\ op.pc = "tzero"
  /\ slots' = Scribbled(op.c)
  /\ \/ /\ Accepted
        /\ IF op.i = op.n
           THEN op' = [op EXCEPT !.pc = "commit"] /\ h' = [h EXCEPT !.size = op.n]
           ELSE op' = [op EXCEPT !.pc = "extend"] /\ h' = h
     \/ Refused /\ Return /\ h' = h
  /\ UNCHANGED <<fat, fsi, dirc, mounted, alloc, torn, leaky>>

(* internal_fat_trunc_commit; only then is the offset pulled down.             *)
TruncCommit ==
  /\ op.pc = "commit"
  /\ \/ /\ Accepted
        /\ slots' = [slots EXCEPT ![h.at].first = h.first, ![h.at].size = h.size]
        /\ h' = [h EXCEPT !.dirty = 1, !.off = IF h.off > h.size THEN h.size ELSE h.off]
        /\ torn' = torn
     \/ /\ Refused
        /\ torn' = (torn \/ (h.first = 0 /\ slots[h.at].first # 0))
        /\ UNCHANGED <<slots, h>>
  /\ Return
  /\ UNCHANGED <<fat, fsi, dirc, mounted, alloc, leaky>>

--------------------------------------------------------------------------------
(* ra8_fs_unlink, ra8_fs_rmdir, ra8_fs_rename, ra8_fs_mkdir.                   *)

NotOpen(s) == h.at # s

BeginUnlink(s) ==
  /\ Ready /\ s \in DirSlots /\ slots[s].kind = "file" /\ NotOpen(s)
  /\ op' = [Idle EXCEPT !.call = "unlink", !.at = s, !.c = slots[s].first,
                        !.pc = IF slots[s].first = 0 THEN "erase" ELSE "free"]
  /\ UNCHANGED <<medium, mounted, alloc, h, faults, torn, leaky>>

BeginRmdir(s) ==
  /\ Ready /\ s \in DirSlots /\ slots[s].kind = "dir" /\ slots[s].first # 0
  /\ op' = [Idle EXCEPT !.call = "rmdir", !.at = s, !.c = slots[s].first, !.pc = "free"]
  /\ UNCHANGED <<medium, mounted, alloc, h, faults, torn, leaky>>

BeginRename(s, n) ==
  /\ Ready /\ s \in DirSlots /\ slots[s].kind \in Live /\ NotOpen(s)
  /\ n \in Names /\ \A t \in Slot : ~Holds(t, n)
  /\ op' = [Idle EXCEPT !.call = "rename", !.pc = "reserve", !.old = s, !.name = n]
  /\ UNCHANGED <<medium, mounted, alloc, h, faults, torn, leaky>>

BeginMkdir(n) ==
  /\ Ready /\ n \in Names /\ \A s \in Slot : ~Holds(s, n)
  /\ op' = [Idle EXCEPT !.call = "mkdir", !.pc = "reserve", !.name = n]
  /\ UNCHANGED <<medium, mounted, alloc, h, faults, torn, leaky>>

MkdirAlloc ==
  /\ op.pc = "mkalloc"
  /\ \/ /\ FreeClusters = {}
        /\ Return
        /\ UNCHANGED <<fat, alloc, faults>>
     \/ \E c \in FreeClusters :
          /\ Took
          /\ \/ FatSet(c, EOC) /\ op' = [op EXCEPT !.d = c, !.pc = "mkinit"]
             \/ FatSetFails(c, EOC) /\ Return
  /\ UNCHANGED <<slots, fsi, dirc, mounted, h, torn, leaky>>

MkdirInit ==
  /\ op.pc = "mkinit"
  /\ \/ Accepted /\ slots' = Zeroed(op.d) /\ op' = [op EXCEPT !.pc = "insert"]
     \/ Refused /\ slots' = Scribbled(op.d) /\ op' = [op EXCEPT !.pc = "undo"]
  /\ UNCHANGED <<fat, fsi, dirc, mounted, alloc, h, torn, leaky>>

(* priv_free_chain: read the successor, free the cluster, go on.               *)
Headless == op.c # slots[op.at].first
FreesAll == op.call # "trunc" \/ op.n = 0
AfterFree == CASE op.call = "open" -> "zero" [] op.call = "trunc" -> "commit" [] OTHER -> "erase"

FreeChain ==
  /\ op.pc = "free"
  /\ \/ /\ FatSet(op.c, Free) /\ Gave
        /\ IF fat[op.c] \in Cluster
           THEN op' = [op EXCEPT !.c = fat[op.c]] /\ h' = h
           ELSE /\ op' = [op EXCEPT !.c = 0, !.pc = AfterFree]
                /\ h' = IF op.call = "trunc"
                        THEN [h EXCEPT !.size = op.n, !.first = IF op.n = 0 THEN 0 ELSE h.first]
                        ELSE h
        /\ torn' = torn
     \/ /\ FatSetFails(op.c, Free)
        /\ torn' = (torn \/ (FreesAll /\ (Headless \/ fat' # fat)))
        /\ Return
        /\ UNCHANGED <<alloc, h>>
  /\ UNCHANGED <<slots, fsi, dirc, mounted, leaky>>

(* priv_dir_erase_chain *)
Erase ==
  /\ op.pc = "erase"
  /\ \/ Accepted /\ slots' = [slots EXCEPT ![op.at] = Mark("gone")] /\ torn' = torn
     \/ /\ Refused /\ slots' = slots
        /\ torn' = (torn \/ slots[op.at].first # 0)
  /\ Return
  /\ UNCHANGED <<fat, fsi, dirc, mounted, alloc, h, leaky>>

--------------------------------------------------------------------------------
(* ra8_fs_close: the entry is stamped, FSInfo brought up to date.              *)

Close ==
  /\ mounted /\ op = Idle /\ IsOpen
  /\ \/ Accepted /\ (IF h.dirty = 1 /\ fsdirty THEN FlushDone ELSE UNCHANGED <<fsi, fsdirty>>)
     \/ Refused /\ h.dirty = 1 /\ UNCHANGED <<fsi, fsdirty>>
  /\ h' = Closed
  /\ UNCHANGED <<fat, slots, dirc, mounted, nfree, op, torn, leaky>>

Unmount ==
  /\ mounted /\ op = Idle /\ ~IsOpen
  /\ \/ /\ Accepted
        /\ fsi' = IF fsdirty THEN nfree ELSE fsi
     \/ Refused /\ fsdirty /\ fsi' = fsi
  /\ mounted' = FALSE
  /\ nfree' = 0 /\ fsdirty' = FALSE
  /\ UNCHANGED <<fat, slots, dirc, h, op, torn, leaky>>

(* ra8_fs_mount: the count comes from FSInfo.                                  *)
Mount ==
  /\ ~mounted
  /\ mounted' = TRUE
  /\ nfree' = fsi /\ fsdirty' = FALSE
  /\ UNCHANGED <<medium, h, op, faults, torn, leaky>>

(* The call in progress has freed clusters that an entry still leads to, or    *)
(* has filed one file under two names.                                         *)
Exposed ==
  \/ op.pc = "free" /\ FreesAll /\ Headless
  \/ op.pc \in {"zero", "erase"} /\ slots[op.at].first # 0
  \/ op.pc = "commit" /\ h.first = 0 /\ slots[op.at].first # 0

PowerLoss ==
  /\ mounted /\ Refused
  /\ mounted' = FALSE /\ h' = Closed /\ op' = Idle
  /\ nfree' = 0 /\ fsdirty' = FALSE
  /\ torn' = (torn \/ Exposed)
  /\ UNCHANGED <<medium, leaky>>

--------------------------------------------------------------------------------
Next ==
  \/ \E s \in Slot : OpenAppend(s) \/ OpenWrite(s) \/ Reserve(s) \/ BeginUnlink(s) \/ BeginRmdir(s)
  \/ \E n \in Names : OpenCreate(n) \/ BeginMkdir(n) \/ \E s \in Slot : BeginRename(s, n)
  \/ \E k \in 1 .. MaxSize : BeginWrite(k)
  \/ \E k \in 0 .. MaxSize : BeginTruncate(k) \/ Seek(k)
  \/ TruncateExisting \/ GrowAlloc \/ GrowZero \/ GrowLink \/ Undo \/ Insert
  \/ WriteWalk \/ WriteAlloc \/ WriteLink \/ WriteData \/ WriteDirent
  \/ TruncWalk \/ TruncCut \/ TruncAlloc \/ TruncLink \/ TruncZero \/ TruncCommit
  \/ MkdirAlloc \/ MkdirInit \/ FreeChain \/ Erase
  \/ Close \/ Unmount \/ Mount \/ PowerLoss

Spec == Init /\ [][Next]_vars
--------------------------------------------------------------------------------
(* Properties.                                                                 *)

(* The types of the medium and of the driver; then with the history.           *)
Types ==
  /\ fat \in [Cluster -> {Free, EOC} \cup Cluster]
  /\ slots \in [Slot -> Entry]
  /\ fsi \in 0 .. NClus
  /\ dirc \in SUBSET Cluster
  /\ mounted \in BOOLEAN /\ fsdirty \in BOOLEAN /\ torn \in BOOLEAN
  /\ nfree \in 0 .. NClus /\ faults \in 0 .. MaxFaults
  /\ h \in FileHandle /\ op \in Call
TypeOK == Types /\ leaky \in BOOLEAN

(* The entries the volume stands by: all but the one a call is taking away.    *)
Entries == {s \in DirSlots : slots[s].kind \in Live} \ (IF Exposed THEN {op.at} ELSE {})

(* What leads to cluster c: table entries, directory entries, the boot sector. *)
Referrers(c) ==
  {p \in Cluster : fat[p] = c} \cup {s \in Entries : slots[s].first = c}
    \cup (IF c = Root THEN {NoSlot} ELSE {})

(* Nothing leads to a free cluster, no entry and no chain, so the allocator    *)
(* never hands out a cluster that is in use (priv_alloc_cluster trusts the     *)
(* table alone).  Refused writes and power losses do not change that, but for  *)
(* three cases after which the code does leave such a lead, or a second one    *)
(* (torn): a call that frees a chain before it rewrites the entry (an opening  *)
(* for writing, a truncation to nothing, a removal) is cut in between; a       *)
(* rename is cut before it erases the old entry; the link of a grown directory *)
(* is refused in the second copy of the table and internal_dir_grow frees the  *)
(* cluster that the first copy leads to (ra8_fs_fat_lfn_write.c:268).          *)
NoDangling == torn \/ \A c \in Cluster : Referrers(c) # {} => fat[c] # Free

(* But for these three cases no cluster is reached in two ways: no two files   *)
(* share one, none runs into the directory.  At worst clusters are lost,       *)
(* "reclaimable by fsck" (ra8_fs_fat_truncate.c:291).                          *)
SingleOwner == torn \/ \A c \in Cluster : \A x, y \in Referrers(c) : x = y

(* Without refused writes and power losses the tracked free count is exact     *)
(* whenever a volume is mounted, across calls, unmounts and mounts, though it  *)
(* is counted down before the table entry is written and trusted from FSInfo.  *)
FreeCountExact == (mounted /\ faults = 0) => nfree = Cardinality(FreeClusters)

(* A rename never takes the file away: at every instant, hence after a power   *)
(* loss at any instant, some entry still carries the cluster and the length    *)
(* the old one carried ("reachable under both names rather than under          *)
(* neither", ra8_fs.h:726).                                                    *)
RenameKeepsFile ==
  [][(op.call = "rename" /\ op.pc \in {"insert", "erase"})
       => \E s \in Slot : s[1] \in dirc' /\ slots'[s].kind \in Live
                          /\ slots'[s].first = slots[op.old].first
                          /\ slots'[s].size = slots[op.old].size]_vars

(* The clusters that the call in progress and the open file hold: one taken    *)
(* and not yet linked or filed, the head of what is being freed, the first     *)
(* cluster of the file.                                                        *)
Taken == \/ op.pc \in {"gzero", "glink", "undo", "mkinit", "link", "tlink"}
         \/ op.pc = "insert" /\ op.call = "mkdir"
InHand ==
  (IF Taken THEN {op.d} ELSE {}) \cup (IF op.pc = "free" THEN {op.c} ELSE {})
    \cup (IF IsOpen THEN {h.first} ELSE {})

(* Without refused writes and power losses no cluster is lost: one in use is   *)
(* led to, or in the hands of the open file or of the call in progress.  Two   *)
(* exceptions, both past a call that ran into the full volume and returned     *)
(* without filing what it had taken ("any cluster taken is at worst leaked",   *)
(* ra8_fs_fat_truncate.c:291): a file whose first cluster is not in its entry, *)
(* and a truncate that extends from the recorded length a chain that is longer.*)
NoneLost ==
  (faults = 0 /\ ~leaky) =>
    \A c \in Cluster : fat[c] # Free => Referrers(c) # {} \/ c \in InHand

(* The clusters of the chain that starts at c: those in every set that has c   *)
(* and follows the table.                                                      *)
Follows(S) == \A p \in S : fat[p] \in Cluster => fat[p] \in S
Chain(c) == {d \in Cluster : \A S \in SUBSET Cluster : c \in S /\ Follows(S) => d \in S}

(* The entries the call in progress is not about; where the chains start that  *)
(* are none of its business; the clusters whose contents it may be writing.    *)
OnFile == op.call \in {"write", "trunc"}
OnDirectory == op.call \in {"create", "mkdir", "rename"}
OtherEntries == Entries \ ({op.at} \cup (IF OnFile THEN {h.at} ELSE {}))
OtherHeads ==
  ({slots[s].first : s \in OtherEntries} \cup (IF OnFile THEN {} ELSE {h.first})
     \cup (IF OnDirectory THEN {} ELSE {Root})) \ {0}
Written == (IF op.pc \in {"pos", "tzero"} THEN {op.c} ELSE {})
             \cup (IF op.pc \in {"gzero", "mkinit"} THEN {op.d} ELSE {})

(* A call never reaches into a file it is not about, nor a call on a file into *)
(* the directory: every other entry stays as it is, no link of another chain   *)
(* is changed and no cluster of one is written, whatever is refused and        *)
(* whenever the power goes.  (priv_alloc_cluster, internal_walk_grow and       *)
(* priv_free_chain know no owner of a cluster, only the table.)                *)
OthersUntouched ==
  [][/\ \A s \in OtherEntries : slots'[s] = slots[s]
     /\ \A c \in Written \cup {d \in Cluster : fat'[d] # fat[d]} :
          \A f \in OtherHeads : c \notin Chain(f)]_vars
================================================================================
