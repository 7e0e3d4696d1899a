-------------------------------- MODULE FatCheck --------------------------------
(* ra8_fs_check on a FAT32 volume: the read-only walk that marks every cluster *)
(* a chain reaches in a caller-supplied bitmap and then compares the bitmap    *)
(* with the allocation table.  It holds the library lock, so it reads the      *)
(* volume of Fat between two calls.                                            *)
EXTENDS Fat, Sequences

--------------------------------------------------------------------------------
(* The walk.  ctx holds the bitmap, the directories still to scan, and the     *)
(* number of cross-links and of bad chains met; eod, that the directory being  *)
(* scanned has ended.                                                          *)
EmptyCtx == [seen |-> {}, stack |-> <<Root>>, cross |-> 0, bad |-> 0, eod |-> FALSE]

Crosslink(ctx) == [ctx EXCEPT !.cross = @ + 1]
BadChain(ctx) == [ctx EXCEPT !.bad = @ + 1]

(* internal_fat_mark_chain.  It hops no more often than the volume has         *)
(* clusters: by then every cluster is marked and the next is a cross-link.     *)
RECURSIVE MarkChain(_, _)
MarkChain(ctx, c) ==
  IF c \in ctx.seen THEN Crosslink(ctx)
  ELSE LET marked == [ctx EXCEPT !.seen = @ \cup {c}]
       IN  CASE fat[c] = EOC -> marked
             [] fat[c] \in Cluster -> MarkChain(marked, fat[c])
             [] fat[c] = Free -> BadChain(marked)

(* internal_fat_entry *)
\* Mutant: a deleted entry ends the directory.
VisitEntryStops(ctx, e) ==
  CASE e.kind \in {"end", "gone"} -> [ctx EXCEPT !.eod = TRUE]
    [] e.kind = "dir" -> [ctx EXCEPT !.stack = Append(@, e.first)]
    [] e.kind = "file" /\ e.first # 0 -> MarkChain(ctx, e.first)
    [] OTHER -> ctx

VisitEntry(ctx, e) ==
  CASE e.kind = "end" -> [ctx EXCEPT !.eod = TRUE]
    [] e.kind = "dir" -> [ctx EXCEPT !.stack = Append(@, e.first)]
    [] e.kind = "file" /\ e.first # 0 -> MarkChain(ctx, e.first)
    [] OTHER -> ctx

(* internal_fat_visit_sector *)
RECURSIVE VisitSlots(_, _, _)
VisitSlots(ctx, c, i) ==
  IF ctx.eod \/ i > PerDir THEN ctx ELSE VisitSlots(VisitEntry(ctx, slots[c, i]), c, i + 1)

(* internal_fat_scan_cluster_dir: the end marker ends the scan before the      *)
(* table entry of the cluster has been read.                                   *)
RECURSIVE ScanClusterDir(_, _)
ScanClusterDir(ctx, c) ==
  IF c \in ctx.seen THEN Crosslink(ctx)
  ELSE LET done == VisitSlots([ctx EXCEPT !.seen = @ \cup {c}, !.eod = FALSE], c, 1)
       IN  CASE done.eod \/ fat[c] = EOC -> done
             [] ~done.eod /\ fat[c] \in Cluster -> ScanClusterDir(done, fat[c])
             [] ~done.eod /\ fat[c] = Free -> BadChain(done)

(* internal_fat_tree: the last directory found is scanned first.               *)
RECURSIVE Tree(_)
Tree(ctx) ==
  IF ctx.stack = <<>> THEN ctx
  ELSE LET n == Len(ctx.stack)
       IN  Tree(ScanClusterDir([ctx EXCEPT !.stack = SubSeq(@, 1, n - 1)], ctx.stack[n]))

(* priv_check_fat: internal_fat_tree, internal_fat_diff, internal_fat_fsinfo.  *)
Report ==
  LET walk == Tree(EmptyCtx)
  IN  [cross |-> walk.cross, bad |-> walk.bad,
       lost |-> {c \in Cluster : fat[c] # Free /\ c \notin walk.seen},
       stale |-> fsi # Cardinality(FreeClusters)]

Clean == Report = [cross |-> 0, bad |-> 0, lost |-> {}, stale |-> FALSE]

--------------------------------------------------------------------------------
(* What the report means, without the walk.                                    *)

LiveSlots == {s \in DirSlots : slots[s].kind \in Live}

(* The clusters of the chains that start in S, with the free ones they may run *)
(* into.                                                                       *)
Chains(S) ==
  LET Grow[n \in 0 .. NClus] ==
        IF n = 0 THEN S
        ELSE LET g == Grow[n - 1] IN g \cup ({fat[c] : c \in g} \cap Cluster)
  IN  Grow[NClus]

Firsts(kinds) == {slots[s].first : s \in {t \in LiveSlots : slots[t].kind \in kinds}} \ {0}
Arrivals(c, reached) ==
  Cardinality({p \in reached : fat[p] = c}) + Cardinality({s \in LiveSlots : slots[s].first = c})
    + (IF c = Root THEN 1 ELSE 0)

(* Between any two calls, and on any medium a refused write or a power loss    *)
(* leaves behind (with no file open: closing one changes neither the table nor *)
(* the directory), the report is exact: clusters are reported lost exactly when *)
(* they are allocated and no chain reaches them, a cross-link exactly when     *)
(* some cluster is reached in two ways, a bad chain exactly when some file     *)
(* runs into a free cluster.  (The check of libs/ra8_fs is one walk in one     *)
(* order over a bitmap; a wrong order of marking and testing shows here.)      *)
FsckExact ==
  (mounted /\ op = Idle /\ ~IsOpen) =>
    LET r == Report
        reached == Chains({Root} \cup Firsts(Live))
    IN  /\ r.lost = {c \in Cluster : fat[c] # Free} \ reached
        /\ r.cross > 0 <=> \E c \in reached : Arrivals(c, reached) > 1
        /\ r.bad > 0 <=> \E c \in Chains(Firsts({"file"})) : fat[c] = Free

(* "no chain runs into free space or off the volume (bad chain)"               *)
(* (ra8_fs_check.h:27): a volume reported clean has no entry, be it of a file  *)
(* or of a directory, that leads to a free cluster.                            *)
CleanHasNoBadChain ==
  (mounted /\ op = Idle /\ Clean) => \A c \in Chains(Firsts(Live)) : fat[c] # Free
================================================================================
