----------------------------- MODULE FatInvariant ------------------------------
(* The inductive invariant of Fat, and the facts its steps share: what a write *)
(* to the table does to a sound volume, what a call in progress may rely on.   *)
(* Then the steps that write nothing, and those between calls: each keeps it,  *)
(* and leaves every cluster in use accounted for while nothing fails.  Last,   *)
(* what holds of every step: where a fault shows, and whose clusters it writes. *)
EXTENDS Fat, TLAPS

--------------------------------------------------------------------------------
(* The inductive invariant.                                                    *)

(* Nothing leads to cluster c, except possibly the entry in slot x.            *)
Unled(c, x) ==
  /\ c \in Cluster /\ c # Root
  /\ \A p \in Cluster : fat[p] # c
  /\ \A s \in Entries : s # x => slots[s].first # c

(* The table is a set of chains, and entries lead to the heads of some.        *)
Chained ==
  /\ \A p, q \in Cluster : (fat[p] = fat[q] /\ fat[p] \in Cluster) => p = q
  /\ \A p \in Cluster : fat[p] # Root /\ (fat[p] \in Cluster => fat[fat[p]] # Free)
  /\ \A s \in Entries :
       slots[s].first # 0 => Unled(slots[s].first, s) /\ fat[slots[s].first] # Free

(* dirc is the chain of the root directory.                                    *)
Directory ==
  /\ Root \in dirc
  /\ \A c \in dirc : /\ fat[c] # Free
                     /\ fat[c] \in Cluster => fat[c] \in dirc
                     /\ c # Root => \E p \in dirc : fat[p] = c

(* A truncation to nothing has freed the first cluster of the open file.       *)
Beheaded == op.call = "trunc" /\ op.pc = "free" /\ op.n = 0 /\ op.c # h.first

(* The open file: its entry is there, and its chain is its own, filed in the   *)
(* entry or not yet.                                                           *)
Handle ==
  IsOpen =>
    /\ h.at \in DirSlots /\ slots[h.at].kind = "file"
    /\ h.first # 0 => Unled(h.first, h.at) /\ (Beheaded \/ fat[h.first] # Free)
    /\ (h.first = 0 /\ slots[h.at].first # 0) => op.pc = "commit"

(* A length needs a chain.                                                     *)
Lengths ==
  /\ \A s \in Slot : slots[s].size > 0 => slots[s].first # 0
  /\ h.size > 0 => h.first # 0
  /\ ~IsOpen => h = Closed

(* Which steps a call takes.                                                   *)
StepsOf(call) ==
  CASE call = "none" -> {"idle"}
    [] call = "open" -> {"free", "zero"}
    [] call \in {"create", "rename", "mkdir"} ->
         {"reserve", "gzero", "glink", "undo", "insert"}
           \cup (IF call = "mkdir" THEN {"mkalloc", "mkinit"} ELSE {})
           \cup (IF call = "rename" THEN {"erase"} ELSE {})
    [] call = "write" -> {"pos", "link", "dirent"}
    [] call = "trunc" -> {"cut", "extend", "tlink", "tzero", "commit", "free"}
    [] call \in {"unlink", "rmdir"} -> {"free", "erase"}

(* Where the call in progress stands.                                          *)
Where ==
  /\ op.pc \in StepsOf(op.call)
  /\ op.pc = "idle" => op = Idle
  /\ op.pc # "idle" => mounted /\ ~torn
  /\ op.call \in {"write", "trunc"} => IsOpen
  /\ op.call = "trunc" => op.at = h.at
  /\ op.call = "open" => ~IsOpen /\ op.at \in DirSlots /\ slots[op.at].kind = "file"
  /\ op.call = "rename" => /\ op.old \in DirSlots /\ slots[op.old].kind \in Live
                           /\ NotOpen(op.old)
                           /\ op.pc = "erase" => op.at = op.old
  /\ op.call \in {"unlink", "rmdir"} => NotOpen(op.at)
  /\ op.pc = "insert" /\ op.call = "create" => ~IsOpen

(* The numbers of the call in progress.                                        *)
Counts ==
  /\ op.pc \in {"pos", "link"} => op.n >= 1 /\ h.off + op.n <= MaxSize
  /\ op.pc = "link" => op.i < h.off
  /\ op.pc = "cut" => 1 <= op.n
  /\ op.pc = "extend" => op.i < op.n /\ h.size < op.n /\ (op.i = 0 => h.size = 0)
  /\ op.pc = "tlink" => op.i < op.n /\ h.size < op.n
  /\ op.pc = "tzero" => 1 <= op.i /\ op.i <= op.n /\ h.size < op.n

(* The clusters of the call in progress: a new one nothing leads to yet, in    *)
(* place of a directory slot a blank one; the slot that is to be filled; a     *)
(* place on the chain of the open file; the head of what is being freed.       *)
NewCluster ==
  op.pc \in {"gzero", "glink", "undo", "mkinit", "link", "tlink"}
    \/ (op.pc = "insert" /\ op.call = "mkdir")
  => /\ op.d \in Cluster /\ fat[op.d] = EOC
     /\ op.d \notin dirc => Unled(op.d, NoSlot) /\ (IsOpen => h.first # op.d)
     /\ op.pc # "undo" => op.d \notin dirc

Blank == op.pc = "glink" => \A s \in Slot : s[1] = op.d => slots[s].kind \notin Live

Target == op.pc \in {"insert", "mkalloc", "mkinit"}
            => op.at \in DirSlots /\ slots[op.at].kind \notin Live

Place ==
  \/ op.pc = "pos" /\ op.c # 0
  \/ op.pc \in {"link", "cut", "tlink", "tzero"}
  \/ op.pc = "extend" /\ op.i # 0
  => op.c \in Cluster \ dirc /\ fat[op.c] # Free /\ h.first # 0

Head ==
  op.pc = "free" =>
    /\ Unled(op.c, op.at) /\ fat[op.c] # Free
    /\ FreesAll \/ (op.at \in Entries => slots[op.at].first # op.c)
    /\ FreesAll /\ slots[op.at].first # 0 => \A p \in Cluster : fat[p] # slots[op.at].first
    /\ Beheaded => Headless
    /\ op.call # "trunc" => ~IsOpen \/ h.first # op.c
    /\ op.call = "trunc" => h.first # 0
    /\ op.call = "trunc" /\ op.n > 0 => h.first # op.c

Held == NewCluster /\ Blank /\ Target /\ Place /\ Head

(* The free count.                                                             *)
Counted ==
  faults = 0 =>
    /\ mounted => nfree = Cardinality(FreeClusters) /\ (~fsdirty => fsi = nfree)
    /\ ~mounted => fsi = Cardinality(FreeClusters)

IInv == Types /\ Lengths /\ Where /\ Counts
          /\ (torn \/ (Chained /\ Directory /\ Handle /\ Held)) /\ Counted

--------------------------------------------------------------------------------
(* Types.                                                                      *)

(* What counting clusters rests on.  It follows from the library's theorems    *)
(* about finite sets (FatProofs, CountingFacts); as a hypothesis it keeps them *)
(* out of the way of every other step.                                         *)
Counting ==
  /\ NClus \in Nat \ {0}
  /\ \A F \in SUBSET Cluster :
       /\ Cardinality(F) \in 0 .. NClus
       /\ \A c \in F : Cardinality(F \ {c}) = Cardinality(F) - 1
       /\ \A c \in Cluster \ F : Cardinality(F \cup {c}) = Cardinality(F) + 1

(* The constants: clusters and slots are of their sets.                        *)
LEMMA ConstantFacts ==
  /\ Cluster \subseteq MaybeCluster /\ 0 \in MaybeCluster
  /\ Slot \subseteq MaybeSlot /\ NoSlot \in MaybeSlot /\ NoSlot \notin Slot
  /\ Free \notin Cluster /\ EOC \notin Cluster /\ Free # EOC
  /\ Idle \in Call /\ Closed \in FileHandle
<1> USE FatAssumption DEF MaybeCluster, MaybeSlot, Length, Free, EOC
<1>1. NoSlot \notin Slot
  BY DEF NoSlot, Slot
<1>2. Idle \in Call /\ Closed \in FileHandle
  BY DEF Idle, Call, Closed, FileHandle, Calls, Steps
<1> QED BY <1>1, <1>2

(* Lengths are integers between 0 and the bound.                               *)
LEMMA LengthFacts ==
  /\ \A k : k \in Length <=> k \in Int /\ 0 <= k /\ k <= MaxSize
BY FatAssumption DEF Length

TypeFat == fat \in [Cluster -> {Free, EOC} \cup Cluster]

TypeSlots == slots \in [Slot -> Entry]

TypeNumbers == fsi \in 0 .. NClus /\ nfree \in 0 .. NClus /\ faults \in 0 .. MaxFaults

TypeFlags == mounted \in BOOLEAN /\ fsdirty \in BOOLEAN /\ torn \in BOOLEAN

(* The type invariant, taken apart.                                            *)
LEMMA TypeParts ==
  Types <=> TypeFat /\ TypeSlots /\ TypeNumbers /\ TypeFlags /\ dirc \in SUBSET Cluster
               /\ h \in FileHandle /\ op \in Call
BY DEF Types, TypeFat, TypeSlots, TypeNumbers, TypeFlags

(* The type invariant after a step, put together.                              *)
LEMMA TypeJoin ==
  ASSUME TypeFat', TypeSlots', TypeNumbers', TypeFlags', dirc' \in SUBSET Cluster,
         h' \in FileHandle, op' \in Call
  PROVE  Types'
BY DEF Types, TypeFat, TypeSlots, TypeNumbers, TypeFlags

--------------------------------------------------------------------------------
(* What a write to the table does to a sound volume.                           *)

(* Entries that stay as they are, or lead nowhere.                             *)
Kept == \A s \in Entries' :
          slots'[s].first = 0 \/ (s \in Entries /\ slots'[s].first = slots[s].first)

(* The table and the directory's clusters stay.                                *)
LEMMA SameTable ==
  ASSUME Chained, Directory, Kept, fat' = fat, dirc' = dirc
  PROVE  /\ Chained' /\ Directory'
         /\ \A c, x : Unled(c, x) => Unled(c, x)'
<1>1. ASSUME NEW c, NEW x, Unled(c, x) PROVE Unled(c, x)'
  BY <1>1, FatAssumption DEF Unled, Kept
<1>2. Chained'
  <2>1. ASSUME NEW s \in Entries', slots'[s].first # 0
        PROVE  Unled(slots[s].first, s)' /\ fat'[slots'[s].first] # Free
    BY <2>1, <1>1 DEF Chained, Kept
  <2> QED BY <2>1 DEF Chained
<1> QED BY <1>1, <1>2 DEF Directory

(* priv_alloc_eoc_cluster: nothing leads to a free cluster, so nothing leads   *)
(* to the one just taken.                                                      *)
LEMMA Claim ==
  ASSUME Types, Chained, Directory, Kept, dirc' = dirc,
         NEW c \in FreeClusters, fat' = [fat EXCEPT ![c] = EOC]
  PROVE  /\ Chained' /\ Directory'
         /\ c \in Cluster \ dirc /\ Unled(c, NoSlot)' /\ fat'[c] # Free
         /\ \A d, x : Unled(d, x) => Unled(d, x)'
         /\ \A d \in Cluster : fat[d] # Free => fat'[d] # Free /\ d # c
<1> USE ConstantFacts DEF FreeClusters
<1>1. c \in Cluster \ dirc /\ c # Root /\ \A p \in Cluster : fat[p] # c
  BY DEF Directory, Chained
<1>2. \A d \in Cluster : fat'[d] = IF d = c THEN EOC ELSE fat[d]
  BY <1>1 DEF Types
<1>3. ASSUME NEW d, NEW x, Unled(d, x) PROVE Unled(d, x)'
  BY <1>3, <1>2, FatAssumption DEF Unled, Kept
<1>4. \A s \in Entries : slots[s].first # c
  BY <1>1, FatAssumption DEF Chained
<1>5. Unled(c, NoSlot)'
  BY <1>1, <1>2, <1>4, FatAssumption DEF Unled, Kept
<1>6. Chained'
  <2>1. ASSUME NEW s \in Entries', slots'[s].first # 0
        PROVE  Unled(slots[s].first, s)' /\ fat'[slots'[s].first] # Free
    <3>1. s \in Entries /\ slots'[s].first = slots[s].first
      BY Zenon, <2>1 DEF Kept
    <3>2. Unled(slots[s].first, s) /\ fat[slots[s].first] # Free
      BY <2>1, <3>1 DEF Chained
    <3>3. slots[s].first \in Cluster
      BY <3>2 DEF Unled
    <3> QED BY Zenon, <3>1, <3>2, <3>3, <1>3, <1>2
  <2>2. \A p, q \in Cluster : (fat'[p] = fat'[q] /\ fat'[p] \in Cluster) => p = q
    BY <1>2 DEF Chained
  <2>3. \A p \in Cluster : fat'[p] # Root /\ (fat'[p] \in Cluster => fat'[fat'[p]] # Free)
    BY <1>2, FatAssumption DEF Chained
  <2> QED BY Zenon, <2>1, <2>2, <2>3 DEF Chained
<1>7. Directory'
  BY <1>1, <1>2 DEF Directory, Types
<1> QED BY <1>1, <1>2, <1>3, <1>5, <1>6, <1>7

(* Linking cluster d, which nothing leads to, behind cluster p of a file.      *)
LEMMA Link ==
  ASSUME Types, Chained, Directory, Kept, dirc' = dirc,
         NEW p \in Cluster \ dirc, NEW d, Unled(d, NoSlot), fat[d] # Free,
         fat' = [fat EXCEPT ![p] = d]
  PROVE  /\ Chained' /\ Directory'
         /\ \A e, x : e # d /\ Unled(e, x) => Unled(e, x)'
         /\ \A e \in Cluster : fat[e] # Free => fat'[e] # Free
<1> USE ConstantFacts
<1>1. d \in Cluster /\ d # Root /\ \A q \in Cluster : fat[q] # d
  BY DEF Unled
<1>2. \A e \in Cluster : fat'[e] = IF e = p THEN d ELSE fat[e]
  BY DEF Types
<1>3. ASSUME NEW e, NEW x, e # d, Unled(e, x) PROVE Unled(e, x)'
  BY <1>3, <1>2, FatAssumption DEF Unled, Kept
<1>4. \A s \in Entries : slots[s].first # d
  <2>1. ASSUME NEW s \in Entries, slots[s].first = d PROVE FALSE
    <3>1. s \in Slot
      BY DEF Entries, DirSlots
    <3> QED BY <2>1, <3>1 DEF Unled
  <2> QED BY <2>1
<1>5. Chained'
  <2>1. ASSUME NEW s \in Entries', slots'[s].first # 0
        PROVE  Unled(slots[s].first, s)' /\ fat'[slots'[s].first] # Free
    <3>1. s \in Entries /\ slots'[s].first = slots[s].first
      BY <2>1 DEF Kept
    <3>2. Unled(slots[s].first, s) /\ fat[slots[s].first] # Free
      BY <2>1, <3>1 DEF Chained
    <3>3. slots[s].first \in Cluster
      BY <3>2 DEF Unled
    <3> QED BY <3>1, <3>2, <3>3, <1>1, <1>3, <1>2, <1>4
  <2>2. \A e, q \in Cluster : (fat'[e] = fat'[q] /\ fat'[e] \in Cluster) => e = q
    BY <1>1, <1>2 DEF Chained
  <2>3. \A e \in Cluster : fat'[e] # Root /\ (fat'[e] \in Cluster => fat'[fat'[e]] # Free)
    BY <1>1, <1>2, FatAssumption DEF Chained
  <2> QED BY Zenon, <2>1, <2>2, <2>3 DEF Chained
<1>6. Directory'
  BY <1>1, <1>2 DEF Directory, Types
<1> QED BY <1>1, <1>2, <1>3, <1>5, <1>6

(* Ending a chain at cluster p of a file: nothing leads to what came after.    *)
LEMMA Cut ==
  ASSUME Types, Chained, Directory, Kept, dirc' = dirc,
         NEW p \in Cluster \ dirc, fat' = [fat EXCEPT ![p] = EOC]
  PROVE  /\ Chained' /\ Directory'
         /\ \A e, x : Unled(e, x) => Unled(e, x)'
         /\ \A e \in Cluster : fat[e] # Free => fat'[e] # Free
         /\ \A e \in Cluster : e = fat[p] => Unled(e, NoSlot)' /\ fat'[e] # Free
<1> USE ConstantFacts
<1>2. \A e \in Cluster : fat'[e] = IF e = p THEN EOC ELSE fat[e]
  BY DEF Types
<1>3. ASSUME NEW e, NEW x, Unled(e, x) PROVE Unled(e, x)'
  BY <1>3, <1>2, FatAssumption DEF Unled, Kept
<1>5. Chained'
  <2>1. ASSUME NEW s \in Entries', slots'[s].first # 0
        PROVE  Unled(slots[s].first, s)' /\ fat'[slots'[s].first] # Free
    <3>1. s \in Entries /\ slots'[s].first = slots[s].first
      BY Zenon, <2>1 DEF Kept
    <3>2. Unled(slots[s].first, s) /\ fat[slots[s].first] # Free
      BY Zenon, <2>1, <3>1 DEF Chained
    <3>3. slots[s].first \in Cluster
      BY <3>2 DEF Unled
    <3> QED BY Zenon, <3>1, <3>2, <3>3, <1>3, <1>2
  <2>2. \A e, q \in Cluster : (fat'[e] = fat'[q] /\ fat'[e] \in Cluster) => e = q
    BY <1>2 DEF Chained
  <2>3. \A e \in Cluster : fat'[e] # Root /\ (fat'[e] \in Cluster => fat'[fat'[e]] # Free)
    BY <1>2, FatAssumption DEF Chained
  <2> QED BY Zenon, <2>1, <2>2, <2>3 DEF Chained
<1>6. Directory'
  BY <1>2 DEF Directory, Types
<1>7. ASSUME NEW e \in Cluster, e = fat[p] PROVE Unled(e, NoSlot)' /\ fat'[e] # Free
  <2>1. e # Root /\ \A q \in Cluster : fat'[q] # e
    BY <1>2, <1>7 DEF Chained
  <2>2. \A s \in Entries : slots[s].first # e
    BY <1>7, FatAssumption DEF Chained, Unled
  <2>3. \A s \in Entries' : slots'[s].first # e
    BY <1>7, <2>2, FatAssumption DEF Kept
  <2>4. Unled(e, NoSlot)'
    BY Zenon, <1>7, <2>1, <2>3 DEF Unled
  <2> QED BY <2>4, <1>2, <1>7 DEF Chained
<1> QED BY <1>2, <1>3, <1>5, <1>6, <1>7

(* Freeing cluster c, which no entry that is kept leads to.                    *)
LEMMA Release ==
  ASSUME Types, Chained, Directory, Kept, dirc' = dirc,
         NEW c \in Cluster, c # Root, \A p \in Cluster : fat[p] # c,
         \A s \in Entries' : slots'[s].first # c,
         fat' = [fat EXCEPT ![c] = Free]
  PROVE  /\ Chained' /\ Directory'
         /\ \A e, x : Unled(e, x) => Unled(e, x)'
         /\ \A e \in Cluster : e # c /\ fat[e] # Free => fat'[e] # Free
         /\ \A e \in Cluster : e = fat[c] => Unled(e, NoSlot)' /\ fat'[e] # Free
<1> USE ConstantFacts
<1>1. c \in Cluster \ dirc /\ c # Root /\ \A q \in Cluster : fat[q] # c
  BY Zenon DEF Directory, Types
<1>2. \A e \in Cluster : fat'[e] = IF e = c THEN Free ELSE fat[e]
  BY <1>1 DEF Types
<1>3. ASSUME NEW e, NEW x, Unled(e, x) PROVE Unled(e, x)'
  BY <1>3, <1>2, FatAssumption DEF Unled, Kept
<1>5. Chained'
  <2>1. ASSUME NEW s \in Entries', slots'[s].first # 0
        PROVE  Unled(slots[s].first, s)' /\ fat'[slots'[s].first] # Free
    <3>1. s \in Entries /\ slots'[s].first = slots[s].first
      BY <2>1 DEF Kept
    <3>2. Unled(slots[s].first, s) /\ fat[slots[s].first] # Free
      BY Zenon, <2>1, <3>1 DEF Chained
    <3>3. slots[s].first \in Cluster
      BY Zenon, <3>2 DEF Unled
    <3> QED BY Zenon, <3>1, <3>2, <3>3, <1>3, <1>2
  <2>2. \A e, q \in Cluster : (fat'[e] = fat'[q] /\ fat'[e] \in Cluster) => e = q
    BY <1>2 DEF Chained
  <2>3. \A e \in Cluster : fat'[e] # Root /\ (fat'[e] \in Cluster => fat'[fat'[e]] # Free)
    BY <1>1, <1>2, FatAssumption DEF Chained
  <2> QED BY Zenon, <2>1, <2>2, <2>3 DEF Chained
<1>6. Directory'
  BY <1>1, <1>2 DEF Directory, Types
<1>7. ASSUME NEW e \in Cluster, e = fat[c] PROVE Unled(e, NoSlot)' /\ fat'[e] # Free
  <2>1. e # Root /\ \A q \in Cluster : fat'[q] # e
    BY <1>1, <1>2, <1>7 DEF Chained
  <2>2. \A s \in Entries : slots[s].first # e
    BY Zenon, <1>1, <1>7, FatAssumption DEF Chained, Unled
  <2>3. \A s \in Entries' : slots'[s].first # e
    BY <1>7, <2>2, FatAssumption DEF Kept
  <2>4. Unled(e, NoSlot)'
    BY <1>7, <2>1, <2>3 DEF Unled
  <2> QED BY <2>4, <1>1, <1>2, <1>7 DEF Chained
<1> QED BY Zenon, <1>2, <1>3, <1>5, <1>6, <1>7

--------------------------------------------------------------------------------
(* Facts shared by the steps.                                                  *)

(* A call in progress starts from a sound volume.                              *)
LEMMA Running ==
  ASSUME IInv, op.pc # "idle"
  PROVE  /\ Types /\ Lengths /\ Where /\ Counts /\ Counted /\ mounted /\ ~torn
         /\ Chained /\ Directory /\ Handle /\ Held
BY Zenon DEF IInv, Where

(* A step that takes nothing away stands by every entry.                       *)
LEMMA NotExposed ==
  op.pc \notin {"free", "zero", "erase", "commit"} =>
    ~Exposed /\ Entries = {s \in DirSlots : slots[s].kind \in Live}
BY Zenon DEF Exposed, Entries

(* Entries are slots of the directory.                                         *)
LEMMA EntryFacts == Entries \subseteq Slot /\ Entries \subseteq DirSlots
BY DEF Entries, DirSlots

(* With no call in progress there is nothing to say about one.                 *)
LEMMA Returned ==
  ASSUME op' = Idle, h' = h \/ TRUE
  PROVE  /\ op' \in Call /\ Where' /\ Counts' /\ Held' /\ ~Exposed' /\ ~Beheaded'
         /\ Entries' = {s \in DirSlots' : slots'[s].kind \in Live}
<1>1. op'.pc = "idle" /\ op'.call = "none"
  BY Zenon DEF Idle
<1>2. op' \in Call
  BY ConstantFacts
<1>3. Where'
  BY <1>1 DEF Where, StepsOf
<1>4. Counts'
  BY <1>1 DEF Counts
<1>5. Held'
  BY Zenon, <1>1 DEF Held, NewCluster, Blank, Target, Place, Head
<1>6. ~Exposed' /\ ~Beheaded'
  BY Zenon, <1>1 DEF Exposed, Beheaded
<1> QED BY Zenon, <1>2, <1>3, <1>4, <1>5, <1>6 DEF Entries

(* Lengths stay with the slots and the handle.                                 *)
LEMMA LengthsKept ==
  ASSUME Lengths, h' = h, slots' = slots
  PROVE  Lengths'
BY DEF Lengths, IsOpen

(* The open file stays sound when its entry and its chain stay.                *)
LEMMA HandleKept ==
  ASSUME Handle, ~Beheaded, op.pc # "commit", h' = h, dirc \subseteq dirc',
         IsOpen => slots'[h.at].kind = slots[h.at].kind /\ slots'[h.at].first = slots[h.at].first,
         \A c, x : c = h.first /\ Unled(c, x) => Unled(c, x)',
         h.first \in Cluster /\ fat[h.first] # Free => fat'[h.first] # Free
  PROVE  Handle'
<1> SUFFICES ASSUME IsOpen' PROVE Handle'
  BY Zenon DEF Handle
<1>1. IsOpen /\ h.at \in DirSlots /\ slots[h.at].kind = "file"
  BY Zenon DEF Handle, IsOpen
<1>2. h'.at \in DirSlots' /\ slots'[h'.at].kind = "file"
  BY Zenon, <1>1 DEF DirSlots
<1>3. (h'.first = 0 /\ slots'[h'.at].first # 0) => op'.pc = "commit"
  BY <1>1 DEF Handle
<1>4. ASSUME h'.first # 0 PROVE Unled(h.first, h.at)' /\ fat'[h'.first] # Free
  <2>1. Unled(h.first, h.at) /\ fat[h.first] # Free
    BY Zenon, <1>1, <1>4 DEF Handle
  <2>2. h.first \in Cluster
    BY Zenon, <2>1 DEF Unled
  <2>3. \A c, x : c = h.first /\ x = h.at => Unled(c, x)'
    BY <2>1
  <2>4. Unled(h.first, h.at)'
    BY <2>3
  <2> QED BY Zenon, <2>1, <2>2, <2>4
<1> QED BY Zenon, <1>2, <1>3, <1>4 DEF Handle

(* Refused and accepted writes, and the free count.                            *)
LEMMA FaultCount ==
  ASSUME TypeNumbers
  PROVE  /\ Refused \/ Accepted => faults' \in 0 .. MaxFaults
         /\ Refused => faults' # 0
BY FatAssumption DEF TypeNumbers, Refused, Accepted

(* The free count stays within the volume.                                     *)
LEMMA FreeCount ==
  ASSUME Counting, TypeNumbers
  PROVE  Took \/ Gave => nfree' \in 0 .. NClus /\ fsdirty'
<1>1. NClus \in Nat \ {0}
  BY DEF Counting
<1> QED BY <1>1 DEF TypeNumbers, Took, Gave

(* After a refused write nothing is claimed of the count.                      *)
LEMMA RefusedCounted == ASSUME TypeNumbers, Refused PROVE Counted'
BY FaultCount DEF Counted

(* The count stays where the free clusters do.                                 *)
LEMMA CountedSame ==
  ASSUME Counted, Accepted, UNCHANGED <<fsi, mounted, alloc>>, FreeClusters' = FreeClusters
  PROVE  Counted'
BY DEF Counted, Accepted, alloc

(* Taking a free cluster and counting down agree.                              *)
LEMMA CountedTook ==
  ASSUME Counting, Types, Counted, mounted, mounted' = mounted, fsi' = fsi, Took, Accepted,
         NEW c \in FreeClusters, fat' = [fat EXCEPT ![c] = EOC]
  PROVE  Counted'
<1>1. FreeClusters' = FreeClusters \ {c}
  BY ConstantFacts DEF Types, FreeClusters
<1>2. FreeClusters \in SUBSET Cluster /\ FreeClusters \ {c} \in SUBSET Cluster
  BY DEF FreeClusters
<1>3. /\ Cardinality(FreeClusters') = Cardinality(FreeClusters) - 1
      /\ Cardinality(FreeClusters) \in 0 .. NClus /\ Cardinality(FreeClusters') \in 0 .. NClus
  BY <1>1, <1>2 DEF Counting
<1>4. NClus \in Nat
  BY DEF Counting
<1> QED BY <1>3, <1>4 DEF Counted, Took, Accepted

(* Giving a cluster back and counting up agree.                                *)
LEMMA CountedGave ==
  ASSUME Counting, Types, Counted, mounted, mounted' = mounted, fsi' = fsi, Gave, Accepted,
         NEW c \in Cluster, fat[c] # Free, fat' = [fat EXCEPT ![c] = Free]
  PROVE  Counted'
<1>1. FreeClusters' = FreeClusters \cup {c} /\ c \notin FreeClusters
  BY DEF Types, FreeClusters
<1>2. FreeClusters \in SUBSET Cluster /\ FreeClusters \cup {c} \in SUBSET Cluster
  BY DEF FreeClusters
<1>3. /\ Cardinality(FreeClusters') = Cardinality(FreeClusters) + 1
      /\ Cardinality(FreeClusters) \in 0 .. NClus /\ Cardinality(FreeClusters') \in 0 .. NClus
  BY <1>1, <1>2 DEF Counting
<1>4. NClus \in Nat
  BY DEF Counting
<1> QED BY <1>3, <1>4 DEF Counted, Gave, Accepted

--------------------------------------------------------------------------------
(* Steps that leave the medium and the handle as they are.                     *)

Quiet == UNCHANGED <<medium, mounted, alloc, faults, torn>>

(* The fields of a slot.                                                       *)
LEMMA SlotFacts ==
  ASSUME Types, NEW s \in Slot
  PROVE  slots[s].first \in MaybeCluster /\ slots[s].size \in Length
BY DEF Types, Entry

(* The fields of the handle.                                                   *)
LEMMA HandleFacts ==
  ASSUME Types
  PROVE  /\ h.at \in MaybeSlot /\ h.first \in MaybeCluster
         /\ h.size \in Length /\ h.off \in Length /\ h.dirty \in 0 .. 1
BY DEF Types, FileHandle

(* The fields of the call in progress.                                         *)
LEMMA CallFacts ==
  ASSUME Types
  PROVE  /\ op.call \in Calls /\ op.pc \in Steps /\ op.at \in MaybeSlot /\ op.old \in MaybeSlot
         /\ op.c \in MaybeCluster /\ op.d \in MaybeCluster /\ op.i \in Length /\ op.n \in Length
BY DEF Types, Call

(* A count below a length can be stepped.                                      *)
LEMMA Successor == ASSUME NEW i \in Length, NEW j \in Length, i < j PROVE i + 1 \in Length /\ i + 1 <= j
BY FatAssumption DEF Length

(* A step belongs to few calls.                                                *)
LEMMA CallOf ==
  ASSUME Types, Where
  PROVE  /\ op.pc \in {"pos", "link", "dirent"} => op.call = "write"
         /\ op.pc \in {"cut", "extend", "tlink", "tzero", "commit"} => op.call = "trunc"
         /\ op.pc = "zero" => op.call = "open"
         /\ op.pc \in {"reserve", "gzero", "glink", "undo", "insert"}
              => op.call \in {"create", "rename", "mkdir"}
         /\ op.pc \in {"mkalloc", "mkinit"} => op.call = "mkdir"
         /\ op.pc = "erase" => op.call \in {"rename", "unlink", "rmdir"}
         /\ op.pc = "free" => op.call \in {"open", "trunc", "unlink", "rmdir"}
<1>1. op.call \in Calls /\ op.pc \in StepsOf(op.call)
  BY Zenon, CallFacts DEF Where
<1>2. CASE op.call \in {"none", "open", "write", "trunc"}
  BY <1>1, <1>2 DEF StepsOf
<1>3. CASE op.call \in {"create", "rename", "mkdir"}
  BY <1>1, <1>3 DEF StepsOf
<1>4. CASE op.call \in {"unlink", "rmdir"}
  BY <1>1, <1>4 DEF StepsOf
<1> QED BY Zenon, <1>1, <1>2, <1>3, <1>4 DEF Calls

(* A step that changes nothing but the call in progress.                       *)
LEMMA CalmStep ==
  ASSUME IInv, ~torn, op.pc \notin {"free", "zero", "erase", "commit"}, Quiet, h' = h,
         op' \in Call, Where', Counts',
         (\A c, x : Unled(c, x) => Unled(c, x)') => Held'
  PROVE  IInv'
<1>1. Types /\ Lengths /\ Chained /\ Directory /\ Handle /\ Counted
  BY DEF IInv
<1>2. slots' = slots /\ dirc' = dirc /\ fat' = fat
  BY DEF Quiet, medium
<1>3. Kept
  <2>1. Entries = {s \in DirSlots : slots[s].kind \in Live}
    BY NotExposed
  <2>2. Entries' \subseteq {s \in DirSlots : slots[s].kind \in Live}
    BY <1>2 DEF Entries, DirSlots
  <2> QED BY Zenon, <2>1, <2>2, <1>2 DEF Kept
<1>4. Chained' /\ Directory' /\ \A c, x : Unled(c, x) => Unled(c, x)'
  BY <1>1, <1>2, <1>3, SameTable
<1>5. Lengths'
  BY <1>1, <1>2, LengthsKept
<1>6. Handle'
  <2>1. ~Beheaded
    BY DEF Beheaded
  <2> QED BY Zenon, <1>1, <1>2, <1>4, <2>1, HandleKept
<1>7. Types'
  BY Zenon, <1>1 DEF Types, Quiet, medium, alloc
<1>8. Counted'
  BY Zenon, <1>1 DEF Counted, Quiet, medium, alloc, FreeClusters
<1> QED BY Zenon, <1>4, <1>5, <1>6, <1>7, <1>8 DEF IInv

(* With no call in progress an entry leads to a chain of its own.              *)
LEMMA ReadyFacts ==
  ASSUME IInv, Ready
  PROVE  /\ op = Idle /\ op.pc = "idle" /\ op.call = "none" /\ ~torn /\ mounted
         /\ Types /\ Lengths /\ Where /\ Chained /\ Directory /\ Handle
         /\ \A s \in DirSlots : slots[s].kind \in Live => s \in Entries
<1>1. op = Idle /\ op.pc = "idle" /\ op.call = "none" /\ ~torn /\ mounted
  BY Zenon DEF Ready, Idle
<1>2. \A s \in DirSlots : slots[s].kind \in Live => s \in Entries
  BY <1>1, NotExposed
<1> QED BY <1>1, <1>2 DEF IInv

Calm == op.pc \notin {"free", "zero", "erase", "commit"}

(* A step that takes nothing away and writes no slot keeps the entries.        *)
LEMMA CalmKept ==
  ASSUME Calm, slots' = slots, dirc' = dirc
  PROVE  Kept /\ Entries' \subseteq Entries
<1>1. Entries = {s \in DirSlots : slots[s].kind \in Live}
  BY NotExposed DEF Calm
<1>2. Entries' \subseteq {s \in DirSlots : slots[s].kind \in Live}
  BY Zenon DEF Entries, DirSlots
<1> QED BY <1>1, <1>2 DEF Kept

(* A table entry set to a table value leaves a table.                          *)
LEMMA FatType ==
  ASSUME Types, NEW c \in Cluster, NEW v \in {Free, EOC} \cup Cluster,
         fat' = fat \/ fat' = [fat EXCEPT ![c] = v]
  PROVE  TypeFat'
BY DEF Types, TypeFat

(* create, mkdir and rename go on.                                             *)
LEMMA NamedCall ==
  ASSUME Where, op.call \in {"create", "rename", "mkdir"}, op.pc # "idle",
         op'.call = op.call, op'.old = op.old, h' = h, mounted' = mounted, torn' = torn,
         dirc \subseteq dirc', op'.pc \in {"reserve", "gzero", "glink", "undo"} \/
           (op.call = "mkdir" /\ op'.pc \in {"mkalloc", "mkinit", "insert"}),
         \A s \in DirSlots : slots[s].kind \in Live => slots'[s].kind \in Live
  PROVE  Where'
<1>1. op.call = "rename" => op'.old \in DirSlots' /\ slots'[op'.old].kind \in Live
                              /\ NotOpen(op.old)'
  BY Zenon DEF Where, NotOpen, DirSlots
<1> QED BY <1>1 DEF Where, StepsOf

(* write and truncate go on.                                                   *)
LEMMA FileCall ==
  ASSUME Where, op.call \in {"write", "trunc"}, op'.call = op.call, op'.at = op.at,
         mounted, ~torn, mounted' = mounted, torn' = torn, h'.at = h.at,
         op.call = "write" => op'.pc \in {"pos", "link", "dirent"},
         op.call = "trunc" => op'.pc \in {"cut", "extend", "tlink", "tzero", "commit", "free"}
  PROVE  Where'
<1>1. IsOpen'
  BY Zenon DEF Where, IsOpen
<1> QED BY <1>1 DEF Where, StepsOf

--------------------------------------------------------------------------------
(* Steps that begin a call or walk a chain.                                    *)

(* Opening for writing begins: the chain is about to be freed.                 *)
LEMMA OpenWriteStep ==
  ASSUME IInv, NEW s \in Slot, OpenWrite(s)
  PROVE  IInv'
<1>0. Ready /\ s \in DirSlots /\ slots[s].kind = "file" /\ ~IsOpen /\ Quiet /\ h' = h
  BY DEF OpenWrite, Quiet
<1>1. ~torn /\ op.pc = "idle" /\ Types /\ Chained /\ s \in Entries /\ mounted
  BY <1>0, ReadyFacts DEF Live
<1>2. slots' = slots /\ dirc' = dirc /\ fat' = fat /\ mounted' /\ ~torn'
  BY <1>0, <1>1 DEF Quiet, medium
<1>3. /\ op'.call = "open" /\ op'.at = s /\ op'.c = slots[s].first
      /\ op'.pc = IF slots[s].first = 0 THEN "zero" ELSE "free"
  BY DEF OpenWrite, Idle
<1>4. op' \in Call
  <2>1. slots[s].first \in MaybeCluster /\ s \in MaybeSlot
    BY Zenon, <1>1, SlotFacts, ConstantFacts
  <2> QED BY ZenonT(30), <2>1, ConstantFacts DEF OpenWrite, Idle, Call, Calls, Steps
<1>5. Where'
  <2>1. ~IsOpen' /\ s \in DirSlots'
    BY Zenon, <1>0, <1>2 DEF IsOpen, DirSlots
  <2> QED BY <1>0, <1>2, <1>3, <2>1 DEF Where, StepsOf
<1>6. Counts'
  BY Zenon, <1>3 DEF Counts
<1>7. ASSUME \A c, x : Unled(c, x) => Unled(c, x)' PROVE Held'
  <2>1. NewCluster' /\ Blank' /\ Target' /\ Place'
    BY Zenon, <1>3 DEF NewCluster, Blank, Target, Place
  <2>2. Head'
    <3>1. ASSUME op'.pc = "free" PROVE Unled(op.c, op.at)' /\ fat'[op'.c] # Free
      BY Zenon, <1>1, <1>2, <1>3, <1>7, <3>1 DEF Chained
    <3>2. op'.pc = "free" => \A p \in Cluster : fat'[p] # slots'[op'.at].first
      BY Zenon, <1>2, <1>3, <3>1 DEF Unled
    <3> QED BY Zenon, <1>0, <1>3, <3>1, <3>2 DEF Head, FreesAll, IsOpen, Beheaded
  <2> QED BY <2>1, <2>2 DEF Held
<1> QED BY Zenon, <1>0, <1>1, <1>4, <1>5, <1>6, <1>7, CalmStep

(* unlink and rmdir begin.                                                     *)
LEMMA BeginUnlinkStep ==
  ASSUME IInv, NEW s \in Slot, BeginUnlink(s) \/ BeginRmdir(s)
  PROVE  IInv'
<1>0. Ready /\ s \in DirSlots /\ slots[s].kind \in Live /\ Quiet /\ h' = h
  BY DEF BeginUnlink, BeginRmdir, Quiet, Live
<1>1. /\ ~torn /\ op.pc = "idle" /\ Types /\ Chained /\ s \in Entries /\ mounted
      /\ Handle
  BY <1>0, ReadyFacts
<1>2. slots' = slots /\ dirc' = dirc /\ fat' = fat /\ mounted' /\ ~torn'
  BY <1>0, <1>1 DEF Quiet, medium
<1>3. /\ op'.call \in {"unlink", "rmdir"} /\ op'.at = s /\ op'.c = slots[s].first
      /\ op'.pc = IF slots[s].first = 0 THEN "erase" ELSE "free"
  BY Zenon DEF BeginUnlink, BeginRmdir, Idle
<1>4. op' \in Call
  <2>1. slots[s].first \in MaybeCluster /\ s \in MaybeSlot
    BY Zenon, <1>1, SlotFacts, ConstantFacts
  <2>2. CASE BeginUnlink(s)
    BY ZenonT(30), <2>1, <2>2, ConstantFacts DEF BeginUnlink, Idle, Call, Calls, Steps
  <2>3. CASE BeginRmdir(s)
    BY ZenonT(30), <2>1, <2>3, ConstantFacts DEF BeginRmdir, Idle, Call, Calls, Steps
  <2> QED BY <2>2, <2>3
<1>a. NotOpen(s)
  <2>1. CASE BeginUnlink(s)
    BY <2>1 DEF BeginUnlink
  <2>2. CASE BeginRmdir(s)
    <3>1. slots[s].kind = "dir"
      BY <2>2 DEF BeginRmdir
    <3>2. h.at = s => IsOpen
      BY ConstantFacts DEF IsOpen
    <3> QED BY Zenon, <3>1, <3>2, <1>1 DEF NotOpen, Handle
  <2> QED BY <2>1, <2>2
<1>5. Where'
  <2>1. NotOpen(op.at)'
    BY Zenon, <1>0, <1>3, <1>a DEF NotOpen
  <2> QED BY <1>2, <1>3, <2>1 DEF Where, StepsOf
<1>6. Counts'
  BY Zenon, <1>3 DEF Counts
<1>7. ASSUME \A c, x : Unled(c, x) => Unled(c, x)' PROVE Held'
  <2>1. NewCluster' /\ Blank' /\ Target' /\ Place'
    BY Zenon, <1>3 DEF NewCluster, Blank, Target, Place
  <2>2. Head'
    <3>1. ASSUME op'.pc = "free" PROVE Unled(op.c, op.at)' /\ fat'[op'.c] # Free
      BY Zenon, <1>1, <1>2, <1>3, <1>7, <3>1 DEF Chained
    <3>2. ASSUME op'.pc = "free", IsOpen PROVE h.first # op'.c
      <4>1. slots[s].first \in Cluster /\ slots[s].first # 0
        BY Zenon, <3>2, <1>3, <1>1, FatAssumption DEF Chained, Unled
      <4>2. h.first # 0 => Unled(h.first, h.at)
        BY Zenon, <1>1, <3>2 DEF Handle
      <4> QED BY Zenon, <4>1, <4>2, <1>1, <1>3, <1>a DEF Unled, NotOpen
    <3>3. op'.pc = "free" => \A p \in Cluster : fat'[p] # slots'[op'.at].first
      BY Zenon, <1>2, <1>3, <3>1 DEF Unled
    <3> QED BY Zenon, <1>0, <1>3, <3>1, <3>2, <3>3 DEF Head, FreesAll, IsOpen, Beheaded
  <2> QED BY <2>1, <2>2 DEF Held
<1> QED BY Zenon, <1>0, <1>1, <1>4, <1>5, <1>6, <1>7, CalmStep

(* create, mkdir and rename begin.                                             *)
LEMMA BeginNameStep ==
  ASSUME IInv, NEW n \in Names,
         OpenCreate(n) \/ BeginMkdir(n) \/ \E s \in Slot : BeginRename(s, n)
  PROVE  IInv'
<1>0. Ready /\ Quiet /\ h' = h
  BY Zenon DEF OpenCreate, BeginMkdir, BeginRename, Quiet
<1>1. ~torn /\ op.pc = "idle" /\ mounted
  BY <1>0, ReadyFacts
<1>2. slots' = slots /\ dirc' = dirc /\ fat' = fat /\ mounted' /\ ~torn'
  BY <1>0, <1>1 DEF Quiet, medium
<1>3. /\ op'.call \in {"create", "mkdir", "rename"} /\ op'.pc = "reserve"
      /\ op'.call = "rename" =>
           op'.old \in DirSlots /\ slots[op'.old].kind \in Live /\ NotOpen(op'.old)
  BY ZenonT(30) DEF OpenCreate, BeginMkdir, BeginRename, Idle
<1>4. op' \in Call
  <2>1. CASE OpenCreate(n)
    BY Zenon, <2>1, ConstantFacts DEF OpenCreate, Idle, Call, Calls, Steps
  <2>2. CASE BeginMkdir(n)
    BY Zenon, <2>2, ConstantFacts DEF BeginMkdir, Idle, Call, Calls, Steps
  <2>3. ASSUME NEW s \in Slot, BeginRename(s, n) PROVE op' \in Call
    <3>1. s \in MaybeSlot
      BY ConstantFacts
    <3> QED BY Zenon, <2>3, <3>1, ConstantFacts DEF BeginRename, Idle, Call, Calls, Steps
  <2> QED BY <2>1, <2>2, <2>3
<1>5. Where'
  <2>1. op'.call = "rename" => op'.old \in DirSlots' /\ slots'[op'.old].kind \in Live
                                 /\ NotOpen(op.old)'
    BY Zenon, <1>0, <1>2, <1>3 DEF NotOpen, DirSlots
  <2> QED BY <1>2, <1>3, <2>1 DEF Where, StepsOf
<1>6. Counts'
  BY Zenon, <1>3 DEF Counts
<1>7. Held'
  BY Zenon, <1>3 DEF Held, NewCluster, Blank, Target, Place, Head
<1> QED BY Zenon, <1>0, <1>1, <1>4, <1>5, <1>6, <1>7, CalmStep

(* The chain of an open file stays clear of the directory.                     *)
LEMMA FileClear ==
  ASSUME Types, Chained, Directory
  PROVE  /\ \A c, x : Unled(c, x) => c \in Cluster \ dirc
         /\ \A c \in Cluster \ dirc : fat[c] \in Cluster => fat[c] \in Cluster \ dirc
<1>1. \A c, x : Unled(c, x) => c \in Cluster \ dirc
  BY DEF Unled, Directory, Types
<1>2. ASSUME NEW c \in Cluster \ dirc, fat[c] \in Cluster, fat[c] \in dirc PROVE FALSE
  <2>1. PICK p \in dirc : fat[p] = fat[c]
    BY Zenon, <1>2 DEF Directory, Chained
  <2> QED BY <2>1, <1>2 DEF Chained, Types
<1> QED BY <1>1, <1>2

(* write begins at the first cluster of the open file.                         *)
LEMMA BeginWriteStep ==
  ASSUME IInv, NEW n \in 1 .. MaxSize, BeginWrite(n)
  PROVE  IInv'
<1>0. Ready /\ Quiet /\ h' = h /\ IsOpen /\ h.off + n <= MaxSize
  BY DEF BeginWrite, Quiet
<1>1. ~torn /\ op.pc = "idle" /\ mounted /\ Types /\ Chained /\ Directory /\ Handle
  BY <1>0, ReadyFacts
<1>2. slots' = slots /\ dirc' = dirc /\ fat' = fat /\ mounted' /\ ~torn' /\ IsOpen'
  BY <1>0, <1>1 DEF Quiet, medium, IsOpen
<1>3. op'.call = "write" /\ op'.pc = "pos" /\ op'.c = h.first /\ op'.n = n
  BY DEF BeginWrite, Idle
<1>4. op' \in Call
  <2>1. h.first \in MaybeCluster /\ n \in Length
    BY <1>1, HandleFacts, LengthFacts, FatAssumption
  <2> QED BY Zenon, <2>1, ConstantFacts, LengthFacts DEF BeginWrite, Idle, Call, Calls, Steps
<1>5. Where'
  BY <1>2, <1>3 DEF Where, StepsOf
<1>6. Counts'
  BY <1>0, <1>3 DEF Counts
<1>7. Held'
  <2>1. NewCluster' /\ Blank' /\ Target' /\ Head'
    BY Zenon, <1>3 DEF NewCluster, Blank, Target, Head
  <2>2. ASSUME h.first # 0 PROVE h.first \in Cluster \ dirc /\ fat[h.first] # Free
    <3>1. ~Beheaded
      BY Zenon, <1>1 DEF Beheaded
    <3> QED BY Zenon, <1>0, <1>1, <2>2, <3>1, FileClear DEF Handle
  <2>3. Place'
    BY Zenon, <1>0, <1>2, <1>3, <2>2 DEF Place
  <2> QED BY <2>1, <2>3 DEF Held
<1> QED BY <1>0, <1>1, <1>4, <1>5, <1>6, <1>7, CalmStep

(* write moves along the chain.                                                *)
LEMMA WriteWalkStep ==
  ASSUME IInv, WriteWalk
  PROVE  IInv'
<1>0. Quiet /\ h' = h /\ op.pc = "pos" /\ op.c # 0 /\ op.i < h.off /\ fat[op.c] \in Cluster
  BY DEF WriteWalk, Quiet
<1>1. /\ ~torn /\ mounted /\ Types /\ Chained /\ Directory /\ Where /\ Counts /\ Held
      /\ op \in Call /\ h.off \in Length
  BY Zenon, <1>0, Running, HandleFacts DEF Types
<1>2. slots' = slots /\ dirc' = dirc /\ fat' = fat /\ mounted' = mounted /\ torn' = torn
  BY <1>0 DEF Quiet, medium
<1>3. /\ op'.call = op.call /\ op'.pc = op.pc /\ op'.c = fat[op.c] /\ op'.n = op.n
  BY <1>1 DEF WriteWalk, Call
<1>4. op' \in Call
  <2>1. op.i + 1 \in Length
    BY <1>0, <1>1, CallFacts, Successor
  <2>2. fat[op.c] \in MaybeCluster
    BY <1>0, ConstantFacts
  <2> QED BY Zenon, <2>1, <2>2, <1>1 DEF WriteWalk, Call
<1>a. op.call = "write" /\ op'.call = "write" /\ op'.pc = "pos"
  BY Zenon, <1>0, <1>1, <1>3, CallOf
<1>5. Where'
  BY <1>0, <1>1, <1>2, <1>a DEF Where, StepsOf, IsOpen
<1>6. Counts'
  BY Zenon, <1>0, <1>1, <1>3, <1>a DEF Counts
<1>7. Held'
  <2>1. NewCluster' /\ Blank' /\ Target' /\ Head'
    BY Zenon, <1>a DEF NewCluster, Blank, Target, Head
  <2>2. op.c \in Cluster \ dirc /\ h.first # 0
    BY Zenon, <1>0, <1>1 DEF Held, Place
  <2>3. fat[op.c] \in Cluster \ dirc /\ fat[fat[op.c]] # Free
    BY Zenon, <1>0, <1>1, <2>2, FileClear DEF Chained
  <2>4. Place'
    BY Zenon, <1>0, <1>2, <1>3, <1>a, <2>2, <2>3 DEF Place
  <2> QED BY <2>1, <2>4 DEF Held
<1> QED BY Zenon, <1>0, <1>1, <1>4, <1>5, <1>6, <1>7, CalmStep

(* truncate begins, in each of its directions.                                 *)
LEMMA TruncateBegins ==
  ASSUME IInv, NEW n \in 0 .. MaxSize, BeginTruncate(n)
  PROVE  /\ h' = h /\ op'.call = "trunc" /\ op'.at = h.at /\ op'.n = n /\ op' \in Call
         /\ \/ op'.pc = "commit" /\ n = h.size
            \/ op'.pc = "free" /\ op'.c = h.first /\ n = 0 /\ h.size > 0
            \/ op'.pc = "cut" /\ op'.c = h.first /\ 0 < n /\ h.size > 0
            \/ op'.pc = "extend" /\ op'.i = 0 /\ h.size = 0 /\ h.size < n
            \/ op'.pc = "extend" /\ op'.i = 1 /\ op'.c = h.first /\ h.size < n /\ h.size > 0
<1>0. h.size \in Length /\ h.first \in MaybeCluster /\ h.at \in MaybeSlot /\ Lengths
  BY Zenon, HandleFacts DEF IInv
<1>a. h.size \in Int /\ h.size >= 0 /\ n \in Int /\ n >= 0 /\ n \in Length
  BY <1>0, FatAssumption DEF Length
<1> DEFINE call(pc, c, i) == [Idle EXCEPT !.call = "trunc", !.pc = pc, !.at = h.at,
                                          !.c = c, !.i = i, !.n = n]
<1>1. ASSUME NEW pc \in Steps, NEW c \in MaybeCluster, NEW i \in Length
      PROVE  /\ call(pc, c, i) \in Call /\ call(pc, c, i).call = "trunc"
             /\ call(pc, c, i).pc = pc /\ call(pc, c, i).at = h.at
             /\ call(pc, c, i).c = c /\ call(pc, c, i).i = i /\ call(pc, c, i).n = n
  BY Zenon, <1>0, <1>a, ConstantFacts DEF Idle, Call, Calls
<1>2. {"commit", "free", "cut", "extend"} \subseteq Steps /\ 0 \in Length
  BY FatAssumption DEF Steps, Length
<1>3. h.size > 0 => 1 \in Length /\ h.first # 0
  BY <1>0, FatAssumption DEF Length, Lengths
<1> HIDE DEF call
<1>4. \/ op' = call("commit", 0, 0) /\ h' = h /\ n = h.size
      \/ op' = call("free", h.first, 0) /\ h' = h /\ n = 0 /\ h.size > 0
      \/ op' = call("cut", h.first, 1) /\ h' = h /\ 0 < n /\ n < h.size
      \/ op' = call("extend", 0, 0) /\ h' = h /\ h.size < n /\ h.size = 0
      \/ op' = call("extend", h.first, 1) /\ h' = h /\ h.size < n /\ h.size > 0
  BY <1>3 DEF BeginTruncate, call
<1>5. CASE op' = call("commit", 0, 0) /\ h' = h /\ n = h.size
  BY <1>1, <1>2, <1>5, ConstantFacts
<1>6. CASE op' = call("free", h.first, 0) /\ h' = h /\ n = 0 /\ h.size > 0
  BY <1>0, <1>1, <1>2, <1>6
<1>7. CASE op' = call("cut", h.first, 1) /\ h' = h /\ 0 < n /\ n < h.size
  <2>1. h.size > 0
    BY <1>a, <1>7
  <2>2. "cut" \in Steps /\ h.first \in MaybeCluster /\ 1 \in Length
    BY Zenon, <1>0, <1>2, <1>3, <2>1
  <2> QED BY <1>1, <1>7, <2>1, <2>2
<1>8. CASE op' = call("extend", 0, 0) /\ h' = h /\ h.size < n /\ h.size = 0
  BY <1>1, <1>2, <1>8, ConstantFacts
<1>9. CASE op' = call("extend", h.first, 1) /\ h' = h /\ h.size < n /\ h.size > 0
  BY <1>0, <1>1, <1>2, <1>3, <1>9
<1> QED BY Zenon, <1>4, <1>5, <1>6, <1>7, <1>8, <1>9

(* The volume is as it was, the call knows where to start.                     *)
LEMMA BeginTruncateStep ==
  ASSUME IInv, NEW n \in 0 .. MaxSize, BeginTruncate(n)
  PROVE  IInv'
<1>0. Ready /\ Quiet /\ IsOpen
  BY DEF BeginTruncate, Quiet
<1>1. /\ ~torn /\ op.pc = "idle" /\ mounted /\ Types /\ Chained /\ Directory /\ Handle /\ Lengths
      /\ h.size \in Length /\ h.first \in MaybeCluster /\ h.at \in MaybeSlot
  BY Zenon, <1>0, ReadyFacts, HandleFacts
<1>2. slots' = slots /\ dirc' = dirc /\ fat' = fat /\ mounted' /\ ~torn'
  BY <1>0, <1>1 DEF Quiet, medium
<1>a. h.size \in Int /\ h.size >= 0 /\ n \in Int /\ n >= 0 /\ n \in Length
  BY <1>1, FatAssumption DEF Length
<1>3. /\ h' = h /\ op'.call = "trunc" /\ op'.at = h.at /\ op'.n = n /\ op' \in Call
      /\ \/ op'.pc = "commit" /\ n = h.size
         \/ op'.pc = "free" /\ op'.c = h.first /\ n = 0 /\ h.size > 0
         \/ op'.pc = "cut" /\ op'.c = h.first /\ 0 < n /\ h.size > 0
         \/ op'.pc = "extend" /\ op'.i = 0 /\ h.size = 0 /\ h.size < n
         \/ op'.pc = "extend" /\ op'.i = 1 /\ op'.c = h.first /\ h.size < n /\ h.size > 0
  BY Zenon, TruncateBegins
<1>5. Where'
  <2>1. IsOpen' /\ op'.at = h'.at
    BY Zenon, <1>0, <1>3 DEF IsOpen
  <2> QED BY <1>2, <1>3, <2>1 DEF Where, StepsOf
<1>6. Counts'
  BY <1>3, <1>a DEF Counts
<1>7. ASSUME \A c, x : Unled(c, x) => Unled(c, x)' PROVE Held'
  <2>1. NewCluster' /\ Blank' /\ Target'
    BY Zenon, <1>3 DEF NewCluster, Blank, Target
  <2>2. ASSUME h.size > 0
        PROVE  h.first # 0 /\ Unled(h.first, h.at) /\ fat[h.first] # Free /\ h.first \in Cluster \ dirc
    <3>1. ~Beheaded
      BY Zenon, <1>1 DEF Beheaded
    <3> QED BY Zenon, <1>0, <1>1, <2>2, <3>1, FileClear DEF Handle, Lengths
  <2>3. Place'
    BY Zenon, <1>2, <1>3, <2>2 DEF Place
  <2>4. Head'
    <3>1. ASSUME op'.pc = "free"
          PROVE  op'.c = h.first /\ op'.n = 0 /\ Unled(op.c, op.at)' /\ fat'[op'.c] # Free /\ h'.first # 0
      BY Zenon, <1>2, <1>3, <1>7, <2>2, <3>1
    <3>2. slots'[h'.at].first # 0 => \A p \in Cluster : fat'[p] # slots'[h'.at].first
      <4>1. h.at \in Entries
        BY Zenon, <1>0, <1>1, ReadyFacts DEF Handle, Live
      <4> QED BY Zenon, <1>1, <1>2, <1>3, <4>1 DEF Chained, Unled
    <3>3. op'.pc = "free" => FreesAll' /\ ~Beheaded'
      BY Zenon, <1>3, <3>1 DEF FreesAll, Beheaded
    <3>4. op'.call = "trunc" /\ op'.at = h'.at
      BY Zenon, <1>3
    <3>5. op'.pc = "free" => ~(op'.n > 0)
      BY <3>1
    <3> QED BY Zenon, <3>1, <3>2, <3>3, <3>4, <3>5 DEF Head
  <2> QED BY Zenon, <2>1, <2>3, <2>4 DEF Held
<1> QED BY Zenon, <1>0, <1>1, <1>3, <1>5, <1>6, <1>7, CalmStep

(* truncate moves along the chain, or finds it short.                          *)
LEMMA TruncWalkStep ==
  ASSUME IInv, TruncWalk
  PROVE  IInv'
<1>0. /\ Quiet /\ h' = h
      /\ \/ op.pc = "cut" /\ op.i < op.n
         \/ op.pc = "extend" /\ op.i < h.size
      /\ op' = IF fat[op.c] = EOC THEN Idle ELSE [op EXCEPT !.c = fat[op.c], !.i = op.i + 1]
  BY DEF TruncWalk, Quiet
<1>1. /\ ~torn /\ mounted /\ Types /\ Chained /\ Directory /\ Where /\ Counts /\ Held
      /\ Lengths /\ op \in Call /\ h.size \in Length /\ op.n \in Length /\ op.i \in Length
  BY Zenon, <1>0, Running, HandleFacts, CallFacts DEF Types
<1>2. slots' = slots /\ dirc' = dirc /\ fat' = fat /\ mounted' = mounted /\ torn' = torn
  BY <1>0 DEF Quiet, medium
<1>a. CASE fat[op.c] = EOC
  <2>1. op' = Idle
    BY <1>0, <1>a
  <2>2. op' \in Call /\ Where' /\ Counts' /\ Held'
    BY Zenon, <2>1, Returned
  <2> QED BY <1>0, <1>1, <2>2, CalmStep
<1>b. CASE fat[op.c] # EOC
  <2>0. op.i # 0 \/ op.pc = "cut"
    BY <1>0, <1>1 DEF Counts, Length
  <2>1. op.c \in Cluster \ dirc /\ fat[op.c] # Free /\ h.first # 0
    BY <1>0, <1>1, <2>0 DEF Held, Place
  <2>2. fat[op.c] \in Cluster \ dirc /\ fat[fat[op.c]] # Free
    <3>1. fat[op.c] \in Cluster
      BY Zenon, <1>1, <1>b, <2>1 DEF Types
    <3> QED BY Zenon, <3>1, <2>1, <1>1, FileClear DEF Chained
  <2>3. /\ op'.call = op.call /\ op'.pc = op.pc /\ op'.at = op.at /\ op'.c = fat[op.c]
        /\ op'.n = op.n /\ op'.i = op.i + 1
    BY <1>0, <1>1, <1>b DEF Call
  <2>4. op'.i \in Length /\ (op.pc = "cut" => op'.i <= op.n) /\ (op.pc = "extend" => op'.i <= h.size)
    BY <1>0, <1>1, <2>3, Successor
  <2>5. op' \in Call
    <3>1. fat[op.c] \in MaybeCluster /\ op.i + 1 \in Length
      BY Zenon, <2>2, <2>3, <2>4, ConstantFacts
    <3> QED BY Zenon, <3>1, <1>0, <1>1, <1>b DEF Call
  <2>6. op.call = "trunc"
    BY <1>0, <1>1, CallOf
  <2>7. Where'
    <3>1. IsOpen' /\ op'.at = h'.at
      BY <1>0, <1>1, <2>3, <2>6 DEF Where, IsOpen
    <3> QED BY Zenon, <1>0, <1>1, <1>2, <2>3, <2>6, <3>1 DEF Where, StepsOf
  <2>8. Counts'
    <3>1. op.i \in Int /\ op.n \in Int /\ h.size \in Int /\ op.i >= 0 /\ op'.i \in Int
      BY <1>1, <2>3 DEF Length
    <3>2. CASE op.pc = "cut"
      BY Zenon, <1>1, <2>3, <3>2 DEF Counts
    <3>3. CASE op.pc = "extend"
      BY <1>0, <1>1, <2>3, <2>4, <3>1, <3>3 DEF Counts
    <3> QED BY <1>0, <3>2, <3>3
  <2>9. Held'
    <3>1. NewCluster' /\ Blank' /\ Target' /\ Head'
      BY Zenon, <1>0, <2>3 DEF NewCluster, Blank, Target, Head
    <3>2. Place'
      BY Zenon, <1>0, <1>2, <2>1, <2>2, <2>3 DEF Place
    <3> QED BY <3>1, <3>2 DEF Held
  <2> QED BY Zenon, <1>0, <1>1, <2>5, <2>7, <2>8, <2>9, CalmStep
<1> QED BY <1>a, <1>b

(* A free slot is reserved.                                                    *)
LEMMA ReserveStep ==
  ASSUME IInv, NEW s \in Slot, Reserve(s)
  PROVE  IInv'
<1>0. Quiet /\ h' = h /\ op.pc = "reserve" /\ s \in DirSlots /\ slots[s].kind \in {"end", "gone"}
  BY DEF Reserve, Earliest, FreeSlots, Quiet
<1>1. ~torn /\ mounted /\ Types /\ Where /\ op \in Call /\ op.call \in {"create", "rename", "mkdir"}
  BY Zenon, <1>0, Running, CallOf DEF Types
<1>2. slots' = slots /\ dirc' = dirc /\ fat' = fat /\ mounted' = mounted /\ torn' = torn
  BY Zenon, <1>0 DEF Quiet, medium
<1>a. CASE op.call = "create" /\ IsOpen
  <2>1. op' = Idle
    BY <1>a DEF Reserve, Return
  <2>2. op' \in Call /\ Where' /\ Counts' /\ Held'
    BY <2>1, Returned
  <2> QED BY Zenon, <1>0, <1>1, <2>2, CalmStep
<1>b. CASE ~(op.call = "create" /\ IsOpen)
  <2>1. op' = [op EXCEPT !.at = s, !.pc = AfterReserve]
    BY <1>b DEF Reserve
  <2>2. /\ op'.call = op.call /\ op'.at = s /\ op'.old = op.old
        /\ op'.pc = IF op.call = "mkdir" THEN "mkalloc" ELSE "insert"
    BY <2>1, <1>1 DEF Call, AfterReserve
  <2>3. op' \in Call
    <3>1. s \in MaybeSlot /\ AfterReserve \in Steps
      BY ConstantFacts DEF AfterReserve, Steps
    <3> QED BY Zenon, <2>1, <3>1, <1>1 DEF Call
  <2>4. Where'
    <3>1. op.call = "rename" => op'.old \in DirSlots' /\ slots'[op'.old].kind \in Live
                                  /\ NotOpen(op.old)'
      BY Zenon, <1>0, <1>1, <1>2, <2>2 DEF Where, NotOpen, DirSlots
    <3>2. op.call = "create" => ~IsOpen'
      BY Zenon, <1>0, <1>b DEF IsOpen
    <3> QED BY Zenon, <1>1, <1>2, <2>2, <3>1, <3>2 DEF Where, StepsOf
  <2>5. Counts'
    BY Zenon, <1>1, <2>2 DEF Counts
  <2>6. Held'
    <3>1. Blank' /\ Place' /\ Head' /\ NewCluster'
      BY Zenon, <1>1, <2>2 DEF NewCluster, Blank, Place, Head
    <3>2. Target'
      BY Zenon, <1>0, <1>2, <2>2 DEF Target, Live, DirSlots
    <3> QED BY <3>1, <3>2 DEF Held
  <2> QED BY Zenon, <1>0, <1>1, <2>3, <2>4, <2>5, <2>6, CalmStep
<1> QED BY <1>a, <1>b

--------------------------------------------------------------------------------
(* Steps between calls: the handle is opened, moved and closed, the volume     *)
(* mounted and unmounted, the power goes.                                      *)

(* Nothing is being done, and the table and the directory are as before.       *)
LEMMA RestStep ==
  ASSUME IInv, op' = Idle, fat' = fat, slots' = slots, dirc' = dirc,
         Types', Lengths', Counted', torn' \/ (~torn /\ ~Exposed),
         torn' \/ ((\A c, x : Unled(c, x) => Unled(c, x)') => Handle')
  PROVE  IInv'
<1>1. Where' /\ Counts' /\ Held' /\ Entries' = {s \in DirSlots' : slots'[s].kind \in Live}
  BY Zenon, Returned
<1>2. CASE torn'
  BY Zenon, <1>1, <1>2 DEF IInv
<1>3. CASE ~torn'
  <2>1. Chained /\ Directory
    BY Zenon, <1>3 DEF IInv
  <2>2. Kept
    <3>1. Entries = {s \in DirSlots : slots[s].kind \in Live}
      BY Zenon, <1>3 DEF Entries
    <3> QED BY Zenon, <3>1, <1>1 DEF Kept, DirSlots
  <2>3. Chained' /\ Directory' /\ \A c, x : Unled(c, x) => Unled(c, x)'
    BY <2>1, <2>2, SameTable
  <2> QED BY Zenon, <1>1, <1>3, <2>3 DEF IInv
<1> QED BY Zenon, <1>2, <1>3

(* With no call in progress.                                                   *)
LEMMA IdleFacts ==
  ASSUME op = Idle
  PROVE  op.pc = "idle" /\ op.call = "none" /\ ~Exposed /\ ~Beheaded
BY Zenon DEF Idle, Exposed, Beheaded

(* A file is opened as it is.                                                  *)
LEMMA OpenAppendStep ==
  ASSUME IInv, NEW s \in Slot, OpenAppend(s)
  PROVE  IInv'
<1>0. /\ Ready /\ s \in DirSlots /\ slots[s].kind = "file" /\ Quiet /\ op' = op
      /\ h' = [at |-> s, first |-> slots[s].first, size |-> slots[s].size,
               off |-> slots[s].size, dirty |-> 0]
  BY Zenon DEF OpenAppend, Quiet
<1>1. op = Idle /\ ~torn /\ Types /\ Lengths /\ Chained /\ s \in Entries /\ Counted
  BY Zenon, <1>0, ReadyFacts DEF Live, IInv
<1>2. slots' = slots /\ dirc' = dirc /\ fat' = fat /\ ~torn'
  BY Zenon, <1>0, <1>1 DEF Quiet, medium
<1>3. /\ h'.at = s /\ h'.first = slots[s].first /\ h'.size = slots[s].size /\ h' \in FileHandle
      /\ IsOpen'
  <2>1. slots[s].first \in MaybeCluster /\ slots[s].size \in Length /\ s \in MaybeSlot /\ s # NoSlot
    BY Zenon, <1>1, SlotFacts, ConstantFacts
  <2> QED BY <1>0, <2>1 DEF FileHandle, IsOpen
<1>4. Types'
  BY Zenon, <1>0, <1>1, <1>3 DEF Types, Quiet, medium, alloc
<1>5. Lengths'
  BY Zenon, <1>1, <1>2, <1>3 DEF Lengths
<1>6. Counted'
  BY Zenon, <1>0, <1>1 DEF Counted, Quiet, medium, alloc, FreeClusters
<1>7. ASSUME \A c, x : Unled(c, x) => Unled(c, x)' PROVE Handle'
  <2>1. ASSUME h'.first # 0 PROVE Unled(h.first, h.at)' /\ fat'[h'.first] # Free
    BY Zenon, <1>1, <1>2, <1>3, <1>7, <2>1 DEF Chained
  <2>2. s \in DirSlots'
    BY Zenon, <1>0, <1>2 DEF DirSlots
  <2> QED BY Zenon, <1>0, <1>2, <1>3, <2>1, <2>2 DEF Handle
<1>8. ~Exposed
  BY <1>1, IdleFacts
<1> QED BY Zenon, <1>0, <1>1, <1>2, <1>4, <1>5, <1>6, <1>7, <1>8, RestStep

(* The offset moves within the file.                                           *)
LEMMA SeekStep ==
  ASSUME IInv, NEW k \in 0 .. MaxSize, Seek(k)
  PROVE  IInv'
<1>0. Ready /\ Quiet /\ op' = op /\ IsOpen /\ h' = [h EXCEPT !.off = k]
  BY DEF Seek, Quiet
<1>1. op = Idle /\ ~torn /\ Types /\ Lengths /\ Handle /\ Counted /\ h \in FileHandle
  BY <1>0, ReadyFacts DEF IInv, Types
<1>2. slots' = slots /\ dirc' = dirc /\ fat' = fat /\ ~torn'
  BY <1>0, <1>1 DEF Quiet, medium
<1>3. h'.at = h.at /\ h'.first = h.first /\ h'.size = h.size /\ h' \in FileHandle
  BY <1>0, <1>1 DEF FileHandle, Length
<1>4. Types'
  BY Zenon, <1>0, <1>1, <1>3 DEF Types, Quiet, medium, alloc
<1>5. Lengths'
  BY Zenon, <1>0, <1>1, <1>2, <1>3 DEF Lengths, IsOpen
<1>6. Counted'
  BY <1>0, <1>1 DEF Counted, Quiet, medium, alloc, FreeClusters
<1>8. ~Exposed /\ ~Beheaded /\ op.pc = "idle"
  BY <1>1, IdleFacts
<1>7. ASSUME \A c, x : Unled(c, x) => Unled(c, x)' PROVE Handle'
  <2>1. ASSUME h'.first # 0 PROVE Unled(h.first, h.at)' /\ fat'[h'.first] # Free
    BY Zenon, <1>0, <1>1, <1>2, <1>3, <1>7, <1>8, <2>1 DEF Handle
  <2>2. h.at \in DirSlots'
    BY Zenon, <1>0, <1>1, <1>2 DEF DirSlots, Handle
  <2> QED BY Zenon, <1>0, <1>1, <1>2, <1>3, <1>8, <2>1, <2>2 DEF Handle
<1> QED BY Zenon, <1>0, <1>1, <1>2, <1>4, <1>5, <1>6, <1>7, <1>8, RestStep

(* The file is closed, FSInfo written or refused.                              *)
LEMMA CloseStep ==
  ASSUME IInv, Close
  PROVE  IInv'
<1>0. /\ op = Idle /\ op' = Idle /\ fat' = fat /\ slots' = slots /\ dirc' = dirc /\ h' = Closed
      /\ torn' = torn /\ mounted /\ mounted' = mounted /\ nfree' = nfree /\ (Accepted \/ Refused)
      /\ (fsi' = nfree /\ fsdirty' = FALSE /\ Accepted) \/ (fsi' = fsi /\ fsdirty' = fsdirty)
  BY Zenon DEF Close, FlushDone
<1>1. Types /\ Lengths /\ Counted /\ TypeNumbers
  BY TypeParts DEF IInv
<1>2. Types'
  <2>1. TypeNumbers'
    BY Zenon, <1>0, <1>1, FaultCount DEF TypeNumbers
  <2>2. TypeFlags'
    <3>1. fsdirty' = FALSE \/ fsdirty' = fsdirty
      BY <1>0
    <3> QED BY Zenon, <1>0, <1>1, <3>1, TypeParts DEF TypeFlags
  <2> QED BY Zenon, <1>0, <1>1, <2>1, <2>2, ConstantFacts, TypeParts, TypeJoin DEF TypeFat, TypeSlots
<1>3. Lengths' /\ ~IsOpen'
  BY SMTT(30), <1>0, <1>1 DEF Lengths, IsOpen, Closed
<1>4. Counted'
  <2>1. FreeClusters' = FreeClusters
    BY <1>0 DEF FreeClusters
  <2>2. CASE Accepted
    BY Zenon, <1>0, <1>1, <2>1, <2>2 DEF Counted, Accepted
  <2> QED BY Zenon, <1>0, <1>1, <2>2, RefusedCounted
<1>5. Handle'
  BY Zenon, <1>3 DEF Handle
<1>6. ~Exposed
  BY <1>0, IdleFacts
<1> QED BY Zenon, <1>0, <1>2, <1>3, <1>4, <1>5, <1>6, RestStep

(* The volume is unmounted, FSInfo written or refused.                         *)
LEMMA UnmountStep ==
  ASSUME Counting, IInv, Unmount
  PROVE  IInv'
<1>0. /\ op = Idle /\ op' = Idle /\ fat' = fat /\ slots' = slots /\ dirc' = dirc /\ h' = h
      /\ torn' = torn /\ mounted /\ mounted' = FALSE /\ nfree' = 0 /\ fsdirty' = FALSE /\ ~IsOpen
      /\ \/ Accepted /\ fsi' = IF fsdirty THEN nfree ELSE fsi
         \/ Refused /\ fsi' = fsi
  BY DEF Unmount
<1>1. Types /\ Lengths /\ Counted /\ TypeNumbers
  BY TypeParts DEF IInv
<1>2. Types'
  <2>1. TypeNumbers'
    BY <1>0, <1>1, FaultCount DEF TypeNumbers, Counting
  <2>2. TypeFlags'
    BY Zenon, <1>0, <1>1, TypeParts DEF TypeFlags
  <2> QED BY Zenon, <1>0, <1>1, <2>1, <2>2, ConstantFacts, TypeParts, TypeJoin DEF TypeFat, TypeSlots
<1>3. Lengths' /\ ~IsOpen'
  BY <1>0, <1>1, LengthsKept DEF IsOpen
<1>4. Counted'
  <2>1. FreeClusters' = FreeClusters
    BY <1>0 DEF FreeClusters
  <2>2. CASE Accepted
    BY <1>0, <1>1, <2>1, <2>2, RefusedCounted DEF Counted, Accepted
  <2> QED BY <1>0, <1>1, <2>2, RefusedCounted
<1>5. Handle'
  BY <1>3 DEF Handle
<1>6. ~Exposed
  BY <1>0, IdleFacts
<1> QED BY Zenon, <1>0, <1>2, <1>3, <1>4, <1>5, <1>6, RestStep

(* The volume is mounted, the count taken from FSInfo.                         *)
LEMMA MountStep ==
  ASSUME IInv, Mount
  PROVE  IInv'
<1>0. /\ op' = op /\ fat' = fat /\ slots' = slots /\ dirc' = dirc /\ h' = h /\ faults' = faults
      /\ torn' = torn /\ ~mounted /\ mounted' = TRUE /\ nfree' = fsi /\ fsi' = fsi /\ fsdirty' = FALSE
  BY DEF Mount, medium
<1>1. Types /\ Lengths /\ Counted /\ op = Idle
  BY Zenon, <1>0 DEF IInv, Where
<1>2. Types'
  <2>1. TypeNumbers'
    BY <1>0, <1>1, TypeParts DEF TypeNumbers
  <2>2. TypeFlags'
    BY Zenon, <1>0, <1>1, TypeParts DEF TypeFlags
  <2> QED BY <1>0, <1>1, <2>1, <2>2, TypeParts, TypeJoin DEF TypeFat, TypeSlots
<1>3. Lengths'
  BY <1>0, <1>1, LengthsKept
<1>4. Counted'
  <2>1. FreeClusters' = FreeClusters
    BY <1>0 DEF FreeClusters
  <2> QED BY <1>0, <1>1, <2>1 DEF Counted
<1>6. ~Exposed /\ ~Beheaded /\ op.pc = "idle"
  BY <1>1, IdleFacts
<1>5. ASSUME ~torn, \A c, x : Unled(c, x) => Unled(c, x)' PROVE Handle'
  <2>1. Handle
    BY <1>5 DEF IInv
  <2> QED BY Zenon, <2>1, <1>0, <1>5, <1>6, HandleKept
<1> QED BY <1>0, <1>1, <1>2, <1>3, <1>4, <1>5, <1>6, RestStep

(* The power goes at any instant of any call.                                  *)
LEMMA PowerLossStep ==
  ASSUME Counting, IInv, PowerLoss
  PROVE  IInv'
<1>0. /\ op' = Idle /\ fat' = fat /\ slots' = slots /\ dirc' = dirc /\ h' = Closed /\ fsi' = fsi
      /\ mounted' = FALSE /\ nfree' = 0 /\ fsdirty' = FALSE /\ Refused
  BY DEF PowerLoss, medium
<1>a. torn' = (torn \/ Exposed)
  BY DEF PowerLoss
<1>1. Types /\ Lengths /\ TypeNumbers
  BY TypeParts DEF IInv
<1>2. Types'
  <2>1. TypeNumbers'
    BY <1>0, <1>1, FaultCount DEF TypeNumbers, Counting
  <2>2. TypeFlags'
    <3>1. torn' \in BOOLEAN
      BY <1>a
    <3> QED BY Zenon, <1>0, <3>1 DEF TypeFlags
  <2> QED BY Zenon, <1>0, <1>1, <2>1, <2>2, ConstantFacts, TypeParts, TypeJoin DEF TypeFat, TypeSlots
<1>3. Lengths' /\ ~IsOpen'
  BY SMTT(30), <1>0, <1>1 DEF Lengths, IsOpen, Closed
<1>4. Counted'
  BY <1>0, <1>1, RefusedCounted
<1>5. Handle'
  BY <1>3 DEF Handle
<1>6. torn' \/ (~torn /\ ~Exposed)
  BY Zenon, <1>a
<1> QED BY Zenon, <1>0, <1>2, <1>3, <1>4, <1>5, <1>6, RestStep

--------------------------------------------------------------------------------
(* What no fault may lose: as long as nothing fails and no call has leaked,   *)
(* every cluster in use is accounted for.                                      *)

(* What leads to cluster c, and who else holds it.                             *)
Led(c) == \/ c = Root
          \/ \E p \in Cluster : fat[p] = c
          \/ \E s \in Entries : slots[s].first = c

Holding(c) == \/ Taken /\ c = op.d
              \/ op.pc = "free" /\ c = op.c
              \/ IsOpen /\ c = h.first

Reached == \A c \in Cluster : fat[c] # Free => Led(c) \/ Holding(c)

(* The open file and its entry agree on the first cluster, but for the calls   *)
(* that give the file one, until they file it.                                 *)
Agree == h.first = slots[h.at].first /\ (h.size = 0 => h.first = 0)
Growing == {"pos", "link", "dirent", "extend", "tlink", "tzero", "commit"}
Filed ==
  IsOpen =>
    /\ op.pc \notin Growing => Agree
    /\ op.pc \in {"pos", "link"} => /\ Agree \/ (slots[h.at].first = 0 /\ h.first # 0)
                                    /\ op.c = 0 => h.first = 0
    /\ op.pc = "dirent" => h.size > 0 /\ slots[h.at].first \in {0, h.first}
    /\ op.pc \in {"extend", "tlink", "tzero"} =>
         /\ Agree \/ (slots[h.at].first = 0 /\ h.size = 0 /\ h.first # 0)
         /\ op.pc = "extend" /\ op.i = 0 => h.first = 0
    /\ op.pc = "commit" => /\ h.size = 0 => h.first = 0
                           /\ h.first # 0 => slots[h.at].first \in {0, h.first}

(* A file without a length has no clusters.                                    *)
Files == \A s \in Entries : slots[s].kind = "file" /\ slots[s].size = 0 => slots[s].first = 0

(* A write extends a chain at its end; a truncation to nothing frees the first *)
(* cluster first.                                                              *)
AtEnd == /\ op.pc = "link" => fat[op.c] = EOC
         /\ Beheaded => fat[h.first] = Free

Accounted == Reached /\ Filed /\ Files /\ AtEnd

(* Without a fault nothing is torn, nothing is undone, and until a call leaks  *)
(* every cluster is accounted for.                                             *)
LInv == /\ leaky \in BOOLEAN
        /\ faults = 0 => ~torn /\ op.pc # "undo" /\ (~leaky => Accounted)

(* The entry of the open file is among those the volume stands by.             *)
LEMMA OpenEntry ==
  ASSUME Handle, Calm, IsOpen
  PROVE  h.at \in Entries /\ h.at \in DirSlots /\ slots[h.at].kind = "file"
BY Zenon, NotExposed DEF Handle, Calm, Live

(* Steps that leave the medium as it is.                                       *)
LEMMA StillReached ==
  ASSUME Accounted, Calm, ~Taken, ~Exposed', fat' = fat, slots' = slots, dirc' = dirc,
         IsOpen => h.at \in Entries,
         IsOpen => (IsOpen' /\ h'.first = h.first) \/ h.first = slots[h.at].first
  PROVE  Reached' /\ Files'
<1>1. Entries' = Entries
  BY Zenon, NotExposed DEF Calm, Entries, DirSlots
<1>2. \A c : Led(c) => Led(c)'
  BY Zenon, <1>1 DEF Led
<1>3. ASSUME NEW c, Holding(c) PROVE Led(c)' \/ Holding(c)'
  <2>1. IsOpen /\ c = h.first
    BY Zenon, <1>3 DEF Holding, Calm
  <2>2. CASE IsOpen' /\ h'.first = h.first
    BY Zenon, <2>1, <2>2 DEF Holding
  <2>3. CASE h.first = slots[h.at].first
    BY Zenon, <1>1, <2>1, <2>3 DEF Led
  <2> QED BY Zenon, <2>1, <2>2, <2>3
<1>4. Reached'
  BY Zenon, <1>2, <1>3 DEF Accounted, Reached
<1> QED BY Zenon, <1>1, <1>4 DEF Accounted, Files

(* A call that does not concern the open file.                                 *)
LEMMA FiledKept ==
  ASSUME Filed, op.pc \notin Growing, op'.pc \notin Growing, h' = h,
         IsOpen => slots'[h.at].first = slots[h.at].first
  PROVE  Filed'
BY Zenon DEF Filed, Growing, Agree, IsOpen

(* The calls begin.                                                            *)
LEMMA BeginAccounted ==
  ASSUME IInv, Accounted, NEW s \in Slot,
         OpenWrite(s) \/ BeginUnlink(s) \/ BeginRmdir(s)
  PROVE  Accounted'
<1>0. Ready /\ Quiet /\ h' = h
  BY Zenon DEF OpenWrite, BeginUnlink, BeginRmdir, Quiet
<1>1. op.pc = "idle" /\ Calm /\ ~Taken /\ Handle
  BY Zenon, <1>0, ReadyFacts DEF Calm, Taken
<1>2. slots' = slots /\ dirc' = dirc /\ fat' = fat
  BY <1>0 DEF Quiet, medium
<1>3. /\ op'.at = s /\ op'.c = slots[s].first /\ op'.pc \in {"zero", "free", "erase"}
      /\ op'.call # "trunc"
      /\ op'.pc \in {"zero", "erase"} => slots[s].first = 0
  <2>1. CASE OpenWrite(s)
    BY <2>1 DEF OpenWrite, Idle
  <2>2. CASE BeginUnlink(s)
    BY <2>2 DEF BeginUnlink, Idle
  <2>3. CASE BeginRmdir(s)
    BY <2>3 DEF BeginRmdir, Idle
  <2> QED BY Zenon, <2>1, <2>2, <2>3
<1>4. ~Exposed'
  BY Zenon, <1>2, <1>3 DEF Exposed, Headless
<1>5. IsOpen => h.at \in Entries /\ IsOpen' /\ h'.first = h.first
  BY Zenon, <1>0, <1>1, OpenEntry DEF IsOpen
<1>6. Reached' /\ Files'
  BY Zenon, <1>1, <1>2, <1>4, <1>5, StillReached
<1>7. Filed' /\ AtEnd'
  BY Zenon, <1>0, <1>1, <1>2, <1>3, FiledKept DEF Accounted, Growing, AtEnd, Beheaded
<1> QED BY Zenon, <1>6, <1>7 DEF Accounted

(* A create, rename or mkdir looks for its slot: it holds nothing yet.         *)
LEMMA BeginNameAccounted ==
  ASSUME IInv, Accounted, NEW n \in Names,
         OpenCreate(n) \/ BeginMkdir(n) \/ \E s \in Slot : BeginRename(s, n)
  PROVE  Accounted'
<1>0. Ready /\ Quiet /\ h' = h
  BY Zenon DEF OpenCreate, BeginMkdir, BeginRename, Quiet
<1>1. op.pc = "idle" /\ Calm /\ ~Taken /\ Handle
  BY Zenon, <1>0, ReadyFacts DEF Calm, Taken
<1>2. slots' = slots /\ dirc' = dirc /\ fat' = fat
  BY <1>0 DEF Quiet, medium
<1>3. op'.pc = "reserve"
  BY ZenonT(30) DEF OpenCreate, BeginMkdir, BeginRename, Idle
<1>4. ~Exposed'
  BY Zenon, <1>3 DEF Exposed
<1>5. IsOpen => h.at \in Entries /\ IsOpen' /\ h'.first = h.first
  BY Zenon, <1>0, <1>1, OpenEntry DEF IsOpen
<1>6. Reached' /\ Files'
  BY Zenon, <1>1, <1>2, <1>4, <1>5, StillReached
<1>7. Filed' /\ AtEnd'
  BY Zenon, <1>0, <1>1, <1>2, <1>3, FiledKept DEF Accounted, Growing, AtEnd, Beheaded
<1> QED BY Zenon, <1>6, <1>7 DEF Accounted

(* A file opened for append agrees with its entry.                             *)
LEMMA OpenAppendAccounted ==
  ASSUME IInv, Accounted, NEW s \in Slot, OpenAppend(s)
  PROVE  Accounted'
<1>0. /\ Ready /\ s \in DirSlots /\ slots[s].kind = "file" /\ ~IsOpen /\ op' = op
      /\ slots' = slots /\ dirc' = dirc /\ fat' = fat
      /\ h'.at = s /\ h'.first = slots[s].first /\ h'.size = slots[s].size
  BY Zenon DEF OpenAppend, medium
<1>1. op.pc = "idle" /\ Calm /\ ~Taken /\ s \in Entries
  BY Zenon, <1>0, ReadyFacts DEF Calm, Taken, Live
<1>2. ~Exposed'
  BY Zenon, <1>0, <1>1 DEF Exposed
<1>3. Reached' /\ Files'
  BY Zenon, <1>0, <1>1, <1>2, StillReached
<1>4. Agree'
  BY Zenon, <1>0, <1>1 DEF Accounted, Files, Agree
<1> QED BY Zenon, <1>0, <1>1, <1>3, <1>4 DEF Accounted, Filed, Growing, AtEnd, Beheaded

(* A write starts from a file that agrees with its entry.                      *)
LEMMA BeginWriteAccounted ==
  ASSUME IInv, Accounted, NEW n \in 1 .. MaxSize, BeginWrite(n)
  PROVE  Accounted'
<1>0. Ready /\ h' = h /\ IsOpen /\ slots' = slots /\ dirc' = dirc /\ fat' = fat
  BY DEF BeginWrite, medium
<1>1. op.pc = "idle" /\ Calm /\ ~Taken /\ Handle
  BY <1>0, ReadyFacts DEF Calm, Taken
<1>2. op'.pc = "pos" /\ op'.c = h.first
  BY DEF BeginWrite, Idle
<1>3. ~Exposed'
  BY Zenon, <1>2 DEF Exposed
<1>4. h.at \in Entries /\ IsOpen'
  BY Zenon, <1>0, <1>1, OpenEntry DEF IsOpen
<1>5. Reached' /\ Files'
  BY Zenon, <1>0, <1>1, <1>3, <1>4, StillReached
<1>6. Agree
  BY Zenon, <1>0, <1>1 DEF Accounted, Filed, Growing
<1>7. Filed' /\ AtEnd'
  BY Zenon, <1>0, <1>2, <1>6 DEF Filed, Growing, Agree, AtEnd, Beheaded
<1> QED BY <1>5, <1>7 DEF Accounted

(* A truncate starts likewise, from the head of its chain or from nothing.     *)
LEMMA BeginTruncateAccounted ==
  ASSUME IInv, Accounted, NEW n \in 0 .. MaxSize, BeginTruncate(n)
  PROVE  Accounted'
<1>0. Ready /\ IsOpen /\ slots' = slots /\ dirc' = dirc /\ fat' = fat
  BY DEF BeginTruncate, medium
<1>1. op.pc = "idle" /\ Calm /\ ~Taken /\ Handle
  BY Zenon, <1>0, ReadyFacts DEF Calm, Taken
<1>2. /\ h' = h /\ op'.at = h.at
      /\ \/ op'.pc \in {"commit", "cut"}
         \/ op'.pc = "free" /\ op'.c = h.first
         \/ op'.pc = "extend" /\ op'.i = 0 /\ h.size = 0
         \/ op'.pc = "extend" /\ op'.i = 1
  BY Zenon, TruncateBegins
<1>3. Agree
  BY Zenon, <1>0, <1>1 DEF Accounted, Filed, Growing
<1>4. ~Exposed'
  BY Zenon, <1>0, <1>2, <1>3 DEF Exposed, Headless, Agree
<1>5. h.at \in Entries /\ IsOpen'
  BY Zenon, <1>0, <1>1, <1>2, OpenEntry DEF IsOpen
<1>6. Reached' /\ Files'
  BY Zenon, <1>0, <1>1, <1>2, <1>4, <1>5, StillReached
<1>7. Agree' /\ AtEnd'
  BY Zenon, <1>0, <1>2, <1>3 DEF Agree, AtEnd, Beheaded
<1>8. Filed'
  <2>1. op'.pc \in {"commit", "cut", "free", "extend"} /\ (op'.pc = "extend" /\ op'.i = 0 => h.size = 0)
    BY <1>2
  <2>2. (h'.size = 0 => h'.first = 0) /\ slots'[h'.at].first = h'.first /\ h'.size = h.size
    BY Zenon, <1>2, <1>7 DEF Agree
  <2> QED BY Zenon, <2>1, <2>2, <1>7 DEF Filed, Growing
<1> QED BY Zenon, <1>6, <1>7, <1>8 DEF Accounted

(* Between calls.                                                              *)
LEMMA RestAccounted ==
  ASSUME IInv, ~torn, Accounted, (\E k \in 0 .. MaxSize : Seek(k)) \/ Close \/ Unmount \/ Mount
  PROVE  Accounted'
<1>0. op' = op /\ slots' = slots /\ dirc' = dirc /\ fat' = fat
  BY Zenon DEF Seek, Close, Unmount, Mount, medium
<1>1. op = Idle
  BY Zenon DEF Seek, Close, Unmount, Mount, Ready, IInv, Where
<1>2. op.pc = "idle" /\ Calm /\ ~Taken /\ Handle
  BY Zenon, <1>1 DEF Idle, Calm, Taken, IInv
<1>3. \/ ~IsOpen'
      \/ h'.at = h.at /\ h'.first = h.first /\ h'.size = h.size
  BY DEF Seek, Close, Unmount, Mount, IsOpen, Closed, IInv, Types, FileHandle
<1>4. ~Exposed'
  BY Zenon, <1>0, <1>2 DEF Exposed
<1>5. IsOpen => h.at \in Entries /\ Agree
  BY Zenon, <1>2, OpenEntry DEF Accounted, Filed, Growing
<1>6. IsOpen => (IsOpen' /\ h'.first = h.first) \/ h.first = slots[h.at].first
  BY Zenon, <1>3, <1>5 DEF IsOpen, Agree
<1>7. Reached' /\ Files'
  BY Zenon, <1>0, <1>2, <1>4, <1>5, <1>6, StillReached
<1>8. IsOpen' => Agree'
  BY Zenon, <1>0, <1>3, <1>5 DEF Agree, IsOpen
<1> QED BY Zenon, <1>0, <1>2, <1>7, <1>8 DEF Accounted, Filed, Growing, AtEnd, Beheaded

(* A slot is reserved, the chain of the open file walked.                      *)
LEMMA WalkAccounted ==
  ASSUME IInv, Accounted, (\E s \in Slot : Reserve(s)) \/ WriteWalk \/ TruncWalk
  PROVE  Accounted'
<1>0. /\ h' = h /\ slots' = slots /\ dirc' = dirc /\ fat' = fat
      /\ op.pc \in {"reserve", "pos", "cut", "extend"}
  BY Zenon DEF Reserve, WriteWalk, TruncWalk, medium
<1>1. /\ Calm /\ ~Taken /\ Types /\ Where /\ Handle /\ Held /\ op \in Call
      /\ op.pc # "reserve" => IsOpen /\ h.size \in Length /\ op.i \in Length
  BY Zenon, <1>0, Running, CallOf, HandleFacts, CallFacts DEF Calm, Taken, Types, Where
<1>2. \/ op' = Idle
      \/ op.pc = "reserve" /\ op'.pc \in {"mkalloc", "insert"}
      \/ op.pc = "pos" /\ op'.pc = "pos" /\ op'.c = fat[op.c] /\ fat[op.c] \in Cluster
      \/ op.pc = "cut" /\ op'.pc = "cut"
      \/ op.pc = "extend" /\ op'.pc = "extend" /\ op'.i = op.i + 1
  BY Zenon, <1>1 DEF Reserve, WriteWalk, TruncWalk, Return, AfterReserve, Call
<1>3. op' = Idle => op'.pc = "idle"
  BY DEF Idle
<1>4. ~Exposed'
  BY Zenon, <1>2, <1>3 DEF Exposed
<1>5. IsOpen => h.at \in Entries /\ IsOpen'
  BY Zenon, <1>0, <1>1, OpenEntry DEF IsOpen
<1>6. Reached' /\ Files'
  BY Zenon, <1>0, <1>1, <1>4, <1>5, StillReached
<1>7. AtEnd'
  BY Zenon, <1>2, <1>3 DEF AtEnd, Beheaded
<1>8. Filed'
  <2>1. CASE op.pc = "reserve"
    BY Zenon, <1>0, <1>2, <1>3, <2>1, FiledKept DEF Accounted, Growing
  <2>2. CASE op.pc = "pos"
    <3>1. op' # Idle
      <4>1. WriteWalk
        BY <2>2 DEF Reserve, TruncWalk
      <4>2. op'.pc = "pos"
        BY Zenon, <1>1, <2>2, <4>1 DEF WriteWalk, Call
      <4> QED BY <4>2 DEF Idle
    <3> QED BY Zenon, <1>0, <1>2, <2>2, <3>1, FatAssumption DEF Accounted, Filed, Agree, IsOpen, Growing
  <2>3. CASE op.pc = "cut"
    BY Zenon, <1>0, <1>2, <1>3, <2>3, FiledKept DEF Accounted, Growing
  <2>4. CASE op.pc = "extend"
    <3>1. op.i < h.size /\ h.size # 0 /\ op.i + 1 # 0
      BY <1>1, <2>4, FatAssumption DEF Reserve, WriteWalk, TruncWalk, Length
    <3>2. Agree /\ Agree'
      BY Zenon, <1>0, <1>1, <2>4, <3>1 DEF Accounted, Filed, Agree
    <3> QED BY Zenon, <1>2, <1>3, <2>4, <3>1, <3>2 DEF Filed, Growing
  <2> QED BY Zenon, <1>0, <2>1, <2>2, <2>3, <2>4
<1> QED BY Zenon, <1>6, <1>7, <1>8 DEF Accounted

--------------------------------------------------------------------------------
(* Steps by what they are not: a step that changes nothing, a step without a   *)
(* fault, the steps a rename can be in.                                        *)

(* Where nothing changes the invariant stays.                                  *)
LEMMA StutterStep == ASSUME IInv, UNCHANGED vars PROVE IInv'
<1> USE DEF vars, medium, alloc
<1>1. Types' /\ Lengths' /\ Where' /\ Counts' /\ Counted'
  <2>1. Types'
    BY Zenon DEF IInv, Types
  <2>2. Lengths' /\ Counts'
    BY Zenon DEF IInv, Lengths, Counts, IsOpen
  <2>3. Where'
    BY Zenon DEF IInv, Where, IsOpen, DirSlots, NotOpen
  <2>4. Counted'
    BY Zenon DEF IInv, Counted, FreeClusters
  <2> QED BY Zenon, <2>1, <2>2, <2>3, <2>4
<1>2. Entries' = Entries /\ Beheaded' = Beheaded /\ Headless' = Headless /\ FreesAll' = FreesAll
  BY Zenon DEF Entries, DirSlots, Exposed, Headless, FreesAll, Beheaded
<1>3. \A c, x : Unled(c, x)' = Unled(c, x)
  BY Zenon, <1>2 DEF Unled
<1>4. Chained => Chained'
  BY Zenon, <1>2, <1>3 DEF Chained
<1>5. Directory => Directory'
  BY Zenon DEF Directory
<1>6. Handle => Handle'
  BY Zenon, <1>2, <1>3 DEF Handle, IsOpen, DirSlots
<1>7. Held => Held'
  <2>1. NewCluster => NewCluster'
    BY Zenon, <1>3 DEF NewCluster, IsOpen
  <2>2. Blank /\ Target /\ Place => Blank' /\ Target' /\ Place'
    BY Zenon DEF Blank, Target, Place, DirSlots
  <2>3. Head => Head'
    BY Zenon, <1>2, <1>3 DEF Head, IsOpen
  <2> QED BY <2>1, <2>2, <2>3 DEF Held
<1> QED BY Zenon, <1>1, <1>4, <1>5, <1>6, <1>7 DEF IInv

(* The steps of a rename from its slot on.                                     *)
LEMMA RenameSteps ==
  ASSUME IInv, Next, op.call = "rename", op.pc \in {"insert", "erase"}
  PROVE  Insert \/ Erase \/ PowerLoss
<1>1. mounted /\ op # Idle /\ ~Ready
  BY Running DEF Idle, Ready
<1>2. \A s \in Slot : \A n : ~(OpenAppend(s) \/ OpenWrite(s) \/ BeginUnlink(s) \/ BeginRmdir(s) \/ BeginRename(s, n))
  BY Zenon, <1>1 DEF OpenAppend, OpenWrite, BeginUnlink, BeginRmdir, BeginRename
<1>3. \A n : ~(OpenCreate(n) \/ BeginMkdir(n) \/ BeginWrite(n) \/ BeginTruncate(n) \/ Seek(n))
  BY Zenon, <1>1 DEF OpenCreate, BeginMkdir, BeginWrite, BeginTruncate, Seek
<1>4. ~(Close \/ Unmount \/ Mount)
  BY Zenon, <1>1 DEF Close, Unmount, Mount
<1>5. (\A s \in Slot : ~Reserve(s)) /\ ~(TruncateExisting \/ GrowAlloc \/ GrowZero \/ GrowLink \/ Undo)
  BY Zenon DEF Reserve, TruncateExisting, GrowAlloc, GrowZero, GrowLink, Undo
<1>6. ~(WriteWalk \/ WriteAlloc \/ WriteLink \/ WriteData \/ WriteDirent)
  BY Zenon DEF WriteWalk, WriteAlloc, WriteLink, WriteData, WriteDirent
<1>7. ~(TruncWalk \/ TruncCut \/ TruncAlloc \/ TruncLink \/ TruncZero \/ TruncCommit)
  BY Zenon DEF TruncWalk, TruncCut, TruncAlloc, TruncLink, TruncZero, TruncCommit
<1>8. ~(MkdirAlloc \/ MkdirInit \/ FreeChain)
  BY Zenon DEF MkdirAlloc, MkdirInit, FreeChain
<1> QED BY Zenon, <1>2, <1>3, <1>4, <1>5, <1>6, <1>7, <1>8 DEF Next

(* Only the new entry brings a rename to the erasing of the old one.           *)
LEMMA RenameErases ==
  ASSUME IInv, Next, op'.call = "rename", op'.pc = "erase"
  PROVE  Insert
<1>1. op \in Call /\ op' # Idle /\ Types /\ Where
  BY DEF IInv, Types, Idle
<1>2. ASSUME NEW s \in Slot PROVE ~(OpenAppend(s) \/ Reserve(s))
  BY Zenon, <1>1 DEF OpenAppend, Reserve, Ready, Return, AfterReserve, Call
<1>3. ASSUME NEW s \in Slot PROVE ~(OpenWrite(s) \/ BeginUnlink(s) \/ BeginRmdir(s))
  BY Zenon DEF OpenWrite, BeginUnlink, BeginRmdir, Idle
<1>4. ASSUME NEW n \in Names PROVE ~(OpenCreate(n) \/ BeginMkdir(n) \/ \E s \in Slot : BeginRename(s, n))
  BY Zenon DEF OpenCreate, BeginMkdir, BeginRename, Idle
<1>5. \A k : ~(BeginWrite(k) \/ BeginTruncate(k))
  <2>1. \A k : ~BeginWrite(k)
    BY Zenon DEF BeginWrite, Idle
  <2>2. \A k : ~BeginTruncate(k)
    BY ZenonT(30) DEF BeginTruncate, Idle
  <2> QED BY Zenon, <2>1, <2>2
<1>6. (\A k : ~Seek(k)) /\ ~(Close \/ Unmount \/ PowerLoss)
  BY <1>1 DEF Seek, Ready, Close, Unmount, PowerLoss
<1>7. ~Mount
  BY Zenon, <1>1, Running DEF Mount, Where
<1>8. ~(TruncateExisting \/ Undo \/ Erase \/ WriteDirent \/ TruncCommit)
  BY Zenon, <1>1 DEF TruncateExisting, Undo, Erase, WriteDirent, TruncCommit, Return
<1>9. ~(GrowAlloc \/ GrowZero \/ GrowLink \/ MkdirAlloc \/ MkdirInit)
  BY Zenon, <1>1 DEF GrowAlloc, GrowZero, GrowLink, MkdirAlloc, MkdirInit, Return, Call
<1>10. ~(WriteWalk \/ WriteAlloc \/ WriteLink \/ WriteData)
  BY Zenon, <1>1 DEF WriteWalk, WriteAlloc, WriteLink, WriteData, Return, Call
<1>11. ~(TruncWalk \/ TruncCut \/ TruncAlloc \/ TruncLink \/ TruncZero)
  BY Zenon, <1>1 DEF TruncWalk, TruncCut, TruncAlloc, TruncLink, TruncZero, Return, Call
<1>12. ~FreeChain
  <2>1. op.pc = "free" => op.call # "rename"
    BY Zenon, <1>1, CallOf
  <2> QED BY Zenon, <1>1, <2>1 DEF FreeChain, Return, Call
<1> QED BY Zenon, <1>2, <1>3, <1>4, <1>5, <1>6, <1>7, <1>8, <1>9, <1>10, <1>11, <1>12 DEF Next

(* A step without a fault tears nothing and leaves nothing to undo.            *)
LEMMA CleanStep ==
  ASSUME IInv, Next, faults' = 0
  PROVE  faults = 0 /\ (~torn /\ op.pc # "undo" => ~torn' /\ op'.pc # "undo")
<1>0. Types /\ TypeNumbers /\ op \in Call /\ Where /\ faults \in Nat
  BY TypeParts, FatAssumption DEF IInv, TypeNumbers
<1>1. ~Refused
  BY <1>0, FaultCount
<1>2. ASSUME NEW s \in Slot, OpenAppend(s) \/ OpenWrite(s) \/ BeginUnlink(s) \/ BeginRmdir(s)
      PROVE  faults' = faults /\ torn' = torn /\ op'.pc # "undo"
  <2>1. faults' = faults /\ torn' = torn
    BY <1>2 DEF OpenAppend, OpenWrite, BeginUnlink, BeginRmdir
  <2>2. CASE OpenAppend(s)
    BY Zenon, <2>1, <2>2 DEF OpenAppend, Ready, Idle
  <2>3. CASE OpenWrite(s)
    BY <2>1, <2>3 DEF OpenWrite, Idle
  <2>4. CASE BeginUnlink(s)
    BY <2>1, <2>4 DEF BeginUnlink, Idle
  <2>5. CASE BeginRmdir(s)
    BY <2>1, <2>5 DEF BeginRmdir, Idle
  <2> QED BY Zenon, <1>2, <2>2, <2>3, <2>4, <2>5
<1>3. ASSUME NEW n \in Names, OpenCreate(n) \/ BeginMkdir(n) \/ \E s \in Slot : BeginRename(s, n)
      PROVE  faults' = faults /\ torn' = torn /\ op'.pc # "undo"
  BY Zenon, <1>3 DEF OpenCreate, BeginMkdir, BeginRename, Idle
<1>4. ASSUME NEW k \in 0 .. MaxSize, Seek(k) \/ BeginTruncate(k)
      PROVE  faults' = faults /\ torn' = torn /\ op'.pc # "undo"
  <2>1. CASE Seek(k)
    BY <2>1 DEF Seek, Ready, Idle
  <2>2. CASE BeginTruncate(k)
    <3>1. faults' = faults /\ torn' = torn
      BY <2>2 DEF BeginTruncate
    <3> QED BY Zenon, <1>0, <2>2, <3>1, TruncateBegins
  <2> QED BY <1>4, <2>1, <2>2
<1>5. ASSUME NEW k \in 1 .. MaxSize, BeginWrite(k)
      PROVE  faults' = faults /\ torn' = torn /\ op'.pc # "undo"
  BY <1>5 DEF BeginWrite, Idle
<1>6. ASSUME NEW s \in Slot, Reserve(s) PROVE faults' = faults /\ torn' = torn /\ op'.pc # "undo"
  <2>1. faults' = faults /\ torn' = torn
    BY <1>6 DEF Reserve
  <2>2. CASE op' = Idle
    BY Zenon, <2>1, <2>2 DEF Idle
  <2>3. CASE op' = [op EXCEPT !.at = s, !.pc = AfterReserve]
    BY Zenon, <1>0, <2>1, <2>3 DEF Call, AfterReserve
  <2> QED BY <1>6, <2>2, <2>3 DEF Reserve, Return
<1>7. CASE GrowAlloc \/ GrowZero \/ GrowLink \/ MkdirAlloc \/ MkdirInit
  <2>1. faults' = faults /\ torn' = torn
    BY Zenon, <1>1, <1>7 DEF GrowAlloc, GrowZero, GrowLink, MkdirAlloc, MkdirInit, FatSet, FatSetFails, Accepted
  <2>2. \/ op' = Idle \/ op' = [op EXCEPT !.d = 0, !.pc = "reserve"]
        \/ \E p \in {"glink", "insert"} : op' = [op EXCEPT !.pc = p]
        \/ \E c \in Cluster, p \in {"gzero", "mkinit"} : op' = [op EXCEPT !.d = c, !.pc = p]
    BY Zenon, <1>1, <1>7 DEF GrowAlloc, GrowZero, GrowLink, MkdirAlloc, MkdirInit, FatSetFails, Return, FreeClusters
  <2>3. op'.pc # "undo"
    <3>1. op' = Idle => op'.pc = "idle"
      BY DEF Idle
    <3>2. op' = [op EXCEPT !.d = 0, !.pc = "reserve"] => op'.pc = "reserve"
      BY <1>0 DEF Call
    <3>3. \A p : op' = [op EXCEPT !.pc = p] => op'.pc = p
      BY <1>0 DEF Call
    <3>4. \A c, p : op' = [op EXCEPT !.d = c, !.pc = p] => op'.pc = p
      BY <1>0 DEF Call
    <3> QED BY Zenon, <2>2, <3>1, <3>2, <3>3, <3>4
  <2> QED BY Zenon, <1>0, <2>1, <2>3
<1>8. CASE Insert \/ TruncateExisting \/ WriteDirent \/ TruncCommit \/ Erase
  <2>1. faults' = faults /\ torn' = torn
    BY Zenon, <1>1, <1>8 DEF Insert, TruncateExisting, WriteDirent, TruncCommit, Erase, Accepted
  <2>2. op' = Idle \/ op' = [op EXCEPT !.at = op.old, !.pc = "erase"]
    BY Zenon, <1>1, <1>8 DEF Insert, TruncateExisting, WriteDirent, TruncCommit, Erase, Return
  <2>3. op'.pc # "undo"
    <3>1. op' = Idle => op'.pc = "idle"
      BY DEF Idle
    <3>2. op' = [op EXCEPT !.at = op.old, !.pc = "erase"] => op'.pc = "erase"
      BY <1>0 DEF Call
    <3> QED BY <2>2, <3>1, <3>2
  <2> QED BY <1>0, <2>1, <2>3
<1>9. CASE WriteWalk \/ WriteAlloc \/ WriteLink \/ WriteData
  <2>1. faults' = faults /\ torn' = torn
    BY Zenon, <1>1, <1>9 DEF WriteWalk, WriteAlloc, WriteLink, WriteData, FatSet, FatSetFails, Accepted
  <2>2. op'.pc # "undo"
    <3>1. CASE WriteWalk
      BY <1>0, <3>1 DEF WriteWalk, Call
    <3>2. CASE WriteAlloc
      <4>1. \/ op' = Idle \/ \E c \in Cluster : op' = [op EXCEPT !.c = c, !.i = h.off]
            \/ \E c \in Cluster : op' = [op EXCEPT !.d = c, !.pc = "link"]
        BY Zenon, <3>2 DEF WriteAlloc, Return, FreeClusters
      <4>2. op' = Idle => op'.pc = "idle"
        BY DEF Idle
      <4>3. \A c : op' = [op EXCEPT !.c = c, !.i = h.off] => op'.pc = op.pc
        BY <1>0 DEF Call
      <4>4. \A c : op' = [op EXCEPT !.d = c, !.pc = "link"] => op'.pc = "link"
        BY <1>0 DEF Call
      <4>5. op.pc = "pos"
        BY Zenon, <3>2 DEF WriteAlloc
      <4> QED BY Zenon, <4>1, <4>2, <4>3, <4>4, <4>5
    <3>3. CASE WriteLink
      <4>1. CASE op' = Idle
        BY Zenon, <4>1 DEF Idle
      <4>2. CASE op' # Idle
        BY Zenon, <1>0, <3>3, <4>2 DEF WriteLink, Return, Call
      <4> QED BY <4>1, <4>2
    <3>4. CASE WriteData
      BY <1>0, <3>4 DEF WriteData, Return, Call, Idle
    <3> QED BY <1>9, <3>1, <3>2, <3>3, <3>4
  <2> QED BY <1>0, <2>1, <2>2
<1>10. CASE TruncWalk \/ TruncCut \/ TruncAlloc \/ TruncLink \/ TruncZero
  <2>1. faults' = faults /\ torn' = torn
    BY Zenon, <1>1, <1>10 DEF TruncWalk, TruncCut, TruncAlloc, TruncLink, TruncZero, FatSet, FatSetFails, Accepted
  <2>2. op'.pc # "undo"
    <3>1. CASE TruncWalk
      <4>1. /\ op.pc \in {"cut", "extend"}
            /\ op' = Idle \/ op' = [op EXCEPT !.c = fat[op.c], !.i = op.i + 1]
        BY <3>1 DEF TruncWalk
      <4>2. op' = Idle => op'.pc = "idle"
        BY DEF Idle
      <4>3. op' = [op EXCEPT !.c = fat[op.c], !.i = op.i + 1] => op'.pc = op.pc
        BY <1>0 DEF Call
      <4> QED BY <4>1, <4>2, <4>3
    <3>2. CASE TruncAlloc
      <4>1. \/ op' = Idle \/ \E c \in Cluster : op' = [op EXCEPT !.c = c, !.i = 1, !.pc = "tzero"]
            \/ \E c \in Cluster : op' = [op EXCEPT !.d = c, !.pc = "tlink"]
        BY Zenon, <3>2 DEF TruncAlloc, Return, FreeClusters
      <4>2. op' = Idle => op'.pc = "idle"
        BY DEF Idle
      <4>3. \A c : op' = [op EXCEPT !.c = c, !.i = 1, !.pc = "tzero"] => op'.pc = "tzero"
        BY <1>0 DEF Call
      <4>4. \A c : op' = [op EXCEPT !.d = c, !.pc = "tlink"] => op'.pc = "tlink"
        BY <1>0 DEF Call
      <4> QED BY Zenon, <4>1, <4>2, <4>3, <4>4
    <3>3. CASE TruncCut \/ TruncLink
      <4>1. \/ op' = Idle \/ op' = [op EXCEPT !.pc = "commit"]
            \/ op' = [op EXCEPT !.c = fat[op.c], !.pc = "free"]
            \/ op' = [op EXCEPT !.c = op.d, !.d = 0, !.i = op.i + 1, !.pc = "tzero"]
        BY <3>3 DEF TruncCut, TruncLink, Return
      <4>2. op' = Idle => op'.pc = "idle"
        BY DEF Idle
      <4>3. /\ op' = [op EXCEPT !.pc = "commit"] => op'.pc = "commit"
            /\ op' = [op EXCEPT !.c = fat[op.c], !.pc = "free"] => op'.pc = "free"
        BY Zenon, <1>0 DEF Call
      <4>4. op' = [op EXCEPT !.c = op.d, !.d = 0, !.i = op.i + 1, !.pc = "tzero"] => op'.pc = "tzero"
        BY <1>0 DEF Call
      <4> QED BY Zenon, <4>1, <4>2, <4>3, <4>4
    <3>4. CASE TruncZero
      BY <1>0, <3>4 DEF TruncZero, Return, Call, Idle
    <3> QED BY Zenon, <1>10, <3>1, <3>2, <3>3, <3>4
  <2> QED BY <1>0, <2>1, <2>2
<1>11. CASE FreeChain
  <2>1. faults' = faults /\ torn' = torn
    BY <1>1, <1>11 DEF FreeChain, FatSet, FatSetFails, Accepted
  <2>2. op' = [op EXCEPT !.c = fat[op.c]] \/ op' = [op EXCEPT !.c = 0, !.pc = AfterFree]
    BY <1>1, <1>11 DEF FreeChain, FatSetFails
  <2>3. op'.pc # "undo"
    <3>1. op' = [op EXCEPT !.c = fat[op.c]] => op'.pc = op.pc
      BY <1>0 DEF Call
    <3>2. op' = [op EXCEPT !.c = 0, !.pc = AfterFree] => op'.pc = AfterFree
      BY <1>0 DEF Call
    <3>3. op.pc = "free" /\ AfterFree # "undo"
      BY <1>11 DEF FreeChain, AfterFree
    <3> QED BY <2>2, <3>1, <3>2, <3>3
  <2> QED BY <1>0, <2>1, <2>3
<1>12. CASE Close \/ Unmount \/ Mount
  BY <1>0, <1>1, <1>12 DEF Close, Unmount, Mount, Accepted
<1>13. CASE Undo
  BY Zenon, <1>1, <1>13 DEF Undo, FatSet, FatSetFails, Accepted
<1>14. ~PowerLoss
  BY <1>1 DEF PowerLoss
<1> QED BY Zenon, <1>0, <1>2, <1>3, <1>4, <1>5, <1>6, <1>7, <1>8, <1>9, <1>10, <1>11, <1>12, <1>13, <1>14 DEF Next

(* Once lossy, always lossy.                                                   *)
LEMMA LeakyStep ==
  ASSUME leaky \in BOOLEAN, Next
  PROVE  leaky' \in BOOLEAN /\ (~leaky' => ~leaky)
<1>1. ASSUME NEW s \in Slot,
             OpenAppend(s) \/ OpenWrite(s) \/ Reserve(s) \/ BeginUnlink(s) \/ BeginRmdir(s)
      PROVE  leaky' = leaky
  BY Zenon, <1>1 DEF OpenAppend, OpenWrite, Reserve, BeginUnlink, BeginRmdir
<1>2. ASSUME NEW n \in Names, OpenCreate(n) \/ BeginMkdir(n) \/ \E s \in Slot : BeginRename(s, n)
      PROVE  leaky' = leaky
  BY Zenon, <1>2 DEF OpenCreate, BeginMkdir, BeginRename
<1>3. ASSUME NEW k, BeginWrite(k) \/ BeginTruncate(k) \/ Seek(k) PROVE leaky' = leaky
  BY Zenon, <1>3 DEF BeginWrite, BeginTruncate, Seek
<1>4. CASE TruncateExisting \/ GrowAlloc \/ GrowZero \/ GrowLink \/ Undo \/ Insert
  <2>1. leaky' = leaky
    BY Zenon, <1>4 DEF TruncateExisting, GrowAlloc, GrowZero, GrowLink, Undo, Insert
  <2> QED BY <2>1
<1>5. CASE WriteWalk \/ WriteLink \/ WriteData \/ WriteDirent \/ TruncWalk \/ TruncCut \/ TruncZero \/ TruncCommit
  <2>1. leaky' = leaky
    BY Zenon, <1>5 DEF WriteWalk, WriteLink, WriteData, WriteDirent, TruncWalk, TruncCut, TruncZero, TruncCommit
  <2> QED BY <2>1
<1>6. CASE WriteAlloc \/ TruncAlloc \/ TruncLink
  <2>1. \/ leaky' = leaky \/ leaky' = (leaky \/ h.first # slots[h.at].first)
        \/ leaky' = (leaky \/ fat[op.c] # EOC)
    BY Zenon, <1>6 DEF WriteAlloc, TruncAlloc, TruncLink
  <2> QED BY Zenon, <2>1
<1>7. CASE MkdirAlloc \/ MkdirInit \/ FreeChain \/ Erase \/ Close \/ Unmount \/ Mount \/ PowerLoss
  <2>1. leaky' = leaky
    BY Zenon, <1>7 DEF MkdirAlloc, MkdirInit, FreeChain, Erase, Close, Unmount, Mount, PowerLoss
  <2> QED BY <2>1
<1> QED BY Zenon, <1>1, <1>2, <1>3, <1>4, <1>5, <1>6, <1>7 DEF Next

(* On the formatted medium the one cluster in use is the root's.               *)
LEMMA InitAccounted == Init => LInv
<1> SUFFICES ASSUME Init PROVE LInv
  OBVIOUS
<1>1. op.pc = "idle" /\ op.call = "none" /\ h.at = NoSlot /\ torn = FALSE /\ leaky = FALSE
  BY Zenon DEF Init, Idle, Closed
<1>2. Reached
  BY Zenon DEF Init, Reached, Led
<1>3. Files
  <2>1. \A s \in Slot : slots[s].kind \in {"end", "junk"}
    BY Zenon DEF Init, Mark
  <2> QED BY Zenon, <2>1 DEF Files, Entries, DirSlots
<1>4. Filed /\ AtEnd
  BY Zenon, <1>1 DEF Filed, IsOpen, AtEnd, Beheaded
<1>5. leaky \in BOOLEAN /\ ~torn
  BY Zenon, <1>1
<1> QED BY Zenon, <1>1, <1>2, <1>3, <1>4, <1>5 DEF LInv, Accounted

(* A step that changes nothing.                                                *)
LEMMA StutterAccounted == ASSUME LInv, UNCHANGED vars PROVE LInv'
<1> USE DEF vars, medium, alloc
<1>1. Entries' = Entries /\ Beheaded' = Beheaded /\ Taken' = Taken /\ IsOpen' = IsOpen
  BY Zenon DEF Entries, DirSlots, Exposed, Headless, FreesAll, Beheaded, Taken, IsOpen
<1>2. Reached => Reached'
  BY Zenon, <1>1 DEF Reached, Led, Holding
<1>3. Files => Files'
  BY Zenon, <1>1 DEF Files
<1>4. Filed => Filed'
  BY Zenon, <1>1 DEF Filed, Agree, Growing
<1>5. AtEnd => AtEnd'
  BY Zenon, <1>1 DEF AtEnd
<1> QED BY Zenon, <1>2, <1>3, <1>4, <1>5 DEF LInv, Accounted

--------------------------------------------------------------------------------
(* Files do not touch each other: the chains of a sound volume are disjoint,   *)
(* a call stands on the chain of its own file, and writes only there.          *)

(* A chain is in every set that has its start and follows the table.           *)
LEMMA ChainLeast ==
  ASSUME NEW S \in SUBSET Cluster, NEW c \in S, Follows(S)
  PROVE  Chain(c) \subseteq S
BY DEF Chain

(* It has its start, and goes on where the table does.                         *)
LEMMA ChainFollows ==
  ASSUME NEW c \in Cluster
  PROVE  Chain(c) \in SUBSET Cluster /\ c \in Chain(c) /\ Follows(Chain(c))
<1>1. Chain(c) \in SUBSET Cluster /\ c \in Chain(c)
  BY DEF Chain
<1>2. ASSUME NEW p \in Chain(c), fat[p] \in Cluster PROVE fat[p] \in Chain(c)
  <2>1. ASSUME NEW S \in SUBSET Cluster, c \in S, Follows(S) PROVE fat[p] \in S
    BY Zenon, <1>2, <2>1 DEF Chain, Follows
  <2> QED BY Zenon, <1>2, <2>1 DEF Chain
<1> QED BY Zenon, <1>1, <1>2 DEF Follows

(* What a chain has besides its start, one of its clusters leads to.           *)
LEMMA ChainPredecessor ==
  ASSUME NEW c \in Cluster, NEW d \in Chain(c), d # c
  PROVE  \E p \in Chain(c) : fat[p] = d
<1> SUFFICES ASSUME \A p \in Chain(c) : fat[p] # d PROVE FALSE
  OBVIOUS
<1> DEFINE S == Chain(c) \ {d}
<1>1. S \in SUBSET Cluster /\ c \in S
  BY Zenon, ChainFollows
<1>2. Follows(S)
  BY Zenon, ChainFollows DEF Follows
<1>3. Chain(c) \subseteq S
  <2> HIDE DEF S
  <2> QED BY Zenon, <1>1, <1>2, ChainLeast
<1> QED BY Zenon, <1>3

(* A cluster nothing leads to is on no chain but its own.                      *)
LEMMA OffChain ==
  ASSUME NEW c \in Cluster, NEW f \in Cluster, f # c, \A p \in Cluster : fat[p] # c
  PROVE  c \notin Chain(f)
BY Zenon, ChainPredecessor, ChainFollows

(* Two chains that start where nothing leads have no cluster in common.        *)
LEMMA ChainsApart ==
  ASSUME Chained, NEW a \in Cluster, NEW b \in Cluster, a # b,
         \A p \in Cluster : fat[p] \notin {a, b}
  PROVE  Chain(a) \cap Chain(b) = {}
<1> DEFINE S == Cluster \ Chain(a)
<1>1. b \in S /\ S \in SUBSET Cluster
  BY Zenon, OffChain
<1>2. ASSUME NEW p \in S, fat[p] \in Chain(a) PROVE FALSE
  <2>1. PICK q \in Chain(a) : fat[q] = fat[p]
    BY Zenon, <1>2, ChainPredecessor
  <2>2. q \in Cluster /\ fat[p] \in Cluster
    BY Zenon, <1>2, ChainFollows
  <2> QED BY Zenon, <2>1, <2>2 DEF Chained
<1>3. Follows(S)
  BY Zenon, <1>2 DEF Follows
<1>4. Chain(b) \subseteq S
  <2> HIDE DEF S
  <2> QED BY Zenon, <1>1, <1>3, ChainLeast
<1> QED BY Zenon, <1>4

(* The call stands at a cluster of the open file, which is on its chain.       *)
InPlace ==
  \/ op.pc = "pos" /\ op.c # 0
  \/ op.pc \in {"link", "cut", "tlink", "tzero"}
  \/ op.pc = "extend" /\ op.i # 0
OnChain == InPlace => op.c \in Chain(h.first)

(* What the lemmas below use of the invariant; it fails on a torn volume only. *)
Sound == Types /\ Lengths /\ Where /\ Chained /\ Directory /\ Handle /\ Held

(* Only an open file has a first cluster.                                      *)
LEMMA HasFirst == ASSUME Lengths, h.first # 0 PROVE IsOpen
<1>1. Closed.first = 0
  BY DEF Closed
<1> QED BY Zenon, <1>1 DEF Lengths

(* Nothing leads to where another chain starts.                                *)
LEMMA OtherHead ==
  ASSUME Sound, NEW f \in OtherHeads
  PROVE  f \in Cluster /\ fat[f] # Free /\ \A p \in Cluster : fat[p] # f
<1>0. f # 0
  BY Zenon DEF OtherHeads
<1>1. CASE \E s \in OtherEntries : f = slots[s].first
  <2>1. PICK s \in Entries : f = slots[s].first
    BY Zenon, <1>1 DEF OtherEntries
  <2>2. Unled(f, s) /\ fat[f] # Free
    BY Zenon, <1>0, <2>1 DEF Sound, Chained
  <2> QED BY Zenon, <2>2 DEF Unled
<1>2. CASE ~OnFile /\ f = h.first
  <2>1. IsOpen
    BY Zenon, <1>0, <1>2, HasFirst DEF Sound
  <2>2. ~Beheaded
    BY Zenon, <1>2 DEF Beheaded, OnFile
  <2> QED BY Zenon, <1>0, <1>2, <2>1, <2>2 DEF Sound, Handle, Unled
<1>3. CASE f = Root
  BY Zenon, <1>3, FatAssumption DEF Sound, Chained, Directory
<1> QED BY Zenon, <1>1, <1>2, <1>3 DEF OtherHeads

(* None of the clusters a call works on is on another chain.                   *)
LEMMA CallApart ==
  ASSUME Sound, OnChain, NEW f \in OtherHeads
  PROVE  /\ Chain(f) \cap FreeClusters = {}
         /\ InPlace => op.c \notin Chain(f)
         /\ op.pc = "free" => op.c \notin Chain(f)
         /\ OnDirectory => Chain(f) \cap dirc = {}
         /\ Taken => op.d \notin Chain(f)
<1>0. f \in Cluster /\ fat[f] # Free /\ \A p \in Cluster : fat[p] # f
  BY Zenon, OtherHead
<1>1. Chain(f) \cap FreeClusters = {}
  <2> DEFINE S == {c \in Cluster : fat[c] # Free}
  <2>1. f \in S /\ S \in SUBSET Cluster
    BY Zenon, <1>0
  <2>2. Follows(S)
    BY Zenon DEF Follows, Sound, Chained
  <2>3. Chain(f) \subseteq S
    <3> HIDE DEF S
    <3> QED BY Zenon, <2>1, <2>2, ChainLeast
  <2> QED BY Zenon, <2>3 DEF FreeClusters
<1>2. ASSUME InPlace PROVE op.c \notin Chain(f)
  <2>1. OnFile /\ IsOpen /\ h.first # 0
    BY Zenon, <1>2, CallOf DEF InPlace, Sound, Where, OnFile, Held, Place
  <2>2. Unled(h.first, h.at)
    BY Zenon, <2>1 DEF Sound, Handle
  <2>3. f # h.first
    BY Zenon, <2>1, <2>2 DEF OtherHeads, OtherEntries, Unled
  <2>4. op.c \in Chain(h.first)
    BY <1>2 DEF OnChain
  <2>5. Chain(h.first) \cap Chain(f) = {}
    BY Zenon, <1>0, <2>2, <2>3, ChainsApart DEF Unled, Sound
  <2> QED BY Zenon, <2>4, <2>5
<1>3. ASSUME op.pc = "free" PROVE op.c \notin Chain(f)
  <2>1. Unled(op.c, op.at)
    BY Zenon, <1>3 DEF Sound, Held, Head
  <2>2. ~OnFile /\ h.first # 0 => h.first # op.c
    <3>1. h.first # 0 => IsOpen
      BY Zenon, HasFirst DEF Sound
    <3> QED BY Zenon, <1>3, <3>1 DEF Sound, Held, Head, OnFile
  <2>3. f # op.c
    BY Zenon, <2>1, <2>2 DEF OtherHeads, OtherEntries, Unled
  <2> QED BY Zenon, <1>0, <2>1, <2>3, OffChain DEF Unled
<1>4. ASSUME OnDirectory PROVE Chain(f) \cap dirc = {}
  <2> DEFINE S == Cluster \ dirc
  <2>1. f # Root
    <3>1. \A s \in OtherEntries : slots[s].first # 0 => slots[s].first # Root
      BY Zenon DEF OtherEntries, Sound, Chained, Unled
    <3>2. h.first # 0 => h.first # Root
      BY Zenon, HasFirst DEF Sound, Handle, Unled
    <3> QED BY Zenon, <1>4, <3>1, <3>2 DEF OtherHeads
  <2>2. f \in S /\ S \in SUBSET Cluster
    BY Zenon, <1>0, <2>1 DEF Sound, Directory, Types
  <2>3. Follows(S)
    BY DEF Follows, Sound, Chained, Directory, Types
  <2>4. Chain(f) \subseteq S
    <3> HIDE DEF S
    <3> QED BY <2>2, <2>3, ChainLeast
  <2> QED BY <2>4
<1>5. ASSUME Taken PROVE op.d \notin Chain(f)
  <2>1. op.d \in Cluster /\ (op.d \notin dirc => Unled(op.d, NoSlot) /\ (IsOpen => h.first # op.d))
        /\ (op.pc # "undo" => op.d \notin dirc)
    BY Zenon, <1>5 DEF Taken, Sound, Held, NewCluster
  <2>2. CASE op.d \in dirc
    <3>1. OnDirectory
      BY Zenon, <2>1, <2>2, CallOf DEF Sound, OnDirectory
    <3> QED BY Zenon, <1>4, <2>2, <3>1
  <2>3. CASE op.d \notin dirc
    <3>1. f # op.d
      <4>1. \A s \in OtherEntries : slots[s].first # op.d
        BY Zenon, <2>1, <2>3, ConstantFacts DEF OtherEntries, Entries, DirSlots, Unled
      <4>2. h.first # op.d
        BY Zenon, <2>1, <2>3, HasFirst, FatAssumption DEF Sound
      <4> QED BY Zenon, <2>1, <2>3, <4>1, <4>2 DEF OtherHeads, Unled
    <3> QED BY Zenon, <1>0, <2>1, <2>3, <3>1, OffChain DEF Unled
  <2> QED BY <2>2, <2>3
<1> QED BY Zenon, <1>1, <1>2, <1>3, <1>4, <1>5

(* A step along the chain of the open file, or one that changes no link of it  *)
(* but the one the call stands at.                                             *)
LEMMA OnChainMoves ==
  ASSUME InPlace, OnChain, op.c \in Cluster, h'.first = h.first,
         \A p \in Cluster \ {op.c} : fat[p] \in Cluster => fat'[p] = fat[p],
         op'.c \in Cluster, op'.c = op.c \/ op'.c = fat'[op.c]
  PROVE  OnChain'
<1>1. ASSUME NEW S \in SUBSET Cluster, h.first \in S,
             \A p \in S : fat'[p] \in Cluster => fat'[p] \in S
      PROVE  op'.c \in S
  <2>1. ASSUME op.c \notin S PROVE FALSE
    <3>1. Follows(S)
      BY Zenon, <1>1, <2>1 DEF Follows
    <3> QED BY Zenon, <1>1, <2>1, <3>1 DEF OnChain, Chain
  <2> QED BY Zenon, <1>1, <2>1
<1> QED BY Zenon, <1>1 DEF OnChain, Chain, Follows

(* A call that starts at the first cluster of the file.                        *)
LEMMA OnChainStarts ==
  ASSUME InPlace' => op'.c \in Cluster /\ op'.c = h'.first
  PROVE  OnChain'
BY Zenon DEF OnChain, Chain

(* Where a call on a file goes on.                                             *)
LEMMA OnChainStep == ASSUME IInv, OnChain, Next PROVE OnChain'
<1>0. Types /\ op \in Call /\ h \in FileHandle
  BY Zenon DEF IInv, Types
<1>a. op' = Idle => OnChain'
  BY DEF OnChain, InPlace, Idle
<1>1. ASSUME NEW k \in 1 .. MaxSize, BeginWrite(k) PROVE OnChain'
  <2>1. op'.c = h.first /\ h' = h /\ op'.pc = "pos"
    BY <1>1 DEF BeginWrite, Idle
  <2>2. h.first \in {0} \cup Cluster
    BY Zenon, <1>0, HandleFacts DEF MaybeCluster
  <2> QED BY Zenon, <2>1, <2>2, OnChainStarts DEF InPlace
<1>2. ASSUME NEW k \in 0 .. MaxSize, BeginTruncate(k) PROVE OnChain'
  <2>1. h.first \in {0} \cup Cluster /\ (h.size > 0 => h.first # 0) /\ h.size \in Nat
    BY <1>0, HandleFacts, LengthFacts DEF MaybeCluster, IInv, Lengths
  <2>2. \/ op'.pc \in {"commit", "free"}
        \/ op'.pc = "extend" /\ op'.i = 0
        \/ h.first \in Cluster /\ op'.c = h.first /\ h' = h
    BY Zenon, <1>2, <2>1, TruncateBegins
  <2> QED BY Zenon, <2>2, OnChainStarts DEF InPlace, OnChain
<1>3. CASE WriteWalk \/ TruncWalk
  <2>1. op.pc \in {"pos", "cut", "extend"} /\ h' = h /\ fat' = fat
    BY <1>3 DEF WriteWalk, TruncWalk, medium
  <2>2. InPlace
    BY <1>3, <1>0, HandleFacts, LengthFacts DEF InPlace, WriteWalk, TruncWalk, IInv, Counts
  <2>3. op.c \in Cluster /\ fat[op.c] # Free
    BY Zenon, <2>1, <2>2, Running DEF Held, Place, InPlace
  <2>4. op' = Idle \/ (fat[op.c] \in Cluster /\ op' = [op EXCEPT !.c = fat[op.c], !.i = op.i + 1])
    BY <1>0, <1>3, <2>3 DEF WriteWalk, TruncWalk, Types
  <2>5. op' = Idle \/ (op'.c \in Cluster /\ op'.c = fat'[op.c])
    BY Zenon, <1>0, <2>1, <2>4 DEF Call
  <2> QED BY Zenon, <1>a, <2>1, <2>2, <2>3, <2>5, OnChainMoves
<1>4. CASE WriteAlloc \/ TruncAlloc
  <2>1. op.pc \in {"pos", "extend"}
    BY Zenon, <1>4 DEF WriteAlloc, TruncAlloc
  <2>2. \/ op' = Idle
        \/ \E c \in FreeClusters : op'.c = c /\ h'.first = c
        \/ \E c \in FreeClusters :
             /\ InPlace /\ fat' = [fat EXCEPT ![c] = EOC] /\ op'.c = op.c /\ h' = h
    <3>1. CASE WriteAlloc
      BY Zenon, <1>0, <3>1 DEF WriteAlloc, Return, FatSet, InPlace, Call, FileHandle
    <3>2. CASE TruncAlloc
      BY Zenon, <1>0, <3>2 DEF TruncAlloc, Return, FatSet, InPlace, Call, FileHandle
    <3> QED BY Zenon, <1>4, <3>1, <3>2
  <2>3. CASE \E c \in FreeClusters : op'.c = c /\ h'.first = c
    BY Zenon, <2>3, OnChainStarts DEF FreeClusters
  <2>4. ASSUME NEW c \in FreeClusters, InPlace, fat' = [fat EXCEPT ![c] = EOC], op'.c = op.c, h' = h
        PROVE  OnChain'
    <3>1. op.c \in Cluster
      BY Zenon, <2>1, <2>4, Running DEF Held, Place, InPlace
    <3>2. \A p \in Cluster : fat[p] \in Cluster => fat'[p] = fat[p]
      BY Zenon, <1>0, <2>4, ConstantFacts DEF FreeClusters, Types
    <3> QED BY Zenon, <2>4, <3>1, <3>2, OnChainMoves
  <2> QED BY Zenon, <1>a, <2>2, <2>3, <2>4
<1>5. CASE WriteLink \/ TruncLink
  <2>1. op.pc \in {"link", "tlink"} /\ h' = h /\ InPlace
    BY <1>5 DEF WriteLink, TruncLink, InPlace
  <2>2. op.c \in Cluster /\ op.d \in Cluster
    BY Zenon, <2>1, Running DEF Held, Place, NewCluster
  <2>3. op' = Idle \/ (op'.c = op.d /\ fat' = [fat EXCEPT ![op.c] = op.d])
    BY Zenon, <1>0, <1>5 DEF WriteLink, TruncLink, FatSet, Return, Call
  <2>4. ASSUME op'.c = op.d, fat' = [fat EXCEPT ![op.c] = op.d] PROVE OnChain'
    <3>1. fat'[op.c] = op.d /\ \A p \in Cluster \ {op.c} : fat'[p] = fat[p]
      BY Zenon, <1>0, <2>2, <2>4 DEF Types
    <3> QED BY Zenon, <2>1, <2>2, <2>4, <3>1, OnChainMoves
  <2> QED BY Zenon, <1>a, <2>3, <2>4
<1>6. CASE WriteData \/ TruncZero
  <2>1. op.pc \in {"pos", "tzero"} /\ InPlace /\ fat' = fat
    BY <1>6 DEF WriteData, TruncZero, InPlace
  <2>2. op.c \in Cluster
    BY Zenon, <2>1, Running DEF Held, Place, InPlace
  <2>3. h'.first = h.first /\ (op' = Idle \/ op'.c = op.c)
    BY Zenon, <1>0, <1>6 DEF WriteData, TruncZero, Return, Call, FileHandle
  <2> QED BY Zenon, <1>a, <2>1, <2>2, <2>3, OnChainMoves
<1>b. op'.pc \notin {"pos", "link", "cut", "tlink", "tzero", "extend"} => OnChain'
  BY Zenon DEF OnChain, InPlace
<1>7. ASSUME NEW s \in Slot,
             OpenAppend(s) \/ OpenWrite(s) \/ Reserve(s) \/ BeginUnlink(s) \/ BeginRmdir(s)
      PROVE  OnChain'
  <2>1. CASE OpenAppend(s)
    BY Zenon, <1>a, <2>1 DEF OpenAppend, Ready
  <2>2. CASE OpenWrite(s) \/ BeginUnlink(s) \/ BeginRmdir(s)
    <3>1. op'.pc \in {"zero", "free", "erase"}
      BY Zenon, <2>2 DEF OpenWrite, BeginUnlink, BeginRmdir, Idle
    <3> QED BY <1>b, <3>1
  <2>3. CASE Reserve(s)
    <3>1. op' = Idle \/ op' = [op EXCEPT !.at = s, !.pc = AfterReserve]
      BY <2>3 DEF Reserve, Return
    <3> QED BY Zenon, <1>0, <1>a, <1>b, <3>1 DEF AfterReserve, Call
  <2> QED BY Zenon, <1>7, <2>1, <2>2, <2>3
<1>8. ASSUME NEW n \in Names,
             OpenCreate(n) \/ BeginMkdir(n) \/ \E s \in Slot : BeginRename(s, n)
      PROVE  OnChain'
  <2>1. op'.pc = "reserve"
    BY Zenon, <1>8 DEF OpenCreate, BeginMkdir, BeginRename, Idle
  <2> QED BY <1>b, <2>1
<1>9. ASSUME NEW k \in 0 .. MaxSize, Seek(k) PROVE OnChain'
  BY <1>a, <1>9 DEF Seek, Ready
<1>10. CASE TruncateExisting \/ Undo \/ WriteDirent \/ TruncCommit \/ Erase \/ PowerLoss
  BY Zenon, <1>a, <1>10 DEF TruncateExisting, Undo, WriteDirent, TruncCommit, Erase, PowerLoss, Return
<1>11. CASE Close \/ Unmount \/ Mount
  <2>1. op' = op /\ (op = Idle \/ ~mounted)
    BY Zenon, <1>11 DEF Close, Unmount, Mount
  <2>2. op = Idle
    BY Zenon, <2>1 DEF IInv, Where
  <2> QED BY <1>a, <2>1, <2>2
<1>12. CASE GrowAlloc \/ GrowZero \/ GrowLink \/ Insert \/ MkdirAlloc \/ MkdirInit
  <2>1. \/ op' = Idle \/ op' = [op EXCEPT !.d = 0, !.pc = "reserve"]
        \/ op' = [op EXCEPT !.at = op.old, !.pc = "erase"]
        \/ \E p \in {"glink", "insert", "undo"} : op' = [op EXCEPT !.pc = p]
        \/ \E c \in Cluster : op' = [op EXCEPT !.c = c, !.pc = "undo"]
        \/ \E c \in Cluster, p \in {"gzero", "mkinit"} : op' = [op EXCEPT !.d = c, !.pc = p]
    <3>1. CASE GrowAlloc \/ MkdirAlloc
      BY Zenon, <3>1 DEF GrowAlloc, MkdirAlloc, Return, FreeClusters
    <3>2. CASE GrowZero \/ MkdirInit
      BY Zenon, <3>2 DEF GrowZero, MkdirInit
    <3>3. CASE GrowLink
      BY Zenon, <1>0, <3>3 DEF GrowLink, Types
    <3>4. CASE Insert
      BY Zenon, <3>4 DEF Insert
    <3> QED BY Zenon, <1>12, <3>1, <3>2, <3>3, <3>4
  <2> QED BY Zenon, <1>0, <1>a, <1>b, <2>1 DEF Call
<1>13. CASE TruncCut \/ FreeChain
  <2>1. \/ op' = Idle \/ op' = [op EXCEPT !.pc = "commit"]
        \/ op' = [op EXCEPT !.c = fat[op.c], !.pc = "free"]
        \/ op.pc = "free" /\ op' = [op EXCEPT !.c = fat[op.c]]
        \/ op' = [op EXCEPT !.c = 0, !.pc = AfterFree]
    BY <1>13 DEF TruncCut, FreeChain, Return
  <2> QED BY Zenon, <1>0, <1>a, <1>b, <2>1 DEF Call, AfterFree
<1> QED BY Zenon, <1>1, <1>2, <1>3, <1>4, <1>5, <1>6, <1>7, <1>8, <1>9, <1>10, <1>11, <1>12, <1>13 DEF Next

(* Clusters that are free, the one the call stands at, frees or has taken, and *)
(* those of the directory it works on.                                         *)
Workplace ==
  FreeClusters \cup (IF InPlace \/ op.pc = "free" THEN {op.c} ELSE {})
    \cup (IF Taken THEN {op.d} ELSE {}) \cup (IF OnDirectory THEN dirc ELSE {})

(* Only there, and only during a call, does a step change the table.           *)
LEMMA TableStep ==
  ASSUME IInv, Next, fat' # fat
  PROVE  op.pc # "idle" /\ \A c \in Cluster : fat'[c] # fat[c] => c \in Workplace
<1>0. Types
  BY DEF IInv
<1>1. \A c \in Cluster : \A v : fat' = [fat EXCEPT ![c] = v] /\ c \in Workplace
        => \A d \in Cluster : fat'[d] # fat[d] => d \in Workplace
  BY Zenon, <1>0 DEF Types
<1>2. CASE GrowAlloc \/ MkdirAlloc \/ WriteAlloc \/ TruncAlloc
  <2>1. op.pc # "idle"
    BY Zenon, <1>2 DEF GrowAlloc, MkdirAlloc, WriteAlloc, TruncAlloc
  <2>2. \E c \in FreeClusters : fat' = [fat EXCEPT ![c] = EOC]
    BY Zenon, <1>2 DEF GrowAlloc, MkdirAlloc, WriteAlloc, TruncAlloc, FatSet, FatSetFails
  <2> QED BY Zenon, <1>1, <2>1, <2>2 DEF Workplace, FreeClusters
<1>3. CASE WriteLink \/ TruncLink \/ TruncCut \/ FreeChain
  <2>1. op.pc # "idle" /\ (InPlace \/ op.pc = "free")
    BY <1>3 DEF WriteLink, TruncLink, TruncCut, FreeChain, InPlace
  <2>2. \E v : fat' = [fat EXCEPT ![op.c] = v]
    BY <1>3 DEF WriteLink, TruncLink, TruncCut, FreeChain, FatSet, FatSetFails
  <2>3. op.c \in Cluster
    BY Zenon, <2>1, Running DEF Held, Place, InPlace, Head, Unled
  <2> QED BY Zenon, <1>1, <2>1, <2>2, <2>3 DEF Workplace
<1>4. CASE Undo
  <2>1. op.pc = "undo" /\ Taken /\ op.d \in Cluster
    BY Zenon, <1>4, Running DEF Undo, Taken, Held, NewCluster
  <2>2. fat' = [fat EXCEPT ![op.d] = Free]
    BY Zenon, <1>4 DEF Undo, FatSet, FatSetFails
  <2> QED BY Zenon, <1>1, <2>1, <2>2 DEF Workplace
<1>5. CASE GrowLink
  <2>1. op.pc = "glink" /\ OnDirectory
    BY <1>5, Running, CallOf DEF GrowLink, OnDirectory
  <2>2. \E c \in dirc : fat' = [fat EXCEPT ![c] = op.d]
    BY <1>5 DEF GrowLink, FatSet, FatSetFails
  <2> QED BY Zenon, <1>0, <1>1, <2>1, <2>2 DEF Workplace, Types
<1>6. ASSUME NEW s \in Slot,
             OpenAppend(s) \/ OpenWrite(s) \/ Reserve(s) \/ BeginUnlink(s) \/ BeginRmdir(s)
      PROVE  FALSE
  BY Zenon, <1>6 DEF OpenAppend, OpenWrite, Reserve, BeginUnlink, BeginRmdir, medium
<1>7. ASSUME NEW n \in Names,
             OpenCreate(n) \/ BeginMkdir(n) \/ \E s \in Slot : BeginRename(s, n)
      PROVE  FALSE
  BY Zenon, <1>7 DEF OpenCreate, BeginMkdir, BeginRename, medium
<1>8. ASSUME NEW k, BeginWrite(k) \/ BeginTruncate(k) \/ Seek(k) PROVE FALSE
  BY <1>8 DEF BeginWrite, BeginTruncate, Seek, medium
<1>9. CASE TruncateExisting \/ GrowZero \/ Insert \/ WriteWalk \/ WriteData \/ WriteDirent
  BY Zenon, <1>9 DEF TruncateExisting, GrowZero, Insert, WriteWalk, WriteData, WriteDirent, medium
<1>10. CASE TruncWalk \/ TruncZero \/ TruncCommit \/ MkdirInit \/ Erase
  BY Zenon, <1>10 DEF TruncWalk, TruncZero, TruncCommit, MkdirInit, Erase, medium
<1>11. CASE Close \/ Unmount \/ Mount \/ PowerLoss
  BY Zenon, <1>11 DEF Close, Unmount, Mount, PowerLoss, medium
<1> QED BY Zenon, <1>2, <1>3, <1>4, <1>5, <1>6, <1>7, <1>8, <1>9, <1>10, <1>11 DEF Next

(* Only the entry the call is about is written.                                *)
LEMMA EntryStep ==
  ASSUME IInv, Next, NEW s \in OtherEntries
  PROVE  slots'[s] = slots[s]
<1>0. Types /\ s \in Slot /\ s[1] \in dirc /\ s # op.at /\ (OnFile => s # h.at)
  BY Zenon DEF IInv, OtherEntries, Entries, DirSlots
<1>1. ASSUME NEW c, c \notin dirc PROVE Scribbled(c)[s] = slots[s] /\ Zeroed(c)[s] = slots[s]
  BY Zenon, <1>0, <1>1 DEF Scribbled, Zeroed
<1>2. CASE GrowZero \/ MkdirInit
  <2>1. op.pc \in {"gzero", "mkinit"} /\ op.d \notin dirc
    BY Zenon, <1>2, Running DEF GrowZero, MkdirInit, Held, NewCluster
  <2>2. slots' = Zeroed(op.d) \/ slots' = Scribbled(op.d)
    BY <1>2 DEF GrowZero, MkdirInit
  <2> QED BY Zenon, <1>1, <2>1, <2>2
<1>3. CASE WriteData \/ TruncZero
  <2>1. InPlace /\ op.pc # "idle" /\ slots' = Scribbled(op.c)
    BY Zenon, <1>3 DEF WriteData, TruncZero, InPlace
  <2>2. op.c \notin dirc
    BY Zenon, <2>1, Running DEF Held, Place, InPlace
  <2> QED BY Zenon, <1>1, <2>1, <2>2
<1>4. CASE TruncateExisting \/ Insert \/ Erase
  <2>1. slots' = slots \/ \E e : slots' = [slots EXCEPT ![op.at] = e]
    <3>1. CASE TruncateExisting
      BY <3>1 DEF TruncateExisting
    <3>2. CASE Insert
      BY <3>2 DEF Insert
    <3>3. CASE Erase
      BY Zenon, <3>3 DEF Erase
    <3> QED BY Zenon, <1>4, <3>1, <3>2, <3>3
  <2> QED BY Zenon, <1>0, <2>1 DEF Types
<1>5. CASE WriteDirent \/ TruncCommit
  <2>1. op.pc \in {"dirent", "commit"}
    BY <1>5 DEF WriteDirent, TruncCommit
  <2>2. OnFile
    BY Zenon, <2>1, Running, CallOf DEF OnFile
  <2>3. slots' = slots \/ \E e : slots' = [slots EXCEPT ![h.at] = e]
    BY <1>5 DEF WriteDirent, TruncCommit
  <2> QED BY Zenon, <1>0, <2>2, <2>3 DEF Types
<1>6. ASSUME NEW t \in Slot,
             OpenAppend(t) \/ OpenWrite(t) \/ Reserve(t) \/ BeginUnlink(t) \/ BeginRmdir(t)
      PROVE  slots' = slots
  BY <1>6 DEF OpenAppend, OpenWrite, Reserve, BeginUnlink, BeginRmdir, medium
<1>7. ASSUME NEW n \in Names,
             OpenCreate(n) \/ BeginMkdir(n) \/ \E t \in Slot : BeginRename(t, n)
      PROVE  slots' = slots
  BY Zenon, <1>7 DEF OpenCreate, BeginMkdir, BeginRename, medium
<1>8. ASSUME NEW k, BeginWrite(k) \/ BeginTruncate(k) \/ Seek(k) PROVE slots' = slots
  BY <1>8 DEF BeginWrite, BeginTruncate, Seek, medium
<1>9. CASE GrowAlloc \/ GrowLink \/ Undo \/ WriteWalk \/ WriteAlloc \/ WriteLink
  BY Zenon, <1>9 DEF GrowAlloc, GrowLink, Undo, WriteWalk, WriteAlloc, WriteLink, medium
<1>10. CASE TruncWalk \/ TruncCut \/ TruncAlloc \/ TruncLink \/ MkdirAlloc \/ FreeChain
  BY Zenon, <1>10 DEF TruncWalk, TruncCut, TruncAlloc, TruncLink, MkdirAlloc, FreeChain, medium
<1>11. CASE Close \/ Unmount \/ Mount \/ PowerLoss
  BY Zenon, <1>11 DEF Close, Unmount, Mount, PowerLoss, medium
<1> QED BY Zenon, <1>2, <1>3, <1>4, <1>5, <1>6, <1>7, <1>8, <1>9, <1>10, <1>11 DEF Next

(* At first no call is in progress.                                            *)
LEMMA InitChain == Init => OnChain
<1>1. Idle.pc = "idle"
  BY DEF Idle
<1>2. Init => op = Idle
  BY Zenon DEF Init
<1> QED BY <1>1, <1>2 DEF OnChain, InPlace

(* What the call writes is its own.                                            *)
LEMMA WrittenApart ==
  ASSUME IInv, OnChain, NEW f \in OtherHeads, NEW c \in Written \cup Workplace, op.pc # "idle"
  PROVE  c \notin Chain(f)
<1>1. Sound
  BY Running DEF Sound
<1>2. f \in Cluster
  BY Zenon, <1>1, OtherHead
<1>3. 0 \notin Chain(f)
  BY Zenon, <1>2, FatAssumption, ChainFollows
<1>4. \A d \in Workplace : d \notin Chain(f)
  BY Zenon, <1>1, CallApart DEF Workplace
<1>5. Written \subseteq {0} \cup Workplace
  BY Zenon DEF Written, Workplace, InPlace, Taken
<1> QED BY Zenon, <1>3, <1>4, <1>5
================================================================================
