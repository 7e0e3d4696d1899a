---------------------------------- MODULE Ftl ----------------------------------
(***************************************************************************)
(* The flash translation layer of libs/ra8_ftl, mounted over a raw         *)
(* erase-before-write device that keeps a reserved tail for the mapping    *)
(* checkpoint.                                                             *)
(*                                                                         *)
(* A call into the layer is a sequence of steps, one per call it makes to  *)
(* the raw device, so that power can be lost between any two of them and   *)
(* in the middle of each; `pc` says which raw call is outstanding.  Each   *)
(* raw call may also fail, which ends the whole request as it does in the  *)
(* code.  The layer is not thread safe, so at most one request runs.       *)
(*                                                                         *)
(* A block's 512 bytes are abstracted to a member of Data, to Blank when   *)
(* every byte is the erase value, and to Torn when an erase or a program   *)
(* stopped part way.  The checkpoint's byte layout, version, lengths and   *)
(* CRC are abstracted to one bit: bytes that sync wrote completely load,   *)
(* any others do not.                                                      *)
(***************************************************************************)
EXTENDS Integers, FiniteSets

CONSTANTS L,         \* logical_blocks
          P,         \* physical_blocks, the device without its reserved tail
          Data,      \* block contents a client writes
          Blank,     \* a block that reads back as the erase value
          Torn,      \* a block that was partly erased or partly programmed
          MaxErase   \* bound: no write starts once a block was erased this often

\* What ra8_ftl_init and the mount's split accept: at least one logical block,
\* at least one spare, and fewer physical blocks than the 16-bit sentinel.
ASSUME GeometryAssumption ==
  /\ L \in Nat \ {0}
  /\ P \in Nat
  /\ P >= L + 1
  /\ P <= 65534

ASSUME ContentAssumption ==
  /\ Blank \notin Data
  /\ Torn \notin Data
  /\ Blank # Torn

ASSUME BoundAssumption == MaxErase \in Nat

LBN == 0 .. L - 1
PB == 0 .. P - 1
Unmapped == 65535
Cell == Data \cup {Blank, Torn}

PState == {"free", "live", "stale"}

VARIABLES
  map,      \* LBN -> PB or Unmapped
  pstate,   \* PB -> PState             (pblocks[].state)
  ecount,   \* PB -> Nat                (pblocks[].erase_count)
  medium,   \* PB -> Cell, the blocks below the reserved tail
  tail,     \* the reserved tail: blank, torn, or the tables of a checkpoint
  mounted,  \* the handle is bound by ra8_ftl_mount
  pc,       \* the raw device call that is outstanding, or "idle"
  cur,      \* the physical block that call is about
  at, end,  \* a write in progress: next logical block, and one past the last
  buf,      \* what it writes
  closing,  \* the sync in progress belongs to ra8_ftl_unmount
  synced,   \* history: logical contents at the last mount or completed sync
  touched   \* history: logical blocks written or erased since then

tables == <<map, pstate, ecount>>
request == <<pc, cur, at, end, buf, closing>>
history == <<synced, touched>>
vars == <<tables, medium, tail, mounted, request, history>>

-------------------------------------------------------------------------------
(* The caller's tables and the helpers over them.                          *)

AllBlank == [l \in LBN |-> Blank]
NoMap == [l \in LBN |-> Unmapped]
AllFree == [p \in PB |-> "free"]
NoWear == [p \in PB |-> 0]

\* resetTables: the cold-start tables.
ResetTables ==
  /\ map' = NoMap
  /\ pstate' = AllFree
  /\ ecount' = NoWear

\* readOne, over any map: an unmapped block reads as the erase value.
ReadOne(m, l) == IF m[l] = Unmapped THEN Blank ELSE medium[m[l]]

Contents == [l \in LBN |-> ReadOne(map, l)]

Free(ps) == {p \in PB : ps[p] = "free"}
Stale(ps) == {p \in PB : ps[p] = "stale"}

\* Mutant: any block may be picked, whatever its state.
PickAny(ps, ec) == {p \in PB : \A q \in PB : ec[p] <= ec[q]}

\* pickFree: the least-erased free block, the lowest index among equals.
PickFree(ps, ec) ==
  {p \in Free(ps) : \A q \in Free(ps) :
                      ec[p] < ec[q] \/ (ec[p] = ec[q] /\ p <= q)}

\* The next stale block the loop of reclaimStale stops at, from index i on.
NextStale(ps, i) ==
  {p \in Stale(ps) : p >= i /\ \A q \in Stale(ps) : q >= i => p <= q}

\* validateNative and validateWire: a map entry is in range, no two entries are
\* equal, and the live blocks are exactly the referenced ones.
TablesValid(m, ps) ==
  /\ \A l \in LBN : m[l] # Unmapped => m[l] \in PB
  /\ \A k, l \in LBN : m[k] # Unmapped /\ m[k] = m[l] => k = l
  /\ \A p \in PB : ps[p] = "live" <=> \E l \in LBN : m[l] = p

\* Mutants: the index is off by one; the superseded block stays live.
CommitWriteOffByOne(l, p) ==
  /\ pstate' = [q \in PB |-> IF q = p THEN "live"
                             ELSE IF q = map[l] THEN "stale" ELSE pstate[q]]
  /\ map' = [map EXCEPT ![l] = p + 1]

CommitWriteKeepsOld(l, p) ==
  /\ pstate' = [pstate EXCEPT ![p] = "live"]
  /\ map' = [map EXCEPT ![l] = p]

\* commitWrite: the superseded block becomes stale, the new one live.
CommitWrite(l, p) ==
  /\ pstate' = [q \in PB |-> IF q = p THEN "live"
                             ELSE IF q = map[l] THEN "stale" ELSE pstate[q]]
  /\ map' = [map EXCEPT ![l] = p]

-------------------------------------------------------------------------------
(* The raw device: erase and program either finish or stop part way.  The  *)
(* part that was done may be none of it, or happen to be all of it.        *)

Partial(old, new) == {old, Torn, new}

NoTables(k) == [kind |-> k, map |-> NoMap, pstate |-> AllFree, ecount |-> NoWear]
BlankTail == NoTables("blank")
TornTail == NoTables("torn")
Checkpoint == [kind |-> "ckpt", map |-> map, pstate |-> pstate, ecount |-> ecount]

\* A program of the tail that stopped.  If all of it was done the checkpoint is
\* there, whether or not anyone was told.
TailProgrammed == tail' = Checkpoint /\ synced' = Contents /\ touched' = {}
TailTorn == tail' \in {tail, TornTail} /\ UNCHANGED history

-------------------------------------------------------------------------------
\* Every return from a request, successful or not.
Return ==
  /\ pc' = "idle"
  /\ cur' = 0
  /\ at' = 0
  /\ end' = 0
  /\ buf' = AllBlank
  /\ closing' = FALSE

\* allocBlank up to its first raw call: take a free block, or start reclaiming,
\* or give up with no_mem when no block is free or stale.
AllocBlank(ps, ec) ==
  /\ UNCHANGED closing
  /\ IF Free(ps) # {}
     THEN pc' = "erase" /\ cur' \in PickFree(ps, ec)
     ELSE pc' = "reclaim" /\ cur' \in NextStale(ps, 0)

NoMem(ps) == Free(ps) = {} /\ Stale(ps) = {}

\* devWrite: the bounds check, then writeOne for each block.  Requests that the
\* bounds check refuses, and empty ones, change nothing and are left out.
DevWrite(lba, count, data) ==
  /\ mounted /\ pc = "idle"
  /\ count > 0 /\ count <= L /\ lba <= L - count
  /\ \A p \in PB : ecount[p] < MaxErase
  /\ IF NoMem(pstate)
     THEN Return
     ELSE /\ at' = lba
          /\ end' = lba + count
          /\ buf' = [l \in LBN |-> IF l >= lba /\ l < lba + count THEN data[l] ELSE Blank]
          /\ AllocBlank(pstate, ecount)
  /\ UNCHANGED <<tables, medium, tail, mounted, history>>

\* reclaimStale, one erase: on success the block is free and the loop goes on;
\* after the last stale block allocBlank picks again.  A failure returns with
\* the blocks before this one already reclaimed.
ReclaimStale(ok) ==
  /\ pc = "reclaim"
  /\ UNCHANGED <<map, tail, mounted, history>>
  /\ IF ok
     THEN /\ medium' = [medium EXCEPT ![cur] = Blank]
          /\ ecount' = [ecount EXCEPT ![cur] = @ + 1]
          /\ pstate' = [pstate EXCEPT ![cur] = "free"]
          /\ UNCHANGED <<at, end, buf>>
          /\ IF NextStale(pstate', cur + 1) # {}
             THEN /\ cur' \in NextStale(pstate', cur + 1)
                  /\ UNCHANGED <<pc, closing>>
             ELSE AllocBlank(pstate', ecount')
     ELSE /\ \E c \in Partial(medium[cur], Blank) : medium' = [medium EXCEPT ![cur] = c]
          /\ UNCHANGED <<ecount, pstate>>
          /\ Return

\* Mutant: a free block is trusted to be blank and not erased.
AllocTrustsFree(ok) ==
  /\ pc = "erase"
  /\ ok
  /\ pc' = "program"
  /\ UNCHANGED <<tables, medium, tail, mounted, cur, at, end, buf, closing, history>>

\* allocBlank's own erase of the block it picked.
AllocErase(ok) ==
  /\ pc = "erase"
  /\ UNCHANGED <<map, pstate, tail, mounted, history>>
  /\ IF ok
     THEN /\ medium' = [medium EXCEPT ![cur] = Blank]
          /\ ecount' = [ecount EXCEPT ![cur] = @ + 1]
          /\ pc' = "program"
          /\ UNCHANGED <<cur, at, end, buf, closing>>
     ELSE /\ \E c \in Partial(medium[cur], Blank) : medium' = [medium EXCEPT ![cur] = c]
          /\ UNCHANGED ecount
          /\ Return

\* Mutant: the map is re-pointed before the result of the program is known.
WriteOneEager(ok) ==
  /\ pc = "program"
  /\ UNCHANGED <<ecount, tail, mounted, synced>>
  /\ \E c \in IF ok THEN {buf[at]} ELSE Partial(medium[cur], buf[at]) :
        medium' = [medium EXCEPT ![cur] = c]
  /\ CommitWrite(at, cur)
  /\ touched' = touched \cup {at}
  /\ Return

\* writeOne's program of the blank block; only when it succeeded is the map
\* re-pointed.  Then devWrite goes on to its next block.
WriteOne(ok) ==
  /\ pc = "program"
  /\ UNCHANGED <<ecount, tail, mounted, synced>>
  /\ IF ok
     THEN /\ medium' = [medium EXCEPT ![cur] = buf[at]]
          /\ CommitWrite(at, cur)
          /\ touched' = touched \cup {at}
          /\ IF at + 1 = end \/ NoMem(pstate')
             THEN Return
             ELSE /\ at' = at + 1
                  /\ UNCHANGED <<end, buf>>
                  /\ AllocBlank(pstate', ecount)
     ELSE /\ \E c \in Partial(medium[cur], buf[at]) :
                medium' = [medium EXCEPT ![cur] = c]
          /\ UNCHANGED <<map, pstate, touched>>
          /\ Return

\* devErase: unmapOne for each block of the range; no raw call is made.
DevErase(lba, count) ==
  /\ mounted /\ pc = "idle"
  /\ count > 0 /\ count <= L /\ lba <= L - count
  /\ LET range == lba .. lba + count - 1
     IN  /\ pstate' = [p \in PB |-> IF \E l \in range : map[l] = p THEN "stale" ELSE pstate[p]]
         /\ map' = [l \in LBN |-> IF l \in range THEN Unmapped ELSE map[l]]
         /\ touched' = touched \cup range
  /\ UNCHANGED <<ecount, medium, tail, mounted, request, synced>>

-------------------------------------------------------------------------------
(* The mount lifecycle.                                                    *)

\* ra8_ftl_mount: ra8_ftl_init resets the tables, resolveTail reads the tail.  A
\* blank tail cold-starts, a checkpoint that validates is decoded into the
\* tables, and anything else leaves the handle unbound as it was, as does a
\* failed read of the tail.  (Mounting a handle that is still mounted is the same
\* as losing power while it is idle and mounting again.)
Mount ==
  /\ ~mounted
  /\ \/ /\ tail.kind = "blank"
        /\ ResetTables
     \/ /\ tail.kind = "ckpt"
        /\ TablesValid(tail.map, tail.pstate)
        /\ map' = tail.map
        /\ pstate' = tail.pstate
        /\ ecount' = tail.ecount
  /\ mounted' = TRUE
  /\ synced' = [l \in LBN |-> ReadOne(map', l)]
  /\ touched' = {}
  /\ UNCHANGED <<medium, tail, request>>

\* ra8_ftl_sync up to its first raw call; ra8_ftl_unmount begins the same way.
\* checkpoint_save refuses tables that do not validate.
Sync(unmount) ==
  /\ mounted /\ pc = "idle"
  /\ TablesValid(map, pstate)
  /\ pc' = "tail_erase"
  /\ closing' = unmount
  /\ UNCHANGED <<tables, medium, tail, mounted, cur, at, end, buf, history>>

TailErase(ok) ==
  /\ pc = "tail_erase"
  /\ UNCHANGED <<tables, medium, mounted, history>>
  /\ IF ok
     THEN /\ tail' = BlankTail
          /\ pc' = "tail_program"
          /\ UNCHANGED <<cur, at, end, buf, closing>>
     ELSE /\ tail' \in {tail, TornTail, BlankTail}
          /\ Return

\* The program of the tail and the raw sync after it.  When both succeed an
\* unmount also unbinds the handle; when either fails it stays mounted.
TailProgram(ok) ==
  /\ pc = "tail_program"
  /\ UNCHANGED medium
  /\ Return
  /\ IF ok
     THEN /\ TailProgrammed
          /\ mounted' = ~closing
          /\ IF closing THEN ResetTables ELSE UNCHANGED tables
     ELSE /\ TailProgrammed \/ TailTorn
          /\ UNCHANGED <<tables, mounted>>

\* Power is lost: the tables in SRAM are gone, and an erase or a program that
\* was outstanding may have been done in part.
PowerLoss ==
  /\ mounted
  /\ mounted' = FALSE
  /\ ResetTables
  /\ Return
  /\ \/ /\ pc \in {"reclaim", "erase"}
        /\ \E c \in Partial(medium[cur], Blank) : medium' = [medium EXCEPT ![cur] = c]
        /\ UNCHANGED <<tail, history>>
     \/ /\ pc = "program"
        /\ \E c \in Partial(medium[cur], buf[at]) : medium' = [medium EXCEPT ![cur] = c]
        /\ UNCHANGED <<tail, history>>
     \/ /\ pc = "tail_erase"
        /\ tail' \in {tail, TornTail, BlankTail}
        /\ UNCHANGED <<medium, history>>
     \/ /\ pc = "tail_program"
        /\ TailProgrammed \/ TailTorn
        /\ UNCHANGED medium
     \/ /\ pc = "idle"
        /\ UNCHANGED <<medium, tail, history>>

\* A torn tail is never mounted; the header asks the operator to erase it.
EraseTornTail ==
  /\ ~mounted
  /\ tail.kind = "torn"
  /\ tail' = BlankTail
  /\ UNCHANGED <<tables, medium, mounted, request, history>>

-------------------------------------------------------------------------------
Init ==
  /\ map = NoMap
  /\ pstate = AllFree
  /\ ecount = NoWear
  /\ medium \in [PB -> {Blank, Torn}]
  /\ tail = BlankTail
  /\ mounted = FALSE
  /\ pc = "idle"
  /\ cur = 0
  /\ at = 0
  /\ end = 0
  /\ buf = AllBlank
  /\ closing = FALSE
  /\ synced = AllBlank
  /\ touched = {}

RawCall ==
  \E ok \in BOOLEAN :
    \/ ReclaimStale(ok)
    \/ AllocErase(ok)
    \/ WriteOne(ok)
    \/ TailErase(ok)
    \/ TailProgram(ok)

Next ==
  \/ \E lba \in LBN, count \in 1 .. L, data \in [LBN -> Data] : DevWrite(lba, count, data)
  \/ \E lba \in LBN, count \in 1 .. L : DevErase(lba, count)
  \/ RawCall
  \/ Mount
  \/ \E unmount \in BOOLEAN : Sync(unmount)
  \/ PowerLoss
  \/ EraseTornTail

Spec == Init /\ [][Next]_vars

-------------------------------------------------------------------------------
(* Properties.                                                             *)

Map == [LBN -> PB \cup {Unmapped}]

\* Every variable has its type; the tables of the tail are well formed.
TypeOK ==
  /\ map \in Map
  /\ pstate \in [PB -> PState]
  /\ ecount \in [PB -> Nat]
  /\ medium \in [PB -> Cell]
  /\ tail \in [kind : {"blank", "torn", "ckpt"}, map : Map,
               pstate : [PB -> PState], ecount : [PB -> Nat]]
  /\ mounted \in BOOLEAN
  /\ pc \in {"idle", "reclaim", "erase", "program", "tail_erase", "tail_program"}
  /\ cur \in PB
  /\ at \in LBN
  /\ end \in 0 .. L
  /\ buf \in [LBN -> Data \cup {Blank}]
  /\ closing \in BOOLEAN
  /\ synced \in [LBN -> Cell]
  /\ touched \in SUBSET LBN

\* The header's first two invariants, for the tables and for a checkpoint: map
\* entries are distinct valid indices and the live blocks are exactly the
\* referenced ones.  So checkpoint_save never refuses the tables (validateNative)
\* and a mount never refuses a checkpoint that was written out (validateWire),
\* whatever failed before.
MapLive ==
  /\ TablesValid(map, pstate)
  /\ TablesValid(tail.map, tail.pstate)

\* allocBlank never ends in no_mem: L < P leaves a block that is not live, so a
\* write fails only when the device does.
SpareAvailable == ~NoMem(pstate)

\* writeOne and ra8_ftl_sync program only what reads back blank: the block about
\* to be programmed is erased and not referenced, also after earlier programs
\* that failed, and the tail about to be programmed is erased.
EraseBeforeProgram ==
  /\ pc = "program" => medium[cur] = Blank /\ pstate[cur] = "free"
  /\ pc = "tail_program" => tail = BlankTail

\* No raw call ever changes a block that holds current data, not even one that
\* fails or is cut short by a power loss: the copy-on-write of writeOne and the
\* erases of reclaimStale and allocBlank stay off every mapped block.
LiveDataUntouched ==
  [][\A p \in PB : medium'[p] # medium[p] => \A l \in LBN : map[l] # p]_vars

\* The layer is the block device of BlockStore: a write changes one block or, if
\* it fails, none; and a mount after a power loss finds every block not touched
\* since the last completed sync, unless a later sync was interrupted or failed.
Store == INSTANCE BlockStore
           WITH store   <- Contents,
                durable <- synced,
                up      <- mounted,
                syncing <- pc \in {"tail_erase", "tail_program"},
                lost    <- \/ tail.kind = "torn"
                           \/ tail.kind = "blank" /\ synced # AllBlank
ImplementsStore == Store!Spec

\* ra8_ftl.h on ra8_ftl_mount: a tail holding a checkpoint that loads is resumed
\* "and every logical block written before the last ::ra8_ftl_sync reads back
\* intact".
ResumedIntact ==
  [][~mounted /\ mounted' /\ tail.kind = "ckpt" => Contents' = synced]_vars

\* mount.zig on allErased: a blank tail "has never been programmed, the one
\* condition under which a mount may cold-start without discarding anything".
ColdStartDiscardsNothing ==
  [][~mounted /\ mounted' /\ tail.kind = "blank" => synced = AllBlank]_vars
================================================================================
