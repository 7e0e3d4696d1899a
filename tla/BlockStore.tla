------------------------------ MODULE BlockStore ------------------------------
(***************************************************************************)
(* What the flash translation layer promises to the file system above it:  *)
(* a block device that may be overwritten freely, whose failed writes      *)
(* change nothing, whose contents can be made durable with a sync, and     *)
(* which after a power loss still holds every block that was not touched   *)
(* since the last successful sync.                                         *)
(*                                                                         *)
(* The promise about power loss is the one the code keeps, which is weaker *)
(* than the one its header states: a block that was overwritten or erased  *)
(* after the sync may read back as anything, and a sync that does not      *)
(* finish may cost the whole store.                                        *)
(***************************************************************************)
CONSTANTS LBN,     \* logical block numbers
          Data,    \* block contents a client writes
          Cell,    \* what a block can read back as
          Blank    \* the erase value

VARIABLES store,    \* LBN -> Cell, what reads return while the device is up
          durable,  \* LBN -> Cell, the contents at the last sync or mount
          touched,  \* blocks written or erased since then
          up,       \* the device is mounted
          syncing,  \* a sync is in progress
          lost      \* no usable checkpoint is on the medium

vars == <<store, durable, touched, up, syncing, lost>>

AllBlank == [l \in LBN |-> Blank]

Init ==
  /\ store = AllBlank
  /\ durable = AllBlank
  /\ touched = {}
  /\ up = FALSE
  /\ syncing = FALSE
  /\ lost = FALSE

\* A write that reports success replaces one block; one that fails is a stutter.
Write(l) ==
  /\ up /\ ~syncing
  /\ touched' = touched \cup {l}
  /\ UNCHANGED <<durable, up, syncing, lost>>
  /\ \E v \in Data : store' = [store EXCEPT ![l] = v]

Erase(S) ==
  /\ up /\ ~syncing
  /\ touched' = touched \cup S
  /\ UNCHANGED <<durable, up, syncing, lost>>
  /\ store' = [l \in LBN |-> IF l \in S THEN Blank ELSE store[l]]

BeginSync ==
  /\ up /\ ~syncing
  /\ syncing' = TRUE
  /\ UNCHANGED <<store, durable, touched, up, lost>>

\* Until the sync has succeeded the checkpoint on the medium may come and go.
SyncProgress ==
  /\ syncing
  /\ syncing' \in BOOLEAN
  /\ lost' \in BOOLEAN
  /\ UNCHANGED <<store, durable, touched, up>>

\* A successful sync, which for an unmount also takes the device down.
EndSync ==
  /\ syncing
  /\ syncing' = FALSE
  /\ durable' = store
  /\ touched' = {}
  /\ lost' = FALSE
  /\ up' \in BOOLEAN
  /\ store' = IF up' THEN store ELSE AllBlank

PowerLoss ==
  /\ up' = FALSE
  /\ store' = AllBlank
  /\ syncing' = FALSE
  /\ lost' \in IF syncing THEN BOOLEAN ELSE {lost}
  /\ UNCHANGED <<durable, touched>>

\* Blocks that were not touched since the last sync are found again.  Only when
\* the checkpoint was lost may the device come up empty instead.
Recover ==
  /\ ~up
  /\ up' = TRUE
  /\ store' \in [LBN -> Cell]
  /\ \/ \A l \in LBN \ touched : store'[l] = durable[l]
     \/ lost /\ store' = AllBlank
  /\ durable' = store'
  /\ touched' = {}
  /\ syncing' = FALSE
  /\ lost' = FALSE

\* The operator gives up on a damaged checkpoint.
Abandon ==
  /\ ~up /\ lost
  /\ lost' \in BOOLEAN
  /\ UNCHANGED <<store, durable, touched, up, syncing>>

Next ==
  \/ \E l \in LBN : Write(l)
  \/ \E S \in SUBSET LBN : Erase(S)
  \/ BeginSync
  \/ SyncProgress
  \/ EndSync
  \/ PowerLoss
  \/ Recover
  \/ Abandon

Spec == Init /\ [][Next]_vars
===============================================================================
