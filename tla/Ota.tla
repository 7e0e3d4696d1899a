---------------------------------- MODULE Ota ----------------------------------
(***************************************************************************)
(* The over-the-air update of libs/ra8_ota: a manifest is fetched, the     *)
(* image is streamed into the inactive bank of the code MRAM, read back    *)
(* and verified, and the inactive bank is made the one to boot.            *)
(*                                                                         *)
(* Banks are sequences of chunks.  A digest is abstracted to the image it  *)
(* is the digest of and a signature to whether it verifies; the network    *)
(* may deliver anything.  Every call on the network and on the flash may   *)
(* fail, and power may be lost at each of them.  The interfaces are the    *)
(* integrator's: the inactive bank of the configuration is the one the     *)
(* part is not running from, and the reset hook resets.  A short read,     *)
(* which the next turn of the download loop reports, is a failed chunk.    *)
(***************************************************************************)
EXTENDS Integers, Sequences

CONSTANTS B,          \* chunks in a bank
          Chunk,      \* contents of a chunk
          Erased,     \* an erased chunk
          Torn,       \* a chunk erased or programmed in part
          Manifests,  \* the manifests that decode: [image, signed]
          Factory     \* the image the part was shipped with

ASSUME OtaAssumption ==
  /\ B \in Nat \ {0}
  /\ Erased \notin Chunk /\ Torn \notin Chunk /\ Erased # Torn
  /\ Manifests \subseteq [image : Seq(Chunk) \ {<<>>}, signed : BOOLEAN]
  /\ Factory \in [1 .. B -> Chunk]

Bank == 0 .. 1
Pos == 1 .. B
Cell == Chunk \cup {Erased, Torn}
NoManifest == [image |-> <<>>, signed |-> FALSE]
FullUpdateSteps == 7   \* impl.state.count, the bound of ra8_ota_run_full_update

VARIABLES
  initialized,  \* g_ra8_ota_initialized
  state,        \* g_ra8_ota_state
  manifest,     \* s_manifest
  valid,        \* s_manifest_valid
  done,         \* s_bytes_done, in chunks
  pc,           \* the flash or network call that is outstanding, or "idle"
  arg,          \* the manifest of the download in progress
  full,         \* steps taken by ra8_ota_run_full_update plus one; 0 if it is not running
  bank,         \* the two banks
  active,       \* the bank the part runs from
  startup,      \* the bank it will boot
  misreported   \* history: set_startup has reported an error after it switched

module == <<initialized, state, manifest, valid, done>>
flash == <<bank, active, startup, misreported>>
vars == <<module, pc, arg, full, flash>>

inactive == 1 - active
Size(m) == Len(m.image)

-------------------------------------------------------------------------------
(* Lifecycle.                                                              *)

Ready == initialized /\ pc = "idle"

\* ra8_ota_init with a configuration that validates; s_manifest is left alone.
OtaInit ==
  /\ ~initialized
  /\ initialized' = TRUE
  /\ state' = "idle"
  /\ valid' = FALSE
  /\ done' = 0
  /\ UNCHANGED <<manifest, pc, arg, full, flash>>

\* ra8_ota_deinit, from the thread that drives the module.
OtaDeinit ==
  /\ pc = "idle" /\ full = 0
  /\ initialized' = FALSE
  /\ state' = "idle"
  /\ valid' = FALSE
  /\ done' = 0
  /\ UNCHANGED <<manifest, pc, arg, full, flash>>

-------------------------------------------------------------------------------
(* The four transitions.                                                   *)

\* ra8_ota_check_for_update up to the fetch.
CheckForUpdate ==
  /\ Ready /\ state = "idle"
  /\ state' = "checking"
  /\ pc' = "fetch"
  /\ UNCHANGED <<initialized, manifest, valid, done, arg, flash>>

\* fetchManifestPayload and the decoding: any manifest that decodes, or none.
FetchManifestPayload(ok) ==
  IF ok THEN manifest' \in Manifests /\ valid' = TRUE ELSE UNCHANGED <<manifest, valid>>

\* The rest of ra8_ota_check_for_update.
FetchManifest(ok) ==
  /\ pc = "fetch"
  /\ FetchManifestPayload(ok)
  /\ state' = IF ok THEN "idle" ELSE "failed"
  /\ pc' = "idle"
  /\ UNCHANGED <<initialized, done, arg, full, flash>>

\* ra8_ota_download_to_inactive_bank up to its first flash or network call.
Download(m) ==
  /\ Ready /\ state \in {"idle", "downloading"}
  /\ IF Size(m) > B
     THEN state' = "failed" /\ UNCHANGED <<pc, arg>>
     ELSE /\ pc' = IF done = 0 THEN "erase" ELSE "open"
          /\ arg' = m
          /\ UNCHANGED state
  /\ UNCHANGED <<initialized, manifest, valid, done, flash>>

\* What an erase of the first size chunks leaves if it stops on the way.
ErasedInPart(size) ==
  { [i \in Pos |-> IF i <= p[1] THEN Erased ELSE IF i <= p[2] THEN Torn ELSE bank[inactive][i]] :
    p \in {q \in (0 .. size) \X (0 .. size) : q[2] \in {q[1], q[1] + 1}} }

Erase(size) == [i \in Pos |-> IF i <= size THEN Erased ELSE bank[inactive][i]]

\* Mutant: the last chunk of the image is not erased.
PrepareBankShort(ok) ==
  /\ pc = "erase" /\ ok
  /\ bank' = [bank EXCEPT ![inactive] = Erase(Size(arg) - 1)]
  /\ pc' = "open"
  /\ UNCHANGED <<module, arg, full, active, startup, misreported>>

\* prepareBank: erase as much of the inactive bank as the image needs.
PrepareBank(ok) ==
  /\ pc = "erase"
  /\ \E b \in IF ok THEN {Erase(Size(arg))} ELSE ErasedInPart(Size(arg)) :
       bank' = [bank EXCEPT ![inactive] = b]
  /\ pc' = IF ok THEN "open" ELSE "idle"
  /\ state' = IF ok THEN state ELSE "failed"
  /\ UNCHANGED <<initialized, manifest, valid, done, arg, full, active, startup, misreported>>

\* The test of the download loop, d chunks being done.
LoopOrVerify(d) ==
  /\ pc' = IF d < Size(arg) THEN "chunk" ELSE "idle"
  /\ state' = IF d < Size(arg) THEN "downloading" ELSE "verifying"

Fail == pc' = "idle" /\ state' = "failed"

\* net.open of the image URL.
OpenImage(ok) ==
  /\ pc = "open"
  /\ IF ok THEN LoopOrVerify(done) ELSE Fail
  /\ UNCHANGED <<initialized, manifest, valid, done, arg, full, flash>>

\* Mutant: the loop runs one chunk too far.
DownloadChunkPast(ok) ==
  /\ pc = "chunk" /\ ok
  /\ \E c \in Chunk : bank' = [bank EXCEPT ![inactive][done + 1] = c]
  /\ done' = done + 1
  /\ LoopOrVerify(done)
  /\ UNCHANGED <<initialized, manifest, valid, arg, full, active, startup, misreported>>

\* downloadChunk: whatever the network delivered is programmed.  It may fail
\* before, during and after the program.
DownloadChunk(ok) ==
  /\ pc = "chunk"
  /\ \E c \in IF ok THEN Chunk ELSE {bank[inactive][done + 1], Torn} \cup Chunk :
       bank' = [bank EXCEPT ![inactive][done + 1] = c]
  /\ IF ok THEN done' = done + 1 /\ LoopOrVerify(done + 1) ELSE done' = done /\ Fail
  /\ UNCHANGED <<initialized, manifest, valid, arg, full, active, startup, misreported>>

\* The bank as rehashBank reads it has the digest of the image; what lies past the
\* bank never completes an image.
Holds(b, image) == Len(image) <= B /\ \A i \in 1 .. Len(image) : bank[b][i] = image[i]

\* Mutant: the signature is checked over the manifest but not the digest.
VerifyNoDigest(m) ==
  /\ Ready /\ state = "verifying"
  /\ state' = IF m.signed THEN "committing" ELSE "failed"
  /\ UNCHANGED <<initialized, manifest, valid, done, pc, arg, flash>>

\* ra8_ota_verify_signature: the bank as read back against a manifest, which need
\* not be the one that was downloaded.  Any call on the way may fail.
Verify(m) ==
  /\ Ready /\ state = "verifying"
  /\ state' \in IF Holds(inactive, m.image) /\ m.signed THEN {"committing", "failed"}
                                                        ELSE {"failed"}
  /\ UNCHANGED <<initialized, manifest, valid, done, pc, arg, flash>>

\* Mutant: the bank is committed as soon as it was downloaded.
CommitEarly ==
  /\ Ready /\ state \in {"verifying", "committing"}
  /\ startup' = inactive
  /\ state' = "done"
  /\ pc' = "reset"
  /\ UNCHANGED <<initialized, manifest, valid, done, arg, bank, active, misreported>>

\* Mutant: the commit returns without the reset.
CommitNoReset ==
  /\ Ready /\ state = "committing"
  /\ startup' = inactive
  /\ state' = "done"
  /\ UNCHANGED <<initialized, manifest, valid, done, pc, arg, bank, active, misreported>>

\* ra8_ota_commit_and_reboot: flash.set_startup, then the reset hook.  The driver's
\* ra8_flash_set_startup_area may write the selection and still return an error, of
\* leaving the programming mode.
Commit ==
  /\ Ready /\ state = "committing"
  /\ \/ /\ startup' = inactive
        /\ state' = "done"
        /\ pc' = "reset"
        /\ UNCHANGED misreported
     \/ /\ Fail
        /\ startup' \in {startup, inactive}
        /\ misreported' = (misreported \/ startup' # startup)
  /\ UNCHANGED <<initialized, manifest, valid, done, arg, bank, active>>

-------------------------------------------------------------------------------
(* The drivers.                                                            *)

\* Mutant: a download that finished is left alone.
StepDispatchNoVerify ==
  \/ state = "idle" /\ ~valid /\ CheckForUpdate
  \/ state \in {"idle", "checking", "downloading"} /\ valid /\ Download(manifest)
  \/ state = "verifying" /\ Ready /\ UNCHANGED <<module, pc, arg, flash>>
  \/ state = "committing" /\ Commit

\* stepDispatch: the transition ra8_ota_run_step makes, with s_manifest.
StepDispatch ==
  \/ state = "idle" /\ ~valid /\ CheckForUpdate
  \/ state \in {"idle", "checking", "downloading"} /\ valid /\ Download(manifest)
  \/ state = "verifying" /\ Verify(manifest)
  \/ state = "committing" /\ Commit

\* The caller makes one of the calls, or ra8_ota_run_step; which manifest it passes
\* is up to it.
Call ==
  /\ full = 0
  /\ UNCHANGED full
  /\ \/ CheckForUpdate
     \/ \E m \in Manifests : Download(m) \/ Verify(m)
     \/ Commit
     \/ StepDispatch

\* ra8_ota_run_full_update is called.
BeginFullUpdate ==
  /\ Ready /\ full = 0
  /\ full' = 1
  /\ UNCHANGED <<module, pc, arg, flash>>

\* One turn of its loop, and its return.
FullUpdateStep ==
  /\ full \in 1 .. FullUpdateSteps
  /\ state \notin {"done", "failed"}
  /\ StepDispatch
  /\ full' = full + 1

FullUpdateReturn ==
  /\ Ready
  /\ full > FullUpdateSteps \/ (full > 0 /\ state \in {"done", "failed"})
  /\ full' = 0
  /\ UNCHANGED <<module, pc, arg, flash>>

\* The part boots the startup bank; the RAM is cleared.
Reboot ==
  /\ initialized' = FALSE
  /\ state' = "idle"
  /\ manifest' = NoManifest
  /\ valid' = FALSE
  /\ done' = 0
  /\ pc' = "idle"
  /\ arg' = NoManifest
  /\ full' = 0
  /\ active' = startup
  /\ UNCHANGED <<startup, misreported>>

SystemReset == pc = "reset" /\ Reboot /\ UNCHANGED bank

\* Power is lost, during an erase or a program too.
PowerLoss ==
  /\ initialized
  /\ Reboot
  /\ \/ UNCHANGED bank
     \/ /\ pc = "erase"
        /\ \E b \in ErasedInPart(Size(arg)) : bank' = [bank EXCEPT ![inactive] = b]
     \/ /\ pc = "chunk"
        /\ \E c \in Chunk \cup {Torn} : bank' = [bank EXCEPT ![inactive][done + 1] = c]

Init ==
  /\ initialized = FALSE
  /\ state = "idle"
  /\ manifest = NoManifest
  /\ valid = FALSE
  /\ done = 0
  /\ pc = "idle"
  /\ arg = NoManifest
  /\ full = 0
  /\ bank = [b \in Bank |-> IF b = 0 THEN Factory ELSE [i \in Pos |-> Erased]]
  /\ active = 0
  /\ startup = 0
  /\ misreported = FALSE

\* The outstanding flash or network call returns.
CallReturns ==
  \E ok \in BOOLEAN : FetchManifest(ok) \/ PrepareBank(ok) \/ OpenImage(ok) \/ DownloadChunk(ok)

Next ==
  \/ OtaInit \/ OtaDeinit
  \/ Call
  \/ CallReturns
  \/ BeginFullUpdate \/ FullUpdateStep \/ FullUpdateReturn
  \/ SystemReset \/ PowerLoss

\* A call that was made runs on: the code never waits inside the module, and the
\* interfaces return.
Spec ==
  /\ Init
  /\ [][Next]_vars
  /\ WF_vars(CallReturns \/ FullUpdateStep \/ FullUpdateReturn \/ SystemReset)

-------------------------------------------------------------------------------
(* Properties.                                                             *)

\* Every variable has its type; the download never runs past the bank.
TypeOK ==
  /\ initialized \in BOOLEAN
  /\ state \in {"idle", "checking", "downloading", "verifying", "committing", "done", "failed"}
  /\ manifest \in Manifests \cup {NoManifest}
  /\ valid \in BOOLEAN
  /\ done \in 0 .. B
  /\ pc \in {"idle", "fetch", "erase", "open", "chunk", "reset"}
  /\ arg \in Manifests \cup {NoManifest}
  /\ full \in 0 .. FullUpdateSteps + 1
  /\ bank \in [Bank -> [Pos -> Cell]]
  /\ active \in Bank
  /\ startup \in Bank
  /\ misreported \in BOOLEAN

Authentic == {Factory} \cup {m.image : m \in {k \in Manifests : k.signed}}

\* What waits to be committed is, still, exactly an image a valid signature was
\* given for, whichever manifest was downloaded and whatever the server sent.
CommitsVerified ==
  state \in {"committing", "done"} => \E image \in Authentic : Holds(inactive, image)

\* The bank the part boots always holds such an image: an update that fails, or
\* loses power anywhere, leaves a bootable part, provided that a set_startup that
\* reports an error did not switch.
BootsVerified == ~misreported => \E image \in Authentic : Holds(startup, image)

\* The selection of ra8_ota_commit_and_reboot only ever moves to a bank that holds
\* such an image, and no call, failed, cut short or complete, writes to the bank that
\* is selected, again provided that a set_startup that reports an error did not switch.
BootImageKept ==
  [][/\ startup' # startup => \E image \in Authentic : Holds(startup', image)
     /\ ~misreported => bank'[startup] = bank[startup]]_vars

\* A chunk is only ever programmed where the bank is erased, in whichever state the
\* last update, attempt or reset left it.
ProgramsErased ==
  pc \in {"open", "chunk"} => \A i \in done + 1 .. Size(arg) : bank[inactive][i] = Erased

\* ra8_ota.h on ra8_ota_run_full_update: it ends with the module done or failed,
\* unless the part resets first.
FullUpdateSettles == full > 0 ~> full = 0 /\ (state = "failed" \/ ~initialized)

\* ra8_ota.h on the download: "it can resume cleanly if the caller re-invokes it
\* after a partial download".
PartialDownloadResumes ==
  Ready /\ 0 < done /\ done < Size(arg) => state \in {"idle", "downloading"}

\* ra8_ota.h on the banks: 'the other bank ("inactive") is free to be erased and
\* re-programmed'.
InactiveIsFree == pc \in {"erase", "chunk"} => startup = active
================================================================================
