------------------------------- MODULE OtaProofs -------------------------------
(***************************************************************************)
(* Proofs about Ota, for every bank size, every set of chunks and every    *)
(* set of manifests the network may deliver.                               *)
(***************************************************************************)
EXTENDS Ota, TLAPS

\* Where the module is between two calls, and what the outstanding call works on.
ControlInv ==
  /\ valid => manifest \in Manifests
  /\ pc \in {"erase", "open", "chunk"} => arg \in Manifests /\ Size(arg) <= B
  /\ state \in {"idle", "checking"} => done = 0
  /\ ~initialized => pc = "idle" /\ state = "idle"
  /\ pc \in {"erase", "open"} => state = "idle"
  /\ pc = "chunk" => done < Size(arg)
  /\ pc = "chunk" <=> state = "downloading"
  /\ pc = "fetch" <=> state = "checking"
  /\ pc = "reset" <=> state = "done"

\* The part boots the bank it runs from until a commit, and then the other one.
SwitchInv ==
  ~misreported => startup = IF state = "done" THEN inactive ELSE active

DataInv == SwitchInv /\ CommitsVerified /\ BootsVerified /\ ProgramsErased

IInv == TypeOK /\ ControlInv /\ DataInv

\* The transitions of the state machine, whoever drives it.
Transition ==
  \/ CheckForUpdate
  \/ \E m \in Manifests : Download(m)
  \/ \E m \in Manifests \cup {NoManifest} : Verify(m)
  \/ Commit

-------------------------------------------------------------------------------
\* A manifest has a size, and it is positive if it decoded.
LEMMA SizeNat ==
  /\ \A m \in Manifests : Size(m) \in Nat \ {0}
  /\ Size(NoManifest) = 0
  /\ ~NoManifest.signed
  <1>1. \A m \in Manifests : Size(m) \in Nat \ {0}
    <2> SUFFICES ASSUME NEW m \in Manifests PROVE Size(m) \in Nat \ {0}
      OBVIOUS
    <2>1. m.image \in Seq(Chunk) /\ m.image # <<>>
      BY OtaAssumption
    <2> QED BY <2>1 DEF Size
  <1> QED BY <1>1 DEF Size, NoManifest

\* The inactive bank is the other one.
LEMMA OtherBank ==
  ASSUME active \in Bank
  PROVE  inactive \in Bank /\ inactive # active
BY DEF Bank, inactive

\* Both drivers only make transitions of the state machine.
LEMMA DriversMakeTransitions ==
  ASSUME IInv, Call \/ FullUpdateStep
  PROVE  Transition /\ full' \in 0 .. FullUpdateSteps + 1
  <1>1. StepDispatch => Transition
    BY DEF StepDispatch, Transition, IInv, TypeOK, ControlInv
  <1>2. CASE Call
    <2>1. full' = full
      BY <1>2 DEF Call
    <2>2. Transition
      BY <1>1, <1>2 DEF Call, Transition
    <2> QED BY <2>1, <2>2 DEF IInv, TypeOK
  <1>3. CASE FullUpdateStep
    BY <1>1, <1>3 DEF FullUpdateStep, FullUpdateSteps
  <1> QED BY <1>2, <1>3

-------------------------------------------------------------------------------
\* What an erase leaves in the inactive bank, complete or not, are cells.
LEMMA ErasedInPartCells ==
  ASSUME TypeOK, NEW size \in Nat
  PROVE  /\ Erase(size) \in [Pos -> Cell]
         /\ \A b \in ErasedInPart(size) : b \in [Pos -> Cell]
  <1>1. bank[inactive] \in [Pos -> Cell]
    BY OtherBank DEF TypeOK
  <1>2. Erase(size) \in [Pos -> Cell]
    BY <1>1 DEF Erase, Cell
  <1>3. ASSUME NEW b \in ErasedInPart(size)
        PROVE  b \in [Pos -> Cell]
    <2>1. PICK p \in {q \in (0 .. size) \X (0 .. size) : q[2] \in {q[1], q[1] + 1}} :
            b = [i \in Pos |-> IF i <= p[1] THEN Erased
                               ELSE IF i <= p[2] THEN Torn ELSE bank[inactive][i]]
      BY <1>3 DEF ErasedInPart
    <2> QED BY <1>1, <2>1 DEF Cell
  <1> QED BY <1>2, <1>3

\* The initial states.
LEMMA InitInv == Init => IInv
  <1> SUFFICES ASSUME Init PROVE IInv
    OBVIOUS
  <1> USE DEF Init
  <1>1. TypeOK
    <2>1. bank \in [Bank -> [Pos -> Cell]]
      <3>1. Factory \in [Pos -> Cell] /\ [i \in Pos |-> Erased] \in [Pos -> Cell]
        BY OtaAssumption DEF Pos, Cell
      <3>2. PICK e \in [Pos -> Cell] : e = [i \in Pos |-> Erased]
        BY <3>1
      <3>3. bank = [b \in Bank |-> IF b = 0 THEN Factory ELSE e]
        BY <3>2, Zenon
      <3> QED BY <3>1, <3>3
    <2>2. initialized \in BOOLEAN /\ valid \in BOOLEAN /\ misreported \in BOOLEAN
      BY Zenon
    <2>3. done \in 0 .. B /\ full \in 0 .. FullUpdateSteps + 1 /\ active \in Bank /\ startup \in Bank
      BY OtaAssumption DEF Bank, FullUpdateSteps
    <2> QED BY <2>1, <2>2, <2>3, Zenon DEF TypeOK
  <1>2. ControlInv
    BY DEF ControlInv
  <1>3. SwitchInv /\ CommitsVerified /\ ProgramsErased
    BY DEF SwitchInv, CommitsVerified, ProgramsErased
  <1>4. BootsVerified
    <2>1. Factory \in Authentic
      BY DEF Authentic
    <2>2. Len(Factory) = B /\ bank[startup] = Factory
      BY OtaAssumption DEF Bank
    <2>3. Holds(startup, Factory)
      BY <2>2, OtaAssumption DEF Holds
    <2> QED BY <2>1, <2>3 DEF BootsVerified
  <1> QED BY <1>1, <1>2, <1>3, <1>4 DEF IInv, DataInv

-------------------------------------------------------------------------------
\* A step that leaves the flash alone keeps what is known about it, unless it starts
\* a download, passes a verification or commits.
LEMMA FlashUnchanged ==
  ASSUME IInv, UNCHANGED flash,
         state' \in {"committing", "done"} => state' = state,
         state = "done" => state' = "done",
         pc' \in {"open", "chunk"} => pc \in {"open", "chunk"} /\ done' = done /\ arg' = arg
  PROVE  DataInv'
  <1> USE DEF flash
  <1>1. SwitchInv'
    BY DEF SwitchInv, IInv, DataInv, inactive
  <1>2. \A b, image : Holds(b, image)' <=> Holds(b, image)
    BY DEF Holds
  <1>3. CommitsVerified'
    BY <1>2 DEF CommitsVerified, IInv, DataInv, inactive, Holds
  <1>4. BootsVerified'
    BY <1>2 DEF BootsVerified, IInv, DataInv, Holds
  <1>5. ProgramsErased'
    BY DEF ProgramsErased, IInv, DataInv, inactive
  <1> QED BY <1>1, <1>3, <1>4, <1>5 DEF DataInv

\* ra8_ota_init, ra8_ota_deinit and the loop of ra8_ota_run_full_update around its
\* steps.
LEMMA LifecycleInv ==
  ASSUME IInv, OtaInit \/ OtaDeinit \/ BeginFullUpdate \/ FullUpdateReturn
  PROVE  IInv'
  <1>1. TypeOK'
    <2>1. CASE OtaInit \/ OtaDeinit
      <3>1. /\ state' = "idle" /\ done' = 0 /\ UNCHANGED <<manifest, pc, arg, full, flash>>
            /\ initialized' \in BOOLEAN /\ valid' \in BOOLEAN
        BY <2>1, Zenon DEF OtaInit, OtaDeinit
      <3> QED BY <3>1, OtaAssumption DEF IInv, TypeOK, flash
    <2>2. CASE BeginFullUpdate \/ FullUpdateReturn
      BY <2>2 DEF BeginFullUpdate, FullUpdateReturn, IInv, TypeOK, module, flash, FullUpdateSteps
    <2> QED BY <2>1, <2>2
  <1>2. ControlInv'
    <2>1. CASE OtaInit \/ OtaDeinit
      <3>1. /\ pc' = "idle" /\ state' = "idle" /\ valid' = FALSE /\ done' = 0
        BY <2>1 DEF OtaInit, OtaDeinit, IInv, ControlInv
      <3> QED BY <3>1 DEF ControlInv
    <2>2. CASE BeginFullUpdate \/ FullUpdateReturn
      <3>1. UNCHANGED <<module, pc, arg>>
        BY <2>2 DEF BeginFullUpdate, FullUpdateReturn
      <3> QED BY <3>1 DEF IInv, ControlInv, module, Size
    <2> QED BY <2>1, <2>2
  <1>3. DataInv'
    <2>1. UNCHANGED <<flash, arg, pc>> /\ state' \in {state, "idle"}
      BY DEF OtaInit, OtaDeinit, BeginFullUpdate, FullUpdateReturn, module
    <2>2. pc = "idle"
      BY DEF OtaInit, OtaDeinit, BeginFullUpdate, FullUpdateReturn, Ready, IInv, ControlInv
    <2>3. state # "done"
      BY <2>2 DEF IInv, ControlInv
    <2> QED BY <2>1, <2>2, <2>3, FlashUnchanged
  <1> QED BY <1>1, <1>2, <1>3 DEF IInv

\* ra8_ota_check_for_update.
LEMMA CheckInv ==
  ASSUME IInv, full' \in 0 .. FullUpdateSteps + 1,
         CheckForUpdate \/ \E ok \in BOOLEAN : FetchManifest(ok)
  PROVE  IInv'
  <1>1. TypeOK'
    BY DEF IInv, TypeOK, CheckForUpdate, FetchManifest, FetchManifestPayload, flash
  <1>2. ControlInv'
    BY DEF IInv, TypeOK, ControlInv, CheckForUpdate, FetchManifest, FetchManifestPayload, flash, Ready
  <1>3. DataInv'
    <2>1. /\ UNCHANGED flash
          /\ state' \in {"checking", "idle", "failed"}
          /\ pc' \in {"fetch", "idle"}
          /\ pc \in {"fetch", "idle"}
      BY DEF CheckForUpdate, FetchManifest, Ready
    <2>2. state # "done"
      BY <2>1 DEF IInv, ControlInv
    <2> QED BY <2>1, <2>2, FlashUnchanged
  <1> QED BY <1>1, <1>2, <1>3 DEF IInv

\* ra8_ota_download_to_inactive_bank up to the erase of the bank.
LEMMA DownloadInv ==
  ASSUME IInv, full' \in 0 .. FullUpdateSteps + 1, NEW m \in Manifests, Download(m)
  PROVE  IInv'
  <1>1. pc = "idle" /\ state = "idle" /\ done = 0 /\ initialized
    BY DEF Download, Ready, IInv, ControlInv
  <1>2. \/ state' = "failed" /\ UNCHANGED <<pc, arg>>
        \/ Size(m) <= B /\ pc' = "erase" /\ arg' = m /\ UNCHANGED state
    BY <1>1, SizeNat, OtaAssumption DEF Download
  <1>3. UNCHANGED <<initialized, manifest, valid, done, flash>>
    BY DEF Download
  <1>4. TypeOK'
    BY <1>1, <1>2, <1>3 DEF IInv, TypeOK, flash
  <1>5. ControlInv'
    BY <1>1, <1>2, <1>3 DEF IInv, ControlInv, Size
  <1>6. DataInv'
    BY <1>1, <1>2, <1>3, FlashUnchanged
  <1> QED BY <1>4, <1>5, <1>6 DEF IInv

\* ra8_ota_verify_signature: a bank is passed on to be committed only if it holds
\* the image of a manifest whose signature verifies.
LEMMA VerifyInv ==
  ASSUME IInv, full' \in 0 .. FullUpdateSteps + 1,
         NEW m \in Manifests \cup {NoManifest}, Verify(m)
  PROVE  IInv'
  <1>1. /\ pc = "idle" /\ state = "verifying" /\ initialized
        /\ state' \in {"committing", "failed"}
        /\ state' = "committing" => Holds(inactive, m.image) /\ m.signed
        /\ UNCHANGED <<initialized, manifest, valid, done, pc, arg, flash>>
    BY DEF Verify, Ready
  <1>2. TypeOK'
    BY <1>1 DEF IInv, TypeOK, flash
  <1>3. ControlInv'
    BY <1>1 DEF IInv, ControlInv
  <1>4. CASE state' = "failed"
    BY <1>1, <1>2, <1>3, <1>4, FlashUnchanged DEF IInv
  <1>5. CASE state' = "committing"
    <2> USE DEF flash
    <2>1. m \in Manifests /\ m.image \in Authentic
      BY <1>1, <1>5, SizeNat DEF Authentic
    <2>2. CommitsVerified'
      BY <1>1, <2>1, <1>5 DEF CommitsVerified, Holds, inactive
    <2>3. SwitchInv'
      BY <1>1, <1>5 DEF SwitchInv, IInv, DataInv, inactive
    <2>4. BootsVerified'
      BY <1>1 DEF BootsVerified, Holds, IInv, DataInv
    <2>5. ProgramsErased'
      BY <1>1 DEF ProgramsErased
    <2> QED BY <1>2, <1>3, <2>2, <2>3, <2>4, <2>5 DEF IInv, DataInv
  <1> QED BY <1>1, <1>4, <1>5

\* ra8_ota_commit_and_reboot: the bank it switches to was verified.
LEMMA CommitInv ==
  ASSUME IInv, full' \in 0 .. FullUpdateSteps + 1, Commit
  PROVE  IInv'
  <1>1. /\ pc = "idle" /\ state = "committing" /\ initialized
        /\ UNCHANGED <<initialized, manifest, valid, done, arg, bank, active>>
    BY DEF Commit, Ready
  <1>2. \/ startup' = inactive /\ state' = "done" /\ pc' = "reset" /\ misreported' = misreported
        \/ /\ pc' = "idle" /\ state' = "failed" /\ startup' \in {startup, inactive}
           /\ misreported' = (misreported \/ startup' # startup)
    BY DEF Commit, Fail
  <1>3. misreported' \in BOOLEAN
    BY <1>2, Zenon DEF IInv, TypeOK
  <1>4. TypeOK'
    BY <1>1, <1>2, <1>3, OtherBank DEF IInv, TypeOK
  <1>5. ControlInv'
    BY <1>1, <1>2 DEF IInv, ControlInv
  <1>6. ~misreported' => ~misreported /\ (state' = "failed" => startup' = startup)
    BY <1>2, Zenon
  <1>7. SwitchInv'
    BY <1>1, <1>2, <1>6 DEF SwitchInv, IInv, DataInv, inactive
  <1>8. PICK image \in Authentic : Holds(inactive, image)
    BY <1>1 DEF IInv, DataInv, CommitsVerified
  <1>9. Holds(inactive, image)'
    BY <1>1, <1>8 DEF Holds, inactive
  <1>10. CommitsVerified'
    BY <1>9 DEF CommitsVerified
  <1>11. BootsVerified'
    <2>1. CASE startup' = inactive
      BY <1>1, <1>8, <2>1 DEF BootsVerified, Holds
    <2>2. CASE startup' = startup
      BY <1>1, <1>6, <2>2 DEF BootsVerified, Holds, IInv, DataInv
    <2> QED BY <1>2, <2>1, <2>2
  <1>12. ProgramsErased'
    BY <1>2 DEF ProgramsErased
  <1> QED BY <1>4, <1>5, <1>7, <1>10, <1>11, <1>12 DEF IInv, DataInv

-------------------------------------------------------------------------------
\* Writing the inactive bank while nothing waits to be committed leaves the bank the
\* part boots as it is.
LEMMA InactiveWritten ==
  ASSUME IInv, NEW b, bank' = [bank EXCEPT ![inactive] = b], state # "done",
         UNCHANGED <<startup, misreported>>
  PROVE  BootsVerified'
  <1> SUFFICES ASSUME ~misreported PROVE \E image \in Authentic : Holds(startup, image)'
    BY DEF BootsVerified, Holds
  <1>1. startup = active
    BY DEF IInv, DataInv, SwitchInv
  <1>2. bank'[startup] = bank[startup]
    BY <1>1, OtherBank DEF IInv, TypeOK
  <1>3. PICK image \in Authentic : Holds(startup, image)
    BY DEF IInv, DataInv, BootsVerified
  <1> QED BY <1>2, <1>3 DEF Holds

\* prepareBank.
LEMMA PrepareBankInv ==
  ASSUME IInv, NEW ok \in BOOLEAN, PrepareBank(ok)
  PROVE  IInv'
  <1>1. /\ pc = "erase" /\ state = "idle" /\ done = 0 /\ initialized
        /\ arg \in Manifests /\ Size(arg) \in Nat \ {0} /\ Size(arg) <= B
    BY SizeNat DEF PrepareBank, IInv, ControlInv
  <1>2. UNCHANGED <<initialized, manifest, valid, done, arg, full, active, startup, misreported>>
    BY DEF PrepareBank
  <1>3. PICK b \in [Pos -> Cell] :
          /\ bank' = [bank EXCEPT ![inactive] = b]
          /\ ok => b = Erase(Size(arg))
    BY <1>1, ErasedInPartCells DEF PrepareBank, IInv
  <1>4. /\ pc' = (IF ok THEN "open" ELSE "idle")
        /\ state' = (IF ok THEN "idle" ELSE "failed")
    BY <1>1 DEF PrepareBank
  <1>5. TypeOK'
    <2>1. bank' \in [Bank -> [Pos -> Cell]]
      BY <1>3, OtherBank DEF IInv, TypeOK
    <2> QED BY <1>2, <1>4, <2>1 DEF IInv, TypeOK
  <1>6. ControlInv'
    BY <1>1, <1>2, <1>4 DEF IInv, ControlInv, Size
  <1>7. SwitchInv'
    BY <1>1, <1>2, <1>4 DEF SwitchInv, IInv, DataInv, inactive
  <1>8. CommitsVerified'
    BY <1>4 DEF CommitsVerified
  <1>9. BootsVerified'
    BY <1>1, <1>2, <1>3, InactiveWritten
  <1>10. ProgramsErased'
    <2> SUFFICES ASSUME pc' \in {"open", "chunk"}, NEW i \in 1 .. Size(arg)
                 PROVE  bank'[inactive][i] = Erased
      BY <1>1, <1>2 DEF ProgramsErased, inactive, Size
    <2>1. bank'[inactive] = Erase(Size(arg))
      BY <1>3, <1>4, OtherBank DEF IInv, TypeOK
    <2>2. i \in Pos
      BY <1>1, OtaAssumption DEF Pos
    <2> QED BY <1>1, <2>1, <2>2 DEF Erase
  <1> QED BY <1>5, <1>6, <1>7, <1>8, <1>9, <1>10 DEF IInv, DataInv

\* The net.open of the download.
LEMMA OpenImageInv ==
  ASSUME IInv, NEW ok \in BOOLEAN, OpenImage(ok)
  PROVE  IInv'
  <1>1. /\ pc = "open" /\ state = "idle" /\ done = 0 /\ initialized
        /\ arg \in Manifests /\ Size(arg) \in Nat \ {0} /\ Size(arg) <= B
    BY SizeNat DEF OpenImage, IInv, ControlInv
  <1>2. UNCHANGED <<initialized, manifest, valid, done, arg, full, flash>>
    BY DEF OpenImage
  <1>3. \/ pc' = "chunk" /\ state' = "downloading"
        \/ pc' = "idle" /\ state' = "failed"
    BY <1>1 DEF OpenImage, LoopOrVerify, Fail
  <1>4. TypeOK'
    BY <1>2, <1>3 DEF IInv, TypeOK, flash
  <1>5. ControlInv'
    BY <1>1, <1>2, <1>3 DEF IInv, ControlInv, Size
  <1>6. DataInv'
    BY <1>1, <1>2, <1>3, FlashUnchanged
  <1> QED BY <1>4, <1>5, <1>6 DEF IInv

\* downloadChunk: it programs the next chunk of the image, inside the bank.
LEMMA DownloadChunkInv ==
  ASSUME IInv, NEW ok \in BOOLEAN, DownloadChunk(ok)
  PROVE  IInv'
  <1>1. /\ pc = "chunk" /\ state = "downloading" /\ initialized
        /\ done \in Nat /\ done < Size(arg)
        /\ arg \in Manifests /\ Size(arg) \in Nat \ {0} /\ Size(arg) <= B
    BY SizeNat, OtaAssumption DEF DownloadChunk, IInv, ControlInv, TypeOK
  <1>2. UNCHANGED <<initialized, manifest, valid, arg, full, active, startup, misreported>>
    BY DEF DownloadChunk
  <1>3. done + 1 \in Pos
    BY <1>1, OtaAssumption DEF Pos
  <1>4. PICK c \in Cell : bank' = [bank EXCEPT ![inactive][done + 1] = c]
    <2>1. bank[inactive][done + 1] \in Cell
      BY <1>3, OtherBank DEF IInv, TypeOK
    <2>2. (IF ok THEN Chunk ELSE {bank[inactive][done + 1], Torn} \cup Chunk) \subseteq Cell
      BY <2>1 DEF Cell
    <2> QED BY <2>2 DEF DownloadChunk
  <1>5. \/ /\ done' = done + 1 /\ done' < Size(arg)
           /\ pc' = "chunk" /\ state' = "downloading"
        \/ /\ done' = done + 1 /\ done' = Size(arg)
           /\ pc' = "idle" /\ state' = "verifying"
        \/ done' = done /\ pc' = "idle" /\ state' = "failed"
    BY <1>1 DEF DownloadChunk, LoopOrVerify, Fail
  <1>6. TypeOK'
    <2>1. bank' \in [Bank -> [Pos -> Cell]]
      BY <1>3, <1>4, OtherBank DEF IInv, TypeOK
    <2>2. done' \in 0 .. B
      BY <1>1, <1>5, OtaAssumption
    <2> QED BY <1>2, <1>5, <2>1, <2>2 DEF IInv, TypeOK
  <1>7. ControlInv'
    BY <1>1, <1>2, <1>5 DEF IInv, ControlInv, Size
  <1>8. SwitchInv'
    BY <1>1, <1>2, <1>5 DEF SwitchInv, IInv, DataInv, inactive
  <1>9. CommitsVerified'
    BY <1>5 DEF CommitsVerified
  <1>10. BootsVerified'
    BY <1>1, <1>2, <1>4, InactiveWritten
  <1>11. ProgramsErased'
    <2> SUFFICES ASSUME pc' \in {"open", "chunk"}, NEW i \in done' + 1 .. Size(arg)
                 PROVE  bank'[inactive][i] = Erased
      BY <1>2 DEF ProgramsErased, inactive, Size
    <2>1. done' = done + 1
      BY <1>5
    <2>2. i \in done + 1 .. Size(arg) /\ i # done + 1 /\ i \in Pos
      BY <1>1, <2>1, OtaAssumption DEF Pos
    <2>3. bank[inactive][i] = Erased
      BY <1>1, <2>2 DEF IInv, DataInv, ProgramsErased
    <2> QED BY <1>3, <1>4, <2>2, <2>3, OtherBank DEF IInv, TypeOK
  <1> QED BY <1>6, <1>7, <1>8, <1>9, <1>10, <1>11 DEF IInv, DataInv

-------------------------------------------------------------------------------
\* The part boots a bank that holds what BootsVerified says.
LEMMA RebootInv ==
  ASSUME IInv, Reboot, bank' \in [Bank -> [Pos -> Cell]], BootsVerified'
  PROVE  IInv'
  <1>1. /\ state' = "idle" /\ manifest' = NoManifest /\ done' = 0 /\ pc' = "idle"
        /\ arg' = NoManifest /\ full' = 0
        /\ active' = startup /\ startup' = startup /\ misreported' = misreported
    BY DEF Reboot
  <1>2. initialized' \in BOOLEAN /\ valid' \in BOOLEAN /\ ~valid' /\ ~initialized'
    BY Zenon DEF Reboot
  <1>3. TypeOK'
    BY <1>1, <1>2, OtaAssumption DEF IInv, TypeOK, FullUpdateSteps
  <1>4. ControlInv'
    BY <1>1, <1>2 DEF ControlInv
  <1>5. SwitchInv' /\ CommitsVerified' /\ ProgramsErased'
    BY <1>1 DEF SwitchInv, CommitsVerified, ProgramsErased
  <1> QED BY <1>3, <1>4, <1>5 DEF IInv, DataInv

\* A reset, and a power loss anywhere, during an erase or a program too.
LEMMA ResetInv ==
  ASSUME IInv, SystemReset \/ PowerLoss
  PROVE  IInv'
  <1>1. Reboot /\ UNCHANGED <<startup, misreported>>
    BY DEF SystemReset, PowerLoss, Reboot
  <1>2. CASE UNCHANGED bank
    BY <1>1, <1>2, RebootInv DEF IInv, TypeOK, DataInv, BootsVerified, Holds
  <1>3. ASSUME NEW b \in [Pos -> Cell], bank' = [bank EXCEPT ![inactive] = b], state # "done"
        PROVE  IInv'
    <2>1. bank' \in [Bank -> [Pos -> Cell]]
      BY <1>3, OtherBank DEF IInv, TypeOK
    <2>2. BootsVerified'
      BY <1>1, <1>3, InactiveWritten
    <2> QED BY <1>1, <2>1, <2>2, RebootInv
  <1>4. CASE PowerLoss /\ pc = "erase" /\
             \E b \in ErasedInPart(Size(arg)) : bank' = [bank EXCEPT ![inactive] = b]
    <2>1. Size(arg) \in Nat /\ state # "done"
      BY <1>4, SizeNat DEF IInv, ControlInv
    <2> QED BY <1>3, <1>4, <2>1, ErasedInPartCells DEF IInv
  <1>5. CASE PowerLoss /\ pc = "chunk" /\
             \E c \in Chunk \cup {Torn} : bank' = [bank EXCEPT ![inactive][done + 1] = c]
    <2>1. state # "done"
      BY <1>5 DEF IInv, ControlInv
    <2>2. PICK c \in Cell : bank' = [bank EXCEPT ![inactive][done + 1] = c]
      BY <1>5 DEF Cell
    <2>3. [bank[inactive] EXCEPT ![done + 1] = c] \in [Pos -> Cell]
      BY OtherBank DEF IInv, TypeOK
    <2> QED BY <1>3, <2>1, <2>2, <2>3
  <1> QED BY <1>2, <1>4, <1>5 DEF SystemReset, PowerLoss

-------------------------------------------------------------------------------
\* Every step keeps the inductive invariant.
LEMMA NextInv == IInv /\ [Next]_vars => IInv'
  <1> SUFFICES ASSUME IInv, [Next]_vars PROVE IInv'
    OBVIOUS
  <1>1. CASE OtaInit \/ OtaDeinit \/ BeginFullUpdate \/ FullUpdateReturn
    BY <1>1, LifecycleInv
  <1>2. CASE Call \/ FullUpdateStep
    BY <1>2, DriversMakeTransitions, CheckInv, DownloadInv, VerifyInv, CommitInv DEF Transition
  <1>3. CASE CallReturns
    <2>1. PICK ok \in BOOLEAN :
            FetchManifest(ok) \/ PrepareBank(ok) \/ OpenImage(ok) \/ DownloadChunk(ok)
      BY <1>3 DEF CallReturns
    <2>2. CASE FetchManifest(ok)
      <3>1. full' \in 0 .. FullUpdateSteps + 1
        BY <2>2 DEF FetchManifest, IInv, TypeOK
      <3> QED BY <2>2, <3>1, CheckInv
    <2> QED BY <2>1, <2>2, PrepareBankInv, OpenImageInv, DownloadChunkInv
  <1>4. CASE SystemReset \/ PowerLoss
    BY <1>4, ResetInv
  <1>5. CASE UNCHANGED vars
    <2>1. UNCHANGED <<module, pc, arg, full, flash>>
      BY <1>5 DEF vars
    <2>2. TypeOK'
      BY <2>1 DEF module, flash, IInv, TypeOK
    <2>3. ControlInv'
      BY <2>1 DEF module, IInv, ControlInv, Size
    <2>4. DataInv'
      BY <2>1, FlashUnchanged DEF module
    <2> QED BY <2>2, <2>3, <2>4 DEF IInv
  <1> QED BY <1>1, <1>2, <1>3, <1>4, <1>5 DEF Next

\* The inductive invariant holds in every reachable state.
THEOREM Invariance == Spec => []IInv
BY InitInv, NextInv, PTL DEF Spec

\* Every variable keeps its type; the download stays inside the bank.
THEOREM TypeCorrect == Spec => []TypeOK
  <1>1. IInv => TypeOK
    BY DEF IInv
  <1> QED BY <1>1, Invariance, PTL

\* What waits to be committed is an image with a valid signature, whatever the
\* server sent and whichever manifests the caller passed.
THEOREM OnlyVerifiedCommitted == Spec => []CommitsVerified
  <1>1. IInv => CommitsVerified
    BY DEF IInv, DataInv
  <1> QED BY <1>1, Invariance, PTL

\* The bank the part boots holds such an image, wherever an update fails or loses
\* power, as long as a set_startup that reports an error did not switch.
THEOREM AlwaysBootable == Spec => []BootsVerified
  <1>1. IInv => BootsVerified
    BY DEF IInv, DataInv
  <1> QED BY <1>1, Invariance, PTL

\* The chunks a download has still to program are erased.
THEOREM OnlyErasedProgrammed == Spec => []ProgramsErased
  <1>1. IInv => ProgramsErased
    BY DEF IInv, DataInv
  <1> QED BY <1>1, Invariance, PTL

\* A download erases and programs the bank that does not boot (InactiveIsFree),
\* but after a set_startup that reported an error and switched all the same.
THEOREM OnlyInactiveProgrammed == Spec => [](~misreported => InactiveIsFree)
  <1>1. IInv => (~misreported => InactiveIsFree)
    BY DEF IInv, ControlInv, DataInv, SwitchInv, InactiveIsFree
  <1> QED BY <1>1, Invariance, PTL

\* The selection moves to a verified bank only, in a commit, and until a set_startup
\* has reported an error and switched, erases and programs, complete or cut short,
\* leave the selected bank as it is.
THEOREM BootImageSafe == Spec => BootImageKept
  <1>1. IInv /\ [Next]_vars =>
          [/\ startup' # startup => \E image \in Authentic : Holds(startup', image)
           /\ ~misreported => bank'[startup] = bank[startup]]_vars
    <2> SUFFICES ASSUME IInv, Next
                 PROVE  /\ startup' # startup => \E image \in Authentic : Holds(startup', image)
                        /\ ~misreported => bank'[startup] = bank[startup]
      OBVIOUS
    <2>1. CASE UNCHANGED <<bank, startup>>
      BY <2>1
    <2>2. CASE Commit
      <3>1. state = "committing" /\ bank' = bank /\ startup' \in {startup, inactive}
        BY <2>2 DEF Commit
      <3> QED BY <3>1 DEF IInv, DataInv, CommitsVerified
    <2>3. CASE startup' = startup /\ state # "done" /\ \E b : bank' = [bank EXCEPT ![inactive] = b]
      <3>1. ~misreported => startup = active
        BY <2>3 DEF IInv, DataInv, SwitchInv
      <3>2. \A c \in Bank : c # inactive => bank'[c] = bank[c]
        BY <2>3 DEF IInv, TypeOK
      <3> QED BY <2>3, <3>1, <3>2, OtherBank DEF IInv, TypeOK
    <2>4. CASE OtaInit \/ OtaDeinit \/ BeginFullUpdate \/ FullUpdateReturn
      BY <2>1, <2>4 DEF OtaInit, OtaDeinit, BeginFullUpdate, FullUpdateReturn, flash
    <2>5. CASE Call \/ FullUpdateStep
      <3>1. Transition
        BY <2>5, DriversMakeTransitions
      <3> QED BY <2>1, <2>2, <3>1 DEF Transition, CheckForUpdate, Download, Verify, flash
    <2>6. ASSUME NEW ok \in BOOLEAN,
                 FetchManifest(ok) \/ PrepareBank(ok) \/ OpenImage(ok) \/ DownloadChunk(ok)
          PROVE  \/ UNCHANGED <<bank, startup>>
                 \/ startup' = startup /\ state # "done" /\ \E b : bank' = [bank EXCEPT ![inactive] = b]
      <3>1. CASE FetchManifest(ok) \/ OpenImage(ok)
        BY <3>1 DEF FetchManifest, OpenImage, flash
      <3>2. CASE PrepareBank(ok)
        BY <3>2 DEF PrepareBank, IInv, ControlInv
      <3>3. CASE DownloadChunk(ok)
        BY <3>3 DEF DownloadChunk, IInv, ControlInv
      <3> QED BY <2>6, <3>1, <3>2, <3>3
    <2>7. CASE SystemReset \/ PowerLoss
      <3>1. startup' = startup
        BY <2>7 DEF SystemReset, PowerLoss, Reboot
      <3>2. UNCHANGED bank \/ (state # "done" /\ \E b : bank' = [bank EXCEPT ![inactive] = b])
        BY <2>7 DEF SystemReset, PowerLoss, IInv, ControlInv
      <3> QED BY <2>1, <2>3, <3>1, <3>2
    <2> QED BY <2>1, <2>3, <2>4, <2>5, <2>6, <2>7 DEF Next, CallReturns
  <1> QED BY <1>1, Invariance, PTL DEF Spec, BootImageKept

\* What the state guard of ra8_ota_download_to_inactive_bank lets through always
\* starts over: no download that could be called again has a chunk done, so the
\* resumption that PartialDownloadResumes asks for never takes place.
THEOREM NeverResumes == Spec => [](Ready /\ state \in {"idle", "downloading"} => done = 0)
  <1>1. IInv => (Ready /\ state \in {"idle", "downloading"} => done = 0)
    BY DEF IInv, ControlInv, Ready
  <1> QED BY <1>1, Invariance, PTL
================================================================================
