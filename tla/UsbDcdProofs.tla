------------------------------ MODULE UsbDcdProofs ------------------------------
(* Proofs about UsbDcd for requests of any length, any number of FIFO timeouts  *)
(* and both pipes at once: what a request leaves behind, that its buffer is     *)
(* never overrun, and when a pending BEMP has no owner; then, on top of that,   *)
(* the packets of both pipes arrive in order, each request with all of its own. *)
EXTENDS UsbDcd, SequenceTheorems, TLAPS

(* The types the proofs need; packets are left open.                            *)
Requests == [stashed : BOOLEAN, total : Nat, sem : Nat, data : Seq(Packet),
             pc : {"idle", "submit", "copy", "post", "arm", "wait", "expired"}]
OutShape ==
  /\ oreq \in Requests
  /\ opipe \in [pid : {"nak", "buf"}, banks : Seq(Packet)] /\ Len(opipe.banks) <= Banks
  /\ brdy \in BOOLEAN /\ (brdy => opipe.banks # <<>>)
  /\ orphan \in Seq(Packet) /\ Len(orphan) <= 1 /\ nextOut \in Tag

(* Where the completion of the OUT request is: still to come as long as the     *)
(* request is stashed, else in the semaphore.  One that comes after the timeout *)
(* or twice is one too many for the thread that waits.                          *)
Pending == oreq.stashed /\ oreq.sem = 0
Posted == ~oreq.stashed /\ oreq.sem = 1
Clear == oddOut \cap {"late", "reposted"} = {}
OutOnce ==
  /\ oreq.pc = "idle" => ~oreq.stashed /\ oreq.sem = IF Clear THEN 0 ELSE 1
  /\ oreq.pc \in {"submit", "copy", "post", "arm"} => Clear /\ (Pending \/ Posted)
  /\ oreq.pc = "wait" => IF Clear THEN Pending \/ Posted ELSE ~oreq.stashed /\ oreq.sem = 2
  /\ oreq.pc = "expired" => IF Clear THEN Pending ELSE Posted

(* Without a race the thread that is about to look for an orphan finds none if  *)
(* the request is already complete, and the interrupt leaves it the request.    *)
OutAlone ==
  /\ oreq.pc = "submit" /\ ~oreq.stashed => orphan = <<>>
  /\ oreq.pc \in {"copy", "post"} => oreq.stashed

OutInv == OutShape /\ OutFits /\ (oreq.pc = "copy" => orphan # <<>>)
            /\ (oreq.pc # "idle" => oreq.total >= 1) /\ OutOnce /\ (~OutOdd => OutAlone)

InRequests == [stashed : BOOLEAN, total : Nat, sent : Nat, zlp : BOOLEAN, sem : Nat,
               pc : {"idle", "stage", "failed", "wait", "expired"}]
InPipes == [pid : {"nak", "buf"}, bank : Seq(Packet), bemp : BOOLEAN]
InShape ==
  /\ ireq \in InRequests
  /\ ipipe \in InPipes /\ baseIn \in Tag

(* The same for the IN request; its bank is empty before the thread stages and  *)
(* once it is complete, and BEMP is never set beside a loaded bank.             *)
Quiet == ipipe.bank = <<>> /\ ~ipipe.bemp
Due == ireq.stashed /\ ireq.sem = 0 /\ "late" \notin oddIn
InOnce ==
  /\ ireq.pc = "idle" => ~ireq.stashed /\ ireq.sem = IF "late" \in oddIn THEN 1 ELSE 0
  /\ ireq.pc \in {"stage", "failed"} => Due /\ Quiet
  /\ ireq.pc = "expired" => Due \/ (~ireq.stashed /\ ireq.sem = 1 /\ "late" \in oddIn)
  /\ ireq.pc = "wait" => Due \/ (~ireq.stashed /\ ireq.sem = 1 /\ "late" \notin oddIn)
  /\ "abandoned" \in oddIn => ireq.pc = "idle"
  /\ ~ireq.stashed /\ "abandoned" \notin oddIn => Quiet
  /\ ipipe.bemp => ipipe.bank = <<>>

InInv == /\ InShape /\ (ireq.sem > 0 => ~ireq.stashed) /\ (ireq.pc = "idle" => ~ireq.stashed)
         /\ "restaged" \notin oddIn => InOnce

IInv == OutInv /\ InInv

--------------------------------------------------------------------------------
(* Drained is the least number of banks that ends the request or blocks.        *)
LEMMA DrainedLeast ==
  ASSUME OutShape
  PROVE  /\ Len(opipe.banks) \in Nat /\ Len(opipe.banks) <= 2
         /\ Announced \in Nat /\ Announced <= Len(opipe.banks)
         /\ Drained \in 0 .. Announced /\ (Ends(Drained) \/ Blocked(Drained))
         /\ \A j \in 0 .. Drained - 1 : ~Ends(j) /\ ~Blocked(j)
  <1> DEFINE n == Announced
             S == {k \in 0 .. n : Ends(k) \/ Blocked(k)}
  <1>0. Len(opipe.banks) \in Nat /\ Len(opipe.banks) <= 2
    BY DEF OutShape, Banks
  <1>1. n \in Nat /\ n <= Len(opipe.banks) /\ n <= 2
    <2>1. n = Len(opipe.banks) \/ n = 0
      BY Zenon DEF Announced
    <2>2. \A m, l \in Nat : l <= 2 /\ (m = l \/ m = 0) => m <= l /\ m <= 2
      OBVIOUS
    <2>3. n \in Nat
      <3>1. 0 \in Nat
        OBVIOUS
      <3> QED BY Zenon, <1>0, <2>1, <3>1
    <2> QED BY Zenon, <1>0, <2>1, <2>2, <2>3
  <1>2. n \in S
    BY <1>1 DEF Blocked
  <1>3. S \subseteq 0 .. 2
    BY <1>1
  <1>4. \E x \in S : \A y \in S : x =< y
    <2>1. CASE 0 \in S BY <2>1, <1>3
    <2>2. CASE 0 \notin S /\ 1 \in S BY <2>2, <1>3
    <2>3. CASE 0 \notin S /\ 1 \notin S BY <2>3, <1>2, <1>3
    <2> QED BY <2>1, <2>2, <2>3
  <1>5. Drained \in S /\ \A y \in S : Drained =< y
    BY <1>4 DEF Drained, Min
  <1>6. ASSUME NEW j \in 0 .. Drained - 1 PROVE j \notin S /\ j \in 0 .. n
    BY <1>1, <1>5
  <1> QED BY <1>0, <1>1, <1>5, <1>6

(* What the interrupt drains: not past the end of the request.                  *)
LEMMA DrainedFits ==
  ASSUME OutShape, OutFits
  PROVE  /\ Drained \in 0 .. Len(opipe.banks)
         /\ Len(oreq.data) + Drained <= oreq.total
         /\ Ends(Drained) => Drained > 0
  <1> DEFINE n == Len(opipe.banks)
  <1>1. n \in Nat /\ n <= 2 /\ Len(oreq.data) \in Nat /\ oreq.total \in Nat
    BY DEF OutShape, Requests, Banks
  <1>5. Drained \in 0 .. n /\ \A j \in 0 .. Drained - 1 : ~Ends(j) /\ ~Blocked(j)
    BY DrainedLeast
  <1>6. CASE Drained = 0
    BY <1>1, <1>5, <1>6 DEF OutFits, Ends
  <1>7. CASE Drained = 1
    <2>1. ~Blocked(0)
      BY <1>1, <1>5, <1>7
    <2> QED BY <1>1, <1>5, <1>7, <2>1 DEF Blocked, Full
  <1>8. CASE Drained = 2
    <2>2. ~Ends(1)
      BY <1>5, <1>8
    <2> QED BY <1>1, <1>5, <1>8, <2>2 DEF Ends
  <1> QED BY <1>1, <1>5, <1>6, <1>7, <1>8

(* The buffer after draining.                                                   *)
LEMMA DrainLength ==
  ASSUME OutShape, NEW k \in 0 .. Len(opipe.banks)
  PROVE  Drain(k) \in Seq(Packet) /\ Len(Drain(k)) = Len(oreq.data) + k
  <1>1. oreq.data \in Seq(Packet) /\ opipe.banks \in Seq(Packet)
    BY DEF OutShape, Requests
  <1> DEFINE b == SubSeq(opipe.banks, 1, k)
  <1>2. b \in Seq(Packet) /\ Len(b) = k
    BY <1>1, SubSeqProperties
  <1>3. Drain(k) = oreq.data \o b
    BY DEF Drain
  <1> HIDE DEF b
  <1>4. oreq.data \o b \in Seq(Packet) /\ Len(oreq.data \o b) = Len(oreq.data) + Len(b)
    BY Zenon, <1>1, <1>2, ConcatProperties
  <1> QED BY <1>2, <1>3, <1>4

(* Dropping banks leaves fewer.                                                 *)
LEMMA DropLength ==
  ASSUME OutShape, NEW k \in 0 .. Len(opipe.banks)
  PROVE  /\ DropFirst(opipe.banks, k) \in Seq(Packet)
         /\ Len(DropFirst(opipe.banks, k)) <= Banks
  BY DEF OutShape, DropFirst, Banks

(* Dropping fewer than all leaves some.                                         *)
LEMMA DropRest ==
  ASSUME OutShape, NEW k \in 0 .. Len(opipe.banks), k < Len(opipe.banks)
  PROVE  DropFirst(opipe.banks, k) # <<>>
  <1>1. opipe.banks \in Seq(Packet) /\ Len(opipe.banks) \in Nat
    BY DEF OutShape
  <1>2. Len(DropFirst(opipe.banks, k)) = Len(opipe.banks) - k
    BY <1>1 DEF DropFirst
  <1> QED BY <1>1, <1>2

--------------------------------------------------------------------------------
(* The OUT pipe, step by step.                                                  *)

(* Initially nothing is stashed.                                                *)
LEMMA InitInv == Init => IInv
  <1> SUFFICES ASSUME Init PROVE IInv
    OBVIOUS
  <1>1. OutShape
    <2>1. brdy \in BOOLEAN /\ (brdy => opipe.banks # <<>>)
      BY Zenon DEF Init
    <2>2. oreq \in Requests
      BY DEF Init, Requests
    <2> QED BY UsbAssumption, <2>1, <2>2 DEF Init, OutShape, Tag, Banks
  <1>2. InShape
    BY UsbAssumption DEF Init, InShape, InRequests, InPipes, Tag
  <1>3. OutOnce /\ OutAlone /\ OutFits
    BY DEF Init, OutOnce, OutAlone, Clear, OutFits
  <1>4. InOnce /\ ~ireq.stashed
    BY DEF Init, InOnce, Quiet
  <1>5. oreq.pc = "idle"
    BY DEF Init
  <1> QED BY <1>1, <1>2, <1>3, <1>4, <1>5 DEF IInv, OutInv, InInv

(* A packet of the host goes to a bank.                                         *)
LEMMA HostOutInv ==
  ASSUME OutInv, NEW kind \in {"full", "short", "zlp"}, HostOut(kind)
  PROVE  OutInv'
  <1>1. nextOut' \in Tag
    BY UsbAssumption DEF HostOut, Plus, Tag, OutInv, OutShape
  <1>2. /\ opipe' \in [pid : {"nak", "buf"}, banks : Seq(Packet)]
        /\ Len(opipe'.banks) <= Banks
    <2> DEFINE p == IF kind = "zlp" THEN Zlp ELSE [kind |-> kind, tag |-> nextOut]
    <2>1. p \in Packet
      BY DEF Packet, Data, OutInv, OutShape
    <2>2. Append(opipe.banks, p) \in Seq(Packet) /\ Len(Append(opipe.banks, p)) <= Banks
      BY <2>1 DEF HostOut, OutInv, OutShape, Banks
    <2> QED BY <2>2 DEF HostOut
  <1>3. OutShape'
    <2>1. brdy' = TRUE /\ opipe'.banks # <<>>
      BY DEF HostOut, OutInv, OutShape
    <2> QED BY <1>1, <1>2, <2>1 DEF HostOut, OutInv, OutShape
  <1> QED BY <1>3 DEF HostOut, OutInv, OutFits, OutOdd, OutOnce, OutAlone, Clear, Pending, Posted

(* The steps of the class thread.                                               *)
LEMMA OutThreadInv ==
  ASSUME OutInv, OutThread
  PROVE  OutInv'
  <1>0. OutShape /\ oreq \in Requests /\ orphan \in Seq(Packet) /\ Len(orphan) <= 1
          /\ <<>> \in Seq(Packet) /\ Len(<<>>) = 0
    BY DEF OutInv, OutShape
  <1>1. ASSUME NEW n \in 1 .. MaxReq, StashOut(n) PROVE OutInv'
    <2>1. oreq' = [oreq EXCEPT !.stashed = TRUE, !.total = n, !.data = <<>>, !.pc = "submit"]
      BY <1>1 DEF StashOut
    <2>2. oreq' \in Requests
      <3>1. n \in Nat
        BY UsbAssumption
      <3> QED BY Zenon, <1>0, <2>1, <3>1 DEF Requests
    <2>3. OutShape'
      BY <1>0, <1>1, <2>2 DEF StashOut, OutShape
    <2> QED BY <1>0, <1>1, <2>1, <2>2, <2>3, UsbAssumption DEF StashOut, Requests, OutInv, OutFits, OutOdd,
               OutOnce, OutAlone, Clear, Pending, Posted
  <1>2. CASE SubmitOut
    <2>1. OutShape'
      <3>1. UNCHANGED <<opipe, brdy, orphan, nextOut>> /\ oreq' \in Requests
        BY <1>0, <1>2 DEF SubmitOut, Requests
      <3> QED BY <1>0, <3>1 DEF OutShape
    <2> QED BY <1>0, <1>2, <2>1 DEF SubmitOut, Requests, OutInv, OutFits, OutOdd,
               OutOnce, OutAlone, Clear, Pending, Posted
  <1>3. CASE CopyOrphan
    <2>1. \E pc \in {"post", "arm"} : oreq' = [oreq EXCEPT !.data = orphan, !.pc = pc]
      BY <1>3 DEF CopyOrphan
    <2>2. oreq' \in Requests /\ Len(oreq'.data) = 1 /\ orphan' = <<>>
      <3>1. Len(orphan) = 1
        <4>1. orphan # <<>>
          BY <1>3 DEF CopyOrphan, OutInv
        <4>2. Len(orphan) \in Nat \ {0}
          BY <1>0, <4>1, EmptySeq
        <4>3. Len(orphan) <= 1
          BY <1>0
        <4>4. \A m \in Nat \ {0} : m <= 1 => m = 1
          OBVIOUS
        <4> QED BY <4>2, <4>3, <4>4, Zenon
      <3> QED BY Zenon, <1>0, <1>3, <2>1, <3>1 DEF Requests, CopyOrphan
    <2>4. OutShape'
      BY <1>0, <1>3, <2>2 DEF CopyOrphan, OutShape
    <2> QED BY <1>0, <1>3, <2>1, <2>2, <2>4 DEF CopyOrphan, Requests, OutInv, OutFits, OutOdd,
               OutOnce, OutAlone, Clear, Pending, Posted
  <1>4. CASE PostOut
    <2>1. oreq' = [oreq EXCEPT !.stashed = FALSE, !.sem = oreq.sem + 1, !.pc = "wait"]
      BY <1>4 DEF PostOut
    <2>2. /\ oreq' \in Requests /\ ~oreq'.stashed /\ oreq'.sem = oreq.sem + 1 /\ oreq'.pc = "wait"
          /\ oreq'.data = oreq.data /\ oreq'.total = oreq.total
      <3>1. oreq.sem + 1 \in Nat
        BY <1>0 DEF Requests
      <3> QED BY Zenon, <1>0, <2>1, <3>1 DEF Requests
    <2>3. OutShape'
      BY <1>0, <1>4, <2>2 DEF PostOut, OutShape
    <2>4. /\ Clear /\ (Pending \/ Posted) /\ oreq.total >= 1
          /\ Clear' = oreq.stashed /\ (~OutOdd' => ~OutOdd)
      BY <1>0, <1>4 DEF PostOut, OutInv, OutOnce, Clear, OutOdd, Requests
    <2>5. OutOnce'
      BY <1>0, <2>2, <2>4 DEF OutOnce, Pending, Posted, Requests
    <2> QED BY <1>0, <1>4, <2>2, <2>3, <2>4, <2>5 DEF OutInv, OutFits, OutAlone
  <1>8. CASE ArmOut
    <2>1. oreq' = [oreq EXCEPT !.pc = "wait"]
      BY <1>8 DEF ArmOut
    <2>2. oreq' \in Requests
      BY <1>0, <2>1 DEF Requests
    <2>3. opipe' \in [pid : {"nak", "buf"}, banks : Seq(Packet)] /\ opipe'.banks = opipe.banks
      BY <1>0, <1>8 DEF ArmOut, OutShape
    <2>4. OutShape'
      BY <1>0, <1>8, <2>2, <2>3 DEF ArmOut, OutShape
    <2> QED BY <1>0, <1>8, <2>1, <2>2, <2>4 DEF ArmOut, Requests, OutInv, OutFits, OutOdd,
               OutOnce, OutAlone, Clear, Pending, Posted
  <1>5. CASE WakeOut
    <2>0. oreq.sem - 1 \in Nat
      BY <1>0, <1>5 DEF WakeOut, Requests
    <2>1. oreq' = [oreq EXCEPT !.stashed = oreq.stashed, !.sem = oreq.sem - 1,
                               !.data = <<>>, !.pc = "idle"]
      BY <1>5 DEF WakeOut, ReturnOut
    <2>2. oreq' \in Requests
      BY Zenon, <1>0, <2>1, <2>0 DEF Requests
    <2>3. OutShape'
      BY <1>0, <1>5, <2>2 DEF WakeOut, ReturnOut, OutShape
    <2> QED BY <1>0, <1>5, <2>1, <2>2, <2>3, <2>0 DEF WakeOut, ReturnOut, Requests, OutInv, OutFits, OutOdd,
               OutOnce, OutAlone, Clear, Pending, Posted
  <1>6. CASE TimeOutOut
    <2>1. oreq' = [oreq EXCEPT !.pc = "expired"]
      BY <1>6 DEF TimeOutOut
    <2>2. oreq' \in Requests
      BY <1>0, <2>1 DEF Requests
    <2>3. OutShape'
      BY <1>0, <1>6, <2>2 DEF TimeOutOut, OutShape
    <2> QED BY <1>0, <1>6, <2>1, <2>2, <2>3 DEF TimeOutOut, Requests, OutInv, OutFits, OutOdd,
               OutOnce, OutAlone, Clear, Pending, Posted
  <1>7. CASE DropOut
    <2>1. oreq' = [oreq EXCEPT !.stashed = FALSE, !.sem = oreq.sem, !.data = <<>>, !.pc = "idle"]
      BY <1>7 DEF DropOut, ReturnOut
    <2>2. oreq' \in Requests
      BY Zenon, <1>0, <2>1 DEF Requests
    <2>3. OutShape'
      BY <1>0, <1>7, <2>2 DEF DropOut, ReturnOut, OutShape
    <2> QED BY <1>0, <1>7, <2>1, <2>2, <2>3 DEF DropOut, ReturnOut, Requests, OutInv, OutFits, OutOdd,
               OutOnce, OutAlone, Clear, Pending, Posted
  <1> QED BY <1>1, <1>2, <1>3, <1>4, <1>5, <1>6, <1>7, <1>8 DEF OutThread, OutSubmit

(* The interrupt's walk of the OUT pipe.                                        *)
LEMMA WalkOutInv ==
  ASSUME OutInv, WalkOut
  PROVE  OutInv'
  <1>0. OutShape /\ OutFits /\ nextOut' = nextOut /\ OutOnce
    BY DEF WalkOut, OutInv
  <1>1. CASE CaptureOrphan
    <2>0. opipe.banks # <<>>
      BY <1>0, <1>1 DEF CaptureOrphan, Capture, OutShape
    <2>1. /\ Head(opipe.banks) \in Packet /\ Tail(opipe.banks) \in Seq(Packet)
          /\ Len(Tail(opipe.banks)) <= Banks
      BY <1>0, <2>0 DEF OutShape, Banks
    <2>a. brdy' \in BOOLEAN /\ (brdy' => Tail(opipe.banks) # <<>>)
      BY Zenon, <1>1 DEF CaptureOrphan, Capture
    <2>2. OutShape'
      <3>1. CASE Head(opipe.banks) = Zlp
        <4>1. opipe' = [opipe EXCEPT !.banks = Tail(opipe.banks)] /\ orphan' = orphan
          BY <1>1, <3>1 DEF CaptureOrphan, Capture
        <4>2. opipe' \in [pid : {"nak", "buf"}, banks : Seq(Packet)]
                /\ opipe'.banks = Tail(opipe.banks)
          BY Zenon, <1>0, <2>1, <4>1 DEF OutShape
        <4> QED BY <1>0, <1>1, <2>1, <2>a, <4>1, <4>2 DEF CaptureOrphan, Capture, OutShape
      <3>2. CASE Head(opipe.banks) # Zlp
        <4>1. /\ opipe' = [pid |-> "nak", banks |-> Tail(opipe.banks)]
              /\ orphan' = <<Head(opipe.banks)>>
          BY <1>1, <3>2 DEF CaptureOrphan, Capture
        <4>2. /\ opipe' \in [pid : {"nak", "buf"}, banks : Seq(Packet)]
              /\ opipe'.banks = Tail(opipe.banks)
          BY <2>1, <4>1
        <4>3. orphan' \in Seq(Packet) /\ Len(orphan') = 1
          BY <2>1, <4>1
        <4> QED BY <1>0, <1>1, <2>1, <2>a, <4>2, <4>3 DEF CaptureOrphan, Capture, OutShape
      <3> QED BY <3>1, <3>2
    <2>3. ~OutOdd' => ~OutOdd /\ (orphan' = orphan \/ oreq.pc # "submit")
      BY <1>1 DEF CaptureOrphan, Capture, OutOdd
    <2>4. oreq' = oreq /\ ~oreq.stashed /\ orphan = <<>> /\ Clear' = Clear
      BY <1>1 DEF CaptureOrphan, Capture, Clear
    <2>5. OutOnce'
      BY <1>0, <2>4 DEF OutOnce, Pending, Posted
    <2> QED BY <1>0, <2>2, <2>3, <2>4, <2>5 DEF OutFits, OutShape, OutInv, OutOdd, OutAlone
  <1>2. CASE OrphanHeld \/ CaptureLate
    <2>1. UNCHANGED <<opipe, oreq, orphan, oddOut>> /\ (brdy' = brdy \/ brdy' = FALSE)
      BY <1>2 DEF OrphanHeld, CaptureLate
    <2>3. brdy' \in BOOLEAN /\ (brdy' => opipe'.banks # <<>>)
      <3>1. CASE brdy' = brdy BY Zenon, <1>0, <2>1, <3>1 DEF OutShape
      <3>2. CASE brdy' = FALSE BY Zenon, <3>2
      <3> QED BY Zenon, <2>1, <3>1, <3>2
    <2>2. OutShape'
      BY <1>0, <2>1, <2>3 DEF OutShape, WalkOut
    <2> QED BY <1>0, <2>1, <2>2 DEF OutFits, OutInv, OutOdd, OutOnce, OutAlone, Clear, Pending, Posted
  <1>3. CASE FinishOut
    <2> DEFINE d == Drain(Drained)
    <2>1. /\ Drained \in 0 .. Len(opipe.banks) /\ Drained > 0
          /\ Len(oreq.data) + Drained <= oreq.total
      BY <1>0, <1>3, DrainedFits DEF FinishOut
    <2>2. d \in Seq(Packet) /\ Len(d) <= oreq.total
      BY Zenon, <1>0, <2>1, DrainLength
    <2>3. oreq' = [oreq EXCEPT !.data = d, !.stashed = FALSE, !.sem = oreq.sem + 1]
      BY <1>3 DEF FinishOut
    <2>4. oreq' \in Requests /\ OutFits'
      <3> HIDE DEF d
      <3>1. oreq.sem + 1 \in Nat /\ oreq \in Requests
        BY <1>0 DEF OutShape, Requests
      <3>2. oreq' \in Requests /\ oreq'.data = d /\ oreq'.total = oreq.total
        BY Zenon, <2>2, <2>3, <3>1 DEF Requests
      <3> QED BY <2>2, <3>2 DEF OutFits
    <2>5. opipe' \in [pid : {"nak", "buf"}, banks : Seq(Packet)] /\ Len(opipe'.banks) <= Banks
      BY <1>0, <1>3, <2>1, DropLength DEF FinishOut
    <2>a. brdy' \in BOOLEAN /\ (brdy' => opipe'.banks # <<>>)
      <3>1. brdy' \in BOOLEAN /\ (brdy' => Drained < Len(opipe.banks))
        <4>1. brdy' = (Drained < Len(opipe.banks)) /\ Drained \in Nat /\ Len(opipe.banks) \in Nat
          BY <1>0, <1>3, <2>1, DrainedLeast DEF FinishOut
        <4>2. \A m, n \in Nat : (m < n) \in BOOLEAN
          OBVIOUS
        <4> QED BY Zenon, <4>1, <4>2
      <3>2. opipe'.banks = DropFirst(opipe.banks, Drained)
        BY <1>3 DEF FinishOut
      <3> QED BY Zenon, <1>0, <2>1, <3>1, <3>2, DropRest
    <2>6. OutShape' /\ orphan' = orphan
      BY <1>0, <1>3, <2>4, <2>5, <2>a DEF OutShape, FinishOut
    <2>7. /\ ~OutOdd' => ~OutOdd /\ orphan = <<>> /\ oreq.pc # "post"
          /\ Clear' <=> Clear /\ oreq.pc # "expired"
      BY <1>3, <2>1 DEF FinishOut, Marks, Racing, OutOdd, Clear
    <2>8. /\ oreq'.pc = oreq.pc /\ oreq'.total = oreq.total
          /\ ~oreq'.stashed /\ oreq'.sem = oreq.sem + 1 /\ oreq.stashed /\ oreq.sem \in Nat
      <3> HIDE DEF d
      <3> QED BY <1>0, <1>3, <2>3 DEF OutShape, Requests, FinishOut
    <2>9. OutOnce'
      <3>1. Pending /\ Clear /\ oreq.pc # "idle"
        BY <1>0, <2>8 DEF OutOnce, Pending, Posted, OutShape, Requests
      <3>2. Posted'
        BY <2>8, <3>1 DEF Pending, Posted
      <3>3. IF oreq.pc = "expired" THEN ~Clear' ELSE Clear'
        BY <2>7, <3>1
      <3> QED BY <2>8, <3>1, <3>2, <3>3 DEF OutOnce, Posted
    <2>10. oreq.pc = "copy" => orphan # <<>>
      BY DEF OutInv
    <2> QED BY <2>4, <2>6, <2>7, <2>8, <2>9, <2>10 DEF OutInv, OutAlone
  <1>5. ASSUME NEW k \in 0 .. Drained, NEW j \in 0 .. Len(opipe.banks), Rearm("buf", k, j),
               brdy' \in BOOLEAN, brdy' => j < Len(opipe.banks)
        PROVE  OutInv'
    <2> DEFINE d == Drain(k)
    <2>1. k \in 0 .. Len(opipe.banks) /\ Len(oreq.data) + k <= oreq.total
      <3>1. /\ Drained \in 0 .. Len(opipe.banks) /\ Len(oreq.data) + Drained <= oreq.total
            /\ Len(oreq.data) \in Nat /\ oreq.total \in Nat /\ Len(opipe.banks) \in Nat
        BY <1>0, DrainedFits DEF OutShape, Requests
      <3>2. \A l, m, t, n \in Nat : m <= n /\ l + m <= t =>
                \A i \in 0 .. m : i \in 0 .. n /\ l + i <= t
        OBVIOUS
      <3>3. Drained \in Nat /\ Drained <= Len(opipe.banks)
        BY <3>1
      <3> QED BY Zenon, <1>5, <3>1, <3>2, <3>3
    <2>2. d \in Seq(Packet) /\ Len(d) <= oreq.total
      BY Zenon, <1>0, <2>1, DrainLength
    <2>3. oreq' = [oreq EXCEPT !.data = d]
      BY <1>5 DEF Rearm
    <2>4. oreq' \in Requests /\ OutFits'
      <3> HIDE DEF d
      <3> QED BY Zenon, <1>0, <2>2, <2>3 DEF OutShape, Requests, OutFits
    <2>5. opipe' \in [pid : {"nak", "buf"}, banks : Seq(Packet)] /\ Len(opipe'.banks) <= Banks
      BY <1>0, <1>5, DropLength DEF Rearm
    <2>a. brdy' \in BOOLEAN /\ (brdy' => opipe'.banks # <<>>)
      BY <1>0, <1>5, DropRest DEF Rearm
    <2>6. OutShape' /\ orphan' = orphan /\ (~OutOdd' => ~OutOdd)
      BY Zenon, <1>0, <1>5, <2>4, <2>5, <2>a DEF OutShape, Rearm, OutOdd
    <2>7. /\ oreq'.pc = oreq.pc /\ oreq'.total = oreq.total
          /\ oreq'.stashed = oreq.stashed /\ oreq'.sem = oreq.sem
      <3> HIDE DEF d
      <3> QED BY <1>0, <2>3 DEF OutShape, Requests
    <2>8. Clear' = Clear
      BY <1>5 DEF Rearm, Marks, Clear
    <2>9. OutOnce'
      BY <1>0, <2>7, <2>8 DEF OutOnce, Pending, Posted
    <2> QED BY <2>4, <2>6, <2>7, <2>9 DEF OutInv, OutAlone
  <1>4. CASE RearmOut
    <2>1. Left \in 0 .. Len(opipe.banks)
      BY <1>0, DrainedLeast DEF Left
    <2>2. Drained \in 0 .. Drained
      BY <1>0, DrainedLeast
    <2>3. Rearm("buf", Drained, Left) /\ brdy' = (brdy /\ Left < Len(opipe.banks))
      BY <1>4 DEF RearmOut
    <2>4. brdy' \in BOOLEAN /\ (brdy' => Left < Len(opipe.banks))
      BY Zenon, <2>3
    <2> QED BY Zenon, <1>5, <2>1, <2>2, <2>3, <2>4
  <1>6. CASE DrainLate
    <2>1. PICK k \in 0 .. Drained : k < Announced /\ Rearm("buf", k, k)
      BY <1>6 DEF DrainLate
    <2>2. k \in 0 .. Len(opipe.banks)
      BY <1>0, <2>1, DrainedLeast
    <2>3. brdy' = FALSE
      BY <1>6 DEF DrainLate
    <2> QED BY Zenon, <1>5, <2>1, <2>2, <2>3
  <1> QED BY <1>1, <1>2, <1>3, <1>4, <1>6 DEF WalkOut

--------------------------------------------------------------------------------
(* The IN pipe, step by step.                                                   *)

(* Staging a packet.                                                            *)
LEMMA LoadedShape ==
  ASSUME InShape, NEW p \in Packet
  PROVE  Loaded(p) \in InPipes /\ Loaded(p).bank = <<p>> /\ Loaded(p).bemp = ipipe.bemp
  <1>1. <<p>> \in Seq(Packet) /\ ipipe \in InPipes
    BY DEF InShape
  <1> QED BY Zenon, <1>1 DEF InPipes, Loaded

LEMMA ChunkPacket ==
  ASSUME InShape, NEW k \in Nat
  PROVE  Chunk(k) \in Packet
  BY UsbAssumption DEF InShape, Chunk, Packet, Data, Plus, Tag

(* A step of the host, or of the controller.                                    *)
LEMMA HostInInv ==
  ASSUME InInv, HostIn \/ FallToNak
  PROVE  InInv'
  <1>0. InShape /\ ipipe \in InPipes /\ ireq \in InRequests /\ <<>> \in Seq(Packet)
    BY DEF InInv, InShape
  <1>1. CASE HostIn
    <2>1. ipipe' = [ipipe EXCEPT !.bank = <<>>, !.bemp = TRUE] /\ ipipe.bank # <<>>
      BY <1>1 DEF HostIn
    <2>2. ipipe' \in InPipes /\ ipipe'.bank = <<>>
      BY Zenon, <1>0, <2>1 DEF InPipes
    <2> QED BY <1>0, <1>1, <2>1, <2>2 DEF HostIn, InInv, InShape, InOnce, Due, Quiet
  <1>2. CASE FallToNak
    <2>1. ipipe' = [ipipe EXCEPT !.pid = "nak"]
      BY <1>2 DEF FallToNak
    <2>2. ipipe' \in InPipes /\ ipipe'.bank = ipipe.bank /\ ipipe'.bemp = ipipe.bemp
      BY <1>0, <2>1 DEF InPipes
    <2> QED BY <1>0, <1>2, <2>2 DEF FallToNak, InInv, InShape, InOnce, Due, Quiet
  <1> QED BY <1>1, <1>2

(* The steps of the class thread.                                               *)
LEMMA InThreadInv ==
  ASSUME InInv, InThread
  PROVE  InInv'
  <1>0. InShape /\ ipipe \in InPipes /\ ireq \in InRequests /\ baseIn \in Tag
    BY DEF InInv, InShape
  <1>1. ASSUME NEW n \in 0 .. MaxReq, NEW zlp \in BOOLEAN, StashIn(n, zlp) PROVE InInv'
    <2>1. ireq' = [ireq EXCEPT !.stashed = TRUE, !.total = n, !.sent = 0, !.zlp = zlp,
                               !.pc = "stage"]
      BY <1>1 DEF StashIn
    <2>2. n \in Nat
      BY UsbAssumption
    <2>3. ireq' \in InRequests /\ ireq'.stashed /\ ireq'.sem = ireq.sem /\ ireq'.pc = "stage"
      BY Zenon, <1>0, <2>1, <2>2 DEF InRequests
    <2> QED BY <1>0, <1>1, <2>3 DEF StashIn, InOdd, InInv, InShape, InOnce, Due, Quiet
  <1>2. CASE StageFirst
    <2> DEFINE p == IF ireq.total = 0 THEN Zlp ELSE Chunk(0)
               s == IF ireq.total = 0 THEN 0 ELSE 1
    <2>1. CASE ipipe' = Loaded(p) /\ ireq' = [ireq EXCEPT !.sent = s, !.pc = "wait"]
      <3>1. p \in Packet /\ s \in Nat
        BY <1>0, ChunkPacket DEF Packet
      <3> HIDE DEF p, s
      <3>3. ipipe' \in InPipes /\ ipipe'.bemp = ipipe.bemp
        BY <1>0, <2>1, <3>1, LoadedShape
      <3>4. /\ ireq' \in InRequests /\ ireq'.stashed = ireq.stashed
            /\ ireq'.sem = ireq.sem /\ ireq'.pc = "wait"
        BY Zenon, <1>0, <2>1, <3>1 DEF InRequests
      <3> QED BY <1>0, <1>2, <3>3, <3>4 DEF StageFirst, InInv, InShape, InOnce, Due, Quiet
    <2>2. CASE ireq' = [ireq EXCEPT !.pc = "failed"] /\ UNCHANGED ipipe
      <3>1. /\ ireq' \in InRequests /\ ireq'.stashed = ireq.stashed
            /\ ireq'.sem = ireq.sem /\ ireq'.pc = "failed"
        BY <1>0, <2>2 DEF InRequests
      <3> QED BY <1>0, <1>2, <2>2, <3>1 DEF StageFirst, InInv, InShape, InOnce, Due, Quiet
    <2> QED BY <1>2, <2>1, <2>2 DEF StageFirst
  <1>3. CASE StageFailed
    <2>1. ireq' = [ireq EXCEPT !.stashed = FALSE, !.pc = "idle"]
      BY <1>3 DEF StageFailed
    <2>2. /\ ireq' \in InRequests /\ ~ireq'.stashed
          /\ ireq'.sem = ireq.sem /\ ireq'.pc = "idle"
      BY Zenon, <1>0, <2>1 DEF InRequests
    <2> QED BY <1>0, <1>3, <2>2 DEF StageFailed, InInv, InShape, InOnce, Due, Quiet
  <1>4. CASE WakeIn
    <2>1. ireq' = [ireq EXCEPT !.sem = ireq.sem - 1, !.pc = "idle"] /\ ireq.sem - 1 \in Nat
      BY <1>0, <1>4 DEF WakeIn, InRequests
    <2>2. /\ ireq' \in InRequests /\ ireq'.stashed = ireq.stashed
          /\ ireq'.sem = ireq.sem - 1 /\ ireq'.pc = "idle"
      BY Zenon, <1>0, <2>1 DEF InRequests
    <2>3. baseIn' \in Tag
      BY <1>0, <1>4, UsbAssumption DEF WakeIn, Plus, Tag, InRequests
    <2> QED BY <1>0, <1>4, <2>2, <2>3 DEF WakeIn, InInv, InShape, InOnce, Due, Quiet
  <1>5. CASE TimeOutIn
    <2>1. ireq' = [ireq EXCEPT !.pc = "expired"]
      BY <1>5 DEF TimeOutIn
    <2>2. /\ ireq' \in InRequests /\ ireq'.stashed = ireq.stashed
          /\ ireq'.sem = ireq.sem /\ ireq'.pc = "expired"
      BY <1>0, <2>1 DEF InRequests
    <2> QED BY <1>0, <1>5, <2>2 DEF TimeOutIn, InInv, InShape, InOnce, Due, Quiet
  <1>6. CASE DropIn
    <2>1. ireq' = [ireq EXCEPT !.stashed = FALSE, !.pc = "idle"]
      BY <1>6 DEF DropIn
    <2>2. ireq' \in InRequests
      BY Zenon, <1>0, <2>1 DEF InRequests
    <2>3. baseIn' \in Tag
      BY <1>0, <1>6, UsbAssumption DEF DropIn, Plus, Tag, InRequests
    <2>4. /\ ireq'.sem = ireq.sem /\ ireq'.pc = "idle" /\ ~ireq'.stashed /\ ipipe' = ipipe
          /\ "restaged" \in oddIn' <=> "restaged" \in oddIn
          /\ "late" \in oddIn' <=> "late" \in oddIn
          /\ "abandoned" \in oddIn' <=> "abandoned" \in oddIn \/ ~Quiet
      BY <1>0, <1>6, <2>1 DEF DropIn, InRequests, InPipes, Quiet
    <2>5. ASSUME "restaged" \notin oddIn' PROVE InOnce'
      <3>1. InOnce /\ ireq.pc = "expired"
        BY <1>6, <2>4, <2>5 DEF InInv, DropIn
      <3> QED BY <2>4, <3>1 DEF InOnce, Due, Quiet
    <2> QED BY <1>0, <1>6, <2>2, <2>3, <2>4, <2>5 DEF InInv, InShape
  <1> QED BY <1>1, <1>2, <1>3, <1>4, <1>5, <1>6 DEF InThread, InSubmit

(* The interrupt's walk of the IN pipe.                                         *)
LEMMA WalkInInv ==
  ASSUME InInv, WalkIn
  PROVE  InInv'
  <1>0. /\ InShape /\ ipipe \in InPipes /\ ireq \in InRequests /\ baseIn \in Tag
        /\ baseIn' = baseIn
    BY DEF InInv, InShape, WalkIn
  <1>1. CASE RearmIn
    <2>1. ipipe' = [ipipe EXCEPT !.pid = "buf"] /\ UNCHANGED <<ireq, oddIn>>
      BY <1>1 DEF RearmIn
    <2>2. ipipe' \in InPipes /\ ipipe'.bank = ipipe.bank /\ ipipe'.bemp = ipipe.bemp
      BY <1>0, <2>1 DEF InPipes
    <2> QED BY <1>0, <2>1, <2>2 DEF InInv, InShape, InOnce, Due, Quiet
  <1>2. ASSUME NEW f \in BOOLEAN, Stage(FALSE, f), ireq.stashed, f => ipipe.bemp
        PROVE  InInv'
    <2> DEFINE p == Chunk(ireq.sent)
    <2>1. CASE /\ ipipe' = [Loaded(p) EXCEPT !.bemp = FALSE]
               /\ ireq' = [ireq EXCEPT !.sent = @ + 1]
               /\ oddIn' = oddIn \cup (IF ireq.pc \in {"stage", "failed"}
                                       THEN {"restaged"} ELSE {})
      <3>1. p \in Packet /\ ireq.sent + 1 \in Nat
        BY <1>0, ChunkPacket DEF InRequests
      <3> HIDE DEF p
      <3>2. Loaded(p) \in InPipes
        BY <1>0, <3>1, LoadedShape
      <3>3. ipipe' \in InPipes /\ ipipe'.bemp = FALSE
        BY Zenon, <1>2, <2>1, <3>2 DEF InPipes
      <3>4. /\ ireq' \in InRequests /\ ireq'.stashed = ireq.stashed
            /\ ireq'.sem = ireq.sem /\ ireq'.pc = ireq.pc
        BY <1>0, <2>1, <3>1 DEF InRequests
      <3>5. /\ "restaged" \notin oddIn' <=> "restaged" \notin oddIn /\ ireq.pc \notin {"stage", "failed"}
            /\ "late" \in oddIn' <=> "late" \in oddIn
            /\ "abandoned" \in oddIn' <=> "abandoned" \in oddIn
        BY <2>1
      <3> QED BY <1>0, <1>2, <3>3, <3>4, <3>5 DEF InInv, InShape, InOnce, Due, Quiet
    <2>2. CASE ipipe' = [ipipe EXCEPT !.bemp = f] /\ UNCHANGED <<ireq, oddIn>>
      <3>1. ipipe' \in InPipes /\ ipipe'.bank = ipipe.bank /\ ipipe'.bemp = f
        BY <1>0, <1>2, <2>2 DEF InPipes
      <3> QED BY <1>0, <1>2, <2>2, <3>1 DEF InInv, InShape, InOnce, Due, Quiet
    <2> QED BY <1>2, <2>1, <2>2 DEF Stage
  <1>3. CASE RestageIn
    <2>1. ireq.stashed /\ ipipe.bemp = FALSE /\ Stage(FALSE, FALSE)
      BY Zenon, <1>0, <1>3 DEF RestageIn, NakEmpty, InPipes
    <2> QED BY Zenon, <1>2, <2>1
  <1>4. CASE ContinueIn
    <2>1. ireq.stashed /\ ipipe.bemp /\ Stage(FALSE, TRUE)
      BY Zenon, <1>4 DEF ContinueIn, Acting
    <2> QED BY Zenon, <1>2, <2>1
  <1>5. CASE TerminateIn
    <2>1. /\ ireq' = [ireq EXCEPT !.zlp = FALSE] /\ ipipe.bemp /\ ireq.stashed
          /\ \A x \in {"restaged", "late", "abandoned"} : x \in oddIn' <=> x \in oddIn
      BY <1>5 DEF TerminateIn, Acting
    <2>2. /\ ireq' \in InRequests /\ ireq'.stashed = ireq.stashed
          /\ ireq'.sem = ireq.sem /\ ireq'.pc = ireq.pc
      BY Zenon, <1>0, <2>1 DEF InRequests
    <2>3. ipipe' \in InPipes /\ ~ipipe'.bemp
      <3>1. Zlp \in Packet
        BY DEF Packet
      <3>2. Loaded(Zlp) \in InPipes
        BY <1>0, <3>1, LoadedShape
      <3>3. \/ ipipe' = [Loaded(Zlp) EXCEPT !.bemp = FALSE]
            \/ ipipe' = [ipipe EXCEPT !.bemp = FALSE]
        BY <1>5 DEF TerminateIn
      <3> QED BY Zenon, <1>0, <3>2, <3>3 DEF InPipes
    <2> QED BY <1>0, <2>1, <2>2, <2>3 DEF InInv, InShape, InOnce, Due, Quiet
  <1>6. CASE FinishIn
    <2>1. /\ ipipe' = [ipipe EXCEPT !.bemp = FALSE] /\ ipipe.bemp /\ ireq.stashed
          /\ ireq' = [ireq EXCEPT !.stashed = FALSE, !.sem = ireq.sem + 1]
      BY <1>6 DEF FinishIn, Finish, Acting
    <2>2. /\ \A x \in {"restaged", "abandoned"} : x \in oddIn' <=> x \in oddIn
          /\ "late" \in oddIn' <=> "late" \in oddIn \/ ireq.pc = "expired"
      BY <1>6 DEF FinishIn, Finish
    <2>3. ireq.sem + 1 \in Nat
      BY <1>0 DEF InRequests
    <2>4. /\ ireq' \in InRequests /\ ~ireq'.stashed
          /\ ireq'.sem = ireq.sem + 1 /\ ireq'.pc = ireq.pc
      BY Zenon, <1>0, <2>1, <2>3 DEF InRequests
    <2>5. ipipe' \in InPipes /\ ~ipipe'.bemp /\ ipipe'.bank = ipipe.bank
      BY Zenon, <1>0, <2>1 DEF InPipes
    <2> QED BY <1>0, <2>1, <2>2, <2>4, <2>5 DEF InInv, InShape, InOnce, Due, Quiet
  <1>7. CASE QuietIn
    BY <1>0, <1>7 DEF QuietIn, InInv, InShape, InOnce, Due, Quiet
  <1> QED BY <1>1, <1>3, <1>4, <1>5, <1>6, <1>7 DEF WalkIn

--------------------------------------------------------------------------------
(* Every step keeps the invariant.                                              *)
LEMMA NextInv ==
  ASSUME IInv, [Next]_vars
  PROVE  IInv'
  <1>1. UNCHANGED outVars => OutInv'
    BY DEF IInv, outVars, OutInv, OutShape, OutFits, OutOdd, OutOnce, OutAlone, Clear, Pending,
           Posted
  <1>2. UNCHANGED inVars => InInv'
    BY DEF IInv, inVars, InInv, InShape, InOnce, Due, Quiet
  <1>3. ASSUME NEW kind \in {"full", "short", "zlp"}, HostOut(kind) PROVE IInv'
    BY Zenon, <1>2, <1>3, HostOutInv DEF IInv, HostOut
  <1>4. CASE HostIn \/ FallToNak
    BY <1>1, <1>4, HostInInv DEF IInv, HostIn, FallToNak
  <1>5. CASE OutThread
    <2>1. UNCHANGED inVars
      BY Zenon, <1>5 DEF OutThread, OutSubmit, StashOut, SubmitOut, CopyOrphan, PostOut, ArmOut, WakeOut,
                  ReturnOut, TimeOutOut, DropOut
    <2> QED BY <1>2, <1>5, <2>1, OutThreadInv DEF IInv
  <1>6. CASE InThread
    <2>1. UNCHANGED outVars
      BY Zenon, <1>6 DEF InThread, InSubmit, StashIn, StageFirst, StageFailed, WakeIn, TimeOutIn,
                  DropIn
    <2> QED BY <1>1, <1>6, <2>1, InThreadInv DEF IInv
  <1>7. CASE Isr
    BY <1>7, WalkOutInv, WalkInInv DEF IInv, Isr
  <1>8. CASE UNCHANGED vars
    BY <1>1, <1>2, <1>8 DEF IInv, vars
  <1> QED BY <1>3, <1>4, <1>5, <1>6, <1>7, <1>8 DEF Next, HostStep

(* The inductive invariant holds throughout.                                    *)
THEOREM Inductive == Spec => []IInv
  BY InitInv, NextInv, PTL DEF Spec

(* The interrupt never writes past the buffer of an OUT request, whatever the   *)
(* banks hold (internal_irq_complete_out).                                      *)
THEOREM NeverOverrun == Spec => []OutFits
  <1>1. IInv => OutFits
    BY DEF IInv, OutInv
  <1> QED BY <1>1, Inductive, PTL

(* When the class is back, nothing is stashed on either pipe, and a post is     *)
(* left in the semaphore exactly in the cases CompletedOnce names: the          *)
(* interrupt came between the timeout and the drop (internal_wait_completion),  *)
(* or it and the orphan both completed the request.                             *)
THEOREM CompletesOnce == Spec => []CompletedOnce
  <1>1. IInv => CompletedOnce
    BY DEF IInv, OutInv, InInv, OutOnce, Clear, InOnce, CompletedOnce
  <1> QED BY <1>1, Inductive, PTL

(* A BEMP that no transfer will acknowledge (internal_irq_walk_pipe) is pending *)
(* only after a timeout that left something of its request in the bank, or an   *)
(* interrupt that staged for a thread about to stage.                           *)
THEOREM NoBempStorm == Spec => []BempOwned
  <1>1. IInv => BempOwned
    BY DEF IInv, InInv, InOnce, Quiet, BempOwned
  <1> QED BY <1>1, Inductive, PTL

--------------------------------------------------------------------------------
(* The packets on their way.  Held are given to the request or orphaned; D(k)   *)
(* counts the packet in bank k, unless it is a zero-length one.                 *)
Held == Len(oreq.data) + Len(orphan)
D(k) == IF k <= Len(opipe.banks) /\ opipe.banks[k] # Zlp THEN 1 ELSE 0

(* OutInOrder place by place.                                                   *)
OutOrder ==
  /\ \A k \in 1 .. Len(oreq.data) : oreq.data[k].tag = Plus(recvOut, k - 1)
  /\ orphan # <<>> => orphan[1].tag = Plus(recvOut, Len(oreq.data))
  /\ D(1) = 1 => opipe.banks[1].tag = Plus(recvOut, Held)
  /\ D(2) = 1 => opipe.banks[2].tag = Plus(recvOut, Held + D(1))
  /\ nextOut = Plus(recvOut, Held + D(1) + D(2))

(* The thread that has an orphan still to copy has received nothing else.       *)
OutStart ==
  /\ oreq.pc = "idle" => oreq.data = <<>>
  /\ oreq.pc \in {"submit", "copy"} /\ orphan # <<>> => oreq.data = <<>>

(* While a request waits for more, all its packets are full; a complete one has *)
(* all it asked for or ends with a short packet.                                *)
AllFull(s, n) == \A k \in 1 .. n : s[k].kind = "full"
Complete == /\ oreq.data # <<>> /\ AllFull(oreq.data, Len(oreq.data) - 1)
            /\ Len(oreq.data) = oreq.total \/ oreq.data[Len(oreq.data)].kind = "short"
OutShorts ==
  IF oreq.stashed /\ oreq.pc # "post" THEN AllFull(oreq.data, Len(oreq.data))
                                      ELSE oreq.pc # "idle" => Complete

(* The posts a request can still lead to: one by the interrupt that takes it    *)
(* from the pipe slot, one by a thread that completes it from the orphan.       *)
OutCredit == oreq.sem + (IF oreq.stashed THEN 1 ELSE 0)
              + (IF oreq.pc \in {"submit", "copy", "post"} THEN 1 ELSE 0) <= 2

OutMore ==
  /\ oreq.data \in Seq(Data) /\ orphan \in Seq(Data)
  /\ oreq.total <= MaxReq /\ recvOut \in Tag /\ oddOut \subseteq OutRaces /\ OutCredit
  /\ ~OutOdd => OutOrder /\ OutStart /\ OutShorts

(* The same for IN: where the host, the bank and the request stand.             *)
Waiting == IF ipipe.bank \in {<<>>, <<Zlp>>} THEN 0 ELSE 1
InOrder ==
  /\ ireq.pc \in {"stage", "failed"} => ireq.sent = 0
  /\ ireq.pc = "wait" /\ ~ireq.stashed => ireq.sent = ireq.total
  /\ (IF ireq.pc = "idle" THEN baseIn ELSE Plus(baseIn, ireq.sent)) = Plus(hostIn, Waiting)
  /\ Waiting = 1 => ipipe.bank[1].tag = hostIn

InMore ==
  /\ Len(ipipe.bank) <= 1 /\ ireq.total <= MaxReq /\ ireq.sent <= ireq.total
  /\ hostIn \in Tag /\ glitches \in 0 .. MaxGlitches /\ oddIn \subseteq InRaces
  /\ ireq.sem + (IF ireq.stashed THEN 1 ELSE 0) <= 1
  /\ oddIn \subseteq {"unterminated"} => InOrder

(* A request that waits with nothing in the bank and no BEMP to go on from has  *)
(* staged all it has.                                                           *)
InServed == "restaged" \notin oddIn =>
              (ireq.pc \in {"wait", "expired"} /\ ireq.stashed /\ Quiet => ireq.sent = ireq.total)

More == OutMore /\ InMore /\ InServed /\ created \in Interfaces

(* A bank with one packet holds that packet.                                    *)
LEMMA OneElement ==
  \A a, b : <<a>> # <<>> /\ <<a>>[1] = a /\ (<<a>> = <<b>> => a = b)
OBVIOUS

(* Arithmetic on packet numbers: Plus wraps at most once, and adds up.          *)
LEMMA PlusLinear ==
  ASSUME NEW t \in Tag, NEW n \in Nat, n < Tags
  PROVE  Plus(t, n) \in Tag /\ Plus(t, n) = IF t + n < Tags THEN t + n ELSE t + n - Tags
  <1>1. Tags \in Nat /\ Tags > 0 /\ t \in Nat /\ t < Tags
    BY UsbAssumption DEF Tag
  <1>2. CASE t + n < Tags
    BY <1>1, <1>2 DEF Plus, Tag
  <1>3. CASE ~(t + n < Tags)
    BY <1>1, <1>3 DEF Plus, Tag
  <1> QED BY <1>2, <1>3

LEMMA PlusTag ==
  ASSUME NEW t \in Tag, NEW n \in Nat
  PROVE  Plus(t, n) \in Tag
  BY UsbAssumption DEF Plus, Tag

LEMMA PlusPlus ==
  ASSUME NEW t \in Tag, NEW a \in Nat, NEW b \in Nat, a + b < Tags
  PROVE  Plus(Plus(t, a), b) = Plus(t, a + b) /\ Plus(t, 0) = t
  <1>1. Tags \in Nat /\ Tags > 0 /\ t \in Nat /\ t < Tags /\ a < Tags /\ b < Tags
    BY UsbAssumption DEF Tag
  <1> DEFINE u == Plus(t, a)
  <1>2. u \in Tag /\ u = IF t + a < Tags THEN t + a ELSE t + a - Tags
    BY <1>1, PlusLinear
  <1>3. Plus(t, a + b) = IF t + (a + b) < Tags THEN t + (a + b) ELSE t + (a + b) - Tags
    BY <1>1, PlusLinear
  <1> HIDE DEF u
  <1>4. Plus(u, b) = IF u + b < Tags THEN u + b ELSE u + b - Tags
    BY <1>1, <1>2, PlusLinear
  <1>5. u \in Int /\ Plus(u, b) = Plus(t, a + b)
    BY <1>1, <1>2, <1>3, <1>4 DEF Tag
  <1>6. Plus(t, 0) = t
    BY <1>1, PlusLinear
  <1> QED BY <1>5, <1>6 DEF u

(* What the interrupt drains: the first packets up to one that ends the         *)
(* request, all but the last of them full; a zero-length packet stops it.       *)
LEMMA DrainedPackets ==
  ASSUME OutShape, OutFits
  PROVE  /\ \A j \in 1 .. Drained : opipe.banks[j] \in Data
         /\ \A j \in 1 .. Drained - 1 : opipe.banks[j].kind = "full"
         /\ ~Ends(Drained) => \A j \in 1 .. Drained : opipe.banks[j].kind = "full"
         /\ ~Ends(Drained) /\ ~Full /\ Drained # Announced
              => opipe.banks[Drained + 1] = Zlp
  <1>1. /\ Drained \in 0 .. Len(opipe.banks) /\ Len(opipe.banks) \in Nat
        /\ Len(opipe.banks) <= 2
    BY DrainedFits DEF OutShape, Banks
  <1>2. Ends(Drained) \/ Blocked(Drained)
    BY DrainedLeast
  <1>3. ASSUME NEW j \in 1 .. Drained PROVE opipe.banks[j] \in Data
    <2>1. j - 1 \in 0 .. Drained - 1
      BY <1>1
    <2>2. ~Blocked(j - 1)
      BY <2>1, DrainedLeast
    <2>3. opipe.banks[j] # Zlp
      BY <1>1, <2>2 DEF Blocked
    <2>4. opipe.banks[j] \in Packet
      BY <1>1 DEF OutShape
    <2> QED BY <2>3, <2>4 DEF Packet
  <1>4. ASSUME NEW j \in 1 .. Drained - 1 PROVE opipe.banks[j].kind = "full"
    <2>1. j \in 0 .. Drained - 1 /\ j > 0
      BY <1>1
    <2>2. ~Ends(j)
      BY <2>1, DrainedLeast
    <2> QED BY <2>1, <2>2 DEF Ends
  <1>5. ASSUME ~Ends(Drained), NEW j \in 1 .. Drained PROVE opipe.banks[j].kind = "full"
    <2>1. CASE j = Drained
      BY <1>1, <1>5, <2>1 DEF Ends
    <2>2. CASE j # Drained
      <3>1. j \in 1 .. Drained - 1
        BY <1>1, <2>2
      <3> QED BY <1>4, <3>1
    <2> QED BY <2>1, <2>2
  <1>6. ~Ends(Drained) /\ ~Full /\ Drained # Announced => opipe.banks[Drained + 1] = Zlp
    BY <1>2 DEF Blocked
  <1> QED BY <1>3, <1>4, <1>5, <1>6

(* The lengths the arithmetic needs: what is on its way fits in Tags numbers.   *)
LEMMA InFlight ==
  ASSUME OutInv, OutMore
  PROVE  /\ Len(oreq.data) \in Nat /\ Len(orphan) \in Nat /\ Held \in Nat
         /\ D(1) \in 0 .. 1 /\ D(2) \in 0 .. 1 /\ Held + D(1) + D(2) < Tags
         /\ Len(opipe.banks) \in 0 .. 2 /\ (Len(opipe.banks) < 2 => D(2) = 0)
         /\ (Len(opipe.banks) < 1 => D(1) = 0)
  <1>1. /\ Len(oreq.data) \in Nat /\ Len(orphan) \in Nat /\ Len(opipe.banks) \in Nat
        /\ Len(orphan) <= 1 /\ Len(opipe.banks) <= 2
    BY DEF OutInv, OutShape, OutMore, Banks
  <1>2. Len(oreq.data) <= oreq.total /\ oreq.total <= MaxReq /\ oreq.total \in Nat
    BY DEF OutInv, OutFits, OutMore, OutShape, Requests
  <1>3. MaxReq \in Nat /\ Tags \in Nat /\ Tags > MaxReq + 3
    BY UsbAssumption
  <1>4. /\ D(1) \in 0 .. 1 /\ D(2) \in 0 .. 1 /\ (Len(opipe.banks) < 2 => D(2) = 0)
        /\ (Len(opipe.banks) < 1 => D(1) = 0)
    BY <1>1 DEF D
  <1>5. Held \in Nat /\ Held <= MaxReq + 1
    BY <1>1, <1>2, <1>3 DEF Held
  <1>6. Held + D(1) + D(2) < Tags
    BY <1>3, <1>4, <1>5
  <1>7. Len(opipe.banks) \in 0 .. 2
    <2>1. \A m \in Nat : m <= 2 => m \in 0 .. 2
      OBVIOUS
    <2> QED BY <1>1, <2>1, Zenon
  <1> QED BY <1>1, <1>4, <1>5, <1>6, <1>7, Zenon

(* A packet of the host is the next in order.                                   *)
LEMMA HostOutMore ==
  ASSUME OutInv, OutMore, NEW kind \in {"full", "short", "zlp"}, HostOut(kind)
  PROVE  OutMore'
  <1> DEFINE p == IF kind = "zlp" THEN Zlp ELSE [kind |-> kind, tag |-> nextOut]
             b == opipe.banks
  <1>1. /\ opipe'.banks = Append(b, p) /\ Len(b) < 2 /\ b \in Seq(Packet)
        /\ UNCHANGED <<oreq, orphan, recvOut, oddOut>>
    BY DEF HostOut, OutInv, OutShape, Banks
  <1>2. /\ p # Zlp <=> kind # "zlp"
        /\ kind # "zlp" => p.tag = nextOut
    BY DEF Zlp
  <1>9. p \in Packet
    BY DEF Packet, Data, OutInv, OutShape
  <1>3. nextOut' = IF kind = "zlp" THEN nextOut ELSE Plus(nextOut, 1)
    BY DEF HostOut
  <1> HIDE DEF p
  <1>4. /\ Len(opipe'.banks) = Len(b) + 1 /\ opipe'.banks[Len(b) + 1] = p
        /\ \A k \in 1 .. Len(b) : opipe'.banks[k] = b[k]
    BY <1>1, <1>9, AppendProperties
  <1>5. Len(b) = 0 \/ Len(b) = 1
    <2>1. \A m \in 0 .. 2 : m < 2 => m = 0 \/ m = 1
      OBVIOUS
    <2>2. Len(b) \in 0 .. 2
      BY InFlight
    <2> QED BY <1>1, <2>1, <2>2, Zenon
  <1>6. Held' = Held
    BY <1>1 DEF Held
  <1>7. ASSUME OutOrder PROVE OutOrder'
    <2>1. /\ Held \in Nat /\ D(1) \in 0 .. 1 /\ D(2) = 0 /\ Held + D(1) + 1 < Tags
          /\ (Len(b) = 0 => D(1) = 0)
      <3>1. /\ Held \in Nat /\ D(1) \in 0 .. 1 /\ D(2) = 0
            /\ (Len(b) = 0 => D(1) = 0)
        BY <1>1, InFlight
      <3>2. Len(oreq.data) <= MaxReq /\ Len(orphan) <= 1 /\ Len(oreq.data) \in Nat
              /\ Len(orphan) \in Nat
        BY UsbAssumption, InFlight DEF OutInv, OutFits, OutMore, OutShape, Requests
      <3> QED BY <3>1, <3>2, UsbAssumption DEF Held
    <2>2. recvOut \in Tag /\ nextOut = Plus(recvOut, Held + D(1))
      BY <1>7, <2>1 DEF OutMore, OutOrder
    <2>3. Plus(nextOut, 1) = Plus(recvOut, Held + D(1) + 1)
      BY <2>1, <2>2, PlusPlus
    <2>4. CASE Len(b) = 0
      <3>1. D(1)' = (IF kind = "zlp" THEN 0 ELSE 1) /\ D(2)' = 0 /\ D(1) = 0
        BY <1>2, <1>4, <2>1, <2>4 DEF D
      <3> QED BY <1>1, <1>2, <1>3, <1>4, <1>6, <1>7, <2>1, <2>2, <2>3, <2>4, <3>1 DEF OutOrder
    <2>5. CASE Len(b) = 1
      <3>1. D(1)' = D(1) /\ D(2)' = (IF kind = "zlp" THEN 0 ELSE 1)
        BY <1>2, <1>4, <2>1, <2>5 DEF D
      <3>2. opipe'.banks[1] = b[1] /\ opipe'.banks[2] = p
        BY <1>4, <2>5
      <3> QED BY Zenon, <1>1, <1>2, <1>3, <1>6, <1>7, <2>1, <2>2, <2>3, <3>1, <3>2 DEF OutOrder
    <2> QED BY <1>5, <2>4, <2>5
  <1>8. OutStart' = OutStart /\ OutShorts' = OutShorts /\ OutOdd' = OutOdd /\ OutCredit' = OutCredit
    BY <1>1 DEF OutStart, OutShorts, Complete, AllFull, OutOdd, OutCredit
  <1> QED BY <1>1, <1>7, <1>8 DEF OutMore

(* The order depends on the packets, not on who waits for them.                 *)
LEMMA SameOrder ==
  ASSUME oreq'.data = oreq.data, opipe'.banks = opipe.banks,
         UNCHANGED <<orphan, recvOut, nextOut>>
  PROVE  OutOrder' <=> OutOrder
  BY DEF OutOrder, D, Held

(* A request that returns hands its packets over.                               *)
LEMMA ReturnOutMore ==
  ASSUME OutInv, OutMore, NEW s \in BOOLEAN, NEW m \in Nat, ReturnOut(s, m),
         m <= oreq.sem, s => oreq.stashed, ~OutOdd => ~s
  PROVE  OutMore'
  <1>0. oreq \in Requests /\ <<>> \in Seq(Packet) /\ <<>> \in Seq(Data) /\ Len(<<>>) = 0
    BY DEF OutInv, OutShape
  <1>1. oreq' = [oreq EXCEPT !.stashed = s, !.sem = m, !.data = <<>>, !.pc = "idle"]
    BY DEF ReturnOut
  <1>2. /\ oreq'.stashed = s /\ oreq'.sem = m /\ oreq'.data = <<>> /\ oreq'.pc = "idle"
        /\ oreq'.total = oreq.total
    BY <1>0, <1>1 DEF Requests
  <1>3. /\ recvOut' = Plus(recvOut, Len(oreq.data))
        /\ UNCHANGED <<opipe, orphan, nextOut, oddOut>>
    BY DEF ReturnOut
  <1>4. recvOut \in Tag /\ recvOut' \in Tag
    BY Zenon, <1>3, InFlight, PlusTag DEF OutMore
  <1>5. ASSUME ~OutOdd PROVE OutOrder' /\ OutStart' /\ OutShorts'
    <2>1. OutOrder
      BY <1>5 DEF OutMore
    <2> DEFINE l == Len(oreq.data)
               h == Len(orphan)
    <2>2. /\ l \in Nat /\ h \in Nat /\ D(1) \in 0 .. 1 /\ D(2) \in 0 .. 1
          /\ l + h + D(1) + D(2) < Tags /\ Held = l + h
      BY InFlight DEF Held
    <2>3. Held' = h /\ D(1)' = D(1) /\ D(2)' = D(2)
      BY <1>0, <1>2, <1>3, <2>2 DEF Held, D
    <2> HIDE DEF l, h
    <2>4. ASSUME NEW a \in Nat, l + a < Tags PROVE Plus(recvOut', a) = Plus(recvOut, l + a)
      BY <1>3, <1>4, <2>2, <2>4, PlusPlus DEF l
    <2>5. /\ Plus(recvOut', 0) = Plus(recvOut, l)
          /\ Plus(recvOut', h) = Plus(recvOut, Held)
          /\ Plus(recvOut', h + D(1)) = Plus(recvOut, Held + D(1))
          /\ Plus(recvOut', h + D(1) + D(2)) = Plus(recvOut, Held + D(1) + D(2))
      BY <2>2, <2>4, UsbAssumption
    <2>6. OutOrder'
      BY <1>0, <1>2, <1>3, <2>1, <2>3, <2>5 DEF OutOrder, l
    <2>7. OutStart' /\ OutShorts'
      BY <1>2, <1>5 DEF OutStart, OutShorts
    <2> QED BY <2>6, <2>7
  <1>6. OutCredit'
    <2>1. oreq.sem \in Nat /\ oreq.stashed \in BOOLEAN
      BY <1>0 DEF Requests
    <2> QED BY <1>2, <2>1 DEF OutMore, OutCredit
  <1> QED BY Zenon, <1>0, <1>2, <1>3, <1>4, <1>5, <1>6 DEF OutMore, OutOdd

(* The steps of the class thread.                                               *)
LEMMA OutThreadMore ==
  ASSUME OutInv, OutMore, OutThread
  PROVE  OutMore'
  <1>0. /\ oreq \in Requests /\ <<>> \in Seq(Packet) /\ <<>> \in Seq(Data) /\ Len(<<>>) = 0
        /\ oreq.stashed \in BOOLEAN /\ oreq.sem \in Nat
    BY DEF OutInv, OutShape, Requests
  <1>1. ASSUME NEW n \in 1 .. MaxReq, StashOut(n) PROVE OutMore'
    <2>1. oreq' = [oreq EXCEPT !.stashed = TRUE, !.total = n, !.data = <<>>, !.pc = "submit"]
      BY <1>1 DEF StashOut
    <2>2. /\ oreq'.stashed /\ oreq'.sem = oreq.sem /\ oreq'.data = <<>> /\ oreq'.pc = "submit"
          /\ oreq'.total = n
      BY <1>0, <2>1 DEF Requests
    <2>3. /\ ~OutOdd /\ oreq.data = <<>> /\ oreq.sem = 0
          /\ UNCHANGED <<opipe, orphan, recvOut, nextOut, oddOut>>
      BY <1>1 DEF StashOut, OutInv, OutMore, OutStart, OutOnce, OutOdd, Clear
    <2>4. OutOrder'
      BY <2>2, <2>3, SameOrder DEF OutMore
    <2>5. OutStart' /\ OutShorts'
      BY <1>0, <2>2 DEF OutStart, OutShorts, AllFull
    <2>6. OutCredit'
      BY <2>2, <2>3 DEF OutCredit
    <2> QED BY <1>0, <2>2, <2>3, <2>4, <2>5, <2>6, UsbAssumption DEF OutMore, OutOdd
  <1>2. CASE SubmitOut
    <2>1. PICK pc \in {"copy", "arm"} : oreq' = [oreq EXCEPT !.pc = pc]
      BY <1>2 DEF SubmitOut
    <2>2. /\ oreq'.stashed = oreq.stashed /\ oreq'.sem = oreq.sem /\ oreq'.data = oreq.data
          /\ oreq'.pc = pc /\ oreq'.total = oreq.total /\ oreq.pc = "submit"
      BY <1>0, <1>2, <2>1 DEF SubmitOut, Requests
    <2>3. opipe'.banks = opipe.banks /\ UNCHANGED <<orphan, recvOut, nextOut, oddOut>>
      BY <1>2 DEF SubmitOut, OutInv, OutShape
    <2>4. OutOrder' <=> OutOrder
      BY <2>2, <2>3, SameOrder
    <2>5. (OutStart => OutStart') /\ (OutShorts => OutShorts')
      BY <2>2, <2>3 DEF OutStart, OutShorts, Complete, AllFull
    <2>6. OutCredit'
      BY <1>0, <2>2 DEF OutMore, OutCredit
    <2> QED BY Zenon, <2>2, <2>3, <2>4, <2>5, <2>6 DEF OutMore, OutOdd
  <1>3. CASE CopyOrphan
    <2>1. PICK pc \in {"post", "arm"} :
            /\ oreq' = [oreq EXCEPT !.data = orphan, !.pc = pc]
            /\ pc = "post" => oreq.total = 1 \/ orphan[1].kind # "full"
            /\ pc = "arm" => orphan[1].kind = "full"
      BY <1>3 DEF CopyOrphan
    <2>2. /\ oreq'.stashed = oreq.stashed /\ oreq'.sem = oreq.sem /\ oreq'.data = orphan
          /\ oreq'.pc = pc /\ oreq'.total = oreq.total /\ oreq.pc = "copy"
      BY <1>0, <1>3, <2>1 DEF CopyOrphan, Requests
    <2>3. /\ opipe'.banks = opipe.banks /\ orphan' = <<>>
          /\ UNCHANGED <<recvOut, nextOut, oddOut>>
      BY <1>3 DEF CopyOrphan, OutInv, OutShape
    <2>4. orphan # <<>> /\ orphan \in Seq(Data) /\ Len(orphan) = 1
      <3>1. orphan # <<>> /\ orphan \in Seq(Data) /\ Len(orphan) <= 1
        BY <2>2 DEF OutInv, OutShape, OutMore
      <3>2. Len(orphan) \in Nat \ {0}
        BY <3>1, EmptySeq
      <3>3. \A m \in Nat \ {0} : m <= 1 => m = 1
        OBVIOUS
      <3> QED BY <3>1, <3>2, <3>3, Zenon
    <2>5. ASSUME ~OutOdd PROVE OutOrder' /\ OutStart' /\ OutShorts'
      <3>1. OutOrder /\ oreq.data = <<>> /\ oreq.stashed
        BY Zenon, <2>2, <2>4, <2>5 DEF OutMore, OutStart, OutInv, OutAlone
      <3>2. Held' = Held /\ D(1)' = D(1) /\ D(2)' = D(2) /\ Len(oreq.data) = 0
        BY <1>0, <2>2, <2>3, <2>4, <3>1 DEF Held, D
      <3>3. orphan[1].tag = Plus(recvOut, 0)
        BY <2>4, <3>1, <3>2 DEF OutOrder
      <3>4. OutOrder'
        BY <2>2, <2>3, <2>4, <3>1, <3>2, <3>3 DEF OutOrder
      <3>5. OutStart'
        BY <2>2 DEF OutStart
      <3>6. orphan[1].kind \in {"full", "short"}
        <4>1. orphan[1] \in Data
          BY <2>4, ElementOfSeq
        <4> QED BY <4>1 DEF Data
      <3>7. CASE pc = "post"
        <4>1. Complete'
          <5>1. AllFull(orphan, 0)
            BY DEF AllFull
          <5>2. oreq.total = 1 \/ orphan[1].kind = "short"
            BY <2>1, <3>6, <3>7
          <5>3. /\ oreq'.data = orphan /\ oreq'.total = oreq.total /\ Len(orphan) - 1 = 0
                /\ Len(orphan) = 1
            BY <2>2, <2>4
          <5> QED BY Zenon, <2>4, <5>1, <5>2, <5>3 DEF Complete, AllFull
        <4> QED BY <2>2, <3>4, <3>5, <3>7, <4>1 DEF OutShorts
      <3>8. CASE pc = "arm"
        <4>1. AllFull(orphan, 1)
          BY <2>1, <3>8 DEF AllFull
        <4> QED BY <2>2, <2>4, <3>1, <3>4, <3>5, <3>8, <4>1 DEF OutShorts, AllFull
      <3> QED BY <3>7, <3>8
    <2>6. OutCredit'
      BY <1>0, <2>2 DEF OutMore, OutCredit
    <2> QED BY Zenon, <1>0, <2>2, <2>3, <2>4, <2>5, <2>6 DEF OutMore, OutOdd
  <1>4. CASE PostOut
    <2>1. oreq' = [oreq EXCEPT !.stashed = FALSE, !.sem = oreq.sem + 1, !.pc = "wait"]
      BY <1>4 DEF PostOut
    <2>2. /\ ~oreq'.stashed /\ oreq'.sem = oreq.sem + 1 /\ oreq'.data = oreq.data
          /\ oreq'.pc = "wait" /\ oreq'.total = oreq.total /\ oreq.pc = "post"
      BY <1>0, <1>4, <2>1 DEF PostOut, Requests
    <2>3. /\ UNCHANGED <<opipe, orphan, recvOut, nextOut>> /\ oddOut \subseteq oddOut'
          /\ oddOut' \subseteq oddOut \cup {"reposted"}
      BY <1>4 DEF PostOut
    <2>4. OutOrder' <=> OutOrder
      BY <2>2, <2>3, SameOrder
    <2>5. OutStart' /\ (OutShorts => OutShorts')
      BY <2>2, <2>3 DEF OutStart, OutShorts, Complete, AllFull
    <2>6. OutCredit'
      BY <1>0, <2>2 DEF OutMore, OutCredit
    <2>7. (~OutOdd' => ~OutOdd) /\ (oddOut \subseteq OutRaces => oddOut' \subseteq OutRaces)
      BY <2>3 DEF OutOdd, OutRaces
    <2> QED BY Zenon, <2>2, <2>3, <2>4, <2>5, <2>6, <2>7 DEF OutMore
  <1>5. CASE WakeOut
    <2>1. ReturnOut(oreq.stashed, oreq.sem - 1) /\ oreq.sem - 1 \in Nat
      BY <1>0, <1>5 DEF WakeOut
    <2>2. ~OutOdd => ~oreq.stashed
      BY <1>0, <1>5 DEF WakeOut, OutInv, OutOnce, Pending, Posted, Clear, OutOdd
    <2> QED BY <1>0, <2>1, <2>2, ReturnOutMore
  <1>6. CASE TimeOutOut
    <2>1. oreq' = [oreq EXCEPT !.pc = "expired"]
      BY <1>6 DEF TimeOutOut
    <2>2. /\ oreq'.stashed = oreq.stashed /\ oreq'.sem = oreq.sem /\ oreq'.data = oreq.data
          /\ oreq'.pc = "expired" /\ oreq'.total = oreq.total /\ oreq.pc = "wait"
      BY <1>0, <1>6, <2>1 DEF TimeOutOut, Requests
    <2>3. UNCHANGED <<opipe, orphan, recvOut, nextOut, oddOut>>
      BY <1>6 DEF TimeOutOut
    <2>4. OutOrder' <=> OutOrder
      BY <2>2, <2>3, SameOrder
    <2>5. OutStart' /\ (OutShorts => OutShorts')
      BY <2>2, <2>3 DEF OutStart, OutShorts, Complete, AllFull
    <2>6. OutCredit'
      BY <1>0, <2>2 DEF OutMore, OutCredit
    <2> QED BY <2>2, <2>3, <2>4, <2>5, <2>6 DEF OutMore, OutOdd
  <1>7. CASE DropOut
    <2>1. ReturnOut(FALSE, oreq.sem)
      BY <1>7, Zenon DEF DropOut
    <2>2. oreq.sem <= oreq.sem
      BY <1>0
    <2> QED BY <1>0, <2>1, <2>2, ReturnOutMore, Zenon
  <1>8. CASE ArmOut
    <2>1. oreq' = [oreq EXCEPT !.pc = "wait"] /\ opipe' = [opipe EXCEPT !.pid = "buf"]
      BY <1>8 DEF ArmOut
    <2>2. /\ oreq'.stashed = oreq.stashed /\ oreq'.sem = oreq.sem /\ oreq'.data = oreq.data
          /\ oreq'.pc = "wait" /\ oreq'.total = oreq.total /\ oreq.pc = "arm"
      BY <1>0, <1>8, <2>1 DEF ArmOut, Requests
    <2>3. opipe'.banks = opipe.banks /\ UNCHANGED <<orphan, recvOut, nextOut, oddOut>>
      BY <1>8, <2>1 DEF ArmOut, OutInv, OutShape
    <2>4. OutOrder' <=> OutOrder
      BY <2>2, <2>3, SameOrder
    <2>5. OutStart' /\ (OutShorts => OutShorts')
      BY <2>2, <2>3 DEF OutStart, OutShorts, Complete, AllFull
    <2>6. OutCredit'
      BY <1>0, <2>2 DEF OutMore, OutCredit
    <2> QED BY Zenon, <2>2, <2>3, <2>4, <2>5, <2>6 DEF OutMore, OutOdd
  <1> QED BY <1>1, <1>2, <1>3, <1>4, <1>5, <1>6, <1>7, <1>8 DEF OutThread, OutSubmit

(* The buffer and the banks after draining, packet by packet.                   *)
LEMMA DrainElements ==
  ASSUME OutShape, oreq.data \in Seq(Data), NEW k \in 0 .. Len(opipe.banks),
         \A i \in 1 .. k : opipe.banks[i] \in Data
  PROVE  /\ Drain(k) \in Seq(Data) /\ Len(Drain(k)) = Len(oreq.data) + k
         /\ \A i \in 1 .. Len(oreq.data) : Drain(k)[i] = oreq.data[i]
         /\ \A i \in 1 .. k : Drain(k)[Len(oreq.data) + i] = opipe.banks[i]
         /\ k = 0 => Drain(k) = oreq.data
  <1> DEFINE b == SubSeq(opipe.banks, 1, k)
             l == Len(oreq.data)
  <1>1. Len(opipe.banks) \in Nat /\ l \in Nat /\ k \in Int /\ 1 \in Int /\ k >= 0
    BY DEF OutShape
  <1>2. b \in Seq(Data) /\ Len(b) = k /\ \A i \in 1 .. k : b[i] = opipe.banks[i]
    <2>1. /\ b \in Seq(Data) /\ Len(b) = IF 1 <= k THEN k - 1 + 1 ELSE 0
          /\ \A i \in 1 .. k - 1 + 1 : b[i] = opipe.banks[1 + i - 1]
      BY <1>1, SubSeqProperties
    <2> HIDE DEF b
    <2> QED BY <1>1, <2>1
  <1>3. Drain(k) = oreq.data \o b
    BY DEF Drain
  <1>4. k = 0 => b = <<>>
    BY <1>1, SubSeqEmpty
  <1> HIDE DEF b
  <1>5. /\ oreq.data \o b \in Seq(Data) /\ Len(oreq.data \o b) = l + Len(b)
        /\ \A i \in 1 .. l + Len(b) : (oreq.data \o b)[i] = IF i <= l THEN oreq.data[i] ELSE b[i - l]
    BY ZenonT(30), <1>2, ConcatProperties
  <1>6. ASSUME NEW i \in 1 .. l PROVE Drain(k)[i] = oreq.data[i]
    BY <1>1, <1>2, <1>3, <1>5
  <1>7. ASSUME NEW i \in 1 .. k PROVE Drain(k)[l + i] = opipe.banks[i]
    <2>1. l + i \in 1 .. l + Len(b) /\ ~(l + i <= l) /\ l + i - l = i
      BY <1>1, <1>2
    <2> QED BY <1>2, <1>3, <1>5, <2>1
  <1>8. k = 0 => Drain(k) = oreq.data
    BY <1>3, <1>4, ConcatEmptySeq
  <1> QED BY Zenon, <1>2, <1>3, <1>5, <1>6, <1>7, <1>8

LEMMA DropElements ==
  ASSUME OutShape, NEW j \in 0 .. Len(opipe.banks)
  PROVE  /\ Len(DropFirst(opipe.banks, j)) = Len(opipe.banks) - j
         /\ \A i \in 1 .. Len(opipe.banks) - j :
              DropFirst(opipe.banks, j)[i] = opipe.banks[i + j]
  <1> DEFINE b == opipe.banks
             n == Len(opipe.banks)
             d == SubSeq(b, j + 1, n)
  <1>1. b \in Seq(Packet) /\ n \in Nat /\ j \in Nat /\ j <= n /\ j + 1 \in Int /\ n \in Int
    BY DEF OutShape
  <1>2. \A i \in j + 1 .. n : b[i] \in Packet
    BY <1>1, ElementOfSeq
  <1>3. /\ Len(d) = IF j + 1 <= n THEN n - (j + 1) + 1 ELSE 0
        /\ \A i \in 1 .. n - (j + 1) + 1 : d[i] = b[j + 1 + i - 1]
    BY <1>1, <1>2, SubSeqProperties
  <1>4. DropFirst(b, j) = d
    BY DEF DropFirst
  <1> HIDE DEF b, n, d
  <1>5. Len(d) = n - j
    BY <1>1, <1>3
  <1>6. ASSUME NEW i \in 1 .. n - j PROVE d[i] = b[i + j]
    <2>1. i \in 1 .. n - (j + 1) + 1 /\ j + 1 + i - 1 = i + j
      BY <1>1
    <2> QED BY <1>3, <2>1
  <1> QED BY <1>4, <1>5, <1>6 DEF b, n

(* Moving the first k banks into the buffer, and dropping a zero-length packet  *)
(* behind them, keeps the order.                                                *)
LEMMA DrainOrder ==
  ASSUME OutInv, OutMore, OutOrder, NEW k \in 0 .. Len(opipe.banks),
         NEW j \in 0 .. Len(opipe.banks), j = k \/ (j = k + 1 /\ opipe.banks[j] = Zlp),
         \A i \in 1 .. k : opipe.banks[i] \in Data, k > 0 => orphan = <<>>,
         oreq'.data = Drain(k), opipe'.banks = DropFirst(opipe.banks, j),
         UNCHANGED <<orphan, recvOut, nextOut>>
  PROVE  OutOrder'
  <1> DEFINE b == opipe.banks
             c == opipe'.banks
             l == Len(oreq.data)
             n == Len(opipe.banks)
             h == Len(orphan)
  <1>1. /\ l \in Nat /\ h \in Nat /\ n \in 0 .. 2 /\ Held = l + h
        /\ D(1) \in 0 .. 1 /\ D(2) \in 0 .. 1
    BY Zenon, InFlight DEF Held
  <1>2. /\ Len(oreq'.data) = l + k
        /\ \A i \in 1 .. l : oreq'.data[i] = oreq.data[i]
        /\ \A i \in 1 .. k : oreq'.data[l + i] = b[i]
    BY DrainElements DEF OutInv, OutMore
  <1>3. Len(c) = n - j /\ \A i \in 1 .. n - j : c[i] = b[i + j]
    BY Zenon, DropElements DEF OutInv
  <1>4. k > 0 => h = 0
    BY DEF OutInv
  <1>5. \A i \in 1 .. k : b[i] # Zlp
    BY DEF Data, Zlp
  <1>6. Held' = Held + k
    BY <1>1, <1>2 DEF Held
  <1>7. /\ D(1) = (IF 1 <= n /\ b[1] # Zlp THEN 1 ELSE 0)
        /\ D(2) = (IF 2 <= n /\ b[2] # Zlp THEN 1 ELSE 0)
        /\ D(1)' = (IF 1 <= Len(c) /\ c[1] # Zlp THEN 1 ELSE 0)
        /\ D(2)' = (IF 2 <= Len(c) /\ c[2] # Zlp THEN 1 ELSE 0)
    BY Zenon DEF D
  <1>8. /\ \A i \in 1 .. l : oreq.data[i].tag = Plus(recvOut, i - 1)
        /\ orphan # <<>> => orphan[1].tag = Plus(recvOut, l)
        /\ D(1) = 1 => b[1].tag = Plus(recvOut, l + h)
        /\ D(2) = 1 => b[2].tag = Plus(recvOut, l + h + D(1))
        /\ nextOut = Plus(recvOut, l + h + D(1) + D(2))
    BY Zenon, <1>1 DEF OutOrder
  <1>9. SUFFICES
          /\ \A i \in 1 .. l + k : oreq'.data[i].tag = Plus(recvOut, i - 1)
          /\ orphan # <<>> => orphan[1].tag = Plus(recvOut, l + k)
          /\ D(1)' = 1 => c[1].tag = Plus(recvOut, l + h + k)
          /\ D(2)' = 1 => c[2].tag = Plus(recvOut, l + h + k + D(1)')
          /\ nextOut = Plus(recvOut, l + h + k + D(1)' + D(2)')
    BY Zenon, <1>1, <1>2, <1>6 DEF OutOrder
  <1> HIDE DEF b, c, l, n, h
  <1>10. k \in 0 .. 2 /\ j \in 0 .. 2 /\ k <= n /\ j <= n
    BY <1>1 DEF n
  <1>11. j = k \/ (j = k + 1 /\ b[j] = Zlp)
    BY Zenon DEF b
  <1>12. ASSUME NEW i \in 1 .. l + k PROVE oreq'.data[i].tag = Plus(recvOut, i - 1)
    <2>1. CASE i <= l
      BY <1>1, <1>2, <1>8, <2>1
    <2>2. CASE i = l + 1 /\ k >= 1
      <3>1. D(1) = 1 /\ l + h = i - 1
        BY <1>1, <1>4, <1>5, <1>7, <1>10, <2>2
      <3>2. oreq'.data[i] = b[1]
        BY <1>2, <2>2
      <3> QED BY Zenon, <1>8, <3>1, <3>2
    <2>3. CASE i = l + 2 /\ k = 2
      <3>1. D(1) = 1 /\ D(2) = 1 /\ l + h + D(1) = i - 1
        BY <1>1, <1>4, <1>5, <1>7, <1>10, <2>3
      <3>2. oreq'.data[i] = b[2]
        BY <1>2, <2>3
      <3> QED BY Zenon, <1>8, <3>1, <3>2
    <2> QED BY <1>1, <1>10, <2>1, <2>2, <2>3
  <1>13. orphan # <<>> => k = 0 /\ l + k = l
    BY <1>1, <1>10
  <1>14. /\ D(1)' = 1 => c[1].tag = Plus(recvOut, l + h + k)
         /\ D(2)' = 1 => c[2].tag = Plus(recvOut, l + h + k + D(1)')
         /\ l + h + k + D(1)' + D(2)' = l + h + D(1) + D(2)
    <2>1. CASE k = 0 /\ j = 0
      <3>1. Len(c) = n /\ \A i \in 1 .. n : c[i] = b[i]
        BY <1>1, <1>3, <2>1
      <3>2. /\ D(1)' = D(1) /\ D(2)' = D(2) /\ l + h + k = l + h
            /\ l + h + k + D(1)' = l + h + D(1)
        BY <1>1, <1>7, <2>1, <3>1
      <3>3. (D(1) = 1 => c[1] = b[1]) /\ (D(2) = 1 => c[2] = b[2])
        BY <1>1, <1>7, <3>1
      <3> QED BY Zenon, <1>8, <3>2, <3>3
    <2>2. CASE k = 0 /\ j = 1
      <3>1. D(1) = 0 /\ D(2)' = 0 /\ D(1)' = D(2)
        BY <1>1, <1>3, <1>7, <1>10, <1>11, <2>2
      <3>2. D(2) = 1 => c[1] = b[2]
        BY <1>1, <1>3, <1>7, <2>2
      <3>3. /\ l + h + k + D(1)' + D(2)' = l + h + D(1) + D(2)
            /\ l + h + k = l + h + D(1)
        BY <1>1, <2>2, <3>1
      <3> QED BY <1>8, <3>1, <3>2, <3>3
    <2>3. CASE k = 1 /\ j = 1
      <3>1. D(1) = 1 /\ D(2)' = 0 /\ D(1)' = D(2) /\ h = 0
        BY <1>1, <1>3, <1>4, <1>5, <1>7, <1>10, <2>3
      <3>2. D(2) = 1 => c[1] = b[2]
        BY <1>1, <1>3, <1>7, <2>3
      <3>3. /\ l + h + k + D(1)' + D(2)' = l + h + D(1) + D(2)
            /\ l + h + k = l + h + D(1)
        BY <1>1, <2>3, <3>1
      <3> QED BY SMTT(30), <1>8, <3>1, <3>2, <3>3
    <2>4. CASE k = 1 /\ j = 2
      <3>1. D(1) = 1 /\ D(2) = 0 /\ D(2)' = 0 /\ D(1)' = 0 /\ h = 0
        BY <1>1, <1>3, <1>4, <1>5, <1>7, <1>10, <1>11, <2>4
      <3> QED BY <1>1, <2>4, <3>1
    <2>5. CASE k = 2 /\ j = 2
      <3>1. D(1) = 1 /\ D(2) = 1 /\ D(2)' = 0 /\ D(1)' = 0 /\ h = 0
        BY <1>1, <1>3, <1>4, <1>5, <1>7, <1>10, <2>5
      <3> QED BY <1>1, <2>5, <3>1
    <2>6. \/ k = 0 /\ j = 0
          \/ k = 0 /\ j = 1
          \/ k = 1 /\ j = 1
          \/ k = 1 /\ j = 2
          \/ k = 2 /\ j = 2
      BY <1>10, <1>11
    <2> QED BY Zenon, <2>1, <2>2, <2>3, <2>4, <2>5, <2>6
  <1> QED BY Zenon, <1>8, <1>12, <1>13, <1>14

(* A packet taken into the orphan buffer, or released, was the next in order.   *)
LEMMA CaptureMore ==
  ASSUME OutInv, OutMore, CaptureOrphan, UNCHANGED <<nextOut, recvOut>>
  PROVE  OutMore'
  <1> DEFINE b == opipe.banks
             c == opipe'.banks
  <1>1. oreq' = oreq /\ ~oreq.stashed /\ orphan = <<>> /\ b # <<>> /\ b \in Seq(Packet)
    BY DEF CaptureOrphan, Capture, OutInv, OutShape
  <1>2. Len(b) \in 1 .. 2
    <2>1. \A m \in 0 .. 2 : m \in Nat \ {0} => m \in 1 .. 2
      OBVIOUS
    <2>2. Len(b) \in 0 .. 2 /\ Len(b) \in Nat \ {0}
      BY Zenon, <1>1, InFlight, EmptySeq
    <2> QED BY <2>1, <2>2, Zenon
  <1>3. c = Tail(b)
    BY DEF CaptureOrphan, Capture, OutInv, OutShape
  <1>4. Len(c) = Len(b) - 1 /\ \A i \in 1 .. Len(c) : c[i] = b[i + 1]
    BY <1>1, <1>3, HeadTailProperties
  <1>5. Head(b) = b[1] /\ b[1] \in Packet
    BY <1>1, <1>2
  <1>6. IF b[1] = Zlp THEN orphan' = orphan ELSE orphan' = <<b[1]>> /\ b[1] \in Data
    BY <1>5 DEF CaptureOrphan, Capture, Packet
  <1>7. ~OutOdd' => ~OutOdd /\ (orphan' = orphan \/ oreq.pc # "submit")
    BY DEF CaptureOrphan, Capture, OutOdd
  <1>8. oddOut' \subseteq OutRaces
    BY DEF CaptureOrphan, Capture, OutMore, OutRaces
  <1>9. orphan' \in Seq(Data)
    <2>1. CASE b[1] = Zlp
      BY <1>6, <2>1 DEF OutMore
    <2>2. CASE b[1] # Zlp
      <3> DEFINE q == b[1]
      <3>1. q \in Data /\ orphan' = <<q>>
        BY Zenon, <1>6, <2>2
      <3> HIDE DEF q
      <3> QED BY <3>1
    <2> QED BY <2>1, <2>2
  <1>10. ASSUME ~OutOdd' PROVE OutOrder' /\ OutStart' /\ OutShorts'
    <2>1. OutOrder /\ OutStart /\ OutShorts /\ OutAlone
      BY <1>7, <1>10 DEF OutMore, OutInv
    <2>2. D(2) \in 0 .. 1 /\ Len(oreq.data) \in Nat /\ Held \in Nat /\ Held = Len(oreq.data)
      BY <1>1, InFlight DEF Held
    <2>3. D(1) = (IF b[1] = Zlp THEN 0 ELSE 1) /\ D(1)' = D(2) /\ D(2)' = 0
      BY <1>2, <1>4 DEF D
    <2>4. D(2) = 1 => c[1] = b[2]
      BY <1>2, <1>4 DEF D
    <2>5. Held' = Held + D(1)
      BY Zenon, <1>1, <1>6, <2>2, <2>3 DEF Held
    <2>6. orphan' # <<>> => orphan'[1] = b[1] /\ D(1) = 1
      BY <1>1, <1>6, <2>3
    <2>7. OutOrder'
      BY SMTT(30), <1>1, <2>1, <2>2, <2>3, <2>4, <2>5, <2>6 DEF OutOrder
    <2>8. OutStart'
      BY Zenon, <1>1, <1>7, <1>10, <2>1 DEF OutStart, OutAlone
    <2>9. OutShorts'
      BY Zenon, <1>1, <2>1 DEF OutShorts, Complete, AllFull
    <2> QED BY <2>7, <2>8, <2>9
  <1> QED BY Zenon, <1>1, <1>8, <1>9, <1>10 DEF OutMore, OutCredit

(* The packets of a request while it is drained into: the full ones first.      *)
LEMMA DrainFull ==
  ASSUME OutInv, OutMore, NEW k \in 0 .. Len(opipe.banks), NEW n \in 0 .. k,
         AllFull(oreq.data, Len(oreq.data)), \A i \in 1 .. k : opipe.banks[i] \in Data,
         \A i \in 1 .. n : opipe.banks[i].kind = "full"
  PROVE  AllFull(Drain(k), Len(oreq.data) + n)
  <1> DEFINE l == Len(oreq.data)
  <1>1. /\ l \in Nat /\ k \in Nat /\ n \in Nat /\ n <= k
        /\ \A i \in 1 .. l : Drain(k)[i] = oreq.data[i]
        /\ \A i \in 1 .. k : Drain(k)[l + i] = opipe.banks[i]
    <2>1. Len(opipe.banks) \in Nat /\ l \in Nat /\ OutShape /\ oreq.data \in Seq(Data)
      BY SMTT(30), InFlight DEF OutInv, OutMore
    <2>2. k \in Nat /\ n \in Nat /\ n <= k
      BY <2>1
    <2> QED BY Zenon, <2>1, <2>2, DrainElements
  <1>2. ASSUME NEW i \in 1 .. l + n PROVE Drain(k)[i].kind = "full"
    <2>1. CASE i <= l
      <3>1. i \in 1 .. l
        BY <1>1, <2>1
      <3>2. Drain(k)[i] = oreq.data[i] /\ oreq.data[i].kind = "full"
        BY Zenon, <1>1, <3>1 DEF AllFull
      <3> QED BY Zenon, <3>2
    <2>2. CASE i > l
      <3>1. i - l \in 1 .. n /\ i - l \in 1 .. k /\ l + (i - l) = i
        BY <1>1, <2>2
      <3>2. Drain(k)[i] = opipe.banks[i - l]
        BY Zenon, <1>1, <3>1
      <3> QED BY Zenon, <3>1, <3>2
    <2> QED BY <1>1, <2>1, <2>2
  <1> QED BY Zenon, <1>2 DEF AllFull

(* Moving full banks into the buffer leaves the request waiting for more.       *)
LEMMA RearmMore ==
  ASSUME OutInv, OutMore, oreq.stashed,
         NEW k \in 0 .. Len(opipe.banks), NEW j \in 0 .. Len(opipe.banks),
         j = k \/ (j = k + 1 /\ opipe.banks[j] = Zlp),
         \A i \in 1 .. k : opipe.banks[i] \in Data,
         \A i \in 1 .. k : opipe.banks[i].kind = "full",
         Rearm("buf", k, j), UNCHANGED <<nextOut, recvOut>>
  PROVE  OutMore'
  <1> DEFINE l == Len(oreq.data)
  <1>0. OutShape /\ oreq \in Requests /\ oreq.data \in Seq(Data)
    BY Zenon DEF OutInv, OutShape, OutMore
  <1>1. Len(opipe.banks) \in 0 .. 2 /\ k \in Nat /\ l \in Nat
    BY InFlight
  <1>2. /\ Drain(k) \in Seq(Data) /\ Len(Drain(k)) = l + k
        /\ (k = 0 => Drain(k) = oreq.data)
    BY Zenon, <1>0, DrainElements
  <1>3. oreq' = [oreq EXCEPT !.data = Drain(k)]
    BY DEF Rearm
  <1>4. /\ oreq'.data = Drain(k) /\ oreq'.stashed /\ oreq'.sem = oreq.sem
        /\ oreq'.pc = oreq.pc /\ oreq'.total = oreq.total
    BY <1>0, <1>3 DEF Requests
  <1>5. opipe'.banks = DropFirst(opipe.banks, j) /\ orphan' = orphan
    BY DEF Rearm
  <1>6. oddOut' \subseteq OutRaces
    BY DEF Rearm, OutMore, OutRaces, Marks
  <1>7. ~OutOdd' => ~OutOdd /\ (k > 0 => orphan = <<>> /\ oreq.pc # "post")
    BY DEF Rearm, Marks, Racing, OutOdd
  <1>8. OutCredit'
    BY Zenon, <1>4 DEF OutMore, OutCredit
  <1>9. ASSUME ~OutOdd' PROVE OutOrder' /\ OutStart' /\ OutShorts'
    <2>1. OutOrder /\ OutStart /\ OutShorts /\ OutOnce
      BY <1>7, <1>9 DEF OutMore, OutInv
    <2>2. OutOrder'
      BY Zenon, <1>4, <1>5, <1>7, <1>9, <2>1, DrainOrder
    <2>3. OutStart'
      <3>1. oreq.pc # "idle"
        BY <2>1 DEF OutOnce
      <3>2. orphan # <<>> => k = 0
        BY <1>1, <1>7, <1>9
      <3> QED BY Zenon, <1>2, <1>4, <1>5, <2>1, <3>1, <3>2 DEF OutStart
    <2>4. CASE oreq.pc = "post"
      <3>1. oreq'.data = oreq.data
        BY <1>1, <1>2, <1>4, <1>7, <1>9, <2>4
      <3> QED BY Zenon, <1>4, <2>1, <2>2, <2>3, <2>4, <3>1 DEF OutShorts, Complete, AllFull
    <2>5. CASE oreq.pc # "post"
      <3>1. AllFull(oreq.data, l)
        BY Zenon, <2>1, <2>5 DEF OutShorts
      <3>2. k \in 0 .. k
        BY <1>1
      <3>3. AllFull(Drain(k), l + k)
        BY Zenon, <3>1, <3>2, DrainFull
      <3>4. OutShorts'
        BY <1>2, <1>4, <2>5, <3>3 DEF OutShorts, AllFull
      <3> QED BY Zenon, <2>2, <2>3, <3>4
    <2> QED BY <2>4, <2>5
  <1> QED BY Zenon, <1>2, <1>4, <1>5, <1>6, <1>8, <1>9 DEF OutMore

(* The interrupt's walk of the OUT pipe.                                        *)
LEMMA WalkOutMore ==
  ASSUME OutInv, OutMore, WalkOut
  PROVE  OutMore'
  <1> DEFINE k == Drained
             l == Len(oreq.data)
  <1>0. /\ OutShape /\ OutFits /\ oreq \in Requests /\ oreq.sem \in Nat /\ oreq.total \in Nat
        /\ oreq.data \in Seq(Data) /\ UNCHANGED <<nextOut, recvOut>>
    BY Zenon DEF WalkOut, OutInv, OutShape, Requests, OutMore
  <1>1. CASE CaptureOrphan
    BY <1>0, <1>1, CaptureMore
  <1>2. CASE OrphanHeld
    <2>1. UNCHANGED <<opipe, oreq, orphan, oddOut>>
      BY <1>2 DEF OrphanHeld
    <2> QED BY Zenon, <1>0, <2>1 DEF OutMore, OutOrder, OutStart, OutShorts, OutCredit, OutOdd, D, Held,
                              Complete, AllFull
  <1>3. /\ k \in 0 .. Len(opipe.banks) /\ l + k <= oreq.total /\ l \in Nat
        /\ (Ends(k) => k > 0)
        /\ \A i \in 1 .. k : opipe.banks[i] \in Data
        /\ \A i \in 1 .. k - 1 : opipe.banks[i].kind = "full"
        /\ ~Ends(k) => \A i \in 1 .. k : opipe.banks[i].kind = "full"
        /\ ~Ends(k) /\ ~Full /\ k # Announced => opipe.banks[k + 1] = Zlp
    BY Zenon, <1>0, DrainedFits, DrainedPackets, InFlight
  <1>4. /\ Len(opipe.banks) \in 0 .. 2 /\ k \in Nat /\ Len(opipe.banks) \in Nat
        /\ Announced \in Nat /\ k <= Announced /\ Announced <= Len(opipe.banks)
    BY <1>0, <1>3, InFlight, DrainedLeast
  <1> HIDE DEF k
  <1>5. /\ Drain(k) \in Seq(Data) /\ Len(Drain(k)) = l + k
        /\ (k = 0 => Drain(k) = oreq.data)
        /\ \A i \in 1 .. k : Drain(k)[l + i] = opipe.banks[i]
    BY Zenon, <1>0, <1>3, DrainElements
  <1>6. CASE FinishOut
    <2>1. oreq' = [oreq EXCEPT !.data = Drain(k), !.stashed = FALSE, !.sem = oreq.sem + 1]
      BY <1>6 DEF FinishOut, k
    <2>2. /\ oreq'.data = Drain(k) /\ ~oreq'.stashed /\ oreq'.sem = oreq.sem + 1
          /\ oreq'.pc = oreq.pc /\ oreq'.total = oreq.total
      BY <1>0, <2>1 DEF Requests
    <2>3. /\ opipe'.banks = DropFirst(opipe.banks, k) /\ Ends(k) /\ k > 0 /\ oreq.stashed
          /\ orphan' = orphan
      BY <1>3, <1>6 DEF FinishOut, k
    <2>4. oddOut' \subseteq OutRaces
      BY <1>6 DEF FinishOut, OutMore, OutRaces, Marks
    <2>5. ~OutOdd' => ~OutOdd /\ orphan = <<>> /\ oreq.pc \notin {"post", "expired", "idle"}
      <3>1. oreq.pc # "idle"
        BY <2>3 DEF OutInv, OutOnce
      <3> QED BY <1>6, <2>3, <3>1 DEF FinishOut, Marks, Racing, OutOdd, k
    <2>6. OutCredit'
      BY <1>0, <2>2, <2>3 DEF OutMore, OutCredit
    <2>7. ASSUME ~OutOdd' PROVE OutOrder' /\ OutStart' /\ OutShorts'
      <3>1. OutOrder /\ OutStart /\ OutShorts /\ orphan = <<>>
        BY <2>5, <2>7 DEF OutMore
      <3>2. OutOrder'
        BY Zenon, <1>0, <1>3, <2>2, <2>3, <3>1, DrainOrder
      <3>3. OutStart'
        BY Zenon, <2>2, <2>3, <2>5, <2>7, <3>1 DEF OutStart
      <3>4. AllFull(oreq.data, l)
        BY Zenon, <2>3, <2>5, <2>7, <3>1 DEF OutShorts
      <3>5. AllFull(Drain(k), l + k - 1)
        <4>1. k - 1 \in 0 .. k /\ l + (k - 1) = l + k - 1
          BY <1>3, <1>4, <2>3
        <4>2. AllFull(Drain(k), l + (k - 1))
          BY Zenon, <1>3, <3>4, <4>1, DrainFull
        <4> QED BY <4>1, <4>2
      <3>6. l + k = oreq.total \/ Drain(k)[l + k].kind = "short"
        <4>1. k \in 1 .. k
          BY <1>4, <2>3
        <4>2. Drain(k)[l + k] = opipe.banks[k] /\ opipe.banks[k].kind \in {"full", "short"}
          BY Zenon, <1>3, <1>5, <4>1 DEF Data
        <4>3. l + k >= oreq.total \/ opipe.banks[k].kind # "full"
          BY Zenon, <2>3 DEF Ends
        <4>4. l + k >= oreq.total => l + k = oreq.total
          <5>1. oreq.total \in Nat
            BY Zenon, <1>0 DEF Requests
          <5> QED BY <1>3, <1>4, <5>1
        <4> QED BY Zenon, <4>2, <4>3, <4>4
      <3>7. Drain(k) # <<>>
        <4>1. Len(Drain(k)) > 0
          BY <1>3, <1>4, <1>5, <2>3
        <4> QED BY <4>1
      <3>8. Complete'
        <4>1. /\ oreq'.data = Drain(k) /\ Len(Drain(k)) = l + k /\ oreq'.total = oreq.total
              /\ l \in Nat /\ k \in Nat
          BY Zenon, <1>3, <1>4, <1>5, <2>2
        <4>2. Len(oreq'.data) = l + k /\ Len(oreq'.data) - 1 = l + k - 1
          BY <4>1
        <4>3. \A i \in 1 .. Len(oreq'.data) - 1 : oreq'.data[i].kind = "full"
          BY Zenon, <3>5, <4>1, <4>2 DEF AllFull
        <4>4. \/ Len(oreq'.data) = oreq'.total
              \/ oreq'.data[Len(oreq'.data)].kind = "short"
          BY Zenon, <3>6, <4>1, <4>2
        <4> QED BY Zenon, <3>7, <4>1, <4>3, <4>4 DEF Complete, AllFull
      <3> QED BY Zenon, <2>2, <3>2, <3>3, <3>8 DEF OutShorts
    <2> QED BY Zenon, <1>0, <1>5, <2>2, <2>3, <2>4, <2>6, <2>7, PlusTag DEF OutMore
  <1>7. CASE RearmOut
    <2>1. /\ Rearm("buf", k, Left) /\ ~Ends(k) /\ oreq.stashed
          /\ Left = IF Full \/ k = Announced THEN k ELSE k + 1
      BY Zenon, <1>7 DEF RearmOut, Left, k
    <2>2. Left \in 0 .. Len(opipe.banks) /\ (Left = k \/ (Left = k + 1 /\ opipe.banks[Left] = Zlp))
      <3>1. \A m, n, a \in Nat : m <= a /\ a <= n /\ m # a => m + 1 \in 0 .. n
        OBVIOUS
      <3> QED BY Zenon, <1>3, <1>4, <2>1, <3>1
    <2> QED BY Zenon, <1>0, <1>3, <2>1, <2>2, RearmMore
  <1>8. CASE DrainLate
    <2>1. PICK m \in 0 .. k : ~Ends(m) /\ Rearm("buf", m, m)
      BY Zenon, <1>8 DEF DrainLate, k
    <2>2. oreq.stashed
      BY <1>8 DEF DrainLate
    <2>3. m \in 0 .. Len(opipe.banks) /\ \A i \in 1 .. m : i \in 1 .. k
      BY <1>3, <1>4
    <2>4. ASSUME NEW i \in 1 .. m PROVE opipe.banks[i].kind = "full"
      <3>1. CASE i = m
        BY <1>4, <2>1, <3>1 DEF Ends
      <3>2. CASE i # m
        <4>1. i \in 1 .. k - 1
          BY <1>4, <3>2
        <4> QED BY <1>3, <4>1
      <3> QED BY <3>1, <3>2
    <2> QED BY Zenon, <1>0, <1>3, <2>1, <2>2, <2>3, <2>4, RearmMore
  <1>9. CASE CaptureLate
    <2>1. UNCHANGED <<opipe, oreq, orphan, oddOut>>
      BY <1>9 DEF CaptureLate
    <2> QED BY Zenon, <1>0, <2>1 DEF OutMore, OutOrder, OutStart, OutShorts, OutCredit, OutOdd, D, Held,
                              Complete, AllFull
  <1> QED BY Zenon, <1>1, <1>2, <1>6, <1>7, <1>8, <1>9 DEF WalkOut

--------------------------------------------------------------------------------
(* The packets of the IN pipe, step by step.                                    *)

(* The bank of the IN pipe holds one packet at most.                            *)
LEMMA BankOne ==
  ASSUME InInv, InMore, ipipe.bank # <<>>
  PROVE  /\ ipipe.bank = <<ipipe.bank[1]>> /\ ipipe.bank[1] \in Packet
         /\ Waiting = IF ipipe.bank[1] = Zlp THEN 0 ELSE 1
  <1> DEFINE b == ipipe.bank
  <1>1. b \in Seq(Packet) /\ b # <<>> /\ Len(b) <= 1
    BY Zenon DEF InInv, InShape, InPipes, InMore
  <1>2. Len(b) = 1
    <2>1. Len(b) \in Nat \ {0}
      BY Zenon, <1>1, EmptySeq
    <2>2. \A m \in Nat \ {0} : m <= 1 => m = 1
      OBVIOUS
    <2> QED BY <1>1, <2>1, <2>2, Zenon
  <1>3. b[1] \in Packet
    BY <1>1, <1>2, ElementOfSeq
  <1>4. b = <<b[1]>>
    <2> DEFINE q == b[1]
    <2>1. <<q>> \in Seq(Packet) /\ Len(<<q>>) = 1 /\ <<q>>[1] = q
      BY <1>3
    <2>2. \A i \in 1 .. Len(b) : b[i] = <<q>>[i]
      BY <1>2, <2>1
    <2> HIDE DEF q
    <2>3. b = <<q>>
      BY Zenon, <1>1, <1>2, <2>1, <2>2, SeqEqual
    <2> QED BY Zenon, <2>3 DEF q
  <1>5. b = <<Zlp>> <=> b[1] = Zlp
    BY <1>4
  <1> QED BY Zenon, <1>1, <1>3, <1>4, <1>5 DEF Waiting

(* Nothing of the order depends on PID, BEMP or the semaphore.                  *)
LEMMA SameInOrder ==
  ASSUME ipipe'.bank = ipipe.bank, ireq'.sent = ireq.sent, ireq'.total = ireq.total,
         ireq'.pc = ireq.pc, ireq'.stashed = ireq.stashed, UNCHANGED <<baseIn, hostIn>>
  PROVE  InOrder' <=> InOrder
  BY Zenon DEF InOrder, Waiting

(* A step of the host, or of the controller.                                    *)
LEMMA HostInMore ==
  ASSUME InInv, InMore, HostIn \/ FallToNak
  PROVE  InMore'
  <1>0. /\ ipipe \in InPipes /\ ireq \in InRequests /\ <<>> \in Seq(Packet) /\ Len(<<>>) = 0
        /\ hostIn \in Tag /\ baseIn \in Tag
    BY DEF InInv, InShape, InMore
  <1>1. CASE HostIn
    <2>1. ipipe' = [ipipe EXCEPT !.bank = <<>>, !.bemp = TRUE] /\ ipipe.bank # <<>>
      BY <1>1 DEF HostIn
    <2>2. ipipe'.bank = <<>> /\ Waiting' = 0
      BY <1>0, <2>1 DEF InPipes, Waiting
    <2>3. hostIn' = (IF ipipe.bank[1] = Zlp THEN hostIn ELSE Plus(hostIn, 1))
            /\ UNCHANGED <<ireq, baseIn, glitches, oddIn>>
      BY <1>1 DEF HostIn
    <2>4. hostIn' = Plus(hostIn, Waiting) /\ hostIn' \in Tag /\ Plus(hostIn', 0) = hostIn'
      <3>1. Waiting = IF ipipe.bank[1] = Zlp THEN 0 ELSE 1
        BY <2>1, BankOne
      <3>2. 0 + 0 < Tags
        BY UsbAssumption
      <3>3. hostIn' = Plus(hostIn, Waiting)
        BY <1>0, <2>3, <3>1, <3>2, PlusPlus
      <3>4. hostIn' \in Tag
        BY Zenon, <1>0, <2>3, PlusTag
      <3> QED BY Zenon, <3>2, <3>3, <3>4, PlusPlus
    <2>5. InOrder => InOrder'
      BY <2>2, <2>3, <2>4 DEF InOrder
    <2> QED BY <1>0, <2>2, <2>3, <2>4, <2>5 DEF InMore
  <1>2. CASE FallToNak
    <2>1. ipipe' = [ipipe EXCEPT !.pid = "nak"]
      BY <1>2 DEF FallToNak
    <2>2. ipipe'.bank = ipipe.bank /\ UNCHANGED <<ireq, baseIn, hostIn, glitches, oddIn>>
      BY <1>0, <1>2, <2>1 DEF FallToNak, InPipes
    <2>3. InOrder' <=> InOrder
      BY Zenon, <2>2, SameInOrder
    <2> QED BY Zenon, <2>2, <2>3 DEF InMore
  <1> QED BY Zenon, <1>1, <1>2

(* The next chunk in an empty bank is the packet the host expects.              *)
LEMMA ChunkNext ==
  ASSUME InInv, InMore, InOrder, ipipe.bank = <<>>, ireq.pc # "idle", ireq.sent < ireq.total,
         ipipe'.bank = <<Chunk(ireq.sent)>>, ireq'.sent = ireq.sent + 1,
         ireq'.pc \in {"wait", "expired"}, ireq'.stashed, UNCHANGED <<baseIn, hostIn>>
  PROVE  InOrder'
  <1> DEFINE s == ireq.sent
             q == Chunk(ireq.sent)
  <1>1. /\ s \in Nat /\ ireq.total \in Nat /\ baseIn \in Tag /\ hostIn \in Tag
        /\ ireq.total <= MaxReq
    BY Zenon DEF InInv, InShape, InRequests, InMore
  <1>2. s + 1 < Tags /\ 0 + 0 < Tags
    BY <1>1, UsbAssumption
  <1>3. Plus(baseIn, s) = hostIn
    <2>1. Waiting = 0
      BY Zenon DEF Waiting
    <2>2. Plus(baseIn, s) = Plus(hostIn, 0)
      BY Zenon, <2>1 DEF InOrder
    <2> QED BY Zenon, <1>1, <1>2, <2>2, PlusPlus
  <1>4. Plus(baseIn, s + 1) = Plus(hostIn, 1)
    BY <1>1, <1>2, <1>3, PlusPlus
  <1>5. q.tag = hostIn /\ q # Zlp
    BY Zenon, <1>3 DEF Chunk, Zlp
  <1> HIDE DEF q
  <1>6. ipipe'.bank = <<q>>
    BY Zenon DEF q
  <1>7. Waiting' = 1 /\ ipipe'.bank[1] = q
    <2>1. ipipe'.bank[1] = q /\ <<q>> # <<>> /\ <<q>> # <<Zlp>>
      BY Zenon, <1>5, <1>6, OneElement
    <2> QED BY Zenon, <1>6, <2>1 DEF Waiting
  <1> QED BY Zenon, <1>4, <1>5, <1>7 DEF InOrder

(* The steps of the class thread.                                               *)
LEMMA InThreadMore ==
  ASSUME InInv, InMore, InServed, InThread
  PROVE  InMore'
  <1>0. /\ InShape /\ ipipe \in InPipes /\ ireq \in InRequests /\ baseIn \in Tag /\ hostIn \in Tag
        /\ ireq.sem \in Nat /\ ireq.stashed \in BOOLEAN /\ ireq.total \in Nat /\ ireq.sent \in Nat
        /\ MaxReq \in Nat /\ 0 + 0 < Tags /\ MaxGlitches \in Nat
    BY UsbAssumption DEF InInv, InShape, InRequests, InMore
  <1>1. ASSUME NEW n \in 0 .. MaxReq, NEW zlp \in BOOLEAN, StashIn(n, zlp) PROVE InMore'
    <2>1. ireq' = [ireq EXCEPT !.stashed = TRUE, !.total = n, !.sent = 0, !.zlp = zlp,
                               !.pc = "stage"]
      BY <1>1 DEF StashIn
    <2>2. /\ ireq'.stashed /\ ireq'.sem = ireq.sem /\ ireq'.pc = "stage" /\ ireq'.sent = 0
          /\ ireq'.total = n /\ ireq.pc = "idle" /\ ~InOdd
          /\ UNCHANGED <<ipipe, baseIn, hostIn, glitches, oddIn>>
      BY <1>0, <1>1, <2>1 DEF StashIn, InRequests
    <2>3. InOrder /\ ireq.sem = 0 /\ Plus(baseIn, 0) = baseIn
      BY Zenon, <1>0, <2>2, PlusPlus DEF InOdd, InMore, InInv, InOnce
    <2>4. InOrder'
      BY Zenon, <2>2, <2>3 DEF InOrder, Waiting
    <2> QED BY <1>0, <2>2, <2>3, <2>4 DEF InMore
  <1>2. CASE StageFirst
    <2> DEFINE p == IF ireq.total = 0 THEN Zlp ELSE Chunk(0)
               s == IF ireq.total = 0 THEN 0 ELSE 1
    <2>0. ireq.pc = "stage" /\ UNCHANGED <<baseIn, hostIn, oddIn>>
      BY <1>2 DEF StageFirst
    <2>1. CASE /\ Ready /\ ipipe' = Loaded(p)
               /\ ireq' = [ireq EXCEPT !.sent = s, !.pc = "wait"]
      <3>1. p \in Packet /\ s \in Nat /\ s <= ireq.total
        BY <1>0, ChunkPacket DEF Packet
      <3>2. ipipe'.bank = <<p>> /\ ipipe.bank = <<>> /\ glitches' = glitches
        BY <1>0, <2>1, <3>1, LoadedShape DEF Ready
      <3>3. /\ ireq'.stashed = ireq.stashed /\ ireq'.sem = ireq.sem /\ ireq'.pc = "wait"
            /\ ireq'.total = ireq.total /\ ireq'.sent = s
        <4> HIDE DEF p, s
        <4> QED BY <1>0, <2>1 DEF InRequests
      <3>4. ASSUME oddIn \subseteq {"unterminated"} PROVE InOrder'
        <4>1. InOrder /\ ireq.stashed /\ ireq.sent = 0
          BY Zenon, <2>0, <3>4 DEF InMore, InOrder, InInv, InOnce, Due
        <4>2. CASE ireq.total = 0
          <5>1. ipipe'.bank = <<Zlp>> /\ Waiting' = 0 /\ Waiting = 0
            BY Zenon, <3>2, <4>2 DEF Waiting
          <5> QED BY <2>0, <3>3, <4>1, <4>2, <5>1 DEF InOrder
        <4>3. CASE ireq.total # 0
          <5>1. /\ ipipe'.bank = <<Chunk(ireq.sent)>> /\ ireq'.sent = ireq.sent + 1
                /\ ireq.sent < ireq.total
            BY SMTT(30), <1>0, <3>2, <3>3, <4>1, <4>3
          <5> QED BY Zenon, <2>0, <3>2, <3>3, <4>1, <5>1, ChunkNext
        <4> QED BY <4>2, <4>3
      <3>5. Len(ipipe'.bank) <= 1
        <4> HIDE DEF p
        <4> QED BY SMTT(30), <3>1, <3>2
      <3> QED BY Zenon, <1>0, <2>0, <3>1, <3>2, <3>3, <3>4, <3>5 DEF InMore
    <2>2. CASE FifoTimeout /\ ireq' = [ireq EXCEPT !.pc = "failed"] /\ UNCHANGED ipipe
      <3>1. /\ ireq'.stashed = ireq.stashed /\ ireq'.sem = ireq.sem /\ ireq'.pc = "failed"
            /\ ireq'.total = ireq.total /\ ireq'.sent = ireq.sent
        BY <1>0, <2>2 DEF InRequests
      <3>2. glitches' \in 0 .. MaxGlitches
        BY <1>0, <2>2 DEF FifoTimeout, InMore
      <3>3. InOrder => InOrder'
        BY <2>0, <2>2, <3>1 DEF InOrder, Waiting
      <3> QED BY <2>0, <2>2, <3>1, <3>2, <3>3 DEF InMore
    <2> QED BY <1>2, <2>1, <2>2 DEF StageFirst
  <1>3. CASE StageFailed
    <2>1. ireq' = [ireq EXCEPT !.stashed = FALSE, !.pc = "idle"]
      BY <1>3 DEF StageFailed
    <2>2. /\ ~ireq'.stashed /\ ireq'.sem = ireq.sem /\ ireq'.pc = "idle"
          /\ ireq'.total = ireq.total /\ ireq'.sent = ireq.sent /\ ireq.pc = "failed"
          /\ UNCHANGED <<ipipe, baseIn, hostIn, glitches, oddIn>>
      BY <1>0, <1>3, <2>1 DEF StageFailed, InRequests
    <2>3. Plus(baseIn, 0) = baseIn
      BY <1>0, PlusPlus
    <2>4. InOrder => InOrder'
      BY Zenon, <2>2, <2>3 DEF InOrder, Waiting
    <2> QED BY <1>0, <2>2, <2>4 DEF InMore
  <1>4. CASE WakeIn
    <2>1. ireq' = [ireq EXCEPT !.sem = ireq.sem - 1, !.pc = "idle"] /\ ireq.sem > 0
      BY <1>4 DEF WakeIn
    <2>2. /\ ireq'.stashed = ireq.stashed /\ ireq'.sem = ireq.sem - 1 /\ ireq'.pc = "idle"
          /\ ireq'.total = ireq.total /\ ireq'.sent = ireq.sent /\ ireq.pc = "wait"
          /\ baseIn' = Plus(baseIn, ireq.total) /\ UNCHANGED <<ipipe, hostIn, glitches, oddIn>>
      BY <1>0, <1>4, <2>1 DEF WakeIn, InRequests
    <2>3. ASSUME oddIn \subseteq {"unterminated"} PROVE InOrder'
      <3>1. InOrder /\ ~ireq.stashed
        BY <1>0, <2>1, <2>2, <2>3 DEF InMore, InInv, InOnce
      <3>2. ireq.sent = ireq.total
        BY Zenon, <2>2, <3>1 DEF InOrder
      <3> QED BY Zenon, <2>2, <3>1, <3>2 DEF InOrder, Waiting
    <2> QED BY <1>0, <2>1, <2>2, <2>3 DEF InMore
  <1>5. CASE TimeOutIn
    <2>1. ireq' = [ireq EXCEPT !.pc = "expired"]
      BY <1>5 DEF TimeOutIn
    <2>2. /\ ireq'.stashed = ireq.stashed /\ ireq'.sem = ireq.sem /\ ireq'.pc = "expired"
          /\ ireq'.total = ireq.total /\ ireq'.sent = ireq.sent /\ ireq.pc = "wait"
          /\ UNCHANGED <<ipipe, baseIn, hostIn, glitches, oddIn>>
      BY <1>0, <1>5, <2>1 DEF TimeOutIn, InRequests
    <2>3. InOrder => InOrder'
      BY Zenon, <2>2 DEF InOrder, Waiting
    <2> QED BY Zenon, <2>2, <2>3 DEF InMore
  <1>6. CASE DropIn
    <2>1. ireq' = [ireq EXCEPT !.stashed = FALSE, !.pc = "idle"]
      BY <1>6 DEF DropIn
    <2>2. /\ ~ireq'.stashed /\ ireq'.sem = ireq.sem
          /\ ireq'.total = ireq.total /\ ireq'.sent = ireq.sent
          /\ UNCHANGED <<ipipe, hostIn, glitches>> /\ oddIn' \subseteq oddIn \cup {"abandoned"}
          /\ ireq.pc = "expired" /\ ireq'.pc = "idle" /\ baseIn' = Plus(baseIn, ireq.total)
      BY <1>0, <1>6, <2>1 DEF DropIn, InRequests
    <2>3. ASSUME oddIn' \subseteq {"unterminated"} PROVE InOrder'
      <3>1. Quiet /\ oddIn \subseteq {"unterminated"}
        BY <1>6, <2>3 DEF DropIn, Quiet
      <3>2. ireq.stashed /\ InOrder
        BY <2>2, <3>1 DEF InMore, InInv, InOnce, Due
      <3>3. ireq.sent = ireq.total
        BY <2>2, <3>1, <3>2 DEF InServed
      <3> QED BY Zenon, <2>2, <3>1, <3>2, <3>3 DEF InOrder, Waiting, Quiet
    <2> QED BY <1>0, <2>2, <2>3 DEF InMore, InRaces
  <1> QED BY Zenon, <1>1, <1>2, <1>3, <1>4, <1>5, <1>6 DEF InThread, InSubmit

(* The interrupt's walk of the IN pipe.                                         *)
LEMMA WalkInMore ==
  ASSUME InInv, InMore, WalkIn
  PROVE  InMore'
  <1>0. /\ InShape /\ ipipe \in InPipes /\ ireq \in InRequests /\ UNCHANGED <<baseIn, hostIn>>
        /\ ireq.sem \in Nat /\ ireq.stashed \in BOOLEAN /\ ireq.total \in Nat /\ ireq.sent \in Nat
        /\ MaxGlitches \in Nat
    BY UsbAssumption DEF InInv, InShape, InRequests, WalkIn
  <1>1. CASE RearmIn
    <2>1. ipipe' = [ipipe EXCEPT !.pid = "buf"] /\ UNCHANGED <<ireq, glitches, oddIn>>
      BY <1>1 DEF RearmIn
    <2>2. ipipe'.bank = ipipe.bank
      BY <1>0, <2>1 DEF InPipes
    <2>3. InOrder' <=> InOrder
      BY <1>0, <2>1, <2>2, SameInOrder
    <2> QED BY <1>0, <2>1, <2>2, <2>3 DEF InMore
  <1>2. ASSUME NEW f \in BOOLEAN, Stage(FALSE, f), ireq.stashed, ireq.sent < ireq.total
        PROVE  InMore'
    <2> DEFINE p == Chunk(ireq.sent)
    <2>1. CASE /\ Ready /\ ipipe' = [Loaded(p) EXCEPT !.bemp = FALSE]
               /\ ireq' = [ireq EXCEPT !.sent = @ + 1]
               /\ oddIn' = oddIn \cup (IF ireq.pc \in {"stage", "failed"}
                                       THEN {"restaged"} ELSE {})
      <3>1. p \in Packet
        BY <1>0, ChunkPacket
      <3>2. Loaded(p) \in InPipes /\ Loaded(p).bank = <<p>>
        BY Zenon, <1>0, <3>1, LoadedShape
      <3>3. ipipe'.bank = <<p>> /\ ipipe.bank = <<>> /\ glitches' = glitches
        <4> HIDE DEF p
        <4> QED BY <2>1, <3>2 DEF InPipes, Ready
      <3>4. /\ ireq'.stashed = ireq.stashed /\ ireq'.sem = ireq.sem /\ ireq'.pc = ireq.pc
            /\ ireq'.total = ireq.total /\ ireq'.sent = ireq.sent + 1
        BY <1>0, <2>1 DEF InRequests
      <3>5. /\ oddIn' \subseteq {"unterminated"}
                 => oddIn \subseteq {"unterminated"} /\ ireq.pc \notin {"stage", "failed"}
            /\ oddIn' \subseteq InRaces
        BY Zenon, <2>1 DEF InMore, InRaces
      <3>6. Len(ipipe'.bank) <= 1
        <4> HIDE DEF p
        <4> QED BY <3>1, <3>3
      <3>7. ASSUME oddIn' \subseteq {"unterminated"} PROVE InOrder'
        <4>1. InOrder /\ InOnce /\ ireq.pc \in {"wait", "expired"}
          <5>1. InOrder /\ InOnce
            BY <3>5, <3>7 DEF InMore, InInv
          <5>2. ireq.pc \in {"idle", "stage", "failed", "wait", "expired"}
            BY <1>0 DEF InRequests
          <5> QED BY Zenon, <1>2, <3>5, <3>7, <5>1, <5>2 DEF InOnce
        <4> QED BY Zenon, <1>0, <1>2, <3>3, <3>4, <4>1, ChunkNext
      <3> QED BY <1>0, <1>2, <3>3, <3>4, <3>5, <3>6, <3>7 DEF InMore
    <2>2. CASE FifoTimeout /\ ipipe' = [ipipe EXCEPT !.bemp = f] /\ UNCHANGED <<ireq, oddIn>>
      <3>1. ipipe'.bank = ipipe.bank
        BY <1>0, <1>2, <2>2 DEF InPipes
      <3>2. glitches' \in 0 .. MaxGlitches
        BY <1>0, <2>2 DEF FifoTimeout, InMore
      <3>3. InOrder' <=> InOrder
        BY <1>0, <2>2, <3>1, SameInOrder
      <3> QED BY <1>0, <2>2, <3>1, <3>2, <3>3 DEF InMore
    <2> QED BY <1>2, <2>1, <2>2 DEF Stage
  <1>3. CASE RestageIn
    <2>1. /\ ireq.stashed /\ ipipe.bemp = FALSE /\ Stage(FALSE, FALSE)
          /\ ireq.sent < ireq.total
      BY Zenon, <1>0, <1>3 DEF RestageIn, NakEmpty, InPipes
    <2> QED BY Zenon, <1>2, <2>1
  <1>4. CASE ContinueIn
    <2>1. ireq.stashed /\ Stage(FALSE, TRUE) /\ ireq.sent < ireq.total
      BY Zenon, <1>4 DEF ContinueIn, Acting
    <2> QED BY Zenon, <1>2, <2>1
  <1>5. CASE TerminateIn
    <2>1. ireq' = [ireq EXCEPT !.zlp = FALSE]
      BY <1>5 DEF TerminateIn
    <2>2. /\ ireq'.stashed = ireq.stashed /\ ireq'.sem = ireq.sem /\ ireq'.pc = ireq.pc
          /\ ireq'.total = ireq.total /\ ireq'.sent = ireq.sent
      BY <1>0, <2>1 DEF InRequests
    <2>3. oddIn \subseteq oddIn' /\ oddIn' \subseteq oddIn \cup {"unterminated"}
      BY <1>5 DEF TerminateIn
    <2>4. /\ \/ ipipe'.bank = <<Zlp>> /\ ipipe.bank = <<>>
             \/ ipipe'.bank = ipipe.bank
          /\ glitches' \in 0 .. MaxGlitches
      <3>1. CASE Ready /\ ipipe' = [Loaded(Zlp) EXCEPT !.bemp = FALSE]
        <4>1. Loaded(Zlp) \in InPipes /\ Loaded(Zlp).bank = <<Zlp>>
          BY Zenon, <1>0, LoadedShape DEF Packet
        <4>2. ipipe'.bank = <<Zlp>>
          BY <3>1, <4>1 DEF InPipes
        <4> QED BY <3>1, <4>2 DEF Ready, InMore
      <3>2. CASE FifoTimeout /\ ipipe' = [ipipe EXCEPT !.bemp = FALSE]
        <4>1. ipipe'.bank = ipipe.bank
          BY <1>0, <3>2 DEF InPipes
        <4> QED BY <1>0, <3>2, <4>1 DEF FifoTimeout, InMore
      <3> QED BY <1>5, <3>1, <3>2 DEF TerminateIn
    <2>5. Waiting' = Waiting /\ (Waiting = 1 => ipipe'.bank = ipipe.bank) /\ Len(ipipe'.bank) <= 1
      <3>1. CASE ipipe'.bank = <<Zlp>> /\ ipipe.bank = <<>>
        <4>1. Waiting' = 0 /\ Waiting = 0
          BY Zenon, <3>1 DEF Waiting
        <4>2. Len(ipipe'.bank) = 1
          BY <3>1
        <4> QED BY <4>1, <4>2
      <3>2. CASE ipipe'.bank = ipipe.bank
        BY Zenon, <3>2 DEF Waiting, InMore
      <3> QED BY Zenon, <2>4, <3>1, <3>2
    <2>6. InOrder => InOrder'
      BY Zenon, <1>0, <2>2, <2>5 DEF InOrder
    <2> QED BY Zenon, <1>0, <2>2, <2>3, <2>4, <2>5, <2>6 DEF InMore, InRaces
  <1>6. CASE FinishIn
    <2>1. /\ ipipe' = [ipipe EXCEPT !.bemp = FALSE] /\ ireq.stashed /\ ireq.sent = ireq.total
          /\ ireq' = [ireq EXCEPT !.stashed = FALSE, !.sem = ireq.sem + 1] /\ glitches' = glitches
      BY <1>6 DEF FinishIn, Finish, Acting
    <2>2. /\ oddIn' \subseteq {"unterminated"}
               => oddIn \subseteq {"unterminated"} /\ ireq.pc = "wait"
          /\ oddIn' \subseteq InRaces
      <3>1. oddIn \subseteq {"unterminated"} => ireq.pc \notin {"idle", "stage", "failed"}
        BY <1>6, <2>1 DEF FinishIn, Finish, Acting, InInv, InOnce, Quiet
      <3>2. ireq.pc \in {"idle", "stage", "failed", "wait", "expired"}
        BY <1>0 DEF InRequests
      <3> QED BY <1>6, <3>1, <3>2 DEF FinishIn, Finish, InMore, InRaces
    <2>3. /\ ~ireq'.stashed /\ ireq'.sem = ireq.sem + 1 /\ ireq'.pc = ireq.pc
          /\ ireq'.total = ireq.total /\ ireq'.sent = ireq.sent
      BY <1>0, <2>1 DEF InRequests
    <2>4. ipipe'.bank = ipipe.bank
      BY <1>0, <2>1 DEF InPipes
    <2>5. InOrder => InOrder'
      BY <1>0, <2>1, <2>3, <2>4 DEF InOrder, Waiting
    <2> QED BY <1>0, <2>1, <2>2, <2>3, <2>4, <2>5 DEF InMore
  <1>7. CASE QuietIn
    BY Zenon, <1>0, <1>7 DEF QuietIn, InMore, InOrder, Waiting
  <1> QED BY <1>1, <1>3, <1>4, <1>5, <1>6, <1>7 DEF WalkIn

--------------------------------------------------------------------------------
(* The second invariant holds initially and every step keeps it.                *)
LEMMA InitMore == Init => More
  <1> SUFFICES ASSUME Init PROVE More
    OBVIOUS
  <1>0. <<>> \in Seq(Data) /\ Len(<<>>) = 0 /\ Tags \in Nat /\ Tags > 0 /\ MaxReq \in Nat
          /\ MaxGlitches \in Nat /\ 0 \in Tag /\ 0 + 0 < Tags /\ Plus(0, 0) = 0
    BY UsbAssumption DEF Tag, Plus
  <1>a. /\ opipe.banks = <<>> /\ orphan = <<>> /\ nextOut = 0 /\ recvOut = 0 /\ oddOut = {}
        /\ oreq.stashed = FALSE /\ oreq.total = 0 /\ oreq.sem = 0 /\ oreq.data = <<>> /\ oreq.pc = "idle"
    BY Zenon DEF Init
  <1>b. /\ ipipe.bank = <<>> /\ baseIn = 0 /\ hostIn = 0 /\ glitches = 0 /\ oddIn = {}
        /\ ireq.stashed = FALSE /\ ireq.total = 0 /\ ireq.sent = 0 /\ ireq.sem = 0 /\ ireq.pc = "idle"
    BY Zenon DEF Init
  <1>1. D(1) = 0 /\ D(2) = 0 /\ Held = 0
    BY <1>0, <1>a DEF D, Held
  <1>2. OutOrder
    BY <1>0, <1>1, <1>a DEF OutOrder
  <1>3. OutStart /\ OutShorts
    BY <1>a DEF OutStart, OutShorts
  <1>c. OutCredit
    BY <1>a DEF OutCredit
  <1>4. OutMore
    BY <1>0, <1>2, <1>3, <1>a, <1>c DEF OutMore
  <1>d. InOrder
    BY <1>0, <1>b DEF InOrder, Waiting
  <1>5. InMore
    BY <1>0, <1>b, <1>d DEF InMore
  <1>6. InServed
    BY <1>b DEF InServed
  <1> QED BY Zenon, <1>4, <1>5, <1>6 DEF Init, More

(* Every step keeps InServed: the interrupt stages the next packet together     *)
(* with acknowledging BEMP, and the host's read of a packet sets it.            *)
LEMMA NextServed ==
  ASSUME InInv, InServed, [Next]_vars
  PROVE  InServed'
  <1> SUFFICES ASSUME "restaged" \notin oddIn', ireq'.pc \in {"wait", "expired"},
                      ireq'.stashed, Quiet'
               PROVE  ireq'.sent = ireq'.total
    BY Zenon DEF InServed
  <1>0. ipipe \in InPipes /\ ireq \in InRequests /\ ipipe'.bank = <<>> /\ ~ipipe'.bemp
    BY DEF InInv, InShape, Quiet
  <1>1. CASE UNCHANGED <<ipipe, ireq, oddIn>>
    BY Zenon, <1>1 DEF InServed, Quiet
  <1>2. CASE HostIn
    <2>1. ipipe' = [ipipe EXCEPT !.bank = <<>>, !.bemp = TRUE]
      BY <1>2 DEF HostIn
    <2> QED BY <1>0, <2>1 DEF InPipes
  <1>3. CASE FallToNak
    <2>1. ipipe' = [ipipe EXCEPT !.pid = "nak"] /\ UNCHANGED <<ireq, oddIn>>
      BY <1>3 DEF FallToNak
    <2>2. ipipe'.bank = ipipe.bank /\ ipipe'.bemp = ipipe.bemp
      BY <1>0, <2>1 DEF InPipes
    <2> QED BY <1>0, <2>1, <2>2 DEF InServed, Quiet
  <1>4. CASE InThread
    <2>1. CASE TimeOutIn
      <3>1. ireq' = [ireq EXCEPT !.pc = "expired"] /\ ireq.pc = "wait" /\ UNCHANGED <<ipipe, oddIn>>
        BY <2>1 DEF TimeOutIn
      <3>2. ireq'.stashed = ireq.stashed /\ ireq'.sent = ireq.sent /\ ireq'.total = ireq.total
        BY <1>0, <3>1 DEF InRequests
      <3> QED BY <1>0, <3>1, <3>2 DEF InServed, Quiet
    <2>2. CASE StageFirst
      <3>1. CASE \E p : ipipe' = Loaded(p)
        BY <1>0, <3>1 DEF Loaded, InPipes
      <3>2. CASE ireq' = [ireq EXCEPT !.pc = "failed"]
        BY <1>0, <3>2 DEF InRequests
      <3> QED BY <2>2, <3>1, <3>2 DEF StageFirst
    <2>3. CASE StageFailed \/ WakeIn \/ DropIn
      BY <1>0, <2>3 DEF StageFailed, WakeIn, DropIn, InRequests
    <2>4. ASSUME NEW n \in 0 .. MaxReq, NEW zlp \in BOOLEAN, StashIn(n, zlp) PROVE FALSE
      BY <1>0, <2>4 DEF StashIn, InRequests
    <2> QED BY Zenon, <1>4, <2>1, <2>2, <2>3, <2>4 DEF InThread, InSubmit
  <1>5. CASE Isr
    <2>1. CASE RearmIn
      <3>1. ipipe' = [ipipe EXCEPT !.pid = "buf"] /\ UNCHANGED <<ireq, oddIn>>
        BY <2>1 DEF RearmIn
      <3>2. ipipe'.bank = ipipe.bank /\ ipipe'.bemp = ipipe.bemp
        BY <1>0, <3>1 DEF InPipes
      <3> QED BY <1>0, <3>1, <3>2 DEF InServed, Quiet
    <2>2. ASSUME NEW f, NEW g, Stage(f, g),
                 UNCHANGED ireq /\ ipipe' = [ipipe EXCEPT !.bemp = g] /\ UNCHANGED oddIn
                   => ireq'.sent = ireq'.total
          PROVE  ireq'.sent = ireq'.total
      <3>1. CASE \E p : ipipe' = [Loaded(p) EXCEPT !.bemp = f]
        BY <1>0, <3>1 DEF Loaded, InPipes
      <3> QED BY Zenon, <2>2, <3>1 DEF Stage
    <2>3. CASE RestageIn
      <3>1. ASSUME UNCHANGED ireq, ipipe' = [ipipe EXCEPT !.bemp = ipipe.bemp], UNCHANGED oddIn
            PROVE  ireq'.sent = ireq'.total
        <4>1. ipipe'.bank = ipipe.bank /\ ipipe'.bemp = ipipe.bemp
          BY <1>0, <3>1 DEF InPipes
        <4> QED BY <1>0, <3>1, <4>1 DEF InServed, Quiet
      <3>2. Stage(ipipe.bemp, ipipe.bemp)
        BY <2>3 DEF RestageIn
      <3> QED BY Zenon, <2>2, <3>1, <3>2
    <2>4. CASE ContinueIn
      <3>1. ASSUME ipipe' = [ipipe EXCEPT !.bemp = TRUE] PROVE FALSE
        BY <1>0, <3>1 DEF InPipes
      <3>2. Stage(FALSE, TRUE)
        BY <2>4 DEF ContinueIn
      <3> QED BY Zenon, <2>2, <3>1, <3>2
    <2>5. CASE TerminateIn
      <3>1. ireq' = [ireq EXCEPT !.zlp = FALSE] /\ ireq.sent = ireq.total
        BY <2>5 DEF TerminateIn
      <3> QED BY <1>0, <3>1 DEF InRequests
    <2>6. CASE FinishIn
      BY <1>0, <2>6 DEF FinishIn, Finish, InRequests
    <2>7. CASE QuietIn
      BY <1>1, <2>7 DEF QuietIn
    <2> QED BY Zenon, <1>5, <2>1, <2>3, <2>4, <2>5, <2>6, <2>7 DEF Isr, WalkIn
  <1>6. CASE OutThread
    BY Zenon, <1>1, <1>6 DEF OutThread, OutSubmit, StashOut, SubmitOut, CopyOrphan, PostOut, ArmOut,
                        WakeOut, ReturnOut, TimeOutOut, DropOut, inVars
  <1>7. ASSUME NEW kind \in {"full", "short", "zlp"}, HostOut(kind) PROVE ireq'.sent = ireq'.total
    BY Zenon, <1>1, <1>7 DEF HostOut, inVars
  <1>8. CASE UNCHANGED vars
    BY Zenon, <1>1, <1>8 DEF vars, inVars
  <1> QED BY Zenon, <1>2, <1>3, <1>4, <1>5, <1>6, <1>7, <1>8 DEF Next, HostStep

LEMMA NextMore ==
  ASSUME IInv, More, [Next]_vars
  PROVE  More'
  <1>0. created' = created
    BY Zenon DEF Next, HostStep, HostOut, HostIn, FallToNak, OutThread, OutSubmit, StashOut, SubmitOut,
           CopyOrphan, PostOut, ArmOut, WakeOut, ReturnOut, TimeOutOut, DropOut, InThread, InSubmit,
           StashIn, StageFirst, StageFailed, WakeIn, TimeOutIn, DropIn, Isr, vars
  <1>1. UNCHANGED outVars => OutMore'
    BY Zenon DEF More, outVars, OutMore, OutOrder, OutStart, OutShorts, OutCredit, OutOdd, D, Held,
           Complete, AllFull
  <1>2. UNCHANGED inVars => InMore'
    BY Zenon DEF More, inVars, InMore, InOrder, Waiting
  <1>9. InServed'
    BY Zenon, NextServed DEF IInv, More
  <1>3. ASSUME NEW kind \in {"full", "short", "zlp"}, HostOut(kind) PROVE More'
    BY Zenon, <1>0, <1>2, <1>3, <1>9, HostOutMore DEF IInv, More, HostOut
  <1>4. CASE HostIn \/ FallToNak
    BY <1>0, <1>1, <1>4, <1>9, HostInMore DEF IInv, More, HostIn, FallToNak
  <1>5. CASE OutThread
    <2>1. UNCHANGED inVars
      BY Zenon, <1>5 DEF OutThread, OutSubmit, StashOut, SubmitOut, CopyOrphan, PostOut, ArmOut, WakeOut,
                  ReturnOut, TimeOutOut, DropOut
    <2> QED BY <1>0, <1>2, <1>5, <1>9, <2>1, OutThreadMore DEF IInv, More
  <1>6. CASE InThread
    <2>1. UNCHANGED outVars
      BY Zenon, <1>6 DEF InThread, InSubmit, StashIn, StageFirst, StageFailed, WakeIn, TimeOutIn,
                  DropIn
    <2> QED BY Zenon, <1>0, <1>1, <1>6, <1>9, <2>1, InThreadMore DEF IInv, More
  <1>7. CASE Isr
    BY Zenon, <1>0, <1>7, <1>9, WalkOutMore, WalkInMore DEF IInv, More, Isr
  <1>8. CASE UNCHANGED vars
    BY Zenon, <1>0, <1>1, <1>2, <1>8, <1>9 DEF More, vars
  <1> QED BY Zenon, <1>3, <1>4, <1>5, <1>6, <1>7, <1>8 DEF Next, HostStep

(* The packets are where they belong throughout.                                *)
THEOREM PacketsInOrder == Spec => []More
  BY Inductive, InitMore, NextMore, PTL DEF Spec

(* One more packet at the end of a run of packets in order.                     *)
InOrderFrom(s) == \A k \in 1 .. Len(s) : s[k].tag = Plus(recvOut, k - 1)

LEMMA OrderExtends ==
  ASSUME NEW s \in Seq(Packet), NEW t \in Seq(Packet), Len(t) \in 0 .. 1, InOrderFrom(s),
         Len(t) = 1 => t[1].tag = Plus(recvOut, Len(s))
  PROVE  s \o t \in Seq(Packet) /\ Len(s \o t) = Len(s) + Len(t) /\ InOrderFrom(s \o t)
  <1> DEFINE u == s \o t
  <1>1. /\ u \in Seq(Packet) /\ Len(u) = Len(s) + Len(t)
        /\ \A i \in 1 .. Len(s) + Len(t) : u[i] = IF i <= Len(s) THEN s[i] ELSE t[i - Len(s)]
    BY Zenon, ConcatProperties
  <1>2. Len(s) \in Nat
    OBVIOUS
  <1> HIDE DEF u
  <1>3. ASSUME NEW k \in 1 .. Len(u) PROVE u[k].tag = Plus(recvOut, k - 1)
    <2>1. CASE k <= Len(s)
      BY <1>1, <1>2, <2>1 DEF InOrderFrom
    <2>2. CASE ~(k <= Len(s))
      <3>1. Len(t) = 1 /\ k = Len(s) + 1 /\ k - Len(s) = 1 /\ k - 1 = Len(s)
        BY <1>1, <1>2, <2>2
      <3>2. u[k] = t[1]
        BY Zenon, <1>1, <2>2, <3>1
      <3> QED BY Zenon, <3>1, <3>2
    <2> QED BY Zenon, <2>1, <2>2
  <1>4. InOrderFrom(u)
    BY Zenon, <1>3 DEF InOrderFrom
  <1> QED BY Zenon, <1>1, <1>4 DEF u

(* Every packet the controller accepted reaches the class exactly once and in   *)
(* order, up to the races the model names (internal_irq_complete_out,           *)
(* internal_submit_consume_orphan).                                             *)
THEOREM DeliversInOrder == Spec => []OutInOrder
  <1>1. ASSUME IInv, More PROVE OutInOrder
    <2> SUFFICES ASSUME ~OutOdd
                 PROVE  InOrderFrom(Undelivered) /\ nextOut = Plus(recvOut, Len(Undelivered))
      BY Zenon DEF OutInOrder, InOrderFrom
    <2>0. OutInv /\ OutMore /\ OutOrder /\ Data \subseteq Packet
      BY Zenon, <1>1 DEF IInv, More, OutMore, Packet
    <2>1. oreq.data \in Seq(Packet) /\ orphan \in Seq(Packet) /\ Len(orphan) \in 0 .. 1
      <3>1. oreq.data \in Seq(Packet) /\ orphan \in Seq(Packet) /\ Len(orphan) <= 1
        BY Zenon, <2>0 DEF OutInv, OutShape, Requests
      <3>2. \A m \in Nat : m <= 1 => m \in 0 .. 1
        OBVIOUS
      <3>3. Len(orphan) \in Nat
        BY <3>1
      <3> QED BY <3>1, <3>2, <3>3, Zenon
    <2>2. ASSUME NEW k \in {1, 2}
          PROVE  /\ Bank(k) \in Seq(Packet) /\ Len(Bank(k)) = D(k)
                 /\ D(k) = 1 => Bank(k)[1] = opipe.banks[k]
      <3>1. CASE k <= Len(opipe.banks) /\ opipe.banks[k] # Zlp
        <4> DEFINE q == opipe.banks[k]
        <4>1. q \in Packet
          BY <2>0, <3>1, ElementOfSeq DEF OutInv, OutShape
        <4>2. Bank(k) = <<q>> /\ D(k) = 1
          BY Zenon, <3>1 DEF Bank, D
        <4> HIDE DEF q
        <4>3. Bank(k) \in Seq(Packet) /\ Len(Bank(k)) = 1 /\ Bank(k)[1] = q
          BY <4>1, <4>2
        <4> QED BY Zenon, <4>2, <4>3 DEF q
      <3>2. CASE ~(k <= Len(opipe.banks) /\ opipe.banks[k] # Zlp)
        <4>1. Bank(k) = <<>> /\ D(k) = 0
          BY Zenon, <3>2 DEF Bank, D
        <4> QED BY <4>1
      <3> QED BY Zenon, <3>1, <3>2
    <2>3. /\ Len(oreq.data) \in Nat /\ D(1) \in 0 .. 1 /\ D(2) \in 0 .. 1
          /\ Held = Len(oreq.data) + Len(orphan)
      BY Zenon, <2>0, InFlight DEF Held
    <2> DEFINE u == oreq.data \o orphan
               v == u \o Bank(1)
               w == v \o Bank(2)
    <2>4. InOrderFrom(oreq.data)
      BY Zenon, <2>0 DEF OutOrder, InOrderFrom
    <2>5. u \in Seq(Packet) /\ Len(u) = Held /\ InOrderFrom(u)
      <3>1. Len(orphan) = 1 => orphan[1].tag = Plus(recvOut, Len(oreq.data))
        <4>1. Len(orphan) = 1 => orphan # <<>>
          OBVIOUS
        <4> QED BY Zenon, <2>0, <4>1 DEF OutOrder
      <3> QED BY Zenon, <2>1, <2>3, <2>4, <3>1, OrderExtends
    <2> HIDE DEF u
    <2>6. v \in Seq(Packet) /\ Len(v) = Held + D(1) /\ InOrderFrom(v)
      <3>1. Len(Bank(1)) = 1 => Bank(1)[1].tag = Plus(recvOut, Len(u))
        BY Zenon, <2>0, <2>2, <2>5 DEF OutOrder
      <3>2. Bank(1) \in Seq(Packet) /\ Len(Bank(1)) = D(1) /\ Len(Bank(1)) \in 0 .. 1
        BY Zenon, <2>2, <2>3
      <3> QED BY Zenon, <2>5, <3>1, <3>2, OrderExtends
    <2> HIDE DEF v
    <2>7. w \in Seq(Packet) /\ Len(w) = Held + D(1) + D(2) /\ InOrderFrom(w)
      <3>1. Len(Bank(2)) = 1 => Bank(2)[1].tag = Plus(recvOut, Len(v))
        BY Zenon, <2>0, <2>2, <2>6 DEF OutOrder
      <3>2. Bank(2) \in Seq(Packet) /\ Len(Bank(2)) = D(2) /\ Len(Bank(2)) \in 0 .. 1
        BY Zenon, <2>2, <2>3
      <3> QED BY Zenon, <2>6, <3>1, <3>2, OrderExtends
    <2>8. Undelivered = w
      BY DEF Undelivered, u, v
    <2> HIDE DEF w
    <2> QED BY <2>0, <2>7, <2>8 DEF OutOrder
  <1> QED BY <1>1, Inductive, PacketsInOrder, PTL

(* A request that returns is whole: it has all it asked for or ends with a      *)
(* short packet, which is its only one (internal_irq_complete_out).             *)
THEOREM ReturnsWhole == Spec => []OutWhole
  <1>1. ASSUME IInv, More PROVE OutWhole
    <2> SUFFICES ASSUME oreq.pc = "wait", oreq.sem > 0, ~OutOdd PROVE Complete
      BY Zenon DEF OutWhole, Complete, AllFull
    <2>1. OutOnce /\ OutShorts /\ oreq.sem \in Nat
      BY Zenon, <1>1 DEF IInv, OutInv, OutShape, Requests, More, OutMore
    <2>2. ~oreq.stashed
      BY <2>1 DEF OutOnce, Pending, Posted
    <2> QED BY <2>1, <2>2 DEF OutShorts
  <1> QED BY <1>1, Inductive, PacketsInOrder, PTL

(* The orphan a request takes is its first packet (OrphanIsFirst), up to the    *)
(* races the model names: without one of them the promise of                    *)
(* internal_submit_pipe is kept.                                                *)
THEOREM OrphanComesFirst == Spec => [](~OutOdd => OrphanIsFirst)
  <1>1. IInv /\ More => (~OutOdd => OrphanIsFirst)
    BY DEF IInv, OutInv, More, OutMore, OutStart, OrphanIsFirst
  <1> QED BY <1>1, Inductive, PacketsInOrder, PTL

(* The host receives the chunks of an IN request in order, none twice, none     *)
(* left behind, up to the races the model names (internal_irq_complete_in).     *)
THEOREM SendsInOrder == Spec => []InInOrder
  <1>1. ASSUME IInv, More PROVE InInOrder
    <2>1. oddIn \subseteq {"unterminated"} => InOrder /\ InOnce
      BY Zenon, <1>1 DEF IInv, InInv, More, InMore
    <2> QED BY <2>1 DEF InInOrder, InOrder, InOnce, Quiet, Waiting
  <1> QED BY <1>1, Inductive, PacketsInOrder, PTL

(* The variables keep their types; the semaphores never count past two.         *)
THEOREM TypeCorrect == Spec => []TypeOK
  <1>1. ASSUME IInv, More PROVE TypeOK
    <2>0. OutInv /\ OutMore /\ InInv /\ InMore /\ created \in Interfaces
      BY <1>1 DEF IInv, More
    <2>1. opipe \in OutPipe
      <3>1. /\ opipe \in [pid : {"nak", "buf"}, banks : Seq(Packet)] /\ opipe.banks \in Seq(Packet)
            /\ Len(opipe.banks) \in 0 .. 2
        BY Zenon, <2>0, InFlight DEF OutInv, OutShape
      <3>2. opipe.banks \in [1 .. Len(opipe.banks) -> Packet]
        BY Zenon, <3>1, LenProperties
      <3>3. opipe.banks \in UNION {[1 .. n -> Packet] : n \in 0 .. Banks}
        BY Zenon, <3>1, <3>2 DEF Banks
      <3> QED BY Zenon, <3>1, <3>3 DEF OutPipe
    <2>2. oreq \in OutReq
      <3>1. /\ oreq \in Requests /\ oreq.data \in Seq(Data) /\ Len(oreq.data) <= oreq.total
            /\ oreq.total <= MaxReq /\ oreq.total \in Nat /\ oreq.sem \in Nat
            /\ oreq.stashed \in BOOLEAN /\ OutCredit
        BY Zenon, <2>0 DEF OutInv, OutShape, OutFits, OutMore, Requests
      <3>2. oreq.data \in [1 .. Len(oreq.data) -> Data] /\ Len(oreq.data) \in Nat
        BY Zenon, <3>1, LenProperties
      <3>3. Len(oreq.data) \in 0 .. MaxReq /\ oreq.total \in 0 .. MaxReq
        BY <3>1, <3>2, UsbAssumption
      <3>4. oreq.data \in UNION {[1 .. n -> Data] : n \in 0 .. MaxReq}
        BY Zenon, <3>2, <3>3
      <3>5. oreq.sem \in 0 .. 2
        BY <3>1 DEF OutCredit
      <3> QED BY Zenon, <3>1, <3>3, <3>4, <3>5 DEF OutReq, Requests
    <2>3. orphan \in {<<>>} \cup {<<p>> : p \in Data}
      <3>1. orphan \in Seq(Data) /\ Len(orphan) <= 1
        BY Zenon, <2>0 DEF OutInv, OutShape, OutMore
      <3>2. CASE orphan # <<>>
        <4>1. Len(orphan) = 1
          <5>1. Len(orphan) \in Nat \ {0}
            BY <3>1, <3>2, EmptySeq
          <5>2. \A m \in Nat \ {0} : m <= 1 => m = 1
            OBVIOUS
          <5> QED BY <3>1, <5>1, <5>2, Zenon
        <4> DEFINE q == orphan[1]
        <4>2. q \in Data
          <5>1. 1 \in 1 .. Len(orphan)
            BY <4>1
          <5> QED BY Zenon, <3>1, <5>1, ElementOfSeq
        <4>3. \A i \in 1 .. Len(orphan) : orphan[i] = <<q>>[i]
          BY <4>1
        <4> HIDE DEF q
        <4>4. <<q>> \in Seq(Data) /\ Len(<<q>>) = 1
          BY <4>2
        <4>5. orphan = <<q>>
          BY Zenon, <3>1, <4>1, <4>3, <4>4, SeqEqual
        <4> QED BY Zenon, <4>2, <4>5
      <3> QED BY Zenon, <3>2
    <2>4. ipipe \in InPipe
      <3>1. ipipe \in InPipes
        BY <2>0 DEF InInv, InShape
      <3>2. ipipe.bank \in {<<>>} \cup {<<p>> : p \in Packet}
        BY Zenon, <2>0, BankOne
      <3> QED BY Zenon, <3>1, <3>2 DEF InPipe, InPipes
    <2>5. ireq \in InReq
      <3>1. /\ ireq \in InRequests /\ ireq.total <= MaxReq /\ ireq.sent <= ireq.total
            /\ ireq.total \in Nat /\ ireq.sent \in Nat /\ ireq.sem \in Nat
            /\ ireq.stashed \in BOOLEAN /\ ireq.sem + (IF ireq.stashed THEN 1 ELSE 0) <= 1
        BY Zenon, <2>0 DEF InInv, InShape, InRequests, InMore
      <3>2. ireq.total \in 0 .. MaxReq /\ ireq.sent \in 0 .. MaxReq /\ ireq.sem \in 0 .. 2
        BY <3>1, UsbAssumption
      <3> QED BY Zenon, <3>1, <3>2 DEF InReq, InRequests
    <2> QED BY Zenon, <2>0, <2>1, <2>2, <2>3, <2>4, <2>5
            DEF TypeOK, OutMore, InMore, OutInv, OutShape, InInv, InShape
  <1> QED BY <1>1, Inductive, PacketsInOrder, PTL
================================================================================
