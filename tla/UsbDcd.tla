--------------------------------- MODULE UsbDcd ---------------------------------
(* The USBX device-controller driver of port/usbx: one bulk OUT and one bulk IN *)
(* pipe, each with a class thread that submits requests and blocks, and the     *)
(* USB interrupt, which walks both pipes whatever raised it.  The interrupt     *)
(* preempts the threads between any two of their steps and is not preempted.    *)
(*                                                                              *)
(* A unit of data is a packet.  Packets are numbered modulo Tags, which exceeds *)
(* the packets in flight, so that a lost, repeated or reordered one shows.      *)
EXTENDS Integers, Sequences, FiniteSetsExt

CONSTANTS
  Tags,         \* packet numbers are counted modulo this
  MaxReq,       \* bound on the length of a request, in packets
  MaxGlitches,  \* bound on FIFO accesses of the IN pipe that time out on an empty bank
  Interfaces    \* the sets of endpoints a class may create

ASSUME UsbAssumption ==
  /\ MaxReq \in Nat \ {0} /\ Tags \in Nat /\ Tags > MaxReq + 3
  /\ MaxGlitches \in Nat /\ Interfaces \subseteq SUBSET {"out", "in"}

Tag == 0 .. Tags - 1
Plus(t, n) == (t + n) % Tags
Zlp == [kind |-> "zlp", tag |-> 0]
Data == [kind : {"full", "short"}, tag : Tag]
Packet == Data \cup {Zlp}
Banks == 2         \* an OUT pipe is double-banked, an IN pipe is not

VARIABLES
  created,   \* the endpoints of the class
  opipe,     \* OUT pipe of the controller: PID and the packets in its banks
  oreq,      \* its transfer request, semaphore and class thread
  brdy,      \* its BRDYSTS bit
  orphan,    \* g_orphan_buf: the packet that came while nobody was waiting
  nextOut,   \* number of the next packet of the host
  recvOut,   \* number of the next packet the class expects
  ipipe,     \* IN pipe: PID, bank (empty or one packet), BEMPSTS bit
  ireq,      \* its transfer request, semaphore and class thread
  baseIn,    \* number of the first packet of the IN request
  hostIn,    \* number of the next packet the host expects
  glitches,  \* FIFO timeouts of the IN pipe so far
  oddOut,    \* the races the OUT pipe has been through,
  oddIn      \* and those of the IN pipe

outVars == <<opipe, brdy, oreq, orphan, nextOut, recvOut, oddOut>>
inVars == <<ipipe, ireq, baseIn, hostIn, glitches, oddIn>>
vars == <<created, outVars, inVars>>

OutPipe == [pid : {"nak", "buf"}, banks : UNION {[1 .. n -> Packet] : n \in 0 .. Banks}]
OutReq == [stashed : BOOLEAN, total : 0 .. MaxReq, sem : 0 .. 2,
           data : UNION {[1 .. n -> Data] : n \in 0 .. MaxReq},
           pc : {"idle", "submit", "copy", "post", "arm", "wait", "expired"}]
InPipe == [pid : {"nak", "buf"}, bank : {<<>>} \cup {<<p>> : p \in Packet}, bemp : BOOLEAN]
InReq == [stashed : BOOLEAN, total : 0 .. MaxReq, sent : 0 .. MaxReq, zlp : BOOLEAN,
          sem : 0 .. 2, pc : {"idle", "stage", "failed", "wait", "expired"}]
OutRaces == {"raced", "late", "reposted"}
InRaces == {"late", "restaged", "abandoned", "unterminated"}

(* Bound: a pipe is followed up to the end of the request that meets a race,    *)
(* after which the order of its packets is lost and no request is made.         *)
OutOdd == oddOut # {}
InOdd == oddIn # {}

(* The endpoints are created: pipes at NAK, nothing stashed.                    *)
Init ==
  /\ created \in Interfaces
  /\ opipe = [pid |-> "nak", banks |-> <<>>] /\ brdy = FALSE
  /\ oreq = [stashed |-> FALSE, total |-> 0, sem |-> 0, data |-> <<>>, pc |-> "idle"]
  /\ orphan = <<>> /\ nextOut = 0 /\ recvOut = 0
  /\ ipipe = [pid |-> "nak", bank |-> <<>>, bemp |-> FALSE]
  /\ ireq = [stashed |-> FALSE, total |-> 0, sent |-> 0, zlp |-> FALSE, sem |-> 0, pc |-> "idle"]
  /\ baseIn = 0 /\ hostIn = 0 /\ glitches = 0
  /\ oddOut = {} /\ oddIn = {}

--------------------------------------------------------------------------------
(* The host and the controller.  BRDYSTS of the OUT pipe is set when a packet   *)
(* lands, and again when a bank is released and the other one holds a packet    *)
(* (ra8_usb_queue_out and internal_irq_complete_out count on both).  SHTNAK: a  *)
(* short packet takes the pipe to NAK.                                          *)

HostOut(kind) ==
  /\ opipe.pid = "buf" /\ Len(opipe.banks) < Banks
  /\ opipe' = [pid |-> IF kind = "full" THEN "buf" ELSE "nak",
               banks |-> Append(opipe.banks, IF kind = "zlp" THEN Zlp
                                             ELSE [kind |-> kind, tag |-> nextOut])]
  /\ nextOut' = IF kind = "zlp" THEN nextOut ELSE Plus(nextOut, 1)
  /\ brdy' = TRUE
  /\ UNCHANGED <<oreq, orphan, recvOut, oddOut, inVars, created>>

HostIn ==
  /\ ipipe.pid = "buf" /\ ipipe.bank # <<>>
  /\ hostIn' = IF ipipe.bank[1] = Zlp THEN hostIn ELSE Plus(hostIn, 1)
  /\ ipipe' = [ipipe EXCEPT !.bank = <<>>, !.bemp = TRUE]
  /\ UNCHANGED <<created, outVars, ireq, baseIn, glitches, oddIn>>

(* The IN pipe falls to NAK ("seen against macOS hosts", ux_dcd_ra8_usb_irq.c). *)
FallToNak ==
  /\ ipipe.pid = "buf"
  /\ ipipe' = [ipipe EXCEPT !.pid = "nak"]
  /\ UNCHANGED <<created, outVars, ireq, baseIn, hostIn, glitches, oddIn>>

--------------------------------------------------------------------------------
(* The class thread of the OUT pipe: priv_transfer_request.  USBX, which calls  *)
(* it, has set the actual length to zero.                                       *)

StashOut(n) ==
  /\ "out" \in created /\ oreq.pc = "idle" /\ ~OutOdd
  /\ oreq' = [oreq EXCEPT !.stashed = TRUE, !.total = n, !.data = <<>>, !.pc = "submit"]
  /\ UNCHANGED <<opipe, brdy, orphan, nextOut, recvOut, oddOut, inVars, created>>

(* internal_submit_pipe: with an orphan in hand the pipe is not armed yet.      *)
SubmitOut ==
  /\ oreq.pc = "submit"
  /\ oreq' = [oreq EXCEPT !.pc = IF orphan # <<>> THEN "copy" ELSE "arm"]
  /\ UNCHANGED <<opipe, brdy, orphan, nextOut, recvOut, oddOut, inVars, created>>

(* internal_submit_consume_orphan: the packet becomes the first of the request, *)
(* and ends it when it is short or all that was asked for.  An interrupt within *)
(* the copy steers what follows like one just before it: the length it sets is  *)
(* replaced.  Whose bytes remain differs, of a request that is raced either way.*)
CopyOrphan ==
  /\ oreq.pc = "copy"
  /\ orphan' = <<>>
  /\ oreq' = [oreq EXCEPT !.data = orphan,
                          !.pc = IF oreq.total = 1 \/ orphan[1].kind # "full"
                                 THEN "post" ELSE "arm"]
  /\ UNCHANGED <<opipe, brdy, nextOut, recvOut, oddOut, inVars, created>>

(* The request is completed from the orphan, a second time when the interrupt   *)
(* has completed it meanwhile.                                                  *)
PostOut ==
  /\ oreq.pc = "post"
  /\ oreq' = [oreq EXCEPT !.stashed = FALSE, !.sem = @ + 1, !.pc = "wait"]
  /\ oddOut' = oddOut \cup (IF oreq.stashed THEN {} ELSE {"reposted"})
  /\ UNCHANGED <<opipe, brdy, orphan, nextOut, recvOut, inVars, created>>

(* ra8_usb_rearm_out_pipe, which refuses only pipes that do not exist: the      *)
(* interrupt may have completed the request, and parked the pipe, before.       *)
ArmOut ==
  /\ oreq.pc = "arm"
  /\ opipe' = [opipe EXCEPT !.pid = "buf"]
  /\ oreq' = [oreq EXCEPT !.pc = "wait"]
  /\ UNCHANGED <<brdy, orphan, nextOut, recvOut, oddOut, inVars, created>>

(* internal_wait_completion: the semaphore, or the timeout, after which the     *)
(* stash is dropped.                                                            *)
ReturnOut(stashed, sem) ==
  /\ oreq' = [oreq EXCEPT !.stashed = stashed, !.sem = sem, !.data = <<>>, !.pc = "idle"]
  /\ recvOut' = Plus(recvOut, Len(oreq.data))
  /\ UNCHANGED <<opipe, brdy, orphan, nextOut, oddOut, inVars, created>>

WakeOut == oreq.pc = "wait" /\ oreq.sem > 0 /\ ReturnOut(oreq.stashed, oreq.sem - 1)

TimeOutOut ==
  /\ oreq.pc = "wait" /\ oreq.sem = 0
  /\ oreq' = [oreq EXCEPT !.pc = "expired"]
  /\ UNCHANGED <<opipe, brdy, orphan, nextOut, recvOut, oddOut, inVars, created>>

\* Mutant: the stash survives the timeout.
DropOutKeepsStash == oreq.pc = "expired" /\ ReturnOut(oreq.stashed, oreq.sem)

DropOut == oreq.pc = "expired" /\ ReturnOut(FALSE, oreq.sem)

--------------------------------------------------------------------------------
(* The class thread of the IN pipe.                                             *)

StashIn(n, zlp) ==
  /\ "in" \in created /\ ireq.pc = "idle" /\ ~InOdd
  /\ ireq' = [ireq EXCEPT !.stashed = TRUE, !.total = n, !.sent = 0, !.zlp = zlp, !.pc = "stage"]
  /\ UNCHANGED <<created, outVars, ipipe, baseIn, hostIn, glitches, oddIn>>

(* ra8_usb_queue_in: waits for an empty bank, fills it, and arms the pipe.      *)
Loaded(p) == [ipipe EXCEPT !.bank = <<p>>, !.pid = "buf"]
Chunk(k) == [kind |-> "full", tag |-> Plus(baseIn, k)]
Ready == ipipe.bank = <<>> /\ UNCHANGED glitches
FifoTimeout ==
  \/ ipipe.bank # <<>> /\ UNCHANGED glitches
  \/ ipipe.bank = <<>> /\ glitches < MaxGlitches /\ glitches' = glitches + 1

(* internal_submit_in_pipe, with interrupts masked.                             *)
StageFirst ==
  /\ ireq.pc = "stage"
  /\ \/ /\ Ready
        /\ ipipe' = Loaded(IF ireq.total = 0 THEN Zlp ELSE Chunk(0))
        /\ ireq' = [ireq EXCEPT !.sent = IF ireq.total = 0 THEN 0 ELSE 1, !.pc = "wait"]
     \/ FifoTimeout /\ ireq' = [ireq EXCEPT !.pc = "failed"] /\ UNCHANGED ipipe
  /\ UNCHANGED <<created, outVars, baseIn, hostIn, oddIn>>

StageFailed ==
  /\ ireq.pc = "failed"
  /\ ireq' = [ireq EXCEPT !.stashed = FALSE, !.pc = "idle"]
  /\ UNCHANGED <<created, outVars, ipipe, baseIn, hostIn, glitches, oddIn>>

WakeIn ==
  /\ ireq.pc = "wait" /\ ireq.sem > 0
  /\ ireq' = [ireq EXCEPT !.sem = @ - 1, !.pc = "idle"]
  /\ baseIn' = Plus(baseIn, ireq.total)
  /\ UNCHANGED <<created, outVars, ipipe, hostIn, glitches, oddIn>>

TimeOutIn ==
  /\ ireq.pc = "wait" /\ ireq.sem = 0
  /\ ireq' = [ireq EXCEPT !.pc = "expired"]
  /\ UNCHANGED <<created, outVars, ipipe, baseIn, hostIn, glitches, oddIn>>

(* The transfer is dropped, and with it whoever would serve what is left of it: *)
(* a packet the host has yet to read, or its BEMP.                              *)
DropIn ==
  /\ ireq.pc = "expired"
  /\ ireq' = [ireq EXCEPT !.stashed = FALSE, !.pc = "idle"]
  /\ baseIn' = Plus(baseIn, ireq.total)
  /\ oddIn' = (oddIn \ {"unterminated"})
                \cup (IF ipipe.bank # <<>> \/ ipipe.bemp THEN {"abandoned"} ELSE {})
  /\ UNCHANGED <<created, outVars, ipipe, hostIn, glitches>>

--------------------------------------------------------------------------------
(* internal_irq_walk_pipe for the OUT pipe.                                     *)

(* internal_irq_drain_orphan_out: with no request and no orphan yet, the first  *)
(* packet becomes the orphan; a zero-length one is released and forgotten.      *)
Capture(room) ==
  /\ ~oreq.stashed /\ room /\ brdy
  /\ \/ Head(opipe.banks) = Zlp /\ opipe' = [opipe EXCEPT !.banks = Tail(@)] /\ UNCHANGED orphan
     \/ /\ Head(opipe.banks) # Zlp
        /\ orphan' = <<Head(opipe.banks)>>
        /\ opipe' = [pid |-> "nak", banks |-> Tail(opipe.banks)]
  /\ brdy' = (Tail(opipe.banks) # <<>>)
  /\ oddOut' = oddOut \cup (IF Head(opipe.banks) # Zlp /\ oreq.pc = "submit"
                            THEN {"raced"} ELSE {})
  /\ UNCHANGED oreq

\* Mutant: an orphan in hand is overwritten.
CaptureOrphanAgain == Capture(TRUE)

CaptureOrphan == Capture(orphan = <<>>)

(* ra8_usb_queue_out has cleared BRDYSTS when it finds the FIFO late: the       *)
(* packet stays in its bank, and nothing announces it any more.                 *)
CaptureLate ==
  /\ ~oreq.stashed /\ orphan = <<>> /\ brdy
  /\ brdy' = FALSE
  /\ UNCHANGED <<opipe, oreq, orphan, oddOut>>

OrphanHeld == /\ ~oreq.stashed /\ (orphan # <<>> \/ ~brdy)
              /\ UNCHANGED <<opipe, brdy, oreq, orphan, oddOut>>

(* internal_irq_complete_out moves banks to the buffer of the request: the k-th *)
(* ends it when it is short or the request is then complete; draining is        *)
(* blocked after k because no further bank is announced, by a zero-length       *)
(* packet (which is released), or because nothing was asked for.                *)
\* Mutant: only a short packet ends a request.
EndsShort(k) == k > 0 /\ opipe.banks[k].kind # "full"

\* Mutant: any packet ends a request.
EndsAny(k) == k > 0

Ends(k) == k > 0 /\ (Len(oreq.data) + k >= oreq.total \/ opipe.banks[k].kind # "full")
Full == Len(oreq.data) >= oreq.total
Announced == IF brdy THEN Len(opipe.banks) ELSE 0
Blocked(k) == Full \/ k = Announced \/ opipe.banks[k + 1] = Zlp
Drained == Min({k \in 0 .. Announced : Ends(k) \/ Blocked(k)})
DropFirst(b, k) == SubSeq(b, k + 1, Len(b))
Drain(k) == oreq.data \o SubSeq(opipe.banks, 1, k)

(* The thread is itself completing the request from the orphan.                 *)
Racing == orphan # <<>> \/ oreq.pc = "post"
Marks(k, posts) == (IF k > 0 /\ Racing THEN {"raced"} ELSE {})
                     \cup (IF posts /\ oreq.pc = "expired" THEN {"late"} ELSE {})

(* internal_irq_finish_out parks the pipe.                                      *)
FinishOut ==
  /\ oreq.stashed /\ Ends(Drained)
  /\ opipe' = [pid |-> "nak", banks |-> DropFirst(opipe.banks, Drained)]
  /\ brdy' = (Drained < Len(opipe.banks))
  /\ oreq' = [oreq EXCEPT !.data = Drain(Drained), !.stashed = FALSE, !.sem = @ + 1]
  /\ oddOut' = oddOut \cup Marks(Drained, TRUE)
  /\ UNCHANGED orphan

(* The first k banks are in the buffer and j are released; the pipe is armed.   *)
Rearm(pid, k, j) ==
  /\ opipe' = [pid |-> pid, banks |-> DropFirst(opipe.banks, j)]
  /\ oreq' = [oreq EXCEPT !.data = Drain(k)]
  /\ oddOut' = oddOut \cup Marks(k, FALSE)
  /\ UNCHANGED orphan

Left == IF Full \/ Drained = Announced THEN Drained ELSE Drained + 1

RearmOut ==
  /\ oreq.stashed /\ ~Ends(Drained) /\ Rearm("buf", Drained, Left)
  /\ brdy' = (brdy /\ Left < Len(opipe.banks))

(* The FIFO is late for the bank after the k-th.                                *)
DrainLate ==
  /\ oreq.stashed /\ ~Full
  /\ \E k \in 0 .. Drained : k < Announced /\ ~Ends(k) /\ Rearm("buf", k, k)
  /\ brdy' = FALSE

WalkOut == /\ \/ CaptureOrphan \/ CaptureLate \/ OrphanHeld
              \/ FinishOut \/ RearmOut \/ DrainLate
           /\ UNCHANGED <<nextOut, recvOut>>

--------------------------------------------------------------------------------
(* internal_irq_walk_pipe for the IN pipe: internal_irq_complete_in.            *)

NakLoaded == ipipe.pid = "nak" /\ ipipe.bank # <<>>
\* Mutant: a pending BEMP is not looked at.
NakEmptyAnyBemp == ipipe.pid = "nak" /\ ipipe.bank = <<>> /\ ireq.sent < ireq.total

NakEmpty == ipipe.pid = "nak" /\ ipipe.bank = <<>> /\ ~ipipe.bemp /\ ireq.sent < ireq.total
Recovering == ireq.stashed /\ (NakLoaded \/ NakEmpty)
Acting == ireq.stashed /\ ~Recovering /\ ipipe.bemp

(* internal_irq_recover_in_nak: a loaded bank is armed again.                   *)
RearmIn ==
  /\ ireq.stashed /\ NakLoaded
  /\ ipipe' = [ipipe EXCEPT !.pid = "buf"]
  /\ UNCHANGED <<ireq, glitches, oddIn>>

(* internal_irq_stage_next_in: BEMP afterwards, when it succeeds and when not.  *)
Stage(bemp, failed) ==
  \/ /\ Ready
     /\ ipipe' = [Loaded(Chunk(ireq.sent)) EXCEPT !.bemp = bemp]
     /\ ireq' = [ireq EXCEPT !.sent = @ + 1]
     /\ oddIn' = oddIn \cup (IF ireq.pc \in {"stage", "failed"} THEN {"restaged"} ELSE {})
  \/ FifoTimeout /\ ipipe' = [ipipe EXCEPT !.bemp = failed] /\ UNCHANGED <<ireq, oddIn>>

RestageIn == ireq.stashed /\ NakEmpty /\ Stage(ipipe.bemp, ipipe.bemp)

\* Mutant: BEMP is acknowledged before the staging.
ContinueInAckFirst == Acting /\ ireq.sent < ireq.total /\ Stage(FALSE, FALSE)

ContinueIn == Acting /\ ireq.sent < ireq.total /\ Stage(FALSE, TRUE)

(* The trailing zero-length packet: its staging is not checked.                 *)
TerminateIn ==
  /\ Acting /\ ireq.sent = ireq.total /\ ireq.zlp
  /\ ireq' = [ireq EXCEPT !.zlp = FALSE]
  /\ \/ Ready /\ ipipe' = [Loaded(Zlp) EXCEPT !.bemp = FALSE] /\ UNCHANGED oddIn
     \/ /\ FifoTimeout
        /\ ipipe' = [ipipe EXCEPT !.bemp = FALSE]
        /\ oddIn' = oddIn \cup {"unterminated"}

Finish(bemp) ==
  /\ Acting /\ ireq.sent = ireq.total /\ ~ireq.zlp
  /\ ipipe' = [ipipe EXCEPT !.bemp = bemp]
  /\ ireq' = [ireq EXCEPT !.stashed = FALSE, !.sem = @ + 1]
  /\ oddIn' = oddIn \cup (IF ireq.pc = "expired" THEN {"late"} ELSE {})
  /\ UNCHANGED glitches

\* Mutant: the last BEMP is not acknowledged.
FinishInNoAck == Finish(TRUE)

FinishIn == Finish(FALSE)

QuietIn == ~Recovering /\ ~Acting /\ UNCHANGED <<ipipe, ireq, glitches, oddIn>>

WalkIn == /\ RearmIn \/ RestageIn \/ ContinueIn \/ TerminateIn \/ FinishIn \/ QuietIn
          /\ UNCHANGED <<baseIn, hostIn>>

(* ux_dcd_ra8_usb_irq: every event walks every pipe.                            *)
Isr == WalkOut /\ WalkIn /\ UNCHANGED created

--------------------------------------------------------------------------------
HostStep == \/ \E kind \in {"full", "short", "zlp"} : HostOut(kind)
            \/ HostIn \/ FallToNak
OutSubmit == SubmitOut \/ CopyOrphan \/ PostOut \/ ArmOut
InSubmit == StageFirst \/ StageFailed
OutThread == \/ \E n \in 1 .. MaxReq : StashOut(n)
             \/ OutSubmit \/ WakeOut \/ TimeOutOut \/ DropOut
InThread == \/ \E n \in 0 .. MaxReq, zlp \in BOOLEAN : StashIn(n, zlp)
            \/ InSubmit \/ WakeIn \/ TimeOutIn \/ DropIn

Next == HostStep \/ OutThread \/ InThread \/ Isr

(* The interrupt is served, a runnable thread runs, and the host goes on        *)
(* sending and polling: a pipe that can take a packet again and again gets one. *)
(* Nothing says that a wait times out, that a FIFO is late or a pipe falls to   *)
(* NAK.                                                                         *)
Fairness ==
  /\ WF_vars(Isr)
  /\ WF_vars(OutSubmit) /\ WF_vars(WakeOut) /\ WF_vars(DropOut)
  /\ WF_vars(InSubmit) /\ WF_vars(WakeIn) /\ WF_vars(DropIn)
  /\ SF_vars(HostOut("full") \/ HostOut("short")) /\ SF_vars(HostIn)

Spec == Init /\ [][Next]_vars /\ Fairness

--------------------------------------------------------------------------------
(* The types of the variables (g_dcd.pipes, the transfer requests of USBX, the  *)
(* pipe registers of the controller).                                           *)
TypeOK ==
  /\ created \in Interfaces
  /\ opipe \in OutPipe /\ brdy \in BOOLEAN /\ oreq \in OutReq
  /\ orphan \in {<<>>} \cup {<<p>> : p \in Data}
  /\ nextOut \in Tag /\ recvOut \in Tag /\ oddOut \subseteq OutRaces
  /\ ipipe \in InPipe /\ ireq \in InReq
  /\ baseIn \in Tag /\ hostIn \in Tag
  /\ glitches \in 0 .. MaxGlitches /\ oddIn \subseteq InRaces

(* What the class has not been given yet, oldest first.                         *)
Bank(k) == IF k <= Len(opipe.banks) /\ opipe.banks[k] # Zlp THEN <<opipe.banks[k]>> ELSE <<>>
Undelivered == oreq.data \o orphan \o Bank(1) \o Bank(2)

(* Every packet the controller accepted reaches the class exactly once and in   *)
(* order, whether it comes through the orphan buffer or through the interrupt,  *)
(* unless a completion was lost to a timeout or the interrupt drained a bank    *)
(* into a request the thread was still filling from the orphan.                 *)
OutInOrder ==
  ~OutOdd =>
    /\ \A k \in 1 .. Len(Undelivered) : Undelivered[k].tag = Plus(recvOut, k - 1)
    /\ nextOut = Plus(recvOut, Len(Undelivered))

(* A request that returns has all it asked for, or ends with a short packet; a  *)
(* short packet is always its last, from whichever side it came                 *)
(* (internal_submit_consume_orphan, internal_irq_complete_out).                 *)
OutWhole ==
  oreq.pc = "wait" /\ oreq.sem > 0 /\ ~OutOdd =>
    /\ Len(oreq.data) = oreq.total \/ (oreq.data # <<>> /\ oreq.data[Len(oreq.data)].kind = "short")
    /\ \A k \in 1 .. Len(oreq.data) - 1 : oreq.data[k].kind = "full"

(* The buffer of an OUT request is never overrun, though two banks may hold     *)
(* more than it has room for (internal_irq_complete_out).                       *)
OutFits == Len(oreq.data) <= oreq.total

(* The orphan is "packet one" of the request that takes it: nothing was put in  *)
(* the buffer before (internal_submit_pipe).                                    *)
OrphanIsFirst == oreq.pc = "copy" => oreq.data = <<>>

(* The host has received exactly the packets staged, less the one in the bank,  *)
(* which is the one it expects next, and a request is completed only once it    *)
(* has read the last: no chunk is skipped, staged twice or left behind          *)
(* (internal_irq_complete_in), unless a timeout abandoned one or the interrupt  *)
(* restaged for a thread about to stage.                                        *)
InInOrder ==
  oddIn \subseteq {"unterminated"} =>
    LET base == IF ireq.pc = "idle" THEN baseIn ELSE Plus(baseIn, ireq.sent)
        waiting == IF ipipe.bank \in {<<>>, <<Zlp>>} THEN 0 ELSE 1
    IN /\ base = Plus(hostIn, waiting)
       /\ waiting = 1 => ipipe.bank[1].tag = hostIn
       /\ ~ireq.stashed => ipipe.bank = <<>>

(* A pending BEMP has a transfer whose walk will acknowledge it, or raises the  *)
(* interrupt for ever (internal_irq_walk_pipe acknowledges none without a       *)
(* transfer, ux_dcd_ra8_usb_irq.c:677).  The second happens after a timeout     *)
(* that dropped a transfer with a packet in the bank, which the host reads      *)
(* later, and after an interrupt that staged for a thread about to stage; never *)
(* otherwise, timeouts on an empty bank included.                               *)
BempOwned == ipipe.bemp /\ ~ireq.stashed => oddIn \cap {"abandoned", "restaged"} # {}

(* When the class is back from a request, completed, failed or timed out, the   *)
(* pipe slot is empty, so that no interrupt completes a request that is gone.   *)
(* A post is left in the semaphore, to satisfy the next wait, exactly when the  *)
(* interrupt completed the request between the timeout and the drop             *)
(* (internal_wait_completion), and on the OUT pipe also when both the interrupt *)
(* and internal_submit_consume_orphan completed it.  (One is not counted: the   *)
(* post of an interrupt that staged for a thread about to stage, whose own      *)
(* staging may then succeed and wait, or fail.)                                 *)
CompletedOnce ==
  /\ oreq.pc = "idle" =>
       /\ ~oreq.stashed
       /\ oreq.sem = IF oddOut \cap {"late", "reposted"} = {} THEN 0 ELSE 1
  /\ ireq.pc = "idle" =>
       /\ ~ireq.stashed
       /\ "restaged" \notin oddIn => ireq.sem = IF "late" \in oddIn THEN 1 ELSE 0

(* Both banks hold a packet that BRDYSTS no longer announces: the host can send *)
(* nothing more, and no interrupt looks at them.                                *)
Stranded == Len(opipe.banks) = Banks /\ ~brdy


(* A submitted IN request returns while the host goes on polling, also when     *)
(* FIFO accesses time out or the pipe falls to NAK (the acknowledgement of BEMP *)
(* is transactional), unless the FIFO refused the trailing zero-length packet.  *)
InCompletes == ireq.pc = "stage" ~> (ireq.pc = "idle" \/ "unterminated" \in oddIn)
================================================================================
