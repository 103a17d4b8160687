------------------------------ MODULE SerialTx ------------------------------
(***************************************************************************)
(* The transmit path of one serial port (serialmanager.c,                  *)
(* kflypacket_generators.c, slip.c, circularbuffer.[ch], usb_access.c).    *)
(*                                                                         *)
(* Any thread may call GenerateMessage: it claims the port's circular      *)
(* buffer, encodes the message as a SLIP frame behind head without moving  *)
(* head, commits by moving head, releases the buffer and signals the data  *)
(* pump.  The data pump, a thread of its own, takes bytes at tail without  *)
(* the buffer's lock and hands them to the driver.  Every step between two *)
(* accesses to shared state is an action, so the writers and the pump      *)
(* interleave at every byte.                                               *)
(***************************************************************************)
EXTENDS CircularBuffer, SlipCodec, FiniteSets

CONSTANTS
  Producers,   (* the threads that call GenerateMessage                     *)
  Byte,        (* the byte values payloads and wire are made of             *)
  Messages,    (* the messages they may generate                            *)
  WordSize,    (* 2^32: size_t arithmetic is done modulo this               *)
  IsUsb,       (* TRUE: USBTransmitCircularBuffer, FALSE: the AUX variant   *)
  NONE         (* no thread, no byte                                        *)

(* A message is the payload the generators hand to slip.c.  They pass it   *)
(* in chunks (header, body, CRC); ends holds the position of the last byte *)
(* of each chunk.                                                          *)
IsMessage(m) ==
  /\ m.data \in Seq(Byte) /\ m.data # <<>>
  /\ m.ends \subseteq 1 .. Len(m.data)
  /\ Len(m.data) \in m.ends

ASSUME TxAssumption ==
  /\ NONE \notin Producers
  /\ NONE \notin Byte
  /\ Reserved \cup {SLIP_ESC_END, SLIP_ESC_ESC} \subseteq Byte
  /\ \A m \in Messages : IsMessage(m)
  /\ WordSize \in Nat /\ WordSize > 4 * Size
  /\ IsUsb \in BOOLEAN

VARIABLES
  head, tail,  (* circular_buffer_t.head and .tail                          *)
  mem,         (* circular_buffer_t.buffer                                  *)
  writeLock,   (* owner of circular_buffer_t.write_lock                     *)
  pc,          (* where each producer is inside GenerateMessage             *)
  msg,         (* the message it is generating                              *)
  pos,         (* payload bytes already encoded                             *)
  count,       (* "count" of slip.c: bytes written behind head, -1: failed  *)
  budget,      (* bytes the current chunk's encode loop may still write     *)
  event,       (* START_TRANSMISSION_EVENT pending at the data pump         *)
  pump,        (* where the data pump is                                    *)
  readPtr, readSize,  (* its read_pointer (as an index) and read_size       *)
  sent,        (* bytes of the chunk at readPtr the driver has taken        *)
  usbActive,   (* isUSBActive()                                             *)
  usbHeld,     (* USB_write_lock is owned (by the pump, its only user)      *)
  wire         (* the byte the driver took last                             *)

bufVars  == <<head, tail, mem>>
genVars  == <<writeLock, pc, msg, pos, count, budget>>
pumpVars == <<pump, readPtr, readSize, sent>>
usbVars  == <<usbActive, usbHeld>>
vars     == <<bufVars, genVars, event, pumpVars, usbVars, wire>>

NoMessage == [data |-> <<>>, ends |-> {}]

(* The section of GenerateMessage between Claim and Release. *)
Writing == {"check", "start", "chunk", "byte", "stop", "commit", "release"}

Space == SpaceLeft(head, tail)

(* Unsigned 32-bit result of a size_t expression. *)
U32(x) == x % WordSize

Goto(p, l) == pc' = [pc EXCEPT ![p] = l]

(***************************************************************************)
(* GenerateMessage and the generators                                      *)
(***************************************************************************)

(* A thread calls GenerateMessage for a command that has a generator. *)
Request(p, m) ==
  /\ pc[p] = "idle"
  /\ msg' = [msg EXCEPT ![p] = m]
  /\ Goto(p, "claim")
  /\ UNCHANGED <<bufVars, writeLock, pos, count, budget, event, pumpVars, usbVars, wire>>

(* CircularBuffer_Claim. *)
Claim(p) ==
  /\ pc[p] = "claim"
  /\ writeLock = NONE
  /\ writeLock' = p
  /\ Goto(p, "check")
  /\ UNCHANGED <<bufVars, msg, pos, count, budget, event, pumpVars, usbVars, wire>>

(* "Check if the best case will fit": HAL_FAILED is returned at once if not. *)
CheckBestCase(p) ==
  /\ pc[p] = "check"
  /\ IF Space < Len(msg[p].data) + 2
     THEN Goto(p, "release") /\ count' = [count EXCEPT ![p] = -1]
     ELSE Goto(p, "start") /\ count' = [count EXCEPT ![p] = 0]
  /\ UNCHANGED <<bufVars, writeLock, msg, pos, budget, event, pumpVars, usbVars, wire>>

(* CircularBuffer_SLIPWriteENDNoInc: a no-op after an error; the test for  *)
(* one free byte is done in unsigned arithmetic.                           *)
WriteEND(p) ==
  IF count[p] >= 0 /\ U32(Space - count[p]) >= 1
  THEN /\ mem' = [mem EXCEPT ![Mask(head + count[p])] = SLIP_END]
       /\ count' = [count EXCEPT ![p] = @ + 1]
  ELSE /\ count' = [count EXCEPT ![p] = -1]
       /\ UNCHANGED mem

StartByte(p) ==
  /\ pc[p] = "start"
  /\ WriteEND(p)
  /\ Goto(p, "chunk")
  /\ UNCHANGED <<head, tail, writeLock, msg, pos, budget, event, pumpVars, usbVars, wire>>

(* The chunk that starts at pos ends at e. *)
IsChunkEnd(p, e) ==
  /\ e \in msg[p].ends /\ e > pos[p]
  /\ \A f \in msg[p].ends : f <= pos[p] \/ e <= f

(* Head of CircularBuffer_SLIPWriteChunkNoInc: space is sampled once per   *)
(* chunk.  If twice the chunk seems to fit the loop is bounded by the data *)
(* only (two bytes for each payload byte), else by space.                  *)
BeginChunk(p) ==
  /\ pc[p] = "chunk"
  /\ IF count[p] >= 0
     THEN /\ \E e \in msg[p].ends :
               /\ IsChunkEnd(p, e)
               /\ budget' = [budget EXCEPT ![p] =
                    IF U32(Space - count[p] + 1) \div 2 >= e - pos[p]
                    THEN 2 * (e - pos[p])
                    ELSE Space]
          /\ Goto(p, "byte")
     ELSE Goto(p, "stop") /\ UNCHANGED budget
  /\ UNCHANGED <<bufVars, writeLock, msg, pos, count, event, pumpVars, usbVars, wire>>

(* Mutant: the escaped byte is counted as one. *)
WriteByteShort(p) ==
  LET b    == msg[p].data[pos[p] + 1]
      at   == Mask(head + count[p])
      next == Mask(head + count[p] + 1)
  IN  /\ pc[p] = "byte"
      /\ budget[p] > 0
      /\ mem' = IF b \in Reserved
                THEN [mem EXCEPT ![at] = SLIP_ESC, ![next] = EscapeOf(b)]
                ELSE [mem EXCEPT ![at] = b]
      /\ count' = [count EXCEPT ![p] = @ + 1]
      /\ budget' = [budget EXCEPT ![p] = @ - 1]
      /\ pos' = [pos EXCEPT ![p] = @ + 1]
      /\ Goto(p, IF pos[p] + 1 \notin msg[p].ends THEN "byte"
                 ELSE IF pos[p] + 1 < Len(msg[p].data) THEN "chunk" ELSE "stop")
      /\ UNCHANGED <<head, tail, writeLock, msg, event, pumpVars, usbVars, wire>>

(* One turn of the encode loop: one payload byte, escaped if reserved. *)
WriteByte(p) ==
  LET b    == msg[p].data[pos[p] + 1]
      at   == Mask(head + count[p])
      next == Mask(head + count[p] + 1)
      n    == IF b \in Reserved THEN 2 ELSE 1
  IN  /\ pc[p] = "byte"
      /\ budget[p] > 0
      /\ mem' = IF b \in Reserved
                THEN [mem EXCEPT ![at] = SLIP_ESC, ![next] = EscapeOf(b)]
                ELSE [mem EXCEPT ![at] = b]
      /\ count' = [count EXCEPT ![p] = @ + n]
      /\ budget' = [budget EXCEPT ![p] = @ - n]
      /\ pos' = [pos EXCEPT ![p] = @ + 1]
      /\ Goto(p, IF pos[p] + 1 \notin msg[p].ends THEN "byte"
                 ELSE IF pos[p] + 1 < Len(msg[p].data) THEN "chunk" ELSE "stop")
      /\ UNCHANGED <<head, tail, writeLock, msg, event, pumpVars, usbVars, wire>>

(* The loop ran out of space before the chunk was written: count = -1. *)
ChunkDoesNotFit(p) ==
  /\ pc[p] = "byte"
  /\ budget[p] <= 0
  /\ count' = [count EXCEPT ![p] = -1]
  /\ Goto(p, "stop")
  /\ UNCHANGED <<bufVars, writeLock, msg, pos, budget, event, pumpVars, usbVars, wire>>

StopByte(p) ==
  /\ pc[p] = "stop"
  /\ WriteEND(p)
  /\ Goto(p, "commit")
  /\ UNCHANGED <<head, tail, writeLock, msg, pos, budget, event, pumpVars, usbVars, wire>>

(* CircularBuffer_Increment: -1 is HAL_FAILED and leaves head alone. *)
Commit(p) ==
  /\ pc[p] = "commit"
  /\ head' = IF count[p] = -1 THEN head ELSE Mask(head + count[p])
  /\ Goto(p, "release")
  /\ UNCHANGED <<tail, mem, writeLock, msg, pos, count, budget, event, pumpVars, usbVars, wire>>

(* CircularBuffer_Release; transmission is only started after HAL_SUCCESS. *)
Release(p) ==
  /\ pc[p] = "release"
  /\ writeLock' = NONE
  /\ Goto(p, IF count[p] = -1 THEN "idle" ELSE "signal")
  /\ msg' = [msg EXCEPT ![p] = NoMessage]
  /\ pos' = [pos EXCEPT ![p] = 0]
  /\ count' = [count EXCEPT ![p] = 0]
  /\ budget' = [budget EXCEPT ![p] = 0]
  /\ UNCHANGED <<bufVars, event, pumpVars, usbVars, wire>>

(* Mutant: the signal only reaches a pump that waits already. *)
SignalWaiting(p) ==
  /\ pc[p] = "signal"
  /\ event' = (event \/ pump = "wait")
  /\ Goto(p, "idle")
  /\ UNCHANGED <<bufVars, writeLock, msg, pos, count, budget, pumpVars, usbVars, wire>>

(* SerialManager_StartTransmission. *)
Signal(p) ==
  /\ pc[p] = "signal"
  /\ event' = TRUE
  /\ Goto(p, "idle")
  /\ UNCHANGED <<bufVars, writeLock, msg, pos, count, budget, pumpVars, usbVars, wire>>

(***************************************************************************)
(* The data pump: USBDataPumpTask or Aux1DataPumpTask                      *)
(***************************************************************************)

(* chEvtWaitAny returns and clears the event. *)
PumpWake ==
  /\ pump = "wait"
  /\ event
  /\ event' = FALSE
  /\ pump' = "start"
  /\ UNCHANGED <<bufVars, genVars, readPtr, readSize, sent, usbVars, wire>>

(* CircularBuffer_GetReadPointer. *)
GetReadPointer ==
  /\ readPtr' = tail
  /\ readSize' = ReadSize(head, tail)

(* Over USB nothing is sent unless the port is active. *)
PumpStart ==
  /\ pump = "start"
  /\ IF IsUsb /\ ~usbActive
     THEN pump' = "wait" /\ UNCHANGED <<readPtr, readSize>>
     ELSE pump' = (IF IsUsb THEN "claim" ELSE "loop") /\ GetReadPointer
  /\ UNCHANGED <<bufVars, genVars, event, sent, usbVars, wire>>

(* USBClaim: the mutex is not recursive (CH_CFG_USE_MUTEXES_RECURSIVE). *)
PumpClaimUsb ==
  /\ pump = "claim"
  /\ ~usbHeld
  /\ usbHeld' = TRUE
  /\ pump' = "loop"
  /\ UNCHANGED <<bufVars, genVars, event, readPtr, readSize, sent, usbActive, wire>>

(* Mutant: the bus is not released after a transfer. *)
PumpLoopKeeping ==
  /\ pump = "loop"
  /\ pump' = IF readSize > 0 THEN "send" ELSE "wait"
  /\ UNCHANGED <<bufVars, genVars, event, readPtr, readSize, sent, usbVars, wire>>

(* while (read_size > 0): send the chunk, or release the bus and go back   *)
(* to waiting.                                                             *)
PumpLoop ==
  /\ pump = "loop"
  /\ IF readSize > 0
     THEN pump' = "send" /\ UNCHANGED usbHeld
     ELSE pump' = "wait" /\ usbHeld' = FALSE
  /\ UNCHANGED <<bufVars, genVars, event, readPtr, readSize, sent, usbActive, wire>>

(* Inside USBSendData or sdWrite: the driver takes the next byte. *)
SendByte ==
  /\ pump = "send"
  /\ sent < readSize
  /\ IsUsb => usbActive
  /\ wire' = mem[readPtr + sent]
  /\ sent' = sent + 1
  /\ UNCHANGED <<bufVars, genVars, event, pump, readPtr, readSize, usbVars>>

(* USB gone: the driver's queue is reset and the call returns early; its   *)
(* result is ignored, so the rest of the chunk counts as sent.             *)
SendAborted ==
  /\ pump = "send"
  /\ sent < readSize
  /\ IsUsb /\ ~usbActive
  /\ sent' = readSize
  /\ UNCHANGED <<bufVars, genVars, event, pump, readPtr, readSize, usbVars, wire>>

(* CircularBuffer_IncrementTail by the whole chunk. *)
SendDone ==
  /\ pump = "send"
  /\ sent = readSize
  /\ tail' = Mask(tail + readSize)
  /\ sent' = 0
  /\ pump' = "reread"
  /\ UNCHANGED <<head, mem, genVars, event, readPtr, readSize, usbVars, wire>>

PumpReread ==
  /\ pump = "reread"
  /\ GetReadPointer
  /\ pump' = IF IsUsb THEN "active" ELSE "loop"
  /\ UNCHANGED <<bufVars, genVars, event, sent, usbVars, wire>>

(* "If the USB has been removed during the transfer: abort": the return    *)
(* leaves the loop without USBRelease.                                     *)
PumpCheckActive ==
  /\ pump = "active"
  /\ pump' = IF usbActive THEN "loop" ELSE "wait"
  /\ UNCHANGED <<bufVars, genVars, event, readPtr, readSize, sent, usbVars, wire>>

(* The USB interrupt handler (usb_event): the host comes and goes. *)
UsbChange ==
  /\ IsUsb
  /\ usbActive' = ~usbActive
  /\ UNCHANGED <<bufVars, genVars, event, pumpVars, usbHeld, wire>>

(***************************************************************************)
(* Specification                                                           *)
(***************************************************************************)

(* The buffer just after the data pump thread initialised it. *)
Init ==
  /\ head = 0 /\ tail = 0
  /\ mem = [i \in Index |-> NONE]
  /\ writeLock = NONE
  /\ pc = [p \in Producers |-> "idle"]
  /\ msg = [p \in Producers |-> NoMessage]
  /\ pos = [p \in Producers |-> 0]
  /\ count = [p \in Producers |-> 0]
  /\ budget = [p \in Producers |-> 0]
  /\ event = FALSE
  /\ pump = "wait" /\ readPtr = 0 /\ readSize = 0 /\ sent = 0
  /\ usbActive = FALSE /\ usbHeld = FALSE
  /\ wire = NONE

(* What a producer does once it has called GenerateMessage. *)
Generate(p) ==
  \/ CheckBestCase(p) \/ StartByte(p) \/ BeginChunk(p) \/ WriteByte(p)
  \/ ChunkDoesNotFit(p) \/ StopByte(p) \/ Commit(p) \/ Release(p) \/ Signal(p)

Pump ==
  \/ PumpWake \/ PumpStart \/ PumpClaimUsb \/ PumpLoop \/ SendByte
  \/ SendAborted \/ SendDone \/ PumpReread \/ PumpCheckActive

Next ==
  \/ \E p \in Producers : \E m \in Messages : Request(p, m)
  \/ \E p \in Producers : Claim(p) \/ Generate(p)
  \/ Pump
  \/ UsbChange

Spec == Init /\ [][Next]_vars

(* The scheduler runs every ready thread, and chMtxUnlock hands a mutex to *)
(* the thread that has waited longest, so no claimer waits for ever behind *)
(* others.  Nothing makes a thread call GenerateMessage or the host come.  *)
Fairness ==
  /\ WF_vars(Pump)
  /\ \A p \in Producers : WF_vars(Generate(p)) /\ SF_vars(Claim(p))

FairSpec == Spec /\ Fairness

(***************************************************************************)
(* Properties                                                              *)
(***************************************************************************)

BufferOK ==
  /\ head \in Index /\ tail \in Index
  /\ mem \in [Index -> Byte \cup {NONE}]
  /\ wire \in Byte \cup {NONE}

WritersOK ==
  /\ writeLock \in Producers \cup {NONE}
  /\ pc \in [Producers -> {"idle", "claim", "signal"} \cup Writing]
  /\ msg \in [Producers -> Messages \cup {NoMessage}]
  /\ pos \in [Producers -> Nat]
  /\ count \in [Producers -> Int]
  /\ budget \in [Producers -> Int]

PumpOK ==
  /\ event \in BOOLEAN /\ usbActive \in BOOLEAN /\ usbHeld \in BOOLEAN
  /\ pump \in {"wait", "start", "claim", "loop", "send", "reread", "active"}
  /\ readPtr \in Index /\ readSize \in Nat /\ sent \in Nat

(* Every variable has the type of the C object it models. *)
TypeOK == BufferOK /\ WritersOK /\ PumpOK

(* No two threads are between CircularBuffer_Claim and                     *)
(* CircularBuffer_Release: whoever is there owns the write lock.           *)
WriterOwnsLock == \A p \in Producers : pc[p] \in Writing => writeLock = p

(* "HAL_FAILED if the message didn't fit or HAL_SUCCESS if it did fit"     *)
(* (kflypacket_generators.c:208): a message that is about to be committed  *)
(* lies entirely in the free part of the buffer.                           *)
SuccessMeansItFit ==
  \A p \in Producers :
    pc[p] = "commit" /\ count[p] # -1 => count[p] <= Space

(* The chunk the pump hands to the driver is contiguous, starts at tail    *)
(* and holds unread bytes only, although head moves while it is being sent *)
(* (CircularBuffer_GetReadPointer's result is used long after the call).   *)
ChunkIsUnread ==
  pump \in {"claim", "loop", "send", "active"} =>
    /\ readPtr = tail
    /\ readPtr + readSize <= Size
    /\ readSize <= Unread(head, tail)
    /\ sent <= readSize

(* "the 'no special case' is guaranteed to fit" (slip.c:110): a message    *)
(* that passed the best-case test and has no reserved byte never fails     *)
(* half way, whatever the pump frees meanwhile.                            *)
PlainMessageNeverFails ==
  \A p \in Producers :
    (\A i \in DOMAIN msg[p].data : msg[p].data[i] \notin Reserved) =>
      (pc[p] \in {"stop", "commit"} => count[p] # -1)

(* A byte that was committed and not yet taken is never overwritten.       *)
UnreadStable ==
  [][\A i \in Index :
       IsUnread(i, head, tail) /\ IsUnread(i, head', tail') => mem'[i] = mem[i]]_vars

(* How far a writer is, as long as the best-case test lets no message pass *)
(* that does not fit: count is what was written, the encode loop has room  *)
(* for the rest of its chunk, and what the test found free is still free,  *)
(* since nobody else moves head and the pump only frees cells.             *)
ProgressOK(p) ==
  LET data == msg[p].data
  IN  /\ pc[p] = "start" => count[p] = 0
      /\ pc[p] \in {"chunk", "byte"} => count[p] = Len(Stuffed(data, pos[p])) + 1
      /\ pc[p] = "byte" =>
           \E e \in msg[p].ends :
             /\ IsChunkEnd(p, e)
             /\ budget[p] >= Len(Stuffed(data, e)) - Len(Stuffed(data, pos[p]))
      /\ pc[p] = "stop" => count[p] = Len(Frame(data)) - 1
      /\ pc[p] = "commit" => count[p] = Len(Frame(data))
      /\ pc[p] \in {"start", "chunk", "byte", "stop", "commit"} => Len(Frame(data)) <= Space

(* Every writer is where ProgressOK says: no commit ever finds less room   *)
(* than the frame it wrote.                                                *)
WriterProgress == \A p \in Producers : ProgressOK(p)

(* The bytes still to be transmitted, oldest first. *)
Queue ==
  [i \in 1 .. Mask(head + Size - tail - sent) |-> mem[Mask(tail + sent + i - 1)]]

(* The promise of the transmit path: a queue to which whole frames are     *)
(* appended, all or nothing, and from which the wire takes byte by byte.   *)
Fifo == INSTANCE TxFifo WITH queue <- Queue, out <- wire, host <- usbActive

(* Every behaviour of the buffer, its writers and the pump is one of that  *)
(* queue: frames reach the wire whole, unmixed and in commit order.        *)
ImplementsFifo == Fifo!Spec

(* No lost wake-up: a committed byte is eventually taken by the pump,      *)
(* whether it was committed before, during or after a transfer.            *)
BytesLeave == \A t \in Index : (tail = t /\ head # t) ~> (tail # t)

(* Over USB, bytes that lie in the buffer when a message has just been     *)
(* committed leave it if the host stays from then on, unless the host once *)
(* left in the middle of a transfer (serialmanager.c:350 keeps the bus).   *)
UsbBytesLeave ==
  \A t \in Index :
    \/ <>(pump = "active" /\ ~usbActive)
    \/ []((\E p \in Producers : pc[p] = "signal") /\ tail = t /\ head # t /\ []usbActive
            => <>(tail # t))

=============================================================================
