----------------------------- MODULE SlipParser -----------------------------
(***************************************************************************)
(* The receive path of one serial port: the serial manager task reads byte *)
(* after byte, ParseSLIP (slip.c) cuts the stream into frames, and         *)
(* ParseKFlyPacketFromSLIP (slip2kflypacket.c) checks each one and runs    *)
(* the handler of its command.  The sender and a line that damages bytes   *)
(* are the environment.  CRC16 is taken to detect every damage: a frame    *)
(* has a good CRC exactly if it is a packet somebody generates.            *)
(***************************************************************************)
EXTENDS Integers, SlipCodec

CONSTANTS
  Packets,      (* what senders generate, each with a good CRC              *)
  BufferSize,   (* SERIAL_RECIEVE_BUFFER_SIZE                               *)
  NoiseBytes,   (* the values a damaged byte may take                       *)
  RESET,        (* (uint8_t)MSG_RESET, "read" when the USB host leaves      *)
  IsUsb,        (* the port is USB                                          *)
  MaxFrames,    (* bound: frames sent                                       *)
  MaxNoise,     (* bound: bytes damaged                                     *)
  NONE          (* no packet, no handler                                    *)

(* A packet: its bytes with header and CRC, the command and ACK bit in its *)
(* first byte, the size in its second, and whether parser_lookup has a     *)
(* handler for the command (Cmd_None is 0).                                *)
ASSUME PacketAssumption ==
  /\ NONE \notin Packets
  /\ \A p \in Packets :
       p.bytes \in Seq(ToSet(p.bytes)) /\ Len(p.bytes) >= 2
       /\ p.cmd \in Nat /\ p.len \in Nat
       /\ p.ack \in BOOLEAN /\ p.known \in BOOLEAN
  /\ \A p, q \in Packets : p.bytes = q.bytes => p = q
  /\ BufferSize \in Nat \ {0}
  /\ IsUsb \in BOOLEAN

VARIABLES
  state,        (* slip_parser_t.state                                      *)
  buffer,       (* the first buffer_count bytes of slip_parser_t.buffer     *)
  slipStat,     (* its rx_success, rx_error and buffer_overrun              *)
  parser, ack,  (* kfly_parser_t.parser (as the packet's command) and .ack  *)
  kflyStat,     (* its rx_success, rx_cmd_error, rx_size_error, rx_crc_error*)
  fault,        (* the processor has taken a bus fault                      *)
  line,         (* bytes sent and not yet read                              *)
  cur,          (* the packet on the line                                   *)
  intact,       (* none of its bytes was damaged                            *)
  noise,        (* bytes damaged so far                                     *)
  sent,         (* the packets sent so far                                  *)
  run,          (* the packets whose handler was run                        *)
  acked,        (* the packets for which an ACK was generated               *)
  missed        (* intact packets not accepted since the last damage        *)

rxVars   == <<state, buffer, slipStat, parser, ack, kflyStat, fault, run, acked>>
lineVars == <<line, cur, intact, noise, sent, missed>>
vars     == <<rxVars, lineVars>>

(* The packet carries a command and fits the protocol's size rule.         *)
WellFormed(p) == p.cmd > 0 /\ Len(p.bytes) >= 4 /\ p.len = Len(p.bytes) - 4

(* The packet is one the receiver is meant to accept. *)
Acceptable(p) == WellFormed(p) /\ Len(p.bytes) <= BufferSize

(***************************************************************************)
(* ParseKFlyPacketFromSLIP, for the frame f                                *)
(***************************************************************************)

(* Mutant: the ACK flag of an earlier packet is not cleared. *)
KeepAck(p) == ack \/ p.ack

(* "If ACK is requested". *)
AckFlag(p) == p.ack

(* A size below 2 makes size - 2 a huge unsigned length: CRC16 runs out of *)
(* the address space.                                                      *)
CrcRunsAway(f) ==
  /\ Len(f) < 2
  /\ fault' = TRUE
  /\ UNCHANGED <<parser, ack, kflyStat, run, acked>>

CrcError(f) ==
  /\ Len(f) >= 2
  /\ \A p \in Packets : f # p.bytes
  /\ kflyStat' = [kflyStat EXCEPT !.crcError = @ + 1]
  /\ UNCHANGED <<parser, ack, fault, run, acked>>

(* Command zero is refused; else handler and ACK flag are stored before    *)
(* the size is checked, the ACK is generated and then the handler is run.  *)
Accept(f) ==
  \E p \in Packets :
    /\ f = p.bytes
    /\ IF p.cmd = 0
       THEN /\ kflyStat' = [kflyStat EXCEPT !.cmdError = @ + 1]
            /\ UNCHANGED <<parser, ack, run, acked>>
       ELSE /\ parser' = IF p.known THEN p.cmd ELSE NONE
            /\ ack' = AckFlag(p)
            /\ IF Len(f) >= 4 /\ Len(f) - 4 = p.len
               THEN /\ kflyStat' = [kflyStat EXCEPT !.success = @ + 1]
                    /\ acked' = IF ack' THEN Append(acked, p) ELSE acked
                    /\ run' = IF p.known THEN Append(run, p) ELSE run
               ELSE /\ kflyStat' = [kflyStat EXCEPT !.sizeError = @ + 1]
                    /\ UNCHANGED <<run, acked>>
    /\ UNCHANGED fault

ParseKFlyPacket(f) == CrcRunsAway(f) \/ CrcError(f) \/ Accept(f)

(***************************************************************************)
(* ParseSLIP, for the byte b                                               *)
(***************************************************************************)

(* No frame reaches the packet layer. *)
Skip == UNCHANGED <<parser, ack, kflyStat, fault, run, acked>>

(* An END starts a frame with an empty buffer; anything else is skipped. *)
AwaitingStart(b) ==
  /\ state = "AWAITING_START"
  /\ IF b = SLIP_END
     THEN state' = "RECEIVING" /\ buffer' = <<>>
     ELSE UNCHANGED <<state, buffer>>
  /\ UNCHANGED slipStat
  /\ Skip

(* Mutant: an END without payload ends the frame like any other. *)
EndOfFrameAlways ==
  /\ state' = "AWAITING_START"
  /\ slipStat' = [slipStat EXCEPT !.success = @ + 1]
  /\ UNCHANGED buffer
  /\ IF buffer # <<>> THEN ParseKFlyPacket(buffer) ELSE Skip

(* An END: a frame without payload is taken as a new start. *)
EndOfFrame ==
  IF buffer # <<>>
  THEN /\ state' = "AWAITING_START"
       /\ slipStat' = [slipStat EXCEPT !.success = @ + 1]
       /\ UNCHANGED buffer
       /\ ParseKFlyPacket(buffer)
  ELSE UNCHANGED <<state, buffer, slipStat>> /\ Skip

(* Mutant: the overrun test comes one byte late. *)
StoreLate(b) ==
  /\ IF Len(buffer) > BufferSize
     THEN /\ state' = "AWAITING_START"
          /\ slipStat' = [slipStat EXCEPT !.error = @ + 1, !.overrun = @ + 1]
          /\ UNCHANGED buffer
     ELSE /\ state' = "RECEIVING"
          /\ buffer' = Append(buffer, b)
          /\ UNCHANGED slipStat
  /\ Skip

(* A payload byte: stored, or the frame is given up if the buffer is full. *)
Store(b) ==
  /\ IF Len(buffer) >= BufferSize
     THEN /\ state' = "AWAITING_START"
          /\ slipStat' = [slipStat EXCEPT !.error = @ + 1, !.overrun = @ + 1]
          /\ UNCHANGED buffer
     ELSE /\ state' = "RECEIVING"
          /\ buffer' = Append(buffer, b)
          /\ UNCHANGED slipStat
  /\ Skip

(* Inside a frame: an escape, the end, or a plain payload byte. *)
Receiving(b) ==
  /\ state = "RECEIVING"
  /\ \/ b = SLIP_ESC /\ state' = "AWAITING_ESC" /\ UNCHANGED <<buffer, slipStat>> /\ Skip
     \/ b = SLIP_END /\ EndOfFrame
     \/ b \notin Reserved /\ Store(b)

(* After ESC only the two escape codes are right; else the frame is lost. *)
AwaitingEsc(b) ==
  /\ state = "AWAITING_ESC"
  /\ \/ b = SLIP_ESC_END /\ Store(SLIP_END)
     \/ b = SLIP_ESC_ESC /\ Store(SLIP_ESC)
     \/ /\ b \notin {SLIP_ESC_END, SLIP_ESC_ESC}
        /\ state' = "AWAITING_START"
        /\ slipStat' = [slipStat EXCEPT !.error = @ + 1]
        /\ UNCHANGED buffer
        /\ Skip

ParseSLIP(b) == AwaitingStart(b) \/ Receiving(b) \/ AwaitingEsc(b)

(***************************************************************************)
(* The serial manager task and its environment                             *)
(***************************************************************************)

(* The byte just read completed a packet that was accepted. *)
Accepted == kflyStat.success' > kflyStat.success

(* The manager task reads the next byte.  With the last byte of a packet   *)
(* it is settled whether an intact one was accepted.                       *)
Read ==
  /\ ~fault /\ line # <<>>
  /\ ParseSLIP(Head(line))
  /\ line' = Tail(line)
  /\ IF cur # NONE /\ Tail(line) = <<>>
     THEN /\ cur' = NONE
          /\ missed' = IF intact /\ Acceptable(cur) /\ ~Accepted THEN missed + 1 ELSE missed
     ELSE UNCHANGED <<cur, missed>>
  /\ UNCHANGED <<intact, noise, sent>>

(* A sender transmits a packet (GenerateMessage, on the other side). *)
Send(p) ==
  /\ ~fault /\ line = <<>> /\ Len(sent) < MaxFrames
  /\ line' = Frame(p.bytes)
  /\ cur' = p
  /\ intact' = TRUE
  /\ sent' = Append(sent, p)
  /\ UNCHANGED <<rxVars, noise, missed>>

(* One more byte is damaged; the count of missed packets starts afresh. *)
Damage ==
  /\ ~fault /\ noise < MaxNoise
  /\ noise' = noise + 1
  /\ missed' = 0
  /\ UNCHANGED <<rxVars, sent>>

(* A byte appears on the line; before or after a packet it damages none. *)
Insert(b) ==
  /\ Damage
  /\ line' = <<b>> \o line
  /\ intact' = (intact /\ (cur = NONE \/ line = Frame(cur.bytes)))
  /\ UNCHANGED cur

(* A byte is lost. *)
Drop ==
  /\ Damage
  /\ line # <<>> /\ cur # NONE
  /\ line' = Tail(line)
  /\ intact' = FALSE
  /\ cur' = IF Tail(line) = <<>> THEN NONE ELSE cur

(* The USB host leaves: what it had sent is lost, and the pending          *)
(* USBReadByte returns MSG_RESET, which is parsed as a byte.               *)
HostLeaves ==
  /\ IsUsb
  /\ Damage
  /\ line' = <<RESET>>
  /\ cur' = NONE
  /\ intact' = FALSE

(***************************************************************************)
(* Specification                                                           *)
(***************************************************************************)

(* InitSLIPParser and InitKFlyPacketParser. *)
Init ==
  /\ state = "AWAITING_START" /\ buffer = <<>>
  /\ slipStat = [success |-> 0, error |-> 0, overrun |-> 0]
  /\ parser = NONE /\ ack = FALSE
  /\ kflyStat = [success |-> 0, cmdError |-> 0, sizeError |-> 0, crcError |-> 0]
  /\ fault = FALSE
  /\ line = <<>> /\ cur = NONE /\ intact = FALSE /\ noise = 0
  /\ sent = <<>> /\ run = <<>> /\ acked = <<>> /\ missed = 0

Next ==
  \/ Read
  \/ \E p \in Packets : Send(p)
  \/ \E b \in NoiseBytes : Insert(b)
  \/ Drop
  \/ HostLeaves

Spec == Init /\ [][Next]_vars

(***************************************************************************)
(* Properties                                                              *)
(***************************************************************************)

(* "guarantee that the packet structure is not corrupted" (slip.c:358):    *)
(* however bytes are damaged, each burst of damage costs at most one of    *)
(* the intact packets that follow; the next one is accepted.               *)
ResyncWithinOneFrame == missed <= 1

(* Without damage every packet that fits is accepted, also right after one *)
(* that is too long for the buffer or was refused.                         *)
UndamagedIsAccepted == noise = 0 => missed = 0

(* Handlers are run in the order of sending, for packets the receiver is   *)
(* meant to accept only, and none more often than it was sent.             *)
RunsWhatWasSent ==
  \E at \in [DOMAIN run -> DOMAIN sent] :
    /\ \A i, j \in DOMAIN run : i < j => at[i] < at[j]
    /\ \A i \in DOMAIN run : run[i] = sent[at[i]] /\ Acceptable(run[i])

(* The packets of the sequence s that are in S, in their order. *)
Within(s, S) == FlattenSeq([i \in DOMAIN s |-> IF s[i] \in S THEN <<s[i]>> ELSE <<>>])

(* An ACK goes to exactly those accepted packets that ask for one.         *)
AckedAsAsked ==
  Within(run, {p \in Packets : p.ack}) = Within(acked, {p \in Packets : p.known})

=============================================================================
