-------------------------------- MODULE Cobs --------------------------------
(***************************************************************************)
(* The byte stuffing of cobs.c, which no part of the program calls yet: a  *)
(* packet is encoded into the circular buffer byte by byte, the code byte  *)
(* of a block is written back when the block is finished, and the decoder  *)
(* takes the bytes one at a time.                                          *)
(*                                                                         *)
(* A code stands for its block with one zero more than the data have had   *)
(* so far: the zero that ends the packet is never sent.                    *)
(***************************************************************************)
EXTENDS Integers, Sequences

CONSTANTS
    DiffZero,       \* 0x01: the first code of n - 1 data bytes and one zero
    Diff,           \* 0xD2: n - 1 data bytes and no zero
    RunZero,        \* 0xD3: three zeros, and one more with each code up to
    RunZeroMax,     \* 0xDF
    Diff2Zero,      \* 0xE0: no data byte and two zeros, one byte more with each
    Diff2ZeroMax,   \* 0xFF
    Data,           \* the bytes of a packet
    MaxSize,        \* bound on the bytes of a packet
    MaxNoise,       \* bound on the bytes received before the packet
    BufferSize      \* of the decoder

ASSUME CodeAssumption == /\ {Diff, RunZeroMax, Diff2Zero, Diff2ZeroMax} \subseteq Nat
                         /\ DiffZero = 1
                         /\ RunZero = Diff + 1
                         /\ RunZeroMax >= RunZero
                         /\ Diff2Zero > RunZeroMax
                         /\ Diff2ZeroMax - Diff2Zero \in 1 .. Diff - 2

ASSUME BytesAssumption == Data \subseteq Nat /\ BufferSize \in Nat

CONVERTZP == Diff2Zero - DiffZero
MAXCONVERTIBLE == Diff2ZeroMax - CONVERTZP
isDiff2Zero(code) == code >= Diff2Zero
isRunZero(code) == code \in RunZero .. RunZeroMax

VARIABLES
    data,           \* what was given to the encoder
    block,          \* cb->buffer from head, the blocks finished and the current one
    code, code_index,       \* of cobs_encoder_t
    sending,        \* bytes on their way to the decoder
    noise,          \* bytes received before
    state, num_zeros, num_data, buffer,     \* of cobs_decoder_t
    parsed          \* the packets given to the parser

enc == <<data, block, code, code_index>>
dec == <<state, num_zeros, num_data, buffer, parsed>>
cobsVars == <<enc, dec, sending, noise>>
-----------------------------------------------------------------------------
\* FinishBlock: the buffer after the code was written back and a place kept.
Finish(b, index, c) == Append([b EXCEPT ![index] = c], 0)

\* A zero: the code that takes it in, or 0 if the block must be finished.
WithZero(c) == IF isRunZero(c) /\ c < RunZeroMax THEN c + 1
               ELSE IF c = Diff2Zero THEN RunZero
               ELSE IF c <= MAXCONVERTIBLE THEN c + CONVERTZP
               ELSE 0

\* Mutant: the code of a run is not converted back.
WithoutZeroRun(c) == IF isDiff2Zero(c) THEN c - CONVERTZP
                     ELSE IF isRunZero(c) THEN c - 1
                     ELSE 0

\* A data byte after zeros: the code one zero back, or 0 if the block goes on.
WithoutZero(c) == IF isDiff2Zero(c) THEN c - CONVERTZP
                  ELSE IF c = RunZero THEN Diff2Zero
                  ELSE IF isRunZero(c) THEN c - 1
                  ELSE 0

EncodeZero ==
    IF WithZero(code) # 0
    THEN code' = WithZero(code) /\ UNCHANGED <<block, code_index>>
    ELSE /\ block' = Finish(block, code_index, code)
         /\ code_index' = Len(block) + 1
         /\ code' = DiffZero

EncodeByte(byte) ==
    LET back  == WithoutZero(code)
        start == IF back = 0 THEN [block |-> block, index |-> code_index, code |-> code]
                 ELSE [block |-> Finish(block, code_index, back),
                       index |-> Len(block) + 1, code |-> DiffZero]
        put   == Append(start.block, byte)
    IN  IF start.code + 1 = Diff
        THEN /\ block' = Finish(put, start.index, Diff)
             /\ code_index' = Len(put) + 1
             /\ code' = DiffZero
        ELSE /\ block' = put
             /\ code_index' = start.index
             /\ code' = start.code + 1

\* CircularBuffer_COBSWriteChunkNoInc, of one byte.
Write ==
    /\ code_index # 0
    /\ Len(data) < MaxSize
    /\ \E byte \in Data :
         /\ data' = Append(data, byte)
         /\ IF byte = 0 THEN EncodeZero ELSE EncodeByte(byte)
    /\ UNCHANGED <<dec, sending, noise>>

\* The last FinishBlock of COBSEncode, and the bytes leave, after the delimiter that
\* ended what was sent before.
EndPacket ==
    /\ code_index # 0
    /\ block' = Finish(block, code_index, code)
    /\ code_index' = 0
    /\ sending' = <<0>> \o block'
    /\ UNCHANGED <<data, code, dec, noise>>
-----------------------------------------------------------------------------
Fits(count) == Len(buffer) + count < BufferSize

\* DecodedSizeFitsBuffer at the head of COBSDecode: the decoder starts over, and goes
\* on with the byte.
Before == IF Fits(1) THEN [state |-> state, buffer |-> buffer]
          ELSE [state |-> "code", buffer |-> <<>>]

Zeros(n) == [i \in 1 .. n |-> 0]

\* num_zeros and num_data of a code; in the masks in & 0x0f and in & 0x1f.
ZerosOf(c) == IF c = Diff THEN 0
              ELSE IF isRunZero(c) THEN c - RunZero + 3
              ELSE IF isDiff2Zero(c) THEN 2 ELSE 1
DataOf(c) == IF isRunZero(c) THEN 0
             ELSE IF isDiff2Zero(c) THEN c - Diff2Zero ELSE c - 1

\* The block has all its data: its zeros follow, if they fit.
EndBlock(b, zeros) ==
    /\ buffer' = IF Len(b) + zeros < BufferSize THEN b \o Zeros(zeros) ELSE <<>>
    /\ state' = "code"

DecodeCode(b, in) ==
    /\ num_zeros' = ZerosOf(in)
    /\ num_data' = DataOf(in)
    /\ IF num_data' = 0 THEN EndBlock(b, num_zeros')
       ELSE state' = "data" /\ buffer' = b
    /\ UNCHANGED parsed

DecodeData(b, in) ==
    /\ num_data' = num_data - 1
    /\ IF num_data' = 0 THEN EndBlock(Append(b, in), num_zeros)
       ELSE state' = "data" /\ buffer' = Append(b, in)
    /\ UNCHANGED <<num_zeros, parsed>>

\* The delimiter: the packet is what was decoded without its last zero.
DecodeEnd(from, b) ==
    /\ parsed' = IF from = "code" /\ b # <<>> THEN Append(parsed, SubSeq(b, 1, Len(b) - 1))
                 ELSE parsed
    /\ state' = "code"
    /\ buffer' = <<>>
    /\ UNCHANGED <<num_zeros, num_data>>

\* COBSDecode.
COBSDecode(in) ==
    IF in = 0 THEN DecodeEnd(Before.state, Before.buffer)
    ELSE IF Before.state = "code" THEN DecodeCode(Before.buffer, in)
    ELSE DecodeData(Before.buffer, in)

Receive == /\ sending # <<>>
           /\ COBSDecode(Head(sending))
           /\ sending' = Tail(sending)
           /\ UNCHANGED <<enc, noise>>

\* Whatever came before: the end of a packet of which the start was lost.
Noise == /\ data = <<>> /\ code_index # 0
         /\ noise < MaxNoise
         /\ noise' = noise + 1
         /\ \E in \in {DiffZero, Diff, RunZero, Diff2Zero + 1} : COBSDecode(in)
         /\ UNCHANGED <<enc, sending>>

\* StartPacket keeps a place for the first code.
CobsInit ==
    /\ data = <<>> /\ block = <<0>> /\ code = DiffZero /\ code_index = 1
    /\ sending = <<>> /\ noise = 0
    /\ state = "code" /\ num_zeros = 0 /\ num_data = 0 /\ buffer = <<>>
    /\ parsed = <<>>

CobsNext == Write \/ EndPacket \/ Receive \/ Noise

CobsSpec == CobsInit /\ [][CobsNext]_cobsVars
-----------------------------------------------------------------------------
\* COBSGetMaxEncodedSize, of which COBSEncode makes sure before it writes.
COBSGetMaxEncodedSize(size) == size + size \div (Diff - 2) + 2

\* A packet is never encoded to more than the space it was given, and to no zero but the
\* one that ends it; and whatever the decoder got before, a packet that fits its buffer
\* is parsed as it was given to the encoder.
DecodedAsEncoded ==
    code_index = 0 =>
        /\ Len(block) <= COBSGetMaxEncodedSize(Len(data))
        /\ \A i \in DOMAIN block : block[i] = 0 <=> i = Len(block)
        /\ sending = <<>> /\ Len(data) + 2 < BufferSize =>
             parsed # <<>> /\ parsed[Len(parsed)] = data
=============================================================================
