-------------------------------- MODULE Crc --------------------------------
(***************************************************************************)
(* The checksums of crc.c, and a packet with its CRC16 on a line that      *)
(* damages one burst of it.  The sender runs CRC16_step over the bytes and *)
(* sends the CRC last, LSB first; ParseKFlyPacketFromSLIP runs CRC16 over  *)
(* what it got and compares.  The line sends each byte's bits LSB first,   *)
(* the CRC shifts in the MSB first: the span of a burst on the line is not *)
(* its span in the polynomial.  A word is the set of the bits that are 1   *)
(* in it, so that its exclusive or is SymDiff.                             *)
(***************************************************************************)
EXTENDS Integers, SequencesExt

CONSTANTS
    Bytes,          \* the bytes of a body
    MaxBody,        \* bound on its length
    BurstBits       \* bits, from the first to the last, that a burst may damage

Byte == SUBSET (0 .. 7)
Word == SUBSET (0 .. 15)

ASSUME BurstAssumption == /\ Bytes \subseteq Byte
                          /\ BurstBits \in 8 .. 16

crc16_table == <<
    \h0000, \h1021, \h2042, \h3063, \h4084, \h50a5, \h60c6, \h70e7,
    \h8108, \h9129, \ha14a, \hb16b, \hc18c, \hd1ad, \he1ce, \hf1ef,
    \h1231, \h0210, \h3273, \h2252, \h52b5, \h4294, \h72f7, \h62d6,
    \h9339, \h8318, \hb37b, \ha35a, \hd3bd, \hc39c, \hf3ff, \he3de,
    \h2462, \h3443, \h0420, \h1401, \h64e6, \h74c7, \h44a4, \h5485,
    \ha56a, \hb54b, \h8528, \h9509, \he5ee, \hf5cf, \hc5ac, \hd58d,
    \h3653, \h2672, \h1611, \h0630, \h76d7, \h66f6, \h5695, \h46b4,
    \hb75b, \ha77a, \h9719, \h8738, \hf7df, \he7fe, \hd79d, \hc7bc,
    \h48c4, \h58e5, \h6886, \h78a7, \h0840, \h1861, \h2802, \h3823,
    \hc9cc, \hd9ed, \he98e, \hf9af, \h8948, \h9969, \ha90a, \hb92b,
    \h5af5, \h4ad4, \h7ab7, \h6a96, \h1a71, \h0a50, \h3a33, \h2a12,
    \hdbfd, \hcbdc, \hfbbf, \heb9e, \h9b79, \h8b58, \hbb3b, \hab1a,
    \h6ca6, \h7c87, \h4ce4, \h5cc5, \h2c22, \h3c03, \h0c60, \h1c41,
    \hedae, \hfd8f, \hcdec, \hddcd, \had2a, \hbd0b, \h8d68, \h9d49,
    \h7e97, \h6eb6, \h5ed5, \h4ef4, \h3e13, \h2e32, \h1e51, \h0e70,
    \hff9f, \hefbe, \hdfdd, \hcffc, \hbf1b, \haf3a, \h9f59, \h8f78,
    \h9188, \h81a9, \hb1ca, \ha1eb, \hd10c, \hc12d, \hf14e, \he16f,
    \h1080, \h00a1, \h30c2, \h20e3, \h5004, \h4025, \h7046, \h6067,
    \h83b9, \h9398, \ha3fb, \hb3da, \hc33d, \hd31c, \he37f, \hf35e,
    \h02b1, \h1290, \h22f3, \h32d2, \h4235, \h5214, \h6277, \h7256,
    \hb5ea, \ha5cb, \h95a8, \h8589, \hf56e, \he54f, \hd52c, \hc50d,
    \h34e2, \h24c3, \h14a0, \h0481, \h7466, \h6447, \h5424, \h4405,
    \ha7db, \hb7fa, \h8799, \h97b8, \he75f, \hf77e, \hc71d, \hd73c,
    \h26d3, \h36f2, \h0691, \h16b0, \h6657, \h7676, \h4615, \h5634,
    \hd94c, \hc96d, \hf90e, \he92f, \h99c8, \h89e9, \hb98a, \ha9ab,
    \h5844, \h4865, \h7806, \h6827, \h18c0, \h08e1, \h3882, \h28a3,
    \hcb7d, \hdb5c, \heb3f, \hfb1e, \h8bf9, \h9bd8, \habbb, \hbb9a,
    \h4a75, \h5a54, \h6a37, \h7a16, \h0af1, \h1ad0, \h2ab3, \h3a92,
    \hfd2e, \hed0f, \hdd6c, \hcd4d, \hbdaa, \had8b, \h9de8, \h8dc9,
    \h7c26, \h6c07, \h5c64, \h4c45, \h3ca2, \h2c83, \h1ce0, \h0cc1,
    \hef1f, \hff3e, \hcf5d, \hdf7c, \haf9b, \hbfba, \h8fd9, \h9ff8,
    \h6e17, \h7e36, \h4e55, \h5e74, \h2e93, \h3eb2, \h0ed1, \h1ef0>>

crc8_table == <<
    \h00, \h07, \h0e, \h09, \h1c, \h1b, \h12, \h15, \h38, \h3f, \h36, \h31, \h24, \h23, \h2a, \h2d,
    \h70, \h77, \h7e, \h79, \h6c, \h6b, \h62, \h65, \h48, \h4f, \h46, \h41, \h54, \h53, \h5a, \h5d,
    \he0, \he7, \hee, \he9, \hfc, \hfb, \hf2, \hf5, \hd8, \hdf, \hd6, \hd1, \hc4, \hc3, \hca, \hcd,
    \h90, \h97, \h9e, \h99, \h8c, \h8b, \h82, \h85, \ha8, \haf, \ha6, \ha1, \hb4, \hb3, \hba, \hbd,
    \hc7, \hc0, \hc9, \hce, \hdb, \hdc, \hd5, \hd2, \hff, \hf8, \hf1, \hf6, \he3, \he4, \hed, \hea,
    \hb7, \hb0, \hb9, \hbe, \hab, \hac, \ha5, \ha2, \h8f, \h88, \h81, \h86, \h93, \h94, \h9d, \h9a,
    \h27, \h20, \h29, \h2e, \h3b, \h3c, \h35, \h32, \h1f, \h18, \h11, \h16, \h03, \h04, \h0d, \h0a,
    \h57, \h50, \h59, \h5e, \h4b, \h4c, \h45, \h42, \h6f, \h68, \h61, \h66, \h73, \h74, \h7d, \h7a,
    \h89, \h8e, \h87, \h80, \h95, \h92, \h9b, \h9c, \hb1, \hb6, \hbf, \hb8, \had, \haa, \ha3, \ha4,
    \hf9, \hfe, \hf7, \hf0, \he5, \he2, \heb, \hec, \hc1, \hc6, \hcf, \hc8, \hdd, \hda, \hd3, \hd4,
    \h69, \h6e, \h67, \h60, \h75, \h72, \h7b, \h7c, \h51, \h56, \h5f, \h58, \h4d, \h4a, \h43, \h44,
    \h19, \h1e, \h17, \h10, \h05, \h02, \h0b, \h0c, \h21, \h26, \h2f, \h28, \h3d, \h3a, \h33, \h34,
    \h4e, \h49, \h40, \h47, \h52, \h55, \h5c, \h5b, \h76, \h71, \h78, \h7f, \h6a, \h6d, \h64, \h63,
    \h3e, \h39, \h30, \h37, \h22, \h25, \h2c, \h2b, \h06, \h01, \h08, \h0f, \h1a, \h1d, \h14, \h13,
    \hae, \ha9, \ha0, \ha7, \hb2, \hb5, \hbc, \hbb, \h96, \h91, \h98, \h9f, \h8a, \h8d, \h84, \h83,
    \hde, \hd9, \hd0, \hd7, \hc2, \hc5, \hcc, \hcb, \he6, \he1, \he8, \hef, \hfa, \hfd, \hf4, \hf3>>

Bits(number) == {k \in 0 .. 15 : (number \div 2^k) % 2 = 1}
Number(bits) == MapThenSumSet(LAMBDA k : 2^k, bits)

\* The tables, index and entries as words
crc16_entry == [byte \in Byte |-> Bits(crc16_table[Number(byte) + 1])]
crc8_entry == [byte \in Byte |-> Bits(crc8_table[Number(byte) + 1])]

\* A bit of a division by a polynomial of that width
Divided(c, width, polynomial) ==
    LET shifted == {k \in 1 .. (width - 1) : k - 1 \in c}
    IN  IF width - 1 \in c THEN SymDiff(shifted, polynomial) ELSE shifted

\* What is left of a byte when all of its bits are divided
Remainder(byte, width, polynomial) ==
    LET Two(c)  == Divided(Divided(c, width, polynomial), width, polynomial)
        Four(c) == Two(Two(c))
    IN  Four(Four({k \in (width - 8) .. (width - 1) : k - (width - 8) \in byte}))

\* The tables are those of the polynomials x^16 + x^12 + x^5 + 1 and x^8 + x^2 + x + 1.
ASSUME TableAssumption ==
    \A byte \in Byte : /\ crc16_entry[byte] = Remainder(byte, 16, {0, 5, 12})
                       /\ crc8_entry[byte] = Remainder(byte, 8, {0, 1, 2})

CRC16_START_VALUE == 0 .. 15

\* The two bytes of a word
LowByte(crc) == crc \cap (0 .. 7)
HighByte(crc) == {k \in 0 .. 7 : k + 8 \in crc}

\* The table is indexed by the byte shifted out; crc << 8 is cut to 16 bits.
CRC16_step(data, crc) ==
    SymDiff(crc16_entry[SymDiff(HighByte(crc), data)], {k \in 8 .. 15 : k - 8 \in crc})

\* Here nothing is left of crc << 8.
CRC8_step(data, crc) == crc8_entry[SymDiff(crc, data)]

CRC16_chunk(data, crc) ==
    LET after[n \in 0 .. Len(data)] ==
            IF n = 0 THEN crc ELSE CRC16_step(data[n], after[n - 1])
    IN  after[Len(data)]
CRC16(data) == CRC16_chunk(data, CRC16_START_VALUE)
CRC8(data) == FoldLeft(LAMBDA crc, byte : CRC8_step(byte, crc), {}, data)

\* A CRC8 behind its data leaves no remainder.
ASSUME ResidueAssumption ==
    \A first, second \in Bytes \cup {{}, 0 .. 7} :
        CRC8(<<first, second, CRC8(<<first, second>>)>>) = {}

\* The two bytes of a uint16_t in memory.
Halfword(crc) == <<LowByte(crc), HighByte(crc)>>
-----------------------------------------------------------------------------
VARIABLES
    sent,           \* the CRC of the sender, over the body sent so far
    received,       \* the body as the receiver got it
    burst,          \* the bits after the current byte that the burst may still damage,
                    \* or BurstBits + 1 before it
    verdict         \* of the receiver: "none" until the CRC has come

crcVars == <<sent, received, burst, verdict>>

\* The first bit of error that goes over the line.
FirstBit(error) == CHOOSE k \in error : \A j \in error : k <= j

\* The errors the burst can leave in the next byte, and what is left of it then.
Errors(left) == IF left > BurstBits \/ left >= 8 THEN Byte ELSE SUBSET (0 .. (left - 1))
Left(left, error) == IF left <= BurstBits THEN IF left > 8 THEN left - 8 ELSE 0
                     ELSE IF error = {} THEN left ELSE BurstBits - 8 + FirstBit(error)

CrcInit == /\ sent = CRC16_START_VALUE
           /\ received = <<>>
           /\ burst = BurstBits + 1
           /\ verdict = "none"

SendByte ==
    /\ verdict = "none"
    /\ Len(received) < MaxBody
    /\ \E byte \in Bytes : \E error \in Errors(burst) :
         /\ sent' = CRC16_step(byte, sent)
         /\ received' = Append(received, SymDiff(byte, error))
         /\ burst' = Left(burst, error)
    /\ UNCHANGED verdict

\* Mutant: only the first byte is compared.
JudgeLow(trailer, crc) == IF trailer[1] = Halfword(crc)[1] THEN "good" ELSE "bad"

\* ParseKFlyPacketFromSLIP: both bytes are compared.
Judge(trailer, crc) == IF trailer = Halfword(crc) THEN "good" ELSE "bad"

SendCrc ==
    /\ verdict = "none"
    /\ \E error \in Errors(burst) : \E next \in Errors(Left(burst, error)) :
         /\ burst' = Left(Left(burst, error), next)
         /\ verdict' = Judge(<<SymDiff(LowByte(sent), error), SymDiff(HighByte(sent), next)>>,
                           CRC16(received))
    /\ UNCHANGED <<sent, received>>

CrcNext == SendByte \/ SendCrc

CrcSpec == CrcInit /\ [][CrcNext]_crcVars
-----------------------------------------------------------------------------
\* A packet is accepted exactly if the burst has damaged nothing of it.
BurstIsDetected == verdict # "none" => (verdict = "good" <=> burst = BurstBits + 1)
=============================================================================
