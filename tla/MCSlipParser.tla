---------------------------- MODULE MCSlipParser ----------------------------
(* Small instances of SlipParser for TLC: a receive buffer of five bytes. *)
EXTENDS SlipParser

Packet(cmd, len, data, crc, isAck, isKnown) ==
  [bytes |-> <<cmd[1], len[1]>> \o data \o crc, cmd |-> cmd[2], len |-> len[2],
   ack |-> isAck, known |-> isKnown]

Ping    == Packet(<<"c1", 1>>, <<"l0", 0>>, <<>>, <<"p", "q">>, FALSE, TRUE)
PingAck == Packet(<<"a1", 1>>, <<"l0", 0>>, <<>>, <<"r", "s">>, TRUE, TRUE)
Escaped == Packet(<<"c2", 2>>, <<"l1", 1>>, <<SLIP_END>>, <<SLIP_ESC, "t">>, FALSE, TRUE)
Unknown == Packet(<<"a9", 9>>, <<"l0", 0>>, <<>>, <<"u", "v">>, TRUE, FALSE)
TooLong == Packet(<<"c2", 2>>, <<"l2", 2>>, <<"d", "d">>, <<"w", "x">>, FALSE, TRUE)
BadSize == Packet(<<"a1", 1>>, <<"l3", 3>>, <<>>, <<"y", "z">>, TRUE, TRUE)
Zero    == Packet(<<"c0", 0>>, <<"l0", 0>>, <<>>, <<"g", "h">>, FALSE, FALSE)
Short   == Packet(<<"c1", 1>>, <<"l0", 0>>, <<>>, <<>>, FALSE, TRUE)

AllPackets == {Ping, PingAck, Escaped, Unknown, TooLong, BadSize, Zero, Short}

MCNoise == {SLIP_END, SLIP_ESC, SLIP_ESC_END, "n"}

=============================================================================
