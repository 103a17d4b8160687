----------------------------- MODULE MCRCOutput -----------------------------
(***************************************************************************)
(* Two banks of one channel; the settings change each bank between slow    *)
(* and fast modes, and one to and from a byte that is no mode.             *)
(***************************************************************************)
EXTENDS RCOutput

TheBanks == 1 .. 2
TheChannels == 1 .. 1
TheSettings == {<<"DSHOT", "50HZ">>, <<"OTHER", "ONESHOT">>, <<"400HZ", "ONESHOT">>}
=============================================================================
