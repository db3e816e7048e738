----------------------------- MODULE MCConnection -----------------------------
(* Packets for Connection: one digit, which also ends acknowledgements or  *)
(* the session, the break character and a digit, and the longest packet    *)
(* that fits.                                                              *)
EXTENDS Connection

MCNoAck == <<Digit(1)>>
MCDetach == <<Digit(2)>>
MCBodies == {MCNoAck, MCDetach, <<Break, Digit(0)>>, <<Digit(1), Digit(1), Plus>>}
MCFewBodies == {MCDetach, <<Digit(0)>>}

\* Noise that can end or restart a packet, and noise that only alters it.
MCAnyNoise == Chars
MCDigits == {ch \in Chars : IsHex(ch)}
===============================================================================
