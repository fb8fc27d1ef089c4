----------------------------- MODULE MCServices -----------------------------
(* For Pwm, words of 20 bits, resolutions of 4 to 8 and a divider of 3.8     *)
(* bits stand for 32, 4 to 13 and 10.8 of the ESP32-S2.  The requests: two   *)
(* that are not a power of two, the fastest and the slowest possible, one    *)
(* too fast and one too slow.                                                *)
EXTENDS Services

CONSTANTS p1, p2, p3

MCPins == {p1, p2, p3}

Request(n, k) == [period |-> n, prescaler |-> k]

MCRequests == {Request(100, 1), Request(37, 20), Request(1, 16), Request(1, 15),
               Request(2047, 1), Request(128, 16)}
MCDuties == {0, 40, 3000}

MCColours == {<<1, 0, 0>>, <<0, 2, 1>>}
MCChars   == {"k", "v"}
=============================================================================
