----------------------------- MODULE MCTimUsers -----------------------------
(* TimUsers with two SPI transfers, two of the LED strip and some output.    *)
EXTENDS TimUsers, TLC

CONSTANTS f1, f2, g1, g2, t1, t2

MCSpiIds  == {f1, f2}
MCLedIds  == {g1, g2}
MCTargets == {t1, t2}
=============================================================================
