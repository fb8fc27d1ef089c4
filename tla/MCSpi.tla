------------------------------- MODULE MCSpi -------------------------------
(* Spi with transfers from done functions too, as its comment allows.        *)
EXTENDS Spi, TLC

CONSTANTS f1, f2, f3

MCIds       == {f1, f2, f3}
MainAndDone == {"main", "tim"}
=============================================================================
