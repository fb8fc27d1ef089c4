------------------------------- MODULE MCUsb -------------------------------
(* Usb with enough packets to fill the largest buffer twice over.           *)
EXTENDS Usb
=============================================================================
