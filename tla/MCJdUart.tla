------------------------------ MODULE MCJdUart ------------------------------
(* Fault sets for the runs of JdUart.                                        *)
EXTENDS JdUart

NoFaults     == {}
NoiseOnly    == {"noise"}
PromptFaults == FaultKinds \ {"late"}
AnyFaults    == FaultKinds
=============================================================================
