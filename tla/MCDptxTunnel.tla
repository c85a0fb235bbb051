---------------------------- MODULE MCDptxTunnel ----------------------------
(* Small instances of DptxTunnel for TLC: the rates of RBR and HBR.        *)
EXTENDS DptxTunnel

TwoRates == {6, 10}
=============================================================================
