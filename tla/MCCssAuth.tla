----------------------------- MODULE MCCssAuth -----------------------------
(* DvdUnlocker on a drive with its four grants.                            *)
EXTENDS CssAuth

CONSTANTS A0, A1, A2, A3

FourAgids == {A0, A1, A2, A3}
=============================================================================
