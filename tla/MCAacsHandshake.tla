-------------------------- MODULE MCAacsHandshake --------------------------
(* One AacsUnlocker call on a drive with two grants.                       *)
EXTENDS AacsHandshake

CONSTANTS A0, A1

TwoAgids == {A0, A1}
=============================================================================
