------------------------- MODULE MCFirmwareControl -------------------------
(* A drive built with the disc type gate open, and two host requests.    *)
EXTENDS FirmwareControl

BakedOpen == [OemTable EXCEPT !["unrestricted"] = "on"]
SomeRequests == {<<"unrestricted", "off">>, <<"speed", "on">>}
=============================================================================
