------------------------- MODULE MCFirmwareUpdate -------------------------
(* FirmwareUpdate for TLC: two releases, so that there is an older and a    *)
(* newer one, and updates enough to use both slots and both entries again.  *)
EXTENDS FirmwareUpdate
===========================================================================
