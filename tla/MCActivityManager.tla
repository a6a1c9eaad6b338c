------------------------- MODULE MCActivityManager -------------------------
(* A small set of screens of every kind for ActivityManager.               *)
EXTENDS ActivityManager

CONSTANTS home, menu, reader, stats, usb

MCReader == {reader} \cap Activity
MCStatsScreen == {stats} \cap Activity
MCExclusive == {usb} \cap Activity
=============================================================================
