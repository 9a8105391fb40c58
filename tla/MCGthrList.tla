------------------------------- MODULE MCGthrList -------------------------------
(* GthrList with a table of four slots for TLC.                                *)
EXTENDS GthrList

\* The second priority is clamped and the last creation finds no slot.
FourCreates == <<1, 5, 0, 1>>
===============================================================================
