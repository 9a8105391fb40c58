------------------------------- MODULE MCGthrStats -------------------------------
(* GthrStats with short slices and small tables for TLC.                        *)
EXTENDS GthrStats

ThreeCreates == <<1, 5, 0>>   \* the second is clamped, the third finds no slot of three
===============================================================================
