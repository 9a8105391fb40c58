------------------------------ MODULE MCGthrNested ------------------------------
(* GthrNested with two created threads for TLC.                                *)
EXTENDS GthrNested

TwoCreates == <<1, 0>>
===============================================================================
