------------------------------- MODULE MCGthrDemo -------------------------------
(* GthrDemo with two created threads for TLC.                                  *)
EXTENDS GthrDemo

TwoCreates == <<1, 2>>
===============================================================================
