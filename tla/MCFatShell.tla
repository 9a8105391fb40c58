------------------------------ MODULE MCFatShell ------------------------------
(* Chains for TLC: one item in two clusters that do not follow each other.     *)
EXTENDS FatShell

LongChain == 2 :> <<2, 5>> @@ 3 :> <<3>> @@ 4 :> <<4>>
===============================================================================
