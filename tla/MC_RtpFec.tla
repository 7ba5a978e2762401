------------------------------ MODULE MC_RtpFec ------------------------------
(* A window of eight in a 64-number sequence space, and streams that start  *)
(* just before and just after the numbers wrap.                             *)
EXTENDS RtpFec

MCFirst == {61, 62, 63}
MCNetworks == {"plain", "repairable", "lossy"}
=============================================================================
