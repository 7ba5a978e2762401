----------------------------- MODULE MC_Status -----------------------------
EXTENDS Status

\* The first two clients share an address.
MCIpOf == [c \in Clients |-> IF c < 3 THEN "x" ELSE "y"]
=============================================================================
