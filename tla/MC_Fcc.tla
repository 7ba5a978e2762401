------------------------------- MODULE MC_Fcc -------------------------------
EXTENDS Fcc

\* The instance is one that Seamless is proved for.
ASSUME NearHolds == Near
=============================================================================
