------------------------------- MODULE MC_Rtsp -------------------------------
EXTENDS Rtsp
AllKinds == {"stream", "portless", "duration", "metadata"}
BeforeMedia == {"OPTIONS", "DESCRIBE", "SETUP", "PLAY"}
=============================================================================
