------------------------ MODULE MCCaptureLifecycle ------------------------
\* CaptureLifecycle for TLC: the configurations choose the thread set.
EXTENDS CaptureLifecycle
=============================================================================
