------------------------- MODULE MCCaptureCadence -------------------------
\* CaptureCadence for TLC, with intervals in the order of the defaults: active <
\* idle < flush < idle_after < forced < deep idle (2, 15, 30, 60, 120, 300 s).
EXTENDS CaptureCadence
=============================================================================
