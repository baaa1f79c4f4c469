---------------------------- MODULE MCSpeedTest ----------------------------
\* TLC instance of SpeedTestSession in every mode: two clients, so that a
\* Start and a Close can overlap.
EXTENDS SpeedTestSession

AllModes == Modes

============================================================================
