--------------------------- MODULE MCSetupDetection ---------------------------
\* Setup detection alone, on windows of a few sessions.
EXTENDS SetupDetection
================================================================================
