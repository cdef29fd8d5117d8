---------------------------- MODULE MCUSBD -----------------------------
EXTENDS USBD

\* A fresh object's members hold anything: here off and on, the brightness
\* within the panel's range and beyond it.
MCInitialFields == [on : BOOLEAN, brightness : {0, 3}]
=============================================================================
