--------------------------- MODULE MCIntenSearch ----------------------------
(* The real table: 255 cells, and every intensity from 0 to 1030.          *)
EXTENDS IntenSearch, IntenTable

MCMaxLvl == 255
MCIntensities == 0..1030
=============================================================================
