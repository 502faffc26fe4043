-------------------------- MODULE MCServerDetector --------------------------
(* A subnet of 13 addresses instead of 255, searched from every address    *)
(* including the limits, the service at every address or at none (-99).    *)
EXTENDS GuiStartup
MCLow == 1
MCHigh == 13
MCStarts == 0..13
MCHomes == {-99} \union 0..13
=============================================================================
