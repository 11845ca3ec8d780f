----------------------------- MODULE MCPlayoutd -----------------------------
(* A small instance of Playoutd for TLC.                                    *)
EXTENDS Playoutd

CONSTANTS blank, p1, p2, p3, p4, null

\* As many pictures as are ever live at once: four in use, and one leaked.
Pool == {blank, p1, p2, p3, p4}
=============================================================================
