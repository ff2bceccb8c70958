----------------------------- MODULE MCScreenCapture -----------------------------
(* Planes for TLC: pictures of four pixels by two in rows of five, reduced to a   *)
(* grid of three by one. The three pictures are a drift: each differs from the    *)
(* one before it in one bit of its hash, and the last from the first in two.      *)
EXTENDS ScreenCapture

Flat == <<1, 1, 1, 1, 9,
          1, 1, 1, 1, 9>>
Step == <<3, 1, 1, 1, 9,
          3, 1, 1, 1, 9>>
Stairs == <<3, 2, 0, 0, 0,
            3, 2, 0, 1, 9>>

MCPlanes == {Flat, Step, Stairs}

=============================================================================
