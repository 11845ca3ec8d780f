------------------------------ MODULE MCReplay ------------------------------
(* A small instance of Replay for TLC: two cameras, the second two frames   *)
(* behind, with a DSK of its own.                                           *)
EXTENDS Replay, TLC

TwoSkew == 0 :> 0 @@ 1 :> -2
SecondDsk == 0 :> -1 @@ 1 :> 0
Typed == {-48, 0, 2}

\* Floats of 4 binary digits, and a 5th for the powers of 2.
Powers == {2 ^ k : k \in 0 .. 7}
=============================================================================
