--------------------------- MODULE MCAssetStorage ---------------------------
(* Instances of AssetStorage for TLC.                                      *)
EXTENDS AssetStorage

CONSTANTS u1, c1, c2, w1, w2

\* The two requests are interchangeable: only orders in which c1 starts first
\* are looked at (symmetry is not available to liveness).  The second request
\* and the second worker do not meet.
Reduced ==
    calls'[c2].at # "idle" => calls'[c1].at # "idle" /\ workers'[w2] = Resting
=============================================================================
