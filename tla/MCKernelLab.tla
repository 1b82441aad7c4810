--------------------------- MODULE MCKernelLab ---------------------------
\* init, its child and a child of that, and pages that not all of them have mapped.
EXTENDS KernelLab, TLC

MCFirstParent == <<0, 1, 2>>
MCFrames == <<(0 :> 3), (0 :> 5 @@ 1 :> 2), (1 :> 6)>>
=============================================================================
