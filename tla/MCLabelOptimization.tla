------------------------ MODULE MCLabelOptimization ------------------------
(* Instances of LabelOptimization: two candidates, two bundles.            *)
EXTENDS LabelOptimization

CONSTANTS c1, c2, b1, b2
MCCandidates == {c1, c2}
MCBundles == {b1, b2}
=============================================================================
