--------------------------- MODULE MCArtifactStore ---------------------------
(***************************************************************************)
(* Small instance of ArtifactStore: several writers of a container, one    *)
(* writer of a file system.                                                *)
(***************************************************************************)
EXTENDS ArtifactStore
CONSTANTS w1, w2, w3, card, package, outside, p1, p2
=============================================================================
