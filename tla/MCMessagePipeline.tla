------------------------- MODULE MCMessagePipeline -------------------------
(***************************************************************************)
(* TLC instance of MessagePipeline: the constants come from the .cfg files.*)
(* The posters are interchangeable.                                        *)
(***************************************************************************)
EXTENDS MessagePipeline, TLC

PosterSymmetry == Permutations(Posters)
=============================================================================
