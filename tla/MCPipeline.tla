----------------------------- MODULE MCPipeline -----------------------------
(***************************************************************************)
(* Instances of Pipeline.                                                  *)
(***************************************************************************)
EXTENDS Pipeline

\* Two workers in the pools of the tools, one for the model, as buildPipelineCore.
PoolSizes == [st \in Stage |-> IF st = "analyze" THEN 1 ELSE 2]

\* The thumbnail of the first file cannot be decoded.
OneBadThumb == {<<"analyze", 1>>}

\* picks_dir is a folder of its own, or one that holds the second file; my_photos, as a
\* pattern, also matches the first, in my-photos.
Folders == {"picks", "exports", "my_photos"}
FilesBelow == [picks |-> {}, exports |-> {2}, my_photos |-> {2}]
FilesMatched == [picks |-> {}, exports |-> {2}, my_photos |-> {1, 2}]
=============================================================================
