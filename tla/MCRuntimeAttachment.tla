------------------------- MODULE MCRuntimeAttachment ------------------------
(* One task, the coordinator and two concurrent calls. *)
EXTENDS RuntimeAttachment
CONSTANTS c1, c2
MCCallers == {c1, c2}
MCRun == "run"
=============================================================================
