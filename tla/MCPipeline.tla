----------------------------- MODULE MCPipeline -----------------------------
(* Two runs of one account of two repositories, cloned one at a time.        *)
EXTENDS Pipeline
=============================================================================
