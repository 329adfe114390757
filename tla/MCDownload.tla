----------------------------- MODULE MCDownload ------------------------------
(* A limit of three units against bodies of up to four in chunks of any      *)
(* size: a body under, at and over the limit.                                *)
EXTENDS Download

AllFramings == {"length", "chunked", "close"}
AllWorlds == {{}, {"network", "disk", "timeout"}, {"network", "disk", "timeout", "rm"}}
==============================================================================
