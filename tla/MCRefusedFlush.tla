--------------------------- MODULE MCRefusedFlush ---------------------------
(* The history of refused flushes, with the operations and bounds of MCHaze.            *)
EXTENDS MCHaze, RefusedFlush

WithPromises == <<WithoutErr, promised>>
=============================================================================
