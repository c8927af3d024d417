---------------------------- MODULE MCNvmeQueue -----------------------------
(* Queues of three entries, which wrap twice.                              *)
EXTENDS NvmeQueue

=============================================================================
