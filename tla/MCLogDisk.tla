----------------------------- MODULE MCLogDisk ------------------------------
(* A page of two sectors of two bytes, a region of two pages, messages of  *)
(* one byte and of more than a sector: partial pages, a message across the *)
(* end of the page, a page that does not fit and a smaller one that does;  *)
(* seven commands take the queues of three round more than twice.          *)
EXTENDS LogDisk

=============================================================================
