--------------------------- MODULE MCLibraryFeed ---------------------------
(* One thread swaps the library; one of the subscribers browses.          *)
EXTENDS LibraryFeed
=============================================================================
