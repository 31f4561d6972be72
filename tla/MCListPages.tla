----------------------------- MODULE MCListPages -----------------------------
(* ListPages on a small instance.                                          *)
EXTENDS ListPages

AllViews == ViewNames
=============================================================================
