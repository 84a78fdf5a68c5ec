----------------------------- MODULE MC_RowReviews -----------------------------
(* Instance of RowReviews for TLC. *)
EXTENDS RowReviews

CONSTANTS j1, j2, u1
=============================================================================
