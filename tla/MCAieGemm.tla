----------------------------- MODULE MCAieGemm -----------------------------
(* AieGemm on the smallest grid with a broadcast in both directions.         *)
EXTENDS AieGemm
=============================================================================
