--------------------------- MODULE MCSummaryStream ---------------------------
(* A small instance of SummaryStream: two overlapping checks of the stream, one refresh of the    *)
(* page.  The checks are interchangeable, but symmetry is not sound for the liveness property.    *)
EXTENDS SummaryStream
=============================================================================
