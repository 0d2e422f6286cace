--------------------------- MODULE MCReportBuffer ---------------------------
(* ReportBuffer with four reports. *)
EXTENDS ReportBuffer
=============================================================================
