--------------------------- MODULE MCHttpLogging ---------------------------
(* Small instances of HttpLogging: a few overlapping requests.                *)
EXTENDS HttpLogging, TLC

CONSTANTS q1, q2
=============================================================================
