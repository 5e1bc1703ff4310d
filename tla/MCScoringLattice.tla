--------------------------- MODULE MCScoringLattice ---------------------------
(* One row of a four-byte fixture with up to two expected spans: room for  *)
(* an envelope wider than its span, for two findings that straddle a span, *)
(* for adjacent, nested and overlapping findings, and for a twin with a    *)
(* finding of its own family, of another and of none.                      *)
EXTENDS ScoringLattice

=============================================================================
