--------------------------- MODULE MCFeedbackPath ---------------------------
(* Instances of FeedbackPath for TLC. *)
EXTENDS FeedbackPath

CONSTANTS A, B
=============================================================================
