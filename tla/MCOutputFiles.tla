---------------------------- MODULE MCOutputFiles ----------------------------
(* OutputFiles with two files of at most two events, five bytes or two      *)
(* seconds, so that each of the limits can be the first to be reached.      *)
EXTENDS OutputFiles

Sizes == {1, 4}
=============================================================================
