------------------------------ MODULE MCLayout ------------------------------
(* Terminal sizes around the points where a stack, a chart beside another, *)
(* a second column of headers or the process list starts or stops to fit.  *)
EXTENDS Layout

MCRows == {5, 12, 17, 23, 31, 40, 60}
MCCols == {24, 35, 43, 70, 130}
=============================================================================
