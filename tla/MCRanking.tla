----------------------------- MODULE MCRanking -----------------------------
(* Rows of two and three sets; ints of 5 bits.  The last two scores are    *)
(* such that combined or cut they do not fit.                              *)
EXTENDS Ranking

MCRows == {<<1, 2>>, <<1, 2, 3>>}
MCCandidates ==
  [score : {1, 2, 12, 18}, pscore : {0, 1, 6}, cost : {1, 2}, time_stamp : {0, 1}]
=============================================================================
