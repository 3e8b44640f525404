--------------------------- MODULE MCTuningStudy ----------------------------
(* Small studies for TuningStudy.                                          *)
EXTENDS TuningStudy
AllKinds == {"ppo", "dqn", "threshold", "parallel"}
=============================================================================
