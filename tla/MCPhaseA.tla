------------------------------ MODULE MCPhaseA ------------------------------
(* A market of five days, rows dated back by up to two days or ahead by one. *)
EXTENDS PhaseA

MCOffsets == {-2, 0, 1}
MCGenerations == {<<1, 6>>, <<1, 2, 4, 6>>, <<1, 5, 6>>}
MCSettlements == {<<1, 6>>, <<1, 4, 6>>, <<1, 3, 4, 5, 6>>}
=============================================================================
