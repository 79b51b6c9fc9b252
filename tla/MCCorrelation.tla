---------------------------- MODULE MCCorrelation ----------------------------
(* The attack pattern of the run, a chain of two stages as those of          *)
(* MultiStageConfig are of three; sources are interchangeable.               *)
EXTENDS Correlation

TwoStages == {[sequence |-> << "scan", "brute" >>, gap |-> 0]}

SourceSymmetry == Permutations(Ips)
=============================================================================
