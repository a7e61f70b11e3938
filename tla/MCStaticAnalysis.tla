-------------------------- MODULE MCStaticAnalysis --------------------------
EXTENDS StaticAnalysis, TLC

CONSTANTS f1, f2, k1, k2

MCFile    == {f1, f2}
MCFileOf  == k1 :> f1 @@ k2 :> f2
MCMeasure == {[actions |-> 0, nodes |-> 0], [actions |-> 1, nodes |-> 2],
              [actions |-> 3, nodes |-> 2]}
=============================================================================
