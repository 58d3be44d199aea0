------------------------------- MODULE MCTcam -------------------------------
\* Three-bit addresses with one bit in the table: a default route of metric 0 whose
\* address is not masked, a half, and two spellings of one quarter.
EXTENDS TcamEngine, TLC

TcamSymmetry == Permutations(Tasks)

Route(addr, len, hop, metric) == [addr |-> addr, len |-> len, hop |-> hop, metric |-> metric]

ManyRoutes == {Route(4, 0, "default", 0), Route(4, 1, "half", 8),
               Route(4, 2, "quarter", 2), Route(5, 2, "other", 1)}
SomeQueries == {0, 4, BadIp}

TwoRoutes == {Route(4, 1, "half", 7), Route(4, 3, "host", 2)}
OneQuery  == {4}
=============================================================================
