--------------------------- MODULE MCCoordination ---------------------------
EXTENDS Coordination
CONSTANTS a, b, c, o1, o2

\* Values of Attempt.
OnlyA == {<<a, o1>>}
AnyOfAB == {a, b} \X {o1, o2}
AOrBThenC == {<<a, o1>>, <<b, o2>>, <<c, o2>>}

\* A bound: the third workbench is launched when the first has ended.
Succession == status[c] # "unborn" => status[a] = "closed"
=============================================================================
