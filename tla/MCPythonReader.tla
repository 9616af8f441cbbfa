--------------------------- MODULE MCPythonReader ---------------------------
(* PythonReader on small instances: readers of windows of two bytes.       *)
EXTENDS PythonReader

TwoBytes == [s \in Streams |-> 2]
TellAndBack == {-1, 0}
=============================================================================
