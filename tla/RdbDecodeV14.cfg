CONSTANT Graphs <- MCGraphs
INIT Init
NEXT Next
\* loading a graph ends once every segment is loaded
CHECK_DEADLOCK FALSE
INVARIANT LoadsRoundTrip
