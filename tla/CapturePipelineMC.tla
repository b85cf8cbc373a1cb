--------------------------- MODULE CapturePipelineMC ---------------------------
EXTENDS CapturePipeline, TLC

\* One invocation, or one request, is as good as another.
Symmetry == Permutations(Deliveries) \cup Permutations(Requests)
=============================================================================
