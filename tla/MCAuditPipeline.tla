--------------------------- MODULE MCAuditPipeline ---------------------------
EXTENDS AuditPipelineProperties, TLC

Symmetry == Permutations(Buffers) \cup Permutations(Sessions)
=============================================================================
