SPECIFICATION Spec
CONSTANTS
    Keys = {k1, k2}
    Timestamps = {t1, t2, t3, t4}
    MaxBlocks = 4
    MaxRestarts = 0
    MaxLevel = 2
SYMMETRY Symmetry
INVARIANTS TypeOK PipelineInOrder DigestNamesCommit CommitCoversPrefix ServedProofVerifies AuditAcceptsLatestOnly
PROPERTIES DigestAdvances
CHECK_DEADLOCK FALSE
