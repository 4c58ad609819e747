SPECIFICATION Spec
\* The client ends with its report.
CHECK_DEADLOCK FALSE
INVARIANTS
    TypeOK
    NeverOverstated
    ReportRight
