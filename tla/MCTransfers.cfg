\* A small and a large transfer in a bucket for one, two multipart uploads, one
\* request beside the retention worker.
CONSTANTS
    Transfers = {t1, t2}
    Large = {t2}
    Perishable = {t1}
    Uploads = {u1, u2}
    Contents = {a}
    Requests = {q1}
    Worker = worker
    Nothing = Nothing
    Quota = 1
    MaxFailures = 1
SPECIFICATION FairSpec
INVARIANTS QuotaHonoured OnlyDeletionLosesBytes
PROPERTIES FinishedIsImmutable FinishedSettles ExpiredIsDeleted
CHECK_DEADLOCK FALSE
