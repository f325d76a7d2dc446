\* Positive limits: batches of one to three frames over a log of up to seven,
\* so a batch is cut by the limit, by the end of the log, or lands exactly on it.
CONSTANTS
    MaxFrames = 7
    Limits = {1, 2, 3}
SPECIFICATION Spec
INVARIANT TypeOK
INVARIANT SyncComplete
PROPERTY SyncTerminates
