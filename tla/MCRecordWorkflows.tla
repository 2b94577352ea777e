------------------------ MODULE MCRecordWorkflows ------------------------
EXTENDS RecordWorkflows

CONSTANTS r1, r2, r3

MCRequests == {r1, r2, r3}
=============================================================================
