------------------------- MODULE MCRecordingUpload -------------------------
EXTENDS RecordingUpload, TLC

\* Requests in flight are interchangeable, and so are recordings.
Interchangeable == Permutations(Slot) \cup Permutations(Recording)

\* Every call of the desktop.
Anything == {"declare", "start", "resume", "put", "finalize"}
=============================================================================
