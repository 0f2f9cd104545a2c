------------------------- MODULE MCLocalRecording --------------------------
EXTENDS LocalRecording, TLC

\* Recordings are interchangeable.
Interchangeable == Permutations(Recording)

\* Every write of a recording.
AnyWrite == {"begin", "put", "save", "note", "state"}
=============================================================================
