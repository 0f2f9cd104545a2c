---------------------------- MODULE MCProcessing -----------------------------
EXTENDS Processing, TLC

\* TRANSCRIPTION_ORDER of the configuration.
Both == << "assemblyai", "deepgram" >>

\* Who speaks makes no difference.
Alike == Permutations(Speaker)
=============================================================================
