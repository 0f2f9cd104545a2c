-------------------------- MODULE MCMeetingPipeline --------------------------
EXTENDS MeetingPipeline, TLC
WorkerSymmetry == Permutations(Worker)
=============================================================================
