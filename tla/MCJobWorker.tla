----------------------------- MODULE MCJobWorker ----------------------------
(* JobWorker for TLC: two workers, one transcription job.                  *)
EXTENDS JobWorker, TLC

MCThreads == Threads

WorkerSymmetry == Permutations(Workers)
=============================================================================
