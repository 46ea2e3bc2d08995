------------------------------ MODULE MCProgress -----------------------------
(* Small jobs for the progress of a job, with old caches.                  *)
EXTENDS MCController, JobProgress
==============================================================================
