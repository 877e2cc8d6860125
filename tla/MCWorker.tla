------------------------------ MODULE MCWorker ------------------------------
(* A small instance of the worker over the kernel for TLC: the kernel's    *)
(* instances, driven by one process.                                       *)
EXTENDS MCKernel, ProspectWorker

\* A page, which with one page per source is the last one, and a failure
\* worth a retry.
WorkerAnswers == {Page(1, TRUE, FALSE), Failure(TRUE)}
=============================================================================
