------------------------------- MODULE MCJobs -------------------------------
\* Small instances of Jobs for TLC.
EXTENDS Jobs, TLC

\* Jobs, workers and streams are interchangeable.  Used by runs that check
\* safety only.
Symmetry == Permutations(Jobs) \cup Permutations(Workers) \cup Permutations(Streams)
=============================================================================
