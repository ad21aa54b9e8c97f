----------------------------- MODULE MCQueueMerge -----------------------------
\* Instances of QueueMerge for TLC.
EXTENDS QueueMerge

=============================================================================
