---------------------------- MODULE MCBlobCleanup ----------------------------
\* An instance of BlobCleanup for TLC.
EXTENDS BlobCleanup

=============================================================================
