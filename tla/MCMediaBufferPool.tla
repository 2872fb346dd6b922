-------------------------- MODULE MCMediaBufferPool --------------------------
\* An instance of MediaBufferPool for TLC.
EXTENDS MediaBufferPool

=============================================================================
