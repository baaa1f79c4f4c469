-------------------------- MODULE MCTransferPhase --------------------------
\* TLC instance of TransferPhase: three workers, so that one error can be
\* received, one can sit in the channel and one more find it full.
EXTENDS TransferPhase

=============================================================================
