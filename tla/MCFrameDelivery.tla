--------------------------- MODULE MCFrameDelivery ---------------------------
EXTENDS FrameDelivery

\* One run, long enough for its channels to fill up.
OneRun == <<4>>
Start == <<0>>
=============================================================================
