--------------------------- MODULE MCGlobalStack ----------------------------
EXTENDS GlobalStack

\* Two adjacent buckets, a wider one, and a last finite bucket.
MCMins == <<0, 1, 2, 4, 0>>
=============================================================================
