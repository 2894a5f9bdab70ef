----------------------------- MODULE MCLbistBench -----------------------------
\* LbistBench with the small values of MCLbistValues.
EXTENDS LbistBench, MCLbistValues
=============================================================================
