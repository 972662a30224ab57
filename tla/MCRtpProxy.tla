----------------------------- MODULE MCRtpProxy -----------------------------
EXTENDS RtpProxy, TLC

\* The sessions of a script are alike.
SlotSymmetry == Permutations(Slot)
=============================================================================
