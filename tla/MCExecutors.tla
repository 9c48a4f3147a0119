----------------------------- MODULE MCExecutors -----------------------------
EXTENDS Executors, TLC

MCCalls == 1..2
MCKinds == {"shell", "queue", "mcp"}
MCShell == {"shell"}

\* Workers are interchangeable but for the one that runs the first call.
MCSymmetry == Permutations(Workers)
=============================================================================
