----------------------------- MODULE MCAfuContext -----------------------------
EXTENDS AfuContext, TLC

Symmetry == Permutations(Handles) \cup Permutations(Pasids) \cup Permutations(Addrs)

\* No guard reads the heap, so states that differ only there behave alike.
NoHeap == <<pc, structVars, irqVars, mmioVars, kernelVars>>
===============================================================================
