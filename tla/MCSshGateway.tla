----------------------------- MODULE MCSshGateway -----------------------------
EXTENDS SshGateway, TLC

Symmetry == Permutations(Conns) \cup Permutations(Procs) \cup Permutations(Reqs) \cup Permutations(Grants)
=============================================================================
