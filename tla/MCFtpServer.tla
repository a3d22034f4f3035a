---------------------------- MODULE MCFtpServer ----------------------------
(* FtpServer for TLC.  Client identities are interchangeable: no definition *)
(* distinguishes one, so safety runs use their permutations as symmetry.    *)
EXTENDS FtpServer, TLC

ClientSymmetry == Permutations(Clients)

\* Recovery by ftpreset needs an operator that repeats it.
ResetSpec == FairSpec /\ OperatorResets
=============================================================================
