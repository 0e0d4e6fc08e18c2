--------------------------- MODULE MCMioTcpStream ---------------------------
(***************************************************************************)
(* Instances of MioTcpStream for TLC.                                      *)
(***************************************************************************)
EXTENDS MioTcpStream, TLC

ClientSymmetry == Permutations(Clients)
=============================================================================
