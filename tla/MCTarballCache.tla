--------------------------- MODULE MCTarballCache ---------------------------
(* TarballCache for two dispatchers of a host and two images in cache      *)
(* directories of their own.                                               *)
EXTENDS TarballCache, TLC

CONSTANTS u1, u2, k1, k2

MCKeyOf == u1 :> k1 @@ u2 :> k2
=============================================================================
