---------------------------- MODULE MCRenderCache ----------------------------
(***************************************************************************)
(* Two workers, three requests in flight, one tile of two releases.        *)
(***************************************************************************)
EXTENDS RenderCacheMutable

CONSTANTS w1, w2, r1, r2, r3

MCWorker == {w1, w2}
MCRequest == {r1, r2, r3}
=============================================================================
