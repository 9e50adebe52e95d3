------------------------- MODULE MC_ServiceLifecycle -------------------------
(***************************************************************************)
(* A small instance of ServiceLifecycle: two listen addresses, two         *)
(* discovered peers, a table cap of 4 so that both dials may succeed, and  *)
(* channels of capacity 2 and 1 where the code has 100: the two            *)
(* PeerDiscovered notifications fill the message channel exactly, and one  *)
(* response fills the response channel.                                    *)
(***************************************************************************)
EXTENDS ServiceLifecycle

CONSTANTS l1, l2

MCListeners == {l1, l2}

=============================================================================
