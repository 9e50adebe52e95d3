---------------------------- MODULE MC_Admission ----------------------------
(***************************************************************************)
(* A small instance of Admission: three addresses on two IPs in one       *)
(* subnet, caps of two where the code has larger ones so that a cap is    *)
(* reached within three dials.                                            *)
(***************************************************************************)
EXTENDS Admission, TLC, FiniteSetsExt

CONSTANTS a1, a2, a3, i1, i2, s1, d1, d2

MCAddr == {a1, a2, a3}
MCIp == {i1, i2}
MCSubnet == {s1}
\* a1 and a2 are two ports of one IP.
MCIpOf == (a1 :> i1) @@ (a2 :> i1) @@ (a3 :> i2)
MCSubnetOf == [ip \in MCIp |-> s1]
MCSeeds == <<a1, a2, a3>>
MCDialersOne == {d1}
MCDialersTwo == {d1, d2}

=============================================================================
