-------------------------- MODULE MCUdpConnection --------------------------
(* Instances of UdpConnection and UdpTransfer for TLC. *)
EXTENDS UdpTransfer

MCEnds == {a, b}
MCNone == {}
MCTwoAndNone == (a :> 2) @@ (b :> 0)
MCNothing == (a :> 0) @@ (b :> 0)
MCThreeAndNone == (a :> 3) @@ (b :> 0)
MCTwoForB == (a :> 1) @@ (b :> 2)
MCOnceEach == (a :> 1) @@ (b :> 1)
MCOneEach == (a :> 1) @@ (b :> 1)
MCTwoForA == (a :> 2) @@ (b :> 1)
MCTwoEach == (a :> 2) @@ (b :> 2)
MCOnlyA == {a}
MCOneAndNone == (a :> 1) @@ (b :> 0)
=============================================================================
