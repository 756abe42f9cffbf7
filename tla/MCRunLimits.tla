---------------------------- MODULE MCRunLimits -----------------------------
(* Texts of one to four bytes, two tools, one of them gated on its second call. *)
EXTENDS RunLimits

MCContents ==
  { <<>>, <<Text(<<1>>)>>, <<Text(<<3, 1>>)>>, <<Text(<<2>>), Call("a")>>,
    <<Call("a"), Call("b")>>, <<Response("a")>>, <<Response("a"), Response("b")>>,
    <<Call("a"), GatedCall("c")>>, <<Text(<<1>>), Text(<<4>>)>> }

MCUsages == {NoUsage, 1, 2}

MCLimits == [iterations : {1, 2, 3}, output : {2, 3, 5}, budget : {0, 2, 3}]
=============================================================================
