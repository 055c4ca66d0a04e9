----------------------------- MODULE MCFrontier -----------------------------
(* Frontier over two hosts: host "a" has two pages, one of them also under a *)
(* second spelling (a fragment), and host "b" has one; "mailto" has no host. *)
EXTENDS Frontier

CONSTANTS a, b, a1, a1frag, a2, b1, mailto

MCUrl == {a1, a1frag, a2, b1, mailto}
MCHost == {a, b}
MCCanon == [u \in MCUrl |-> IF u = a1frag THEN a1 ELSE u]
MCHostOf == [u \in MCUrl |-> CASE u = b1 -> b [] u = mailto -> None [] OTHER -> a]
MCDepth == 0..2
MCDelay == {0, 2}
=============================================================================
