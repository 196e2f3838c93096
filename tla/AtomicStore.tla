---------------------------- MODULE AtomicStore ----------------------------
(***************************************************************************)
(* What callers of `nros setup` rely on: a prefix of the SDK store is      *)
(* either not there or holds the artifact the index pins for it, and once  *)
(* it is there it stays as it is.                                          *)
(***************************************************************************)
CONSTANTS Prefix, Nothing

VARIABLE content

Init == content = [p \in Prefix |-> Nothing]

InstallWhole(p) ==
    /\ content[p] = Nothing
    /\ content' = [content EXCEPT ![p] = p]

Next == \E p \in Prefix : InstallWhole(p)

Spec == Init /\ [][Next]_content
=============================================================================
