---------------------------- MODULE MCEventStore ----------------------------
(* Blocks with the events of two parties, for TLC.                          *)
EXTENDS EventStore

Event(type, by, what) == [type |-> type, by |-> by, what |-> what]

Submits == <<Event("submit", "a", "r1"), Event("submit", "b", "r2"), Event("upload", "a", "r1")>>
Mining == <<Event("submit", "a", "r1"), Event("epoch", "b", ""), Event("submit", "b", "r2"),
            Event("register", "a", "m1"), Event("reward", "a", "tx"), Event("update", "b", "a")>>
NewSigner == <<Event("signer", "a", ""), Event("socket", "a", "s1"), Event("submit", "a", "r1"),
               Event("upload", "a", "r1")>>
UpdatesOf == <<Event("socket", "a", "s2"), Event("upload", "b", "r1"), Event("verified", "", "r1"),
              Event("paid", "b", "")>>

\* An event of a contract the scan does not follow, between others.
Foreign == <<Event("submit", "c", "r1"), Event("foreign", "", ""), Event("submit", "a", "r2")>>

\* One sender with two roots in a block.
TwoRoots == <<Event("upload", "a", "r1"), Event("upload", "a", "r2")>>
\* Two senders with one root in a block.
TwoSenders == <<Event("upload", "a", "r1"), Event("upload", "b", "r1")>>

MCContents == {Mining, NewSigner, UpdatesOf, TwoRoots, Foreign}
MCTwoRoots == {TwoRoots, Submits}
MCTwoSenders == {TwoSenders, Submits}
=============================================================================
