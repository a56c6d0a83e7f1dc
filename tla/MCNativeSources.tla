---------------------------- MODULE MCNativeSources ----------------------------
(* Two spaces.  In the first a text is admitted, by commands that share an *)
(* id and differ by the parent they expect, and extended twice; in both an *)
(* operator prepares and attests; an ordinary publication moves the head   *)
(* and no epoch.                                                           *)
EXTENDS NativeSources, TLC

CONSTANTS client1, client2, space1, space2, id1, id2, id3, op1, op2, i1, i2, legacy1, span1

Admit(s, i, t) == [kind |-> "admit", space |-> s, id |-> i, intervals |-> t]
Publish(s, i) == [kind |-> "publish", space |-> s, id |-> i, intervals |-> {}]
Extend(s, i, root, t) == [kind |-> "extend", space |-> s, id |-> i, root |-> root,
                          intervals |-> t]
Prepare(s, i) == [kind |-> "prepare", space |-> s, id |-> i, artifact |-> legacy1,
                  span |-> span1]
Attest(s, i) == [kind |-> "attest", space |-> s, id |-> i]

MCRequests ==
    {Admit(space1, id1, {i1}), Publish(space1, id2),
     Extend(space1, id2, id1, {i2}), Extend(space1, id3, id1, {i2}),
     Prepare(space1, op1), Attest(space1, op1), Prepare(space2, op1),
     Attest(space2, op1)}
=============================================================================
