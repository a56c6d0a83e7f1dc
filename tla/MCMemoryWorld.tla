--------------------------- MODULE MCMemoryWorld ---------------------------
(***************************************************************************)
(* MemoryWorld with two worlds: w1 stands adopted and repaired, w2 may be  *)
(* adopted, published to and initialized while a relationship of w1 is     *)
(* withdrawn.                                                              *)
(***************************************************************************)
EXTENDS MemoryWorld

CONSTANTS w1, w2

Row(family, id, w) == [family |-> family, id |-> id, world |-> w, as |-> "sealed"]

RowsFor(w, artifact) ==
    {Row("artifact", artifact, w), Row("source revision", artifact, w),
     Row("contribution", "k1", w), Row("decision", "d1", w)}

MCStanding ==
    {[kind |-> "adoption", world |-> w1, id |-> "ad1", rows |-> RowsFor(w1, "a1"),
      form |-> "v4", targets |-> {"a1"}, revision |-> GraphRevision(w1, None, "ad1", "g0")]}

MCCited == [id \in {"a1", "a2"} |-> id]

MCRequests ==
    {[op |-> "adoption", world |-> w2, id |-> "ad2", rows |-> RowsFor(w2, "a2"), graph |-> "g0"],
     [op |-> "withdraw", world |-> w1, id |-> "wd1", adoption |-> "ad1", source |-> "a1", revision |-> "a1"],
     [op |-> "publish", world |-> w2, id |-> "rv2"]}

MCReviews == [r \in {"rv2"} |-> [world |-> w2, form |-> "guarded"]]

MCEdited == [x \in {"rv2", "wd1"} \X {"g0", "g1"} |-> IF x[2] = "g0" THEN "g1" ELSE None]
=============================================================================
