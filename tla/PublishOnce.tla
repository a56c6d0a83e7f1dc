---------------------------- MODULE PublishOnce ----------------------------
(***************************************************************************)
(* What publish_finalized_review promises its callers: a review takes      *)
(* effect in its world at most once, whoever calls and however often; the  *)
(* answer "published" is only given when it has taken effect, and a        *)
(* refusal only when this call did not make it take effect.  An unknown    *)
(* outcome says nothing, and the caller may call again.                    *)
(***************************************************************************)
CONSTANTS Worlds, Clients, Reviews, None

VARIABLES
    effective,  \* per world, the reviews that have taken effect
    asked,      \* per client, the [world, review] of its call, or None
    acted,      \* per client, whether its call made the review take effect
    answer      \* per client, what its call returned

vars == <<effective, asked, acted, answer>>

Init ==
    /\ effective = [w \in Worlds |-> {}]
    /\ asked = [c \in Clients |-> None]
    /\ acted = [c \in Clients |-> FALSE]
    /\ answer = [c \in Clients |-> None]

Ask(c) ==
    \E w \in Worlds, review \in Reviews :
        /\ asked[c] = None
        /\ asked' = [asked EXCEPT ![c] = [world |-> w, review |-> review]]
        /\ UNCHANGED <<effective, acted, answer>>

Answer(c) ==
    \E said \in {"published", "refused", "unknown"} :
        /\ asked[c] # None /\ answer[c] = None
        /\ said = "published" => asked[c].review \in effective'[asked[c].world]
        /\ said = "refused" => ~acted'[c]
        /\ answer' = [answer EXCEPT ![c] = said]

(* The answer may come with the effect, or later, or never.                *)
TakeEffect(c) ==
    /\ asked[c] # None /\ answer[c] = None
    /\ ~acted[c]
    /\ asked[c].review \notin effective[asked[c].world]
    /\ effective' = [effective EXCEPT ![asked[c].world] = @ \cup {asked[c].review}]
    /\ acted' = [acted EXCEPT ![c] = TRUE]
    /\ UNCHANGED asked
    /\ UNCHANGED answer \/ Answer(c)

Reply(c) == Answer(c) /\ UNCHANGED <<effective, asked, acted>>

(* The call is over, or its process died.                                  *)
Leave(c) ==
    /\ asked' = [asked EXCEPT ![c] = None]
    /\ acted' = [acted EXCEPT ![c] = FALSE]
    /\ answer' = [answer EXCEPT ![c] = None]
    /\ UNCHANGED effective

Next == \E c \in Clients : Ask(c) \/ TakeEffect(c) \/ Reply(c) \/ Leave(c)

Spec == Init /\ [][Next]_vars
=============================================================================
