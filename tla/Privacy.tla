------------------------------ MODULE Privacy ------------------------------
(***************************************************************************)
(* Privacy-tier resolution (privacy.py): what a caller supplies, in a      *)
(* header and in the body, becomes one effective tier.  Cloud execution is *)
(* denied by default.                                                      *)
(***************************************************************************)
EXTENDS Naturals, Sequences

(* Strictness order, loosest first. *)
PRIVACY_STRICTNESS ==
    [public |-> 0, public_redacted |-> 1, repo_sensitive |-> 2, local_only |-> 3,
     secret_sensitive |-> 4]

KNOWN_TIERS            == DOMAIN PRIVACY_STRICTNESS
CLOUD_PERMITTING_TIERS == {"public", "public_redacted"}
MOST_RESTRICTIVE_TIER  == "secret_sensitive"

(* What a caller may supply: nothing (None), an empty or blank string, a    *)
(* value that is no string, or a string, given by what strip() leaves of it *)
(* ("other" stands for every string outside the vocabulary).                *)
Raws == {"none", "blank", "non_string", "other"} \cup KNOWN_TIERS

Resolved == [effective : KNOWN_TIERS, assumed : BOOLEAN, cloud_permitted : BOOLEAN]

(* resolve_privacy_tier: everything that is not a known tier is clamped to  *)
(* the most restrictive one.                                                *)
resolve_privacy_tier(raw) ==
    IF raw \in KNOWN_TIERS
    THEN [effective |-> raw, assumed |-> FALSE,
          cloud_permitted |-> raw \in CLOUD_PERMITTING_TIERS]
    ELSE [effective |-> MOST_RESTRICTIVE_TIER, assumed |-> TRUE, cloud_permitted |-> FALSE]

(* _strictness, of a resolved tier. *)
Strictness(resolved) == PRIVACY_STRICTNESS[resolved.effective]

(* _supplied: garbage is supplied, an empty string is not. *)
Supplied(raw) == raw \notin {"none", "blank"}

(* Mutant: the first signal, the header, wins. *)
FirstSupplied(inputs) ==
    LET supplied == {i \in DOMAIN inputs : Supplied(inputs[i])}
    IN IF supplied = {} THEN resolve_privacy_tier("none")
       ELSE LET first == CHOOSE i \in supplied : \A j \in supplied : i <= j
            IN resolve_privacy_tier(inputs[first])

(* resolve_privacy_precedence: the strictest of what was supplied, the      *)
(* first of equals (max is stable); nothing supplied is the default deny.   *)
resolve_privacy_precedence(inputs) ==
    LET supplied == {i \in DOMAIN inputs : Supplied(inputs[i])}
        rank(i)  == Strictness(resolve_privacy_tier(inputs[i]))
    IN IF supplied = {} THEN resolve_privacy_tier("none")
       ELSE LET strictest == CHOOSE i \in supplied :
                               \A j \in supplied : rank(j) < rank(i)
                                                   \/ (rank(j) = rank(i) /\ i <= j)
            IN resolve_privacy_tier(inputs[strictest])
=============================================================================
