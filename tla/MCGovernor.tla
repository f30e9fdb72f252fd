----------------------------- MODULE MCGovernor -----------------------------
(* Instances of Governor: electorates, rules and questions of a few units. *)
EXTENDS Governor, TLC

CONSTANTS v1, v2, v3,   \* voters
          mint,       \* a reserved kind the realm installs
          k1, k2,     \* kinds of the realm's own
          x, y, z     \* payloads

NoChange == [f \in {} |-> 0]
Ask(kind, on) == [kind |-> kind, on |-> on, set |-> NoChange, members |-> <<>>]
AskAdopt(name) == Ask("govern:adopt", name)
AskRetire(name) == Ask("govern:retire", name)
AskRules(name, set) == [Ask("govern:rules", name) EXCEPT !.set = set]
AskBatch(members) == [Ask("govern:batch", x) EXCEPT !.members = members]

RulesOf(quorum, threshold, voting, delay, grace, propose) ==
  [quorum |-> quorum, threshold |-> threshold, voting |-> voting,
   delay |-> delay, grace |-> grace, propose |-> propose]

World(votes, total, engaged) == [votes |-> votes, total |-> total, engaged |-> engaged]

(* Any order of digests will do, a fixed one is taken.                     *)
RankOf(qs) == [q \in {qs[i] : i \in DOMAIN qs} |-> CHOOSE i \in DOMAIN qs : qs[i] = q]

(* Tallies: some weight is idle, some nobody holds, and no abstention is   *)
(* free.                                                                   *)
TallyAddr == {v1, v2, v3}
TallyWorlds == {World((v1 :> 3 @@ v2 :> 2 @@ v3 :> 1), 7, 5),
                World((v1 :> 2 @@ v2 :> 2 @@ v3 :> 0), 4, 9)}
TallyRules == RulesOf(5, 6, 2, 1, 1, 0)
NoOffers == {}
TallyQuestions == {Ask(mint, x)}
TallyRank == RankOf(<<Ask(mint, x)>>)

(* Kinds: one holder decides everything, so that powers come and go.       *)
KindsAddr == {v1}
KindsWorlds == {World((v1 :> 2), 2, 2)}
KindsRules == RulesOf(5, 5, 1, 0, 1, 0)
KindsOffers == {RulesOf(5, 5, 1, 1, 1, 0), RulesOf(5, 5, 1, 0, 0, 0)}
KindsSeq == <<AskAdopt(k1), AskRetire(k1), AskRules(k1, [delay |-> 0]),
              AskRules(k1, [grace |-> 0]), Ask(k1, x), Ask(k1, y),
              AskBatch(<<AskRetire(k1), Ask(k1, x)>>),
              AskBatch(<<AskRules(k1, [voting |-> 2]), Ask(k1, x)>>)>>
KindsQuestions == Range(KindsSeq)
KindsRank == RankOf(KindsSeq)
=============================================================================
