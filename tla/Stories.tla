------------------------------ MODULE Stories -------------------------------
(***************************************************************************)
(* The scenario files under scenarios/, each as the sequence of builder    *)
(* calls it makes (Scenario.tla says what a call does).  Narration is left *)
(* out; accounts and purchases are in GNOT, stakes in CC.                  *)
(***************************************************************************)
EXTENDS Integers, Sequences, FiniteSets, SequencesExt

Boss == "test1"
Y == 0
N == 1
Day  == 86400
Week == 7 * Day

\* A pattern any count matches: a bound above every count of these chains.
AnyCount == 0..52000


\* One builder call per element, each made by the same template.
Each(list, Step(_)) == [i \in DOMAIN list |-> Step(list[i])]

Open(who)  == <<"claim", who, "", FALSE, FALSE>>
Now(func, args, want)  == <<"expect", func, args, want, FALSE>>
Ends(func, args, want) == <<"expect", func, args, want, TRUE>>
Do(who, func, args)    == <<"call", who, func, args, 0>>
Folks(list)            == Each(list, LAMBDA p : <<"account", p[1], p[2]>>)
Buys(list)             == Each(list, LAMBDA p : <<"buy", p[1], p[2]>>)
Backs(cid, list)       == Each(list, LAMBDA p : <<"stake", p[1], cid, p[2], p[3]>>)

(***************************************************************************)
(* scenarios/smoke.py                                                      *)
(***************************************************************************)
Smoke ==
    Folks(<<<<"alice", 500>>, <<"bob", 500>>>>)
    \o << Now("TestClockActive", <<>>, {FALSE}),
          <<"arm_clock", 1780000000>>,
          Now("TestClockActive", <<>>, {TRUE}),
          Now("TestClockSkew", <<>>, {0}),
          <<"expect_refuse", "alice", "AdvanceTestClock", <<3600>>>>,
          <<"court", Boss>>,
          Now("TestClockActive", <<>>, {TRUE}) >>
    \o Buys(<<<<"alice", 50>>, <<"bob", 50>>>>)
    \o << Now("CoinSupply", <<>>, AnyCount),
          Open("alice"), Open("bob"),
          Now("ClaimCount", <<>>, {2}) >>
    \o Backs(1, <<<<"alice", Y, 40>>, <<"bob", N, 12>>>>)
    \o Backs(2, <<<<"bob", Y, 9>>>>)
    \o << <<"hide", Boss, 2>>,
          Now("HiddenFromListing", <<2>>, {TRUE}),
          Now("ClaimCount", <<>>, {2}),
          <<"folder", Boss, "Municipal record">>,
          <<"folder_add", Boss, 1, 1>>,
          Now("FolderItems", <<1>>, {{1}}),
          <<"expect_refuse", "alice", "CloseDeadClaim", <<1>>>>,
          <<"advance", 12 * Week - 1>>,
          <<"expect_refuse", "alice", "CloseDeadClaim", <<1>>>>,
          <<"advance", 2>>,
          Do("alice", "CloseDeadClaim", <<1>>),
          Now("ClaimClosed", <<1>>, {TRUE}),
          <<"mine", 5, FALSE>> >>

(***************************************************************************)
(* scenarios/deep.py                                                       *)
(***************************************************************************)
Deep ==
    Folks(<<<<"alice", 900>>, <<"bob", 900>>, <<"carol", 900>>>>)
    \o << Now("TestClockActive", <<>>, {FALSE}),
          <<"arm_clock", 1780000000>>,
          <<"court", "alice">> >>
    \o Buys(<<<<"alice", 400>>, <<"bob", 400>>, <<"carol", 400>>>>)
    \o << Open("alice"), Open("alice"),
          <<"stake", "alice", 1, Y, 400>>,
          <<"stake", "alice", 2, Y, 300>>,
          <<"mine", 2200, TRUE>>,
          <<"stake", "alice", 1, Y, 1>>,
          <<"stake", "alice", 2, Y, 1>>,
          <<"answer", "bob", 1, Y>>,
          <<"answer", "bob", 2, Y>>,
          Now("HasAnswer", <<1>>, {TRUE}),
          <<"dispute", "carol", 2>>,
          Now("DisputeOpen", <<2>>, {TRUE}),
          <<"advance", 3 * Day + 60>>,
          <<"settle", "alice", 1>>,
          Now("Settled", <<1>>, {TRUE}),
          Now("Verdict", <<1>>, {Y, N}),
          Now("DisputeOpen", <<2>>, {TRUE}) >>

(***************************************************************************)
(* scenarios/dispute.py                                                    *)
(***************************************************************************)
Dispute ==
    LET room == <<"alice", "bob", "carol", "dave", "erin">>
    IN  Each(room, LAMBDA a : <<"account", a, 900>>)
        \o << Now("TestClockActive", <<>>, {FALSE}),
              <<"arm_clock", 1780000000>>,
              <<"court", "alice">> >>
        \o Each(room, LAMBDA a : <<"buy", a, 400>>)
        \o << Open("alice"),
              <<"stake", "alice", 1, Y, 300>>,
              <<"advance_height", 2200, FALSE>>,
              <<"stake", "alice", 1, Y, 1>>,
              <<"answer", "bob", 1, Y>>,
              Now("HasAnswer", <<1>>, {TRUE}),
              <<"dispute", "carol", 1>>,
              Now("DisputeOpen", <<1>>, {TRUE}),
              <<"vote", "dave", 1, "no">>,
              <<"vote", "erin", 1, "no">>,
              <<"advance_height", 140000, TRUE>>,
              Do("alice", "ResolveDispute", <<1>>),
              Now("DisputeOpen", <<1>>, {FALSE}),
              <<"advance_height", 120960, FALSE>>,
              <<"buy", "dave", 1>>,
              <<"advance_height", 60000, FALSE>>,
              <<"buy", "erin", 1>>,
              Now("TestHeightPeakSkew", <<>>, 323100..323199),
              Now("TestClockFabricated", <<>>, {TRUE}) >>

(***************************************************************************)
(* scenarios/rewards_demo.py                                               *)
(***************************************************************************)
RewardsDemo ==
    Folks(<<<<"alice", 900>>, <<"bob", 900>>>>)
    \o << Now("TestClockActive", <<>>, {FALSE}),
          <<"arm_clock", 1780000000>>,
          <<"court", "alice">>,
          <<"buy", "alice", 400>>,
          <<"buy", "bob", 400>>,
          Open("alice"),
          <<"stake", "alice", 1, Y, 400>>,
          <<"advance_height", 2200, FALSE>>,
          <<"stake", "alice", 1, Y, 1>>,
          <<"answer", "bob", 1, Y>>,
          Now("HasAnswer", <<1>>, {TRUE}),
          <<"advance", 3 * Day + 60>>,
          <<"settle", "alice", 1>>,
          Now("Settled", <<1>>, {TRUE}),
          <<"expect_refuse", Boss, "OpenRewards", <<1>>>>,
          <<"advance", Week + 60>>,
          Do(Boss, "OpenRewards", <<1>>),
          Now("RewardsOpened", <<1>>, {TRUE}) >>

(***************************************************************************)
(* scenarios/assoc_demo.py                                                 *)
(***************************************************************************)
Bears(who, from, to, stance) == Do(who, "AddAssociation", <<from, to, stance>>)
Linked(cid, out, in) == Now("ClaimAssociations", <<cid>>, {[out |-> out, in |-> in]})

AssocDemo ==
    LET S == "supports"
        C == "contests"
    IN  Folks(<<<<"author", 500>>, <<"stranger", 500>>, <<"griefer", 500>>>>)
        \o << <<"court", Boss>> >>
        \o Each(<<Boss, "author", "stranger", "griefer">>, LAMBDA a : <<"buy", a, 200>>)
        \o << Now("AssociationBondDefault", <<>>, {10}),
              Now("AssociationBond", <<>>, {10}),
              Do(Boss, "SetCourtAssociationBond", <<5>>),
              Now("AssociationBond", <<>>, {50}),
              Now("AssociationBondDefault", <<>>, {10}),
              <<"expect_refuse", "stranger", "SetCourtAssociationBond", <<1>>>>,
              Open("author"), Open("author"), Open("author"), Open("author"),
              Bears("author", 2, 1, C),
              Linked(1, {}, {<<2, C>>}),
              Bears(Boss, 3, 2, S),
              Linked(2, {<<1, C>>}, {<<3, S>>}),
              Bears("stranger", 4, 1, S),
              Linked(1, {}, {<<2, C>>, <<4, S>>}),
              Do(Boss, "ApproveAssociation", <<4, 1>>),
              Linked(1, {}, {<<2, C>>, <<4, S>>}),
              Bears("stranger", 4, 3, C),
              Linked(3, {<<2, S>>}, {<<4, C>>}),
              Do(Boss, "DisapproveAssociation", <<4, 3>>),
              Linked(3, {<<2, S>>}, {}),
              <<"expect_refuse", "stranger", "ApproveAssociation", <<2, 1>>>>,
              Bears("griefer", 1, 4, C),
              Bears("griefer", 2, 4, C),
              Bears("griefer", 3, 4, C),
              Linked(4, {<<1, S>>}, {<<1, C>>, <<2, C>>, <<3, C>>}),
              Do(Boss, "DisapproveAllAssociations", <<4>>),
              Linked(4, {<<1, S>>}, {}),
              Bears("stranger", 1, 3, S),
              Bears("stranger", 2, 3, S),
              Linked(3, {<<2, S>>}, {<<1, S>>, <<2, S>>}),
              Do(Boss, "ApproveAllAssociations", <<3>>),
              Linked(3, {<<2, S>>}, {<<1, S>>, <<2, S>>}) >>

(***************************************************************************)
(* scenarios/privacy.py: a thesis, seven sets, fourteen findings filed as  *)
(* they are opened, eleven edges, and a creation burn priced before it is  *)
(* paid.                                                                   *)
(***************************************************************************)
CreationBurn == 2

\* The parent of each set, by id; the set each finding is filed in.
Sets     == <<0, 1, 1, 0, 0, 0, 0>>
Findings == <<2, 2, 2, 2, 3, 3, 3, 4, 4, 5, 6, 6, 7, 7>>
Thesis   == 1

\* By claim id: four findings on the thesis, the rest on one another.
Edges == << <<2, Thesis>>, <<3, Thesis>>, <<4, Thesis>>, <<5, Thesis>>,
            <<5, 4>>, <<6, 2>>, <<8, 7>>, <<11, 7>>, <<13, 12>>, <<13, 14>>, <<15, 14>> >>

\* The hub the hand-built court tried: every finding on the thesis.
Hub == [i \in DOMAIN Findings |-> <<Thesis + i, Thesis>>]

SetNames == <<"captures", "hears", "sees", "network", "goes", "refuse", "untested">>

MakeSet(i) == IF Sets[i] = 0 THEN <<"folder", Boss, SetNames[i]>>
              ELSE Do(Boss, "CreateFolderIn", <<Sets[i], SetNames[i]>>)

PrivacyWith(edges) ==
    << Do(Boss, "SetCourtCreationBurn", <<CreationBurn>>),
       <<"call", Boss, "StartCourt", <<>>, CreationBurn>>,
       Do(Boss, "SetCourtDesc", <<>>),
       <<"buy", Boss, 1>>,
       <<"claim", Boss, "", TRUE, FALSE>> >>
    \o [i \in DOMAIN Sets |-> MakeSet(i)]
    \o Each(Findings, LAMBDA set : Do(Boss, "OpenClaimIn", <<set, "">>))
    \o Each(edges, LAMBDA e : Bears(Boss, e[1], e[2], "supports"))
    \o << Ends("ClaimCount", <<>>, {1 + Len(Findings)}),
          Ends("FolderCount", <<>>, {Len(Sets)}),
          Ends("CourtDesc", <<>>, {TRUE}) >>

Privacy == PrivacyWith(Edges)

(***************************************************************************)
(* scenarios/covid.py: five years of docket.  Dates are days since its     *)
(* base, 1 February 2020, and goto walks the clock from one to the next.   *)
(***************************************************************************)
Walk(from, to) == <<"advance", (to - from) * Day>>

CovidRoom ==
    << <<"virology", 400, 250>>, <<"biosafety", 400, 240>>, <<"foia", 300, 140>>,
       <<"epi", 350, 200>>, <<"oversight", 400, 260>>, <<"journo", 300, 170>>,
       <<"skeptic", 250, 120>>, <<"trader", 400, 240>>, <<"arbiter", 300, 200>> >>

\* The date the file is at after each goto.
Date == [Mar17 |-> 45, Apr28 |-> 87, May20 |-> 109, May21 |-> 465,
         Jul21 |-> 535, Nov21 |-> 639, Jan22 |-> 710, Feb22 |-> 752,
         Mar22 |-> 760, Feb23 |-> 1121, Mar23 |-> 1124, Jul23 |-> 1263,
         Nov23 |-> 1369, May24 |-> 1565, Jun24 |-> 1607, Jan25 |-> 1820,
         Feb25 |-> 1840, Mar25 |-> 1861]

Covid2020 ==
    << Open("biosafety") >>
    \o Backs(1, << <<"biosafety", Y, 12>>, <<"virology", N, 20>>, <<"epi", N, 15>> >>)
    \o << Walk(0, Date.Mar17) >>
    \o Backs(1, << <<"virology", N, 30>>, <<"epi", N, 18>>, <<"skeptic", N, 6>> >>)
    \o << <<"claim", "journo", "", FALSE, TRUE>> >>
    \o Backs(2, << <<"journo", Y, 25>>, <<"virology", Y, 10>>, <<"foia", Y, 14>> >>)
    \o << <<"advance_height", 2400, FALSE>>,
          Walk(Date.Mar17, Date.Apr28),
          <<"stake", "journo", 2, Y, 1>>,
          <<"answer", "arbiter", 2, Y>>,
          Now("HasAnswer", <<2>>, {TRUE}),
          <<"folder_add", Boss, 1, 2>>,
          Walk(Date.Apr28, Date.May20),
          Do("biosafety", "CloseDeadClaim", <<1>>) >>

Covid2021 ==
    << Walk(Date.May20, Date.May21), Open("oversight") >>
    \o Backs(3, << <<"oversight", Y, 22>>, <<"virology", N, 28>>, <<"biosafety", Y, 16>> >>)
    \o << Walk(Date.May21, Date.Jul21), Open("oversight") >>
    \o Backs(4, << <<"oversight", Y, 18>>, <<"trader", N, 24>>, <<"skeptic", N, 12>> >>)
    \o << Walk(Date.Jul21, Date.Nov21),
          Do("oversight", "CloseDeadClaim", <<3>>),
          Do("oversight", "CloseDeadClaim", <<4>>) >>

Covid2022 ==
    << Walk(Date.Nov21, Date.Jan22), Open("foia") >>
    \o Backs(5, << <<"foia", Y, 30>>, <<"journo", Y, 20>>, <<"virology", N, 8>>,
                   <<"skeptic", N, 5>> >>)
    \o << <<"advance_height", 2400, FALSE>>,
          Walk(Date.Jan22, Date.Feb22),
          <<"stake", "foia", 5, Y, 1>>,
          <<"answer", "arbiter", 5, Y>>,
          <<"folder_add", Boss, 1, 5>>,
          <<"dispute", "skeptic", 5>>,
          Now("DisputeOpen", <<5>>, {TRUE}),
          <<"vote", "epi", 5, "no">>,
          <<"vote", "biosafety", 5, "no">>,
          <<"vote", "oversight", 5, "no">>,
          <<"vote", "trader", 5, "yes">>,
          <<"advance_height", 140000, FALSE>>,
          Walk(Date.Feb22, Date.Mar22),
          Do("journo", "ResolveDispute", <<5>>),
          Now("DisputeOpen", <<5>>, {FALSE}) >>

Covid2023 ==
    << Walk(Date.Mar22, Date.Feb23), Open("biosafety") >>
    \o Backs(6, << <<"biosafety", Y, 40>>, <<"foia", Y, 22>>, <<"oversight", Y, 18>> >>)
    \o << Walk(Date.Feb23, Date.Mar23) >>
    \o Backs(6, << <<"biosafety", Y, 20>>, <<"epi", N, 35>>, <<"virology", N, 25>> >>)
    \o << Walk(Date.Mar23, Date.Jul23), Open("oversight") >>
    \o Backs(7, << <<"oversight", Y, 26>>, <<"journo", Y, 12>>, <<"trader", N, 30>> >>)
    \o << Walk(Date.Jul23, Date.Nov23),
          Do("biosafety", "CloseDeadClaim", <<6>>),
          Do("oversight", "CloseDeadClaim", <<7>>) >>

Covid2024 ==
    << Walk(Date.Nov23, Date.May24), Open("journo") >>
    \o Backs(8, << <<"journo", Y, 28>>, <<"oversight", Y, 16>>, <<"virology", Y, 9>>,
                   <<"skeptic", Y, 4>> >>)
    \o << <<"advance_height", 2400, FALSE>>,
          Walk(Date.May24, Date.Jun24),
          <<"stake", "journo", 8, Y, 1>>,
          <<"answer", "arbiter", 8, Y>>,
          Now("HasAnswer", <<8>>, {TRUE}),
          <<"folder_add", Boss, 1, 8>> >>

Covid2025 ==
    << Walk(Date.Jun24, Date.Jan25), Open("biosafety") >>
    \o Backs(9, << <<"biosafety", Y, 24>>, <<"trader", Y, 20>>, <<"epi", N, 18>>,
                   <<"virology", N, 12>>, <<"foia", Y, 10>> >>)
    \o << Walk(Date.Jan25, Date.Feb25), Open("oversight") >>
    \o Backs(10, << <<"oversight", Y, 20>>, <<"skeptic", N, 14>>, <<"trader", N, 18>>,
                    <<"virology", N, 16>> >>)
    \o << Open("oversight") >>
    \o Backs(11, << <<"oversight", Y, 22>>, <<"journo", Y, 10>>, <<"trader", N, 26>>,
                    <<"skeptic", N, 8>> >>)
    \o << Walk(Date.Feb25, Date.Mar25),
          <<"settle", "arbiter", 2>>,
          Now("ClaimStatus", <<2>>, {"settled YES"}),
          Now("ClaimCount", <<>>, {11}),
          <<"seal_clock">>,
          Now("TestClockFabricated", <<>>, {TRUE}) >>

Covid ==
    Folks(CovidRoom)
    \o << Now("TestClockActive", <<>>, {FALSE}),
          <<"arm_clock", 1580515200>>,
          Now("TestClockActive", <<>>, {TRUE}),
          <<"court", Boss>> >>
    \o Each(CovidRoom, LAMBDA p : <<"buy", p[1], p[3]>>)
    \o << Now("CoinSupply", <<>>, AnyCount),
          <<"folder", Boss, "Document trail">> >>
    \o Covid2020 \o Covid2021 \o Covid2022 \o Covid2023 \o Covid2024 \o Covid2025
=============================================================================
