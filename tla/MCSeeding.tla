----------------------------- MODULE MCSeeding ------------------------------
(***************************************************************************)
(* Seeding with the stories of scenarios/, with every short program over   *)
(* an alphabet that reaches for the clock every way a file can, and with   *)
(* a realm that declares one name both as a read and as a write.           *)
(***************************************************************************)
EXTENDS Seeding, CovidDocket

CONSTANT Today

MCDeclared ==
    {[name |-> n, crossing |-> FALSE] : n \in
        {"TestClockActive", "TestClockFabricated", "TestClockSkew", "TestHeightPeakSkew",
         "CoinSupply", "ClaimCount", "ClaimClosed", "HasAnswer", "AnswerVerdict", "DisputeOpen",
         "Settled", "Verdict", "ClaimStatus", "StakePools", "HiddenFromListing", "RewardsOpened",
         "FolderCount", "FolderItems", "FolderTree", "SetBornOf", "ClaimSet", "FolderImage",
         "CourtDesc", "SiteDomain", "AssociationBond", "AssociationBondDefault",
         "ClaimAssociations", "SupersededBy", "Standing", "HoldsPass", "BoardSize",
         "CourtCreationBurn", "AdminParams", "FolderName",
         "CommentScore", "BoardOpen", "BoardPartyRows", "BoardNewest", "IsSetClaim", "Touch"}}
    \union {[name |-> n, crossing |-> TRUE] : n \in {"StartCourt", "Buy", "Stake", "Touch"}}

MCMalformed == {"Alice"}

MCDemo == CovidDemo(Table(Today), Today)

MCProgram ==
    [smoke |-> Smoke, deep |-> Deep, dispute |-> Dispute, rewards |-> RewardsDemo,
     assoc |-> AssocDemo, covid |-> Covid, privacy |-> Privacy, hub |-> PrivacyWith(Hub),
     covid_demo |-> MCDemo]

MCCI == [n \in {"smoke", "deep", "dispute", "rewards", "assoc", "covid", "privacy", "hub",
                "covid_demo", "written"}
            |-> n \in {"smoke", "dispute", "rewards", "covid", "written"}]

MCAlphabet ==
    << <<"account", "alice", 100>>,
       <<"arm_clock", 1000>>,
       <<"call", DEPLOYER, "EnableTestClock", <<>>, 0>>,
       <<"advance", 60>>,
       <<"advance_height", 720, TRUE>>,
       <<"seal_clock">>,
       <<"call", DEPLOYER, "SealTestClock", <<>>, 0>>,
       <<"mine", 2, FALSE>>,
       <<"court", DEPLOYER>>,
       <<"buy", "alice", 90>>,
       <<"expect", "Touch", <<>>, {FALSE}, TRUE>>,
       <<"expect", "TestClockActive", <<>>, {FALSE}, TRUE>>,
       <<"expect_refuse", DEPLOYER, "SealTestClock", <<>>>> >>
=============================================================================
