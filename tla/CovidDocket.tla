------------------------------ MODULE CovidDocket ------------------------------
(***************************************************************************)
(* scenarios/covid_demo.py: the demo docket, computed from one table.      *)
(*                                                                         *)
(* Nineteen claims, each with a history of moves, are numbered by filing   *)
(* date, put on one timeline and walked once; the file refuses to load     *)
(* when one of its own guards fails.  Dates are days since BASE, and END,  *)
(* the day the file is read, is the parameter `end`.  Titles, bodies and   *)
(* descriptions are left out, except the name a heading claims.            *)
(***************************************************************************)
EXTENDS Stories

BASE == 1579046400
EPOCH_BLOCKS  == 720
PERIOD_BLOCKS == 120960
TREND_CLAIMS  == 4
HOURLY_KEEP   == 168

\* (actor, GNOT), and the 35 % of it that each burns.
ACTORS ==
    << <<"virology", 3024>>, <<"biosafety", 2880>>, <<"epi", 2736>>, <<"genomics", 2592>>,
       <<"foia", 2160>>, <<"oversight", 2448>>, <<"journo", 2016>>, <<"clinician", 2304>>,
       <<"modeller", 2160>>, <<"statistician", 2448>>, <<"teacher", 1584>>,
       <<"vaxsafety", 2160>>, <<"skeptic", 1872>>, <<"trader", 3024>>,
       <<"arbiter", 2016>>, <<"arbiter2", 1872>> >>
Burned(funds) == (funds * 35) \div 100

(***************************************************************************)
(* The shapes: a position history is a list of (day, slot of the cast,     *)
(* side, delta), a negative delta being an unstake.                        *)
(***************************************************************************)
Tug ==
    << <<0, 2, N, 6>>, <<0, 1, Y, 8>>, <<2, 2, N, 7>>, <<5, 1, Y, 6>>, <<8, 2, N, 9>>,
       <<12, 3, Y, 5>>, <<16, 2, N, 6>>, <<20, 1, Y, -4>>, <<24, 4, N, 4>>,
       <<29, 3, Y, 9>>, <<34, 2, N, -5>>, <<40, 1, Y, 5>>, <<46, 4, N, 7>>,
       <<53, 3, Y, -3>>, <<60, 2, N, 4>>, <<68, 1, Y, 6>>, <<76, 4, N, -4>> >>

Reversal ==
    << <<0, 2, N, 5>>, <<0, 1, Y, 12>>, <<2, 1, Y, 6>>, <<4, 2, N, 3>>, <<9, 3, Y, 4>>,
       <<14, 2, N, 8>>, <<18, 1, Y, -8>>, <<23, 4, N, 7>>, <<28, 2, N, 6>>,
       <<33, 1, Y, -6>>, <<39, 4, N, 5>>, <<47, 3, Y, -3>>, <<56, 2, N, 4>>,
       <<65, 4, N, 3>>, <<74, 1, Y, 3>> >>

SparseAt(y0, n0, y1, n1) ==
    << <<0, 1, Y, y0>>, <<0, 2, N, n0>>, <<9, 1, Y, y1>>, <<18, 2, N, n1>> >>

GrindAt(y, n) ==
    << <<0, 1, Y, y[1]>>, <<0, 2, N, n[1]>>, <<4, 1, Y, y[2]>>, <<6, 2, N, n[2]>>,
       <<9, 3, Y, y[3]>>, <<12, 2, N, n[3]>>, <<14, 1, Y, y[4]>>, <<16, 4, N, n[4]>>,
       <<18, 3, Y, y[5]>>, <<20, 2, N, n[5]>>, <<22, 1, Y, y[6]>> >>

ShortGrind == GrindAt(<<6, 2, 2, 3, 2, 2>>, <<5, 3, 2, 2, 3>>)

(***************************************************************************)
(* The table, grouped by subject as it is read.                            *)
(***************************************************************************)
\* A sequence written out, which TLC computes once and a function at every use.
Listed(seq) == seq \o <<>>

ClaimRow(key, on, arc, shape, cast, path) ==
    [key |-> key, on |-> on, arc |-> arc, path |-> path, thin |-> Len(shape) = 4,
     moves |-> Listed([i \in DOMAIN shape |->
                          [off |-> shape[i][1], who |-> cast[shape[i][2]],
                           side |-> shape[i][3], amt |-> shape[i][4]]])]

Origins == <<"Origins">>
Fauci   == <<"Fauci">>
Funding == <<"Fauci", "Gain-of-function funding">>
Paper   == <<"Fauci", "Proximal Origin">>
Texts   == <<"Fauci", "The iPhone texts">>
Vaccine == <<"Vaccine safety claims">>

OriginClaims ==
    << ClaimRow("lab23", 1181, "dead", Tug,
                <<"biosafety", "virology", "oversight", "epi">>, Origins),
       ClaimRow("defuse", 616, "yes", SparseAt(10, 3, 3, 1),
                <<"foia", "virology", "journo", "epi">>, Origins),
       ClaimRow("furin", 147, "dead", Reversal,
                <<"genomics", "virology", "biosafety", "epi">>, Origins),
       ClaimRow("bioweapon", 244, "no", GrindAt(<<8, 4, 4, 3, 2, 2>>, <<3, 2, 2, 1, 1>>),
                <<"skeptic", "genomics", "trader", "virology">>, Origins),
       ClaimRow("yanrep", 264, "yes", SparseAt(2, 9, 3, 3),
                <<"genomics", "skeptic", "virology", "trader">>, Origins),
       ClaimRow("baric", 787, "no", GrindAt(<<7, 4, 3, 3, 2, 1>>, <<4, 3, 2, 2, 1>>),
                <<"biosafety", "virology", "journo", "genomics">>, Origins),
       ClaimRow("baricout", 1587, "yes", SparseAt(6, 5, 3, 3),
                <<"foia", "oversight", "journo", "virology">>, Origins) >>

\* A claim whose arc is still running is dated from the end of the story.
BeforeEnd(end, days) == end - days

FundingClaims(end) ==
    << ClaimRow("gof", 482, "yes", SparseAt(11, 2, 3, 1),
                <<"journo", "foia", "oversight", "virology">>, Funding),
       ClaimRow("p3co", BeforeEnd(end, 28), "dispute", GrindAt(<<6, 3, 3, 2, 1, 1>>, <<5, 4, 3, 2, 2>>),
                <<"biosafety", "virology", "oversight", "epi">>, Funding),
       ClaimRow("perjury", BeforeEnd(end, 24), "dispute",
                GrindAt(<<8, 4, 4, 3, 2, 1>>, <<4, 2, 2, 1, 1>>),
                <<"oversight", "virology", "skeptic", "foia">>, Funding) >>

PaperClaims(end) ==
    << ClaimRow("prompted", BeforeEnd(end, 26), "dispute",
                GrindAt(<<3, 2, 2, 2, 2, 1>>, <<7, 5, 3, 3, 2>>),
                <<"foia", "virology", "oversight", "epi">>, Paper),
       ClaimRow("divergence", 1096, "yes", SparseAt(7, 5, 3, 2),
                <<"foia", "genomics", "journo", "virology">>, Paper),
       ClaimRow("lancet", 523, "yes", SparseAt(9, 4, 3, 1),
                <<"journo", "foia", "epi", "oversight">>, Paper) >>

TextClaims(end) ==
    << ClaimRow("mctext", BeforeEnd(end, 50), "yes", SparseAt(5, 6, 3, 3),
                <<"foia", "vaxsafety", "clinician", "oversight">>, Texts),
       ClaimRow("concealed", BeforeEnd(end, 49), "no", GrindAt(<<4, 3, 2, 2, 1, 1>>, <<7, 4, 3, 3, 2>>),
                <<"oversight", "clinician", "skeptic", "vaxsafety">>, Texts),
       ClaimRow("nochain", BeforeEnd(end, 23), "answered", SparseAt(8, 4, 3, 2),
                <<"foia", "clinician", "vaxsafety", "oversight">>, Texts) >>

VaccineClaims ==
    << ClaimRow("misc82", 503, "no", GrindAt(<<9, 4, 4, 3, 2, 2>>, <<3, 2, 1, 1, 1>>),
                <<"vaxsafety", "clinician", "skeptic", "statistician">>, Vaccine),
       ClaimRow("denom", 517, "yes", SparseAt(2, 10, 2, 3),
                <<"statistician", "vaxsafety", "clinician", "modeller">>, Vaccine),
       ClaimRow("miscrisk", 573, "no", ShortGrind,
                <<"vaxsafety", "clinician", "statistician", "modeller">>, Vaccine) >>

Table(end) ==
    OriginClaims \o FundingClaims(end) \o PaperClaims(end) \o TextClaims(end) \o VaccineClaims

(***************************************************************************)
(* What the file checks of its own table before it writes a step.          *)
(***************************************************************************)
Sum(seq) == FoldLeft(LAMBDA n, x : n + x, 0, seq)
Dated(c) == {c.on + c.moves[i].off : i \in DOMAIN c.moves}
Answerable(c) == c.arc \in {"yes", "no", "dispute", "answered"}

\* The YES share, in per cent, after each move.
Share(c) ==
    LET Side(i, side) == Sum([j \in 1..i |-> IF c.moves[j].side = side
                                             THEN c.moves[j].amt ELSE 0])
        Of(y, n) == (200 * y + y + n) \div (2 * (y + n))
    IN  [i \in DOMAIN c.moves |-> Of(Side(i, Y), Side(i, N))]

Lively(c) ==
    LET shares == Share(c)
    IN  c.thin \/ /\ Len(shares) >= 8
                  /\ \E i, j \in DOMAIN shares : shares[i] - shares[j] >= 18

\* What who holds on a side after move i is never negative.
Covered(c) ==
    \A i \in DOMAIN c.moves :
        Sum([j \in 1..i |-> IF c.moves[j].who = c.moves[i].who /\ c.moves[j].side = c.moves[i].side
                            THEN c.moves[j].amt ELSE 0]) >= 0

\* The most each actor ever has committed at once, by absolute date, against
\* what it burned: a ratio of coin to GNOT.
CommitmentsFit(docket) ==
    LET all == SortSeq(FlattenSeq([i \in DOMAIN docket |->
                   [k \in DOMAIN docket[i].moves |->
                       [at |-> docket[i].on + docket[i].moves[k].off, row |-> 100 * i + k,
                        who |-> docket[i].moves[k].who, amt |-> docket[i].moves[k].amt]]]),
                   LAMBDA a, b : a.at < b.at \/ (a.at = b.at /\ a.row < b.row))
        Fits(who, funds) ==
            LET own  == SelectSeq(all, LAMBDA m : m.who = who)
                walk == FoldLeft(LAMBDA w, m :
                            LET live == IF w.live + m.amt > 0 THEN w.live + m.amt ELSE 0
                            IN  [live |-> live, peak |-> IF live > w.peak THEN live ELSE w.peak],
                            [live |-> 0, peak |-> 0], own)
            IN  100 * walk.peak <= 35 * Burned(funds)
    IN  \A i \in DOMAIN ACTORS : Fits(ACTORS[i][1], ACTORS[i][2])

WithinHourlyWindow(docket) ==
    Cardinality(UNION {Dated(docket[i]) : i \in DOMAIN docket}) <= HOURLY_KEEP

ThreeBuckets(c) ==
    Answerable(c) => Cardinality({c.moves[i].off : i \in {j \in DOMAIN c.moves :
                                                             c.moves[j].off <= 22}}) >= 3

ShapeFitsArc(c) == c.arc # "dead" => \A i \in DOMAIN c.moves : c.moves[i].off <= 22

(***************************************************************************)
(* Headings and numbers: one heading per distinct prefix of a path, roots  *)
(* first, and a claim's id is its place in the calendar after them.        *)
(***************************************************************************)
SetPaths(docket) ==
    LET met == FoldLeft(LAMBDA ps, c :
                   FoldLeft(LAMBDA qs, n :
                       LET p == SubSeq(c.path, 1, n)
                       IN  IF p \in ToSet(qs) THEN qs ELSE Append(qs, p),
                       ps, [n \in DOMAIN c.path |-> n]), <<>>, docket)
    IN  FlattenSeq([n \in 1..4 |-> SelectSeq(met, LAMBDA p : Len(p) = n)])

SetOf(paths, path) == CHOOSE n \in DOMAIN paths : paths[n] = path

\* Mutant: ids in the order of the table instead of the calendar.
Numbered_TableOrder(docket) ==
    LET paths == SetPaths(docket)
    IN  Listed([i \in DOMAIN docket |->
            [key |-> docket[i].key, on |-> docket[i].on, arc |-> docket[i].arc,
             moves |-> docket[i].moves, path |-> docket[i].path,
             cid |-> Len(paths) + i, set |-> SetOf(paths, docket[i].path)]])

\* The table with each row's claim id and the id of its set.
Numbered(docket) ==
    LET paths == SetPaths(docket)
        Before(j, i) == docket[j].on < docket[i].on \/ (docket[j].on = docket[i].on /\ j < i)
        Place(i) == 1 + Cardinality({j \in DOMAIN docket : Before(j, i)})
    IN  Listed([i \in DOMAIN docket |->
            [key |-> docket[i].key, on |-> docket[i].on, arc |-> docket[i].arc,
             moves |-> docket[i].moves, path |-> docket[i].path,
             cid |-> Len(paths) + Place(i), set |-> SetOf(paths, docket[i].path)]])

RowOf(d, key) == d[CHOOSE i \in DOMAIN d : d[i].key = key]
Id(d, key)    == RowOf(d, key).cid
Author(c)     == c.moves[1].who

(***************************************************************************)
(* The room, and the filing system: every set is born of a heading that is *)
(* staked, answered and settled like any claim, in phases.                 *)
(***************************************************************************)
Room ==
    << Now("TestClockActive", <<>>, {FALSE}),
       <<"arm_clock", BASE>>,
       Now("TestClockActive", <<>>, {TRUE}) >>
    \o Folks(ACTORS)
    \o << Do(Boss, "SetSiteDomain", <<>>),
          Ends("SiteDomain", <<>>, {TRUE}),
          <<"court", Boss>> >>

\* One purchase an epoch, smallest purse first.
Purchases ==
    LET rows   == [i \in DOMAIN ACTORS |-> [who |-> ACTORS[i][1], gnot |-> ACTORS[i][2], i |-> i]]
        sorted == SortSeq(rows, LAMBDA a, b : a.gnot < b.gnot \/ (a.gnot = b.gnot /\ a.i < b.i))
    IN  FlattenSeq(Each(sorted, LAMBDA r : << <<"advance_height", EPOCH_BLOCKS, FALSE>>,
                                              <<"buy", r.who, Burned(r.gnot)>> >>))
        \o << Now("CoinSupply", <<>>, AnyCount) >>

STAKERS   == <<"foia", "oversight", "journo">>
SET_STAKE == 8
SettleWait == << <<"advance", 72 * 3600 + 60>>, <<"advance_height", 51840, FALSE>> >>

Filer(n) == STAKERS[((n - 1) % 3) + 1]

Filing(paths) ==
    LET all      == [n \in DOMAIN paths |-> n]
        round    == << <<"advance_height", EPOCH_BLOCKS, FALSE>> >>
                    \o Each(all, LAMBDA n : <<"stake", Filer(n), n, Y, SET_STAKE>>)
        nested   == SelectSeq(all, LAMBDA n : Len(paths[n]) > 1)
    IN  FlattenSeq(Each(all, LAMBDA n : << <<"claim", Filer(n), Last(paths[n]), TRUE, FALSE>>,
                                           <<"stake", Filer(n), n, Y, SET_STAKE>> >>))
        \o round \o round
        \o Each(all, LAMBDA n : <<"answer", "arbiter", n, Y>>)
        \o SettleWait
        \o FlattenSeq(Each(all, LAMBDA n : << <<"settle", "arbiter", n>>,
                                              Do(Filer(n), "New", <<n>>) >>))
        \o Each(nested, LAMBDA n : Do(Boss, "MoveFolder", <<n, SetOf(paths, Front(paths[n]))>>))
        \o << Do(Boss, "SetFolderImage", <<SetOf(paths, Fauci)>>) >>

(***************************************************************************)
(* One timeline.                                                           *)
(***************************************************************************)
Event(at, phase, kind, i, k) == [at |-> at, phase |-> phase, kind |-> kind, row |-> i, k |-> k]

Events(d) ==
    LET Of(i) ==
        LET c     == d[i]
            dated == SelectSeq([k \in DOMAIN c.moves |-> k], LAMBDA k : c.moves[k].off # 0)
        IN  << Event(c.on, 0, "open", i, 0) >>
            \o Each(dated, LAMBDA k : Event(c.on + c.moves[k].off, 0, "move", i, k))
            \o (IF Answerable(c) THEN << Event(c.on + 22, 1, "answer", i, 0) >> ELSE <<>>)
            \o (IF c.arc \in {"yes", "no"} THEN << Event(c.on + 26, 2, "settle", i, 0) >> ELSE <<>>)
            \o (IF c.arc = "dispute" THEN << Event(c.on + 23, 2, "dispute", i, 0) >> ELSE <<>>)
            \o (IF c.arc = "dead" THEN << Event(c.on + 91, 3, "dead", i, 0) >> ELSE <<>>)
        Earlier(a, b) ==
            \/ a.at < b.at
            \/ a.at = b.at /\ a.phase < b.phase
            \/ a.at = b.at /\ a.phase = b.phase /\ d[a.row].cid < d[b.row].cid
            \/ a.at = b.at /\ a.phase = b.phase /\ a.row = b.row /\ a.k < b.k
    IN  SortSeq(FlattenSeq([i \in DOMAIN d |-> Of(i)]), Earlier)

\* Every few claims by date, one whose trailing window is crossed mid-life.
TrendIds(d, sets) ==
    LET step == IF Len(d) \div TREND_CLAIMS > 1 THEN Len(d) \div TREND_CLAIMS ELSE 1
    IN  {sets + 2 + step * j : j \in 0..(TREND_CLAIMS - 1)}

Goto(from, to) ==
    << <<"advance", (to - from) * Day>>, <<"advance_height", EPOCH_BLOCKS, FALSE>> >>

MoveSteps(c, m) ==
    << <<IF m.amt >= 0 THEN "stake" ELSE "unstake", m.who, c.cid, m.side,
         IF m.amt >= 0 THEN m.amt ELSE -m.amt>> >>

EventSteps(e, c) ==
    CASE e.kind = "open" ->
            << <<"claim", Author(c), "", TRUE, FALSE>>,
               <<"folder_add", Boss, c.set, c.cid>> >>
            \o FlattenSeq(Each(SelectSeq(c.moves, LAMBDA m : m.off = 0),
                               LAMBDA m : MoveSteps(c, m)))
      [] e.kind = "move"    -> MoveSteps(c, c.moves[e.k])
      [] e.kind = "answer"  -> << <<"answer", IF c.arc = "dispute" THEN "arbiter2" ELSE "arbiter",
                                    c.cid, IF c.arc = "no" THEN N ELSE Y>> >>
      [] e.kind = "settle"  -> << <<"settle", "arbiter", c.cid>> >>
      [] e.kind = "dispute" -> << <<"dispute", "skeptic", c.cid>> >>
      [] e.kind = "dead"    -> << Do("skeptic", "CloseDeadClaim", <<c.cid>>) >>

\* The one walk over the calendar, from BASE to END.
Timeline(d, sets, end) ==
    LET events == Events(d)
        trends == TrendIds(d, sets)
        Cid(i)   == d[events[i].row].cid
        At(i)    == IF i = 0 THEN 0 ELSE events[i].at
        Jumps(i) == /\ events[i].kind = "move" /\ Cid(i) \in trends
                    /\ \A j \in 1..(i - 1) : ~(events[j].kind = "move" /\ Cid(j) = Cid(i))
        Steps(i) == (IF Jumps(i) THEN << <<"advance_height", PERIOD_BLOCKS, FALSE>> >> ELSE <<>>)
                    \o (IF At(i) # At(i - 1) THEN Goto(At(i - 1), At(i)) ELSE <<>>)
                    \o EventSteps(events[i], d[events[i].row])
    IN  FlattenSeq([i \in DOMAIN events |-> Steps(i)])
        \o Goto(At(Len(events)), end) \o << Now("ClaimCount", <<>>, AnyCount) >>

PastEnd(d, end) == Last(Events(d)).at > end

(***************************************************************************)
(* The argument graph, filed once every claim exists.                      *)
(***************************************************************************)
REL ==
    LET Con(a, b) == <<a, b, "contests">>
        Sup(a, b) == <<a, b, "supports">>
    IN  << Con("yanrep", "bioweapon"), Con("baricout", "baric"), Con("nochain", "concealed"),
           Con("denom", "misc82"), Sup("defuse", "furin"), Sup("defuse", "lab23"),
           Sup("gof", "p3co"), Sup("gof", "lab23"), Sup("divergence", "prompted"),
           Sup("lancet", "prompted"), Sup("mctext", "concealed"), Sup("divergence", "perjury"),
           Sup("baricout", "prompted"), Con("miscrisk", "concealed"), Con("denom", "miscrisk"),
           Sup("furin", "bioweapon"), Sup("lab23", "furin") >>

Connector(d, a, b) ==
    CASE <<a, b>> \in {<<"defuse", "lab23">>, <<"gof", "lab23">>} -> "epi"
      [] <<a, b>> = <<"furin", "bioweapon">> -> "oversight"
      [] OTHER -> Author(RowOf(d, a))

Graph(d, paths) ==
    Each(REL, LAMBDA r : Do(Connector(d, r[1], r[2]), "AddAssociation",
                            <<Id(d, r[1]), Id(d, r[2]), r[3]>>))
    \o << Do(Boss, "ApproveAssociation", <<Id(d, "defuse"), Id(d, "lab23")>>),
          Do(Boss, "DisapproveAssociation", <<Id(d, "furin"), Id(d, "bioweapon")>>),
          Do(Boss, "AddToFolder", <<SetOf(paths, Origins), Id(d, "gof")>>) >>

(***************************************************************************)
(* Winners collect, which is what buys standing; the first winning claim   *)
(* of the table is the one an upvoter collects from, opened once.          *)
(***************************************************************************)
UPVOTERS == <<"virology", "genomics", "clinician", "foia">>

WinningSide(c) == IF c.arc = "yes" THEN Y ELSE N
Won(c, who) ==
    /\ c.arc \in {"yes", "no"}
    /\ Sum([i \in DOMAIN c.moves |-> IF c.moves[i].who = who /\ c.moves[i].side = WinningSide(c)
                                     THEN c.moves[i].amt ELSE 0]) > 0

HasWon(d, who) == \E i \in DOMAIN d : Won(d[i], who)
WonIn(d, who)  == d[CHOOSE i \in DOMAIN d : Won(d[i], who) /\ \A j \in 1..(i - 1) : ~Won(d[j], who)]

Collections(d) ==
    LET Opened(i)  == \E j \in 1..(i - 1) : WonIn(d, UPVOTERS[j]).cid = WonIn(d, UPVOTERS[i]).cid
        Collect(i) ==
            LET who == UPVOTERS[i]
                c   == WonIn(d, who)
            IN  (IF Opened(i) THEN <<>> ELSE << Do(who, "OpenRewards", <<c.cid>>) >>)
                \o << Do(who, "WithdrawBonus", <<c.cid, WinningSide(c)>>),
                      Ends("Standing", <<who>>, {TRUE}) >>
    IN  FlattenSeq([i \in DOMAIN UPVOTERS |-> Collect(i)])

(***************************************************************************)
(* The boards.  A row's id is its place in the list that posts it.         *)
(***************************************************************************)
BOARD_ACTORS ==
    <<"virology", "epi", "genomics", "foia", "journo", "statistician", "oversight",
      "clinician", "skeptic", "arbiter2">>

Passes(d) ==
    LET authors == <<Author(RowOf(d, "p3co")), Author(RowOf(d, "perjury"))>>
        more    == FoldLeft(LAMBDA l, a : IF a \in ToSet(l) THEN l ELSE Append(l, a),
                            BOARD_ACTORS, authors)
    IN  Each(more, LAMBDA who : <<"comment_pass", who>>)

Boards(d) ==
    LET p3     == Id(d, "p3co")
        pj     == Id(d, "perjury")
        author == Author(RowOf(d, "p3co"))
        Speak(cid, rows) == Each(rows, LAMBDA r : <<"comment", r[1], cid, r[2]>>)
        argued == << <<author, 0>>, <<"arbiter2", 0>>, <<"skeptic", 0>>, <<"epi", 1>>,
                     <<author, 3>> >>
        half   == << <<"arbiter2", 0>>, <<"foia", 1>> >>
    IN  Speak(p3, argued)
        \o Each(SubSeq(UPVOTERS, 1, 3), LAMBDA who : <<"upvote", who, p3, 2>>)
        \o << <<"upvote", UPVOTERS[4], p3, 3>>,
              Ends("CommentScore", <<p3, 2>>, 1..100),
              <<"comment", "journo", p3, 0>>,
              <<"withdraw_comment", "journo", p3, 6>>,
              <<"comment", "statistician", p3, 0>>,
              <<"hide_comment", Boss, p3, 7>> >>
        \o Speak(pj, half)
        \o << Ends("BoardSize", <<p3>>, {Len(argued) + 2}),
              Ends("BoardSize", <<pj>>, {Len(half)}),
              Ends("BoardOpen", <<p3>>, {TRUE}),
              Ends("BoardPartyRows", <<p3>>, {{"author"}, {"author", "answerer"}}),
              Ends("BoardPartyRows", <<p3>>, {{"answerer"}, {"author", "answerer"}}),
              Ends("BoardPartyRows", <<pj>>, {{"answerer"}, {"author", "answerer"}}),
              Ends("BoardNewest", <<p3>>, {TRUE}) >>

(***************************************************************************)
(* A seventh heading, agreed to and carried by nobody; what was built; and *)
(* a price on the next court.                                              *)
(***************************************************************************)
PENDING_CID == 26

Pending(paths) ==
    LET stake == <<"stake", "genomics", PENDING_CID, Y, SET_STAKE>>
        epoch == <<"advance_height", EPOCH_BLOCKS, FALSE>>
    IN  << <<"claim", "genomics", "Furin cleavage site", TRUE, FALSE>>,
           Do(Boss, "AddToFolder", <<SetOf(paths, Origins), PENDING_CID>>),
           stake, epoch, stake, epoch, stake,
           <<"answer", "arbiter", PENDING_CID, Y>> >>
        \o SettleWait
        \o << <<"settle", "arbiter", PENDING_CID>>,
              Ends("ClaimSet", <<PENDING_CID>>, {0}),
              Ends("IsSetClaim", <<PENDING_CID>>, {TRUE}) >>

Tree(paths) ==
    [n \in DOMAIN paths |->
        [parent |-> IF Len(paths[n]) > 1 THEN SetOf(paths, Front(paths[n])) ELSE 0,
         image |-> paths[n] = Fauci, born |-> n]]

WhatItBuilt(paths) ==
    LET fauci == SetOf(paths, Fauci)
    IN  << Ends("FolderTree", <<>>, {Tree(paths)}),
           Ends("FolderCount", <<>>, {6}),
           Ends("FolderName", <<fauci>>, {"Fauci"}),
           Ends("SetBornOf", <<fauci>>, {fauci}),
           Ends("ClaimSet", <<fauci>>, {fauci}),
           Ends("AssociationBond", <<>>, {10}),
           Do(Boss, "SetCourtCreationBurn", <<2>>),
           Ends("CourtCreationBurn", <<>>, {2}),
           Ends("AdminParams", <<>>, {2}) >>

Franchises == Each(ACTORS, LAMBDA a : Do(a[1], "ClaimMetaFranchise", <<>>))
              \o << Do(Boss, "SetCourtDesc", <<"meta">>) >>

(***************************************************************************)
(* The file: the guards on the table, then the program it writes.          *)
(***************************************************************************)
Sound(docket) ==
    /\ \A i \in DOMAIN docket : /\ Lively(docket[i])
                                /\ Covered(docket[i])
                                /\ ThreeBuckets(docket[i])
                                /\ ShapeFitsArc(docket[i])
    /\ CommitmentsFit(docket)
    /\ WithinHourlyWindow(docket)

CovidDemo(docket, end) ==
    LET d     == Numbered(docket)
        paths == SetPaths(docket)
    IN  IF ~Sound(docket) \/ PastEnd(d, end) \/ \E i \in DOMAIN UPVOTERS : ~HasWon(d, UPVOTERS[i])
        THEN << <<"raise">> >>
        ELSE Room \o Purchases \o Filing(paths) \o Timeline(d, Len(paths), end)
             \o Graph(d, paths) \o Collections(d) \o Passes(d) \o Boards(d)
             \o Pending(paths) \o WhatItBuilt(paths) \o Franchises
=============================================================================
