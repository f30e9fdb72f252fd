-------------------------- MODULE VoteLedgerProofs --------------------------
(***************************************************************************)
(* For every set of addresses, supply cap, epoch length and page size: the *)
(* ledger's state is typed, its series stay in order, no write meets a     *)
(* panic of SetAt, and what an address could vote with at a sealed epoch   *)
(* never changes.  A call threads its votes and the archive through        *)
(* several writes (a "book"), so the argument is: each write of the book,  *)
(* and the write of the supply, keeps the book good and its past.          *)
(* The last part is about the store those series live in, used alone.      *)
(***************************************************************************)
EXTENDS VoteLedger, CheckpointStore, SharedLemmas

(* A book and a supply series whose reads can be trusted at this epoch.    *)
Good(book, sup) ==
  /\ book.votes \in [Addr -> SeriesRecords]
  /\ sup \in SeriesRecords
  /\ IsArchive(book.archive, Keys)
  /\ \A a \in Addr : /\ book.votes[a].e0 <= Epoch
                     /\ WellShaped(book.archive, a, book.votes[a])
  /\ sup.e0 <= Epoch /\ WellShaped(book.archive, SupplyKey, sup)

(* Two books answer alike for every epoch before the present one.          *)
SamePast(b, s, c, t) ==
  \A at \in Nat : at < Epoch =>
    /\ \A a \in Addr : ValueAt(c.archive, a, c.votes[a], at) =
                       ValueAt(b.archive, a, b.votes[a], at)
    /\ ValueAt(c.archive, SupplyKey, t, at) = ValueAt(b.archive, SupplyKey, s, at)

LEMMA EpochPositive ==
  ASSUME TypeOK PROVE Epoch \in Nat /\ Epoch # 0
<1>1. height \in Nat /\ EpochBlocks \in Nat \ {0}
  BY LedgerAssumption DEF TypeOK
<1>2. height \div EpochBlocks \in Nat
  BY <1>1
<1> QED BY <1>2 DEF Epoch

LEMMA SamePastTransitive ==
  ASSUME NEW b, NEW s, NEW c, NEW t, NEW d, NEW u,
         SamePast(b, s, c, t), SamePast(c, t, d, u)
  PROVE  SamePast(b, s, d, u)
  BY DEF SamePast

(* One addVotes keeps the book good and its past.                          *)
LEMMA AddVotesGood ==
  ASSUME TypeOK, NEW book, NEW sup, Good(book, sup),
         NEW who \in Addr, NEW delta \in Int
  PROVE  LET c == AddVotes(book, who, delta)
         IN  Good(c, sup) /\ SamePast(book, sup, c, sup)
<1>1. CASE delta = 0
  <2>1. AddVotes(book, who, delta) = book
    BY <1>1 DEF AddVotes
  <2> QED BY <2>1 DEF SamePast
<1>2. CASE delta # 0
  <2> DEFINE s == book.votes[who]
             c == AddVotes(book, who, delta)
             t == SeriesAfterSetAt(s, Epoch, s.cur + delta)
             after == ArchiveAfterSetAt(book.archive, who, s, Epoch)
  <2>1. c = [votes |-> [book.votes EXCEPT ![who] = t], archive |-> after]
    BY <1>2 DEF AddVotes
  <2>2. /\ who \in Keys /\ SupplyKey \in Keys /\ who # SupplyKey
        /\ \A a \in Addr : a \in Keys
    BY LedgerAssumption DEF Keys
  <2>3. /\ s \in SeriesRecords /\ s.e0 <= Epoch /\ WellShaped(book.archive, who, s)
        /\ IsArchive(book.archive, Keys)
        /\ Epoch \in Nat /\ Epoch # 0
    BY EpochPositive DEF Good
  <2>4. MaySetAt(s, Epoch) /\ s.cur + delta \in Int
    BY <2>3 DEF MaySetAt, SeriesRecords
  <2>5. /\ t \in SeriesRecords /\ t.e0 = Epoch
        /\ IsArchive(after, Keys)
        /\ WellShaped(after, who, t)
        /\ \A at \in Nat : ValueAt(after, who, t, at) =
              IF at >= Epoch THEN s.cur + delta ELSE ValueAt(book.archive, who, s, at)
    BY <2>2, <2>3, <2>4, SetAtReads
  <2>6. ASSUME NEW key \in Keys, key # who
        PROVE  /\ \A at \in Nat : \A u :
                    ValueAt(after, key, u, at) = ValueAt(book.archive, key, u, at)
               /\ \A u : WellShaped(book.archive, key, u) => WellShaped(after, key, u)
    BY <2>2, <2>3, <2>5, <2>6, SetAtElsewhere
  <2> HIDE DEF s, t, after, c
  <2>7. /\ c.votes \in [Addr -> SeriesRecords]
        /\ c.archive = after
        /\ c.votes[who] = t
        /\ \A a \in Addr \ {who} : c.votes[a] = book.votes[a]
    BY <2>1, <2>5 DEF Good
  <2>8. Good(c, sup)
    <3>1. ASSUME NEW a \in Addr
          PROVE  c.votes[a].e0 <= Epoch /\ WellShaped(c.archive, a, c.votes[a])
      <4>1. CASE a = who
        BY <4>1, <2>3, <2>5, <2>7
      <4>2. CASE a # who
        BY <4>2, <2>2, <2>6, <2>7 DEF Good
      <4> QED BY <4>1, <4>2
    <3>2. WellShaped(c.archive, SupplyKey, sup)
      BY <2>2, <2>6, <2>7 DEF Good
    <3> QED BY <2>5, <2>7, <3>1, <3>2 DEF Good
  <2>9. SamePast(book, sup, c, sup)
    <3>1. ASSUME NEW at \in Nat, at < Epoch, NEW a \in Addr
          PROVE  ValueAt(c.archive, a, c.votes[a], at) =
                 ValueAt(book.archive, a, book.votes[a], at)
      <4>1. CASE a = who
        <5>1. ~ (at >= Epoch)
          BY <2>3, <3>1
        <5> QED BY <4>1, <5>1, <2>5, <2>7, <3>1 DEF s
      <4>2. CASE a # who
        BY <4>2, <2>2, <2>6, <2>7, <3>1
      <4> QED BY <4>1, <4>2
    <3>2. ASSUME NEW at \in Nat
          PROVE  ValueAt(c.archive, SupplyKey, sup, at) =
                 ValueAt(book.archive, SupplyKey, sup, at)
      BY <2>2, <2>6, <2>7
    <3> QED BY <3>1, <3>2 DEF SamePast
  <2> QED BY <2>8, <2>9 DEF c
<1> QED BY <1>1, <1>2

(* So does writing the supply.                                             *)
LEMMA SupplyGood ==
  ASSUME TypeOK, NEW book, Good(book, supply), NEW v \in Int
  PROVE  LET c == RollSupply(book)
             t == SeriesAfterSetAt(supply, Epoch, v)
         IN  Good(c, t) /\ SamePast(book, supply, c, t)
<1> DEFINE t == SeriesAfterSetAt(supply, Epoch, v)
           c == RollSupply(book)
           after == ArchiveAfterSetAt(book.archive, SupplyKey, supply, Epoch)
<1>1. /\ SupplyKey \in Keys
      /\ \A a \in Addr : a \in Keys /\ a # SupplyKey
  BY LedgerAssumption DEF Keys
<1>2. /\ supply \in SeriesRecords /\ supply.e0 <= Epoch
      /\ WellShaped(book.archive, SupplyKey, supply)
      /\ IsArchive(book.archive, Keys)
      /\ Epoch \in Nat /\ Epoch # 0
  BY EpochPositive DEF Good
<1>3. MaySetAt(supply, Epoch)
  BY <1>2 DEF MaySetAt, SeriesRecords
<1>4. /\ t \in SeriesRecords /\ t.e0 = Epoch
      /\ IsArchive(after, Keys)
      /\ WellShaped(after, SupplyKey, t)
      /\ \A at \in Nat : ValueAt(after, SupplyKey, t, at) =
            IF at >= Epoch THEN v ELSE ValueAt(book.archive, SupplyKey, supply, at)
  BY <1>1, <1>2, <1>3, SetAtReads
<1>5. ASSUME NEW a \in Addr
      PROVE  /\ \A at \in Nat : \A u :
                  ValueAt(after, a, u, at) = ValueAt(book.archive, a, u, at)
             /\ \A u : WellShaped(book.archive, a, u) => WellShaped(after, a, u)
  BY <1>1, <1>2, <1>4, SetAtElsewhere
<1>6. c = [votes |-> book.votes, archive |-> after]
  BY DEF RollSupply
<1> HIDE DEF t, after, c
<1>7. c.votes = book.votes /\ c.archive = after
  BY <1>6
<1>8. Good(c, t)
  BY <1>2, <1>4, <1>5, <1>7 DEF Good
<1>9. SamePast(book, supply, c, t)
  <2>1. ASSUME NEW at \in Nat, at < Epoch
        PROVE  ValueAt(after, SupplyKey, t, at) = ValueAt(book.archive, SupplyKey, supply, at)
    BY <1>2, <1>4, <2>1
  <2> QED BY <1>5, <1>7, <2>1 DEF SamePast
<1> QED BY <1>8, <1>9 DEF c, t

-----------------------------------------------------------------------------
IInv == TypeOK /\ SeriesInOrder

LEMMA BookIsGood == ASSUME IInv PROVE Good(Book, supply)
  BY DEF IInv, TypeOK, SeriesInOrder, Good, Book

(* A step of a call at one height: the votes, the archive and the supply   *)
(* stay good and the past reads the same.                                  *)
CallKeeps == /\ height' = height
             /\ Good([votes |-> votes', archive |-> archive'], supply')
             /\ SamePast(Book, supply, [votes |-> votes', archive |-> archive'], supply')

LEMMA ReweighKeeps ==
  ASSUME TypeOK, NEW book, NEW sup, Good(book, sup),
         NEW w1 \in Addr, NEW d1 \in Int, NEW w2 \in Addr, NEW d2 \in Int,
         Reweigh(book, w1, d1, w2, d2)
  PROVE  /\ Good([votes |-> votes', archive |-> archive'], sup)
         /\ SamePast(book, sup, [votes |-> votes', archive |-> archive'], sup)
<1> DEFINE b1 == AddVotes(book, w1, d1)
           b2 == AddVotes(b1, w2, d2)
<1>1. Good(b1, sup) /\ SamePast(book, sup, b1, sup)
  BY AddVotesGood
<1> HIDE DEF b1
<1>2. Good(b2, sup) /\ SamePast(b1, sup, b2, sup)
  BY <1>1, AddVotesGood
<1>3. votes' = b2.votes /\ archive' = b2.archive
  BY DEF Reweigh, b1
<1> HIDE DEF b2
<1>4. SamePast(book, sup, b2, sup)
  BY <1>1, <1>2, SamePastTransitive
<1> QED BY <1>2, <1>3, <1>4 DEF Good, SamePast

LEMMA MintKeeps ==
  ASSUME IInv, NEW to \in Addr, NEW amount \in Amounts, Mint(to, amount)
  PROVE  CallKeeps
<1>1. /\ amount \in Int /\ total + amount \in Int /\ delegate[to] \in Addr /\ TypeOK
      /\ supply' = SeriesAfterSetAt(supply, Epoch, total + amount)
      /\ height' = height
      /\ Reweigh(RollSupply(Book), delegate[to], amount, delegate[to], 0)
  BY LedgerAssumption DEF IInv, TypeOK, Mint
<1>2. /\ Good(RollSupply(Book), supply')
      /\ SamePast(Book, supply, RollSupply(Book), supply')
  BY <1>1, BookIsGood, SupplyGood
<1>3. /\ Good([votes |-> votes', archive |-> archive'], supply')
      /\ SamePast(RollSupply(Book), supply', [votes |-> votes', archive |-> archive'], supply')
  BY <1>1, <1>2, ReweighKeeps
<1> QED BY <1>1, <1>2, <1>3, SamePastTransitive DEF CallKeeps

LEMMA BurnKeeps ==
  ASSUME IInv, NEW from \in Addr, NEW amount \in Amounts, Burn(from, amount)
  PROVE  CallKeeps
<1> DEFINE b == AddVotes(Book, delegate[from], -amount)
           c == RollSupply(b)
<1>1. /\ -amount \in Int /\ total - amount \in Int /\ delegate[from] \in Addr /\ TypeOK
      /\ supply' = SeriesAfterSetAt(supply, Epoch, total - amount)
      /\ height' = height
      /\ votes' = b.votes /\ archive' = c.archive
  BY LedgerAssumption DEF IInv, TypeOK, Burn
<1>2. Good(b, supply) /\ SamePast(Book, supply, b, supply)
  BY <1>1, BookIsGood, AddVotesGood
<1> HIDE DEF b
<1>3. Good(c, supply') /\ SamePast(b, supply, c, supply')
  BY <1>1, <1>2, SupplyGood
<1>4. SamePast(Book, supply, c, supply')
  BY <1>2, <1>3, SamePastTransitive
<1>5. c.votes = votes' /\ c.archive = archive'
  BY <1>1 DEF RollSupply
<1> HIDE DEF c
<1> QED BY <1>1, <1>3, <1>4, <1>5 DEF CallKeeps, Good, SamePast

LEMMA MoveKeeps ==
  ASSUME IInv, NEW from \in Addr, NEW to \in Addr, NEW amount \in Amounts,
         Move(from, to, amount)
  PROVE  CallKeeps
<1>1. /\ amount \in Int /\ -amount \in Int /\ TypeOK
      /\ delegate[from] \in Addr /\ delegate[to] \in Addr
      /\ supply' = supply /\ height' = height
      /\ Reweigh(Book, delegate[from], -amount, delegate[to], amount)
  BY LedgerAssumption DEF IInv, TypeOK, Move
<1> QED BY <1>1, BookIsGood, ReweighKeeps DEF CallKeeps

LEMMA DelegateKeeps ==
  ASSUME IInv, NEW from \in Addr, NEW to \in Addr, Delegate(from, to)
  PROVE  CallKeeps
<1>1. /\ balance[from] \in Int /\ -balance[from] \in Int /\ TypeOK
      /\ delegate[from] \in Addr
      /\ supply' = supply /\ height' = height
      /\ Reweigh(Book, delegate[from], -balance[from], to, balance[from])
  BY DEF IInv, TypeOK, Delegate
<1> QED BY <1>1, BookIsGood, ReweighKeeps DEF CallKeeps

(* What remains of TypeOK after a step that keeps the series.              *)
LEMMA CallInvariant ==
  ASSUME IInv, CallKeeps,
         balance' \in [Addr -> Nat], delegate' \in [Addr -> Addr],
         allowance' \in [Addr \X Addr -> Nat], total' \in Int, total' <= MaxSupply
  PROVE  IInv'
<1>1. height' = height /\ Good([votes |-> votes', archive |-> archive'], supply')
  BY DEF CallKeeps
<1>2. Epoch' = Epoch
  BY <1>1 DEF Epoch
<1>3. TypeOK'
  BY <1>1 DEF TypeOK, Good, IInv
<1>4. SeriesInOrder'
  BY <1>1, <1>2 DEF SeriesInOrder, Good
<1> QED BY <1>3, <1>4 DEF IInv

-----------------------------------------------------------------------------
LEMMA InitHolds == Init => IInv
<1> SUFFICES ASSUME Init PROVE IInv
  OBVIOUS
<1>1. DOMAIN archive = {} /\ archive = [pk \in DOMAIN archive |-> archive[pk]]
  BY DEF Init, EmptyArchive
<1>2. TypeOK
  BY <1>1, LedgerAssumption DEF Init, TypeOK, NewSeries, SeriesRecords, IsArchive
<1>3. Epoch \in Nat
  BY <1>2, EpochPositive
<1>4. SeriesInOrder
  <2>1. \A key : WellShaped(archive, key, NewSeries)
    BY <1>1 DEF WellShaped, InlineOrder, PagesOrder, ArchivedBefore
  <2> QED BY <1>3, <2>1 DEF Init, SeriesInOrder, NewSeries
<1> QED BY <1>2, <1>4 DEF IInv

(* Every step is a tick, an approval, or a call that keeps the series.     *)
LEMMA StepCases ==
  ASSUME IInv, Next
  PROVE  /\ IInv'
         /\ \/ Tick
            \/ UNCHANGED <<height, votes, supply, archive>>
            \/ CallKeeps
<1>1. ASSUME Tick
      PROVE  IInv'
  <2>1. /\ height \in Nat /\ height' \in Nat /\ height' = height + 1
        /\ UNCHANGED <<votes, supply, archive>>
    BY <1>1 DEF Tick, IInv, TypeOK
  <2>2. TypeOK'
    BY <1>1, <2>1 DEF Tick, IInv, TypeOK
  <2>3. Epoch <= Epoch' /\ Epoch \in Nat /\ Epoch' \in Nat
    <3>1. height \div EpochBlocks \in Nat /\ height' \div EpochBlocks \in Nat
      BY <2>1, LedgerAssumption
    <3>2. height \div EpochBlocks <= height' \div EpochBlocks
      BY <2>1, LedgerAssumption
    <3> QED BY <3>1, <3>2 DEF Epoch
  <2>4. /\ \A a \in Addr : votes[a].e0 \in Nat
        /\ supply.e0 \in Nat
    BY DEF IInv, TypeOK, SeriesRecords
  <2>5. SeriesInOrder'
    BY <2>1, <2>3, <2>4 DEF IInv, SeriesInOrder
  <2> QED BY <2>1, <2>2, <2>5 DEF IInv
<1>2. ASSUME NEW a \in Addr, NEW n \in Amounts, Mint(a, n)
      PROVE  IInv' /\ CallKeeps
  <2>1. /\ balance' \in [Addr -> Nat] /\ delegate' \in [Addr -> Addr]
        /\ allowance' \in [Addr \X Addr -> Nat]
        /\ total' \in Int /\ total' <= MaxSupply
    BY <1>2, LedgerAssumption DEF Mint, IInv, TypeOK
  <2> QED BY <1>2, <2>1, MintKeeps, CallInvariant
<1>3. ASSUME NEW a \in Addr, NEW n \in Amounts, Burn(a, n)
      PROVE  IInv' /\ CallKeeps
  <2>1. /\ n \in Nat /\ balance[a] \in Nat /\ balance[a] - n \in Nat
        /\ total \in Int /\ total <= MaxSupply /\ MaxSupply \in Nat
    BY <1>3, LedgerAssumption DEF Burn, IInv, TypeOK
  <2>2. /\ balance' \in [Addr -> Nat] /\ delegate' \in [Addr -> Addr]
        /\ allowance' \in [Addr \X Addr -> Nat]
        /\ total' \in Int /\ total' <= MaxSupply
    BY <1>3, <2>1 DEF Burn, IInv, TypeOK
  <2> QED BY <1>3, <2>2, BurnKeeps, CallInvariant
<1>4. ASSUME NEW a \in Addr, NEW b \in Addr, NEW n \in Amounts, Move(a, b, n),
             allowance' \in [Addr \X Addr -> Nat]
      PROVE  IInv' /\ CallKeeps
  <2>1. n \in Nat /\ balance[a] \in Nat /\ balance[a] - n \in Nat
    BY <1>4, LedgerAssumption DEF Move, IInv, TypeOK
  <2>2. /\ balance' \in [Addr -> Nat] /\ delegate' \in [Addr -> Addr]
        /\ total' \in Int /\ total' <= MaxSupply
    BY <1>4, <2>1 DEF Move, IInv, TypeOK
  <2> QED BY <1>4, <2>2, MoveKeeps, CallInvariant
<1>5. ASSUME NEW a \in Addr, NEW b \in Addr, NEW n \in Approvals, Approve(a, b, n)
      PROVE  IInv' /\ UNCHANGED <<height, votes, supply, archive>>
  <2>1. TypeOK'
    BY <1>5, LedgerAssumption DEF Approve, IInv, TypeOK
  <2>2. SeriesInOrder'
    BY <1>5 DEF Approve, IInv, SeriesInOrder, Epoch
  <2> QED BY <1>5, <2>1, <2>2 DEF Approve, IInv, TypeOK
<1>6. ASSUME NEW s \in Addr, NEW a \in Addr, NEW b \in Addr, NEW n \in Amounts,
             TransferFrom(s, a, b, n)
      PROVE  IInv' /\ CallKeeps
  <2>1. /\ n \in Nat /\ <<a, s>> \in Addr \X Addr
        /\ allowance[<<a, s>>] \in Nat /\ allowance[<<a, s>>] - n \in Nat
    BY <1>6, LedgerAssumption DEF TransferFrom, IInv, TypeOK
  <2>2. allowance' \in [Addr \X Addr -> Nat] /\ Move(a, b, n)
    BY <1>6, <2>1 DEF TransferFrom, IInv, TypeOK
  <2> QED BY <2>2, <1>4
<1>7. ASSUME NEW a \in Addr, NEW b \in Addr, NEW n \in Amounts, Transfer(a, b, n)
      PROVE  IInv' /\ CallKeeps
  BY <1>4, <1>7 DEF Transfer, IInv, TypeOK
<1>8. ASSUME NEW a \in Addr, NEW b \in Addr, Delegate(a, b)
      PROVE  IInv' /\ CallKeeps
  <2>1. /\ balance' \in [Addr -> Nat] /\ delegate' \in [Addr -> Addr]
        /\ allowance' \in [Addr \X Addr -> Nat]
        /\ total' \in Int /\ total' <= MaxSupply
    BY <1>8 DEF Delegate, IInv, TypeOK
  <2> QED BY <1>8, <2>1, DelegateKeeps, CallInvariant
<1> QED BY <1>1, <1>2, <1>3, <1>5, <1>6, <1>7, <1>8 DEF Next

LEMMA StepHolds == IInv /\ [Next]_vars => IInv'
<1> SUFFICES ASSUME IInv, [Next]_vars PROVE IInv'
  OBVIOUS
<1>1. CASE Next
  BY <1>1, StepCases
<1>2. CASE UNCHANGED vars
  BY <1>2 DEF vars, IInv, TypeOK, SeriesInOrder, Epoch
<1> QED BY <1>1, <1>2

(* Balances, delegations and series are typed; every series is in order    *)
(* and in the past, so no mint, burn, transfer or delegation can meet a    *)
(* panic of SetAt (grc20votes.gno, addVotes and the supply's SetAt).       *)
THEOREM LedgerInvariant == Spec => [](TypeOK /\ SeriesInOrder)
<1>1. Init => IInv
  BY InitHolds
<1>2. IInv /\ [Next]_vars => IInv'
  BY StepHolds
<1>3. IInv => TypeOK /\ SeriesInOrder
  BY DEF IInv
<1> QED BY <1>1, <1>2, <1>3, PTL DEF Spec

(* What an address could vote with, and the supply, at a sealed epoch      *)
(* never change, whatever is minted, burned, moved or delegated later.     *)
THEOREM LedgerSealed == Spec => SealedVotesKeep
<1>1. Init => IInv
  BY InitHolds
<1>2. IInv /\ [Next]_vars => IInv'
  BY StepHolds
<1>3. IInv /\ [Next]_vars =>
        [\A at \in 1 .. Epoch - 1 :
           /\ \A a \in Addr : PastVotes(a, at)' = PastVotes(a, at)
           /\ PastTotal(at)' = PastTotal(at)]_vars
  <2> SUFFICES ASSUME IInv, Next, NEW at \in 1 .. Epoch - 1
               PROVE  /\ \A a \in Addr : PastVotes(a, at)' = PastVotes(a, at)
                      /\ PastTotal(at)' = PastTotal(at)
    BY DEF vars
  <2>1. at \in Nat /\ at < Epoch
    BY EpochPositive DEF IInv
  <2>2. CASE Tick \/ UNCHANGED <<height, votes, supply, archive>>
    BY <2>2 DEF Tick, PastVotes, PastTotal
  <2>3. CASE CallKeeps
    BY <2>1, <2>3 DEF CallKeeps, SamePast, PastVotes, PastTotal, Book
  <2> QED BY <2>2, <2>3, StepCases
<1> QED BY <1>1, <1>2, <1>3, PTL DEF Spec, SealedVotesKeep

-----------------------------------------------------------------------------
(* What an address may vote with is the balances delegated to it.  Said of *)
(* any books, balances and delegations, because a call is half done        *)
(* between its writes.                                                     *)
Backing(del, w) == {a \in Addr : del[a] = w}

Backed(weighed, bal, del) ==
  \A w \in Addr : weighed[w].cur = SumOf(bal, Backing(del, w))

LEMMA SumOfIs == ASSUME NEW f, NEW S PROVE SumOf(f, S) = SumFunctionOnSet(f, S)
  BY DEF SumOf, SumFunctionOnSet

LEMMA BackingFinite ==
  ASSUME NEW del, NEW w PROVE Backing(del, w) \subseteq Addr /\ IsFiniteSet(Backing(del, w))
  BY LedgerAssumption, FS_Subset DEF Backing

(* One entry changes by d.                                                 *)
Recounted(v1, v2, who, d) ==
  /\ v2[who].cur = v1[who].cur + d
  /\ \A a \in Addr : a # who => v2[a].cur = v1[a].cur

(* The balance of a changes, and with it the votes it backs.               *)
Shifted(v1, v2, bal, new, del, a) ==
  /\ v1 \in [Addr -> SeriesRecords] /\ bal \in [Addr -> Int] /\ new \in [Addr -> Int]
  /\ del \in [Addr -> Addr] /\ a \in Addr
  /\ Recounted(v1, v2, del[a], new[a] - bal[a])
  /\ \A b \in Addr : b # a => new[b] = bal[b]

(* addVotes leaves the sum it is given in the newest point.                *)
LEMMA AddVotesCur ==
  ASSUME NEW book, book.votes \in [Addr -> SeriesRecords], NEW who \in Addr, NEW delta \in Int
  PROVE  Recounted(book.votes, AddVotes(book, who, delta).votes, who, delta)
<1> DEFINE s == book.votes[who]
           t == SeriesAfterSetAt(s, Epoch, s.cur + delta)
<1>1. s \in SeriesRecords /\ s.cur \in Int
  BY DEF SeriesRecords
<1>2. CASE delta = 0
  <2>1. AddVotes(book, who, delta) = book /\ s.cur + delta = s.cur
    BY <1>1, <1>2 DEF AddVotes
  <2> QED BY <2>1 DEF Recounted
<1>3. CASE delta # 0
  <2>1. t.cur = s.cur + delta
    BY <1>1 DEF SeriesAfterSetAt, SeriesRecords
  <2>2. AddVotes(book, who, delta).votes = [book.votes EXCEPT ![who] = t]
    BY <1>3 DEF AddVotes
  <2> QED BY <2>1, <2>2 DEF Recounted
<1> QED BY <1>2, <1>3

(* A balance and the votes it backs change by the same amount.             *)
LEMMA BackedCredit ==
  ASSUME NEW v1, NEW v2, NEW bal, NEW new, NEW del, NEW a,
         Shifted(v1, v2, bal, new, del, a), Backed(v1, bal, del)
  PROVE  /\ Backed(v2, new, del)
         /\ SumOf(new, Addr) = SumOf(bal, Addr) + (new[a] - bal[a])
<1> DEFINE d == new[a] - bal[a]
<1>0. /\ v1 \in [Addr -> SeriesRecords] /\ bal \in [Addr -> Int] /\ new \in [Addr -> Int]
      /\ a \in Addr /\ d \in Int /\ new[a] = bal[a] + d /\ bal[a] \in Int
      /\ Recounted(v1, v2, del[a], d)
      /\ \A b \in Addr : b # a => new[b] = bal[b]
  BY DEF Shifted
<1> HIDE DEF d
<1>1. ASSUME NEW S \in SUBSET Addr, IsFiniteSet(S)
      PROVE  SumFunctionOnSet(new, S) = SumFunctionOnSet(bal, S) + (IF a \in S THEN d ELSE 0)
  <2>1. Integral(bal, S) /\ Integral(new, S)
    BY <1>0 DEF Integral
  <2>2. SumFunctionOnSet(bal, S) \in Int /\ bal[a] \in Int
    BY <1>0, <1>1, <2>1, SumIsInt
  <2>3. CASE a \in S
    <3>1. SumFunctionOnSet(new, S) = SumFunctionOnSet(bal, S) - bal[a] + new[a]
      BY <1>0, <1>1, <2>1, <2>3, SumUpdate
    <3> QED BY <1>0, <2>2, <2>3, <3>1
  <2>4. CASE a \notin S
    <3>1. SumFunctionOnSet(bal, S) = SumFunctionOnSet(new, S)
      BY <1>0, <1>1, <2>4, SumAgrees
    <3> QED BY <2>2, <2>4, <3>1
  <2> QED BY <2>3, <2>4
<1>2. ASSUME NEW w \in Addr
      PROVE  v2[w].cur = SumOf(new, Backing(del, w))
  <2>1. SumOf(new, Backing(del, w)) =
          SumOf(bal, Backing(del, w)) + (IF a \in Backing(del, w) THEN d ELSE 0)
    BY <1>1, BackingFinite, SumOfIs
  <2>2. a \in Backing(del, w) <=> del[a] = w
    BY <1>0 DEF Backing
  <2>3. v1[w].cur = SumOf(bal, Backing(del, w)) /\ v1[w].cur \in Int
    BY <1>0 DEF Backed, SeriesRecords
  <2> QED BY <1>0, <2>1, <2>2, <2>3 DEF Recounted
<1>3. SumOf(new, Addr) = SumOf(bal, Addr) + d
  <2>1. Addr \in SUBSET Addr /\ IsFiniteSet(Addr) /\ a \in Addr
    BY <1>0, LedgerAssumption
  <2>2. SumFunctionOnSet(new, Addr) = SumFunctionOnSet(bal, Addr) + (IF a \in Addr THEN d ELSE 0)
    BY <1>1, <2>1
  <2> QED BY <2>1, <2>2, SumOfIs
<1> QED BY <1>2, <1>3 DEF Backed, d

(* A delegation takes a whole balance from one address to another.         *)
LEMMA BackedRedelegate ==
  ASSUME NEW v1 \in [Addr -> SeriesRecords], NEW v2, NEW v3,
         NEW bal \in [Addr -> Int], NEW del \in [Addr -> Addr],
         NEW a \in Addr, NEW to \in Addr, del[a] # to, Backed(v1, bal, del),
         Recounted(v1, v2, del[a], -bal[a]), Recounted(v2, v3, to, bal[a])
  PROVE  Backed(v3, bal, [del EXCEPT ![a] = to])
<1> DEFINE new == [del EXCEPT ![a] = to]
<1>0. bal[a] \in Int /\ -bal[a] \in Int /\ del[a] \in Addr
  OBVIOUS
<1>1. ASSUME NEW w \in Addr PROVE v3[w].cur = SumOf(bal, Backing(new, w))
  <2> DEFINE A == Backing(del, w)
             B == Backing(new, w)
  <2>0. /\ IsFiniteSet(A) /\ Integral(bal, A)
        /\ IsFiniteSet(B) /\ Integral(bal, B)
    BY BackingFinite DEF Integral
  <2>1. v1[w].cur = SumFunctionOnSet(bal, A) /\ v1[w].cur \in Int
    BY SumOfIs DEF Backed, SeriesRecords
  <2>2. CASE w = del[a]
    <3>1. B = A \ {a} /\ a \in A
      BY <2>2 DEF Backing
    <3> HIDE DEF A, B
    <3>2. SumFunctionOnSet(bal, A) = bal[a] + SumFunctionOnSet(bal, B)
      BY <2>0, <3>1, SumRemove
    <3>3. SumFunctionOnSet(bal, B) \in Int
      BY <2>0, SumIsInt
    <3>4. v3[w].cur = v1[w].cur + (-bal[a])
      BY <2>2 DEF Recounted
    <3>5. v3[w].cur = SumFunctionOnSet(bal, B)
      BY <1>0, <2>1, <3>2, <3>3, <3>4
    <3> QED BY <3>5, SumOfIs DEF B
  <2>3. CASE w = to
    <3>1. B = A \cup {a} /\ a \notin A
      BY <2>3 DEF Backing
    <3> HIDE DEF A, B
    <3>2. SumFunctionOnSet(bal, B) = bal[a] + SumFunctionOnSet(bal, A)
      BY <2>0, <3>1, SumAdd
    <3>3. v3[w].cur = v1[w].cur + bal[a]
      BY <2>3 DEF Recounted
    <3>4. v3[w].cur = SumFunctionOnSet(bal, B)
      BY <1>0, <2>1, <3>2, <3>3
    <3> QED BY <3>4, SumOfIs DEF B
  <2>4. CASE w # del[a] /\ w # to
    <3>1. B = A
      BY <2>4 DEF Backing
    <3>2. v3[w].cur = v1[w].cur
      BY <2>4 DEF Recounted
    <3> QED BY <2>1, <3>1, <3>2, SumOfIs
  <2> QED BY <2>2, <2>3, <2>4
<1> QED BY <1>1 DEF Backed

-----------------------------------------------------------------------------
(* The inductive invariant: what the votes are the sum of.                 *)
VInv == IInv /\ VotesFollowBalances

LEMMA VotesFollowIs ==
  VotesFollowBalances <=> /\ Backed(votes, balance, delegate)
                          /\ total = SumOf(balance, Addr) /\ supply.cur = total
  BY DEF VotesFollowBalances, Backed, Backing

LEMMA VotesFollowNext ==
  ASSUME Backed(votes', balance', delegate'), total' = SumOf(balance', Addr),
         supply'.cur = total'
  PROVE  VotesFollowBalances'
  BY DEF VotesFollowBalances, Backed, Backing

(* What the votes and the supply are after the writes of a call.           *)
LEMMA NewestPoint ==
  ASSUME IInv, NEW v \in Int PROVE SeriesAfterSetAt(supply, Epoch, v).cur = v
<1>1. supply \in SeriesRecords
  BY DEF IInv, TypeOK
<1> QED BY <1>1 DEF SeriesAfterSetAt, SeriesRecords

LEMMA BooksOfACall ==
  ASSUME IInv
  PROVE  /\ Book.votes = votes /\ RollSupply(Book).votes = votes
         /\ votes \in [Addr -> SeriesRecords]
         /\ balance \in [Addr -> Int] /\ delegate \in [Addr -> Addr]
         /\ \A n \in Amounts : n \in Int /\ -n \in Int
<1>1. balance \in [Addr -> Int]
  BY DEF IInv, TypeOK
<1> QED BY <1>1, LedgerAssumption DEF IInv, TypeOK, Book, RollSupply

(* Minting credits one balance, its delegate and the supply.               *)
LEMMA MintFollows ==
  ASSUME VInv, NEW to \in Addr, NEW n \in Amounts, Mint(to, n)
  PROVE  VotesFollowBalances'
<1>1. IInv /\ Backed(votes, balance, delegate) /\ total = SumOf(balance, Addr)
  BY VotesFollowIs DEF VInv
<1>2. /\ RollSupply(Book).votes = votes /\ votes \in [Addr -> SeriesRecords] /\ n \in Int
      /\ balance \in [Addr -> Int] /\ delegate \in [Addr -> Addr]
  BY <1>1, BooksOfACall
<1>3. /\ total' = total + n /\ supply' = SeriesAfterSetAt(supply, Epoch, total + n)
      /\ balance' = [balance EXCEPT ![to] = @ + n] /\ delegate' = delegate
      /\ votes' = AddVotes(RollSupply(Book), delegate[to], n).votes
  BY DEF Mint, Reweigh, AddVotes
<1>4. Recounted(votes, votes', delegate[to], n)
  BY <1>2, <1>3, AddVotesCur
<1>5. /\ balance' \in [Addr -> Int] /\ balance'[to] - balance[to] = n
      /\ \A a \in Addr : a # to => balance'[a] = balance[a]
  BY <1>2, <1>3
<1>6. Backed(votes', balance', delegate) /\ SumOf(balance', Addr) = SumOf(balance, Addr) + n
  <2>1. Shifted(votes, votes', balance, balance', delegate, to)
    BY <1>2, <1>4, <1>5 DEF Shifted
  <2> QED BY <1>1, <1>5, <2>1, BackedCredit
<1>7. total + n \in Int
  BY <1>1, <1>2 DEF IInv, TypeOK
<1>8. supply'.cur = total'
  BY <1>1, <1>3, <1>7, NewestPoint
<1> QED BY <1>1, <1>3, <1>6, <1>8, VotesFollowNext

(* Burning takes the same from all three.                                  *)
LEMMA BurnFollows ==
  ASSUME VInv, NEW from \in Addr, NEW n \in Amounts, Burn(from, n)
  PROVE  VotesFollowBalances'
<1>1. IInv /\ Backed(votes, balance, delegate) /\ total = SumOf(balance, Addr)
  BY VotesFollowIs DEF VInv
<1>2. /\ Book.votes = votes /\ votes \in [Addr -> SeriesRecords] /\ n \in Int /\ -n \in Int
      /\ balance \in [Addr -> Int] /\ delegate \in [Addr -> Addr]
  BY <1>1, BooksOfACall
<1>3. /\ total' = total - n /\ supply' = SeriesAfterSetAt(supply, Epoch, total - n)
      /\ balance' = [balance EXCEPT ![from] = @ - n] /\ delegate' = delegate
      /\ votes' = AddVotes(Book, delegate[from], -n).votes
  BY DEF Burn
<1>4. Recounted(votes, votes', delegate[from], -n)
  BY <1>2, <1>3, AddVotesCur
<1>5. /\ balance' \in [Addr -> Int] /\ balance'[from] - balance[from] = -n
      /\ \A a \in Addr : a # from => balance'[a] = balance[a]
  BY <1>2, <1>3
<1>6. Backed(votes', balance', delegate) /\ SumOf(balance', Addr) = SumOf(balance, Addr) + (-n)
  <2>1. Shifted(votes, votes', balance, balance', delegate, from)
    BY <1>2, <1>4, <1>5 DEF Shifted
  <2> QED BY <1>1, <1>5, <2>1, BackedCredit
<1>7. total \in Int /\ total - n \in Int /\ total + (-n) = total - n
  BY <1>1, <1>2 DEF IInv, TypeOK
<1>8. supply'.cur = total'
  BY <1>1, <1>3, <1>7, NewestPoint
<1> QED BY <1>1, <1>3, <1>6, <1>7, <1>8, VotesFollowNext

(* The first write of a call leaves a book the second can rely on.         *)
LEMMA HalfACall ==
  ASSUME IInv, NEW who \in Addr, NEW d \in Int
  PROVE  /\ AddVotes(Book, who, d).votes \in [Addr -> SeriesRecords]
         /\ Recounted(votes, AddVotes(Book, who, d).votes, who, d)
<1>1. TypeOK /\ Good(Book, supply) /\ Book.votes = votes /\ votes \in [Addr -> SeriesRecords]
  BY BookIsGood, BooksOfACall DEF IInv
<1>2. Good(AddVotes(Book, who, d), supply)
  BY <1>1, AddVotesGood
<1> QED BY <1>1, <1>2, AddVotesCur DEF Good

(* A move debits and then credits, also from an account to itself.         *)
LEMMA MoveFollows ==
  ASSUME VInv, NEW from \in Addr, NEW to \in Addr, NEW n \in Amounts, Move(from, to, n)
  PROVE  VotesFollowBalances'
<1> DEFINE c == AddVotes(Book, delegate[from], -n)
           d == AddVotes(c, delegate[to], n)
           mid == [balance EXCEPT ![from] = @ - n]
<1>1. /\ IInv /\ Backed(votes, balance, delegate) /\ total = SumOf(balance, Addr)
      /\ supply.cur = total
  BY VotesFollowIs DEF VInv
<1>2. /\ votes \in [Addr -> SeriesRecords] /\ n \in Int /\ -n \in Int
      /\ balance \in [Addr -> Int] /\ delegate \in [Addr -> Addr]
  BY <1>1, BooksOfACall
<1>3. /\ balance' = [mid EXCEPT ![to] = @ + n]
      /\ delegate' = delegate /\ total' = total /\ supply' = supply
      /\ votes' = d.votes
  BY DEF Move, Reweigh
<1>4. c.votes \in [Addr -> SeriesRecords] /\ Recounted(votes, c.votes, delegate[from], -n)
  BY <1>1, <1>2, HalfACall
<1>5. /\ mid \in [Addr -> Int] /\ mid[from] - balance[from] = -n
      /\ \A a \in Addr : a # from => mid[a] = balance[a]
  BY <1>2
<1>6. Recounted(c.votes, d.votes, delegate[to], n)
  BY <1>2, <1>4, AddVotesCur
<1> HIDE DEF c, d, mid
<1>7. /\ balance' \in [Addr -> Int] /\ balance'[to] - mid[to] = n
      /\ \A a \in Addr : a # to => balance'[a] = mid[a]
  BY <1>2, <1>3, <1>5
<1>8. Backed(c.votes, mid, delegate) /\ SumOf(mid, Addr) = SumOf(balance, Addr) + (-n)
  <2>1. Shifted(votes, c.votes, balance, mid, delegate, from)
    BY <1>2, <1>4, <1>5 DEF Shifted
  <2> QED BY <1>1, <1>5, <2>1, BackedCredit
<1>9. Backed(d.votes, balance', delegate) /\ SumOf(balance', Addr) = SumOf(mid, Addr) + n
  <2>1. Shifted(c.votes, d.votes, mid, balance', delegate, to)
    BY <1>2, <1>4, <1>5, <1>6, <1>7 DEF Shifted
  <2> QED BY <1>7, <1>8, <2>1, BackedCredit
<1>10. total = (total + (-n)) + n
  BY <1>1, <1>2 DEF IInv, TypeOK
<1>11. Backed(votes', balance', delegate') /\ total' = SumOf(balance', Addr)
  BY <1>1, <1>3, <1>8, <1>9, <1>10
<1> QED BY <1>1, <1>3, <1>11, VotesFollowNext

LEMMA DelegateFollows ==
  ASSUME VInv, NEW from \in Addr, NEW to \in Addr, Delegate(from, to)
  PROVE  VotesFollowBalances'
<1> DEFINE c == AddVotes(Book, delegate[from], -balance[from])
           d == AddVotes(c, to, balance[from])
<1>1. /\ IInv /\ Backed(votes, balance, delegate) /\ total = SumOf(balance, Addr)
      /\ supply.cur = total
  BY VotesFollowIs DEF VInv
<1>2. /\ votes \in [Addr -> SeriesRecords]
      /\ balance \in [Addr -> Int] /\ delegate \in [Addr -> Addr]
      /\ balance[from] \in Int /\ -balance[from] \in Int /\ delegate[from] \in Addr
  BY <1>1, BooksOfACall
<1>3. /\ delegate[from] # to /\ delegate' = [delegate EXCEPT ![from] = to]
      /\ balance' = balance /\ total' = total /\ supply' = supply
      /\ votes' = d.votes
  BY DEF Delegate, Reweigh
<1>4. /\ c.votes \in [Addr -> SeriesRecords]
      /\ Recounted(votes, c.votes, delegate[from], -balance[from])
  BY <1>1, <1>2, HalfACall
<1>5. Recounted(c.votes, d.votes, to, balance[from])
  BY <1>2, <1>4, AddVotesCur
<1> HIDE DEF c, d
<1>6. Backed(d.votes, balance, [delegate EXCEPT ![from] = to])
  BY <1>1, <1>2, <1>3, <1>4, <1>5, BackedRedelegate
<1>7. Backed(votes', balance', delegate') /\ total' = SumOf(balance', Addr)
  BY <1>1, <1>3, <1>6
<1> QED BY <1>1, <1>3, <1>7, VotesFollowNext

LEMMA VotesFollowFirst == Init => VotesFollowBalances
<1> SUFFICES ASSUME Init PROVE VotesFollowBalances
  OBVIOUS
<1>1. \A S \in SUBSET Addr : SumOf(balance, S) = 0
  <2>1. \A S \in SUBSET Addr : IsFiniteSet(S) /\ \A a \in S : balance[a] = 0
    BY LedgerAssumption, FS_Subset DEF Init
  <2> QED BY <2>1, SumOfZeros, SumOfIs
<1>2. \A w \in Addr : Backing(delegate, w) \in SUBSET Addr
  BY DEF Backing
<1> QED BY <1>1, <1>2, VotesFollowIs DEF Init, NewSeries, Backed

LEMMA VotesFollowStep == VInv /\ [Next]_vars => VInv'
<1> SUFFICES ASSUME VInv, [Next]_vars PROVE VInv'
  OBVIOUS
<1>1. IInv'
  BY StepHolds DEF VInv
<1>2. ASSUME UNCHANGED <<balance, delegate, total, votes, supply>>
      PROVE  VotesFollowBalances'
  <2>1. /\ balance' = balance /\ delegate' = delegate /\ total' = total
        /\ votes' = votes /\ supply' = supply
    BY <1>2
  <2>2. Backed(votes, balance, delegate) /\ total = SumOf(balance, Addr) /\ supply.cur = total
    BY VotesFollowIs DEF VInv
  <2> QED BY <2>1, <2>2, VotesFollowNext
<1>3. ASSUME Tick PROVE VotesFollowBalances'
  BY <1>2, <1>3 DEF Tick
<1>4. ASSUME NEW a \in Addr, NEW n \in Amounts, Mint(a, n) \/ Burn(a, n)
      PROVE  VotesFollowBalances'
  BY <1>4, MintFollows, BurnFollows
<1>5. ASSUME NEW a \in Addr, NEW b \in Addr, NEW n \in Amounts, Transfer(a, b, n)
      PROVE  VotesFollowBalances'
  BY <1>5, MoveFollows DEF Transfer
<1>6. ASSUME NEW a \in Addr, NEW b \in Addr, NEW n \in Approvals, Approve(a, b, n)
      PROVE  VotesFollowBalances'
  BY <1>2, <1>6 DEF Approve
<1>7. ASSUME NEW s \in Addr, NEW a \in Addr, NEW b \in Addr, NEW n \in Amounts,
             TransferFrom(s, a, b, n)
      PROVE  VotesFollowBalances'
  BY <1>7, MoveFollows DEF TransferFrom
<1>8. ASSUME NEW a \in Addr, NEW b \in Addr, Delegate(a, b)
      PROVE  VotesFollowBalances'
  BY <1>8, DelegateFollows
<1>10. CASE Next
  <2>1. VotesFollowBalances'
    BY <1>3, <1>4, <1>5, <1>6, <1>7, <1>8, <1>10 DEF Next
  <2> QED BY <1>1, <2>1 DEF VInv
<1>11. CASE UNCHANGED vars
  <2>1. VotesFollowBalances'
    BY <1>2, <1>11 DEF vars
  <2> QED BY <1>1, <2>1 DEF VInv
<1> QED BY <1>10, <1>11

(* What an address may vote with is exactly the balances delegated to it,  *)
(* and the supply exactly the balances, for any number of addresses and    *)
(* any sequence of mints, burns, transfers and delegations                 *)
(* (grc20votes.gno:449-621).                                               *)
THEOREM VotesAreBalances == Spec => []VotesFollowBalances
<1>1. Init => VInv
  BY InitHolds, VotesFollowFirst DEF VInv
<1>2. VInv /\ [Next]_vars => VInv'
  BY VotesFollowStep
<1>3. VInv => VotesFollowBalances
  BY DEF VInv
<1> QED BY <1>1, <1>2, <1>3, PTL DEF Spec

(* So addVotes never meets its "voting power would go negative" panic in a *)
(* burn, a transfer or a delegation: a delegate has at least the votes of  *)
(* each balance behind it, and nobody more than the supply can hold.       *)
NoVoteUnderflow ==
  \A a \in Addr : /\ balance[a] <= votes[delegate[a]].cur
                  /\ votes[delegate[a]].cur <= MaxSupply

THEOREM PanicIsUnreachable == Spec => []NoVoteUnderflow
<1>1. VInv => NoVoteUnderflow
  <2> SUFFICES ASSUME VInv, NEW a \in Addr
               PROVE  /\ balance[a] <= votes[delegate[a]].cur
                      /\ votes[delegate[a]].cur <= MaxSupply
    BY DEF NoVoteUnderflow
  <2> DEFINE B == Backing(delegate, delegate[a])
  <2>1. /\ votes[delegate[a]].cur = SumFunctionOnSet(balance, B)
        /\ total = SumFunctionOnSet(balance, Addr)
        /\ total <= MaxSupply /\ balance \in [Addr -> Nat]
    BY VotesFollowIs, SumOfIs DEF VInv, IInv, TypeOK, Backed
  <2>2. /\ a \in B /\ B \in SUBSET Addr /\ IsFiniteSet(B) /\ IsFiniteSet(Addr)
        /\ {a} \in SUBSET B
    BY LedgerAssumption, BackingFinite DEF Backing
  <2> HIDE DEF B
  <2>3. /\ \A x \in B : balance[x] \in Nat
        /\ \A x \in Addr : balance[x] \in Nat
    BY <2>1, <2>2
  <2>4. SumFunctionOnSet(balance, B) = balance[a] + SumFunctionOnSet(balance, B \ {a})
    BY <2>2, <2>3, SumRemove DEF Integral
  <2>5. /\ SumFunctionOnSet(balance, B \ {a}) \in Nat
        /\ SumFunctionOnSet(balance, B) \in Nat /\ SumFunctionOnSet(balance, Addr) \in Nat
        /\ SumFunctionOnSet(balance, B) <= SumFunctionOnSet(balance, Addr)
    <3>1. B \ {a} \in SUBSET B
      OBVIOUS
    <3> QED BY <2>2, <2>3, <3>1, SumOfPartBound
  <2>6. MaxSupply \in Nat /\ balance[a] \in Nat
    BY <2>3, LedgerAssumption
  <2> QED BY <2>1, <2>4, <2>5, <2>6
<1>2. Init => VInv
  BY InitHolds, VotesFollowFirst DEF VInv
<1>3. VInv /\ [Next]_vars => VInv'
  BY VotesFollowStep
<1> QED BY <1>1, <1>2, <1>3, PTL DEF Spec

-----------------------------------------------------------------------------
(* The ledger is an electorate.  Counted by who votes them or by who holds *)
(* them, the balances come to the same: by removing accounts one by one.   *)
ByDelegate(bal, del, S) == [w \in Addr |-> SumFunctionOnSet(bal, {a \in S : del[a] = w})]

LEMMA CountedTwoWays ==
  ASSUME NEW bal \in [Addr -> Int], NEW del \in [Addr -> Addr]
  PROVE  SumFunctionOnSet(ByDelegate(bal, del, Addr), Addr) = SumFunctionOnSet(bal, Addr)
<1> DEFINE Group(S, w) == {a \in S : del[a] = w}
           T == {S \in SUBSET Addr :
                   SumFunctionOnSet(ByDelegate(bal, del, S), Addr) = SumFunctionOnSet(bal, S)}
<1>0. /\ IsFiniteSet(Addr)
      /\ \A S \in SUBSET Addr : IsFiniteSet(S) /\ Integral(bal, S)
      /\ \A S \in SUBSET Addr : \A w : Group(S, w) \in SUBSET Addr
  BY LedgerAssumption, FS_Subset DEF Integral
<1>1. \A S \in SUBSET Addr : \A w : SumFunctionOnSet(bal, Group(S, w)) \in Int
  <2>1. \A S \in SUBSET Addr : SumFunctionOnSet(bal, S) \in Int
    BY <1>0, SumIsInt
  <2> QED BY <1>0, <2>1
<1>2. \A S \in SUBSET Addr : Integral(ByDelegate(bal, del, S), Addr)
  BY <1>1 DEF Integral, ByDelegate
<1>3. {} \in T
  <2>1. \A w \in Addr : ByDelegate(bal, del, {})[w] = 0
    <3>1. \A w : Group({}, w) = {}
      OBVIOUS
    <3> QED BY <3>1, SumOfNothing DEF ByDelegate
  <2>2. SumFunctionOnSet(ByDelegate(bal, del, {}), Addr) = 0
    BY <1>0, <2>1, SumOfZeros
  <2> QED BY <2>2, SumOfNothing
<1>4. ASSUME NEW S \in SUBSET Addr, S # {}, \A x \in S : S \ {x} \in T PROVE S \in T
  <2>1. PICK x : x \in S
    BY <1>4
  <2> DEFINE R == S \ {x}
             f == ByDelegate(bal, del, R)
             g == ByDelegate(bal, del, S)
  <2>2. /\ x \in Addr /\ del[x] \in Addr /\ R \in SUBSET Addr
        /\ SumFunctionOnSet(f, Addr) = SumFunctionOnSet(bal, R)
    BY <1>4, <2>1
  <2>3. \A w \in Addr \ {del[x]} : g[w] = f[w]
    <3>1. \A w \in Addr \ {del[x]} : Group(S, w) = Group(R, w)
      OBVIOUS
    <3> QED BY <3>1 DEF ByDelegate
  <2>4. g[del[x]] = bal[x] + f[del[x]]
    <3>1. /\ Group(S, del[x]) \ {x} = Group(R, del[x])
          /\ x \in Group(S, del[x]) /\ Group(S, del[x]) \in SUBSET Addr
      BY <2>1, <1>0
    <3> HIDE DEF Group
    <3>2. IsFiniteSet(Group(S, del[x])) /\ Integral(bal, Group(S, del[x]))
      BY <1>0, <3>1
    <3>3. SumFunctionOnSet(bal, Group(S, del[x])) =
            bal[x] + SumFunctionOnSet(bal, Group(S, del[x]) \ {x})
      BY <3>1, <3>2, SumRemove
    <3>4. SumFunctionOnSet(bal, Group(S, del[x])) =
            bal[x] + SumFunctionOnSet(bal, Group(R, del[x]))
      BY <3>1, <3>3
    <3> QED BY <2>2, <3>4 DEF ByDelegate, Group
  <2>5. SumFunctionOnSet(bal, S) = bal[x] + SumFunctionOnSet(bal, R)
    BY <1>0, <2>1, SumRemove
  <2>6. Integral(f, Addr) /\ Integral(g, Addr)
    BY <1>2, <2>2
  <2> HIDE DEF f, g, R
  <2>7. SumFunctionOnSet(g, Addr) = SumFunctionOnSet(f, Addr) - f[del[x]] + g[del[x]]
    BY <1>0, <2>2, <2>3, <2>6, SumUpdate
  <2>8. /\ bal[x] \in Int /\ f[del[x]] \in Int /\ g[del[x]] \in Int
        /\ SumFunctionOnSet(f, Addr) \in Int
    BY <1>0, <2>2, <2>6, SumIsInt DEF Integral
  <2>9. SumFunctionOnSet(g, Addr) = bal[x] + SumFunctionOnSet(f, Addr)
    BY <2>4, <2>7, <2>8
  <2> QED BY <2>2, <2>5, <2>9 DEF g, R
<1>5. SUBSET Addr \subseteq T
  <2> HIDE DEF T
  <2> QED BY <1>0, <1>3, <1>4, PartInduction
<1> QED BY <1>5

(* The roll the present epoch would have, were it over now.                *)
Present == [votes |-> [a \in Addr |-> votes[a].cur], total |-> supply.cur]

(* It is one an electorate may have: its parts are all of its whole.       *)
LEMMA PresentIsWorld == ASSUME VInv PROVE Present \in Worlds
<1> DEFINE cast == [a \in Addr |-> votes[a].cur]
<1>1. /\ balance \in [Addr -> Nat] /\ balance \in [Addr -> Int]
      /\ delegate \in [Addr -> Addr]
      /\ IsFiniteSet(Addr) /\ total <= MaxSupply /\ MaxSupply \in Nat
  BY LedgerAssumption DEF VInv, IInv, TypeOK
<1>2. /\ \A w \in Addr : votes[w].cur = SumFunctionOnSet(balance, Backing(delegate, w))
      /\ total = SumFunctionOnSet(balance, Addr) /\ supply.cur = total
  BY VotesFollowIs, SumOfIs DEF VInv, Backed
<1>3. cast = ByDelegate(balance, delegate, Addr)
  BY <1>2 DEF ByDelegate, Backing
<1>4. SumFunctionOnSet(cast, Addr) = total
  BY <1>1, <1>2, <1>3, CountedTwoWays
<1>5. ASSUME NEW w \in Addr PROVE votes[w].cur \in 0 .. MaxSupply
  <2>1. Backing(delegate, w) \in SUBSET Addr /\ \A x \in Addr : balance[x] \in Nat
    BY <1>1 DEF Backing
  <2>2. /\ SumFunctionOnSet(balance, Backing(delegate, w)) \in Nat
        /\ SumFunctionOnSet(balance, Addr) \in Nat
        /\ SumFunctionOnSet(balance, Backing(delegate, w)) <= SumFunctionOnSet(balance, Addr)
    BY <1>1, <2>1, SumOfPartBound
  <2> QED BY <1>1, <1>2, <2>2
<1>6. supply.cur \in 0 .. MaxSupply
  <2>1. Addr \in SUBSET Addr /\ \A x \in Addr : balance[x] \in Nat
    BY <1>1
  <2>2. SumFunctionOnSet(balance, Addr) \in Nat
    BY <1>1, <2>1, SumOfPartBound
  <2> QED BY <1>1, <1>2, <2>2
<1>7. SumOf(cast, Addr) = supply.cur
  BY <1>2, <1>4, SumOfIs
<1> QED BY <1>5, <1>6, <1>7 DEF Present, Worlds

(* The present epoch is answered with the newest points.                   *)
LEMMA PresentIsRoll == ASSUME IInv PROVE Roll(Epoch) = Present
  BY DEF IInv, SeriesInOrder, Roll, Present, PastVotes, PastTotal, ValueAt

LEMMA RollsAre == ASSUME IInv PROVE /\ Rolls \in Seq({Roll(at) : at \in Nat})
                                    /\ Len(Rolls) = Epoch - 1
<1>1. Epoch - 1 \in Nat
  BY EpochPositive DEF IInv
<1> QED BY <1>1 DEF Rolls

(* Within an epoch nothing that is sealed changes.                         *)
LEMMA RollsStay ==
  ASSUME IInv, CallKeeps \/ UNCHANGED <<height, votes, supply, archive>>
  PROVE  Rolls' = Rolls
<1>1. Epoch' = Epoch /\ Epoch \in Nat
  BY EpochPositive DEF Epoch, CallKeeps, IInv
<1>2. ASSUME NEW at \in 1 .. Epoch - 1 PROVE Roll(at)' = Roll(at)
  <2>1. at \in Nat /\ at < Epoch
    BY <1>1
  <2>2. CASE UNCHANGED <<height, votes, supply, archive>>
    BY <2>2 DEF Roll, PastVotes, PastTotal
  <2>3. CASE CallKeeps
    BY <2>1, <2>3 DEF CallKeeps, SamePast, Roll, PastVotes, PastTotal, Book
  <2> QED BY <2>2, <2>3
<1> QED BY <1>1, <1>2 DEF Rolls

(* A block that begins an epoch seals the one before, with the newest      *)
(* points as its roll.                                                     *)
LEMMA TickSeals ==
  ASSUME VInv, Tick PROVE E!Next \/ Rolls' = Rolls
<1>1. /\ height \in Nat /\ height' = height + 1 /\ EpochBlocks \in Nat \ {0}
      /\ UNCHANGED <<votes, supply, archive>> /\ IInv
      /\ Epoch \in Nat /\ Epoch # 0
  BY LedgerAssumption, EpochPositive DEF VInv, IInv, TypeOK, Tick
<1>2. Epoch' = Epoch \/ Epoch' = Epoch + 1
  <2> DEFINE q == height \div EpochBlocks
             r == (height + 1) \div EpochBlocks
  <2>1. q \in Nat /\ r \in Nat /\ (r = q \/ r = q + 1)
    BY <1>1
  <2> QED BY <1>1, <2>1 DEF Epoch
<1>3. \A at : Roll(at)' = Roll(at)
  BY <1>1 DEF Roll, PastVotes, PastTotal
<1>4. CASE Epoch' = Epoch
  BY <1>3, <1>4 DEF Rolls
<1>5. CASE Epoch' = Epoch + 1
  <2>1. Rolls' = [at \in 1 .. Epoch |-> Roll(at)]
    BY <1>1, <1>3, <1>5 DEF Rolls
  <2>2. PICK n \in Nat : Epoch = n + 1
    <3>1. Epoch - 1 \in Nat /\ Epoch = (Epoch - 1) + 1
      BY <1>1
    <3> QED BY <3>1
  <2>3. Rolls = [at \in 1 .. n |-> Roll(at)] /\ Rolls' = [at \in 1 .. n + 1 |-> Roll(at)]
    BY <2>1, <2>2 DEF Rolls
  <2>4. Roll(n + 1) = Present
    BY <1>1, <2>2, PresentIsRoll
  <2>5. Rolls' = Append(Rolls, Present) /\ Len(Rolls') = Len(Rolls) + 1
    BY <2>2, <2>3, <2>4
  <2> QED BY <2>5, PresentIsWorld DEF E!Next, E!Seal
<1> QED BY <1>2, <1>4, <1>5

(* The ledger implements the electorate: each block that begins an epoch   *)
(* seals one more roll, whose votes are all of its supply, and no call     *)
(* before or after changes a roll, for any number of addresses, epoch      *)
(* length, supply cap and page size (electorate.gno:27-50).                *)
THEOREM LedgerIsElectorate == Spec => ImplementsElectorate
<1>1. Init => VInv
  BY InitHolds, VotesFollowFirst DEF VInv
<1>2. VInv /\ [Next]_vars => VInv'
  BY VotesFollowStep
<1>3. Init => E!Init
  <2> SUFFICES ASSUME Init PROVE Rolls = <<>>
    BY DEF E!Init
  <2>1. Epoch = 1
    BY LedgerAssumption DEF Init, Epoch
  <2> QED BY <2>1 DEF Rolls
<1>4. VInv /\ [Next]_vars => [E!Next]_Rolls
  <2> SUFFICES ASSUME VInv, [Next]_vars PROVE E!Next \/ Rolls' = Rolls
    OBVIOUS
  <2>1. IInv
    BY DEF VInv
  <2>2. CASE Tick
    BY <2>2, TickSeals
  <2>3. CASE CallKeeps \/ UNCHANGED <<height, votes, supply, archive>>
    BY <2>1, <2>3, RollsStay
  <2>4. ASSUME Next PROVE Tick \/ CallKeeps \/ UNCHANGED <<height, votes, supply, archive>>
    BY <2>1, <2>4, StepCases
  <2> QED BY <2>2, <2>3, <2>4 DEF vars
<1> QED BY <1>1, <1>2, <1>3, <1>4, PTL DEF Spec, ImplementsElectorate, E!Spec
-----------------------------------------------------------------------------
(***************************************************************************)
(* The store the ledger's series live in, used on its own: for every page  *)
(* size, set of keys, epochs and trim budgets it implements the history it *)
(* promises.  The inductive invariant is StoreTypeOK together with         *)
(* ArchiveShape: neither read nor trim can be trusted on an archive whose  *)
(* pages are out of order.                                                 *)
(***************************************************************************)
StoreIInv == StoreTypeOK /\ ArchiveShape

LEMMA StoreInitHolds == StoreInit => StoreIInv
<1> SUFFICES ASSUME StoreInit PROVE StoreIInv
  OBVIOUS
<1>1. DOMAIN pages = {} /\ pages = [pk \in DOMAIN pages |-> pages[pk]]
  BY DEF StoreInit, EmptyArchive
<1>2. StoreTypeOK
  BY <1>1 DEF StoreInit, StoreTypeOK, NewSeries, SeriesRecords, IsArchive
<1>3. ArchiveShape
  BY <1>1 DEF StoreInit, ArchiveShape, WellShaped, InlineOrder, PagesOrder, ArchivedBefore
<1> QED BY <1>2, <1>3 DEF StoreIInv

(* What one SetAt does to every key's answers, and that it keeps IInv.     *)
LEMMA SetAtStep ==
  ASSUME StoreIInv, NEW k \in SeriesKeys, NEW e \in Epochs, NEW v \in Values, SetAt(k, e, v)
  PROVE  /\ StoreIInv'
         /\ series'[k].e0 = e
         /\ \A j \in SeriesKeys \ {k} : series'[j] = series[j]
         /\ \A j \in SeriesKeys, at \in Nat :
              ValueAt(pages', j, series'[j], at) =
                IF j = k /\ at >= e THEN v ELSE ValueAt(pages, j, series[j], at)
<1>1. /\ e \in Nat /\ v \in Int /\ MaySetAt(series[k], e)
      /\ series[k] \in SeriesRecords
      /\ series' = [series EXCEPT ![k] = SeriesAfterSetAt(series[k], e, v)]
      /\ pages' = ArchiveAfterSetAt(pages, k, series[k], e)
      /\ horizon' = horizon
      /\ IsArchive(pages, SeriesKeys)
  BY StoreAssumption DEF StoreIInv, StoreTypeOK, SetAt
<1>2. \A j \in SeriesKeys : WellShaped(pages, j, series[j])
  BY DEF StoreIInv, ArchiveShape
<1>3. /\ series'[k] = SeriesAfterSetAt(series[k], e, v)
      /\ \A j \in SeriesKeys \ {k} : series'[j] = series[j]
      /\ DOMAIN series' = SeriesKeys
  BY <1>1 DEF StoreIInv, StoreTypeOK
<1>4. /\ series'[k] \in SeriesRecords /\ series'[k].e0 = e
      /\ IsArchive(pages', SeriesKeys)
      /\ WellShaped(pages', k, series'[k])
      /\ \A at \in Nat : ValueAt(pages', k, series'[k], at) =
            IF at >= e THEN v ELSE ValueAt(pages, k, series[k], at)
  BY <1>1, <1>2, <1>3, SetAtReads
<1>5. ASSUME NEW j \in SeriesKeys \ {k}
      PROVE  /\ WellShaped(pages', j, series'[j])
             /\ \A at \in Nat : ValueAt(pages', j, series'[j], at) =
                                ValueAt(pages, j, series[j], at)
  BY <1>1, <1>2, <1>3, <1>4, SetAtElsewhere
<1>6. StoreTypeOK'
  <2>1. \A j \in SeriesKeys : series'[j] \in SeriesRecords
    BY <1>3, <1>4 DEF StoreIInv, StoreTypeOK
  <2>2. series' \in [SeriesKeys -> SeriesRecords]
    BY <1>1, <2>1 DEF StoreIInv, StoreTypeOK
  <2> QED BY <1>1, <1>4, <2>2 DEF StoreIInv, StoreTypeOK
<1>7. ArchiveShape'
  BY <1>4, <1>5 DEF ArchiveShape
<1> QED BY <1>3, <1>4, <1>5, <1>6, <1>7 DEF StoreIInv

(* A Trim keeps IInv, moves no inline point, and changes no answer at or   *)
(* above its own horizon, nor any answer of another key.                   *)
LEMMA TrimStep ==
  ASSUME StoreIInv, NEW k \in SeriesKeys, NEW h \in Epochs, NEW m \in TrimPages, Trim(k, h, m)
  PROVE  /\ StoreIInv'
         /\ series' = series
         /\ \A j \in SeriesKeys, at \in Nat : j # k \/ at >= h =>
              ValueAt(pages', j, series[j], at) = ValueAt(pages, j, series[j], at)
<1>1. /\ h \in Nat /\ m \in Int /\ IsArchive(pages, SeriesKeys)
      /\ pages' = ArchiveAfterTrim(pages, k, h, m)
      /\ series' = series
      /\ horizon' = [horizon EXCEPT ![k] = IF h > horizon[k] THEN h ELSE horizon[k]]
  BY StoreAssumption DEF StoreIInv, StoreTypeOK, Trim
<1>2. \A j \in SeriesKeys : WellShaped(pages, j, series[j])
  BY DEF StoreIInv, ArchiveShape
<1>3. /\ IsArchive(pages', SeriesKeys)
      /\ \A s : WellShaped(pages, k, s) =>
           /\ WellShaped(pages', k, s)
           /\ \A at \in Nat : at >= h =>
                ValueAt(pages', k, s, at) = ValueAt(pages, k, s, at)
      /\ \A other \in SeriesKeys : other # k =>
           /\ \A at \in Nat : \A s :
                ValueAt(pages', other, s, at) = ValueAt(pages, other, s, at)
           /\ \A s : WellShaped(pages, other, s) => WellShaped(pages', other, s)
  BY <1>1, TrimReads
<1>4. StoreTypeOK'
  BY <1>1, <1>3 DEF StoreIInv, StoreTypeOK
<1>5. ArchiveShape'
  BY <1>1, <1>2, <1>3 DEF ArchiveShape
<1> QED BY <1>1, <1>2, <1>3, <1>4, <1>5 DEF StoreIInv

LEMMA StoreStepHolds == StoreIInv /\ [StoreNext]_storeVars => StoreIInv'
<1> SUFFICES ASSUME StoreIInv, [StoreNext]_storeVars PROVE StoreIInv'
  OBVIOUS
<1>1. ASSUME NEW k \in SeriesKeys, NEW e \in Epochs, NEW v \in Values, SetAt(k, e, v)
      PROVE  StoreIInv'
  BY <1>1, SetAtStep
<1>2. ASSUME NEW k \in SeriesKeys, NEW h \in Epochs, NEW m \in TrimPages, Trim(k, h, m)
      PROVE  StoreIInv'
  BY <1>2, TrimStep
<1>3. CASE UNCHANGED storeVars
  BY <1>3 DEF storeVars, StoreIInv, StoreTypeOK, ArchiveShape
<1> QED BY <1>1, <1>2, <1>3 DEF StoreNext

(* The points of every key are typed and in order, through any number of   *)
(* writes and bounded trims (checkpoint.gno, SetAt, append and Trim).      *)
THEOREM StoreInvariant == StoreSpec => [](StoreTypeOK /\ ArchiveShape)
<1>1. StoreInit => StoreIInv
  BY StoreInitHolds
<1>2. StoreIInv /\ [StoreNext]_storeVars => StoreIInv'
  BY StoreStepHolds
<1>3. StoreIInv => StoreTypeOK /\ ArchiveShape
  BY DEF StoreIInv
<1> QED BY <1>1, <1>2, <1>3, PTL DEF StoreSpec

-----------------------------------------------------------------------------
HValue == [k \in SeriesKeys |-> Remembered(k)]
HNewest == [k \in SeriesKeys |-> series[k].e0]

LEMMA StoreInitRefines == StoreInit => H!Init
<1> SUFFICES ASSUME StoreInit PROVE H!Init
  OBVIOUS
<1>1. ASSUME NEW k \in SeriesKeys PROVE Remembered(k) = [at \in Epochs |-> 0]
  <2>1. series[k] = NewSeries /\ horizon[k] = 0
    BY DEF StoreInit
  <2>2. \A at \in Epochs : ~ (at < horizon[k]) /\ ValueAt(pages, k, series[k], at) = 0
    BY <2>1, StoreAssumption DEF ValueAt, NewSeries
  <2> QED BY <2>2 DEF Remembered
<1>2. HValue = [k \in SeriesKeys |-> [at \in Epochs |-> 0]]
  BY <1>1 DEF HValue
<1>3. HNewest = [k \in SeriesKeys |-> 0]
  BY DEF HNewest, StoreInit, NewSeries
<1> QED BY <1>2, <1>3 DEF H!Init, StoreInit, HValue, HNewest

LEMMA SetAtRefines ==
  ASSUME StoreIInv, NEW k \in SeriesKeys, NEW e \in Epochs, NEW v \in Values, SetAt(k, e, v)
  PROVE  H!Write(k, e, v)
<1>1. /\ series'[k].e0 = e
      /\ \A j \in SeriesKeys \ {k} : series'[j] = series[j]
      /\ \A j \in SeriesKeys, at \in Nat :
           ValueAt(pages', j, series'[j], at) =
             IF j = k /\ at >= e THEN v ELSE ValueAt(pages, j, series[j], at)
  BY SetAtStep
<1>2. horizon' = horizon /\ e >= series[k].e0
  BY DEF SetAt, MaySetAt
<1>3. Epochs \subseteq Nat /\ e \in Nat
  BY StoreAssumption
<1>4. horizon[k] \in Nat
  BY DEF StoreIInv, StoreTypeOK
<1>5. ASSUME NEW j \in SeriesKeys
      PROVE  Remembered(j)' =
               IF j = k THEN [at \in Epochs |-> IF at >= e /\ at >= horizon[k] THEN v
                                               ELSE Remembered(k)[at]]
                        ELSE Remembered(j)
  <2>1. CASE j # k
    BY <1>1, <1>2, <1>3, <2>1 DEF Remembered
  <2>2. CASE j = k
    <3>1. ASSUME NEW at \in Epochs
          PROVE  (IF at < horizon'[k] THEN Lost
                  ELSE ValueAt(pages', k, series'[k], at)) =
                 (IF at >= e /\ at >= horizon[k] THEN v ELSE Remembered(k)[at])
      <4>1. CASE at < horizon[k]
        BY <1>2, <1>3, <1>4, <4>1 DEF Remembered
      <4>2. CASE ~ (at < horizon[k])
        <5>1. at >= horizon[k]
          BY <1>3, <1>4, <4>2
        <5> QED BY <1>1, <1>2, <1>3, <4>2, <5>1 DEF Remembered
      <4> QED BY <4>1, <4>2
    <3> QED BY <2>2, <3>1 DEF Remembered
  <2> QED BY <2>1, <2>2
<1>6. HValue' = [HValue EXCEPT ![k] =
        [at \in Epochs |-> IF at >= e /\ at >= horizon[k] THEN v ELSE HValue[k][at]]]
  BY <1>5 DEF HValue
<1>7. HNewest' = [HNewest EXCEPT ![k] = e] /\ e >= HNewest[k]
  BY <1>1, <1>2 DEF HNewest
<1> QED BY <1>2, <1>6, <1>7 DEF H!Write, HValue, HNewest

LEMMA TrimRefines ==
  ASSUME StoreIInv, NEW k \in SeriesKeys, NEW h \in Epochs, NEW m \in TrimPages, Trim(k, h, m)
  PROVE  H!Forget(k, h) \/ UNCHANGED H!vars
<1>1. /\ series' = series
      /\ \A j \in SeriesKeys, at \in Nat : j # k \/ at >= h =>
           ValueAt(pages', j, series[j], at) = ValueAt(pages, j, series[j], at)
  BY TrimStep
<1>2. /\ horizon' = [horizon EXCEPT ![k] = IF h > horizon[k] THEN h ELSE horizon[k]]
      /\ \A j \in SeriesKeys : horizon[j] \in Nat
      /\ DOMAIN horizon = SeriesKeys
  BY DEF Trim, StoreIInv, StoreTypeOK
<1>3. Epochs \subseteq Nat /\ h \in Nat
  BY StoreAssumption
<1>4. HNewest' = HNewest
  BY <1>1 DEF HNewest
<1>5. \A j \in SeriesKeys \ {k} : horizon'[j] = horizon[j]
  BY <1>2
<1>6. ASSUME NEW j \in SeriesKeys \ {k} PROVE Remembered(j)' = Remembered(j)
  BY <1>1, <1>3, <1>5 DEF Remembered
<1>7. CASE h >= horizon[k]
  <2>1. horizon'[k] = h /\ horizon' = [horizon EXCEPT ![k] = h]
    <3>1. (IF h > horizon[k] THEN h ELSE horizon[k]) = h
      BY <1>2, <1>3, <1>7
    <3> QED BY <1>2, <3>1
  <2>2. ASSUME NEW at \in Epochs
        PROVE  (IF at < horizon'[k] THEN Lost
                ELSE ValueAt(pages', k, series'[k], at)) =
               (IF at < h THEN Lost ELSE Remembered(k)[at])
    <3>1. CASE at < h
      BY <2>1, <3>1
    <3>2. CASE ~ (at < h)
      <4>1. at >= h /\ ~ (at < horizon[k]) /\ at \in Nat
        BY <1>2, <1>3, <1>7, <3>2
      <4> QED BY <1>1, <2>1, <3>2, <4>1 DEF Remembered
    <3> QED BY <3>1, <3>2
  <2>3. Remembered(k)' = [at \in Epochs |-> IF at < h THEN Lost ELSE Remembered(k)[at]]
    BY <2>2 DEF Remembered
  <2>4. HValue' = [HValue EXCEPT ![k] =
                    [at \in Epochs |-> IF at < h THEN Lost ELSE HValue[k][at]]]
    BY <1>6, <2>3 DEF HValue
  <2> QED BY <1>4, <1>7, <2>1, <2>4 DEF H!Forget, HValue, HNewest
<1>8. CASE ~ (h >= horizon[k])
  <2>1. horizon' = horizon
    <3>1. (IF h > horizon[k] THEN h ELSE horizon[k]) = horizon[k]
      BY <1>2, <1>3, <1>8
    <3> QED BY <1>2, <3>1 DEF StoreIInv, StoreTypeOK
  <2>2. ASSUME NEW at \in Epochs
        PROVE  (IF at < horizon'[k] THEN Lost
                ELSE ValueAt(pages', k, series'[k], at)) =
               (IF at < horizon[k] THEN Lost ELSE ValueAt(pages, k, series[k], at))
    <3>1. CASE at < horizon[k]
      BY <2>1, <3>1
    <3>2. CASE ~ (at < horizon[k])
      <4>1. at >= h /\ at \in Nat
        BY <1>2, <1>3, <1>8, <3>2
      <4> QED BY <1>1, <2>1, <3>2, <4>1
    <3> QED BY <3>1, <3>2
  <2>3. Remembered(k)' = Remembered(k)
    BY <2>2 DEF Remembered
  <2>4. HValue' = HValue
    BY <1>6, <2>3 DEF HValue
  <2> QED BY <1>4, <2>1, <2>4 DEF H!vars, HValue, HNewest
<1> QED BY <1>7, <1>8

(* The store implements the history: whatever was written, trimmed and     *)
(* shared between keys, ValueAt answers every epoch that was not trimmed   *)
(* away with the value that was written for it (checkpoint.gno:207-240).   *)
THEOREM StoreImplementsHistory == StoreSpec => ImplementsHistory
<1>1. StoreInit => StoreIInv
  BY StoreInitHolds
<1>2. StoreIInv /\ [StoreNext]_storeVars => StoreIInv'
  BY StoreStepHolds
<1>3. StoreInit => H!Init
  BY StoreInitRefines
<1>4. StoreIInv /\ [StoreNext]_storeVars => [H!Next]_H!vars
  <2> SUFFICES ASSUME StoreIInv, [StoreNext]_storeVars PROVE [H!Next]_H!vars
    OBVIOUS
  <2>1. ASSUME NEW k \in SeriesKeys, NEW e \in Epochs, NEW v \in Values, SetAt(k, e, v)
        PROVE  H!Next
    BY <2>1, SetAtRefines DEF H!Next
  <2>2. ASSUME NEW k \in SeriesKeys, NEW h \in Epochs, NEW m \in TrimPages, Trim(k, h, m)
        PROVE  [H!Next]_H!vars
    BY <2>2, TrimRefines DEF H!Next
  <2>3. CASE UNCHANGED storeVars
    BY <2>3 DEF storeVars, H!vars, Remembered
  <2> QED BY <2>1, <2>2, <2>3 DEF StoreNext
<1> QED BY <1>1, <1>2, <1>3, <1>4, PTL DEF StoreSpec, ImplementsHistory, H!Spec

(* A sealed epoch that no trim gave up reads the same for ever.            *)
THEOREM StoreSealed == StoreSpec => SealedEpochsKeep
<1>1. StoreInit => StoreIInv
  BY StoreInitHolds
<1>2. StoreIInv /\ [StoreNext]_storeVars => StoreIInv'
  BY StoreStepHolds
<1>3. StoreIInv /\ [StoreNext]_storeVars =>
        [\A k \in SeriesKeys : \A at \in Epochs :
            at < series[k].e0 /\ at >= horizon'[k] =>
              ValueAt(pages', k, series'[k], at) =
                ValueAt(pages, k, series[k], at)]_storeVars
  <2> SUFFICES ASSUME StoreIInv, StoreNext, NEW j \in SeriesKeys, NEW at \in Epochs,
                      at < series[j].e0, at >= horizon'[j]
               PROVE  ValueAt(pages', j, series'[j], at) =
                        ValueAt(pages, j, series[j], at)
    BY DEF storeVars
  <2>0. at \in Nat
    BY StoreAssumption
  <2>1. ASSUME NEW k \in SeriesKeys, NEW e \in Epochs, NEW v \in Values, SetAt(k, e, v)
        PROVE  ValueAt(pages', j, series'[j], at) = ValueAt(pages, j, series[j], at)
    <3>1. e \in Nat /\ series[k].e0 \in Nat /\ e >= series[k].e0
      BY <2>1, StoreAssumption DEF StoreIInv, StoreTypeOK, SeriesRecords, SetAt, MaySetAt
    <3>2. j = k => ~ (at >= e)
      BY <2>0, <3>1
    <3> QED BY <2>0, <2>1, <3>2, SetAtStep
  <2>2. ASSUME NEW k \in SeriesKeys, NEW h \in Epochs, NEW m \in TrimPages, Trim(k, h, m)
        PROVE  ValueAt(pages', j, series'[j], at) = ValueAt(pages, j, series[j], at)
    <3>1. h \in Nat /\ horizon[k] \in Nat /\ horizon'[k] \in Nat
      BY <2>2, StoreAssumption, TrimStep DEF StoreIInv, StoreTypeOK
    <3>2. horizon'[k] = IF h > horizon[k] THEN h ELSE horizon[k]
      BY <2>2 DEF Trim, StoreIInv, StoreTypeOK
    <3>3. j = k => at >= h
      BY <2>0, <3>1, <3>2
    <3>4. series'[j] = series[j]
      BY <2>2, TrimStep
    <3> QED BY <2>0, <2>2, <3>3, <3>4, TrimStep
  <2> QED BY <2>1, <2>2 DEF StoreNext
<1> QED BY <1>1, <1>2, <1>3, PTL DEF StoreSpec, SealedEpochsKeep
=============================================================================
