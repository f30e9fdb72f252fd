----------------------------- MODULE VoteLedger -----------------------------
(***************************************************************************)
(* realm/p/grc20votes: a token whose balances are also votes.  Every       *)
(* account delegates its whole balance to one address, itself by default;  *)
(* what each address may vote with, and the total supply, are Series, so   *)
(* that a vote is weighed by an epoch that is already over.                *)
(*                                                                         *)
(* An account record that was never opened holds nothing and delegates to  *)
(* itself; whether the record exists is storage and is left out.  A call   *)
(* that panics aborts its transaction: it is an action that is not enabled. *)
(***************************************************************************)
EXTENDS Checkpoint, Functions

CONSTANTS Addr,          \* the addresses
          SupplyKey,     \* the series key of the supply, no address
          EpochBlocks,   \* blocks in one epoch
          MaxSupply,     \* what a tally can weigh without overflowing
          Amounts,       \* amounts a mint, burn or transfer may name
          Approvals,     \* allowances an approval may set
          MaxHeight      \* bound on the clock

ASSUME LedgerAssumption == /\ IsFiniteSet(Addr) /\ SupplyKey \notin Addr
                           /\ EpochBlocks \in Nat \ {0}
                           /\ MaxSupply \in Nat
                           /\ Amounts \subseteq Nat /\ Approvals \subseteq Nat

VARIABLES
  height,      \* the chain's height, as the ledger's Clock reports it
  balance,     \* balance[a]
  delegate,    \* delegate[a]: whom a's balance votes through
  allowance,   \* allowance[<<owner, spender>>], 0 when there is none
  total,       \* the total supply
  votes,       \* votes[a]: the Series of what a may vote with
  supply,      \* the Series of the total supply
  archive      \* the pages both kinds of series roll into

vars == <<height, balance, delegate, allowance, total, votes, supply, archive>>

Keys == Addr \cup {SupplyKey}

Epoch == height \div EpochBlocks + 1

(* A past vote is answered only for an epoch that is over.                 *)
Sealed(at) == at # 0 /\ at < Epoch

PastVotes(who, at) == ValueAt(archive, who, votes[who], at)
PastTotal(at) == ValueAt(archive, SupplyKey, supply, at)

-----------------------------------------------------------------------------
Init == /\ height = 0
        /\ balance = [a \in Addr |-> 0]
        /\ delegate = [a \in Addr |-> a]
        /\ allowance = [p \in Addr \X Addr |-> 0]
        /\ total = 0
        /\ votes = [a \in Addr |-> NewSeries]
        /\ supply = NewSeries
        /\ archive = EmptyArchive

Tick == /\ height < MaxHeight
        /\ height' = height + 1
        /\ UNCHANGED <<balance, delegate, allowance, total, votes, supply, archive>>

(* Mutant: a vote count is written into the next epoch.                    *)
AddVotes_NextEpoch(book, who, delta) ==
  LET s == book.votes[who]
  IN  IF delta = 0 THEN book
      ELSE [votes   |-> [book.votes EXCEPT ![who] = SeriesAfterSetAt(s, Epoch + 1, s.cur + delta)],
            archive |-> ArchiveAfterSetAt(book.archive, who, s, Epoch + 1)]

(* Mutant: the newest point is overwritten instead of rolled.              *)
AddVotes_InPlace(book, who, delta) ==
  [book EXCEPT !.votes[who] = [@ EXCEPT !.cur = @ + delta, !.e0 = Epoch]]

(* Votes and archive together, as addVotes threads them from call to call. *)
AddVotes(book, who, delta) ==
  LET s == book.votes[who]
  IN  IF delta = 0 THEN book
      ELSE [votes   |-> [book.votes EXCEPT ![who] = SeriesAfterSetAt(s, Epoch, s.cur + delta)],
            archive |-> ArchiveAfterSetAt(book.archive, who, s, Epoch)]

(* addVotes panics rather than let a vote count go below zero.             *)
MayAddVotes(book, who, delta) == book.votes[who].cur + delta >= 0

(* A call's votes: delta1 to one address, then delta2 to another.          *)
Book == [votes |-> votes, archive |-> archive]

Reweigh(book, who1, delta1, who2, delta2) ==
  LET after1 == AddVotes(book, who1, delta1)
      after2 == AddVotes(after1, who2, delta2)
  IN  /\ MayAddVotes(book, who1, delta1)
      /\ MayAddVotes(after1, who2, delta2)
      /\ votes' = after2.votes
      /\ archive' = after2.archive

(* Mutant: the supply's older point is dropped instead of archived.        *)
RollSupply_Forgets(book) == book

(* The supply's own point, rolled into the archive it shares with votes.   *)
RollSupply(book) ==
  [votes   |-> book.votes,
   archive |-> ArchiveAfterSetAt(book.archive, SupplyKey, supply, Epoch)]

-----------------------------------------------------------------------------
Mint(to, amount) ==
  /\ amount > 0
  /\ total + amount <= MaxSupply
  /\ total' = total + amount
  /\ supply' = SeriesAfterSetAt(supply, Epoch, total + amount)
  /\ balance' = [balance EXCEPT ![to] = @ + amount]
  /\ Reweigh(RollSupply(Book), delegate[to], amount, delegate[to], 0)
  /\ UNCHANGED <<height, delegate, allowance>>

(* Mutant: only the votes are checked, not the balance.                    *)
Burn_Unchecked(from, amount) ==
  /\ amount > 0
  /\ balance' = [balance EXCEPT ![from] = @ - amount]
  /\ total' = total - amount
  /\ Reweigh(Book, delegate[from], -amount, delegate[from], 0)
  /\ supply' = SeriesAfterSetAt(supply, Epoch, total - amount)
  /\ UNCHANGED <<height, delegate, allowance>>

(* Burn writes the votes before the supply.                                *)
Burn(from, amount) ==
  /\ amount > 0
  /\ balance[from] >= amount
  /\ balance' = [balance EXCEPT ![from] = @ - amount]
  /\ MayAddVotes(Book, delegate[from], -amount)
  /\ total' = total - amount
  /\ LET after == AddVotes(Book, delegate[from], -amount)
     IN  /\ votes' = after.votes
         /\ archive' = RollSupply(after).archive
  /\ supply' = SeriesAfterSetAt(supply, Epoch, total - amount)
  /\ UNCHANGED <<height, delegate, allowance>>

(* Mutant: both balances are read before either is written.                *)
Move_ReadBoth(from, to, amount) ==
  /\ amount > 0
  /\ balance[from] >= amount
  /\ balance' = [balance EXCEPT ![from] = balance[from] - amount,
                                ![to] = balance[to] + amount]
  /\ Reweigh(Book, delegate[from], -amount, delegate[to], amount)
  /\ UNCHANGED <<height, delegate, total, supply>>

Move(from, to, amount) ==
  /\ amount > 0
  /\ balance[from] >= amount
  /\ balance' = [[balance EXCEPT ![from] = @ - amount] EXCEPT ![to] = @ + amount]
  /\ Reweigh(Book, delegate[from], -amount, delegate[to], amount)
  /\ UNCHANGED <<height, delegate, total, supply>>

Transfer(from, to, amount) ==
  /\ Move(from, to, amount)
  /\ UNCHANGED allowance

Approve(owner, spender, amount) ==
  /\ amount >= 0
  /\ allowance' = [allowance EXCEPT ![<<owner, spender>>] = amount]
  /\ UNCHANGED <<height, balance, delegate, total, votes, supply, archive>>

TransferFrom(spender, from, to, amount) ==
  /\ allowance[<<from, spender>>] >= amount
  /\ allowance' = [allowance EXCEPT ![<<from, spender>>] = @ - amount]
  /\ Move(from, to, amount)

(* Mutant: the address that loses the delegation keeps its votes.          *)
Delegate_KeepsOld(from, to) ==
  /\ delegate[from] # to
  /\ delegate' = [delegate EXCEPT ![from] = to]
  /\ Reweigh(Book, delegate[from], 0, to, balance[from])
  /\ UNCHANGED <<height, balance, allowance, total, supply>>

(* Delegating to the address already delegated to changes nothing.         *)
Delegate(from, to) ==
  /\ delegate[from] # to
  /\ delegate' = [delegate EXCEPT ![from] = to]
  /\ Reweigh(Book, delegate[from], -balance[from], to, balance[from])
  /\ UNCHANGED <<height, balance, allowance, total, supply>>

Next ==
  \/ Tick
  \/ \E a \in Addr, n \in Amounts : Mint(a, n) \/ Burn(a, n)
  \/ \E a, b \in Addr, n \in Amounts : Transfer(a, b, n)
  \/ \E a, b \in Addr, n \in Approvals : Approve(a, b, n)
  \/ \E s, a, b \in Addr, n \in Amounts : TransferFrom(s, a, b, n)
  \/ \E a, b \in Addr : Delegate(a, b)

Spec == Init /\ [][Next]_vars

-----------------------------------------------------------------------------
SumOf(f, S) == FoldFunctionOnSet(+, 0, f, S)

TypeOK == /\ height \in Nat
          /\ balance \in [Addr -> Nat]
          /\ delegate \in [Addr -> Addr]
          /\ allowance \in [Addr \X Addr -> Nat]
          /\ total \in Int /\ total <= MaxSupply
          /\ votes \in [Addr -> SeriesRecords]
          /\ supply \in SeriesRecords
          /\ IsArchive(archive, Keys)

(* What an address may vote with is exactly the balances delegated to it,  *)
(* and the supply is exactly the balances (grc20votes.gno:449-621).  It    *)
(* also means that the "voting power would go negative" panic is never     *)
(* reached: no transfer, burn or delegation can be stuck behind it.        *)
VotesFollowBalances ==
  /\ \A w \in Addr : votes[w].cur = SumOf(balance, {a \in Addr : delegate[a] = w})
  /\ total = SumOf(balance, Addr)
  /\ supply.cur = total

(* Every series is in the order its reads rely on and holds no point from  *)
(* after the present epoch, so that no write can meet "the clock went      *)
(* backwards" (checkpoint.gno:182) and abort a transfer.                   *)
SeriesInOrder ==
  /\ \A a \in Addr : votes[a].e0 <= Epoch /\ WellShaped(archive, a, votes[a])
  /\ supply.e0 <= Epoch /\ WellShaped(archive, SupplyKey, supply)

(* Nothing anybody does later changes what an address could vote with, or  *)
(* the supply, at an epoch that is over: a balance borrowed today cannot   *)
(* vote on a question put before today (grc20votes.gno:270-295).           *)
SealedVotesKeep ==
  [][\A at \in 1 .. Epoch - 1 :
        /\ \A a \in Addr : PastVotes(a, at)' = PastVotes(a, at)
        /\ PastTotal(at)' = PastTotal(at)]_vars

(* The rolls that an electorate may have: no more votes than there is      *)
(* supply, here exactly as many, and a supply that a tally can weigh       *)
(* (electorate.gno:32-50).                                                 *)
Worlds == {w \in [votes : [Addr -> 0 .. MaxSupply], total : 0 .. MaxSupply] :
             SumOf(w.votes, Addr) = w.total}

(* What the ledger answers about the epochs that are over.                 *)
Roll(at) == [votes |-> [a \in Addr |-> PastVotes(a, at)], total |-> PastTotal(at)]

Rolls == [at \in 1 .. Epoch - 1 |-> Roll(at)]

E == INSTANCE Electorate WITH sealed <- Rolls

(* The ledger is an electorate: its rolls are sealed one by one as blocks  *)
(* go by, each with parts that make up its whole, and no mint, burn,       *)
(* transfer or delegation changes one afterwards, which is what a governor *)
(* that asks about a past epoch relies on (electorate.gno:27-50).          *)
ImplementsElectorate == E!Spec
=============================================================================
