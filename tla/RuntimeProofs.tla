---------------------------- MODULE RuntimeProofs -----------------------------
(***************************************************************************)
(* Proofs about Runtime, for any accounts, values, permits, fees and call  *)
(* names.                                                                  *)
(***************************************************************************)
EXTENDS Runtime, DataLemmas

\* First-order leaves go to Zenon; those that need arithmetic, sequences or records
\* cite SMT, with a limit that leaves room for a slow machine.
USE Zenon

Allowances == [Accounts -> [Accounts -> (0 .. MaxBalance) \cup {NoEntry}]]

Stored == [book : Book, approves : Allowances, nonces : [Accounts -> Nat]]

CallRecord ==
    [at : {"dispatch", "permit", "log"}, caller : Users, from : Accounts, to : Accounts,
     value : Nat, saved : Stored]

PaymentRecord ==
    {p \in [payer : Users, held : Nat, fee : Nat, tip : Nat, done : BOOLEAN] :
       p.fee + p.tip <= p.held}

Now == [book |-> book, approves |-> approves, nonces |-> nonces]

\* Every unit is counted once, and no account has dust.
Sound(b, held) == NoDust(b) /\ b.issuance = SumFunction(b.free) + held

(***************************************************************************)
(* What a call has done to storage s when storage is t: one of the things  *)
(* that Erc20 lets the caller do at once.                                  *)
(***************************************************************************)
BookMoved(b, c, from, to, v, dust) ==
    /\ b.free[from] >= v + dust
    /\ dust > 0 => b.free[from] = v + dust
    /\ c.free = [a \in Accounts |->
         b.free[a] - (IF a = from THEN v + dust ELSE 0) + (IF a = to THEN v ELSE 0)]
    /\ c.issuance = b.issuance - dust

Moved(s, t, from, to, v, dust) ==
    BookMoved(s.book, t.book, from, to, v, dust) /\ t.nonces = s.nonces

Dust == 0 .. ExistentialDeposit - 1

DidTransfer(s, t, who) ==
    \E to \in Accounts, v \in 0 .. s.book.issuance, dust \in Dust :
      Moved(s, t, who, to, v, dust) /\ t.approves = s.approves

Spends(s, t, from, who, v) ==
    /\ s.approves[from][who] # NoEntry
    /\ s.approves[from][who] >= v
    /\ t.approves = [s.approves EXCEPT ![from][who] = s.approves[from][who] - v]

DidTransferFrom(s, t, who) ==
    \E from, to \in Accounts, v \in 0 .. s.book.issuance, dust \in Dust :
      Moved(s, t, from, to, v, dust) /\ Spends(s, t, from, who, v)

DidDeposit(s, t, who) ==
    \E dust \in Dust :
      /\ s.book.free[who] > dust
      /\ t.book.free = [s.book.free EXCEPT ![who] = s.book.free[who] - dust]
      /\ t.book.issuance = s.book.issuance - dust
      /\ t.approves = s.approves /\ t.nonces = s.nonces

DidApprove(s, t, who) ==
    \E b \in Accounts, v \in 0 .. MaxBalance :
      /\ t.approves = [s.approves EXCEPT ![who][b] = v]
      /\ t.book = s.book /\ t.nonces = s.nonces

\* The permit that a call presents at a time.
Presents(s, owner, spender, v, p, time) ==
    /\ p.domain = Domain /\ p.owner = owner /\ p.spender = spender /\ p.value = v
    /\ p.nonce = s.nonces[owner]
    /\ time <= p.deadline

DidPermit(s, t, time) ==
    \E p \in Permits :
      /\ Presents(s, p.owner, p.spender, p.value, p, time)
      /\ t.nonces = [s.nonces EXCEPT ![p.owner] = s.nonces[p.owner] + 1]
      /\ t.approves = [s.approves EXCEPT ![p.owner][p.spender] = Saturated(p.value)]
      /\ t.book = s.book

Did(s, t, who, time) ==
    \/ DidTransfer(s, t, who) \/ DidTransferFrom(s, t, who) \/ DidDeposit(s, t, who)
    \/ DidApprove(s, t, who) \/ DidPermit(s, t, time) \/ t = s

\* transferFrom and deposit before they dispatch, permit before it approves.
HalfTransferFrom(s, t, c) ==
    /\ t.book = s.book /\ t.nonces = s.nonces
    /\ \/ c.caller = c.from /\ t.approves = s.approves
       \/ Spends(s, t, c.from, c.caller, c.value)

HalfDeposit(s, t, c) ==
    /\ c.from = Precompile /\ c.to = c.caller /\ c.value # 0
    /\ CanTransfer(s.book, c.caller, Precompile, c.value)
    /\ t.book = Transferred(s.book, c.caller, Precompile, c.value)
    /\ t.approves = s.approves /\ t.nonces = s.nonces

HalfPermit(s, t, c, time) ==
    /\ t.book = s.book /\ t.approves = s.approves
    /\ t.nonces = [s.nonces EXCEPT ![c.from] = s.nonces[c.from] + 1]
    /\ \E p \in Permits : Presents(s, c.from, c.to, c.value, p, time)

\* Where a call c stands when storage is t.
Stands(c, t, time) ==
    /\ Sound(c.saved.book, 0)
    /\ c.at = "log" => Did(c.saved, t, c.caller, time)
    /\ c.at = "dispatch" => HalfTransferFrom(c.saved, t, c) \/ HalfDeposit(c.saved, t, c)
    /\ c.at = "permit" => HalfPermit(c.saved, t, c, time)

RuntimeInv ==
    /\ Now \in Stored /\ moment \in Nat
    /\ evm = NoCall \/ evm \in CallRecord
    /\ paused \subseteq {c \in CallNames : c.pallet # ThisPallet}
    /\ author \in Authors \cup {NoAuthor}
    /\ payment = NoPayment \/ payment \in PaymentRecord
    /\ Sound(book, payment.held)
    /\ evm # NoCall => payment = NoPayment /\ Stands(evm, Now, Timestamp)

-----------------------------------------------------------------------------
(***************************************************************************)
(* Books.                                                                  *)
(***************************************************************************)

\* The fields of a book.
LEMMA BookType ==
    ASSUME NEW b \in Book
    PROVE  /\ b.free \in [Accounts -> Nat] /\ b.issuance \in Nat
           /\ b = [free |-> b.free, issuance |-> b.issuance]
BY DEF Book

\* What one account gains or loses, the sum gains or loses.
LEMMA SumOfBalances ==
    ASSUME NEW f \in [Accounts -> Nat], NEW a \in Accounts, NEW v \in Nat
    PROVE  /\ [f EXCEPT ![a] = v] \in [Accounts -> Nat]
           /\ SumFunction(f) \in Nat /\ f[a] \in Nat /\ f[a] <= SumFunction(f)
           /\ SumFunction([f EXCEPT ![a] = v]) = SumFunction(f) - f[a] + v
<1> DEFINE h == [f EXCEPT ![a] = v]
<1>1. h \in [Accounts -> Nat] /\ h[a] = v /\ \A x \in Accounts \ {a} : h[x] = f[x]
  OBVIOUS
<1> HIDE DEF h
<1>2. /\ SumFunction(f) \in Nat /\ f[a] <= SumFunction(f)
      /\ SumFunction(h) = SumFunction(f) - f[a] + h[a]
  BY <1>1, SumChanges, BalancesAssumption, SMTT(30)
<1> QED
  BY <1>1, <1>2 DEF h

\* One balance changes, and the issuance and what is withheld go with it.
LEMMA BalanceChange ==
    ASSUME NEW b \in Book, NEW c \in Book, NEW held \in Nat, NEW withheld \in Nat,
           Sound(b, held), NEW a \in Accounts, NEW v \in Nat,
           v # 0 => v >= ExistentialDeposit,
           c.free = [b.free EXCEPT ![a] = v],
           c.issuance = b.issuance - held - b.free[a] + v + withheld
    PROVE  Sound(c, withheld)
<1>1. /\ SumFunction(b.free) \in Nat /\ b.free[a] \in Nat
      /\ SumFunction(c.free) = SumFunction(b.free) - b.free[a] + v
  BY BookType, SumOfBalances, SMTT(30)
<1>2. b.issuance = SumFunction(b.free) + held /\ b.issuance \in Nat
  BY BookType DEF Sound
<1>3. c.issuance = SumFunction(c.free) + withheld
  BY <1>1, <1>2, SMTT(30)
<1>4. NoDust(c)
  <2>1. NoDust(b) /\ b.free \in [Accounts -> Nat]
    BY BookType DEF Sound
  <2> QED
    BY <2>1 DEF NoDust
<1> QED
  BY <1>3, <1>4 DEF Sound

\* What is kept of a rest is the rest or nothing.
LEMMA KeptType ==
    ASSUME NEW r \in Nat
    PROVE  /\ Kept(r) \in Nat /\ r - Kept(r) \in Dust
           /\ Kept(r) = r \/ Kept(r) = 0
           /\ Kept(r) # 0 => Kept(r) >= ExistentialDeposit
BY BalancesAssumption, SMTT(30) DEF Kept, Dust

(***************************************************************************)
(* A transfer moves the value, burns dust and nothing else.                *)
(***************************************************************************)
LEMMA TransferSound ==
    ASSUME NEW b \in Book, NEW held \in Nat, Sound(b, held),
           NEW from \in Accounts, NEW to \in Accounts, NEW v \in Nat,
           CanTransfer(b, from, to, v), NEW c, c = Transferred(b, from, to, v)
    PROVE  /\ c \in Book /\ Sound(c, held)
           /\ v \in 0 .. b.issuance
           /\ \E dust \in Dust : BookMoved(b, c, from, to, v, dust)
<1> DEFINE f == b.free
<1>1. /\ f \in [Accounts -> Nat] /\ b.issuance \in Nat
      /\ f[from] \in Nat /\ f[to] \in Nat
  BY BookType
<1>2. f[from] >= v
  BY <1>1, SMTT(30) DEF CanTransfer
<1>3. f[from] <= b.issuance /\ v \in 0 .. b.issuance
  <2>1. SumFunction(f) \in Nat /\ f[from] <= SumFunction(f)
    BY <1>1, SumOfBalances
  <2>2. b.issuance = SumFunction(f) + held
    BY DEF Sound
  <2> QED
    BY <1>1, <1>2, <2>1, <2>2, SMTT(30)
<1>4. CASE from = to
  <2>1. c = b
    BY <1>4 DEF Transferred
  <2>2. 0 \in Dust
    BY BalancesAssumption, SMTT(30) DEF Dust
  <2>3. f = [a \in Accounts |->
               f[a] - (IF a = from THEN v + 0 ELSE 0) + (IF a = to THEN v ELSE 0)]
    BY <1>1, <1>4, SMTT(30)
  <2>4. BookMoved(b, c, from, to, v, 0)
    BY <1>1, <1>2, <2>1, <2>3, SMTT(30) DEF BookMoved
  <2> QED
    BY <1>3, <2>1, <2>2, <2>4
<1>5. CASE from # to
  <2> DEFINE rest == f[from] - v
             dust == rest - Kept(rest)
             g == [f EXCEPT ![from] = Kept(rest)]
             h == [g EXCEPT ![to] = f[to] + v]
             m == [free |-> g, issuance |-> b.issuance - dust]
  <2>1. /\ rest \in Nat /\ Kept(rest) \in Nat /\ dust \in Dust /\ dust \in Nat
        /\ Kept(rest) # 0 => Kept(rest) >= ExistentialDeposit
        /\ dust > 0 => Kept(rest) = 0
    <3>1. rest \in Nat
      BY <1>1, <1>2, SMTT(30)
    <3> HIDE DEF rest
    <3>2. /\ Kept(rest) \in Nat /\ rest - Kept(rest) \in Dust
          /\ Kept(rest) = rest \/ Kept(rest) = 0
          /\ Kept(rest) # 0 => Kept(rest) >= ExistentialDeposit
      BY <3>1, KeptType
    <3> QED
      BY <3>1, <3>2, BalancesAssumption, SMTT(30) DEF Dust
  <2>2. c = [free |-> h, issuance |-> b.issuance - dust]
    BY <1>1, <1>5 DEF Transferred
  <2>3. f[from] = v + Kept(rest) + dust /\ dust <= b.issuance
    BY <1>1, <1>3, <2>1, SMTT(30)
  <2> HIDE DEF dust
  <2>4. g \in [Accounts -> Nat] /\ h \in [Accounts -> Nat] /\ g[to] = f[to]
    BY <1>1, <1>5, <2>1, SMTT(30)
  <2>5. m \in Book /\ m.free = g /\ m.issuance = b.issuance - dust
    BY <1>1, <2>1, <2>3, <2>4, SMTT(30) DEF Book
  <2>6. c \in Book /\ c.free = h /\ c.issuance = b.issuance - dust
    BY <1>1, <2>1, <2>2, <2>3, <2>4, SMTT(30) DEF Book
  <2>7. Sound(m, held + v)
    <3>1. m.issuance = b.issuance - held - f[from] + Kept(rest) + (held + v)
      BY <1>1, <2>1, <2>3, <2>5, SMTT(30)
    <3> HIDE DEF m, g, rest
    <3> QED
      BY <2>1, <2>5, <3>1, BalanceChange, SMTT(30) DEF g
  <2>8. v # 0 => f[to] + v >= ExistentialDeposit
    BY <1>5 DEF CanTransfer
  <2>9. f[to] # 0 => f[to] >= ExistentialDeposit
    BY DEF Sound, NoDust
  <2>10. Sound(c, held)
    <3>1. f[to] + v # 0 => f[to] + v >= ExistentialDeposit
      BY <1>1, <2>8, <2>9, BalancesAssumption, SMTT(30)
    <3>2. c.issuance = m.issuance - (held + v) - m.free[to] + (f[to] + v) + held
      BY <1>1, <2>1, <2>3, <2>4, <2>5, <2>6, SMTT(30)
    <3>3. c.free = [m.free EXCEPT ![to] = f[to] + v]
      BY <2>5, <2>6
    <3> DEFINE w == f[to] + v
               kept == held + v
    <3>4. w \in Nat /\ kept \in Nat
      BY <1>1, SMTT(30)
    <3>5. m \in Book /\ c \in Book /\ Sound(m, kept)
      BY <2>5, <2>6, <2>7
    <3>6. /\ w # 0 => w >= ExistentialDeposit
          /\ c.free = [m.free EXCEPT ![to] = w]
          /\ c.issuance = m.issuance - kept - m.free[to] + w + held
      BY <3>1, <3>2, <3>3
    <3> HIDE DEF m, w, kept
    <3> QED
      BY <3>4, <3>5, <3>6, BalanceChange, SMTT(30)
  <2>11. h = [a \in Accounts |->
                f[a] - (IF a = from THEN v + dust ELSE 0) + (IF a = to THEN v ELSE 0)]
    <3>1. h[from] = Kept(rest) /\ h[to] = f[to] + v
      BY <1>5, <2>4
    <3>2. ASSUME NEW a \in Accounts
          PROVE  h[a] = f[a] - (IF a = from THEN v + dust ELSE 0)
                             + (IF a = to THEN v ELSE 0)
      <4>1. f[a] \in Nat
        BY <1>1
      <4>2. CASE a = from
        BY <1>1, <1>5, <2>1, <2>3, <3>1, <4>2, SMTT(30)
      <4>3. CASE a = to
        BY <1>1, <1>5, <3>1, <4>3, SMTT(30)
      <4>4. CASE a # from /\ a # to
        BY <2>4, <4>1, <4>4, SMTT(30)
      <4> QED
        BY <4>2, <4>3, <4>4
    <3> HIDE DEF h
    <3> QED
      BY <2>4, <3>2
  <2>12. BookMoved(b, c, from, to, v, dust)
    BY <1>1, <2>1, <2>3, <2>6, <2>11, SMTT(30) DEF BookMoved
  <2> QED
    BY <1>3, <2>1, <2>6, <2>10, <2>12
<1> QED
  BY <1>4, <1>5

\* Withdrawing a fee moves it from the balances to what is held.
LEMMA WithdrawSound ==
    ASSUME NEW b \in Book, Sound(b, 0), NEW who \in Accounts, NEW v \in Nat,
           CanWithdraw(b, who, v), NEW c, c = Withdrawn(b, who, v)
    PROVE  /\ c \in Book /\ Sound(c, v) /\ v \in 0 .. b.free[who]
           /\ c.free = [b.free EXCEPT ![who] = b.free[who] - v]
           /\ c.issuance = b.issuance
<1>1. b.free \in [Accounts -> Nat] /\ b.issuance \in Nat /\ b.free[who] \in Nat
  BY BookType
<1>2. v \in 0 .. b.free[who] /\ b.free[who] - v \in Nat
  BY <1>1, BalancesAssumption, SMTT(30) DEF CanWithdraw
<1>3. c = [b EXCEPT !.free = [b.free EXCEPT ![who] = b.free[who] - v]]
  BY DEF Withdrawn
<1>4. c.free = [b.free EXCEPT ![who] = b.free[who] - v] /\ c.issuance = b.issuance
  BY <1>3 DEF Book
<1>5. [b.free EXCEPT ![who] = b.free[who] - v] \in [Accounts -> Nat]
  BY <1>1, <1>2
<1>6. c \in Book
  BY <1>3, <1>5 DEF Book
<1>7. b.free[who] - v # 0 => b.free[who] - v >= ExistentialDeposit
  BY <1>1, SMTT(30) DEF CanWithdraw, Sound, NoDust
<1>8. c.issuance = b.issuance - 0 - b.free[who] + (b.free[who] - v) + v
  BY <1>1, <1>4, SMTT(30)
<1>9. Sound(c, v)
  BY <1>2, <1>4, <1>6, <1>7, <1>8, BalanceChange, SMTT(30)
<1> QED
  BY <1>2, <1>4, <1>6, <1>9

\* Crediting a part of what is held moves it back to a balance.
LEMMA CreditSound ==
    ASSUME NEW b \in Book, NEW held \in Nat, Sound(b, held), NEW who \in Accounts,
           NEW v \in 0 .. held, v # 0 => b.free[who] > 0 \/ v >= ExistentialDeposit,
           NEW c, c = Credited(b, who, v)
    PROVE  /\ c \in Book /\ Sound(c, held - v)
           /\ c.free = [b.free EXCEPT ![who] = b.free[who] + v]
           /\ c.issuance = b.issuance
<1>1. b.free \in [Accounts -> Nat] /\ b.issuance \in Nat /\ b.free[who] \in Nat
  BY BookType
<1>2. v \in Nat /\ held - v \in Nat /\ b.free[who] + v \in Nat
  BY <1>1, SMTT(30)
<1>3. c = [b EXCEPT !.free = [b.free EXCEPT ![who] = b.free[who] + v]]
  BY DEF Credited
<1>4. c.free = [b.free EXCEPT ![who] = b.free[who] + v] /\ c.issuance = b.issuance
  BY <1>3 DEF Book
<1>5. [b.free EXCEPT ![who] = b.free[who] + v] \in [Accounts -> Nat]
  BY <1>1, <1>2
<1>6. c \in Book
  BY <1>3, <1>5 DEF Book
<1>7. b.free[who] + v # 0 => b.free[who] + v >= ExistentialDeposit
  <2>1. b.free[who] # 0 => b.free[who] >= ExistentialDeposit
    BY DEF Sound, NoDust
  <2> QED
    BY <1>1, <1>2, <2>1, BalancesAssumption, SMTT(30)
<1>8. c.issuance = b.issuance - held - b.free[who] + (b.free[who] + v) + (held - v)
  BY <1>1, <1>2, <1>4, SMTT(30)
<1>9. Sound(c, held - v)
  BY <1>2, <1>4, <1>6, <1>7, <1>8, BalanceChange, SMTT(30)
<1> QED
  BY <1>4, <1>6, <1>9

\* Dropping a part of what is held burns it.
LEMMA DropSound ==
    ASSUME NEW b \in Book, NEW held \in Nat, Sound(b, held), NEW v \in 0 .. held,
           NEW c, c = Dropped(b, v)
    PROVE  /\ c \in Book /\ Sound(c, held - v)
           /\ c.free = b.free /\ c.issuance = b.issuance - v
<1>1. b.free \in [Accounts -> Nat] /\ b.issuance \in Nat
  BY BookType
<1>2. SumFunction(b.free) \in Nat
  BY <1>1, SumOfBalances, PrecompileAssumption
<1>3. b.issuance = SumFunction(b.free) + held /\ NoDust(b)
  BY DEF Sound
<1>4. c = [b EXCEPT !.issuance = b.issuance - v]
  BY DEF Dropped
<1>5. c.free = b.free /\ c.issuance = b.issuance - v
  BY <1>4 DEF Book
<1>6. b.issuance - v \in Nat
  BY <1>1, <1>2, <1>3, SMTT(30)
<1>7. c \in Book
  BY <1>4, <1>6 DEF Book
<1>8. c.issuance = SumFunction(c.free) + (held - v)
  BY <1>2, <1>3, <1>5, SMTT(30)
<1> QED
  BY <1>3, <1>5, <1>7, <1>8 DEF Sound, NoDust

(***************************************************************************)
(* DealWithFees: what the author gets and what is burned come to the fee   *)
(* and the tip.                                                            *)
(***************************************************************************)
\* Of what was paid, a reward goes to some account, and the rest is burned.
Rewarded(b, c, paid) ==
    \E a \in Accounts, reward \in 0 .. paid :
      /\ c.free = [b.free EXCEPT ![a] = b.free[a] + reward]
      /\ c.issuance = b.issuance - (paid - reward)

\* DealWithFees leaves nothing held: it is the author's or burned.
LEMMA DealSound ==
    ASSUME NEW b \in Book, NEW fee \in Nat, NEW tip \in Nat, NEW paid,
           paid = fee + tip, Sound(b, paid),
           author \in Authors \cup {NoAuthor}, NEW c, c = DealWithFees(b, fee, tip)
    PROVE  c \in Book /\ Sound(c, 0) /\ Rewarded(b, c, paid)
<1> DEFINE due == fee - Ration(fee) + tip
           reward == ToAuthor(b, due)
           burned == Dropped(b, paid - reward)
<1>1. paid \in Nat /\ due \in 0 .. paid
  BY SMTT(30) DEF Ration
<1> HIDE DEF due
<1>2. /\ reward \in 0 .. paid
      /\ reward # 0 => /\ author \in Accounts
                       /\ b.free[author] > 0 \/ reward >= ExistentialDeposit
  BY <1>1, RuntimeAssumption, SMTT(30) DEF ToAuthor, Creating
<1>3. c = IF reward = 0 THEN burned ELSE Credited(burned, author, reward)
  <2>1. paid - reward = fee + tip - reward
    BY <1>2, SMTT(30)
  <2> QED
    BY <2>1 DEF DealWithFees, due
<1> HIDE DEF reward
<1>4. paid - reward \in 0 .. paid /\ paid - (paid - reward) = reward
  BY <1>1, <1>2, SMTT(30)
<1>5. /\ burned \in Book /\ Sound(burned, paid - (paid - reward))
      /\ burned.free = b.free /\ burned.issuance = b.issuance - (paid - reward)
  BY <1>1, <1>4, DropSound, SMTT(30)
<1>6. Sound(burned, reward)
  BY <1>4, <1>5
<1> HIDE DEF burned
<1>7. CASE reward = 0
  <2>1. b.free = [b.free EXCEPT ![Precompile] = b.free[Precompile] + reward]
    BY <1>7, BookType, PrecompileAssumption, SMTT(30)
  <2> QED
    BY <1>2, <1>3, <1>5, <1>6, <1>7, <2>1, PrecompileAssumption DEF Rewarded
<1>8. CASE reward # 0
  <2>1. reward \in Nat /\ reward \in 0 .. reward
    BY <1>2, SMTT(30)
  <2>2. /\ c \in Book /\ Sound(c, reward - reward)
        /\ c.free = [burned.free EXCEPT ![author] = burned.free[author] + reward]
        /\ c.issuance = burned.issuance
    BY <1>2, <1>3, <1>5, <1>6, <1>8, <2>1, CreditSound, SMTT(30)
  <2>3. reward - reward = 0
    BY <2>1, SMTT(30)
  <2> QED
    BY <1>2, <1>5, <1>8, <2>2, <2>3, SMTT(30) DEF Rewarded
<1> QED
  BY <1>7, <1>8

-----------------------------------------------------------------------------
(***************************************************************************)
(* The invariant, step by step.                                            *)
(***************************************************************************)

\* Storage as it is now.
LEMMA NowFields == Now.book = book /\ Now.approves = approves /\ Now.nonces = nonces
BY DEF Now

\* What RuntimeInv says of storage, in the form the steps use.
LEMMA StorageType ==
    ASSUME RuntimeInv
    PROVE  /\ Now \in Stored
           /\ book \in Book /\ approves \in Allowances /\ nonces \in [Accounts -> Nat]
           /\ payment.held \in Nat /\ Sound(book, payment.held)
           /\ payment = NoPayment => payment.held = 0
           /\ evm = NoCall \/ evm \in CallRecord
<1>1. Now \in Stored
  BY DEF RuntimeInv
<1>2. book \in Book /\ approves \in Allowances /\ nonces \in [Accounts -> Nat]
  BY <1>1 DEF Stored, Now
<1>3. payment = NoPayment => payment.held = 0
  BY SMTT(30) DEF NoPayment
<1>4. payment.held \in Nat
  BY <1>3, SMTT(30) DEF RuntimeInv, PaymentRecord
<1> QED
  BY <1>1, <1>2, <1>3, <1>4 DEF RuntimeInv

\* A running call is not the absent one.
LEMMA CallNotNone ==
    ASSUME NEW c \in CallRecord
    PROVE  c # NoCall /\ c.at # "none"
<1>1. c.at # "none"
  BY DEF CallRecord
<1>2. NoCall.at = "none"
  BY DEF NoCall
<1> QED
  BY <1>1, <1>2

\* Outside of a call.
LEMMA OutsideStep ==
    ASSUME book' \in Book, approves' \in Allowances, nonces' \in [Accounts -> Nat],
           moment' \in Nat, evm' = NoCall,
           paused' \subseteq {c \in CallNames : c.pallet # ThisPallet},
           author' \in Authors \cup {NoAuthor},
           payment' = NoPayment \/ payment' \in PaymentRecord,
           Sound(book', payment'.held)
    PROVE  RuntimeInv'
<1>1. Now' \in Stored
  BY DEF Now, Stored
<1> QED
  BY <1>1 DEF RuntimeInv

\* In a call.
LEMMA InsideStep ==
    ASSUME RuntimeInv, payment = NoPayment, UNCHANGED <<moment, paused, author, payment>>,
           book' \in Book, approves' \in Allowances, nonces' \in [Accounts -> Nat],
           Sound(book', 0), evm' \in CallRecord, Stands(evm', Now', Timestamp)
    PROVE  RuntimeInv'
<1>1. Now' \in Stored
  BY DEF Now, Stored
<1>2. Timestamp' = Timestamp
  BY DEF Timestamp
<1>3. Sound(book', payment'.held)
  BY StorageType
<1> QED
  BY <1>1, <1>2, <1>3 DEF RuntimeInv

\* A call that starts keeps the storage it found.
LEMMA RunningType ==
    ASSUME RuntimeInv, NEW at \in {"dispatch", "permit", "log"}, NEW caller \in Users,
           NEW from \in Accounts, NEW to \in Accounts, NEW v \in Nat,
           NEW c, c = Running(at, caller, from, to, v)
    PROVE  /\ c \in CallRecord /\ c.at = at /\ c.caller = caller /\ c.from = from
           /\ c.to = to /\ c.value = v /\ c.saved = Now
<1>1. Running(at, caller, from, to, v) =
        [at |-> at, caller |-> caller, from |-> from, to |-> to, value |-> v, saved |-> Now]
  BY DEF Running, Now
<1>2. Now \in Stored
  BY StorageType
<1> QED
  BY <1>1, <1>2, SMTT(30) DEF CallRecord

\* A call that has done all its writes at once.
LEMMA WrittenStep ==
    ASSUME RuntimeInv, payment = NoPayment, UNCHANGED <<moment, paused, author, payment>>,
           book' \in Book, approves' \in Allowances, nonces' \in [Accounts -> Nat],
           Sound(book', 0), NEW caller \in Users, evm' = Written(caller),
           Did(Now, Now', caller, Timestamp)
    PROVE  RuntimeInv'
<1>1. /\ evm' \in CallRecord /\ evm'.at = "log" /\ evm'.caller = caller
      /\ evm'.saved = Now
  <2>1. caller \in Accounts
    BY PrecompileAssumption
  <2>2. evm' = Running("log", caller, caller, caller, 0)
    BY DEF Written
  <2> QED
    BY <2>1, <2>2, RunningType, SMTT(30)
<1>2. Sound(evm'.saved.book, 0)
  BY <1>1, StorageType, NowFields
<1>3. Stands(evm', Now', Timestamp)
  BY <1>1, <1>2 DEF Stands
<1> QED
  BY <1>1, <1>3, InsideStep

\* approve keeps the invariant.
LEMMA ApproveStep ==
    ASSUME RuntimeInv, payment = NoPayment, UNCHANGED <<paused, author, payment>>,
           NEW caller \in Users, NEW u \in Users, NEW v \in Values, Approve(caller, u, v)
    PROVE  RuntimeInv'
<1>1. /\ approves' = [approves EXCEPT ![caller][u] = Saturated(v)]
      /\ evm' = Written(caller) /\ UNCHANGED <<book, nonces, moment>>
  BY DEF Approve
<1>2. v \in Nat /\ Saturated(v) \in 0 .. MaxBalance
  BY PrecompileAssumption, SMTT(30) DEF Saturated, U256ToAmountFits
<1>3. caller \in Accounts /\ u \in Accounts
  BY PrecompileAssumption
<1>4. /\ book \in Book /\ approves \in Allowances /\ nonces \in [Accounts -> Nat]
      /\ Sound(book, 0)
  BY StorageType
<1>5. approves' \in Allowances
  BY <1>1, <1>2, <1>3, <1>4 DEF Allowances
<1>6. DidApprove(Now, Now', caller)
  BY <1>1, <1>2, <1>3 DEF DidApprove, Now
<1>7. Did(Now, Now', caller, Timestamp)
  BY <1>6 DEF Did
<1> QED
  BY <1>1, <1>4, <1>5, <1>7, WrittenStep

\* What deposit sends to the precompile comes back, but for dust.
LEMMA DepositBack ==
    ASSUME NEW b \in Book, Sound(b, 0), NEW who \in Accounts, NEW v \in Nat, v # 0,
           CanTransfer(b, who, Precompile, v),
           NEW c, c = Transferred(b, who, Precompile, v),
           CanTransfer(c, Precompile, who, v),
           NEW d, d = Transferred(c, Precompile, who, v)
    PROVE  \E dust \in Dust :
             /\ b.free[who] > dust
             /\ d.free = [b.free EXCEPT ![who] = b.free[who] - dust]
             /\ d.issuance = b.issuance - dust
<1>1. /\ Precompile \in Accounts /\ b.free \in [Accounts -> Nat] /\ b.issuance \in Nat
      /\ b.free[who] \in Nat /\ b.free[Precompile] \in Nat
  BY BookType, PrecompileAssumption
<1>2. CASE who = Precompile
  <2>1. d = b
    BY <1>2 DEF Transferred
  <2>2. b.free[who] > 0 /\ 0 \in Dust /\ b.free[who] - 0 = b.free[who]
    BY <1>1, BalancesAssumption, SMTT(30) DEF CanTransfer, Dust
  <2>3. b.free = [b.free EXCEPT ![who] = b.free[who] - 0] /\ b.issuance = b.issuance - 0
    BY <1>1, <2>2, SMTT(30)
  <2> QED
    BY <2>1, <2>2, <2>3
<1>3. CASE who # Precompile
  <2>1. /\ c \in Book /\ Sound(c, 0)
        /\ \E dust \in Dust : BookMoved(b, c, who, Precompile, v, dust)
    BY <1>1, TransferSound
  <2>2. PICK dust \in Dust : BookMoved(b, c, who, Precompile, v, dust)
    BY <2>1
  <2>3. PICK more \in Dust : BookMoved(c, d, Precompile, who, v, more)
    BY <1>1, <2>1, TransferSound
  <2>4. /\ b.free[who] >= v + dust
        /\ c.free = [a \in Accounts |->
             b.free[a] - (IF a = who THEN v + dust ELSE 0)
                       + (IF a = Precompile THEN v ELSE 0)]
        /\ c.issuance = b.issuance - dust
    BY <2>2 DEF BookMoved
  <2>5. /\ more > 0 => c.free[Precompile] = v + more
        /\ d.free = [a \in Accounts |->
             c.free[a] - (IF a = Precompile THEN v + more ELSE 0)
                       + (IF a = who THEN v ELSE 0)]
        /\ d.issuance = c.issuance - more
    BY <2>3 DEF BookMoved
  <2>6. dust \in Nat /\ more \in Nat /\ dust < ExistentialDeposit /\ more < ExistentialDeposit
    BY BalancesAssumption, SMTT(30) DEF Dust
  <2>7. /\ c.free[Precompile] = b.free[Precompile] + v
        /\ c.free[who] = b.free[who] - v - dust
    BY <1>1, <1>3, <2>4, <2>6, SMTT(30)
  <2>8. more = 0
    <3>1. b.free[Precompile] # 0 => b.free[Precompile] >= ExistentialDeposit
      BY <1>1 DEF Sound, NoDust
    <3> QED
      BY <1>1, <2>5, <2>6, <2>7, <3>1, BalancesAssumption, SMTT(30)
  <2>9. ASSUME NEW a \in Accounts
        PROVE  d.free[a] = IF a = who THEN b.free[who] - dust ELSE b.free[a]
    <3>1. b.free[a] \in Nat
      BY <1>1
    <3>2. CASE a = who
      BY <1>1, <1>3, <2>5, <2>6, <2>7, <2>8, <3>2, SMTT(30)
    <3>3. CASE a = Precompile
      BY <1>1, <1>3, <2>5, <2>7, <2>8, <3>3, SMTT(30)
    <3>4. CASE a # who /\ a # Precompile
      <4>1. c.free[a] = b.free[a]
        BY <2>4, <3>1, <3>4, SMTT(30)
      <4> QED
        BY <2>5, <3>1, <3>4, <4>1, SMTT(30)
    <3> QED
      BY <3>2, <3>3, <3>4
  <2>10. d.free = [b.free EXCEPT ![who] = b.free[who] - dust]
    <3>1. d.free = [a \in Accounts |-> d.free[a]]
      BY <2>5
    <3> QED
      BY <1>1, <2>9, <3>1
  <2>11. b.free[who] > dust /\ d.issuance = b.issuance - dust
    BY <1>1, <2>4, <2>5, <2>6, <2>8, SMTT(30)
  <2> QED
    BY <2>10, <2>11
<1> QED
  BY <1>2, <1>3

\* transfer keeps the invariant.
LEMMA TransferStep ==
    ASSUME RuntimeInv, payment = NoPayment, UNCHANGED <<paused, author, payment>>,
           NEW caller \in Users, NEW to \in Accounts, NEW v \in Values,
           Transfer(caller, to, v)
    PROVE  RuntimeInv'
<1>1. /\ CanTransfer(book, caller, to, v) /\ book' = Transferred(book, caller, to, v)
      /\ evm' = Written(caller) /\ UNCHANGED <<approves, nonces, moment>>
  BY DEF Transfer
<1>2. caller \in Accounts /\ v \in Nat
  BY PrecompileAssumption
<1>3. /\ book \in Book /\ approves \in Allowances /\ nonces \in [Accounts -> Nat]
      /\ Sound(book, 0)
  BY StorageType
<1>4. /\ book' \in Book /\ Sound(book', 0) /\ v \in 0 .. book.issuance
      /\ \E dust \in Dust : BookMoved(book, book', caller, to, v, dust)
  BY <1>1, <1>2, <1>3, TransferSound
<1>5. DidTransfer(Now, Now', caller)
  BY <1>1, <1>4 DEF DidTransfer, Moved, Now
<1>6. Did(Now, Now', caller, Timestamp)
  BY <1>5 DEF Did
<1> QED
  BY <1>1, <1>3, <1>4, <1>6, WrittenStep

\* withdraw keeps the invariant.
LEMMA WithdrawStep ==
    ASSUME RuntimeInv, payment = NoPayment, UNCHANGED <<paused, author, payment>>,
           NEW caller \in Users, NEW v \in Values, Withdraw(caller, v)
    PROVE  RuntimeInv'
<1>1. evm' = Written(caller) /\ UNCHANGED <<book, approves, nonces, moment>>
  BY DEF Withdraw
<1>2. /\ book \in Book /\ approves \in Allowances /\ nonces \in [Accounts -> Nat]
      /\ Sound(book, 0)
  BY StorageType
<1>3. Now' = Now
  BY <1>1 DEF Now
<1>4. Did(Now, Now', caller, Timestamp)
  BY <1>3 DEF Did
<1> QED
  BY <1>1, <1>2, <1>4, WrittenStep

\* transferFrom keeps the invariant when it has lowered the allowance.
LEMMA TransferFromStep ==
    ASSUME RuntimeInv, payment = NoPayment, UNCHANGED <<paused, author, payment>>,
           NEW caller \in Users, NEW from \in Users, NEW to \in Accounts, NEW v \in Values,
           TransferFrom(caller, from, to, v)
    PROVE  RuntimeInv'
<1>1. /\ evm' = Running("dispatch", caller, from, to, v)
      /\ UNCHANGED <<book, nonces, moment>>
      /\ \/ caller = from /\ approves' = approves
         \/ /\ approves[from][caller] # NoEntry /\ approves[from][caller] >= v
            /\ approves' = [approves EXCEPT ![from][caller] = approves[from][caller] - v]
  BY DEF TransferFrom
<1>2. caller \in Accounts /\ from \in Accounts /\ v \in Nat
  BY PrecompileAssumption
<1>3. /\ book \in Book /\ approves \in Allowances /\ nonces \in [Accounts -> Nat]
      /\ Sound(book, 0)
  BY StorageType
<1>4. approves' \in Allowances
  <2>1. CASE approves' = approves
    BY <1>3, <2>1
  <2>2. CASE approves' # approves
    <3>1. approves[from][caller] - v \in (0 .. MaxBalance) \cup {NoEntry}
      <4>1. approves[from][caller] \in (0 .. MaxBalance) \cup {NoEntry}
        BY <1>2, <1>3 DEF Allowances
      <4>2. approves[from][caller] \in 0 .. MaxBalance /\ approves[from][caller] >= v
        BY <1>1, <2>2, <4>1
      <4> QED
        BY <1>2, <4>2, PrecompileAssumption, SMTT(30)
    <3>2. approves' = [approves EXCEPT ![from][caller] = approves[from][caller] - v]
      BY <1>1, <2>2
    <3> QED
      BY <1>2, <1>3, <3>1, <3>2 DEF Allowances
  <2> QED
    BY <2>1, <2>2
<1>5. /\ evm' \in CallRecord /\ evm'.at = "dispatch" /\ evm'.caller = caller
      /\ evm'.from = from /\ evm'.value = v /\ evm'.saved = Now
  BY <1>1, <1>2, RunningType, SMTT(30)
<1>6. HalfTransferFrom(Now, Now', evm')
  BY <1>1, <1>5 DEF HalfTransferFrom, Spends, Now
<1>7. Sound(evm'.saved.book, 0)
  BY <1>3, <1>5, NowFields
<1>8. Stands(evm', Now', Timestamp)
  BY <1>5, <1>6, <1>7 DEF Stands
<1> QED
  BY <1>1, <1>3, <1>4, <1>5, <1>8, InsideStep

\* deposit keeps the invariant when the EVM has moved the value.
LEMMA DepositStep ==
    ASSUME RuntimeInv, payment = NoPayment, UNCHANGED <<paused, author, payment>>,
           NEW caller \in Users, NEW v \in Values, Deposit(caller, v)
    PROVE  RuntimeInv'
<1>1. /\ v # 0 /\ CanTransfer(book, caller, Precompile, v)
      /\ book' = Transferred(book, caller, Precompile, v)
      /\ evm' = Running("dispatch", caller, Precompile, caller, v)
      /\ UNCHANGED <<approves, nonces, moment>>
  BY DEF Deposit
<1>2. caller \in Accounts /\ Precompile \in Accounts /\ v \in Nat
  BY PrecompileAssumption
<1>3. /\ book \in Book /\ approves \in Allowances /\ nonces \in [Accounts -> Nat]
      /\ Sound(book, 0)
  BY StorageType
<1>4. book' \in Book /\ Sound(book', 0)
  BY <1>1, <1>2, <1>3, TransferSound
<1>5. /\ evm' \in CallRecord /\ evm'.at = "dispatch" /\ evm'.caller = caller
      /\ evm'.from = Precompile /\ evm'.to = caller /\ evm'.value = v /\ evm'.saved = Now
  BY <1>1, <1>2, RunningType, SMTT(30)
<1>6. HalfDeposit(Now, Now', evm')
  BY <1>1, <1>5 DEF HalfDeposit, Now
<1>7. Sound(evm'.saved.book, 0)
  BY <1>3, <1>5, NowFields
<1>8. Stands(evm', Now', Timestamp)
  BY <1>5, <1>6, <1>7 DEF Stands
<1> QED
  BY <1>1, <1>3, <1>4, <1>5, <1>8, InsideStep

\* permit keeps the invariant when it has counted the nonce up.
LEMMA PermitStep ==
    ASSUME RuntimeInv, payment = NoPayment, UNCHANGED <<paused, author, payment>>,
           NEW caller \in Users, NEW p \in Permits, NEW s \in Permits,
           Permit(caller, p.owner, p.spender, p.value, p.deadline, s)
    PROVE  RuntimeInv'
<1>1. /\ p.deadline >= Timestamp
      /\ s = GeneratePermit(p.owner, p.spender, p.value, p.deadline)
      /\ nonces' = [nonces EXCEPT ![p.owner] = nonces[p.owner] + 1]
      /\ evm' = Running("permit", caller, p.owner, p.spender, p.value)
      /\ UNCHANGED <<book, approves, moment>>
  BY DEF Permit
<1>2. p.owner \in Accounts /\ p.spender \in Accounts /\ p.value \in Nat
  BY PrecompileAssumption
<1>3. /\ book \in Book /\ approves \in Allowances /\ nonces \in [Accounts -> Nat]
      /\ Sound(book, 0)
  BY StorageType
<1>4. nonces' \in [Accounts -> Nat]
  BY <1>1, <1>2, <1>3, SMTT(30)
<1>5. /\ evm' \in CallRecord /\ evm'.at = "permit" /\ evm'.from = p.owner
      /\ evm'.to = p.spender /\ evm'.value = p.value /\ evm'.saved = Now
  BY <1>1, <1>2, RunningType, SMTT(30)
<1>6. /\ s.domain = Domain /\ s.owner = p.owner /\ s.spender = p.spender
      /\ s.value = p.value /\ s.nonce = nonces[p.owner] /\ s.deadline = p.deadline
  BY <1>1 DEF GeneratePermit
<1>7. Timestamp <= p.deadline
  <2>1. p.deadline \in Nat /\ Timestamp \in Nat
    BY PrecompileAssumption, SMTT(30) DEF RuntimeInv, Timestamp
  <2> QED
    BY <1>1, <2>1
<1>8. Presents(Now, p.owner, p.spender, p.value, s, Timestamp)
  BY <1>6, <1>7, NowFields DEF Presents
<1>9. HalfPermit(Now, Now', evm', Timestamp)
  BY <1>1, <1>5, <1>8 DEF HalfPermit, Now
<1>10. Sound(evm'.saved.book, 0)
  BY <1>3, <1>5, NowFields
<1>11. Stands(evm', Now', Timestamp)
  BY <1>5, <1>9, <1>10 DEF Stands
<1> QED
  BY <1>1, <1>3, <1>4, <1>5, <1>11, InsideStep

\* The last write of a call that takes two.
LEMMA FinishStep ==
    ASSUME RuntimeInv, payment = NoPayment, UNCHANGED <<moment, paused, author, payment>>,
           evm \in CallRecord, evm' = [Written(evm.caller) EXCEPT !.saved = evm.saved],
           book' \in Book, approves' \in Allowances, nonces' \in [Accounts -> Nat],
           Sound(book', 0), Did(evm.saved, Now', evm.caller, Timestamp)
    PROVE  RuntimeInv'
<1>1. PICK who \in Users : who = evm.caller
  BY DEF CallRecord
<1>2. PICK w : w = Running("log", who, who, who, 0)
  OBVIOUS
<1>3. evm' = [w EXCEPT !.saved = evm.saved]
  BY <1>1, <1>2 DEF Written
<1>4. w \in CallRecord /\ w.at = "log" /\ w.caller = who
  <2>1. who \in Accounts
    BY PrecompileAssumption
  <2> QED
    BY <1>2, <2>1, RunningType, SMTT(30)
<1>5. evm.saved \in Stored
  BY DEF CallRecord
<1>6. evm' \in CallRecord /\ evm'.saved = evm.saved /\ evm'.at = w.at /\ evm'.caller = w.caller
  BY <1>4, <1>5, <1>3 DEF CallRecord
<1>7. Sound(evm.saved.book, 0)
  BY CallNotNone DEF RuntimeInv, Stands
<1>8. Stands(evm', Now', Timestamp)
  BY <1>1, <1>4, <1>6, <1>7 DEF Stands
<1> QED
  BY <1>6, <1>8, InsideStep

\* transferFrom and deposit are complete once their transfer is made.
LEMMA DispatchStep ==
    ASSUME RuntimeInv, payment = NoPayment, UNCHANGED <<paused, author, payment>>, Dispatch
    PROVE  RuntimeInv'
<1> DEFINE s == evm.saved
           v == evm.value
<1>1. /\ evm.at = "dispatch" /\ CanTransfer(book, evm.from, evm.to, v)
      /\ book' = Transferred(book, evm.from, evm.to, v)
      /\ evm' = [Written(evm.caller) EXCEPT !.saved = evm.saved]
      /\ UNCHANGED <<approves, nonces, moment>>
  BY DEF Dispatch
<1>2. evm \in CallRecord /\ evm # NoCall
  BY <1>1, StorageType, CallNotNone, SMTT(30) DEF NoCall
<1>3. /\ book \in Book /\ approves \in Allowances /\ nonces \in [Accounts -> Nat]
      /\ Sound(book, 0)
  BY StorageType
<1>4. /\ evm.from \in Accounts /\ evm.to \in Accounts /\ v \in Nat
      /\ evm.caller \in Accounts /\ s.book \in Book
  BY <1>2, PrecompileAssumption DEF CallRecord, Stored
<1>5. /\ book' \in Book /\ Sound(book', 0) /\ v \in 0 .. book.issuance
      /\ \E dust \in Dust : BookMoved(book, book', evm.from, evm.to, v, dust)
  BY <1>1, <1>3, <1>4, TransferSound
<1>6. Sound(s.book, 0) /\ (HalfTransferFrom(s, Now, evm) \/ HalfDeposit(s, Now, evm))
  BY <1>1, <1>2 DEF RuntimeInv, Stands
<1>7. Did(s, Now', evm.caller, Timestamp)
  <2>1. CASE HalfTransferFrom(s, Now, evm)
    <3>1. /\ book = s.book /\ nonces = s.nonces
          /\ \/ evm.caller = evm.from /\ approves = s.approves
             \/ Spends(s, Now, evm.from, evm.caller, v)
      BY <2>1, NowFields DEF HalfTransferFrom
    <3>2. Now'.book = book' /\ Now'.approves = approves /\ Now'.nonces = nonces
      BY <1>1 DEF Now
    <3>3. PICK dust \in Dust : BookMoved(s.book, Now'.book, evm.from, evm.to, v, dust)
      BY <1>5, <3>1, <3>2
    <3>4. Moved(s, Now', evm.from, evm.to, v, dust) /\ v \in 0 .. s.book.issuance
      BY <1>5, <3>1, <3>2, <3>3 DEF Moved
    <3>5. CASE evm.caller = evm.from /\ approves = s.approves
      BY <1>4, <3>2, <3>4, <3>5 DEF Did, DidTransfer
    <3>6. CASE Spends(s, Now, evm.from, evm.caller, v)
      <4>1. Spends(s, Now', evm.from, evm.caller, v)
        BY <3>2, <3>6, NowFields DEF Spends
      <4> QED
        BY <1>4, <3>4, <4>1 DEF Did, DidTransferFrom
    <3> QED
      BY <3>1, <3>5, <3>6
  <2>2. CASE HalfDeposit(s, Now, evm)
    <3>1. /\ evm.from = Precompile /\ evm.to = evm.caller /\ v # 0
          /\ CanTransfer(s.book, evm.caller, Precompile, v)
          /\ book = Transferred(s.book, evm.caller, Precompile, v)
          /\ approves = s.approves /\ nonces = s.nonces
      BY <2>2, NowFields DEF HalfDeposit
    <3>2. \E dust \in Dust :
            /\ s.book.free[evm.caller] > dust
            /\ book'.free = [s.book.free EXCEPT ![evm.caller] = s.book.free[evm.caller] - dust]
            /\ book'.issuance = s.book.issuance - dust
      BY <1>1, <1>4, <1>6, <3>1, DepositBack, SMTT(30)
    <3>3. DidDeposit(s, Now', evm.caller)
      BY <1>1, <3>1, <3>2 DEF DidDeposit, Now
    <3> QED
      BY <3>3 DEF Did
  <2> QED
    BY <1>6, <2>1, <2>2
<1> QED
  BY <1>1, <1>2, <1>3, <1>5, <1>7, FinishStep

\* permit is complete once the allowance is written.
LEMMA PermitApprovesStep ==
    ASSUME RuntimeInv, payment = NoPayment, UNCHANGED <<paused, author, payment>>,
           PermitApproves
    PROVE  RuntimeInv'
<1> DEFINE s == evm.saved
<1>1. /\ evm.at = "permit"
      /\ approves' = [approves EXCEPT ![evm.from][evm.to] = Saturated(evm.value)]
      /\ evm' = [Written(evm.caller) EXCEPT !.saved = evm.saved]
      /\ UNCHANGED <<book, nonces, moment>>
  BY DEF PermitApproves
<1>2. evm \in CallRecord /\ evm # NoCall
  BY <1>1, StorageType, CallNotNone, SMTT(30) DEF NoCall
<1>3. /\ book \in Book /\ approves \in Allowances /\ nonces \in [Accounts -> Nat]
      /\ Sound(book, 0)
  BY StorageType
<1>4. evm.from \in Accounts /\ evm.to \in Accounts /\ evm.value \in Nat
  BY <1>2 DEF CallRecord
<1>5. Saturated(evm.value) \in 0 .. MaxBalance
  BY <1>4, PrecompileAssumption, SMTT(30) DEF Saturated, U256ToAmountFits
<1>6. approves' \in Allowances
  BY <1>1, <1>3, <1>4, <1>5 DEF Allowances
<1>7. HalfPermit(s, Now, evm, Timestamp)
  BY <1>1, <1>2 DEF RuntimeInv, Stands
<1>8. /\ book = s.book /\ approves = s.approves
      /\ nonces = [s.nonces EXCEPT ![evm.from] = s.nonces[evm.from] + 1]
  BY <1>7, NowFields DEF HalfPermit
<1>9. PICK p \in Permits : Presents(s, evm.from, evm.to, evm.value, p, Timestamp)
  BY <1>7 DEF HalfPermit
<1>10. p.owner = evm.from /\ p.spender = evm.to /\ p.value = evm.value
  BY <1>9 DEF Presents
<1>11. Now'.book = book /\ Now'.approves = approves' /\ Now'.nonces = nonces
  BY <1>1 DEF Now
<1>12. DidPermit(s, Now', Timestamp)
  BY <1>1, <1>8, <1>9, <1>10, <1>11 DEF DidPermit
<1>13. Did(s, Now', evm.caller, Timestamp)
  BY <1>12 DEF Did
<1> QED
  BY <1>1, <1>2, <1>3, <1>6, <1>13, FinishStep

\* A call that returns leaves storage as it is.
LEMMA ReturnStep ==
    ASSUME RuntimeInv, payment = NoPayment, UNCHANGED <<paused, author, payment>>, Return
    PROVE  RuntimeInv'
<1>1. evm' = NoCall /\ UNCHANGED <<book, approves, nonces, moment>>
  BY DEF Return
<1>2. /\ book \in Book /\ approves \in Allowances /\ nonces \in [Accounts -> Nat]
      /\ Sound(book, payment.held)
  BY StorageType
<1>3. /\ moment \in Nat /\ author \in Authors \cup {NoAuthor}
      /\ paused \subseteq {c \in CallNames : c.pallet # ThisPallet}
  BY DEF RuntimeInv
<1> QED
  BY <1>1, <1>2, <1>3, OutsideStep

\* A call that fails puts back storage that was sound.
LEMMA RevertStep ==
    ASSUME RuntimeInv, payment = NoPayment, UNCHANGED <<paused, author, payment>>, Revert
    PROVE  RuntimeInv'
<1>1. /\ evm # NoCall /\ evm' = NoCall /\ moment' = moment
      /\ book' = evm.saved.book /\ approves' = evm.saved.approves
      /\ nonces' = evm.saved.nonces
  BY DEF Revert
<1>2. evm \in CallRecord /\ payment.held = 0
  BY <1>1, StorageType
<1>3. evm.saved \in Stored
  BY <1>2 DEF CallRecord
<1>4. book' \in Book /\ approves' \in Allowances /\ nonces' \in [Accounts -> Nat]
  BY <1>1, <1>3 DEF Stored
<1>5. Sound(book', payment'.held)
  BY <1>1, <1>2 DEF RuntimeInv, Stands
<1>6. /\ moment \in Nat /\ author \in Authors \cup {NoAuthor}
      /\ paused \subseteq {c \in CallNames : c.pallet # ThisPallet}
  BY DEF RuntimeInv
<1> QED
  BY <1>1, <1>4, <1>5, <1>6, OutsideStep

\* Every step of a call to the precompile keeps the invariant.
LEMMA EvmStepInv ==
    ASSUME RuntimeInv, EvmStep
    PROVE  RuntimeInv'
<1>1. payment = NoPayment /\ UNCHANGED <<paused, author, payment>> /\ PrecompileNext
  BY DEF EvmStep, runtimeVars
<1>2. ASSUME NEW u \in Users, Call(u) PROVE RuntimeInv'
  <2>1. ASSUME NEW w \in Users \ {u}, NEW v \in Values, Approve(u, w, v)
        PROVE  RuntimeInv'
    <3>1. w \in Users
      OBVIOUS
    <3> QED
      BY <1>1, <2>1, <3>1, ApproveStep
  <2>2. ASSUME NEW to \in Accounts, NEW v \in Values, Transfer(u, to, v)
        PROVE  RuntimeInv'
    BY <1>1, <2>2, TransferStep
  <2>3. ASSUME NEW from \in Users, NEW to \in Accounts, NEW v \in Values,
               TransferFrom(u, from, to, v)
        PROVE  RuntimeInv'
    BY <1>1, <2>3, TransferFromStep
  <2>4. ASSUME NEW v \in Values, Deposit(u, v)
        PROVE  RuntimeInv'
    BY <1>1, <2>4, DepositStep
  <2>5. ASSUME NEW v \in Values, Withdraw(u, v)
        PROVE  RuntimeInv'
    BY <1>1, <2>5, WithdrawStep
  <2>6. ASSUME NEW p \in Permits, NEW s \in Permits,
               Permit(u, p.owner, p.spender, p.value, p.deadline, s)
        PROVE  RuntimeInv'
    BY <1>1, <2>6, PermitStep
  <2> QED
    BY <1>2, <2>1, <2>2, <2>3, <2>4, <2>5, <2>6 DEF Call
<1>3. CASE Dispatch
  BY <1>1, <1>3, DispatchStep
<1>4. CASE PermitApproves
  BY <1>1, <1>4, PermitApprovesStep
<1>5. CASE Return
  BY <1>1, <1>5, ReturnStep
<1>6. CASE Revert
  BY <1>1, <1>6, RevertStep
<1> QED
  BY <1>1, <1>2, <1>3, <1>4, <1>5, <1>6 DEF PrecompileNext

-----------------------------------------------------------------------------
(***************************************************************************)
(* Blocks and extrinsics.                                                  *)
(***************************************************************************)

\* A new block changes the clock and the author only.
LEMMA NewBlockStep ==
    ASSUME RuntimeInv, NewBlock
    PROVE  RuntimeInv'
<1>1. /\ evm = NoCall /\ payment = NoPayment
      /\ moment' = moment + 1 /\ author' \in Authors \cup {NoAuthor}
      /\ UNCHANGED <<book, approves, nonces, evm, paused, payment>>
  BY DEF NewBlock
<1>2. /\ book \in Book /\ approves \in Allowances /\ nonces \in [Accounts -> Nat]
      /\ Sound(book, payment.held)
  BY StorageType
<1>3. moment \in Nat /\ paused \subseteq {c \in CallNames : c.pallet # ThisPallet}
  BY DEF RuntimeInv
<1>4. moment' \in Nat
  BY <1>1, <1>3, SMTT(30)
<1> QED
  BY <1>1, <1>2, <1>3, <1>4, OutsideStep

\* No call runs inside an extrinsic, and its fee is covered.
LEMMA NoCallWhilePaying ==
    ASSUME RuntimeInv, payment # NoPayment
    PROVE  /\ evm = NoCall /\ payment \in PaymentRecord
           /\ payment.payer \in Users /\ payment.payer \in Accounts
           /\ payment.held \in Nat /\ payment.fee \in Nat /\ payment.tip \in Nat
           /\ payment.fee + payment.tip <= payment.held
<1>1. evm = NoCall /\ payment \in PaymentRecord
  BY DEF RuntimeInv
<1> QED
  BY <1>1, PrecompileAssumption DEF PaymentRecord

\* The most an extrinsic may cost, taken from its payer.
LEMMA FeeIsTaken ==
    ASSUME RuntimeInv, NEW u \in Users, NEW f \in Fees, WithdrawFee(u, f)
    PROVE  /\ book' \in Book /\ Sound(book', f.max) /\ f.max \in 0 .. book.free[u]
           /\ book'.free = [book.free EXCEPT ![u] = book.free[u] - f.max]
           /\ book'.issuance = book.issuance
<1>1. /\ payment = NoPayment /\ CanWithdraw(book, u, f.max)
      /\ book' = Withdrawn(book, u, f.max)
  BY DEF WithdrawFee
<1>2. u \in Accounts /\ f.max \in Nat /\ book \in Book /\ Sound(book, 0)
  BY <1>1, StorageType, PrecompileAssumption, RuntimeAssumption
<1> QED
  BY <1>1, <1>2, WithdrawSound, SMTT(30)

\* What an extrinsic is charged is held until it ends.
LEMMA WithdrawFeeStep ==
    ASSUME RuntimeInv, NEW u \in Users, NEW f \in Fees, WithdrawFee(u, f)
    PROVE  RuntimeInv'
<1>1. /\ evm = NoCall
      /\ payment' = [payer |-> u, held |-> f.max, fee |-> f.fee, tip |-> f.tip,
                     done |-> FALSE]
      /\ UNCHANGED <<approves, nonces, moment, evm, paused, author>>
  BY DEF WithdrawFee
<1>2. f.max \in Nat /\ f.fee \in Nat /\ f.tip \in Nat /\ f.max - f.tip >= f.fee
  BY RuntimeAssumption
<1>3. payment' \in PaymentRecord
  <2>1. f.fee + f.tip <= f.max
    BY <1>2, SMTT(30)
  <2> QED
    BY <1>1, <1>2, <2>1 DEF PaymentRecord
<1>4. book' \in Book /\ Sound(book', payment'.held)
  BY <1>1, FeeIsTaken
<1>5. approves \in Allowances /\ nonces \in [Accounts -> Nat]
  BY StorageType
<1>6. /\ moment \in Nat /\ author \in Authors \cup {NoAuthor}
      /\ paused \subseteq {c \in CallNames : c.pallet # ThisPallet}
  BY DEF RuntimeInv
<1> QED
  BY <1>1, <1>3, <1>4, <1>5, <1>6, OutsideStep

\* An extrinsic that ends: its fee is known, and not more than it was.
LEMMA ExtrinsicEnds ==
    ASSUME RuntimeInv, NEW fee \in 0 .. payment.fee, ExtrinsicDone(fee)
    PROVE  /\ payment # NoPayment /\ payment' \in PaymentRecord
           /\ payment'.held = payment.held /\ payment'.payer = payment.payer
           /\ evm' = NoCall /\ approves' \in Allowances /\ nonces' \in [Accounts -> Nat]
           /\ moment' \in Nat /\ author' \in Authors \cup {NoAuthor}
<1>1. /\ payment # NoPayment /\ payment' = [payment EXCEPT !.done = TRUE, !.fee = fee]
      /\ UNCHANGED <<approves, nonces, moment, evm, author>>
  BY DEF ExtrinsicDone
<1>2. /\ evm = NoCall /\ payment \in PaymentRecord /\ payment.fee \in Nat
      /\ payment.held \in Nat /\ payment.tip \in Nat
      /\ payment.fee + payment.tip <= payment.held
  BY <1>1, NoCallWhilePaying
<1>3. payment \in [payer : Users, held : Nat, fee : Nat, tip : Nat, done : BOOLEAN]
  BY <1>2 DEF PaymentRecord
<1>4. fee \in Nat /\ fee + payment.tip <= payment.held
  BY <1>2, SMTT(30)
<1>5. /\ payment' \in [payer : Users, held : Nat, fee : Nat, tip : Nat, done : BOOLEAN]
      /\ payment'.held = payment.held /\ payment'.payer = payment.payer
      /\ payment'.tip = payment.tip /\ payment'.fee = fee
  BY <1>1, <1>3, <1>4
<1>6. payment' \in PaymentRecord
  BY <1>4, <1>5 DEF PaymentRecord
<1>7. approves \in Allowances /\ nonces \in [Accounts -> Nat]
  BY StorageType
<1>8. moment \in Nat /\ author \in Authors \cup {NoAuthor}
  BY DEF RuntimeInv
<1> QED
  BY <1>1, <1>2, <1>5, <1>6, <1>7, <1>8

\* An extrinsic may keep its fee or pay none.
LEMMA FeeIsNat ==
    ASSUME RuntimeInv, NEW fee, ExtrinsicDone(fee)
    PROVE  payment.fee \in 0 .. payment.fee /\ 0 \in 0 .. payment.fee
<1>1. payment.fee \in Nat
  BY NoCallWhilePaying DEF ExtrinsicDone
<1> QED
  BY <1>1, SMTT(30)

\* An extrinsic that fails keeps the invariant.
LEMMA ExtrinsicFailsStep ==
    ASSUME RuntimeInv, ExtrinsicFails
    PROVE  RuntimeInv'
<1>1. ExtrinsicDone(payment.fee) /\ UNCHANGED <<book, paused>>
  BY DEF ExtrinsicFails
<1>2. /\ payment' \in PaymentRecord /\ payment'.held = payment.held
      /\ evm' = NoCall /\ approves' \in Allowances /\ nonces' \in [Accounts -> Nat]
      /\ moment' \in Nat /\ author' \in Authors \cup {NoAuthor}
  BY <1>1, FeeIsNat, ExtrinsicEnds
<1>3. book \in Book /\ Sound(book, payment.held)
  BY StorageType
<1>4. paused \subseteq {c \in CallNames : c.pallet # ThisPallet}
  BY DEF RuntimeInv
<1> QED
  BY <1>1, <1>2, <1>3, <1>4, OutsideStep

\* The transfer of an extrinsic, while its fee is withdrawn.
LEMMA ExtrinsicMoves ==
    ASSUME RuntimeInv, NEW to \in Accounts, NEW v \in Values, BalancesTransfer(to, v)
    PROVE  /\ book' \in Book /\ Sound(book', payment.held) /\ v \in 0 .. book.issuance
           /\ \E dust \in Dust : BookMoved(book, book', payment.payer, to, v, dust)
<1>1. /\ payment # NoPayment /\ CanTransfer(book, payment.payer, to, v)
      /\ book' = Transferred(book, payment.payer, to, v)
  BY DEF BalancesTransfer, ExtrinsicDone
<1>2. payment.payer \in Accounts /\ v \in Nat
  BY <1>1, NoCallWhilePaying, PrecompileAssumption
<1>3. book \in Book /\ payment.held \in Nat /\ Sound(book, payment.held)
  BY StorageType
<1> QED
  BY <1>1, <1>2, <1>3, TransferSound

\* A transfer of balances keeps the invariant.
LEMMA BalancesTransferStep ==
    ASSUME RuntimeInv, NEW to \in Accounts, NEW v \in Values, BalancesTransfer(to, v)
    PROVE  RuntimeInv'
<1>1. ExtrinsicDone(payment.fee) /\ paused' = paused
  BY DEF BalancesTransfer
<1>2. /\ payment' \in PaymentRecord /\ payment'.held = payment.held
      /\ evm' = NoCall /\ approves' \in Allowances /\ nonces' \in [Accounts -> Nat]
      /\ moment' \in Nat /\ author' \in Authors \cup {NoAuthor}
  BY <1>1, FeeIsNat, ExtrinsicEnds
<1>3. book' \in Book /\ Sound(book', payment.held)
  BY ExtrinsicMoves
<1>4. paused \subseteq {c \in CallNames : c.pallet # ThisPallet}
  BY DEF RuntimeInv
<1> QED
  BY <1>1, <1>2, <1>3, <1>4, OutsideStep

\* Pausing and unpausing keep the pauser's own calls out of the list.
LEMMA SudoStep ==
    ASSUME RuntimeInv, NEW c \in CallNames, Sudo(c)
    PROVE  RuntimeInv'
<1>1. /\ ExtrinsicDone(0) /\ book' = book
      /\ PauseTransaction(c) \/ UnpauseTransaction(c)
  BY DEF Sudo
<1>2. /\ payment' \in PaymentRecord /\ payment'.held = payment.held
      /\ evm' = NoCall /\ approves' \in Allowances /\ nonces' \in [Accounts -> Nat]
      /\ moment' \in Nat /\ author' \in Authors \cup {NoAuthor}
  BY <1>1, FeeIsNat, ExtrinsicEnds
<1>3. book \in Book /\ Sound(book, payment.held)
  BY StorageType
<1>4. paused' \subseteq {d \in CallNames : d.pallet # ThisPallet}
  BY <1>1 DEF RuntimeInv, PauseTransaction, UnpauseTransaction
<1> QED
  BY <1>1, <1>2, <1>3, <1>4, OutsideStep

\* What was withdrawn too much goes back, the author gets its part, the rest is
\* burned.
LEMMA FeeIsSettled ==
    ASSUME RuntimeInv, DepositFee
    PROVE  /\ book' \in Book /\ Sound(book', 0)
           /\ \E refund \in 0 .. payment.held, a \in Accounts :
              \E reward \in 0 .. payment.held - refund :
                /\ book'.free = [x \in Accounts |->
                     book.free[x] + (IF x = payment.payer THEN refund ELSE 0)
                                  + (IF x = a THEN reward ELSE 0)]
                /\ book'.issuance = book.issuance - (payment.held - refund - reward)
<1> DEFINE p      == payment
           over   == p.held - p.fee - p.tip
           refund == IntoExisting(book, p.payer, over)
           fee    == p.held - refund - p.tip
           b      == Credited(book, p.payer, refund)
<1>1. payment # NoPayment /\ book' = DealWithFees(b, fee, p.tip)
  BY DEF DepositFee
<1>2. /\ p.payer \in Accounts /\ p.held \in Nat /\ p.fee \in Nat /\ p.tip \in Nat
      /\ p.fee + p.tip <= p.held
  BY <1>1, NoCallWhilePaying
<1>3. book \in Book /\ Sound(book, p.held) /\ author \in Authors \cup {NoAuthor}
  BY StorageType DEF RuntimeInv
<1>4. over \in Nat /\ over <= p.held - p.tip
  BY <1>2, SMTT(30)
<1>5. /\ refund \in 0 .. p.held /\ refund <= over
      /\ refund # 0 => book.free[p.payer] > 0
  BY <1>2, <1>4, SMTT(30) DEF IntoExisting
<1> HIDE DEF refund
<1>6. /\ b \in Book /\ Sound(b, p.held - refund)
      /\ b.free = [book.free EXCEPT ![p.payer] = book.free[p.payer] + refund]
      /\ b.issuance = book.issuance
  BY <1>2, <1>3, <1>5, CreditSound, SMTT(30)
<1>7. /\ fee \in Nat /\ p.held - refund = fee + p.tip
      /\ refund \in Nat /\ p.held - refund \in Nat
  BY <1>2, <1>4, <1>5, SMTT(30)
<1> HIDE DEF b, fee
<1>8. book' \in Book /\ Sound(book', 0) /\ Rewarded(b, book', p.held - refund)
  BY <1>1, <1>2, <1>3, <1>6, <1>7, DealSound
<1>9. PICK a \in Accounts, reward \in 0 .. p.held - refund :
        /\ book'.free = [b.free EXCEPT ![a] = b.free[a] + reward]
        /\ book'.issuance = book.issuance - (p.held - refund - reward)
  BY <1>6, <1>8 DEF Rewarded
<1>10. book.free \in [Accounts -> Nat] /\ refund \in Nat /\ reward \in Nat
  BY <1>2, <1>3, <1>5, BookType, SMTT(30)
<1>11. book'.free = [x \in Accounts |->
          book.free[x] + (IF x = p.payer THEN refund ELSE 0)
                       + (IF x = a THEN reward ELSE 0)]
  <2> DEFINE f == book.free
             g == [f EXCEPT ![p.payer] = f[p.payer] + refund]
  <2>1. /\ f \in [Accounts -> Nat] /\ g \in [Accounts -> Nat] /\ p.payer \in Accounts
        /\ book'.free = [g EXCEPT ![a] = g[a] + reward]
    BY <1>2, <1>6, <1>9, <1>10, SMTT(30)
  <2>2. \A x \in Accounts : g[x] = f[x] + (IF x = p.payer THEN refund ELSE 0)
    BY <2>1, <1>10, SMTT(30)
  <2> HIDE DEF f, g
  <2>3. \A x \in Accounts : book'.free[x] = g[x] + (IF x = a THEN reward ELSE 0)
    BY <2>1, <1>10, SMTT(30)
  <2>4. book'.free = [x \in Accounts |-> book'.free[x]]
    BY <2>1
  <2> QED
    BY <2>2, <2>3, <2>4, SMTT(30) DEF f
<1> QED
  BY <1>5, <1>8, <1>9, <1>11, SMTT(30)

\* Settling the fee leaves nothing held.
LEMMA DepositFeeStep ==
    ASSUME RuntimeInv, DepositFee
    PROVE  RuntimeInv'
<1>1. /\ payment # NoPayment /\ payment' = NoPayment
      /\ UNCHANGED <<approves, nonces, moment, evm, paused, author>>
  BY DEF DepositFee
<1>2. evm = NoCall
  BY <1>1, NoCallWhilePaying
<1>3. book' \in Book /\ Sound(book', payment'.held)
  BY <1>1, FeeIsSettled DEF NoPayment
<1>4. approves \in Allowances /\ nonces \in [Accounts -> Nat]
  BY StorageType
<1>5. /\ moment \in Nat /\ author \in Authors \cup {NoAuthor}
      /\ paused \subseteq {c \in CallNames : c.pallet # ThisPallet}
  BY DEF RuntimeInv
<1> QED
  BY <1>1, <1>2, <1>3, <1>4, <1>5, OutsideStep

\* The genesis block satisfies the invariant.
LEMMA RuntimeInvInit ==
    ASSUME Init
    PROVE  RuntimeInv
<1>1. /\ book = Supply /\ moment = 0 /\ evm = NoCall /\ paused = {}
      /\ approves = [o \in Accounts |-> [s \in Accounts |-> NoEntry]]
      /\ nonces = [o \in Accounts |-> 0] /\ author = NoAuthor /\ payment = NoPayment
  BY DEF Init, PrecompileInit, PauserInit
<1>2. book \in Book /\ approves \in Allowances /\ nonces \in [Accounts -> Nat]
  BY <1>1, RuntimeAssumption DEF Allowances
<1>3. Now \in Stored
  BY <1>2 DEF Now, Stored
<1>4. payment.held = 0
  BY <1>1 DEF NoPayment
<1>5. Sound(book, payment.held)
  <2>1. book.issuance = SumFunction(book.free) /\ NoDust(book) /\ book.issuance \in Nat
    BY <1>1, RuntimeAssumption, BookType
  <2> QED
    BY <1>4, <2>1, SMTT(30) DEF Sound
<1> QED
  BY <1>1, <1>3, <1>5 DEF RuntimeInv

\* Every step keeps the invariant.
LEMMA RuntimeInvNext ==
    ASSUME RuntimeInv, [Next]_vars
    PROVE  RuntimeInv'
<1>1. CASE NewBlock
  BY <1>1, NewBlockStep
<1>2. CASE EvmStep
  BY <1>2, EvmStepInv
<1>3. ASSUME NEW u \in Users, NEW f \in Fees, WithdrawFee(u, f)
      PROVE  RuntimeInv'
  BY <1>3, WithdrawFeeStep
<1>4. ASSUME NEW to \in Accounts, NEW v \in Values, BalancesTransfer(to, v)
      PROVE  RuntimeInv'
  BY <1>4, BalancesTransferStep
<1>5. ASSUME NEW c \in CallNames, Sudo(c)
      PROVE  RuntimeInv'
  BY <1>5, SudoStep
<1>6. CASE ExtrinsicFails
  BY <1>6, ExtrinsicFailsStep
<1>7. CASE DepositFee
  BY <1>7, DepositFeeStep
<1>8. CASE UNCHANGED vars
  BY <1>8 DEF vars, precompileVars, runtimeVars, RuntimeInv, Now, Timestamp
<1> QED
  BY <1>1, <1>2, <1>3, <1>4, <1>5, <1>6, <1>7, <1>8 DEF Next

\* RuntimeInv is an invariant of the runtime.
LEMMA RuntimeInvariant == Spec => []RuntimeInv
<1>1. Init => RuntimeInv
  BY RuntimeInvInit
<1>2. RuntimeInv /\ [Next]_vars => RuntimeInv'
  BY RuntimeInvNext
<1> QED
  BY <1>1, <1>2, PTL DEF Spec

\* Storage, the call that is running, the pauser's list and the payment are what
\* the code's types say.
THEOREM RuntimeTypeCorrect == Spec => []RuntimeTypeOK
<1>1. RuntimeInv => RuntimeTypeOK
  <2> SUFFICES ASSUME RuntimeInv PROVE RuntimeTypeOK
    OBVIOUS
  <2>1. /\ book \in Book /\ approves \in Allowances /\ nonces \in [Accounts -> Nat]
        /\ evm = NoCall \/ evm \in CallRecord
    BY StorageType
  <2>2. evm # NoCall =>
          /\ evm.at \in {"dispatch", "permit", "log"}
          /\ evm.caller \in Users
          /\ {evm.from, evm.to} \subseteq Accounts
          /\ evm.saved.book \in Book
    BY <2>1 DEF CallRecord, Stored
  <2>3. moment \in Nat
    BY DEF RuntimeInv
  <2>4. PrecompileTypeOK
    BY <2>1, <2>2, <2>3 DEF PrecompileTypeOK, Allowances
  <2>5. payment # NoPayment => payment.payer \in Users /\ payment.held \in Nat
    BY NoCallWhilePaying
  <2> QED
    BY <2>4, <2>5 DEF RuntimeTypeOK, RuntimeInv
<1> QED
  BY <1>1, RuntimeInvariant, PTL

\* The issuance is the sum of the free balances and of the fee that is withdrawn
\* and not yet dealt with: at every step of a call, a revert or an extrinsic, for
\* any accounts, existential deposit and fees.
THEOREM SupplyIsBalancesHolds == Spec => []SupplyIsBalances
<1>1. RuntimeInv => SupplyIsBalances
  BY DEF RuntimeInv, Sound, SupplyIsBalances
<1> QED
  BY <1>1, RuntimeInvariant, PTL

-----------------------------------------------------------------------------
(***************************************************************************)
(* The token.  A call counts when it returns, as what it Did.              *)
(***************************************************************************)

\* Storage between calls, before and after a step.
LEMMA StorageNow ==
    /\ evm = NoCall => Storage = Now
    /\ evm # NoCall => Storage = evm.saved
    /\ evm' = NoCall => Storage' = Now'
    /\ evm' # NoCall => Storage' = evm'.saved
BY DEF Storage, Now

\* A step between calls, or inside one, that a token holder does not see.
LEMMA PassImplements ==
    ASSUME Storage' = Storage, Timestamp' >= Timestamp, payment'.held = payment.held
    PROVE  Token!Next
<1>1. Token!Pass
  BY DEF Token!Pass
<1> QED
  BY <1>1 DEF Token!Next

\* Time does not go back while the clock stands.
LEMMA InTimeIsLater ==
    ASSUME RuntimeInv, moment' = moment
    PROVE  Timestamp' = Timestamp /\ Timestamp' >= Timestamp
<1>1. Timestamp' = Timestamp
  BY DEF Timestamp
<1>2. Timestamp \in Int
  BY PrecompileAssumption, SMTT(30) DEF RuntimeInv, Timestamp
<1> QED
  BY <1>1, <1>2, SMTT(30)

\* A call that returns is the step of the token that the call Did.
LEMMA ReturnImplements ==
    ASSUME RuntimeInv, payment = NoPayment, UNCHANGED <<paused, author, payment>>, Return
    PROVE  Token!Next
<1> DEFINE s == evm.saved
           who == evm.caller
<1>1. evm.at = "log" /\ evm' = NoCall /\ UNCHANGED <<book, approves, nonces, moment>>
  BY DEF Return
<1>2. evm # NoCall /\ evm \in CallRecord
  BY <1>1, StorageType, SMTT(30) DEF NoCall
<1>3. Storage = s /\ Storage' = Now
  <2>1. Now' = Now
    BY <1>1 DEF Now
  <2> QED
    BY <1>1, <1>2, <2>1, StorageNow
<1>4. Did(s, Now, who, Timestamp)
  BY <1>1, <1>2 DEF RuntimeInv, Stands
<1>5. Timestamp' = Timestamp /\ Timestamp' >= Timestamp /\ payment' = payment
  BY <1>1, InTimeIsLater
<1>6. who \in Accounts
  BY <1>2, PrecompileAssumption DEF CallRecord
<1>7. ASSUME Token!Act(who)
      PROVE  Token!Next
  BY <1>2, <1>6, <1>7 DEF Token!Next
<1>8. CASE DidTransfer(s, Now, who)
  <2>1. PICK to \in Accounts, v \in 0 .. s.book.issuance, dust \in Dust :
          Moved(s, Now, who, to, v, dust) /\ Now.approves = s.approves
    BY <1>8 DEF DidTransfer
  <2>2. Token!Transfer(who, to, v, dust)
    BY <1>3, <1>5, <2>1 DEF Token!Transfer, Token!Moves, Moved, BookMoved
  <2>3. Token!Act(who)
    BY <1>3, <2>2 DEF Token!Act, Token!Dust, Dust
  <2> QED
    BY <1>7, <2>3
<1>9. CASE DidTransferFrom(s, Now, who)
  <2>1. PICK from \in Accounts, to \in Accounts, v \in 0 .. s.book.issuance, dust \in Dust :
          Moved(s, Now, from, to, v, dust) /\ Spends(s, Now, from, who, v)
    BY <1>9 DEF DidTransferFrom
  <2>2. Token!TransferFrom(who, from, to, v, dust)
    BY <1>3, <1>5, <2>1 DEF Token!TransferFrom, Token!Moves, Moved, BookMoved, Spends
  <2>3. Token!Act(who)
    BY <1>3, <2>2 DEF Token!Act, Token!Dust, Dust
  <2> QED
    BY <1>7, <2>3
<1>10. CASE DidDeposit(s, Now, who)
  <2>1. PICK dust \in Dust :
          /\ s.book.free[who] > dust
          /\ Now.book.free = [s.book.free EXCEPT ![who] = s.book.free[who] - dust]
          /\ Now.book.issuance = s.book.issuance - dust
          /\ Now.approves = s.approves /\ Now.nonces = s.nonces
    BY <1>10 DEF DidDeposit
  <2>2. Token!Deposit(who, dust)
    BY <1>3, <1>5, <2>1 DEF Token!Deposit
  <2>3. Token!Act(who)
    BY <2>2 DEF Token!Act, Token!Dust, Dust
  <2> QED
    BY <1>7, <2>3
<1>11. CASE DidApprove(s, Now, who)
  <2>1. PICK b \in Accounts, v \in 0 .. MaxBalance :
          /\ Now.approves = [s.approves EXCEPT ![who][b] = v]
          /\ Now.book = s.book /\ Now.nonces = s.nonces
    BY <1>11 DEF DidApprove
  <2>2. Token!Approve(who, b)
    BY <1>3, <1>5, <2>1 DEF Token!Approve
  <2>3. Token!Act(who)
    BY <2>2 DEF Token!Act
  <2> QED
    BY <1>7, <2>3
<1>12. CASE DidPermit(s, Now, Timestamp)
  <2>1. PICK p \in Permits :
          /\ Presents(s, p.owner, p.spender, p.value, p, Timestamp)
          /\ Now.nonces = [s.nonces EXCEPT ![p.owner] = s.nonces[p.owner] + 1]
          /\ Now.approves = [s.approves EXCEPT ![p.owner][p.spender] = Saturated(p.value)]
          /\ Now.book = s.book
    BY <1>12 DEF DidPermit
  <2>2. p.domain = Domain /\ p.nonce = s.nonces[p.owner] /\ Timestamp <= p.deadline
    BY <2>1 DEF Presents
  <2>3. Saturated(p.value) = Token!Capped(p.value)
    BY PrecompileAssumption, SMTT(30) DEF Saturated, U256ToAmountFits, Token!Capped
  <2>4. Token!Permit(p)
    BY <1>3, <1>5, <2>1, <2>2, <2>3 DEF Token!Permit
  <2> QED
    BY <2>2, <2>4 DEF Token!Next
<1>13. CASE Now = s
  BY <1>3, <1>5, <1>13, PassImplements
<1> QED
  BY <1>4, <1>8, <1>9, <1>10, <1>11, <1>12, <1>13 DEF Did

\* A call that starts: storage still is what it found.
LEMMA StartImplements ==
    ASSUME RuntimeInv, evm = NoCall, NEW at, NEW caller, NEW from, NEW to, NEW v,
           at # "none", evm' = Running(at, caller, from, to, v),
           moment' = moment, payment' = payment
    PROVE  Token!Next
<1>1. evm'.at = at /\ evm'.saved = Now
  BY DEF Running, Now
<1>2. evm' # NoCall
  BY <1>1, SMTT(30) DEF NoCall
<1>3. Storage' = Storage
  BY <1>1, <1>2, StorageNow
<1> QED
  BY <1>3, InTimeIsLater, PassImplements

\* No call is seen when it starts.
LEMMA CallImplements ==
    ASSUME RuntimeInv, payment' = payment, NEW u \in Users, Call(u)
    PROVE  Token!Next
<1>1. evm = NoCall /\ moment' = moment
  BY DEF Call, Approve, Transfer, TransferFrom, Deposit, Withdraw, Permit
<1>2. \/ evm' = Written(u)
      \/ \E from, to, v : evm' = Running("dispatch", u, from, to, v)
      \/ \E from, to, v : evm' = Running("permit", u, from, to, v)
  BY DEF Call, Approve, Transfer, TransferFrom, Deposit, Withdraw, Permit
<1>3. CASE evm' = Written(u)
  <2>1. evm' = Running("log", u, u, u, 0)
    BY <1>3 DEF Written
  <2> QED
    BY <1>1, <2>1, StartImplements
<1>4. ASSUME NEW from, NEW to, NEW v, evm' = Running("dispatch", u, from, to, v)
      PROVE  Token!Next
  BY <1>1, <1>4, StartImplements
<1>5. ASSUME NEW from, NEW to, NEW v, evm' = Running("permit", u, from, to, v)
      PROVE  Token!Next
  BY <1>1, <1>5, StartImplements
<1> QED
  BY <1>2, <1>3, <1>4, <1>5

\* A second write: the call still is not seen.
LEMMA FinishImplements ==
    ASSUME RuntimeInv, evm # NoCall, moment' = moment, payment' = payment,
           evm' = [Written(evm.caller) EXCEPT !.saved = evm.saved]
    PROVE  Token!Next
<1>1. evm'.at = "log" /\ evm'.saved = evm.saved
  BY DEF Written, Running
<1>2. evm' # NoCall
  BY <1>1 DEF NoCall
<1>3. Storage' = Storage
  BY <1>1, <1>2, StorageNow
<1> QED
  BY <1>3, InTimeIsLater, PassImplements

\* A call that fails is never seen.
LEMMA RevertImplements ==
    ASSUME RuntimeInv, payment' = payment, Revert
    PROVE  Token!Next
<1>1. /\ evm # NoCall /\ evm' = NoCall /\ moment' = moment
      /\ book' = evm.saved.book /\ approves' = evm.saved.approves
      /\ nonces' = evm.saved.nonces
  BY DEF Revert
<1>2. evm.saved \in Stored
  BY <1>1, StorageType DEF CallRecord
<1>3. evm.saved = [book |-> evm.saved.book, approves |-> evm.saved.approves,
                   nonces |-> evm.saved.nonces]
  BY <1>2 DEF Stored
<1>4. Now' = evm.saved
  BY <1>1, <1>3 DEF Now
<1>5. Storage' = Storage
  BY <1>1, <1>4, StorageNow
<1> QED
  BY <1>1, <1>5, InTimeIsLater, PassImplements

\* Every step of a call is a step of the token or none.
LEMMA EvmImplements ==
    ASSUME RuntimeInv, EvmStep
    PROVE  Token!Next
<1>1. payment = NoPayment /\ UNCHANGED <<paused, author, payment>> /\ PrecompileNext
  BY DEF EvmStep, runtimeVars
<1>2. ASSUME NEW u \in Users, Call(u)
      PROVE  Token!Next
  BY <1>1, <1>2, CallImplements
<1>3. CASE Dispatch \/ PermitApproves
  <2>1. /\ evm.at \in {"dispatch", "permit"} /\ moment' = moment
        /\ evm' = [Written(evm.caller) EXCEPT !.saved = evm.saved]
    BY <1>3 DEF Dispatch, PermitApproves
  <2>2. evm # NoCall
    BY <2>1, SMTT(30) DEF NoCall
  <2> QED
    BY <1>1, <2>1, <2>2, FinishImplements
<1>4. CASE Return
  BY <1>1, <1>4, ReturnImplements
<1>5. CASE Revert
  BY <1>1, <1>5, RevertImplements
<1> QED
  BY <1>1, <1>2, <1>3, <1>4, <1>5 DEF PrecompileNext

\* Seconds do not go back when the clock goes on.
LEMMA SecondsGoOn ==
    ASSUME NEW m \in Nat, NEW n \in Nat, m <= n, NEW d \in Nat \ {0}
    PROVE  n \div d >= m \div d
<1> DEFINE p == m \div d
           q == n \div d
<1>1. m = d * p + (m % d) /\ n = d * q + (n % d)
  BY SMTT(30)
<1>2. m % d \in 0 .. d - 1 /\ n % d \in 0 .. d - 1
  BY SMTT(30)
<1>3. p \in Int /\ q \in Int
  BY SMTT(30)
<1> HIDE DEF p, q
<1>4. ASSUME q < p
      PROVE  FALSE
  <2>1. PICK k \in Nat : p = q + 1 + k
    <3>1. p - q - 1 \in Nat /\ p = q + 1 + (p - q - 1)
      BY <1>3, <1>4, SMTT(30)
    <3> QED
      BY <3>1
  <2>2. d * p = d * q + d + d * k
    BY <1>3, <2>1, SMTT(30)
  <2>3. d * k \in Nat /\ d * q \in Int /\ d * p \in Int
    BY <1>3, <2>1, SMTT(30)
  <2> QED
    BY <1>1, <1>2, <2>2, <2>3, SMTT(30)
<1> QED
  BY <1>3, <1>4, SMTT(30) DEF p, q

\* A new block lets time pass.
LEMMA NewBlockImplements ==
    ASSUME RuntimeInv, NewBlock
    PROVE  Token!Next
<1>1. /\ evm = NoCall /\ moment' = moment + 1
      /\ UNCHANGED <<book, approves, nonces, evm, payment>>
  BY DEF NewBlock
<1>2. Storage' = Storage
  BY <1>1 DEF Storage
<1>3. Timestamp' >= Timestamp
  <2>1. moment \in Nat /\ moment' \in Nat /\ moment <= moment'
    BY <1>1, SMTT(30) DEF RuntimeInv
  <2>2. TicksPerSecond \in Nat \ {0}
    BY PrecompileAssumption
  <2> QED
    BY <2>1, <2>2, SecondsGoOn DEF Timestamp
<1> QED
  BY <1>1, <1>2, <1>3, PassImplements

\* Withdrawing a fee charges it to the payer.
LEMMA WithdrawFeeImplements ==
    ASSUME RuntimeInv, NEW u \in Users, NEW f \in Fees, WithdrawFee(u, f)
    PROVE  Token!Next
<1>1. /\ evm = NoCall /\ payment = NoPayment
      /\ payment' = [payer |-> u, held |-> f.max, fee |-> f.fee, tip |-> f.tip,
                     done |-> FALSE]
      /\ UNCHANGED <<approves, nonces, moment, evm, paused, author>>
  BY DEF WithdrawFee
<1>2. /\ f.max \in 0 .. book.free[u] /\ book'.issuance = book.issuance
      /\ book'.free = [book.free EXCEPT ![u] = book.free[u] - f.max]
  BY FeeIsTaken
<1>3. Storage = Now /\ Storage' = Now'
  BY <1>1, StorageNow
<1>4. /\ Storage.book = book /\ Storage'.book = book'
      /\ Storage'.approves = Storage.approves /\ Storage'.nonces = Storage.nonces
  BY <1>1, <1>3 DEF Now
<1>5. /\ payment.held = 0 /\ payment'.held = f.max /\ payment'.payer = u
      /\ Timestamp' = Timestamp
  BY <1>1 DEF NoPayment, Timestamp
<1>6. Token!ChargeFee(u)
  BY <1>1, <1>2, <1>4, <1>5 DEF Token!ChargeFee
<1>7. u \in Accounts
  BY PrecompileAssumption
<1> QED
  BY <1>6, <1>7 DEF Token!Next

\* What the payer of an extrinsic may do, the token may do.
LEMMA PayerActs ==
    ASSUME RuntimeInv, payment # NoPayment, Token!Act(payment.payer)
    PROVE  Token!Next
<1>1. evm = NoCall /\ payment.payer \in Accounts
  BY NoCallWhilePaying
<1> QED
  BY <1>1 DEF Token!Next

\* A transfer of balances is a transfer of the token.
LEMMA BalancesTransferImplements ==
    ASSUME RuntimeInv, NEW to \in Accounts, NEW v \in Values, BalancesTransfer(to, v)
    PROVE  Token!Next
<1>1. /\ payment # NoPayment /\ ExtrinsicDone(payment.fee)
      /\ UNCHANGED <<approves, nonces, moment, evm>>
  BY DEF BalancesTransfer, ExtrinsicDone
<1>2. payment'.held = payment.held /\ evm' = NoCall
  BY <1>1, FeeIsNat, ExtrinsicEnds
<1>3. v \in 0 .. book.issuance
  BY ExtrinsicMoves
<1>4. PICK dust \in Dust : BookMoved(book, book', payment.payer, to, v, dust)
  BY ExtrinsicMoves
<1>5. Storage = Now /\ Storage' = Now'
  BY <1>1, <1>2, StorageNow
<1>6. /\ Storage.book = book /\ Storage'.book = book'
      /\ Storage'.approves = Storage.approves /\ Storage'.nonces = Storage.nonces
  BY <1>1, <1>5 DEF Now
<1>7. Timestamp' = Timestamp
  BY <1>1 DEF Timestamp
<1>8. Token!Transfer(payment.payer, to, v, dust)
  BY <1>2, <1>4, <1>6, <1>7 DEF Token!Transfer, Token!Moves, BookMoved
<1>9. Token!Act(payment.payer)
  BY <1>3, <1>6, <1>8 DEF Token!Act, Token!Dust, Dust
<1> QED
  BY <1>1, <1>9, PayerActs

\* A sudo call, or an extrinsic that fails.
LEMMA ExtrinsicPasses ==
    ASSUME RuntimeInv, NEW fee \in 0 .. payment.fee, ExtrinsicDone(fee), book' = book
    PROVE  Token!Next
<1>1. UNCHANGED <<book, approves, nonces, moment, evm>>
  BY DEF ExtrinsicDone
<1>2. payment'.held = payment.held
  BY ExtrinsicEnds
<1>3. Storage' = Storage
  BY <1>1 DEF Storage
<1> QED
  BY <1>1, <1>2, <1>3, InTimeIsLater, PassImplements

\* Settling a fee refunds, rewards and burns what was charged, no more.
LEMMA DepositFeeImplements ==
    ASSUME RuntimeInv, DepositFee
    PROVE  Token!Next
<1>1. /\ payment # NoPayment /\ payment' = NoPayment
      /\ UNCHANGED <<approves, nonces, moment, evm>>
  BY DEF DepositFee
<1>2. evm = NoCall /\ evm' = NoCall
  BY <1>1, NoCallWhilePaying
<1>3. PICK refund \in 0 .. payment.held, a \in Accounts :
      \E reward \in 0 .. payment.held - refund :
        /\ book'.free = [x \in Accounts |->
             book.free[x] + (IF x = payment.payer THEN refund ELSE 0)
                          + (IF x = a THEN reward ELSE 0)]
        /\ book'.issuance = book.issuance - (payment.held - refund - reward)
  BY FeeIsSettled
<1>4. Storage = Now /\ Storage' = Now'
  BY <1>2, StorageNow
<1>5. /\ Storage.book = book /\ Storage'.book = book'
      /\ Storage'.approves = Storage.approves /\ Storage'.nonces = Storage.nonces
  BY <1>1, <1>4 DEF Now
<1>6. payment'.held = 0 /\ Timestamp' = Timestamp
  BY <1>1 DEF NoPayment, Timestamp
<1>7. Token!SettleFee(payment.payer, a)
  BY <1>3, <1>5, <1>6, SMTT(30) DEF Token!SettleFee
<1>8. Token!Act(payment.payer)
  BY <1>7 DEF Token!Act
<1> QED
  BY <1>1, <1>8, PayerActs

\* The genesis block is an initial state of the token.
LEMMA TokenInit ==
    ASSUME Init
    PROVE  Token!Init
<1>1. /\ evm = NoCall /\ payment = NoPayment
      /\ approves = [o \in Accounts |-> [s \in Accounts |-> NoEntry]]
      /\ nonces = [o \in Accounts |-> 0]
  BY DEF Init, PrecompileInit
<1>2. Storage.approves = approves /\ Storage.nonces = nonces /\ payment.held = 0
  BY <1>1 DEF Storage, NoPayment
<1> QED
  BY <1>1, <1>2 DEF Token!Init

\* Every step of the runtime is a step of the token or a stutter.
LEMMA TokenNext ==
    ASSUME RuntimeInv, [Next]_vars
    PROVE  [Token!Next]_(Token!vars)
<1>1. CASE NewBlock
  BY <1>1, NewBlockImplements
<1>2. CASE EvmStep
  BY <1>2, EvmImplements
<1>3. ASSUME NEW u \in Users, NEW f \in Fees, WithdrawFee(u, f)
      PROVE  Token!Next
  BY <1>3, WithdrawFeeImplements
<1>4. ASSUME NEW to \in Accounts, NEW v \in Values, BalancesTransfer(to, v)
      PROVE  Token!Next
  BY <1>4, BalancesTransferImplements
<1>5. ASSUME NEW c \in CallNames, Sudo(c)
      PROVE  Token!Next
  <2>1. ExtrinsicDone(0) /\ book' = book
    BY <1>5 DEF Sudo
  <2> QED
    BY <2>1, FeeIsNat, ExtrinsicPasses
<1>6. CASE ExtrinsicFails
  <2>1. ExtrinsicDone(payment.fee) /\ book' = book
    BY <1>6 DEF ExtrinsicFails
  <2> QED
    BY <2>1, FeeIsNat, ExtrinsicPasses
<1>7. CASE DepositFee
  BY <1>7, DepositFeeImplements
<1>8. CASE UNCHANGED vars
  <2>1. Storage' = Storage /\ Timestamp' = Timestamp /\ payment' = payment /\ evm' = evm
    BY <1>8 DEF vars, precompileVars, runtimeVars, Storage, Timestamp
  <2> QED
    BY <2>1 DEF Token!vars
<1> QED
  BY <1>1, <1>2, <1>3, <1>4, <1>5, <1>6, <1>7, <1>8 DEF Next

\* The precompile, its permits, extrinsics and fees implement Erc20: every call
\* takes effect as a whole when it returns or not at all, nobody moves another's
\* balance beyond an allowance, and every permit is used once, in the order of
\* nonces and in time.
THEOREM RuntimeImplementsErc20 == Spec => ImplementsErc20
<1>1. Init => Token!Init
  BY TokenInit
<1>2. RuntimeInv /\ [Next]_vars => [Token!Next]_(Token!vars)
  BY TokenNext
<1> QED
  BY <1>1, <1>2, RuntimeInvariant, PTL DEF Spec, ImplementsErc20, Token!Spec
=============================================================================
