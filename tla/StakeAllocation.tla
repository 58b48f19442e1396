--------------------------- MODULE StakeAllocation ---------------------------
(***************************************************************************)
(* How the live spot bot shares its stake currency among trades: the cached*)
(* balance of Wallets, the stake computed from it and from the open trades,*)
(* and the entries that spend it, while on the exchange orders fill and    *)
(* expire, money comes and goes and replies are lost.  An entry pays one   *)
(* unit per coin; exits return a little more or less.                      *)
(***************************************************************************)
EXTENDS Integers, FiniteSets, FiniteSetsExt, TLC

CONSTANTS
  Pairs,
  Funds,            \* what is free at the start
  Capitals,         \* values of available_capital; NotSet: not configured
  Stakes,           \* values of stake_amount; Unlimited
  RatioNum, RatioDen,  \* tradable_balance_ratio
  LastNum, LastDen,    \* last_stake_amount_min_ratio
  MinStake, MaxStake,  \* the exchange's limits of one stake
  Customs,          \* stakes a custom_stake_amount callback may ask for
  Extras,           \* stakes that adjust_trade_position may ask for
  MaxOpen,          \* max_open_trades
  Gain,             \* a full exit brings one less than its cost, or this more
  MaxEntries,       \* bound: entries
  MaxTransfers      \* bound: deposits and withdrawals

NoPair == -1
Unlimited == 0
NotSet == 0

ASSUME AmountsAssumption ==
  /\ Funds \in Nat /\ Capitals \subseteq Nat
  /\ Stakes \subseteq Nat /\ Customs \subseteq Nat /\ Extras \subseteq Nat \ {0}
  /\ MinStake \in Nat \ {0} /\ MaxStake \in Nat /\ MinStake <= MaxStake
  /\ Gain \in Nat \ {0}
ASSUME RatiosAssumption ==
  /\ RatioDen \in Nat \ {0} /\ RatioNum \in 0..RatioDen
  /\ LastDen \in Nat \ {0} /\ LastNum \in 0..LastDen
ASSUME PairsAssumption == IsFiniteSet(Pairs)
ASSUME BoundsAssumption ==
  MaxOpen \in Nat /\ MaxEntries \in Nat /\ MaxTransfers \in Nat

VARIABLES
  config,           \* available_capital, stake_amount, amend_last_stake_amount
  free,             \* the exchange: the free balance
  coins,            \* the exchange: what the bot's orders bought of each pair
  order,            \* the exchange: the order of each pair
  wallet,           \* Wallets: the free balance as it was last read
  trade,            \* the open trades: stake_amount and realized_profit
  profit,           \* close_profit_abs of all closed trades
  plan,             \* the entry being made
  phase,            \* where the bot is
  disturbed,        \* history: money left unseen since the balance was read
  entries, transfers  \* the bounds' counters

exchange  == <<free, coins, order>>
books     == <<wallet, trade, profit>>
limits    == <<entries, transfers>>
stakeVars == <<config, exchange, books, plan, phase, disturbed, limits>>

NoTrade == [stake |-> 0, realized |-> 0, open |-> FALSE]
NoOrder == [kind |-> "none", left |-> 0, live |-> FALSE, gain |-> 0]
NoPlan  == [pair |-> NoPair, stake |-> 0, adjust |-> FALSE]

Open == {p \in Pairs : trade[p].open}

-----------------------------------------------------------------------------
(* Wallets *)

\* Mutant: a trade counts once it has bought something.
TiedUpBought == MapThenSumSet(LAMBDA p : trade[p].stake, {p \in Open : coins[p] > 0})

TiedUp == MapThenSumSet(LAMBDA p : trade[p].stake, Open)

TotalStake ==
  IF config.capital # NotSet THEN config.capital + profit
  ELSE ((TiedUp + wallet) * RatioNum) \div RatioDen

\* Mutant: the balance itself is not looked at.
AvailableOnPaper == TotalStake - TiedUp

AvailableStake == Min({TotalStake - TiedUp, wallet})

\* 0 also stands for the DependencyException that gives up the entry.
TradeStake ==
  LET available == AvailableStake
      wanted == IF config.stake # Unlimited THEN config.stake
                ELSE IF MaxOpen = 0 THEN 0
                ELSE Min({(available + TiedUp) \div MaxOpen, available})
      amended == IF ~config.amend THEN wanted
                 ELSE IF available * LastDen > wanted * LastNum THEN Min({wanted, available})
                 ELSE 0
  IN  IF available < amended THEN 0 ELSE Max({amended, 0})

\* `held' is the stake of the trade that is adjusted, 0 for a new one.
Validated(stake, held) ==
  LET allowed == Min({MaxStake - held, AvailableStake})
  IN  IF stake = 0 \/ MinStake > allowed \/ (stake < MinStake /\ 13 * stake < 10 * MinStake) THEN 0
      ELSE Min({Max({stake, MinStake}), allowed})

Sync == wallet' = free' /\ disturbed' = FALSE

-----------------------------------------------------------------------------
(* The exchange *)

EntryFills(p) ==
  /\ order[p].live /\ order[p].kind # "exit"
  /\ \E n \in 1..order[p].left :
       /\ coins' = [coins EXCEPT ![p] = @ + n]
       /\ order' = [order EXCEPT ![p].left = @ - n, ![p].live = n < order[p].left]
  /\ UNCHANGED <<config, free, books, plan, phase, disturbed, limits>>

\* The price tells in the last fill.
ExitFills(p) ==
  /\ order[p].live /\ order[p].kind = "exit"
  /\ \E n \in 1..order[p].left, gain \in {-1, 0, Gain} :
       /\ n < order[p].left <=> gain = 0
       /\ free' = free + n + gain
       /\ coins' = [coins EXCEPT ![p] = @ - n]
       /\ order' = [order EXCEPT ![p].left = @ - n, ![p].live = n < order[p].left,
                                 ![p].gain = @ + gain]
  /\ UNCHANGED <<config, books, plan, phase, disturbed, limits>>

\* The order expires or is cancelled, by the bot as well.
OrderEnds(p) ==
  /\ order[p].live
  /\ order' = [order EXCEPT ![p].live = FALSE]
  /\ free' = IF order[p].kind = "exit" THEN free ELSE free + order[p].left
  /\ UNCHANGED <<config, coins, books, plan, phase, disturbed, limits>>

Deposit ==
  /\ transfers < MaxTransfers
  /\ transfers' = transfers + 1
  /\ free' = free + 1
  /\ UNCHANGED <<config, coins, order, books, plan, phase, disturbed, entries>>

Withdraw ==
  /\ transfers < MaxTransfers /\ free > 0
  /\ transfers' = transfers + 1
  /\ free' = free - 1
  /\ disturbed' = TRUE
  /\ UNCHANGED <<config, coins, order, books, plan, phase, entries>>

-----------------------------------------------------------------------------
(* The bot *)

Recalculated(p) == [trade[p] EXCEPT !.stake = coins[p], !.realized = @ + order[p].gain]

\* An order that is done is booked, whatever it filled: a first entry without
\* fills takes its trade away, an exit of everything closes it.
Book(p) ==
  /\ phase = "idle"
  /\ order[p].kind # "none" /\ ~order[p].live
  /\ trade' = [trade EXCEPT ![p] = IF coins[p] = 0 THEN NoTrade ELSE Recalculated(p)]
  /\ profit' = IF order[p].kind = "exit" /\ coins[p] = 0 THEN profit + Recalculated(p).realized
               ELSE profit
  /\ order' = [order EXCEPT ![p] = NoOrder]
  /\ UNCHANGED free /\ Sync
  /\ UNCHANGED <<config, coins, plan, phase, limits>>

Exit(p) ==
  /\ phase = "idle"
  /\ p \in Open /\ order[p].kind = "none"
  /\ \E n \in 1..coins[p] :
       order' = [order EXCEPT ![p] = [kind |-> "exit", left |-> n, live |-> TRUE, gain |-> 0]]
  /\ UNCHANGED free /\ Sync
  /\ UNCHANGED <<config, coins, trade, profit, plan, phase, limits>>

\* get_trade_stake_amount reads the balance before anything is computed.
EnterStart(p) ==
  /\ phase = "idle" /\ entries < MaxEntries
  /\ p \notin Open /\ Cardinality(Open) < MaxOpen
  /\ plan' = [pair |-> p, stake |-> 0, adjust |-> FALSE] /\ phase' = "stake"
  /\ UNCHANGED free /\ Sync
  /\ UNCHANGED <<config, coins, order, trade, profit, limits>>

\* update(False): the balance may be up to an hour old.
AdjustStart(p) ==
  /\ phase = "idle" /\ entries < MaxEntries
  /\ p \in Open /\ order[p].kind = "none"
  /\ plan' = [pair |-> p, stake |-> 0, adjust |-> TRUE] /\ phase' = "stake"
  /\ UNCHANGED free
  /\ Sync \/ UNCHANGED <<wallet, disturbed>>
  /\ UNCHANGED <<config, coins, order, trade, profit, limits>>

\* The stake, after the callbacks of the strategy; without one the entry is
\* given up (Refused).
Propose ==
  /\ phase = "stake"
  /\ \E asked \in IF plan.adjust THEN Extras ELSE Customs \union {TradeStake} :
       LET stake == Validated(asked, IF plan.adjust THEN trade[plan.pair].stake ELSE 0)
       IN  stake # 0 /\ plan' = [plan EXCEPT !.stake = stake]
  /\ phase' = "create"
  /\ UNCHANGED <<config, exchange, books, disturbed, limits>>

Placed(p, kind, stake) ==
  order' = [order EXCEPT ![p] = [kind |-> kind, left |-> stake, live |-> TRUE, gain |-> 0]]

Create ==
  /\ phase = "create" /\ plan.stake <= free
  /\ LET p == plan.pair
     IN  /\ Placed(p, IF plan.adjust THEN "adjust" ELSE "entry", plan.stake)
         /\ trade' = IF plan.adjust THEN trade
                     ELSE [trade EXCEPT
                             ![p] = [stake |-> plan.stake, realized |-> 0, open |-> TRUE]]
  /\ free' = free - plan.stake /\ Sync
  /\ plan' = NoPlan /\ phase' = "idle"
  /\ entries' = entries + 1
  /\ UNCHANGED <<config, coins, profit, transfers>>

\* InsufficientFunds, and every other refusal, also by confirm_trade_entry.
Refused ==
  /\ phase \in {"stake", "create"}
  /\ plan' = NoPlan /\ phase' = "idle"
  /\ UNCHANGED <<config, exchange, books, disturbed, limits>>

\* The order is placed and no row remembers it.
ReplyLost ==
  /\ phase = "create" /\ plan.stake <= free
  /\ free' = free - plan.stake /\ disturbed' = TRUE
  /\ plan' = NoPlan /\ phase' = "idle"
  /\ entries' = entries + 1
  /\ UNCHANGED <<config, coins, order, books, transfers>>

Restart ==
  /\ plan' = NoPlan /\ phase' = "idle"
  /\ UNCHANGED free /\ Sync
  /\ UNCHANGED <<config, coins, order, trade, profit, limits>>

-----------------------------------------------------------------------------
StakeInit ==
  /\ config \in [capital : Capitals, stake : Stakes, amend : BOOLEAN]
  /\ free = Funds /\ wallet = Funds
  /\ coins = [p \in Pairs |-> 0] /\ order = [p \in Pairs |-> NoOrder]
  /\ trade = [p \in Pairs |-> NoTrade] /\ profit = 0
  /\ plan = NoPlan /\ phase = "idle" /\ disturbed = FALSE
  /\ entries = 0 /\ transfers = 0

StakeNext ==
  \/ \E p \in Pairs :
       \/ EntryFills(p) \/ ExitFills(p) \/ OrderEnds(p)
       \/ Book(p) \/ Exit(p) \/ EnterStart(p) \/ AdjustStart(p)
  \/ Deposit \/ Withdraw
  \/ Propose \/ Create \/ Refused \/ ReplyLost \/ Restart

PairSymmetry == Permutations(Pairs)

StakeSpec == StakeInit /\ [][StakeNext]_stakeVars

-----------------------------------------------------------------------------
(* Properties *)

\* Every variable has its type; nothing the bot plans, holds or has left is
\* negative (the attributes of the Wallets, Trade and Order classes).
StakesTyped ==
  /\ free \in Nat /\ wallet \in Nat /\ profit \in Int
  /\ coins \in [Pairs -> Nat]
  /\ order \in [Pairs -> [kind : {"none", "entry", "adjust", "exit"}, left : Nat,
                          live : BOOLEAN, gain : Int]]
  /\ trade \in [Pairs -> [stake : Nat, realized : Int, open : BOOLEAN]]
  /\ plan \in [pair : Pairs \union {NoPair}, stake : Nat, adjust : BOOLEAN]
  /\ phase \in {"idle", "stake", "create"} /\ disturbed \in BOOLEAN
  /\ entries \in 0..MaxEntries /\ transfers \in 0..MaxTransfers

\* What the bot is about to spend is there, however old the balance it has
\* computed with and whatever fills, ends or is deposited meanwhile, unless
\* money left behind its back (get_available_stake_amount, update(False)).
Affordable == StakesTyped /\ (phase = "create" /\ ~disturbed => plan.stake <= free)

\* What open trades hold and their entries may still buy.
Committed ==
  MapThenSumSet(LAMBDA p : coins[p] + (IF order[p].kind # "exit" /\ order[p].live
                                       THEN order[p].left ELSE 0), Pairs)

Allowed ==
  IF config.capital # NotSet THEN Committed <= config.capital + profit
  ELSE Committed * RatioDen <= (Committed + free) * RatioNum

\* No entry takes the bot beyond available_capital or tradable_balance_ratio,
\* whatever is filled and not booked yet, unless money left unseen or the
\* order of an adjustment is pending, which no stake accounts for
\* (get_total_stake_amount).
WithinAllowance ==
  [][phase = "create" /\ order' # order /\ ~disturbed
     /\ entries' # entries /\ (\A p \in Pairs : order[p].kind # "adjust")
       => Allowed']_stakeVars
=============================================================================
