--------------------------- MODULE CapitalLedger ---------------------------
(***************************************************************************)
(* The capital of freqtrade/core/state.py as the requests of               *)
(* freqtrade/ui/demo_server.py use it: scenario steps that open and close  *)
(* demo_positions, automated ticks that open and close the positions of    *)
(* automated_exploit, reset and configuration.  Flask serves each request  *)
(* in a thread of its own, and all threads share the engine state and the  *)
(* lists of positions without a lock.  A thread may be preempted where it  *)
(* enters or leaves a function, not inside the assignments between two     *)
(* calls; a method called on engine_state.capital works on the object that *)
(* was current when the call was made, replaced or not since.              *)
(*                                                                         *)
(* Money is counted in units of 1/Den of the currency, so that a position  *)
(* size, a fraction of Den, is itself a number of units.  Prices, signals  *)
(* and profits are choices.                                                *)
(***************************************************************************)
EXTENDS Integers, Sequences, FiniteSetsExt

CONSTANTS
    Workers,        \* threads that serve requests
    Kinds,          \* requests made: "flow", "tick", "reset", "config"
    InitialCapital, \* initial_capital
    NewCapital,     \* capital of a /api/config/capital request
    Den,            \* units of one unit of currency
    FlowSizes,      \* sizes the scenarios of DemoExploit ask for, over Den
    TickSizes,      \* values of position_size of the automated exploit, over Den
    MinStake,       \* least capital a tick opens a position with ($100)
    MaxGain,        \* bound on the net profit of a closed position
    MaxLoss,        \* bound on its net loss
    MaxRequests     \* bound on the requests served in a behaviour

ASSUME LedgerAssumption ==
    /\ Kinds \subseteq {"flow", "tick", "reset", "config"}
    /\ InitialCapital \in Nat /\ NewCapital \in Nat
    /\ Den \in Nat \ {0} /\ FlowSizes \subseteq Nat /\ TickSizes \subseteq Nat
    /\ MinStake \in Nat /\ MaxGain \in Nat /\ MaxLoss \in Nat /\ MaxRequests \in Nat

VARIABLES
    engines,            \* the engine states created so far; the last one is engine_state
    initial,            \* initial_capital
    demo,               \* sizes of demo_positions
    scen,               \* number of simulated_positions of DemoExploit
    auto,               \* sizes of simulated_positions of the automated exploit
    autoOn,             \* automated_mode
    mixed,              \* history: something else than scenario steps was asked for
    served,             \* requests served so far
    step, kind,         \* of each thread: where it is, the request it serves
    snap, todo, acts,   \* of each thread: exec_state, actions to check, approved ones left
    stake, ref          \* of each thread: position in hand, engine a call was made on

lists == <<demo, scen, auto>>
server == <<initial, autoOn, mixed, served>>
thread == <<kind, snap, todo, acts, stake, ref>>
ledgerVars == <<engines, lists, server, step, thread>>

Action == [type : {"open", "close"}, size : Nat]
OpenAction(n) == [type |-> "open", size |-> n]
CloseAction == [type |-> "close", size |-> Den]
CapitalState == [avail : Int, depl : Int, pnl : Int, base : Int]
Steps == {"idle", "snapshot", "evaluate", "risk", "execute", "allocate", "track", "callback",
          "close", "release", "profit", "replace", "clear_scen", "clear_auto", "clear_mode",
          "start"}

LedgerTypeOK ==
    /\ engines \in Seq(CapitalState) /\ engines # <<>>
    /\ initial \in Nat /\ autoOn \in BOOLEAN /\ mixed \in BOOLEAN /\ served \in Nat
    /\ demo \in Seq(Int) /\ scen \in Nat /\ auto \in Seq(Int)
    /\ step \in [Workers -> Steps]
    /\ kind \in [Workers -> {"flow", "tick", "reset", "config"}]
    /\ snap \in [Workers -> Int]
    /\ todo \in [Workers -> Seq(Action)] /\ acts \in [Workers -> Seq(Action)]
    /\ stake \in [Workers -> Int]
    /\ ref \in [Workers -> Nat]

-----------------------------------------------------------------------------
(* CapitalState and create_initial_state; base is the capital an engine     *)
(* state was created with.                                                  *)

Current == Len(engines)
Account(a, d, p, b) == [avail |-> a, depl |-> d, pnl |-> p, base |-> b]
StateAllocated(c, amount) == Account(c.avail - amount, c.depl + amount, c.pnl, c.base)
Released(c, amount) == Account(c.avail + amount, c.depl - amount, c.pnl, c.base)
InitialState(total) == Account(total, 0, 0, total)

\* Mutant: the profit is added to the capital and not to the realised profit.
ProfitedOnly(c, net) == Account(c.avail + net, c.depl, c.pnl, c.base)

\* The server adds the net profit of a closed position past release().
Profited(c, net) == Account(c.avail + net, c.depl, c.pnl + net, c.base)

-----------------------------------------------------------------------------
(* _execute_flow_step and _execute_automated_tick.                         *)

At(w, from, to) == step[w] = from /\ step' = [step EXCEPT ![w] = to]
NextAction(w) == acts' = [acts EXCEPT ![w] = Tail(@)]
Doing(w, type) == acts[w] # <<>> /\ Head(acts[w]).type = type
RequiredCapital(w, a) == (snap[w] * a.size) \div Den

\* A request comes in; a tick is refused unless automated mode is on.
Begin(w) ==
    /\ At(w, "idle", "snapshot") /\ served < MaxRequests
    /\ \E k \in Kinds \cap {"flow", "tick"} :
        /\ k = "tick" => autoOn
        /\ kind' = [kind EXCEPT ![w] = k]
        /\ mixed' = (mixed \/ k = "tick")
    /\ served' = served + 1
    /\ UNCHANGED <<engines, lists, initial, autoOn, snap, todo, acts, stake, ref>>

\* exec_state is filled.
Snapshot(w) ==
    /\ At(w, "snapshot", "evaluate")
    /\ snap' = [snap EXCEPT ![w] = engines[Current].avail]
    /\ UNCHANGED <<engines, lists, server, kind, todo, acts, stake, ref>>

\* The scenarios of DemoExploit: one or two positions, a close, or nothing.
Scenarios ==
    {<<>>} \union {<<OpenAction(n)>> : n \in FlowSizes}
    \union {<<OpenAction(p[1]), OpenAction(p[2])>> : p \in FlowSizes \X FlowSizes}
    \union (IF scen > 0 THEN {<<CloseAction>>} ELSE {})

\* AutomatedExploit: one position at a time, opened and closed by signals.
Signals(w) ==
    {<<>>} \union (IF auto # <<>> THEN {<<CloseAction>>}
                   ELSE {<<OpenAction(n)>> :
                           n \in {m \in TickSizes : RequiredCapital(w, OpenAction(m)) >= MinStake}})

Evaluate(w) ==
    /\ At(w, "evaluate", "risk")
    /\ \E as \in IF kind[w] = "flow" THEN Scenarios ELSE Signals(w) :
        todo' = [todo EXCEPT ![w] = as]
    /\ UNCHANGED <<engines, lists, server, kind, snap, acts, stake, ref>>

\* Scenario steps check a close like an open of the whole capital.
Approved(w, a) ==
    \/ kind[w] = "tick" /\ a.type = "close"
    \/ RequiredCapital(w, a) <= engines[Current].avail
RiskCheck(w) ==
    /\ step[w] = "risk" /\ todo[w] # <<>>
    /\ todo' = [todo EXCEPT ![w] = Tail(@)]
    /\ IF Approved(w, Head(todo[w]))
       THEN acts' = [acts EXCEPT ![w] = Append(@, Head(todo[w]))]
       ELSE acts' = acts
    /\ UNCHANGED <<engines, lists, server, step, kind, snap, stake, ref>>

RiskChecked(w) ==
    /\ At(w, "risk", "execute") /\ todo[w] = <<>>
    /\ UNCHANGED <<engines, lists, server, thread>>

CallOn(w, from, to) ==
    /\ At(w, from, to)
    /\ ref' = [ref EXCEPT ![w] = Current]
    /\ UNCHANGED <<engines, lists, server, kind, snap, todo, acts, stake>>

CallAllocate(w) == Doing(w, "open") /\ CallOn(w, "execute", "allocate")

\* Mutant: the caller has checked the amount before.
OpenUnchecked(w) ==
    /\ At(w, "allocate", "track")
    /\ LET amount == RequiredCapital(w, Head(acts[w]))
       IN /\ engines' = [engines EXCEPT ![ref[w]] = StateAllocated(@, amount)]
          /\ stake' = [stake EXCEPT ![w] = amount]
    /\ UNCHANGED <<lists, server, kind, snap, todo, acts, ref>>
OpenPosition(w) ==
    /\ At(w, "allocate", "track")
    /\ LET amount == RequiredCapital(w, Head(acts[w]))
       IN /\ amount <= engines[ref[w]].avail
          /\ engines' = [engines EXCEPT ![ref[w]] = StateAllocated(@, amount)]
          /\ stake' = [stake EXCEPT ![w] = amount]
    /\ UNCHANGED <<lists, server, kind, snap, todo, acts, ref>>

OpenRejected(w) ==
    /\ At(w, "allocate", "execute")
    /\ RequiredCapital(w, Head(acts[w])) > engines[ref[w]].avail
    /\ NextAction(w)
    /\ UNCHANGED <<engines, lists, server, kind, snap, todo, stake, ref>>

\* demo_positions.append, or the first add_simulated_position of a tick.
TrackPosition(w) ==
    /\ At(w, "track", "callback")
    /\ IF kind[w] = "flow"
       THEN demo' = Append(demo, stake[w]) /\ auto' = auto
       ELSE auto' = Append(auto, stake[w]) /\ demo' = demo
    /\ UNCHANGED <<engines, scen, server, thread>>


\* Scenario steps: add_simulated_position of DemoExploit, or its pop.  Ticks:
\* on_execution_result, which tracks an opened position for a second time, with
\* the fraction that was asked for as its size, or removes the first one.
Callback(w) ==
    /\ At(w, "callback", "execute")
    /\ LET open == Head(acts[w]).type = "open"
       IN IF kind[w] = "flow"
          THEN /\ scen' = IF open THEN scen + 1 ELSE IF scen > 0 THEN scen - 1 ELSE 0
               /\ auto' = auto
          ELSE /\ auto' = IF open THEN Append(auto, Head(acts[w]).size)
                          ELSE IF auto = <<>> THEN auto ELSE Tail(auto)
               /\ scen' = scen
    /\ NextAction(w)
    /\ UNCHANGED <<engines, demo, server, kind, snap, todo, stake, ref>>

\* Mutant: the first position is read and stays in the list.
TakePositionLater(w) ==
    /\ At(w, "execute", "close") /\ Doing(w, "close")
    /\ LET positions == IF kind[w] = "flow" THEN demo ELSE auto
       IN positions # <<>> /\ stake' = [stake EXCEPT ![w] = Head(positions)]
    /\ UNCHANGED <<engines, lists, server, kind, snap, todo, acts, ref>>

\* A scenario step pops the first position, a tick reads it.
TakePosition(w) ==
    /\ At(w, "execute", "close") /\ Doing(w, "close")
    /\ LET positions == IF kind[w] = "flow" THEN demo ELSE auto
       IN positions # <<>> /\ stake' = [stake EXCEPT ![w] = Head(positions)]
    /\ demo' = IF kind[w] = "flow" THEN Tail(demo) ELSE demo
    /\ UNCHANGED <<engines, scen, auto, server, kind, snap, todo, acts, ref>>

NothingToClose(w) ==
    /\ step[w] = "execute" /\ Doing(w, "close")
    /\ IF kind[w] = "flow" THEN demo = <<>> ELSE auto = <<>>
    /\ NextAction(w)
    /\ UNCHANGED <<engines, lists, server, step, kind, snap, todo, stake, ref>>

CallRelease(w) == CallOn(w, "close", "release")

ReleasePosition(w) ==
    /\ At(w, "release", "profit")
    /\ engines' = [engines EXCEPT ![ref[w]] = Released(@, stake[w])]
    /\ UNCHANGED <<lists, server, thread>>

\* A scenario step always closes with a profit.
TakeProfit(w) ==
    /\ At(w, "profit", "callback")
    /\ \E net \in -MaxLoss..MaxGain :
        /\ kind[w] = "flow" => net >= 0
        /\ engines' = [engines EXCEPT ![Current] = Profited(@, net)]
    /\ UNCHANGED <<lists, server, thread>>

Finish(w) ==
    /\ At(w, "execute", "idle") /\ acts[w] = <<>>
    /\ UNCHANGED <<engines, lists, server, thread>>

-----------------------------------------------------------------------------
(* The other requests.                                                     *)

Serve(w, k, to) ==
    /\ At(w, "idle", to) /\ served < MaxRequests /\ k \in Kinds
    /\ served' = served + 1
    /\ kind' = [kind EXCEPT ![w] = k]
    /\ mixed' = TRUE
    /\ UNCHANGED <<engines, demo, scen, auto, todo, acts, stake, ref>>

\* /api/reset and /api/config/capital have the initial state created ...
Reset(w) ==
    /\ Serve(w, "reset", "replace")
    /\ snap' = [snap EXCEPT ![w] = initial]
    /\ UNCHANGED <<initial, autoOn>>
ConfigCapital(w) ==
    /\ Serve(w, "config", "replace")
    /\ initial' = NewCapital
    /\ snap' = [snap EXCEPT ![w] = NewCapital]
    /\ UNCHANGED autoOn

\* ... which replaces the engine state.  Reset then empties the lists, one by
\* one, and ends automated mode; configuration keeps the positions.
ReplaceEngine(w) ==
    /\ At(w, "replace", IF kind[w] = "reset" THEN "clear_scen" ELSE "idle")
    /\ engines' = Append(engines, InitialState(snap[w]))
    /\ demo' = IF kind[w] = "reset" THEN <<>> ELSE demo
    /\ UNCHANGED <<scen, auto, server, thread>>
ResetScenario(w) ==
    /\ At(w, "clear_scen", "clear_auto") /\ scen' = 0
    /\ UNCHANGED <<engines, demo, auto, server, thread>>
ResetAutomated(w) ==
    /\ At(w, "clear_auto", "clear_mode") /\ auto' = <<>>
    /\ UNCHANGED <<engines, demo, scen, server, thread>>
ResetMode(w) ==
    /\ At(w, "clear_mode", "idle") /\ autoOn' = FALSE
    /\ UNCHANGED <<engines, lists, initial, mixed, served, thread>>

\* /api/automated/start forgets the automated positions, their capital stays
\* deployed; /api/automated/stop keeps them.
StartAutomated(w) ==
    /\ Serve(w, "tick", "start") /\ autoOn' = TRUE /\ UNCHANGED <<initial, snap>>
StartCleared(w) ==
    /\ At(w, "start", "idle") /\ auto' = <<>>
    /\ UNCHANGED <<engines, demo, scen, server, thread>>
StopAutomated(w) ==
    /\ Serve(w, "tick", "idle") /\ autoOn' = FALSE /\ UNCHANGED <<initial, snap>>

LedgerInit ==
    /\ engines = <<InitialState(InitialCapital)>> /\ initial = InitialCapital
    /\ demo = <<>> /\ scen = 0 /\ auto = <<>> /\ autoOn = FALSE
    /\ mixed = FALSE /\ served = 0
    /\ step = [w \in Workers |-> "idle"] /\ kind = [w \in Workers |-> "flow"]
    /\ snap = [w \in Workers |-> 0] /\ todo = [w \in Workers |-> <<>>]
    /\ acts = [w \in Workers |-> <<>>] /\ stake = [w \in Workers |-> 0]
    /\ ref = [w \in Workers |-> 1]

ExecuteStep(w) ==
    \/ Begin(w) \/ Snapshot(w) \/ Evaluate(w) \/ RiskCheck(w) \/ RiskChecked(w) \/ Finish(w)
    \/ CallAllocate(w) \/ OpenPosition(w) \/ OpenRejected(w) \/ TrackPosition(w) \/ Callback(w)
    \/ TakePosition(w) \/ NothingToClose(w) \/ CallRelease(w) \/ ReleasePosition(w)
    \/ TakeProfit(w)
ServerStep(w) ==
    \/ Reset(w) \/ ConfigCapital(w) \/ ReplaceEngine(w) \/ ResetScenario(w)
    \/ ResetAutomated(w) \/ ResetMode(w) \/ StartAutomated(w) \/ StartCleared(w)
    \/ StopAutomated(w)
LedgerNext == \E w \in Workers : ExecuteStep(w) \/ ServerStep(w)
LedgerSpec == LedgerInit /\ [][LedgerNext]_ledgerVars

-----------------------------------------------------------------------------

\* No money appears or vanishes: in every engine state, the current one and
\* those that a thread may still be using, available and deployed capital are
\* what it was created with and the profit realised in it, in every
\* interleaving of the requests.
StateBalanced(c) == c.avail + c.depl = c.base + c.pnl
Conservation == \A e \in DOMAIN engines : StateBalanced(engines[e])

\* "Capital currently in positions": while only scenario steps run, however
\* many at once, deployed capital is what demo_positions hold and what a thread
\* is about to put there or has just taken.
InHand(w) ==
    IF step[w] \in {"track", "close", "release"} THEN stake[w] ELSE 0
DeployedIsPositions ==
    ~mixed => engines[Current].depl = MapThenSumSet(LAMBDA i : demo[i], DOMAIN demo)
                                        + MapThenSumSet(InHand, Workers)

\* "No exploit can overdraw capital": the check of the risk step may be old
\* when the capital is allocated, allocate makes its own.
NoOverdraw ==
    [][\A e \in DOMAIN engines :
        engines'[e].depl > engines[e].depl => engines'[e].avail >= 0]_engines
=============================================================================
