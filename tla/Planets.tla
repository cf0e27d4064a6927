------------------------------- MODULE Planets -------------------------------
(***************************************************************************)
(* PlanetStateService and the commands that go through it: planets held in *)
(* memory, written through to their rows, each behind a promise-chain      *)
(* mutex; users' cash, which only the database holds; the hulls' cargo.    *)
(*                                                                         *)
(* One kind of goods stands for the fourteen items and the price of one is *)
(* one credit, so goods and credits add up.  A command is a record that    *)
(* says what it waits for; an action is the code from one await to the     *)
(* next, together with the database's answer that resumes it.              *)
(***************************************************************************)
EXTENDS Integers, Sequences, FiniteSets, Functions

CONSTANTS
    Hulls, Users, Captain,   \* Captain[h] is the account of hull h
    Clocks,                  \* sweeps of the planet timer
    Colonies, Hub,           \* the planets; Hub is Zygor-3
    Nobody, Free,            \* userid null, and the owner of a planet in revolt
    Owner0,                  \* who owns each colony when the process starts
    MaxPlanets,              \* MAXPLNTS
    Lots,                    \* bound: quantities a command names
    Worth0,                  \* bound: goods and credits at the start, for each hull and account
    MaxIssued,               \* bound: goods and credits in all
    MaxCount,                \* bound: times an account's planets are counted up
    Verbs,                   \* the commands given
    Faults                   \* subset of {"error", "leave"}

ASSUME FiniteAssumption  == IsFiniteSet(Hulls) /\ IsFiniteSet(Users) /\ IsFiniteSet(Colonies)
ASSUME CaptainAssumption == Captain \in [Hulls -> Users]
ASSUME PlanetsAssumption == Hub \notin Colonies /\ MaxPlanets \in Nat
ASSUME OwnersAssumption  == Nobody \notin Users /\ Free \notin Users /\ Nobody # Free
ASSUME Owner0Assumption  == Owner0 \in [Colonies -> Users \cup {Nobody}]
ASSUME LotsAssumption    == Lots \subseteq Nat /\ Worth0 \in Nat /\ MaxIssued \in Nat /\ MaxCount \in Nat
ASSUME ActorsAssumption  == Hulls \cap Clocks = {}
ASSUME VerbsAssumption   ==
    Verbs \subseteq {"buy", "sell", "withdraw", "down", "up", "claim", "abandon", "admin", "attack", "spy", "give"}

VARIABLES
    live,      \* PlanetStateService.map
    row,       \* the planet rows
    queue,     \* the promise chain of each planet; its head holds the mutex
    doing,     \* what each hull's command, or sweep, waits for
    hold,      \* the cargo of each hull
    aboard,    \* the hulls in the world
    cash,      \* User.cash
    planets,   \* User.planets
    issued,    \* history: goods and credits ever brought into the game
    failed,    \* history: planets whose last write failed
    missed     \* history: accounts for which an increment of User.planets failed

vars == <<live, row, queue, doing, hold, aboard, cash, planets, issued, failed, missed>>
purses  == <<cash, planets, missed>>
history == <<issued, failed>>

Planets == Colonies \cup {Hub}
Actors  == Hulls \cup Clocks
Owners  == Users \cup {Nobody, Free}
Planet  == [owner : Owners, qty : Int, cash : Int, tax : Int, spy : Users \cup {Nobody}]

\* What an actor waits for.
Command == [at : {"idle", "purse", "queued", "debit", "mail", "count", "write", "credit"},
            verb : Verbs \cup {"none", "tick"}, planet : Planets,
            n : Nat, seen : Int, data : Planet]

Blank == [owner |-> Nobody, qty |-> 0, cash |-> 0, tax |-> 0, spy |-> Nobody]
Idle  == [at |-> "idle", verb |-> "none", planet |-> Hub, n |-> 0, seen |-> 0, data |-> Blank]

TypeOK ==
    /\ live \in [Planets -> Planet]
    /\ row \in [Planets -> Planet]
    /\ queue \in [Planets -> Seq(Actors)]
    /\ doing \in [Actors -> Command]
    /\ hold \in [Hulls -> Int]
    /\ aboard \in SUBSET Hulls
    /\ cash \in [Users -> Int]
    /\ planets \in [Users -> Nat]
    /\ issued \in Nat
    /\ failed \in SUBSET Planets
    /\ missed \in SUBSET Users

\* What a planet is worth, and what is on its way from one place to another.
Stuff(s) == s.qty + s.cash + s.tax

OnPlanet == [p \in Planets |-> Stuff(live[p])]

OnTheWay == [h \in Hulls |->
    IF \/ doing[h].at = "write" /\ doing[h].verb \in {"buy", "up", "withdraw"}
       \/ doing[h].at = "credit"
    THEN doing[h].n ELSE 0]

\* Everything on the planets, in the holds, in the accounts, and under way.
Worth ==
    SumFunctionOnSet(OnPlanet, Planets) + SumFunctionOnSet(hold, Hulls)
        + SumFunctionOnSet(cash, Users) + SumFunctionOnSet(OnTheWay, Hulls)

Init ==
    /\ live = [p \in Planets |-> [Blank EXCEPT !.owner = IF p = Hub THEN Free ELSE Owner0[p]]]
    /\ row = live
    /\ queue = [p \in Planets |-> <<>>]
    /\ doing = [a \in Actors |-> Idle]
    /\ hold = [h \in Hulls |-> Worth0]
    /\ aboard = Hulls
    /\ cash = [u \in Users |-> Worth0]
    /\ planets = [u \in Users |-> Cardinality({p \in Colonies : Owner0[p] = u})]
    /\ issued = Worth
    /\ failed = {}
    /\ missed = {}

-----------------------------------------------------------------------------
(* The mutex (runSerialized) and the parts handlers are made of.           *)

Waits(a, op) == doing' = [doing EXCEPT ![a] = op]
Ends(a)      == Waits(a, Idle)

\* runSerialized: the chain of the planet gets a further link.
Serialized(a, op) ==
    /\ queue' = [queue EXCEPT ![op.planet] = Append(@, a)]
    /\ Waits(a, [op EXCEPT !.at = "queued"])

\* Mutant of Released: prev.then(fn) without the second fn.
ReleasedOnSuccess(p, ok) == IF ok THEN [queue EXCEPT ![p] = Tail(@)] ELSE queue

\* A link that settles, well or badly, lets the next one run.
Released(p, ok) == [queue EXCEPT ![p] = Tail(@)]

\* The link of actor a, with this command, may run.
Turn(a, verb) ==
    /\ doing[a].at = "queued" /\ doing[a].verb = verb
    /\ Head(queue[doing[a].planet]) = a

\* The critical section ends without a change.
Refused(a) ==
    /\ queue' = Released(doing[a].planet, TRUE)
    /\ Ends(a)
    /\ UNCHANGED <<live, row, hold, aboard, purses, history>>

\* Mutant of Saves: the payload is built before the change.
SavesBefore(a, p, s) ==
    /\ live' = [live EXCEPT ![p] = s]
    /\ Waits(a, [doing[a] EXCEPT !.at = "write", !.data = live[p]])

\* The planet becomes s and the statement that saves it is issued.
Saves(a, p, s) ==
    /\ live' = [live EXCEPT ![p] = s]
    /\ Waits(a, [doing[a] EXCEPT !.at = "write", !.data = s])

\* ShipStateService.mutate does nothing for a hull that is not in the world.
Loaded(h, n) == [hold EXCEPT ![h] = IF h \in aboard THEN @ + n ELSE @]

\* Mutant of Less: the last of it is not taken.
LessKept(have, n) == IF have > n THEN have - n ELSE have

Less(have, n) == have - n

\* Mutant of OwnedBy: the counter of the account instead of the planets.
OwnedByCounter(u) == planets[u]

\* countOwnedBy
OwnedBy(u) == Cardinality({p \in Colonies : live[p].owner = u})

\* A statement may fail.  Bound: while no planet is left unsaved by another one.
MayFail == "error" \in Faults /\ failed = {}

-----------------------------------------------------------------------------
(* Commands up to their first await.                                       *)

\* What each handler tests before it asks the planet service.
MayBuy(h, p, n)      == live[p].owner # Nobody      \* decideTradeAccess
MaySell(h, p, n)     == p = Hub
MayWithdraw(h, p, n) == live[p].owner = Captain[h] /\ n <= live[p].tax
MayDown(h, p, n)     == hold[h] >= n
MayClaim(h, p, n)    == live[p].owner = Nobody
MayAdmin(h, p, n)    == live[p].owner = Captain[h]
MayAttack(h, p, n)   == p # Hub /\ live[p].owner # Captain[h] /\ hold[h] >= n

MayAsk(h, verb, p, n) ==
    CASE verb = "buy"      -> MayBuy(h, p, n)
      [] verb = "sell"     -> MaySell(h, p, n)
      [] verb = "withdraw" -> MayWithdraw(h, p, n)
      [] verb = "down"     -> MayDown(h, p, n)
      [] verb = "claim"    -> MayClaim(h, p, n)
      [] verb = "admin"    -> MayAdmin(h, p, n)
      [] verb = "attack"   -> MayAttack(h, p, n)
      [] verb \in {"up", "abandon"} -> TRUE

\* Bound: an account takes so many planets.
MayTake(u) == planets[u] < MaxCount

\* A captain gives a command.  buy first asks for the account's cash.
Ask(h) ==
    /\ doing[h] = Idle /\ h \in aboard
    /\ \E verb \in Verbs \ {"spy", "give"}, p \in Planets, n \in Lots :
          LET op == [Idle EXCEPT !.verb = verb, !.planet = p, !.n = n] IN
          /\ MayAsk(h, verb, p, n)
          /\ verb \in {"claim", "attack"} => MayTake(Captain[h])
          /\ \/ verb = "buy"
                /\ Waits(h, [op EXCEPT !.at = "purse"]) /\ UNCHANGED queue
             \/ verb # "buy" /\ Serialized(h, op)
    /\ UNCHANGED <<live, row, hold, aboard, purses, history>>

\* getCash answers; the order is computed from this balance.
Purse(h) ==
    /\ doing[h].at = "purse"
    /\ Serialized(h, [doing[h] EXCEPT !.seen = cash[Captain[h]]])
    /\ UNCHANGED <<live, row, hold, aboard, purses, history>>

\* transfer to another ship: from hold to hold, without an await.
Give(h) ==
    /\ "give" \in Verbs /\ doing[h] = Idle /\ h \in aboard
    /\ \E g \in aboard \ {h}, n \in Lots :
          /\ hold[h] >= n
          /\ hold' = [hold EXCEPT ![h] = @ - n, ![g] = @ + n]
    /\ UNCHANGED <<live, row, queue, doing, aboard, purses, history>>

\* spy: one of the hull's spies lands, outside the mutex and without a statement.
Spy(h, p) ==
    /\ "spy" \in Verbs /\ doing[h] = Idle /\ h \in aboard
    /\ p # Hub /\ live[p].owner # Captain[h] /\ hold[h] > 0
    /\ hold' = [hold EXCEPT ![h] = @ - 1]
    /\ live' = [live EXCEPT ![p].spy = Captain[h]]
    /\ UNCHANGED <<row, queue, doing, aboard, purses, history>>

\* The timer's sweep comes to a planet with colonists.
Advance(c) ==
    /\ doing[c] = Idle
    /\ \E p \in Planets : live[p].owner # Nobody /\ Serialized(c, [Idle EXCEPT !.verb = "tick", !.planet = p])
    /\ UNCHANGED <<live, row, hold, aboard, purses, history>>

-----------------------------------------------------------------------------
(* Critical sections.                                                      *)

\* amt4sale: the owner may have the whole stock; the hub never runs out.
Available(h, p) == p = Hub \/ live[p].qty >= doing[h].n

\* computeBuyOutcome, on the balance read before the mutex.
MayOrder(h) == Available(h, doing[h].planet) /\ doing[h].n <= doing[h].seen

\* The sell flag, the weight and the reserve may refuse any order.
Buy(h) ==
    /\ Turn(h, "buy")
    /\ \/ Refused(h)
       \/ /\ MayOrder(h)
          /\ Waits(h, [doing[h] EXCEPT !.at = "debit"])
          /\ UNCHANGED <<live, row, queue, hold, aboard, purses, history>>

\* Mutant of Affordable: the balance read before the mutex was taken.
AffordableThen(h) == doing[h].seen >= doing[h].n

\* debitIfAffordable: the balance is tested in the statement that takes it.
Affordable(h) == cash[Captain[h]] >= doing[h].n

Debited(h) ==
    LET p == doing[h].planet
        n == doing[h].n
        paid == [cash EXCEPT ![Captain[h]] = @ - n]
    IN
    /\ doing[h].at = "debit"
    /\ \/ ~Affordable(h) /\ Refused(h)
       \/ MayFail /\ Refused(h)
       \/ /\ Affordable(h) /\ p = Hub
          /\ cash' = paid /\ hold' = Loaded(h, n)
          /\ queue' = Released(p, TRUE) /\ Ends(h)
          /\ UNCHANGED <<live, row, aboard, planets, missed, history>>
       \/ /\ Affordable(h) /\ p # Hub
          /\ cash' = paid
          /\ Saves(h, p, [live[p] EXCEPT !.qty = Less(@, n), !.cash = @ + n])
          /\ UNCHANGED <<row, queue, hold, aboard, planets, missed, history>>

\* computeSellOutcome: the hub's fee is taken off.
Proceeds(n) == {n - fee : fee \in {f \in {0, 1} : f <= n}}

\* sell: cargo for credits at the hub; the credit comes after the mutex.
Sell(h) ==
    /\ Turn(h, "sell")
    /\ \/ (h \notin aboard \/ hold[h] < doing[h].n) /\ Refused(h)
       \/ /\ h \in aboard /\ hold[h] >= doing[h].n
          /\ hold' = Loaded(h, -doing[h].n)
          /\ queue' = Released(Hub, TRUE)
          /\ \E credit \in Proceeds(doing[h].n) :
                Waits(h, [doing[h] EXCEPT !.at = "credit", !.n = credit])
          /\ UNCHANGED <<live, row, aboard, purses, history>>

\* withdrawTax
Withdraw(h) ==
    LET p == doing[h].planet
        n == doing[h].n
    IN
    /\ Turn(h, "withdraw")
    /\ \/ (live[p].owner # Captain[h] \/ n > live[p].tax) /\ Refused(h)
       \/ /\ live[p].owner = Captain[h] /\ n <= live[p].tax
          /\ Saves(h, p, [live[p] EXCEPT !.tax = Less(@, n)])
          /\ UNCHANGED <<row, queue, hold, aboard, purses, history>>

\* Mutant of InHold: the test is made on the object the handler holds.
InHoldOfObject(h) == hold[h] >= doing[h].n

\* depositToPlanet tests the cargo again, on the hull that is in the world now.
InHold(h) == h \in aboard /\ hold[h] >= doing[h].n

Down(h) ==
    LET p == doing[h].planet
        n == doing[h].n
    IN
    /\ Turn(h, "down")
    /\ \/ ~InHold(h) /\ Refused(h)
       \/ /\ InHold(h)
          /\ hold' = Loaded(h, -n)
          /\ Saves(h, p, [live[p] EXCEPT !.qty = @ + n])
          /\ UNCHANGED <<row, queue, aboard, purses, history>>

\* withdrawFromPlanet: the owner, or anybody where there is none.
Up(h) ==
    LET p == doing[h].planet
        n == doing[h].n
        may == live[p].owner \in {Nobody, Captain[h]} /\ live[p].qty >= n
    IN
    /\ Turn(h, "up")
    /\ \/ ~may /\ Refused(h)
       \/ /\ may
          /\ Saves(h, p, [live[p] EXCEPT !.qty = Less(@, n)])
          /\ UNCHANGED <<row, queue, hold, aboard, purses, history>>

\* claim
Claim(h) ==
    LET p == doing[h].planet
        may == p # Hub /\ OwnedBy(Captain[h]) < MaxPlanets /\ live[p].owner = Nobody
    IN
    /\ Turn(h, "claim")
    /\ \/ Refused(h)      \* a name that is not printable
       \/ /\ may
          /\ Saves(h, p, [live[p] EXCEPT !.owner = Captain[h]])
          /\ UNCHANGED <<row, queue, hold, aboard, purses, history>>

\* abandonPlanet
Abandon(h) ==
    LET p == doing[h].planet IN
    /\ Turn(h, "abandon")
    /\ \/ live[p].owner # Captain[h] /\ Refused(h)
       \/ /\ live[p].owner = Captain[h]
          /\ Saves(h, p, [live[p] EXCEPT !.owner = Nobody])
          /\ UNCHANGED <<row, queue, hold, aboard, purses, history>>

\* applyAdminChange: rates, prices, flags, names; nothing the model holds.
Manage(h) ==
    LET p == doing[h].planet IN
    /\ Turn(h, "admin")
    /\ \/ Refused(h)
       \/ /\ live[p].owner = Captain[h]
          /\ Saves(h, p, live[p])
          /\ UNCHANGED <<row, queue, hold, aboard, purses, history>>

\* The attack has been fought: the planet is taken, and counted, or only saved.
Fought(h, p, s, won) ==
    IF won THEN /\ live' = [live EXCEPT ![p] = [s EXCEPT !.owner = Captain[h]]]
                /\ Waits(h, [doing[h] EXCEPT !.at = "count", !.seen = 1])
    ELSE Saves(h, p, s)

\* attackTroop, attackFighter: some of the n come back, and goods are destroyed with
\* the defenders.  A planet that holds nothing falls without a loss.
Battle(n, there) ==
    IF there = 0 THEN {[back |-> n, left |-> 0, won |-> TRUE]}
    ELSE {o \in [back : 0 .. n, left : 0 .. there, won : BOOLEAN] : o.won => o.back > 0}

\* callForHelp, insertDistressMail: an owner who is not playing is mailed, and so is
\* the spy; these statements are awaited before the planet changes hands.
CallsForHelp(p) == live[p].owner # Nobody

\* attack.  A hull that left the world meanwhile still fights, with the cargo of
\* the object the handler holds.
Attack(h) ==
    LET p == doing[h].planet
        n == doing[h].n
    IN
    /\ Turn(h, "attack")
    /\ \/ Refused(h)
       \/ /\ live[p].owner # Captain[h] /\ hold[h] >= n
          /\ \E o \in Battle(n, live[p].qty) :
                LET s == [live[p] EXCEPT !.qty = o.left] IN
                /\ hold' = Loaded(h, o.back - n)
                /\ \/ Fought(h, p, s, o.won)
                   \/ /\ CallsForHelp(p)
                      /\ live' = [live EXCEPT ![p] = s]
                      /\ Waits(h, [doing[h] EXCEPT !.at = "mail", !.seen = IF o.won THEN 1 ELSE 0])
          /\ UNCHANGED <<row, queue, aboard, purses, history>>

\* The mail is written, or its failure is logged.
Mailed(h) ==
    /\ doing[h].at = "mail"
    /\ Fought(h, doing[h].planet, live[doing[h].planet], doing[h].seen = 1)
    /\ UNCHANGED <<row, queue, hold, aboard, purses, history>>

\* applyEconomyTickWithLosses: gold turns into cash, other stock grows or starves,
\* cash decays by any amount, and a real owner's colonists pay taxes.
After(s, qty, kept, levied) == [s EXCEPT !.qty = qty, !.cash = kept, !.tax = @ + levied]

Grown(s) ==
    UNION {{After(s, qty, kept, levied) :
                qty \in 0 .. s.qty - gold + 1, kept \in 0 .. s.cash + gold,
                levied \in IF s.owner \in Users THEN {0, 1} ELSE {0}} :
           gold \in 0 .. s.qty}

\* checkSpy: a spy may be caught; one who works for the owner leaves.
Unspied(s) ==
    LET gone == [s EXCEPT !.spy = Nobody]
    IN IF s.spy \in {Nobody, s.owner} THEN {gone} ELSE {s, gone}

\* applyTick: a planet its owner taxes too hard may revolt.
Ousted(s) == IF s.owner \in Users THEN {s, [s EXCEPT !.owner = Free]} ELSE {s}

\* The hub is stocked up again; it grows no goods the model counts.
Restocked(p, s) == IF p = Hub THEN {live[p]} ELSE s

\* runEconomicTickFor.  The await of applyTick yields to promise callbacks only,
\* never to a timer or the database, and is part of the step.  What the planet is
\* worth more than before was made by its colonists.
Produce(c) ==
    LET p == doing[c].planet
        Made(s) == LET gain == Stuff(s) - Stuff(live[p]) IN IF gain > 0 THEN gain ELSE 0
    IN
    /\ Turn(c, "tick")
    /\ \/ live[p].owner = Nobody /\ Refused(c)
       \/ /\ live[p].owner # Nobody
          /\ \E s \in Restocked(p, UNION {UNION {Ousted(t) : t \in Unspied(g)} : g \in Grown(live[p])}) :
                /\ issued + Made(s) <= MaxIssued
                /\ issued' = issued + Made(s)
                /\ Saves(c, p, s)
          /\ UNCHANGED <<row, queue, hold, aboard, purses, failed>>

-----------------------------------------------------------------------------
(* Answers of the database.                                                *)

\* The planet's row is saved, or the statement fails and the handler throws.
Written(a, ok) ==
    LET op == doing[a]
        p  == op.planet
    IN
    /\ op.at = "write" /\ (ok \/ MayFail)
    /\ row' = IF ok THEN [row EXCEPT ![p] = op.data] ELSE row
    /\ failed' = IF ok THEN failed \ {p} ELSE failed \cup {p}
    /\ missed' = IF ~ok /\ op.verb = "claim"
                 THEN missed \cup {Captain[a]} ELSE missed
    /\ hold' = IF ok /\ op.verb \in {"buy", "up"} THEN Loaded(a, op.n) ELSE hold
    /\ \/ ok /\ op.verb \in {"claim", "abandon"}
          /\ Waits(a, [op EXCEPT !.at = "count"]) /\ UNCHANGED queue
       \/ ok /\ op.verb = "withdraw"
          /\ Waits(a, [op EXCEPT !.at = "credit"]) /\ queue' = Released(p, ok)
       \/ (~ok \/ op.verb \notin {"claim", "abandon", "withdraw"})
          /\ Ends(a) /\ queue' = Released(p, ok)
    /\ UNCHANGED <<live, aboard, cash, planets, issued>>

\* Mutant of Counter: an abandonment is counted twice.
CounterTwice(h) == IF doing[h].verb = "abandon"
                   THEN IF planets[Captain[h]] > 1 THEN planets[Captain[h]] - 2 ELSE 0
                   ELSE planets[Captain[h]] + 1

\* incrementPlanets and decrementPlanetsIfPositive
Counter(h) == IF doing[h].verb = "abandon"
              THEN IF planets[Captain[h]] > 0 THEN planets[Captain[h]] - 1 ELSE 0
              ELSE planets[Captain[h]] + 1

\* The counter is saved.  A conquest is written only now, and not if this fails.
Counted(h, ok) ==
    LET op == doing[h]
        p  == op.planet
        u  == Captain[h]
    IN
    /\ op.at = "count" /\ (ok \/ MayFail)
    /\ planets' = IF ok THEN [planets EXCEPT ![u] = Counter(h)] ELSE planets
    /\ missed' = IF ~ok /\ op.verb # "abandon" THEN missed \cup {u} ELSE missed
    /\ failed' = IF ~ok /\ op.verb = "attack" THEN failed \cup {p} ELSE failed
    /\ \/ ok /\ op.verb = "attack" /\ Saves(h, p, live[p]) /\ UNCHANGED queue
       \/ (~ok \/ op.verb # "attack") /\ Ends(h) /\ queue' = Released(p, ok) /\ UNCHANGED live
    /\ UNCHANGED <<row, hold, aboard, cash, issued>>

\* addCash
Credited(h, ok) ==
    /\ doing[h].at = "credit" /\ (ok \/ MayFail)
    /\ cash' = IF ok THEN [cash EXCEPT ![Captain[h]] = @ + doing[h].n] ELSE cash
    /\ Ends(h)
    /\ UNCHANGED <<live, row, queue, hold, aboard, planets, missed, history>>

\* The hull leaves the world, its command still waiting.
Leave(h) ==
    /\ "leave" \in Faults /\ h \in aboard
    /\ aboard' = aboard \ {h}
    /\ UNCHANGED <<live, row, queue, doing, hold, purses, history>>

\* It comes back.  Bound: once its last command has ended.
Board(h) ==
    /\ h \notin aboard /\ doing[h] = Idle
    /\ aboard' = aboard \cup {h}
    /\ UNCHANGED <<live, row, queue, doing, hold, purses, history>>

-----------------------------------------------------------------------------

Section(h) ==
    \/ Buy(h) \/ Sell(h) \/ Withdraw(h) \/ Down(h) \/ Up(h)
    \/ Claim(h) \/ Abandon(h) \/ Manage(h) \/ Attack(h)

\* What an actor that waits may be resumed by.
Resumed(a) ==
    \/ a \in Hulls /\ (Purse(a) \/ Section(a) \/ Debited(a) \/ Mailed(a))
    \/ a \in Clocks /\ Produce(a)
    \/ \E ok \in BOOLEAN :
          \/ Written(a, ok)
          \/ a \in Hulls /\ (Counted(a, ok) \/ Credited(a, ok))

Next ==
    \/ \E h \in Hulls : Ask(h) \/ Give(h) \/ Leave(h) \/ Board(h) \/ \E p \in Planets : Spy(h, p)
    \/ \E c \in Clocks : Advance(c)
    \/ \E a \in Actors : Resumed(a)

\* The database answers, and a promise whose turn has come runs.
Fairness == \A a \in Actors : WF_vars(Resumed(a))

Spec == Init /\ [][Next]_vars /\ Fairness

-----------------------------------------------------------------------------
(* Properties.                                                             *)

\* "Postgres enforces affordability rather than the scheduler" (buy.handler.ts),
\* "the hold went negative" (depositToPlanet): whatever commands are in flight
\* together, no account, hold, stock or tax pool goes below zero.
NoOverdraft ==
    /\ \A u \in Users : cash[u] >= 0
    /\ \A h \in Hulls : hold[h] >= 0
    /\ \A p \in Planets : live[p].qty >= 0 /\ live[p].cash >= 0 /\ live[p].tax >= 0

\* Trade, transfers, taxes and attacks never make goods or credits out of
\* nothing, with statements that fail and hulls that leave in the middle.
NothingForNothing == Worth <= issued

\* Write-through (planet-state.service.ts): a planet nobody is working on, whose
\* last statement did not fail, is saved, but for the spies planted on it.
RowIsLive ==
    \A p \in Planets : queue[p] = <<>> /\ p \notin failed =>
        [live[p] EXCEPT !.spy = Nobody] = [row[p] EXCEPT !.spy = Nobody]

OwnedNow(u) == Cardinality({p \in Colonies : live[p].owner = u})

\* The cap on planets holds for claims made at once on several planets: only a
\* conquest takes an account past it.
OnlyConquestPassesTheCap ==
    [][\A u \in Users :
          OwnedNow(u)' > OwnedNow(u) /\ OwnedNow(u)' > MaxPlanets =>
            \E h \in Hulls : Captain[h] = u /\ doing[h].verb = "attack"]_vars

\* User.planets, which conquests and revolts leave too high, is never too low:
\* what it lacks is still to be counted, if no statement that counts it failed.
CounterCovers ==
    \A u \in Users \ missed :
        OwnedNow(u) <= planets[u]
            + Cardinality({h \in Hulls : /\ Captain[h] = u
                                         /\ \/ doing[h].verb = "claim" /\ doing[h].at \in {"write", "count"}
                                            \/ doing[h].verb = "attack" /\ doing[h].at = "count"})

\* A command that waits is answered, and the mutex does not stay with anybody,
\* whatever fails.
EventuallyAnswered == \A a \in Actors : doing[a] # Idle ~> doing[a] = Idle
=============================================================================
