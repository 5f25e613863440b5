-------------------------- MODULE OpportunitySearch --------------------------
(***************************************************************************)
(* From authenticated state to a report of opportunities (F3):             *)
(*                                                                         *)
(*   evidence - snapshot - pool universe - simple cycles - search report   *)
(*                                                                         *)
(* Composes AuthenticatedState with the pools that are read off its        *)
(* evidence and with the depth-first enumeration of the cycles through a   *)
(* base token, one action for each turn of its loop.  Each cycle is then   *)
(* optimized; RouteOptimizer models how, here its result is what           *)
(* RouteOptimizer!ResultIsExact says of it.                                *)
(*                                                                         *)
(* Source: constant_product.py, opportunity_graph.py, opportunity.py.      *)
(* One thread: a search and a verification do not interleave.  A universe  *)
(* holds its own evidence, so what is verified after it was opened cannot  *)
(* change what is found in it: a behaviour verifies first and then         *)
(* searches.  Addresses and tokens are numbers.                            *)
(***************************************************************************)
EXTENDS AuthenticatedState, ConstantProduct

CONSTANTS
    Registry,            \* implementations, at most one per code hash
    Specs,               \* pool specifications
    TokenWidth,          \* 160
    WordWidth,           \* 256
    MaxFeeDenominator,   \* MAX_FEE_DENOMINATOR
    MinRouteHops, MaxRouteHops,
    MaxRoutes,           \* MAX_ENUMERATED_ROUTES
    MaxSteps,            \* MAX_ENUMERATION_STEPS
    MaxSearchWork,       \* MAX_SEARCH_WORK_UNITS
    Requests,            \* what callers ask for: [base, hops, limits, time]
    MaxUniverses, MaxReports, MaxLost       \* bounds: see OpenUniverse, Report

-----------------------------------------------------------------------------
(* Pool models (constant_product.py). *)

WithinWord(f) == f.width >= 1 /\ f.offset + f.width <= WordWidth

Overlap(f, g) ==
    /\ f.slot = g.slot
    /\ \E bit \in 0 .. (WordWidth - 1) :
          /\ f.offset <= bit /\ bit < f.offset + f.width
          /\ g.offset <= bit /\ bit < g.offset + g.width

Roles == {"token0", "token1", "reserve0", "reserve1"}

IsImplementation(i) ==
    /\ \A r \in Roles : WithinWord(i.field[r])
    /\ i.field["token0"].width = TokenWidth /\ i.field["token1"].width = TokenWidth
    /\ i.code # EmptyAccount.code
    /\ \A r, q \in Roles : r # q => ~Overlap(i.field[r], i.field[q])
    /\ 0 < i.numerator /\ i.numerator < i.denominator /\ i.denominator <= MaxFeeDenominator

(* One code cannot stand for two models. *)
IsRegistry(S) ==
    /\ \A i \in S : IsImplementation(i)
    /\ \A i, j \in S : i.code = j.code => i = j

(* A specification may name a model that no registry holds. *)
IsSpec(s) ==
    /\ IsImplementation(s.implementation) /\ s.address \in Nat
    /\ s.token0 # 0 /\ s.token1 # 0 /\ s.token0 # s.token1

ASSUME ModelAssumption == IsRegistry(Registry) /\ \A s \in Specs : IsSpec(s)

ASSUME HopsAssumption == MinRouteHops \in Nat \ {0} /\ MaxRouteHops \in Nat

VARIABLES
    universes,   \* PoolUniverses: sets of pools [spec, evidence]
    search,      \* the enumeration in progress, NoSearch if there is none
    reports      \* OpportunitySearchReports

vars == <<walk, job, evidence, universes, search, reports>>

NoSearch == [base |-> "none"]

Enumerating == search # NoSearch /\ search.next # <<>>

Extract(field, word) == (word \div 2 ^ field.offset) % 2 ^ field.width

Capacity(field) == 2 ^ field.width - 1

SlotsOf(implementation) == {implementation.field[r].slot : r \in Roles}

ProvenSlots(e) == {e.proof.slots[k].slot : k \in DOMAIN e.proof.slots}

WordOf(e, slot) ==
    (CHOOSE k \in DOMAIN e.proof.slots : e.proof.slots[k].slot = slot)

FieldOf(spec, e, role) ==
    LET field == spec.implementation.field[role]
    IN Extract(field, e.proof.slots[WordOf(e, field.slot)].value)

Reserve(pool, role) == FieldOf(pool.spec, pool.evidence, role)

(* AuthenticatedConstantProductPool *)
IsPool(spec, e) ==
    /\ e.exists
    /\ e.proof.chain = spec.chain /\ e.proof.address = spec.address
    /\ e.proof.account.code = spec.implementation.code
    /\ ProvenSlots(e) = SlotsOf(spec.implementation)
    /\ \A k \in DOMAIN e.included : e.included[k]
    /\ FieldOf(spec, e, "token0") = spec.token0 /\ FieldOf(spec, e, "token1") = spec.token1
    /\ FieldOf(spec, e, "reserve0") > 0 /\ FieldOf(spec, e, "reserve1") > 0

Governed(pool) == pool.spec.implementation \in Registry

EvidenceOf(universe) == {pool.evidence : pool \in universe}

AddressOf(pool) == pool.spec.address

(* PoolUniverse: pools of distinct addresses that use up a snapshot. *)
IsUniverse(universe) ==
    /\ IsSnapshot(EvidenceOf(universe))
    /\ Cardinality({AddressOf(p) : p \in universe}) = Cardinality(universe)
    /\ \A p \in universe : IsPool(p.spec, p.evidence) /\ Governed(p)

OpenUniverse ==
    /\ job = NoJob /\ search = NoSearch
    /\ Cardinality(universes) < MaxUniverses
    /\ \E S \in SUBSET evidence : \E specOf \in [S -> Specs] :
          LET universe == {[spec |-> specOf[e], evidence |-> e] : e \in S} IN
          /\ IsUniverse(universe)
          /\ universes' = universes \cup {universe}
    /\ UNCHANGED <<walk, job, evidence, search, reports>>

AnchorOf(universe) == (CHOOSE p \in universe : TRUE).evidence.anchor

ObservedAt(universe) == AnchorOf(universe).state.time

-----------------------------------------------------------------------------
(* Enumeration of simple cycles (opportunity_graph.py). *)

Leg(pool, tokenIn, tokenOut) ==
    [pool |-> AddressOf(pool), tokenIn |-> tokenIn, tokenOut |-> tokenOut]

LegsOf(universe) ==
    UNION {{Leg(p, p.spec.token0, p.spec.token1), Leg(p, p.spec.token1, p.spec.token0)} :
             p \in universe}

(* adjacency: the legs that leave a token, in the order of their pools.    *)
Adjacent(universe, token) == {l \in LegsOf(universe) : l.tokenIn = token}

InOrder(legs, k) == CHOOSE l \in legs : Cardinality({m \in legs : m.pool < l.pool}) = k - 1

(* The cycle itself, as ConstantProductRoute demands. *)
IsRoute(legs) ==
    LET n == Len(legs) IN
    /\ n \in MinRouteHops .. MaxRouteHops
    /\ legs[n].tokenOut = legs[1].tokenIn
    /\ \A k \in 1 .. (n - 1) : legs[k].tokenOut = legs[k + 1].tokenIn
    /\ \A j, k \in 1 .. n : j # k => /\ legs[j].pool # legs[k].pool
                                     /\ legs[j].tokenIn # legs[k].tokenIn

(* The calls of visit() on the stack: the legs taken so far, and in each   *)
(* call the number of the leg that is tried next.                          *)
Here(s) == IF s.path = <<>> THEN s.base ELSE Last(s.path).tokenOut
Options(s) == Adjacent(s.universe, Here(s))
Current(s) == InOrder(Options(s), Last(s.next))
Full(s) == Len(s.path) >= s.hops
HasOption(s) == ~Full(s) /\ Last(s.next) <= Cardinality(Options(s))
Skip(s) == [s EXCEPT !.next = Append(Front(@), Last(@) + 1), !.steps = @ + 1]

UsedPools(s) == {s.path[k].pool : k \in DOMAIN s.path}
Visited(s) == {s.base} \cup {s.path[k].tokenOut : k \in DOMAIN s.path}

BeginSearch(universe, r) ==
    /\ job = NoJob /\ search = NoSearch
    /\ Cardinality(reports) < MaxReports
    /\ r.hops \in MinRouteHops .. MaxRouteHops
    /\ ObservedAt(universe) <= r.time
    /\ search' = [universe |-> universe, base |-> r.base, hops |-> r.hops, limits |-> r.limits,
                  created |-> r.time, path |-> <<>>, next |-> <<1>>, steps |-> 0, routes |-> {}]
    /\ UNCHANGED <<walk, job, evidence, universes, reports>>

(* Every leg that is looked at is one unit of work. *)
Look ==
    /\ Enumerating
    /\ HasOption(search)
    /\ UNCHANGED <<walk, job, evidence, universes, reports>>

OutOfWork == Look /\ search.steps >= MaxSteps /\ search' = NoSearch

(* At the ceiling the rest is left out. *)
OutOfRoutes_Truncates(s) == [s EXCEPT !.next = <<>>]

(* More routes than the ceiling end the search without a report. *)
OutOfRoutes(s) == NoSearch

AddRoute(s, legs) ==
    LET routes == s.routes \cup {legs} IN
    IF Cardinality(routes) > MaxRoutes THEN OutOfRoutes(s)
    ELSE [Skip(s) EXCEPT !.routes = routes]

LookAtUsedPool ==
    /\ Look /\ search.steps < MaxSteps
    /\ Current(search).pool \in UsedPools(search)
    /\ search' = Skip(search)

CloseCycle ==
    /\ Look /\ search.steps < MaxSteps
    /\ Current(search).pool \notin UsedPools(search)
    /\ Current(search).tokenOut = search.base
    /\ LET legs == Append(search.path, Current(search)) IN
       search' = IF Len(legs) < MinRouteHops THEN Skip(search) ELSE AddRoute(search, legs)

LookAtVisitedToken ==
    /\ Look /\ search.steps < MaxSteps
    /\ Current(search).pool \notin UsedPools(search)
    /\ Current(search).tokenOut # search.base
    /\ Current(search).tokenOut \in Visited(search)
    /\ search' = Skip(search)

GoDeeper ==
    /\ Look /\ search.steps < MaxSteps
    /\ Current(search).pool \notin UsedPools(search)
    /\ Current(search).tokenOut # search.base
    /\ Current(search).tokenOut \notin Visited(search)
    /\ search' = [Skip(search) EXCEPT !.path = Append(@, Current(search)),
                                      !.next = Append(@, 1)]

(* visit() returns to its caller. *)
GoBack ==
    /\ Enumerating
    /\ ~HasOption(search)
    /\ search' = [search EXCEPT !.next = Front(@),
                                !.path = IF @ = <<>> THEN @ ELSE Front(@)]
    /\ UNCHANGED <<walk, job, evidence, universes, reports>>

-----------------------------------------------------------------------------
(* The report (opportunity.py). *)

(* Every pool is taken from its first token to its second. *)
Hop_Unturned(universe, leg) ==
    LET pool == CHOOSE p \in universe : AddressOf(p) = leg.pool
        i == pool.spec.implementation
    IN [reserveIn |-> Reserve(pool, "reserve0"), reserveOut |-> Reserve(pool, "reserve1"),
        capacity |-> Capacity(i.field["reserve0"]),
        feeNumerator |-> i.numerator, feeDenominator |-> i.denominator]

Hop(universe, leg) ==
    LET pool == CHOOSE p \in universe : AddressOf(p) = leg.pool
        i == pool.spec.implementation
        in == IF leg.tokenIn = pool.spec.token0 THEN "reserve0" ELSE "reserve1"
        out == IF leg.tokenIn = pool.spec.token0 THEN "reserve1" ELSE "reserve0"
    IN [reserveIn |-> Reserve(pool, in), reserveOut |-> Reserve(pool, out),
        capacity |-> Capacity(i.field[in]),
        feeNumerator |-> i.numerator, feeDenominator |-> i.denominator]

HopsOf(universe, legs) == [k \in DOMAIN legs |-> Hop(universe, legs[k])]

ProfitOf(hops, amount) == RouteOut(hops, amount) - amount

(* The smallest input with the largest exact profit, nothing if no input   *)
(* has a profit.                                                           *)
Optimum(hops, limits) ==
    LET inputs == 1 .. MaximumSafeInput(hops, limits.input)
        gains == {x \in inputs : ProfitOf(hops, x) > 0}
        best == CHOOSE x \in gains : \A y \in gains :
                    \/ ProfitOf(hops, y) < ProfitOf(hops, x)
                    \/ ProfitOf(hops, y) = ProfitOf(hops, x) /\ x <= y
    IN IF gains = {} THEN [complete |-> TRUE, input |-> 0, profit |-> 0]
       ELSE [complete |-> TRUE, input |-> best, profit |-> ProfitOf(hops, best)]

OutOfBudget == [complete |-> FALSE, input |-> 0, profit |-> 0]

(* Work that would exceed the ceiling raises before any route is           *)
(* optimized.  Routes may run out of budget under limits that are tight,   *)
(* at most MaxLost of them in this model.                                  *)
Report ==
    /\ search # NoSearch /\ search.next = <<>>
    /\ search' = NoSearch
    /\ IF Cardinality(search.routes) * search.limits.work > MaxSearchWork
       THEN UNCHANGED reports
       ELSE \E lost \in SUBSET search.routes :
              /\ Cardinality(lost) <= MaxLost
              /\ lost # {} => search.limits.tight
              /\ reports' = reports \cup
                   {[universe |-> search.universe, base |-> search.base,
                     hops |-> search.hops, limits |-> search.limits,
                     created |-> search.created,
                     results |-> [r \in search.routes |->
                         IF r \in lost THEN OutOfBudget
                         ELSE Optimum(HopsOf(search.universe, r), search.limits)]]}
    /\ UNCHANGED <<walk, job, evidence, universes>>

Routes(report) == DOMAIN report.results
Complete(report) == \A r \in Routes(report) : report.results[r].complete

(* AtomicDexOpportunityEvidence: optimized and quoted once more on its     *)
(* universe, which gives the same.                                         *)
Opportunities(report) ==
    {[route |-> r, input |-> report.results[r].input, profit |-> report.results[r].profit] :
       r \in {q \in Routes(report) : report.results[q].complete /\ report.results[q].profit > 0}}

Enumerate ==
    \/ OutOfWork \/ LookAtUsedPool \/ CloseCycle \/ LookAtVisitedToken
    \/ GoDeeper \/ GoBack

-----------------------------------------------------------------------------
Init == StateInit /\ universes = {} /\ search = NoSearch /\ reports = {}

Next ==
    \/ /\ universes = {} /\ StateNext
       /\ UNCHANGED <<universes, search, reports>>
    \/ OpenUniverse
    \/ \E universe \in universes, r \in Requests : BeginSearch(universe, r)
    \/ Enumerate
    \/ Report

Spec == Init /\ [][Next]_vars

-----------------------------------------------------------------------------
(* Properties. *)

(* What the state under a root holds of a pool, read from its tries. *)
AccountAt(root, address) ==
    {e[2].account : e \in {d \in EntriesOf(root) : d[1] = AccountKey[address]}}

WordAt(storage, slot) ==
    {e[2].number : e \in {d \in EntriesOf(storage) : d[1] = SlotKey[slot]}}

ModelAt(root, address) ==
    {i \in Registry : \E account \in AccountAt(root, address) : account.code = i.code}

FieldAt(root, address, role) ==
    UNION {LET f == i.field[role] IN
           {(w \div 2 ^ f.offset) % 2 ^ f.width : w \in WordAt(account.storage, f.slot)} :
             i \in ModelAt(root, address), account \in AccountAt(root, address)}

AnchorsOf(report) == {e.anchor : e \in EvidenceOf(report.universe)}

(* All pools of a report are read from one state, the one under the root   *)
(* that its anchor claims: their code is the registered one, and both      *)
(* their tokens and reserves are in the tries under that root              *)
(* (constant_product 400-432, 559-593).                                    *)
ReportSpeaksForOneState ==
    \A r \in reports : \E a \in AnchorsOf(r) : \A p \in r.universe :
        LET At(role) == FieldAt(a.state.root, AddressOf(p), role) IN
        /\ At("token0") = {p.spec.token0} /\ At("token1") = {p.spec.token1}
        /\ At("reserve0") = {Reserve(p, "reserve0")}
        /\ At("reserve1") = {Reserve(p, "reserve1")}

(* What a pool pays for an amount, at the reserves that the state holds:   *)
(* the most that leaves the product of its reserves, without the fee, no   *)
(* smaller; nothing if the amount does not fit.                            *)
Pays(root, leg, amount) ==
    LET Held(role) == CHOOSE n \in FieldAt(root, leg.pool, role) : TRUE
        i == CHOOSE j \in ModelAt(root, leg.pool) : TRUE
        in == IF Held("token0") = leg.tokenIn THEN "reserve0" ELSE "reserve1"
        out == IF in = "reserve0" THEN "reserve1" ELSE "reserve0"
        Keeps(paid) == (Held(in) * i.denominator + amount * i.numerator) * (Held(out) - paid)
                         >= Held(in) * i.denominator * Held(out)
    IN IF amount = Raises \/ 2 ^ i.field[in].width <= Held(in) + amount THEN Raises
       ELSE CHOOSE paid \in 0 .. Held(out) : Keeps(paid) /\ ~Keeps(paid + 1)

(* An opportunity is one in the state that its anchor claims: swapped leg  *)
(* by leg with the pools of that state, its input returns exactly its      *)
(* profit, and no input within the limits returns more (opportunity        *)
(* 68-93, 249-261).                                                        *)
OpportunitiesAreSwappable ==
    \A r \in reports : \A a \in AnchorsOf(r), o \in Opportunities(r) :
        LET Return(x) ==
                FoldLeft(LAMBDA amount, leg : Pays(a.state.root, leg, amount), x, o.route)
        IN /\ Return(o.input) = o.input + o.profit
           /\ \A x \in 1 .. r.limits.input : Return(x) <= x + o.profit

Cycles(universe, base, hops) ==
    {legs \in UNION {[1 .. n -> LegsOf(universe)] : n \in MinRouteHops .. hops} :
        legs[1].tokenIn = base /\ IsRoute(legs)}

(* The enumeration finds the simple cycles through the base token, all of  *)
(* them and nothing else, or raises: a report is never cut short by a      *)
(* ceiling (opportunity_graph 264-308).                                    *)
ReportIsExhaustive ==
    \A r \in reports : Routes(r) = Cycles(r.universe, r.base, r.hops)
=============================================================================
