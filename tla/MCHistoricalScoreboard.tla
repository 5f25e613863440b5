----------------------- MODULE MCHistoricalScoreboard -----------------------
(***************************************************************************)
(* Instances for TLC: histories of three inclusions with every disposition *)
(* and a transaction that was included twice, in two blocks.               *)
(***************************************************************************)
EXTENDS HistoricalScoreboard

Expected(output) ==
    [principal |-> 10, output |-> output, fee |-> 0, reserve |-> 1, gas |-> 1, l1 |-> 0,
     operator |-> 0, bid |-> 1, rate |-> [num |-> 1, den |-> 1], minimum |-> 0,
     returnBps |-> 0, bidBps |-> 10, maxAge |-> 9, slippageBps |-> 5, horizon |-> 9,
     balance |-> 9, healthy |-> TRUE, allowed |-> TRUE]

(* A profit of 1 is 1.43 basis points of 7, one of 2 is 2.86. *)
Uneven(output) == [Expected(output) EXCEPT !.principal = 7]

Paid(output, direct) ==
    [success |-> TRUE, event |-> TRUE, output |-> output, gas |-> 1, l1 |-> 0, operator |-> 0,
     direct |-> direct]

Nothing == [success |-> FALSE, event |-> FALSE, output |-> 0, gas |-> 1, l1 |-> 0,
            operator |-> 0, direct |-> 0]

Attempt(name, block, terms, receipt, settled) ==
    [transaction |-> name, package |-> name, chain |-> "ethereum", lane |-> "lane",
     finality |-> "finalized", native |-> "ETH", base |-> "USD",
     block |-> block, index |-> 0, time |-> block, success |-> receipt.success,
     event |-> receipt.event, simulated |-> TRUE, terms |-> terms, receipt |-> receipt,
     created |-> 0, settled |-> settled]

Later(attempt) == [attempt EXCEPT !.created = 1]

InEuro(attempt) == [attempt EXCEPT !.base = "EUR", !.created = 1]

(* The first history leaves room for claimed times, the third, priced in   *)
(* euro, for the choice of a valuation policy; the others follow so late   *)
(* that nothing but their records and windows is left to choose.           *)
Attempts ==
    [exact |-> Attempt("exact", 1, Expected(16), Paid(16, 1), 0),
     short |-> Later(Attempt("short", 2, Expected(16), Paid(13, 1), 1)),
     reverted |-> Later(Attempt("reverted", 3, Expected(16), Nothing, Absent)),
     again |-> Later(Attempt("exact", 2, Expected(16), Paid(16, 1), 1)),
     missing |-> Later(Attempt("missing", 3, Expected(14), [Nothing EXCEPT !.success = TRUE], Absent)),
     even |-> InEuro(Attempt("even", 2, Expected(13), Paid(13, 0), 1)),
     overrun |-> InEuro(Attempt("overrun", 1, Expected(15), [Paid(15, 1) EXCEPT !.l1 = 2], 1)),
     failed |-> InEuro(Attempt("failed", 3, Expected(16), Nothing, Absent)),
     low |-> Later(Attempt("low", 2, Uneven(12), Paid(12, 0), 1)),
     high |-> Later(Attempt("high", 1, Uneven(11), Paid(11, 1), 1)),
     other |-> Later([Attempt("other", 1, Expected(16), Paid(16, 1), 1) EXCEPT !.chain = "base"])]

(* TLC evaluates a function once and a record at each use. *)
MCFacts == [i \in DOMAIN Attempts |-> Attempts[i]]

MCHistories == {{"exact", "short", "reverted"}, {"exact", "again", "missing"},
                {"even", "overrun", "failed"}, {"low", "high", "other"}}

MCPolicies ==
    {[native |-> "ETH", base |-> b[1], source |-> b[2]] :
        b \in {<<"USD", "feed">>, <<"EUR", "feed">>, <<"EUR", "desk">>}}

Quote(base, source, num, den) ==
    [native |-> "ETH", base |-> base, source |-> source, num |-> num, den |-> den,
     from |-> 0, until |-> 2]

MCBooks == {Quote("USD", "feed", 1, 1), Quote("EUR", "feed", 1, 1), Quote("EUR", "desk", 5, 2)}

MCWindows == {[from |-> 1, to |-> 3], [from |-> 2, to |-> 2]}

MCBounds == {<<>>, <<1, 3>>}

Lenient ==
    [attempts |-> 1, records |-> 1, blocks |-> 1, perBucket |-> 1, scoreableRate |-> 0,
     successRate |-> 0, floorRate |-> 0, costRate |-> 0, positiveRate |-> 0,
     overrunRate |-> BasisPoints, errorRate |-> BasisPoints, guarded |-> -5]

(* For every limit of a policy some scoreboard fails it alone. *)
MCPromotions ==
    {[Lenient EXCEPT !.attempts = 2, !.blocks = 2, !.errorRate = 1],
     [Lenient EXCEPT !.attempts = 2, !.records = 2, !.positiveRate = 6],
     [Lenient EXCEPT !.successRate = 7, !.costRate = 5, !.overrunRate = 4,
                     !.guarded = -2],
     [Lenient EXCEPT !.attempts = 2, !.scoreableRate = 6, !.successRate = 6,
                     !.floorRate = 6, !.positiveRate = 5, !.overrunRate = 3,
                     !.errorRate = 2, !.guarded = -1]}

MCMade == [manifests |-> 1, records |-> 3, corpora |-> 1, boards |-> 2, reports |-> 2,
           values |-> 2, decisions |-> 1]
=============================================================================
