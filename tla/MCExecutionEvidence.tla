------------------------ MODULE MCExecutionEvidence ------------------------
(***************************************************************************)
(* Instances for TLC.  An episode varies either the times, with one set of *)
(* figures, or the figures, with windows that leave few choices of times.  *)
(***************************************************************************)
EXTENDS ExecutionEvidence

Late == MaxTime

(* Times: one input is observed late or expires early, or one more of the  *)
(* horizon and the anchor differs.                                         *)
TimeEpisodes ==
    {e \in [kind : {"times"}, input : Inputs, observed : 0 .. 3, until : 1 .. Late,
            anchor : {0, 1}, horizon : {2, Late}] :
        /\ e.observed <= e.until
        /\ e.observed = 0 \/ e.until = Late
        /\ e.input \in Unlimited \cup {"anchor"} => e.until = Late
        /\ e.input = "anchor" => e.observed = 0
        /\ e.anchor = 1 \/ e.horizon = 2 => e.observed = 0 /\ e.until \in {4, Late}}

(* Figures: costs, policy and output of the route. *)
FigureEpisodes ==
    [kind : {"figures"}, output : {7, 10, 11}, fee : {1}, gas : {1, 3},
     bid : {0, 1}, rate : {<<1, 2>>, <<3, 2>>}, minimum : {0, 2},
     returnBps : {0, 3}, slippageBps : {0, 1, 4}]

MCEpisodes == TimeEpisodes \cup FigureEpisodes

Least(e, i) ==
    IF e.kind = "figures" THEN IF i = "txSims" THEN 2 ELSE IF i = "anchor" THEN 0 ELSE 1
    ELSE LET default == IF i \in {"routeSims", "risk"} THEN 1
                        ELSE IF i = "txSims" THEN 2
                        ELSE IF i \in {"anchor", "opportunity", "executor", "sender"} THEN e.anchor
                        ELSE 0
         IN IF i = e.input THEN Larger(default, e.observed) ELSE default

MCRecording ==
    [e \in MCEpisodes |-> [i \in Inputs |->
        [observed |-> Least(e, i),
         until |-> IF e.kind = "figures" THEN IF i \in Unlimited THEN Late ELSE 3
                   ELSE IF i = e.input THEN Larger(Least(e, i), e.until) ELSE Late]]]

MCTerms ==
    [e \in MCEpisodes |->
        IF e.kind = "times"
        THEN [principal |-> 4, output |-> 10, fee |-> 1, reserve |-> 1, gas |-> 1, l1 |-> 0,
              operator |-> 1, bid |-> 1, rate |-> [num |-> 1, den |-> 2], minimum |-> 1,
              returnBps |-> 1, bidBps |-> 4, maxAge |-> 2, slippageBps |-> 1,
              horizon |-> e.horizon, balance |-> 20, healthy |-> TRUE, allowed |-> TRUE]
        ELSE [principal |-> 4, output |-> e.output, fee |-> e.fee, reserve |-> 1, gas |-> e.gas,
              l1 |-> 0, operator |-> 1, bid |-> e.bid,
              rate |-> [num |-> e.rate[1], den |-> e.rate[2]], minimum |-> e.minimum,
              returnBps |-> e.returnBps, bidBps |-> 2, maxAge |-> 2,
              slippageBps |-> e.slippageBps, horizon |-> Late, balance |-> 20,
              healthy |-> TRUE, allowed |-> TRUE]]

(* Receipts: the route returns what was expected, less or more; fees and   *)
(* the direct payment stay within their bounds or exceed them.             *)
MCReceipts ==
    [e \in MCEpisodes |->
        LET t == MCTerms[e]
            settled == [success : {TRUE}, event : {TRUE}, output : {t.output - 2, t.output, t.output + 1},
                        gas : {t.gas}, l1 : {0, 1}, operator : {1}, direct : 0 .. (t.bid + 1)]
            other == [success : BOOLEAN, event : {FALSE}, output : {0}, gas : {t.gas}, l1 : {0},
                      operator : {0}, direct : {0}]
        IN IF e.kind = "figures" THEN settled \cup other
           ELSE {r \in settled : r.output = t.output /\ r.gas = t.gas /\ r.l1 = 0
                                   /\ r.operator = 1 /\ r.direct = 1}]

MCRates == [e \in MCEpisodes |->
    {MCTerms[e].rate} \cup IF e.kind = "figures" THEN {[num |-> 2, den |-> 3], [num |-> 1, den |-> 3]} ELSE {}]

=============================================================================
