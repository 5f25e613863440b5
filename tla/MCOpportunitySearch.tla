------------------------- MODULE MCOpportunitySearch -------------------------
(* Two blocks that share most of their state, and a root that a source     *)
(* makes up for the first of them.  Keys have two digits.                  *)
EXTENDS OpportunitySearch

MCNibbles == 0 .. 2

Hash(h) == [to |-> h, embedded |-> FALSE]
Embed(h) == [to |-> h, embedded |-> TRUE]
Lf(path, value) == [kind |-> "leaf", path |-> path, value |-> value]
Ext(path, ref) == [kind |-> "extension", path |-> path, child |-> ref]
Br(c0, c1, c2, value) == [kind |-> "branch", value |-> value,
                          children |-> (0 :> c0) @@ (1 :> c1) @@ (2 :> c2)]

(* Tokens 1, 2, 3; pools 1 and 2 trade 1-2, pool 3 trades 2-3, pool 4 3-1.  *)
(* Model A keeps one token and its reserve in each of two slots, model B   *)
(* everything in one.                                                      *)
WordA(token, reserve) == token + 4 * reserve
WordB(t0, t1, r0, r1) == t0 + 4 * t1 + 16 * r0 + 128 * r1
Holds(fields, storage, code) == [fields |-> fields, storage |-> storage, code |-> code]

MCEmptyAccount == Holds("zero", "empty", "no code")
Acc1 == Holds("n1", "s1", "A")
Acc1Later == Holds("n1", "t1", "A")
Acc2 == Holds("n2", "s2", "A")
Acc2Later == Holds("n2", "t1", "A")
Acc3 == Holds("n3", "s3", "B")
Acc4 == Holds("n4", "s4", "B")
Acc6 == Holds("n6", "empty", "no code")
AccLie == Holds("n4", "z", "B")

MCNode ==
    \* the state of block 1, and that of block 2 where pools 1 and 2 moved on
    ("r1" :> Br(Hash("b0"), Hash("b1"), Hash("a4"), Empty)) @@
    ("r2" :> Br(Hash("c0"), Hash("b1"), Hash("a4"), Empty)) @@
    ("b0" :> Br(Hash("a1"), Hash("a2"), Empty, Empty)) @@
    ("c0" :> Br(Hash("d1"), Hash("d2"), Empty, Empty)) @@
    ("b1" :> Br(Hash("a3"), Hash("a6"), Empty, Empty)) @@
    ("a1" :> Lf(<<>>, Account(Acc1))) @@ ("d1" :> Lf(<<>>, Account(Acc1Later))) @@
    ("a2" :> Lf(<<>>, Account(Acc2))) @@ ("d2" :> Lf(<<>>, Account(Acc2Later))) @@
    ("a3" :> Lf(<<>>, Account(Acc3))) @@
    ("a4" :> Lf(<<0>>, Account(Acc4))) @@ ("a6" :> Lf(<<>>, Account(Acc6))) @@
    \* storage: one leaf embedded and one not; all in one short node; a leaf
    ("s1" :> Ext(<<0>>, Hash("v1"))) @@
    ("v1" :> Br(Embed("w1"), Hash("w2"), Empty, Empty)) @@
    ("w1" :> Lf(<<>>, Word(WordA(1, 1)))) @@ ("w2" :> Lf(<<>>, Word(WordA(2, 7)))) @@
    ("t1" :> Ext(<<0>>, Hash("u1"))) @@
    ("u1" :> Br(Embed("w3"), Hash("w4"), Empty, Empty)) @@
    ("w3" :> Lf(<<>>, Word(WordA(1, 4)))) @@ ("w4" :> Lf(<<>>, Word(WordA(2, 4)))) @@
    ("s2" :> Ext(<<0>>, Embed("v2"))) @@
    ("v2" :> Br(Embed("w5"), Embed("w6"), Empty, Empty)) @@
    ("w5" :> Lf(<<>>, Word(WordA(1, 7)))) @@ ("w6" :> Lf(<<>>, Word(WordA(2, 1)))) @@
    ("s3" :> Lf(<<0, 0>>, Word(WordB(2, 3, 2, 6)))) @@
    ("s4" :> Lf(<<0, 0>>, Word(WordB(3, 1, 3, 5)))) @@
    \* a made-up root: a leaf too early, a short node by hash, values in
    \* branches; below it a slot that holds 0; a node with a bad child
    ("l0" :> Br(Hash("l1"), Hash("l2"), Hash("l3"), Empty)) @@
    ("l1" :> Lf(<<>>, Account(Acc1))) @@
    ("l2" :> Lf(<<0>>, [kind |-> "other"])) @@
    ("l3" :> Br(Hash("l4"), Hash("v2"), Hash("l5"), Empty)) @@
    ("l4" :> Br(Empty, Empty, Empty, Account(AccLie))) @@
    ("l5" :> Br(Empty, Empty, Hash("w1"), Empty)) @@
    ("z" :> Lf(<<0, 0>>, Word(0))) @@
    ("bad" :> Br(Embed("r1"), Empty, Empty, Empty))

MCHashes == DOMAIN MCNode
MCShort == {"w1", "w3", "v2", "w5", "w6", "s2", "l2"}
MCValues == {n.value : n \in {m \in {MCNode[h] : h \in MCHashes} : m.kind = "leaf"}}
                \cup {Account(AccLie)}

MCEntries ==
    LET of[h \in MCHashes] ==
            LET n == MCNode[h]
                At(path, ref) == IF ref = Empty THEN {}
                                 ELSE {<<path \o e[1], e[2]>> : e \in of[ref.to]}
            IN CASE n.kind = "leaf" -> {<<n.path, n.value>>}
                 [] n.kind = "extension" -> At(n.path, n.child)
                 [] n.kind = "branch" ->
                      UNION {At(<<d>>, n.children[d]) : d \in MCNibbles}
                        \cup (IF n.value = Empty THEN {} ELSE {<<<<>>, n.value>>})
    IN [h \in MCHashes |-> of[h]]

MCHeight ==
    LET of[h \in MCHashes] ==
            LET below == {of[ref.to] : ref \in ChildrenOf(MCNode[h])}
            IN IF below = {} THEN 0 ELSE 1 + Max(below)
    IN [h \in MCHashes |-> of[h]]

(* Addresses 5, 7, 8 and 9 are in no block. *)
MCAccountKey == <<<<0, 0>>, <<0, 1>>, <<1, 0>>, <<2, 0>>, <<0, 2>>, <<1, 1>>,
                  <<2, 1>>, <<2, 2>>, <<1, 2>>>>
MCSlotKey == (0 :> <<0, 0>>) @@ (1 :> <<0, 1>>) @@ (2 :> <<1, 0>>)

-----------------------------------------------------------------------------
Stream == [chain |-> "base", source |-> "rpc", finality |-> "confirmed"]
Observed(sequence, time, n) ==
    Stream @@ [sequence |-> sequence, time |-> time, number |-> n, hash |-> n]

MCHeads == {Observed(1, 1, 1), Observed(4, 2, 2),
            [Observed(1, 1, 1) EXCEPT !.finality = "observed"]}
MCStates == {Observed(2, 1, 1) @@ [root |-> "r1"], Observed(5, 2, 2) @@ [root |-> "r2"],
             Observed(3, 1, 1) @@ [root |-> "l0"], Observed(4, 1, 1) @@ [root |-> "r2"],
             Observed(0, 1, 1) @@ [root |-> "r1"]}

Proof(sequence, n, root, address, account, words) ==
    Observed(sequence, 2, n) @@
    [root |-> root, address |-> address, account |-> account,
     slots |-> [k \in DOMAIN words |-> [slot |-> k - 1, value |-> words[k]]]]

MCProofs == {
    Proof(6, 1, "r1", 1, Acc1, <<WordA(1, 1), WordA(2, 7)>>),
    Proof(7, 1, "r1", 2, Acc2, <<WordA(1, 7), WordA(2, 1)>>),
    Proof(8, 1, "r1", 3, Acc3, <<WordB(2, 3, 2, 6)>>),
    Proof(9, 1, "r1", 4, Acc4, <<WordB(3, 1, 3, 5)>>),
    Proof(10, 2, "r2", 1, Acc1Later, <<WordA(1, 4), WordA(2, 4)>>),
    \* an absent account and an absent slot
    Proof(12, 1, "r1", 7, MCEmptyAccount, <<0>>),
    Proof(13, 1, "r1", 1, Acc1, <<WordA(1, 1), WordA(2, 7), 0>>),
    \* claims that the state does not support, an observation out of order
    Proof(14, 1, "r1", 1, Acc1Later, <<WordA(1, 4), WordA(2, 4)>>),
    Proof(15, 1, "r1", 1, Acc1, <<WordA(1, 4), WordA(2, 7)>>),
    Proof(16, 1, "r1", 5, Acc1, <<>>),
    Proof(17, 1, "r2", 1, Acc1Later, <<WordA(1, 4), WordA(2, 4)>>),
    Proof(1, 1, "r1", 1, Acc1, <<WordA(1, 1), WordA(2, 7)>>),
    \* below the root that is made up
    Proof(18, 1, "l0", 1, Acc1, <<>>), Proof(19, 1, "l0", 3, MCEmptyAccount, <<>>),
    Proof(20, 1, "l0", 4, AccLie, <<0>>), Proof(21, 1, "l0", 8, MCEmptyAccount, <<>>)}

(* The nodes on the way, and what a source may make of them. *)
Twisted(root, s) ==
    {<<>>, Tail(s), Front(s), Reverse(s), s \o <<Head(s)>>, s \o <<"w4">>, s \o <<"bad">>,
     s \o <<"w1">>, <<"a1">> \o s}

Keys == Range(MCAccountKey) \cup Range(MCSlotKey)

MCLists ==
    [root \in MCHashes \cup {"empty"}, key \in Keys |->
        LET s == Spine(root, key)
            others == {Spine(root, k) : k \in {<<0, 0>>, <<0, 1>>, <<0, 2>>, <<1, 0>>}}
        IN {s} \cup
           (IF s = <<>> THEN {<<"w4">>}
            ELSE IF <<root, key>> \in {<<"r1", <<0, 0>>>>, <<"r1", <<0, 2>>>>, <<"s1", <<0, 0>>>>,
                                       <<"s1", <<1, 0>>>>, <<"s2", <<0, 1>>>>, <<"l0", <<0, 0>>>>}
            THEN others \cup Twisted(root, s)
            ELSE {})]

MCListsFor(root, key) == MCLists[root, key]

-----------------------------------------------------------------------------
Field(slot, offset, width) == [slot |-> slot, offset |-> offset, width |-> width]
Model(code, token0, token1, reserve0, reserve1, num, den) ==
    [code |-> code, numerator |-> num, denominator |-> den,
     field |-> [token0 |-> token0, token1 |-> token1,
                reserve0 |-> reserve0, reserve1 |-> reserve1]]

ModelA == Model("A", Field(0, 0, 2), Field(1, 0, 2), Field(0, 2, 3), Field(1, 2, 3), 9, 10)
ModelB == Model("B", Field(0, 0, 2), Field(0, 2, 2), Field(0, 4, 3), Field(0, 7, 3), 7, 8)

(* Reads the reserves of model B the other way round. *)
ModelC == Model("B", Field(0, 0, 2), Field(0, 2, 2), Field(0, 7, 3), Field(0, 4, 3), 7, 8)

Pair(address, t0, t1, model) == [chain |-> "base", address |-> address, token0 |-> t0,
                                 token1 |-> t1, implementation |-> model]
MCRegistry == {ModelA, ModelB}
MCSpecs == {Pair(1, 1, 2, ModelA), Pair(2, 1, 2, ModelA), Pair(3, 2, 3, ModelB),
            Pair(4, 3, 1, ModelB), Pair(4, 3, 1, ModelC), Pair(2, 2, 1, ModelA)}

Request(base, hops, limits, t) == [base |-> base, hops |-> hops, limits |-> limits, time |-> t]
Tight == [input |-> 4, work |-> 2, tight |-> TRUE]
Ample == [input |-> 7, work |-> 5, tight |-> FALSE]

MCRequests == {Request(1, 3, Tight, 0), Request(1, 3, Tight, 2), Request(1, 2, Ample, 2),
               Request(3, 3, Tight, 2), Request(3, 3, Ample, 2)}
=============================================================================
