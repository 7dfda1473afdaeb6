------------------------------ MODULE MCTrades ------------------------------
(* An instance of Trades for TLC: a player and two picks of three teams; a pick goes to and fro in
   two trades, a trade of three teams shares it, and a trade of two shares the player. *)
EXTENDS Trades, TLC

MCFirstHolder == "x" :> "A" @@ "p" :> "B" @@ "q" :> "C"
MCBy == "give" :> "A" @@ "lend" :> "B" @@ "back" :> "A" @@ "circle" :> "B"
MCWith == "give" :> {"B"} @@ "lend" :> {"A"} @@ "back" :> {"B"} @@ "circle" :> {"A", "C"}
MCTo == "give" :> ("x" :> "B")
     @@ "lend" :> ("p" :> "A")
     @@ "back" :> ("p" :> "B")
     @@ "circle" :> ("x" :> "C" @@ "p" :> "A" @@ "q" :> "A")

Of(offers, overlap, activeOnly, moves) ==
  [offers |-> offers, overlap |-> overlap, activeOnly |-> activeOnly, moves |-> moves]
InTurn == {"lend", "back", "circle"}
AtOnce == {"give", "circle"}

\* One request after the other, on active trades or on any; requests that race each other, on any
\* trades, next to roster moves that keep an Active row, or next to drops that let it expire.
AllSettings ==
  {Of(InTurn, FALSE, TRUE, {}), Of(InTurn, FALSE, FALSE, {}), Of(AtOnce, TRUE, FALSE, {}),
   Of(AtOnce, TRUE, TRUE, {"ir", "drop"}), Of(AtOnce, TRUE, TRUE, {"ir", "dropUnsigned"})}

AnyTrade == {Of(InTurn, FALSE, FALSE, {})}

Same == Permutations(Requests)
=============================================================================
