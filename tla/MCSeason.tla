------------------------------ MODULE MCSeason ------------------------------
(* An instance of Season for TLC: two teams with a handful of contracts, in circumstances that each
   bring some of the operations together. *)
EXTENDS Season, TLC

MCCalendar ==
  <<[kind |-> "InSeasonRosterLock", season |-> 1], [kind |-> "SeasonEnd", season |-> 1],
    [kind |-> "PreseasonStart", season |-> 2], [kind |-> "PreseasonKeeper", season |-> 2],
    [kind |-> "PreseasonFinalRosterLock", season |-> 2], [kind |-> "Week1RosterLock", season |-> 2]>>
AfterLock == 1
AfterSeason == 2
AfterStart == 3
AfterKeepers == 4

Held(id, player, kind, year, salary, season, team) ==
  [FirstRow(id, player, kind, salary, season, team) EXCEPT !.year = year]

\* Keepers to choose among: together over the limit.
Squad == <<Held(1, "vet", "Veteran", 2, 80, 2, "A"), Held(2, "rook", "Rookie", 2, 30, 2, "A"),
           Held(3, "young", "RD", 2, 25, 2, "A"), Held(4, "star", "Veteran", 1, 50, 2, "B")>>
Pair == <<Held(1, "rook", "Rookie", 2, 60, 2, "A"), Held(2, "free", "RFA", 3, 24, 2, "A"),
          Held(3, "young", "RD", 1, 45, 2, "A")>>
\* The last terms of a season.
Ending == <<Held(1, "rook", "Rookie", 3, 20, 1, "A"), Held(2, "vet", "Veteran", 1, 61, 1, "A"),
            Held(3, "young", "RD", 3, 4, 1, "B")>>
Two == <<Held(1, "vet", "Veteran", 1, 61, 1, "A"), Held(2, "young", "RD", 1, 4, 1, "A")>>

Of(first, last, rows, n, ops) ==
  [first |-> first, last |-> last, rows |-> rows, moves |-> n, ops |-> ops,
   overlap |-> FALSE, anyRow |-> FALSE]
OnAnyRow(s) == [s EXCEPT !.anyRow = TRUE]
Racing(s) == [s EXCEPT !.overlap = TRUE]

SeasonSettings ==
  {Of(AfterStart, 4, Squad, 1, {"keepers", "drop"}),
   Of(AfterStart, 4, Pair, 2, {"keepers", "trade", "activate"}),
   Of(AfterSeason, 4, Ending, 2, {"drop", "toIr", "fromIr", "activate", "trade"}),
   OnAnyRow(Of(AfterKeepers, 6, Pair, 2, RosterOps)),
   Racing(Of(AfterLock, 3, Two, 2, {"drop", "toIr", "toRdi", "fromRdi"}))}
\* Keepers declared while the contracts of last season still await their advancement.
EarlySettings ==
  {Of(AfterSeason, 4, <<Held(1, "vet", "Veteran", 1, 61, 1, "A"), Held(2, "rook", "Rookie", 1, 30, 1, "A")>>,
      0, {"keepers"})}

Same == Permutations(Requests)
=============================================================================
