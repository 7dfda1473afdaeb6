---------------------------- MODULE MCRookieDraft ---------------------------
(* An instance of RookieDraft for TLC: two teams of four missed the playoffs, two rounds, two
   players to draft and one who is a veteran until the commissioner says otherwise. *)
EXTENDS RookieDraft

Out(rank, mid) == [rank |-> rank, mid |-> mid, made |-> FALSE, finish |-> 0]
In(rank, mid, finish) == [rank |-> rank, mid |-> mid, made |-> TRUE, finish |-> finish]
MCStandings == 1 :> In(1, 1, 2) @@ 2 :> In(2, 2, 1) @@ 3 :> Out(3, 4) @@ 4 :> Out(4, 3)
\* Two mid-season ranks the other way round; a team that made the playoffs after all; a playoff team
\* whose finish is not recorded.
MCEdits == {3 :> Out(3, 3) @@ 4 :> Out(4, 4), 4 :> In(4, 3, 3), 1 :> In(1, 1, 0)}
MCDraw == 1 :> <<1, 2>> @@ 2 :> <<2, 1>>

Known(league, flagged, played, first) ==
  [league |-> league, flagged |-> flagged, played |-> played, first |-> first, override |-> Never]
MCFacts ==
  "home" :> Known(TRUE, FALSE, FALSE, Never) @@ "flag" :> Known(FALSE, TRUE, FALSE, Never)
    @@ "vet" :> Known(FALSE, FALSE, TRUE, 1)
MCHolder == "home" :> Never @@ "flag" :> 2 @@ "vet" :> Never
MCOthers == 1 :> 0 @@ 2 :> 0 @@ 3 :> 1 @@ 4 :> 0
Corrected(player, played, first, override) ==
  [player |-> player, played |-> played, first |-> first, override |-> override]
MCNewFacts ==
  {Corrected("home", TRUE, 1, Never), Corrected("vet", FALSE, Never, "RookieDraftEligible"),
   Corrected("flag", TRUE, Never, Never)}

Around(happening, anyTime, started, picks) ==
  [events |-> happening, anyTime |-> anyTime, started |-> started, picks |-> picks]
DraftSettings ==
  {Around({"standings", "crash"}, FALSE, FALSE, 0), Around({"trade"}, FALSE, FALSE, 1),
   Around({"drop", "facts"}, FALSE, TRUE, 3), Around({"drop"}, TRUE, TRUE, 2)}
Traded == {Around({"trade"}, FALSE, TRUE, 0)}

Same == Permutations(Requests)
=============================================================================
