---------------------------- MODULE Eligibility -----------------------------
(***************************************************************************)
(* Which pool a player may be acquired from in a season: from what is      *)
(* known of him, and from who holds him.  Classifications are never        *)
(* stored; the commissioner's override is.                                 *)
(***************************************************************************)
EXTENDS Integers

CONSTANT Never   \* a null column: no season, no override, no team

Classes == {"VeteranAuctionEligible", "RookieDraftEligible", "Ineligible"}

\* What is known of a player.  first is the season he first appeared in NBA data.
FactsOf(seasons) ==
  [league : BOOLEAN, flagged : BOOLEAN, played : BOOLEAN, first : seasons \cup {Never},
   override : Classes \cup {Never}]

\* The season he appears in does not count against him: he may arrive in the middle of it.
OnNbaRosterBefore(facts, season) == facts.first # Never /\ facts.first < season
HadPlayedBefore(facts, season) == facts.played /\ OnNbaRosterBefore(facts, season)

\* classify_player
Classify(facts, season) ==
  IF facts.override # Never THEN facts.override
  ELSE IF HadPlayedBefore(facts, season) THEN "VeteranAuctionEligible"
  ELSE IF facts.league \/ facts.flagged THEN "RookieDraftEligible"
  ELSE "Ineligible"

\* find_eligibility_candidate_players: the query that spares the classifier most of the players.
\* Every player of the league's own making is a candidate.
IsCandidate(facts, season) ==
  facts.league \/ (facts.first # Never /\ facts.first <= season) \/ facts.flagged \/ facts.override # Never

\* build_pool: candidates of the classes who are on no roster.
Pool(facts, holder, season, classes) ==
  {p \in DOMAIN facts : /\ IsCandidate(facts[p], season)
                        /\ Classify(facts[p], season) \in classes
                        /\ holder[p] = Never}
RookiePool(facts, holder, season) == Pool(facts, holder, season, {"RookieDraftEligible"})
VeteranPool(facts, holder, season) == Pool(facts, holder, season, {"VeteranAuctionEligible"})
InSeasonPool(facts, holder, season) ==
  Pool(facts, holder, season, {"VeteranAuctionEligible", "RookieDraftEligible"})

\* set_player_nba_status: a game needs a season it was played in.
StatusAllowed(played, first) == played => first # Never
=============================================================================
