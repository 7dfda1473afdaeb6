-------------------------- MODULE MCVeteranAuction --------------------------
(* Instances of VeteranAuction for TLC. *)
EXTENDS VeteranAuction, TLC

Of(kind, ticks, failures) ==
  [kind |-> kind, inSeason |-> FALSE, ticks |-> ticks, failures |-> failures]
InSeason(s) == [s EXCEPT !.inSeason = TRUE]

\* A free agent on the ladder: ticks that overlap, or one whose sweeps and closes may fail; and a
\* restricted free agent, who is never on the ladder: both at once.  And a free agent in season.
OneTick == {CHOOSE t \in Ticks : TRUE}
AllSettings ==
  {Of("FreeAgent", Ticks, 0), Of("FreeAgent", OneTick, 1), Of("RestrictedFreeAgent", Ticks, 1),
   InSeason(Of("FreeAgent", Ticks, 1))}

\* Two ticks that overlap and do not fail, and one alone.
TwoTicks == {Of("FreeAgent", Ticks, 0)}
SingleTick == {Of("FreeAgent", OneTick, 0)}
=============================================================================
