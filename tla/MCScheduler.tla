---------------------------- MODULE MCScheduler ----------------------------
(* Instances of Scheduler for TLC: two events, which two they may be, and how often their handlers
   fail.  With two attempts, two failures use them up. *)
EXTENDS Scheduler, TLC

Of(leagues, dues, kinds, fails) ==
  [league |-> leagues, due |-> dues, kind |-> kinds, failures |-> fails]

\* Two deadlines of one league, the later one with the lower id; the earlier recovers or does not.
Pair(fails) == Of(<<1, 1>>, <<1, 0>>, <<"deadline", "deadline">>, <<0, fails>>)

\* Deadlines of two leagues, and an auction and an RFA window of one: the first never recovers.
Apart == Of(<<1, 2>>, <<0, 0>>, <<"deadline", "deadline">>, <<2, 1>>)
Others == Of(<<1, 1>>, <<0, 0>>, <<"close", "window">>, <<2, 1>>)

AllCalendars == {Pair(1), Pair(2), Apart, Others}
=============================================================================
