---------------------------- MODULE EventClaimsMC ----------------------------
(* Rewards and scenarios for the model checking of EventClaims. *)
EXTENDS EventClaims

Currency == [kind |-> "currency", name |-> "", id |-> 1]
Item == [kind |-> "item", name |-> "plate", id |-> 1]
\* The same template again, in another quality.
ItemAgain == [kind |-> "item", name |-> "plate", id |-> 2]

OneReward == {<<Currency, Item>>}
SameTemplate == {<<Item, ItemAgain>>}
EmptyOrTwo == {<<>>, <<Currency, Item>>}

\* Without races and with a backfill that pays nothing.
Plain(environment, faults) ==
    [races |-> {}, awardPast |-> {}, environment |-> environment, faults |-> faults,
     count |-> 2]

\* Players leave, and claims fall due once they have.
Leaving == Plain({"logout", "absence"}, {"fail"})
\* The engine is stopped in the middle of a retry.
Stopped == {Plain({"logout", "absence", "stop"}, {"fail"})}
\* Players come, claims fall due while they play, the engine is stopped and
\* started; the backfill pays past deeds too.
Coming == [Plain({"login", "elapse", "stop"}, {"fail", "lost"}) EXCEPT !.awardPast = Events]
\* The operator does everything while the engine runs a zone race.
Operated == [Plain({"manual", "edit", "enable", "delete", "reset", "stop"}, {"store", "crash", "resolve"})
               EXCEPT !.races = Events, !.count = 1]
AllScenarios == {Leaving, Coming, Operated}

OnlyLeaving == {Leaving}
OnlyComing == {Coming}
OnlyOperated == {Operated}
Retried == {Plain({"login", "logout", "elapse", "stop"}, {"fail"})}
Unresolved == {Plain({"logout", "elapse", "stop"}, {"fail", "resolve"})}
Failing == {Plain({"stop"}, {"fail"})}
Untroubled == {Plain({"stop"}, {})}
Elapsing == {Plain({"elapse", "stop"}, {"fail"})}
=============================================================================
