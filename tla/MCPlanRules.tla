---- MODULE MCPlanRules ----
\* A city with three attractions and three restaurants that TLC checks
\* PlanRules with.
EXTENDS PlanRules

CONSTANTS a1, a2, a3, a4, f1, f2, f3, f4

MCSpots == {a1, a2, a3, a4}
MCFoods == {f1, f2, f3, f4}
MCCost ==
  [x \in MCSpots \cup MCFoods |->
     CASE x = a1 -> 7 [] x = a2 -> 3 [] x = a3 -> 2 [] x = a4 -> 0
       [] x = f1 -> 4 [] x = f2 -> 1 [] x = f3 -> 1 [] x = f4 -> 2]
MCCorpus == <<a1, a2, f1, f2>>
MCFindings == {<< >>, <<a1, a2, a3, f1, f2>>, <<a3, f3>>}
MCDay(spots, foods) ==
  [spots |-> spots, foods |-> foods, own |-> << >>, legs |-> Len(spots) - 1,
   blocks |-> Len(spots) + Len(foods)]
MCDrafts ==
  {<< >>, <<[spots |-> <<a2, f1, a2>>, foods |-> <<a1, f2>>, own |-> <<a2, f1, f2>>,
             legs |-> 0, blocks |-> 0]>>}
MCExisting ==
  {<<MCDay(<<a1, a2>>, <<f1>>)>>,
   <<MCDay(<<a1, a3>>, <<f1, f2>>), MCDay(<<a1>>, <<f1>>)>>}
MCRequests ==
  {r \in [wish : Wishes, gone : {{}, {a1}, {a1, f1}}, wanted : {a3, f3}, days : {1, 2},
          pace : {2, 3}, travelers : {1, 2}, minimum : {0, 18}, budget : {0, 20}, thrifty : BOOLEAN] :
     /\ r.gone = {} <=> r.wish # "remove"
     /\ r.wish # "add" => r.wanted = a3
     /\ r.thrifty => r.wish \in {"new", "city", "more"}
     /\ r.pace = 2 => r.wish \in {"new", "easy"}
     /\ r.wish = "longer" => r.days = 1
     /\ r.wish = "shorter" => r.days = 2}
MCRises == {-4, 6}
MCVolatile == {a1, f2}
====
