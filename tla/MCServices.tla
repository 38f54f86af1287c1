---- MODULE MCServices ----
\* The services around the chat, each on a small instance.  They share no
\* state, so TLC runs one at a time: focus says which, the others stay as they
\* begin.  The states are the sum of theirs, not the product.
EXTENDS Community, Accounts, SecondFactor, PriceBook, RunCosts, FailureSamples,
        DayTimeline, MCPlanRules, TLC

CONSTANTS g1, g2, n1, n2

VARIABLE focus

Components ==
  {"community", "accounts", "factor", "prices", "costs", "samples", "timeline", "plan"}

\* Windows and codes: a minute, three minutes for an hour.
MCAllowed == [phone_code |-> 1, phone_code_ip |-> 2, register |-> 1, forgot |-> 1]

\* The name of the park is part of the name of its tower.
MCMatching == {"park", "park tower"} \X {"park", "park tower"}

\* An evaluation where all is well, one that misses a check, one that fails.
MCFound(passed, missed, main) ==
  [plans |-> [c \in Cases |-> [passed |-> passed, missed |-> missed]],
   mains |-> [c \in Cases |-> main]]
MCReports ==
  {MCFound(TRUE, {}, TRUE), MCFound(TRUE, {"days"}, FALSE), MCFound(FALSE, {}, TRUE)}

\* A day of seven places, of which two share a part of their name, and a short one.
MCHours == [pagoda |-> 1, palace |-> 3, lake |-> 0]
MCSimilar ==
  {<<n, n>> : n \in Sights \cup Kitchens} \cup {<<"pa", "pagoda">>, <<"pa", "palace">>}
MCDays ==
  {[sights |-> <<"pagoda", "palace", "lake">>, kitchens |-> <<"duck", "noodles", "hotpot", "tea">>],
   [sights |-> <<"palace">>, kitchens |-> <<"noodles", "duck">>]}
MCWays ==
  LET Everywhere(w) == [p \in (Sights \cup Kitchens) \X (Sights \cup Kitchens) |-> w]
      leg(minutes) == [leg |-> TRUE, minutes |-> minutes, tenths |-> 0]
      apart(tenths) == [leg |-> FALSE, minutes |-> 0, tenths |-> tenths]
  IN {Everywhere(w) : w \in {leg(0), leg(200), apart(0), apart(25), apart(79)}}
     \cup {[p \in DOMAIN Everywhere(leg(0)) |->
              IF p[2] = "palace" THEN leg(150) ELSE IF p[2] = "tea" THEN apart(900) ELSE apart(11)]}
MCAgendas ==
  LET At(clock, kind, title, minutes) ==
        [clock |-> clock, kind |-> kind, title |-> title, minutes |-> minutes]
  IN {SetToSeq(S) : S \in SUBSET
        {At(500, "attraction", "pagoda", 0), At(720, "food", "duck", 300),
         At(720, "attraction", "pa", 200), At(800, "rest", "stroll", 0),
         At(1080, "food", "noodles", 10), At(1300, "food", "hotpot", 0)}}
     \cup {<<At(1140, "food", "duck", 0), At(1080, "transport", "lake", 0), At(1150, "rest", "hotel", 0),
             At(Midnight, "food", "tea", 0), At(540, "food", "noodles", 0)>>}

ServicesInit ==
  /\ focus \in Components
  /\ CommunityInit /\ AccountsInit /\ FactorInit /\ PricesInit /\ CostsInit /\ SamplesInit
  /\ IF focus = "timeline" THEN TimelineInit
     ELSE /\ today = [sights |-> << >>, kitchens |-> << >>] /\ way = << >> /\ agenda = << >>
          /\ timeline = << >> /\ drawn = FALSE /\ taken = 0
  /\ IF focus = "plan" THEN PlanInit
     ELSE /\ ask = CHOOSE r \in Requests : TRUE
          /\ found = << >> /\ draft = << >> /\ plan = StoredPlan(<< >>) /\ stage = "draft"

\* The component in focus takes a step, the others do not.
Steps(component) ==
  /\ focus = component /\ UNCHANGED focus
  /\ component # "community" => UNCHANGED communityVars
  /\ component # "accounts" => UNCHANGED accountVars
  /\ component # "factor" => UNCHANGED factorVars
  /\ component # "prices" => UNCHANGED priceVars
  /\ component # "costs" => UNCHANGED costVars
  /\ component # "samples" => UNCHANGED sampleVars
  /\ component # "timeline" => UNCHANGED timelineVars
  /\ component # "plan" => UNCHANGED planVars

CommunityStep == Steps("community") /\ CommunityNext
AccountsStep == Steps("accounts") /\ AccountsNext
FactorStep == Steps("factor") /\ FactorNext
PricesStep == Steps("prices") /\ PricesNext
CostsStep == Steps("costs") /\ CostsNext
SamplesStep == Steps("samples") /\ SamplesNext
TimelineStep == Steps("timeline") /\ TimelineNext
PlanStep == Steps("plan") /\ PlanNext

ServicesNext ==
  \/ CommunityStep \/ AccountsStep \/ FactorStep \/ PricesStep
  \/ CostsStep \/ SamplesStep \/ TimelineStep \/ PlanStep

ServicesSpec ==
  ServicesInit /\ [][ServicesNext]_<<focus, communityVars, accountVars, factorVars, priceVars,
                                     costVars, sampleVars, timelineVars, planVars>>

\* What the tables and the memory of each service can hold.
TypesOK ==
  /\ CommunityTypeOK /\ AccountsTypeOK /\ FactorTypeOK /\ PricesTypeOK
  /\ CostsTypeOK /\ SamplesTypeOK /\ TimelineTypeOK /\ PlanTypeOK

Symmetry == Permutations({g1, g2}) \cup Permutations({n1, n2})
====
