--------------------------- MODULE NetAgentProofs ---------------------------
(***************************************************************************)
(* What the agents guarantee for any number of nodes, interfaces, clients, *)
(* gateways and settings, however often requests, commands and agents fail *)
(* and pods are changed under them.                                        *)
(*                                                                         *)
(* That a pod is exact once the last command has been run says something   *)
(* of the end of a plan only. What holds at every command before is that   *)
(* the plan is what is left to do: for every rule, the copies that are     *)
(* there and the one still to come are those still to be removed and the   *)
(* one wanted. It needs that a node's agent alone works on a pod and that  *)
(* a pod has one neighbour per address; for routes and neighbours also     *)
(* that the setting asks for one of them at a time.                        *)
(***************************************************************************)
EXTENDS NetAgent, FiniteSetTheorems, TLAPS

-----------------------------------------------------------------------------
(* The plan of a pass, and how much of it is left.                         *)

\* The removals of r that are left, whether it will be added, and whether it is wanted.
Left(cmds, r) == {c.nth : c \in {c \in cmds : c.op = "rule-del" /\ c.arg = r}}
Coming(cmds, r) == IF Cmd("rule-add", r, 0) \in cmds THEN 1 ELSE 0
Wanted(d, r) == IF r \in WantRules(d) THEN 1 ELSE 0

\* The books balance: what is there and what is still to be added is what is
\* still to be removed and what is wanted. (Somebody who removes a rule under
\* the agent only leaves fewer there.)
RulesBalance(have, cmds, d) ==
    \A r \in Rule : have[r] + Coming(cmds, r) = Cardinality(Left(cmds, r)) + Wanted(d, r)
RulesCovered(have, cmds, d) ==
    \A r \in Rule : have[r] + Coming(cmds, r) <= Cardinality(Left(cmds, r)) + Wanted(d, r)

\* What is not wanted will be removed and what is wanted is there or will be put
\* there, after its removal if there is one.
RoutesPlanned(have, cmds, d) ==
    /\ \A x \in have : x \in WantRoutes(d) \/ Cmd("route-del", x, 0) \in cmds
    /\ \A x \in WantRoutes(d) : x \in have \/ Cmd("route-replace", x, 0) \in cmds
    /\ \A x \in WantRoutes(d) :
          Cmd("route-del", x, 0) \in cmds => Cmd("route-replace", x, 0) \in cmds
    /\ \A c \in cmds : c.op = "route-replace" => c.arg \in WantRoutes(d)

SameKey(a, b) == a.addr = b.addr /\ a.dev = b.dev

\* The same of the neighbours; one that only changed its MAC is replaced.
NeighboursPlanned(have, cmds, d) ==
    /\ \A x \in have : \/ x \in WantNeighbours(d) \/ Cmd("neigh-del", x, 0) \in cmds
                       \/ \E y \in WantNeighbours(d) : SameKey(x, y) /\ Cmd("neigh-replace", y, 0) \in cmds
    /\ \A x \in WantNeighbours(d) : x \in have \/ Cmd("neigh-replace", x, 0) \in cmds
    /\ \A c \in cmds : c.op = "neigh-del" => \A y \in WantNeighbours(d) : ~SameKey(c.arg, y)
    /\ \A c \in cmds : c.op = "neigh-replace" => c.arg \in WantNeighbours(d)

Planned(p, a) ==
    /\ RulesBalance(rules[p], a.cmds, a.want)
    /\ OneWayWanted(a.want) => /\ RoutesPlanned(routes[p], a.cmds, a.want)
                               /\ NeighboursPlanned(neighbours[p], a.cmds, a.want)

\* A pod holds one neighbour of an address on a bridge.
OneNeighbour == \A p \in Pod : \A x, y \in neighbours[p] : SameKey(x, y) => x = y

\* Agent n keeps to the pods of its own node ...
PlaceInv(n) ==
    /\ \A p \in agent[n].todo : place[p] = n
    /\ agent[n].pc \in {"read", "run"} => place[agent[n].cur] = n

\* ... and its commands are what is left to do.
PlanInv(n) ==
    LET a == agent[n] IN
    a.pc = "run" =>
          /\ \A r \in Rule : IsFiniteSet(Left(a.cmds, r))
          /\ a.cur \notin rival => OneRuleWanted(a.want)
          /\ a.cur \notin copied => RulesCovered(rules[a.cur], a.cmds, a.want)
          /\ ~touched[n] => Planned(a.cur, a)

NetInv ==
    /\ TypeOK /\ OneRulePerClient /\ OneNeighbour
    /\ \A n \in Node : PlaceInv(n) /\ PlanInv(n)

-----------------------------------------------------------------------------
(* What is wanted.                                                         *)

LEMMA WantTypes ==
    ASSUME NEW d \in SUBSET Resolved
    PROVE  /\ WantRules(d) \in SUBSET Rule
           /\ WantRoutes(d) \in SUBSET Route
           /\ WantNeighbours(d) \in SUBSET Neighbour
  <1>1. ASSUME NEW r \in d
        PROVE  /\ r.interface \in Interface /\ r.clients \in SUBSET Client
               /\ r.guest \in Address /\ r.snat \in Gateway /\ r.mac \in Mac
    BY DEF Resolved
  <1>2. WantRules(d) \in SUBSET Rule BY <1>1 DEF WantRules, Rule
  <1>3. WantRoutes(d) \in SUBSET Route BY <1>1 DEF WantRoutes, Route
  <1>4. WantNeighbours(d) \in SUBSET Neighbour BY <1>1 DEF WantNeighbours, Neighbour
  <1> QED BY <1>2, <1>3, <1>4

\* An entry resolves to an outcome.
LEMMA ResolveTypes ==
    ASSUME NEW e \in Entry, NEW s, s.ip \in SUBSET Address,
           NEW known \in [Gateway -> SUBSET Mac]
    PROVE  /\ Resolve(e, s, known) \in Outcome
           /\ \A r \in Resolve(e, s, known).detail :
                r \in Resolved
  <1>1. /\ e.interface \in Interface /\ e.clients \in SUBSET Client
        /\ e.guest \in Address \cup {auto} /\ e.snat \in Gateway /\ e.mac \in Mac \cup {auto}
        /\ e.enabled \in BOOLEAN
    BY DEF Entry
  <1> DEFINE guest == CHOOSE a \in GuestOf(e, s.ip) : TRUE
             mac == CHOOSE m \in MacOf(e, known) : TRUE
             one == [interface |-> e.interface, clients |-> e.clients, snat |-> e.snat,
                     guest |-> guest, mac |-> mac]
             res == Resolve(e, s, known)
  <1>2. GuestOf(e, s.ip) \in SUBSET Address /\ MacOf(e, known) \in SUBSET Mac
    <2>1. GuestOf(e, s.ip) \in SUBSET Address BY <1>1 DEF GuestOf
    <2>2. known[e.snat] \in SUBSET Mac BY <1>1
    <2>3. MacOf(e, known) \in SUBSET Mac BY <1>1, <2>2 DEF MacOf
    <2> QED BY <2>1, <2>3
  <1>3. \/ res \in {[state |-> st, detail |-> {}] : st \in {"Disabled", "Failed", "Pending"}}
        \/ /\ res = [state |-> "none", detail |-> {one}]
           /\ GuestOf(e, s.ip) # {} /\ MacOf(e, known) # {}
    BY <1>1 DEF Resolve
  <1>4. CASE res \in {[state |-> st, detail |-> {}] : st \in {"Disabled", "Failed", "Pending"}}
    <2>1. res.detail = {} /\ res \in Outcome BY <1>4 DEF Outcome, State
    <2> QED BY <2>1
  <1>5. CASE /\ res = [state |-> "none", detail |-> {one}]
             /\ GuestOf(e, s.ip) # {} /\ MacOf(e, known) # {}
    <2>1. guest \in Address /\ mac \in Mac BY <1>2, <1>5
    <2>2. one \in Resolved
      <3> HIDE DEF guest, mac
      <3> QED BY <1>1, <2>1 DEF Resolved
    <2> HIDE DEF one
    <2>3. res.detail = {one} /\ res \in Outcome BY <1>5, <2>2 DEF Outcome, State
    <2> QED BY <2>2, <2>3
  <1> QED BY <1>3, <1>4, <1>5

-----------------------------------------------------------------------------
(* One command of a plan.                                                  *)

LEMMA CommandTypes ==
    ASSUME NEW c \in Command
    PROVE  /\ c = Cmd(c.op, c.arg, c.nth)
           /\ c.op = "rule-del" => c.arg \in Rule /\ c.nth \in Nat \ {0}
           /\ c.op = "rule-add" => c.arg \in Rule /\ c.nth = 0
           /\ c.op \in {"route-del", "route-replace"} => c.arg \in Route /\ c.nth = 0
           /\ c.op \in {"neigh-del", "neigh-replace"} => c.arg \in Neighbour /\ c.nth = 0
           /\ c.op \in {"rule-del", "rule-add", "route-del", "route-replace",
                        "neigh-del", "neigh-replace"}
  <1>1. CASE c \in [op : {"rule-del"}, arg : Rule, nth : Nat \ {0}] BY <1>1 DEF Cmd
  <1>2. CASE c \in [op : {"rule-add"}, arg : Rule, nth : {0}] BY <1>2 DEF Cmd
  <1>3. CASE c \in [op : {"route-del", "route-replace"}, arg : Route, nth : {0}] BY <1>3 DEF Cmd
  <1>4. CASE c \in [op : {"neigh-del", "neigh-replace"}, arg : Neighbour, nth : {0}]
    BY <1>4 DEF Cmd
  <1> QED BY <1>1, <1>2, <1>3, <1>4 DEF Command

LEMMA CmdFields ==
    ASSUME NEW op, NEW arg, NEW nth
    PROVE  Cmd(op, arg, nth).op = op /\ Cmd(op, arg, nth).arg = arg /\ Cmd(op, arg, nth).nth = nth
  BY DEF Cmd

\* The commands of a later stage wait for those of an earlier one.
LEMMA ReadyIsNext ==
    ASSUME NEW cmds \in SUBSET Command, NEW c \in Ready(cmds)
    PROVE  /\ c \in cmds
           /\ c.op = "rule-add" => \A e \in cmds : e.op = "rule-add"
           /\ c.op = "route-replace" => \A e \in cmds : e.op # "route-del"
           /\ c.op = "neigh-replace" => \A e \in cmds : e.op # "neigh-del"
  <1>1. c \in cmds /\ \A e \in cmds : Stage(c.op) <= Stage(e.op) BY DEF Ready
  <1>2. /\ Stage("rule-del") = 1 /\ Stage("route-del") = 2 /\ Stage("neigh-del") = 3
        /\ Stage("neigh-replace") = 4 /\ Stage("route-replace") = 5 /\ Stage("rule-add") = 6
    BY DEF Stage
  <1>3. \A e \in cmds : e.op \in {"rule-del", "rule-add", "route-del", "route-replace",
                                  "neigh-del", "neigh-replace"}
    BY CommandTypes
  <1> QED BY <1>1, <1>2, <1>3

\* A command keeps the books: what it removes or adds was to be removed or added.
LEMMA BooksKept ==
    ASSUME NEW cmds \in SUBSET Command, NEW c \in cmds, NEW have \in [Rule -> Nat], NEW d,
           \A r \in Rule : IsFiniteSet(Left(cmds, r)),
           c.op = "rule-del" => have[c.arg] > 0
    PROVE  /\ RulesAfter(c, have) \in [Rule -> Nat]
           /\ \A r \in Rule : IsFiniteSet(Left(cmds \ {c}, r))
           /\ RulesCovered(have, cmds, d) => RulesCovered(RulesAfter(c, have), cmds \ {c}, d)
           /\ RulesBalance(have, cmds, d) => RulesBalance(RulesAfter(c, have), cmds \ {c}, d)
  <1> DEFINE after == RulesAfter(c, have)
             rest == cmds \ {c}
  <1>0. c \in Command OBVIOUS
  <1>1. /\ after \in [Rule -> Nat]
        /\ \A r \in Rule : after[r] = IF c.op = "rule-del" /\ c.arg = r THEN have[r] - 1
                                      ELSE IF c.op = "rule-add" /\ c.arg = r THEN have[r] + 1
                                      ELSE have[r]
    <2>1. CASE c.op = "rule-del"
      <3>1. c.arg \in Rule /\ have[c.arg] \in Nat /\ have[c.arg] > 0 BY <1>0, <2>1, CommandTypes
      <3>2. after = [have EXCEPT ![c.arg] = @ - 1] BY <2>1 DEF RulesAfter
      <3> QED BY <2>1, <3>1, <3>2
    <2>2. CASE c.op = "rule-add"
      <3>1. c.arg \in Rule BY <1>0, <2>2, CommandTypes
      <3>2. after = [have EXCEPT ![c.arg] = @ + 1] BY <2>2 DEF RulesAfter
      <3> QED BY <2>2, <3>1, <3>2
    <2>3. CASE c.op # "rule-del" /\ c.op # "rule-add"
      BY <2>3 DEF RulesAfter
    <2> QED BY <2>1, <2>2, <2>3
  <1> HIDE DEF after
  <1>3. ASSUME NEW r \in Rule
        PROVE  /\ c.op = "rule-del" /\ c.arg = r =>
                    c.nth \in Left(cmds, r) /\ Left(rest, r) = Left(cmds, r) \ {c.nth}
               /\ ~(c.op = "rule-del" /\ c.arg = r) => Left(rest, r) = Left(cmds, r)
               /\ c.op = "rule-add" /\ c.arg = r => Coming(cmds, r) = 1 /\ Coming(rest, r) = 0
               /\ ~(c.op = "rule-add" /\ c.arg = r) => Coming(rest, r) = Coming(cmds, r)
    <2>1. \A e \in cmds : e.op = c.op /\ e.arg = c.arg /\ e.nth = c.nth => e = c
      <3> SUFFICES ASSUME NEW e \in cmds, e.op = c.op, e.arg = c.arg, e.nth = c.nth PROVE e = c
        OBVIOUS
      <3>1. e = Cmd(e.op, e.arg, e.nth) /\ c = Cmd(c.op, c.arg, c.nth) BY CommandTypes
      <3> QED BY <3>1
    <2>2. ASSUME c.op = "rule-del", c.arg = r
          PROVE  c.nth \in Left(cmds, r) /\ Left(rest, r) = Left(cmds, r) \ {c.nth}
      BY <2>1, <2>2 DEF Left
    <2>3. ASSUME ~(c.op = "rule-del" /\ c.arg = r)
          PROVE  Left(rest, r) = Left(cmds, r)
      BY <2>3 DEF Left
    <2>4. ASSUME c.op = "rule-add", c.arg = r
          PROVE  Coming(cmds, r) = 1 /\ Coming(rest, r) = 0
      <3>1. c = Cmd("rule-add", r, 0) BY <2>4, CommandTypes
      <3> QED BY <3>1 DEF Coming
    <2>5. ASSUME ~(c.op = "rule-add" /\ c.arg = r)
          PROVE  Coming(rest, r) = Coming(cmds, r)
      <3>1. c # Cmd("rule-add", r, 0) BY <2>5, CmdFields
      <3> QED BY <3>1 DEF Coming
    <2> QED BY <2>2, <2>3, <2>4, <2>5
  <1> HIDE DEF rest
  <1>2. ASSUME NEW r \in Rule
        PROVE  /\ IsFiniteSet(Left(rest, r))
               /\ after[r] + Coming(rest, r) - Cardinality(Left(rest, r))
                    = have[r] + Coming(cmds, r) - Cardinality(Left(cmds, r))
               /\ after[r] \in Nat /\ have[r] \in Nat
               /\ Coming(cmds, r) \in Nat /\ Coming(rest, r) \in Nat /\ Wanted(d, r) \in Nat
               /\ Cardinality(Left(cmds, r)) \in Nat /\ Cardinality(Left(rest, r)) \in Nat
    <2>1. IsFiniteSet(Left(cmds, r)) /\ Cardinality(Left(cmds, r)) \in Nat
      BY FS_CardinalityType
    <2>2. /\ after[r] \in Nat /\ have[r] \in Nat
          /\ Coming(cmds, r) \in Nat /\ Coming(rest, r) \in Nat /\ Wanted(d, r) \in Nat
      BY <1>1 DEF Coming, Wanted
    <2>3. CASE c.op = "rule-del" /\ c.arg = r
      <3>1. c.nth \in Left(cmds, r) /\ Left(rest, r) = Left(cmds, r) \ {c.nth}
        BY <1>3, <2>3
      <3>2. /\ IsFiniteSet(Left(rest, r))
            /\ Cardinality(Left(rest, r)) = Cardinality(Left(cmds, r)) - 1
        <4> DEFINE S == Left(cmds, r)
                   k == c.nth
        <4>1. IsFiniteSet(S) /\ k \in S BY <2>1, <3>1
        <4>2. Left(rest, r) = S \ {k} BY <3>1
        <4> HIDE DEF S, k
        <4>3. IsFiniteSet(S \ {k}) /\ Cardinality(S \ {k}) = Cardinality(S) - 1
          BY <4>1, FS_RemoveElement
        <4> QED BY <4>2, <4>3 DEF S
      <3>3. Coming(rest, r) = Coming(cmds, r) BY <1>3, <2>3
      <3>4. after[r] = have[r] - 1 BY <1>1, <2>3
      <3>5. Cardinality(Left(rest, r)) \in Nat BY <3>2, FS_CardinalityType
      <3> QED BY <2>1, <2>2, <3>2, <3>3, <3>4, <3>5
    <2>4. CASE c.op = "rule-add" /\ c.arg = r
      <3>1. Coming(cmds, r) = 1 /\ Coming(rest, r) = 0 BY <1>3, <2>4
      <3>2. Left(rest, r) = Left(cmds, r)
        <4>1. ~(c.op = "rule-del" /\ c.arg = r) BY <2>4
        <4> QED BY <1>3, <4>1
      <3>3. after[r] = have[r] + 1 BY <1>1, <2>4
      <3> QED BY <2>1, <2>2, <3>1, <3>2, <3>3
    <2>5. CASE ~(c.op = "rule-del" /\ c.arg = r) /\ ~(c.op = "rule-add" /\ c.arg = r)
      <3>1. Coming(rest, r) = Coming(cmds, r) /\ Left(rest, r) = Left(cmds, r)
        BY <1>3, <2>5
      <3>2. after[r] = have[r] BY <1>1, <2>5
      <3> QED BY <2>1, <2>2, <3>1, <3>2
    <2> QED BY <2>3, <2>4, <2>5
  <1>4. ASSUME RulesCovered(have, cmds, d) PROVE RulesCovered(after, rest, d)
    <2> SUFFICES ASSUME NEW r \in Rule
                 PROVE  after[r] + Coming(rest, r)
                          <= Cardinality(Left(rest, r)) + Wanted(d, r)
      BY DEF RulesCovered
    <2>1. have[r] + Coming(cmds, r) <= Cardinality(Left(cmds, r)) + Wanted(d, r)
      BY <1>4 DEF RulesCovered
    <2>2. /\ after[r] + Coming(rest, r) - Cardinality(Left(rest, r))
               = have[r] + Coming(cmds, r) - Cardinality(Left(cmds, r))
          /\ after[r] \in Nat /\ have[r] \in Nat
          /\ Coming(cmds, r) \in Nat /\ Coming(rest, r) \in Nat /\ Wanted(d, r) \in Nat
          /\ Cardinality(Left(cmds, r)) \in Nat /\ Cardinality(Left(rest, r)) \in Nat
      BY <1>2
    <2> QED BY <2>1, <2>2
  <1>5. ASSUME RulesBalance(have, cmds, d) PROVE RulesBalance(after, rest, d)
    <2> SUFFICES ASSUME NEW r \in Rule
                 PROVE  after[r] + Coming(rest, r)
                          = Cardinality(Left(rest, r)) + Wanted(d, r)
      BY DEF RulesBalance
    <2>1. have[r] + Coming(cmds, r) = Cardinality(Left(cmds, r)) + Wanted(d, r)
      BY <1>5 DEF RulesBalance
    <2>2. /\ after[r] + Coming(rest, r) - Cardinality(Left(rest, r))
               = have[r] + Coming(cmds, r) - Cardinality(Left(cmds, r))
          /\ after[r] \in Nat /\ have[r] \in Nat
          /\ Coming(cmds, r) \in Nat /\ Coming(rest, r) \in Nat /\ Wanted(d, r) \in Nat
          /\ Cardinality(Left(cmds, r)) \in Nat /\ Cardinality(Left(rest, r)) \in Nat
      BY <1>2
    <2> QED BY <2>1, <2>2
  <1> QED BY <1>1, <1>2, <1>4, <1>5 DEF after, rest

LEMMA RoutesKept ==
    ASSUME NEW cmds \in SUBSET Command, NEW c \in Ready(cmds), NEW have \in SUBSET Route,
           NEW d \in SUBSET Resolved, OneWayWanted(d), RoutesPlanned(have, cmds, d)
    PROVE  /\ RoutesAfter(c, have) \in SUBSET Route
           /\ RoutesPlanned(RoutesAfter(c, have), cmds \ {c}, d)
  <1> DEFINE after == RoutesAfter(c, have)
             rest == cmds \ {c}
             wt == WantRoutes(d)
  <1>0. c \in cmds /\ c \in Command /\ c = Cmd(c.op, c.arg, c.nth) BY ReadyIsNext, CommandTypes
  <1>1. ASSUME NEW op, NEW x, op # c.op \/ x # c.arg
        PROVE  Cmd(op, x, 0) \in cmds => Cmd(op, x, 0) \in rest
    BY <1>1, CmdFields
  <1>2. /\ \A x \in have : x \in wt \/ Cmd("route-del", x, 0) \in cmds
        /\ \A x \in wt : x \in have \/ Cmd("route-replace", x, 0) \in cmds
        /\ \A x \in wt : Cmd("route-del", x, 0) \in cmds => Cmd("route-replace", x, 0) \in cmds
        /\ \A e \in cmds : e.op = "route-replace" => e.arg \in wt
    BY DEF RoutesPlanned
  <1>3. \A e \in rest : e.op = "route-replace" => e.arg \in wt BY <1>2
  <1>4. CASE c.op = "route-del"
    <2>1. after = have \ {c.arg} BY <1>4 DEF RoutesAfter
    <2>2. c = Cmd("route-del", c.arg, 0) BY <1>0, <1>4, CommandTypes
    <2> HIDE DEF after, wt, rest
    <2>3. \A x \in after : x \in wt \/ Cmd("route-del", x, 0) \in rest BY <1>1, <1>2, <2>1
    <2>4. \A x \in wt : Cmd("route-replace", x, 0) \in cmds => Cmd("route-replace", x, 0) \in rest
      BY <1>1, <1>4
    <2>5. \A x \in wt : x \in after \/ Cmd("route-replace", x, 0) \in rest
      BY <1>0, <1>2, <2>1, <2>2, <2>4
    <2>6. \A x \in wt : Cmd("route-del", x, 0) \in rest => Cmd("route-replace", x, 0) \in rest
      BY <1>2, <2>4 DEF rest
    <2>7. after \in SUBSET Route BY <2>1
    <2> QED BY <1>3, <2>3, <2>5, <2>6, <2>7 DEF RoutesPlanned, after, wt, rest
  <1>5. CASE c.op = "route-replace"
    <2>1. after = {r \in have : r.dst # c.arg.dst} \cup {c.arg} BY <1>5 DEF RoutesAfter
    <2>2. c.arg \in wt /\ c.arg \in Route BY <1>0, <1>2, <1>5, CommandTypes
    <2>3. \A x \in wt : x.dst = c.arg.dst => x = c.arg BY <2>2 DEF OneWayWanted
    <2>4. \A e \in cmds : e.op # "route-del" BY <1>5, ReadyIsNext
    <2> HIDE DEF after, wt
    <2>5. \A x : Cmd("route-del", x, 0) \notin cmds BY <2>4, CmdFields
    <2>6. \A x \in after : x \in wt BY <1>2, <2>1, <2>2, <2>5
    <2>7. \A x \in wt : x \in after \/ Cmd("route-replace", x, 0) \in rest
      <3> SUFFICES ASSUME NEW x \in wt, x # c.arg PROVE x \in after \/ Cmd("route-replace", x, 0) \in rest
        BY <2>1
      <3>1. Cmd("route-replace", x, 0) \in cmds => Cmd("route-replace", x, 0) \in rest BY <1>1
      <3> HIDE DEF rest
      <3> QED BY <1>2, <2>1, <2>3, <3>1
    <2>8. after \in SUBSET Route BY <2>1, <2>2
    <2> QED BY <1>3, <2>5, <2>6, <2>7, <2>8 DEF RoutesPlanned, after, wt
  <1>6. CASE c.op # "route-del" /\ c.op # "route-replace"
    <2>1. after = have BY <1>6 DEF RoutesAfter
    <2>2. \A x : /\ Cmd("route-del", x, 0) \in cmds <=> Cmd("route-del", x, 0) \in rest
                 /\ Cmd("route-replace", x, 0) \in cmds <=> Cmd("route-replace", x, 0) \in rest
      BY <1>1, <1>6
    <2> HIDE DEF after, rest, wt
    <2> QED BY <1>2, <1>3, <2>1, <2>2 DEF RoutesPlanned, after, rest, wt
  <1> QED BY <1>4, <1>5, <1>6

LEMMA NeighboursKept ==
    ASSUME NEW cmds \in SUBSET Command, NEW c \in Ready(cmds), NEW have \in SUBSET Neighbour,
           NEW d \in SUBSET Resolved, OneWayWanted(d), NeighboursPlanned(have, cmds, d)
    PROVE  /\ NeighboursAfter(c, have) \in SUBSET Neighbour
           /\ NeighboursPlanned(NeighboursAfter(c, have), cmds \ {c}, d)
  <1> DEFINE after == NeighboursAfter(c, have)
             rest == cmds \ {c}
             wn == WantNeighbours(d)
             others == {a \in have : ~SameKey(a, c.arg)}
  <1>0. c \in cmds /\ c \in Command BY ReadyIsNext
  <1>1. ASSUME NEW op, NEW x, op # c.op \/ x # c.arg
        PROVE  Cmd(op, x, 0) \in cmds => Cmd(op, x, 0) \in rest
    BY <1>1, CmdFields
  <1>2. /\ \A x \in have : \/ x \in wn \/ Cmd("neigh-del", x, 0) \in cmds
                           \/ \E y \in wn : SameKey(x, y) /\ Cmd("neigh-replace", y, 0) \in cmds
        /\ \A x \in wn : x \in have \/ Cmd("neigh-replace", x, 0) \in cmds
        /\ \A e \in cmds : e.op = "neigh-del" => \A y \in wn : ~SameKey(e.arg, y)
        /\ \A e \in cmds : e.op = "neigh-replace" => e.arg \in wn
    BY DEF NeighboursPlanned
  <1>3. /\ \A e \in rest : e.op = "neigh-del" => \A y \in wn : ~SameKey(e.arg, y)
        /\ \A e \in rest : e.op = "neigh-replace" => e.arg \in wn
    BY <1>2
  <1>k. \A x, y : SameKey(x, y) <=> SameKey(y, x) BY DEF SameKey
  <1>r. \A x : SameKey(x, x) BY DEF SameKey
  <1>4. CASE c.op = "neigh-del"
    <2>1. after = others BY <1>4 DEF NeighboursAfter, SameKey
    <2>2. \A y \in wn : ~SameKey(y, c.arg) BY <1>0, <1>2, <1>4, <1>k
    <2>3. \A y : Cmd("neigh-replace", y, 0) \in cmds => Cmd("neigh-replace", y, 0) \in rest
      BY <1>1, <1>4
    <2>4. \A x : x # c.arg => (Cmd("neigh-del", x, 0) \in cmds => Cmd("neigh-del", x, 0) \in rest)
      BY <1>1
    <2> HIDE DEF after, rest, wn
    <2>5. \A x \in after : \/ x \in wn \/ Cmd("neigh-del", x, 0) \in rest
                           \/ \E y \in wn : SameKey(x, y) /\ Cmd("neigh-replace", y, 0) \in rest
      BY <1>2, <1>r, <2>1, <2>3, <2>4
    <2>6. \A x \in wn : x \in after \/ Cmd("neigh-replace", x, 0) \in rest
      BY <1>2, <2>1, <2>2, <2>3
    <2>7. after \in SUBSET Neighbour BY <2>1
    <2> QED BY <1>3, <2>5, <2>6, <2>7 DEF NeighboursPlanned, after, rest, wn
  <1>5. CASE c.op = "neigh-replace"
    <2>1. after = others \cup {c.arg} BY <1>5 DEF NeighboursAfter, SameKey
    <2>2. c.arg \in wn /\ c.arg \in Neighbour BY <1>0, <1>2, <1>5, CommandTypes
    <2>3. \A y \in wn : SameKey(y, c.arg) => y = c.arg BY <2>2 DEF OneWayWanted, SameKey
    <2>4. \A x : Cmd("neigh-del", x, 0) \in cmds => Cmd("neigh-del", x, 0) \in rest
      BY <1>1, <1>5
    <2>5. \A y : y # c.arg => (Cmd("neigh-replace", y, 0) \in cmds => Cmd("neigh-replace", y, 0) \in rest)
      BY <1>1
    <2> HIDE DEF after, rest, wn
    <2>6. \A x \in after : \/ x \in wn \/ Cmd("neigh-del", x, 0) \in rest
                           \/ \E y \in wn : SameKey(x, y) /\ Cmd("neigh-replace", y, 0) \in rest
      <3> SUFFICES ASSUME NEW x \in others
                   PROVE  \/ x \in wn \/ Cmd("neigh-del", x, 0) \in rest
                          \/ \E y \in wn : SameKey(x, y) /\ Cmd("neigh-replace", y, 0) \in rest
        BY <2>1, <2>2
      <3>1. \A y \in wn : SameKey(x, y) => y # c.arg OBVIOUS
      <3> QED BY <1>2, <2>4, <2>5, <3>1
    <2>7. \A x \in wn : x \in after \/ Cmd("neigh-replace", x, 0) \in rest
      BY <1>2, <2>1, <2>3, <2>5
    <2>8. after \in SUBSET Neighbour BY <2>1, <2>2
    <2> QED BY <1>3, <2>6, <2>7, <2>8 DEF NeighboursPlanned, after, rest, wn
  <1>6. CASE c.op # "neigh-del" /\ c.op # "neigh-replace"
    <2>1. after = have BY <1>6 DEF NeighboursAfter
    <2>2. \A x : /\ Cmd("neigh-del", x, 0) \in cmds => Cmd("neigh-del", x, 0) \in rest
                 /\ Cmd("neigh-replace", x, 0) \in cmds => Cmd("neigh-replace", x, 0) \in rest
      BY <1>1, <1>6
    <2> HIDE DEF after, rest, wn
    <2> QED BY <1>2, <1>3, <2>1, <2>2 DEF NeighboursPlanned, after, rest, wn
  <1> QED BY <1>4, <1>5, <1>6

\* What a pass sets out to do when it has read the pod is what there is to do.
LEMMA PlanIsMade ==
    ASSUME NEW p \in Pod, rules \in [Pod -> [Rule -> Nat]],
           routes \in [Pod -> SUBSET Route], neighbours \in [Pod -> SUBSET Neighbour],
           \A x, y \in neighbours[p] : SameKey(x, y) => x = y,
           NEW d \in SUBSET Resolved
    PROVE  /\ commands(d, p) \in SUBSET Command
           /\ \A r \in Rule : IsFiniteSet(Left(commands(d, p), r))
           /\ RulesBalance(rules[p], commands(d, p), d)
           /\ RoutesPlanned(routes[p], commands(d, p), d)
           /\ NeighboursPlanned(neighbours[p], commands(d, p), d)
  <1> DEFINE cmds == commands(d, p)
             wr == WantRules(d)
             wt == WantRoutes(d)
             wn == WantNeighbours(d)
             fr == FoundRules(wr)
             surplus(r) == 1 .. Surplus(rules[p][r], r \in fr)
             dels == UNION {{Cmd("rule-del", r, k) : k \in 1 .. Surplus(rules[p][r], r \in fr)} : r \in Rule}
             routeDels == {Cmd("route-del", r, 0) : r \in routes[p] \ Found(routes[p], wt)}
             gone == {x \in neighbours[p] \ wn : \A b \in wn : b.addr # x.addr \/ b.dev # x.dev}
             neighDels == {Cmd("neigh-del", a, 0) : a \in gone}
             neighAdds == {Cmd("neigh-replace", a, 0) : a \in wn \ neighbours[p]}
             routeAdds == {Cmd("route-replace", r, 0) : r \in wt \ Found(routes[p], wt)}
             adds == {Cmd("rule-add", r, 0) : r \in {q \in wr : rules[p][q] = 0 \/ q \notin fr}}
  <1>0. /\ wr \in SUBSET Rule /\ wt \in SUBSET Route /\ wn \in SUBSET Neighbour
        /\ rules[p] \in [Rule -> Nat] /\ routes[p] \in SUBSET Route
        /\ neighbours[p] \in SUBSET Neighbour
    BY WantTypes
  <1>1. cmds = dels \cup routeDels \cup neighDels \cup neighAdds \cup routeAdds \cup adds
    BY Zenon DEF commands
  <1>2. ASSUME NEW r \in Rule
        PROVE  Surplus(rules[p][r], r \in fr) \in Nat
    BY <1>0 DEF Surplus
  <1>f. fr \subseteq wr BY DEF FoundRules
  <1> HIDE DEF cmds, wr, wt, wn, fr
  <1>3. /\ \A c \in dels : /\ c.op = "rule-del" /\ c.arg \in Rule /\ c.nth \in surplus(c.arg)
                           /\ c = Cmd("rule-del", c.arg, c.nth)
        /\ \A r \in Rule : \A k \in surplus(r) : Cmd("rule-del", r, k) \in dels
    <2>1. ASSUME NEW c \in dels
          PROVE  /\ c.op = "rule-del" /\ c.arg \in Rule /\ c.nth \in surplus(c.arg)
                 /\ c = Cmd("rule-del", c.arg, c.nth)
      <3>1. PICK r \in Rule : \E k \in surplus(r) : c = Cmd("rule-del", r, k) BY <2>1
      <3>2. PICK k \in surplus(r) : c = Cmd("rule-del", r, k) BY <3>1
      <3>3. c.op = "rule-del" /\ c.arg = r /\ c.nth = k BY <3>2, CmdFields
      <3> QED BY <3>2, <3>3
    <2> QED BY <2>1
  <1>4. /\ \A c \in routeDels : c.op = "route-del" /\ c.arg \in routes[p] \ Found(routes[p], wt) /\ c.nth = 0
        /\ \A c \in neighDels : c.op = "neigh-del" /\ c.arg \in gone /\ c.nth = 0
        /\ \A c \in neighAdds : c.op = "neigh-replace" /\ c.arg \in wn \ neighbours[p] /\ c.nth = 0
        /\ \A c \in routeAdds : c.op = "route-replace" /\ c.arg \in wt \ Found(routes[p], wt) /\ c.nth = 0
        /\ \A c \in adds : /\ c.op = "rule-add" /\ c.arg \in wr /\ c.nth = 0
                           /\ rules[p][c.arg] = 0 \/ c.arg \notin fr
    BY CmdFields
  <1>5. cmds \in SUBSET Command
    <2>1. dels \in SUBSET [op : {"rule-del"}, arg : Rule, nth : Nat \ {0}]
      <3> SUFFICES ASSUME NEW c \in dels
                   PROVE  c \in [op : {"rule-del"}, arg : Rule, nth : Nat \ {0}]
        OBVIOUS
      <3>1. c = Cmd("rule-del", c.arg, c.nth) /\ c.arg \in Rule /\ c.nth \in surplus(c.arg) BY <1>3
      <3>2. c.nth \in Nat \ {0} BY <1>2, <3>1
      <3> QED BY <3>1, <3>2 DEF Cmd
    <2>2. routeDels \cup routeAdds \in SUBSET [op : {"route-del", "route-replace"}, arg : Route, nth : {0}]
      BY <1>0 DEF Cmd, Found
    <2>3. neighDels \cup neighAdds \in SUBSET [op : {"neigh-del", "neigh-replace"}, arg : Neighbour, nth : {0}]
      BY <1>0 DEF Cmd
    <2>4. adds \in SUBSET [op : {"rule-add"}, arg : Rule, nth : {0}]
      BY <1>0 DEF Cmd
    <2> HIDE DEF dels, routeDels, neighDels, neighAdds, routeAdds, adds
    <2> QED BY <1>1, <2>1, <2>2, <2>3, <2>4 DEF Command
  <1>6. ASSUME NEW r \in Rule
        PROVE  /\ IsFiniteSet(Left(cmds, r))
               /\ rules[p][r] + Coming(cmds, r) = Cardinality(Left(cmds, r)) + Wanted(d, r)
    <2>1. Left(cmds, r) = surplus(r)
      <3>1. ASSUME NEW c \in cmds, c.op = "rule-del", c.arg = r PROVE c.nth \in surplus(r)
        <4>1. c \in dels BY <1>1, <1>4, <3>1
        <4> QED BY <1>3, <3>1, <4>1
      <3>2. ASSUME NEW k \in surplus(r) PROVE k \in Left(cmds, r)
        <4>1. Cmd("rule-del", r, k) \in cmds BY <1>1, <1>3
        <4>2. /\ Cmd("rule-del", r, k).op = "rule-del" /\ Cmd("rule-del", r, k).arg = r
              /\ Cmd("rule-del", r, k).nth = k
          BY CmdFields
        <4> HIDE DEF surplus
        <4> QED BY <4>1, <4>2 DEF Left
      <3> HIDE DEF surplus
      <3> QED BY <3>1, <3>2 DEF Left
    <2>2. Cmd("rule-add", r, 0) \in cmds <=> r \in wr /\ (rules[p][r] = 0 \/ r \notin fr)
      <3> DEFINE c == Cmd("rule-add", r, 0)
      <3>1. c.op = "rule-add" /\ c.arg = r BY CmdFields
      <3>2. c \in cmds => c \in adds
        <4> HIDE DEF c
        <4> QED BY <1>1, <1>3, <1>4, <3>1
      <3>3. c \in adds => r \in wr /\ (rules[p][r] = 0 \/ r \notin fr)
        <4> HIDE DEF c
        <4> QED BY <1>4, <3>1
      <3>4. r \in wr /\ (rules[p][r] = 0 \/ r \notin fr) => c \in adds OBVIOUS
      <3> HIDE DEF adds
      <3> QED BY <1>1, <3>2, <3>3, <3>4
    <2> DEFINE s == Surplus(rules[p][r], r \in fr)
    <2>3. IsFiniteSet(1 .. s) /\ Cardinality(1 .. s) = s
      <3>1. s \in Nat BY <1>2
      <3> HIDE DEF s
      <3>2. IsFiniteSet(1 .. s) /\ Cardinality(1 .. s) = IF 1 > s THEN 0 ELSE s - 1 + 1
        BY <3>1, FS_Interval
      <3> QED BY <3>1, <3>2
    <2>4. rules[p][r] \in Nat BY <1>0
    <2>5. rules[p][r] + Coming(cmds, r) = s + Wanted(d, r)
      BY <1>f, <2>2, <2>4 DEF Coming, Wanted, Surplus, wr
    <2> QED BY <2>1, <2>3, <2>5
  <1>7. RoutesPlanned(routes[p], cmds, d)
    <2>1. \A x \in routes[p] : x \in wt \/ Cmd("route-del", x, 0) \in cmds
      BY <1>1 DEF Found
    <2>2. \A x \in wt : x \in routes[p] \/ Cmd("route-replace", x, 0) \in cmds
      BY <1>1 DEF Found
    <2>3. ASSUME NEW x \in wt, Cmd("route-del", x, 0) \in cmds PROVE Cmd("route-replace", x, 0) \in cmds
      <3> DEFINE c == Cmd("route-del", x, 0)
      <3>1. c.op = "route-del" /\ c.arg = x BY CmdFields
      <3>2. c \in routeDels
        <4> HIDE DEF c
        <4> QED BY <1>1, <1>3, <1>4, <2>3, <3>1 DEF c
      <3>3. x \notin Found(routes[p], wt)
        <4> HIDE DEF c
        <4> QED BY <1>4, <3>1, <3>2
      <3> QED BY <1>1, <3>3
    <2>4. \A c \in cmds : c.op = "route-replace" => c.arg \in wt
      <3> SUFFICES ASSUME NEW c \in cmds, c.op = "route-replace" PROVE c.arg \in wt OBVIOUS
      <3>1. c \in routeAdds BY <1>1, <1>3, <1>4
      <3> QED BY <1>4, <3>1
    <2> QED BY <2>1, <2>2, <2>3, <2>4 DEF RoutesPlanned, wt
  <1>8. NeighboursPlanned(neighbours[p], cmds, d)
    <2>1. ASSUME NEW x \in neighbours[p]
          PROVE  \/ x \in wn \/ Cmd("neigh-del", x, 0) \in cmds
                 \/ \E y \in wn : SameKey(x, y) /\ Cmd("neigh-replace", y, 0) \in cmds
      <3>1. CASE x \in gone BY <1>1, <3>1
      <3>2. CASE x \in wn BY <3>2
      <3>3. CASE x \notin gone /\ x \notin wn
        <4>1. PICK y \in wn : y.addr = x.addr /\ y.dev = x.dev BY <3>3
        <4>2. SameKey(x, y) BY <4>1 DEF SameKey
        <4>3. y \notin neighbours[p] BY <3>3, <4>2
        <4> QED BY <1>1, <4>2, <4>3
      <3> QED BY <3>1, <3>2, <3>3
    <2>2. \A x \in wn : x \in neighbours[p] \/ Cmd("neigh-replace", x, 0) \in cmds
      BY <1>1
    <2>3. ASSUME NEW c \in cmds, c.op = "neigh-del" PROVE \A y \in wn : ~SameKey(c.arg, y)
      <3>1. c \in neighDels BY <1>1, <1>3, <1>4, <2>3
      <3>2. c.arg \in gone BY <1>4, <3>1
      <3> QED BY <3>2 DEF SameKey
    <2>4. ASSUME NEW c \in cmds, c.op = "neigh-replace" PROVE c.arg \in wn
      <3>1. c \in neighAdds BY <1>1, <1>3, <1>4, <2>4
      <3> QED BY <1>4, <3>1
    <2> QED BY <2>1, <2>2, <2>3, <2>4 DEF NeighboursPlanned, wn
  <1> QED BY <1>5, <1>6, <1>7, <1>8 DEF RulesBalance, cmds

\* When nothing of a plan is left, the pod is as wanted.
LEMMA PlanIsDone ==
    ASSUME NEW p, NEW d, rules[p] \in [Rule -> Nat], RulesBalance(rules[p], {}, d)
    PROVE  /\ RulesExact(p, d)
           /\ RoutesPlanned(routes[p], {}, d) /\ NeighboursPlanned(neighbours[p], {}, d)
                => WaysExact(p, d)
  <1>1. ASSUME NEW r \in Rule PROVE rules[p][r] = IF r \in WantRules(d) THEN 1 ELSE 0
    <2>1. Left({}, r) = {} BY DEF Left
    <2>2. Cardinality(Left({}, r)) = 0 BY <2>1, FS_EmptySet
    <2>3. Coming({}, r) = 0 BY DEF Coming
    <2>4. rules[p][r] + Coming({}, r) = Cardinality(Left({}, r)) + Wanted(d, r) BY DEF RulesBalance
    <2> QED BY <2>2, <2>3, <2>4 DEF Wanted
  <1>2. ASSUME RoutesPlanned(routes[p], {}, d), NeighboursPlanned(neighbours[p], {}, d)
        PROVE  WaysExact(p, d)
    <2>1. routes[p] = WantRoutes(d) BY <1>2 DEF RoutesPlanned
    <2>2. neighbours[p] = WantNeighbours(d) BY <1>2 DEF NeighboursPlanned
    <2> QED BY <2>1, <2>2 DEF WaysExact
  <1> QED BY <1>1, <1>2 DEF RulesExact

-----------------------------------------------------------------------------
(* The steps of an agent.                                                  *)

\* The fields of an agent.
LEMMA LocalsTypes ==
    ASSUME NEW a \in Locals
    PROVE  /\ a.pc \in {"idle", "seen", "pod", "read", "run", "report", "unsay"}
           /\ a.seen.config \in Annotation /\ a.seen.ip \in SUBSET Address
           /\ a.seen.owner \in BOOLEAN /\ a.seen.told \in BOOLEAN
           /\ a.todo \in SUBSET Pod /\ a.cur \in Pod
           /\ a.want \in SUBSET Resolved /\ a.cmds \in SUBSET Command
           /\ a.out \in [Interface -> Outcome] /\ a.verdict \in SUBSET Status
  <1>1. /\ a.pc \in {"idle", "seen", "pod", "read", "run", "report", "unsay"}
        /\ a.seen \in [config : Annotation, told : BOOLEAN, owner : BOOLEAN, ip : SUBSET Address]
        /\ a.todo \in SUBSET Pod /\ a.cur \in Pod
        /\ a.want \in SUBSET Resolved /\ a.cmds \in SUBSET Command
        /\ a.out \in [Interface -> Outcome] /\ a.verdict \in SUBSET Status
    BY DEF Locals
  <1> QED BY <1>1

LEMMA RestingTypes ==
    /\ Resting \in Locals /\ NoRows \in [Interface -> Outcome]
    /\ Resting.pc = "idle" /\ Resting.todo = {} /\ Resting.want = {}
  <1>1. NoRows \in [Interface -> Outcome] BY DEF NoRows, Outcome, State
  <1>2. Absent \in Annotation BY DEF Annotation
  <1>3. Resting.seen \in [config : Annotation, told : BOOLEAN, owner : BOOLEAN, ip : SUBSET Address]
    BY <1>2 DEF Resting
  <1>4. "old" \in Pod BY DEF Pod
  <1>5. Resting \in Locals BY <1>1, <1>3, <1>4 DEF Resting, Locals
  <1> QED BY <1>1, <1>5 DEF Resting

\* An agent that is not in the middle of its commands.
Settled(a, n) ==
    /\ a \in Locals /\ a.pc # "run"
    /\ \A p \in a.todo : place[p] = n
    /\ a.pc = "read" => place[a.cur] = n

LEMMA RestSettles ==
    ASSUME NEW n \in Node
    PROVE  Settled(Resting, n)
  BY RestingTypes DEF Settled

LEMMA SaySettles ==
    ASSUME NEW n \in Node, agent \in [Node -> Locals], NEW st \in Status, Say(n, st)
    PROVE  \E a : Settled(a, n) /\ agent' = [agent EXCEPT ![n] = a]
  <1>1. CASE agent[n].seen.owner
    <2> DEFINE a == [Resting EXCEPT !.pc = "report", !.seen = agent[n].seen, !.verdict = {st}]
    <2>1. agent' = [agent EXCEPT ![n] = a] BY <1>1 DEF Say
    <2>2. agent[n].seen \in [config : Annotation, told : BOOLEAN, owner : BOOLEAN, ip : SUBSET Address]
      BY DEF Locals
    <2>3. a \in Locals BY <2>2, RestingTypes DEF Locals
    <2>4. a.pc = "report" /\ a.todo = {} /\ a.want = {} BY DEF Resting
    <2> HIDE DEF a
    <2>5. Settled(a, n) BY <2>3, <2>4 DEF Settled
    <2> QED BY <2>1, <2>5
  <1>2. CASE ~agent[n].seen.owner
    BY <1>2, RestSettles DEF Say, Rest
  <1> QED BY <1>1, <1>2

LEMMA WorseTypes ==
    ASSUME NEW x \in Outcome, NEW y \in Outcome PROVE Worse(x, y) \in Outcome
  BY DEF Worse

\* The worst of some outcomes is one of them, or none.
LEMMA WorstOfTypes ==
    ASSUME NEW outcomes \in SUBSET Outcome PROVE WorstOf(outcomes) \in Outcome
  <1> DEFINE all == outcomes \cup {Nothing}
             rank(o) == Rank(o.state)
  <1>1. Nothing \in Outcome BY DEF Nothing, Outcome, State
  <1>2. \A o \in all : rank(o) \in {-1, 0, 1, 2, 3}
    <2>1. \A o \in all : o.state \in State BY <1>1 DEF Outcome
    <2> QED BY <2>1 DEF Rank, State
  <1>3. \E o \in all : \A q \in all : rank(q) <= rank(o)
    <2>0. all # {} OBVIOUS
    <2> HIDE DEF all, rank
    <2>1. CASE \E o \in all : rank(o) = 3 BY <1>2, <2>1
    <2>2. CASE (\A o \in all : rank(o) # 3) /\ \E o \in all : rank(o) = 2 BY <1>2, <2>2
    <2>3. CASE (\A o \in all : rank(o) \notin {2, 3}) /\ \E o \in all : rank(o) = 1 BY <1>2, <2>3
    <2>4. CASE (\A o \in all : rank(o) \notin {1, 2, 3}) /\ \E o \in all : rank(o) = 0 BY <1>2, <2>4
    <2>5. CASE \A o \in all : rank(o) \notin {0, 1, 2, 3} BY <1>2, <2>0, <2>5
    <2> QED BY <2>1, <2>2, <2>3, <2>4, <2>5
  <1>4. (CHOOSE o \in all : \A q \in all : Rank(q.state) <= Rank(o.state)) \in all BY <1>3
  <1>5. WorstOf(outcomes) \in all BY <1>4 DEF WorstOf
  <1> QED BY <1>1, <1>5

LEMMA ConvergedSettles ==
    ASSUME NEW n \in Node, agent \in [Node -> Locals],
           \A p \in agent[n].todo : place[p] = n,
           NEW st \in State, Converged(n, st)
    PROVE  \E a : Settled(a, n) /\ agent' = [agent EXCEPT ![n] = a]
  <1> DEFINE b == agent[n]
             out == [i \in Interface |->
                       IF \E r \in b.want : r.interface = i
                         THEN Worse(b.out[i], [state |-> st, detail |-> {r \in b.want : r.interface = i}])
                         ELSE b.out[i]]
             a == [b EXCEPT !.pc = "pod", !.want = {}, !.cmds = {}, !.out = out]
  <1>0. b \in Locals /\ b.want \in SUBSET Resolved /\ b.out \in [Interface -> Outcome]
    BY LocalsTypes
  <1>1. agent' = [agent EXCEPT ![n] = a] BY DEF Converged
  <1>2. out \in [Interface -> Outcome]
    <2>1. ASSUME NEW i \in Interface
          PROVE  Worse(b.out[i], [state |-> st, detail |-> {r \in b.want : r.interface = i}]) \in Outcome
      <3> DEFINE row == [state |-> st, detail |-> {r \in b.want : r.interface = i}]
      <3>1. row \in Outcome BY <1>0 DEF Outcome
      <3>2. b.out[i] \in Outcome BY <1>0
      <3> HIDE DEF row
      <3>3. Worse(b.out[i], row) \in Outcome BY <3>1, <3>2, WorseTypes
      <3> QED BY <3>3 DEF row
    <2> QED BY <1>0, <2>1
  <1> HIDE DEF out
  <1>3. a \in Locals BY <1>0, <1>2 DEF Locals
  <1>4. a.pc = "pod" /\ a.todo = b.todo /\ a.want = {} BY <1>0 DEF Locals
  <1> HIDE DEF a
  <1>5. Settled(a, n) BY <1>3, <1>4 DEF Settled
  <1> QED BY <1>1, <1>5

\* The worst of the rows is one of them.
LEMMA OverallTypes ==
    ASSUME NEW rows \in [Interface -> Outcome] PROVE Overall(rows) \in State
  <1> DEFINE there == {i \in Interface : rows[i].state # "none"}
             rank(i) == Rank(rows[i].state)
  <1>1. \A i \in Interface : rows[i].state \in State BY DEF Outcome
  <1>2. CASE there = {} BY <1>2 DEF Overall, State
  <1>3. CASE there # {}
    <2>1. \A i \in there : rank(i) \in {0, 1, 2, 3} BY <1>1 DEF Rank, State
    <2>2. \E i \in there : \A j \in there : rank(j) <= rank(i)
      <3> HIDE DEF there, rank
      <3>1. CASE \E i \in there : rank(i) = 3 BY <2>1, <3>1
      <3>2. CASE (\A i \in there : rank(i) # 3) /\ \E i \in there : rank(i) = 2 BY <2>1, <3>2
      <3>3. CASE (\A i \in there : rank(i) \notin {2, 3}) /\ \E i \in there : rank(i) = 1 BY <2>1, <3>3
      <3>4. CASE \A i \in there : rank(i) \notin {1, 2, 3} BY <1>3, <2>1, <3>4
      <3> QED BY <3>1, <3>2, <3>3, <3>4
    <2>3. (CHOOSE i \in there : \A j \in there : Rank(rows[j].state) <= Rank(rows[i].state)) \in there
      BY <2>2
    <2> DEFINE w == CHOOSE i \in there : \A j \in there : Rank(rows[j].state) <= Rank(rows[i].state)
    <2>4. Overall(rows) = rows[w].state BY <1>3 DEF Overall
    <2>5. w \in Interface BY <2>3
    <2> HIDE DEF w
    <2> QED BY <1>1, <2>4, <2>5
  <1> QED BY <1>2, <1>3

\* Entering a pod resolves the setting that was listed.
LEMMA EnteredSettles ==
    ASSUME NEW n \in Node, NEW b \in Locals, NEW p \in b.todo,
           \A q \in b.todo : place[q] = n,
           NEW known \in [Gateway -> SUBSET Mac]
    PROVE  Settled(Entered(b, p, known), n)
  <1> DEFINE entries == b.seen.config.entries
             res == [e \in entries |-> Resolve(e, b.seen, known)]
             want == UNION {res[e].detail : e \in entries}
             out == [i \in Interface |->
                       Worse(b.out[i], WorstOf({res[e] : e \in {e \in entries : e.interface = i}}))]
             a == [b EXCEPT !.pc = "read", !.cur = p, !.todo = b.todo \ {p}, !.want = want, !.out = out]
  <1>0. /\ b.seen.config \in Annotation /\ b.seen.ip \in SUBSET Address
        /\ b.todo \in SUBSET Pod /\ b.out \in [Interface -> Outcome]
    BY LocalsTypes
  <1>1. entries \in Config \cup {{}} BY <1>0 DEF Annotation, Absent, Bad, Set
  <1>2. ASSUME NEW e \in entries
        PROVE  res[e] \in Outcome /\ res[e].detail \in SUBSET Resolved
    <2>1. e \in Entry BY <1>1, NetAgentAssumption
    <2>2. res[e] = Resolve(e, b.seen, known) OBVIOUS
    <2> QED BY <1>0, <2>1, <2>2, ResolveTypes
  <1> HIDE DEF entries, res
  <1>w. want \in SUBSET Resolved BY <1>2
  <1>3. out \in [Interface -> Outcome]
    <2>1. ASSUME NEW i \in Interface
          PROVE  Worse(b.out[i], WorstOf({res[e] : e \in {e \in entries : e.interface = i}})) \in Outcome
      <3> DEFINE outcomes == {res[e] : e \in {e \in entries : e.interface = i}}
      <3>1. outcomes \in SUBSET Outcome BY <1>2
      <3> HIDE DEF outcomes
      <3>2. WorstOf(outcomes) \in Outcome BY <3>1, WorstOfTypes
      <3>3. b.out[i] \in Outcome BY <1>0
      <3>4. Worse(b.out[i], WorstOf(outcomes)) \in Outcome BY <3>2, <3>3, WorseTypes
      <3> QED BY <3>4 DEF outcomes
    <2> QED BY <2>1
  <1>4. Entered(b, p, known) = a BY DEF Entered, entries, res
  <1> HIDE DEF want, out
  <1>5. a \in Locals BY <1>0, <1>w, <1>3 DEF Locals
  <1>6. a.pc = "read" /\ a.cur = p /\ a.todo = b.todo \ {p} /\ a.want = want BY DEF Locals
  <1> HIDE DEF a
  <1>7. Settled(a, n) BY <1>5, <1>6 DEF Settled
  <1> QED BY <1>4, <1>7

\* Every step of a pass but Read, Run and RunsOut leaves the agent settled, touches no pod
\* and keeps the types of what it notes and tells.
LEMMA PassSettles ==
    ASSUME NetInv, NEW n \in Node,
           \/ Tick(n) \/ reconcile(n) \/ Visited(n) \/ Report(n) \/ Unsay(n)
           \/ Restart(n) \/ \E p \in Pod : Enter(n, p) \/ EnterFails(n, p)
    PROVE  /\ \E a : Settled(a, n) /\ agent' = [agent EXCEPT ![n] = a]
           /\ UNCHANGED <<config, ip, home, moving, place, live, gw, net, changes, touched, copied, rival>>
           /\ status' \in SUBSET Said /\ macs' \in [Node -> [Gateway -> SUBSET Mac]]
           /\ written' \in [Node -> SUBSET Status] /\ faults' \in 0 .. MaxFaults /\ lost' \in BOOLEAN
  <1> DEFINE b == agent[n]
             Old == UNCHANGED <<config, ip, home, moving, place, live, gw, net, changes, touched, copied, rival>>
             Typed == /\ status' \in SUBSET Said /\ macs' \in [Node -> [Gateway -> SUBSET Mac]]
                      /\ written' \in [Node -> SUBSET Status] /\ faults' \in 0 .. MaxFaults
                      /\ lost' \in BOOLEAN
             Done == \E a : Settled(a, n) /\ agent' = [agent EXCEPT ![n] = a]
  <1>0. /\ agent \in [Node -> Locals] /\ b \in Locals
        /\ status \in SUBSET Said /\ macs \in [Node -> [Gateway -> SUBSET Mac]]
        /\ written \in [Node -> SUBSET Status] /\ faults \in 0 .. MaxFaults /\ lost \in BOOLEAN
        /\ config \in Annotation /\ ip \in SUBSET Address /\ gw \in [Gateway -> Mac]
        /\ live \in SUBSET Pod
    BY DEF NetInv, TypeOK
  <1>a. /\ \A p \in b.todo : place[p] = n
        /\ b.pc \in {"read", "run"} => place[b.cur] = n
    BY DEF NetInv, PlaceInv
  <1>b. /\ b.seen.config \in Annotation /\ b.seen.ip \in SUBSET Address
        /\ b.todo \in SUBSET Pod /\ b.want \in SUBSET Resolved /\ b.out \in [Interface -> Outcome]
        /\ b.verdict \in SUBSET Status
    BY <1>0, LocalsTypes
  <1>c. ASSUME Fault PROVE faults' \in 0 .. MaxFaults
    BY <1>0, <1>c, NetAgentAssumption DEF Fault
  <1>d. NoRows \in [Interface -> Outcome] BY RestingTypes
  <1>e. /\ [state |-> "Failed", rows |-> NoRows] \in Status
        /\ [state |-> "Pending", rows |-> NoRows] \in Status
    BY <1>d DEF Status, State
  <1>f. ASSUME Rest(n) PROVE Done BY <1>f, RestSettles DEF Rest
  <1>g. ASSUME UNCHANGED agent, b.pc # "run" PROVE Done
    <2>1. Settled(b, n) BY <1>0, <1>a, <1>g DEF Settled
    <2>2. agent' = [agent EXCEPT ![n] = b] BY <1>0, <1>g
    <2> QED BY <2>1, <2>2
  <1>h. ASSUME NEW where \in {"pod", "unsay"}, NEW todo \in SUBSET Pod, \A p \in todo : place[p] = n,
               agent' = [agent EXCEPT ![n].pc = where, ![n].todo = todo]
        PROVE  Done
    <2> DEFINE a == [b EXCEPT !.pc = where, !.todo = todo]
    <2>1. agent' = [agent EXCEPT ![n] = a] BY <1>0, <1>h
    <2>2. a \in Locals BY <1>0 DEF Locals
    <2>3. a.pc = where /\ a.todo = todo /\ a.want = b.want BY <1>0 DEF Locals
    <2> HIDE DEF a
    <2>4. Settled(a, n) BY <1>a, <1>h, <2>2, <2>3 DEF Settled
    <2> QED BY <2>1, <2>4
  <1> HIDE DEF Done
  <1>1. CASE Tick(n)
    <2>1. Old /\ Typed BY <1>0, <1>1 DEF Tick, vmi
    <2>2. Done
      <3>1. CASE UNCHANGED agent BY <1>1, <1>g, <3>1 DEF Tick
      <3>2. CASE ~UNCHANGED agent
        <4> DEFINE seen == [config |-> config, told |-> status # {},
                            owner |-> place[home] = n, ip |-> ip]
                   a == [b EXCEPT !.pc = "seen", !.seen = seen]
        <4>1. agent' = [agent EXCEPT ![n] = a] BY <1>0, <1>1, <3>2 DEF Tick
        <4>2. seen \in [config : Annotation, told : BOOLEAN, owner : BOOLEAN, ip : SUBSET Address]
          BY <1>0
        <4> HIDE DEF seen
        <4>3. a \in Locals BY <1>0, <4>2 DEF Locals
        <4>4. a.pc = "seen" /\ a.todo = b.todo /\ a.want = b.want BY <1>0 DEF Locals
        <4> HIDE DEF a
        <4>5. Settled(a, n) BY <1>a, <4>3, <4>4 DEF Settled
        <4> QED BY <4>1, <4>5 DEF Done
      <3> QED BY <3>1, <3>2
    <2> QED BY <2>1, <2>2 DEF Done
  <1>2. CASE reconcile(n)
    <2>1. Old /\ Typed BY <1>0, <1>2 DEF reconcile, vmi
    <2>2. CASE Rest(n) BY <1>f, <2>1, <2>2 DEF Done
    <2>3. CASE \E st \in Status : Say(n, st) BY <1>0, <2>1, <2>3, SaySettles
    <2>4. CASE agent' = [agent EXCEPT ![n].pc = "pod", ![n].todo = qemu_pids(n)]
      <3>1. qemu_pids(n) \in SUBSET Pod /\ \A p \in qemu_pids(n) : place[p] = n
        BY <1>0 DEF qemu_pids
      <3>2. Done BY <1>h, <2>4, <3>1
      <3> QED BY <2>1, <3>2 DEF Done
    <2> QED BY <1>2, <1>e, <2>2, <2>3, <2>4 DEF reconcile
  <1>4. CASE Visited(n)
    <2>1. Old /\ Typed BY <1>0, <1>4 DEF Visited, vmi
    <2>2. CASE Goto(n, "unsay")
      <3>1. agent' = [agent EXCEPT ![n].pc = "unsay", ![n].todo = b.todo] BY <1>0, <2>2 DEF Goto, Locals
      <3>2. Done BY <1>a, <1>b, <1>h, <3>1
      <3> QED BY <2>1, <3>2 DEF Done
    <2>3. CASE Say(n, [state |-> Overall(b.out), rows |-> b.out])
      <3> DEFINE st == [state |-> Overall(b.out), rows |-> b.out]
      <3>1. st \in Status BY <1>b, OverallTypes DEF Status
      <3> HIDE DEF st
      <3>2. Say(n, st) BY <2>3 DEF st
      <3> QED BY <1>0, <2>1, <3>1, <3>2, SaySettles
    <2> QED BY <1>4, <2>2, <2>3 DEF Visited
  <1>5. CASE Report(n) \/ Unsay(n)
    <2>1. Old BY <1>5 DEF Report, Unsay
    <2>2. Done BY <1>5, <1>f DEF Report, Unsay
    <2>3. {[node |-> n, what |-> v] : v \in b.verdict} \in SUBSET Said BY <1>b DEF Said
    <2>4. ASSUME NEW value \in SUBSET Said, Patch(n, value)
          PROVE  status' \in SUBSET Said /\ faults' \in 0 .. MaxFaults /\ lost' \in BOOLEAN
      BY <1>0, <1>c, <2>4 DEF Patch
    <2>5. CASE Report(n)
      <3>1. macs' = macs /\ written' \in [Node -> SUBSET Status] BY <1>0, <1>b, <2>5 DEF Report
      <3>2. status' \in SUBSET Said /\ faults' \in 0 .. MaxFaults /\ lost' \in BOOLEAN
        BY <1>0, <2>3, <2>4, <2>5 DEF Report
      <3> QED BY <1>0, <2>1, <2>2, <3>1, <3>2 DEF Done
    <2>6. CASE Unsay(n)
      <3>1. macs' = macs /\ written' = written /\ Patch(n, {}) BY <2>6 DEF Unsay
      <3>2. status' \in SUBSET Said /\ faults' \in 0 .. MaxFaults /\ lost' \in BOOLEAN
        BY <2>4, <3>1
      <3> QED BY <1>0, <2>1, <2>2, <3>1, <3>2 DEF Done
    <2> QED BY <1>5, <2>5, <2>6
  <1>6. CASE Restart(n)
    <2>1. Old BY <1>6 DEF Restart, vmi
    <2>2. Done BY <1>6, <1>f DEF Restart
    <2>3. Typed BY <1>0, <1>6, <1>c DEF Restart, vmi
    <2> QED BY <2>1, <2>2, <2>3 DEF Done
  <1>7. ASSUME NEW p \in Pod, Enter(n, p)
        PROVE  Old /\ Typed /\ Done
    <2>1. Old /\ UNCHANGED <<status, written, lost>> BY <1>7 DEF Enter, vmi
    <2>2. PICK answered \in SUBSET Gateway :
             LET known == [g \in Gateway |-> IF g \in answered THEN {gw[g]} ELSE macs[n][g]] IN
             /\ UNCHANGED faults \/ Fault
             /\ macs' = [macs EXCEPT ![n] = known]
             /\ agent' = [agent EXCEPT ![n] = Entered(b, p, known)]
      <3> DEFINE asked == {g \in Asked(b.seen.config.entries, b.seen) : macs[n][g] = {}}
      <3>1. asked \in SUBSET Gateway
        <4>1. b.seen.config.entries \in SUBSET Entry
          BY <1>b, NetAgentAssumption DEF Annotation, Absent, Bad, Set
        <4> QED BY <4>1 DEF Asked, Entry
      <3>2. PICK answered \in SUBSET asked :
               LET known == [g \in Gateway |-> IF g \in answered THEN {gw[g]} ELSE macs[n][g]] IN
               /\ IF answered = asked THEN UNCHANGED faults ELSE Fault
               /\ macs' = [macs EXCEPT ![n] = known]
               /\ agent' = [agent EXCEPT ![n] = Entered(b, p, known)]
        BY <1>7 DEF Enter
      <3> HIDE DEF asked
      <3>3. answered \in SUBSET Gateway BY <3>1
      <3> QED BY <3>2, <3>3
    <2> DEFINE known == [g \in Gateway |-> IF g \in answered THEN {gw[g]} ELSE macs[n][g]]
    <2>3. known \in [Gateway -> SUBSET Mac] BY <1>0
    <2>4. /\ UNCHANGED faults \/ Fault
          /\ macs' = [macs EXCEPT ![n] = known]
          /\ agent' = [agent EXCEPT ![n] = Entered(b, p, known)]
      BY <2>2
    <2> HIDE DEF known
    <2>5. p \in b.todo BY <1>7 DEF Enter
    <2>6. Settled(Entered(b, p, known), n) BY <1>0, <1>a, <2>3, <2>5, EnteredSettles
    <2>7. Typed BY <1>0, <1>c, <2>1, <2>3, <2>4
    <2> QED BY <2>1, <2>4, <2>6, <2>7 DEF Done
  <1>8. ASSUME NEW p \in Pod, EnterFails(n, p)
        PROVE  Old /\ Typed /\ Done
    <2>1. Old /\ Typed BY <1>0, <1>8, <1>c DEF EnterFails, vmi
    <2>2. Done BY <1>0, <1>8, <1>e, SaySettles DEF EnterFails, Done
    <2> QED BY <2>1, <2>2
  <1> QED BY <1>1, <1>2, <1>4, <1>5, <1>6, <1>7, <1>8 DEF Done

-----------------------------------------------------------------------------
(* The frame: who stays as it is.                                          *)

\* An agent keeps its part while its pod, if it runs commands there, is left alone.
LEMMA OthersKeep ==
    ASSUME NEW m \in Node, PlaceInv(m), PlanInv(m),
           agent'[m] = agent[m], UNCHANGED place,
           copied \subseteq copied', touched[m] => touched'[m],
           agent[m].pc = "run" =>
              /\ agent[m].cur \in rival => agent[m].cur \in rival'
              /\ rules'[agent[m].cur] = rules[agent[m].cur]
              /\ routes'[agent[m].cur] = routes[agent[m].cur]
              /\ neighbours'[agent[m].cur] = neighbours[agent[m].cur]
    PROVE  PlaceInv(m)' /\ PlanInv(m)'
  <1>1. PlaceInv(m)' BY DEF PlaceInv
  <1>2. PICK a : a = agent[m] OBVIOUS
  <1>3. agent'[m] = a BY <1>2
  <1>4. CASE a.pc # "run" BY <1>1, <1>2, <1>3, <1>4 DEF PlanInv
  <1>5. CASE a.pc = "run"
    <2>1. /\ \A r \in Rule : IsFiniteSet(Left(a.cmds, r))
          /\ a.cur \notin rival => OneRuleWanted(a.want)
          /\ a.cur \notin copied => RulesCovered(rules[a.cur], a.cmds, a.want)
          /\ ~touched[m] =>
                /\ RulesBalance(rules[a.cur], a.cmds, a.want)
                /\ OneWayWanted(a.want) => /\ RoutesPlanned(routes[a.cur], a.cmds, a.want)
                                           /\ NeighboursPlanned(neighbours[a.cur], a.cmds, a.want)
      BY <1>2, <1>5 DEF PlanInv, Planned
    <2>2. /\ a.cur \notin rival' => OneRuleWanted(a.want)
          /\ a.cur \notin copied' => RulesCovered(rules'[a.cur], a.cmds, a.want)
          /\ ~touched'[m] =>
                /\ RulesBalance(rules'[a.cur], a.cmds, a.want)
                /\ OneWayWanted(a.want) => /\ RoutesPlanned(routes'[a.cur], a.cmds, a.want)
                                           /\ NeighboursPlanned(neighbours'[a.cur], a.cmds, a.want)
      BY <1>2, <1>5, <2>1
    <2> QED BY <1>1, <1>3, <1>5, <2>1, <2>2 DEF PlanInv, Planned
  <1> QED BY <1>4, <1>5

\* A settled agent keeps its part too.
LEMMA SettledKeeps ==
    ASSUME NEW n \in Node, NEW a, Settled(a, n), agent'[n] = a, UNCHANGED place
    PROVE  PlaceInv(n)' /\ PlanInv(n)'
  <1>1. PlaceInv(n)' BY DEF PlaceInv, Settled
  <1>2. PlanInv(n)' BY DEF PlanInv, Settled
  <1> QED BY <1>1, <1>2

\* A step that leaves the agents and the pods as they are.
LEMMA WorldMoves ==
    ASSUME NetInv, UNCHANGED <<agent, net, place, touched, copied, rival>>, TypeOK'
    PROVE  NetInv'
  <1>1. \A n \in Node : PlaceInv(n)' /\ PlanInv(n)'
    BY OthersKeep DEF NetInv, net
  <1>2. OneRulePerClient' /\ OneNeighbour' BY DEF NetInv, OneRulePerClient, OneNeighbour, net, SameKey
  <1> QED BY <1>1, <1>2 DEF NetInv

\* A step of one agent that leaves the pods as they are.
LEMMA AgentMoves ==
    ASSUME NetInv, NEW n \in Node, NEW a, Settled(a, n), agent' = [agent EXCEPT ![n] = a],
           UNCHANGED <<net, place, copied>>, rival \subseteq rival', \A m \in Node \ {n} : touched'[m] = touched[m], TypeOK'
    PROVE  NetInv'
  <1>0. agent \in [Node -> Locals] BY DEF NetInv, TypeOK
  <1>1. PlaceInv(n)' /\ PlanInv(n)' BY <1>0, SettledKeeps
  <1>2. ASSUME NEW m \in Node \ {n} PROVE PlaceInv(m)' /\ PlanInv(m)'
    <2>1. agent'[m] = agent[m] BY <1>0
    <2> QED BY <2>1, OthersKeep DEF NetInv, net
  <1>3. OneRulePerClient' /\ OneNeighbour' BY DEF NetInv, OneRulePerClient, OneNeighbour, net, SameKey
  <1> QED BY <1>1, <1>2, <1>3 DEF NetInv

-----------------------------------------------------------------------------
(* Commands.                                                               *)

\* A command in a pod leaves one rule for a client range and one neighbour for an
\* address, goes on with the plan, and leaves the other pods alone.
LEMMA CommandKeeps ==
    ASSUME NetInv, NEW n \in Node, agent[n].pc = "run", NEW c \in Ready(agent[n].cmds),
           Works(c, agent[n].cur), Effect(c, agent[n].cur), UNCHANGED <<copied, rival>>
    PROVE  LET a == agent[n] IN
           /\ rules' \in [Pod -> [Rule -> Nat]] /\ routes' \in [Pod -> SUBSET Route]
           /\ neighbours' \in [Pod -> SUBSET Neighbour]
           /\ \A p \in Pod \ {a.cur} :
                rules'[p] = rules[p] /\ routes'[p] = routes[p] /\ neighbours'[p] = neighbours[p]
           /\ OneRulePerClient' /\ OneNeighbour'
           /\ \A r \in Rule : IsFiniteSet(Left(a.cmds \ {c}, r))
           /\ a.cur \notin copied => RulesCovered(rules'[a.cur], a.cmds \ {c}, a.want)
           /\ ~touched[n] =>
                 /\ RulesBalance(rules'[a.cur], a.cmds \ {c}, a.want)
                 /\ OneWayWanted(a.want) => /\ RoutesPlanned(routes'[a.cur], a.cmds \ {c}, a.want)
                                            /\ NeighboursPlanned(neighbours'[a.cur], a.cmds \ {c}, a.want)
  <1> DEFINE a == agent[n]
             p == a.cur
             cmds == a.cmds
             d == a.want
  <1>0. /\ p \in Pod /\ cmds \in SUBSET Command /\ d \in SUBSET Resolved
        /\ rules \in [Pod -> [Rule -> Nat]] /\ routes \in [Pod -> SUBSET Route]
        /\ neighbours \in [Pod -> SUBSET Neighbour]
    BY LocalsTypes DEF NetInv, TypeOK
  <1>1. /\ \A r \in Rule : IsFiniteSet(Left(cmds, r))
        /\ p \notin rival => OneRuleWanted(d)
        /\ p \notin copied => RulesCovered(rules[p], cmds, d)
        /\ ~touched[n] => /\ RulesBalance(rules[p], cmds, d)
                          /\ OneWayWanted(d) => /\ RoutesPlanned(routes[p], cmds, d)
                                                /\ NeighboursPlanned(neighbours[p], cmds, d)
    BY DEF NetInv, PlanInv, Planned
  <1>3. /\ rules' = [rules EXCEPT ![p] = RulesAfter(c, rules[p])]
        /\ routes' = [routes EXCEPT ![p] = RoutesAfter(c, routes[p])]
        /\ neighbours' = [neighbours EXCEPT ![p] = NeighboursAfter(c, neighbours[p])]
    BY <1>0 DEF Effect
  <1>c. c \in cmds /\ c \in Command BY <1>0, ReadyIsNext
  <1>d. c.op = "rule-del" => rules[p][c.arg] > 0 BY DEF Works
  <1>e. c \in Ready(cmds) OBVIOUS
  <1> HIDE DEF p, cmds, d
  <1>4. /\ rules'[p] = RulesAfter(c, rules[p]) /\ routes'[p] = RoutesAfter(c, routes[p])
        /\ neighbours'[p] = NeighboursAfter(c, neighbours[p])
        /\ \A q \in Pod \ {p} : rules'[q] = rules[q] /\ routes'[q] = routes[q] /\ neighbours'[q] = neighbours[q]
    BY <1>0, <1>3
  <1>5. /\ RulesAfter(c, rules[p]) \in [Rule -> Nat]
        /\ \A r \in Rule : IsFiniteSet(Left(cmds \ {c}, r))
        /\ RulesCovered(rules[p], cmds, d) => RulesCovered(RulesAfter(c, rules[p]), cmds \ {c}, d)
        /\ RulesBalance(rules[p], cmds, d) => RulesBalance(RulesAfter(c, rules[p]), cmds \ {c}, d)
    <2> DEFINE have == rules[p]
    <2>1. have \in [Rule -> Nat] BY <1>0
    <2>2. c.op = "rule-del" => have[c.arg] > 0 BY <1>d
    <2> HIDE DEF have
    <2>3. /\ RulesAfter(c, have) \in [Rule -> Nat]
          /\ \A r \in Rule : IsFiniteSet(Left(cmds \ {c}, r))
          /\ RulesCovered(have, cmds, d) => RulesCovered(RulesAfter(c, have), cmds \ {c}, d)
          /\ RulesBalance(have, cmds, d) => RulesBalance(RulesAfter(c, have), cmds \ {c}, d)
      BY <1>0, <1>1, <1>c, <2>1, <2>2, BooksKept
    <2> QED BY <2>3 DEF have
  <1>6. ~touched[n] /\ OneWayWanted(d) => RoutesPlanned(RoutesAfter(c, routes[p]), cmds \ {c}, d)
    BY <1>0, <1>1, <1>e, RoutesKept
  <1>7. ~touched[n] /\ OneWayWanted(d) => NeighboursPlanned(NeighboursAfter(c, neighbours[p]), cmds \ {c}, d)
    BY <1>0, <1>1, <1>e, NeighboursKept
  <1>8. /\ RoutesAfter(c, routes[p]) \in SUBSET Route
        /\ NeighboursAfter(c, neighbours[p]) \in SUBSET Neighbour
        /\ \A x, y \in NeighboursAfter(c, neighbours[p]) : SameKey(x, y) => x = y
    <2>1. RoutesAfter(c, routes[p]) \in SUBSET Route
      <3>1. c.op \in {"route-del", "route-replace"} => c.arg \in Route BY <1>c, CommandTypes
      <3> QED BY <1>0, <3>1 DEF RoutesAfter
    <2>2. c.op \in {"neigh-del", "neigh-replace"} => c.arg \in Neighbour BY <1>c, CommandTypes
    <2>3. \A x, y \in neighbours[p] : SameKey(x, y) => x = y BY <1>0 DEF NetInv, OneNeighbour
    <2> DEFINE others == {x \in neighbours[p] : ~SameKey(x, c.arg)}
    <2>4. \/ NeighboursAfter(c, neighbours[p]) \in {others, neighbours[p]}
          \/ c.op = "neigh-replace" /\ NeighboursAfter(c, neighbours[p]) = others \cup {c.arg}
      BY DEF NeighboursAfter, SameKey
    <2>5. \A x, y : SameKey(x, y) <=> SameKey(y, x) BY DEF SameKey
    <2> DEFINE after == NeighboursAfter(c, neighbours[p])
    <2> HIDE DEF after
    <2>6. CASE after \in {others, neighbours[p]} BY <1>0, <2>1, <2>3, <2>6 DEF after
    <2>7. CASE c.op = "neigh-replace" /\ after = others \cup {c.arg}
      BY <1>0, <2>1, <2>2, <2>3, <2>5, <2>7 DEF after
    <2> QED BY <2>4, <2>6, <2>7 DEF after
  <1>9. /\ rules' \in [Pod -> [Rule -> Nat]] /\ routes' \in [Pod -> SUBSET Route]
        /\ neighbours' \in [Pod -> SUBSET Neighbour]
    BY <1>0, <1>3, <1>5, <1>8
  <1>10. OneNeighbour'
    <2>1. \A q \in Pod : \A x, y \in neighbours'[q] : SameKey(x, y) => x = y
      BY <1>4, <1>8 DEF NetInv, OneNeighbour
    <2> QED BY <2>1 DEF OneNeighbour, SameKey
  <1>11. OneRulePerClient'
    <2> SUFFICES ASSUME NEW q \in Pod, q \notin copied \cup rival, NEW r \in Rule, NEW s \in Rule,
                        rules'[q][r] > 0, rules'[q][s] > 0,
                        r.interface = s.interface, r.client = s.client
                 PROVE  r = s
      BY DEF OneRulePerClient
    <2>1. CASE rules[q][r] > 0 /\ rules[q][s] > 0
      BY <2>1 DEF NetInv, OneRulePerClient
    <2>2. CASE ~(rules[q][r] > 0 /\ rules[q][s] > 0)
      <3>1. q = p BY <1>4, <2>2
      <3>2. c.op = "rule-add"
        <4> SUFFICES ASSUME c.op # "rule-add"
                     PROVE  \A x \in Rule : rules'[p][x] <= rules[p][x]
          BY <1>0, <1>9, <2>2, <3>1
        <4>1. CASE c.op = "rule-del"
          <5>1. rules'[p] = [rules[p] EXCEPT ![c.arg] = @ - 1] /\ c.arg \in Rule
            BY <1>4, <1>c, <4>1, CommandTypes DEF RulesAfter
          <5> QED BY <1>0, <5>1
        <4>2. CASE c.op # "rule-del"
          <5>1. rules'[p] = rules[p] BY <1>4, <4>2 DEF RulesAfter
          <5> QED BY <1>0, <5>1
        <4> QED BY <4>1, <4>2
      <3>3. \A e \in cmds : e.op = "rule-add" BY <1>0, <1>e, <3>2, ReadyIsNext
      <3>4. RulesCovered(rules'[p], cmds \ {c}, d) BY <1>1, <1>4, <1>5, <3>1
      <3>5. ASSUME NEW x \in Rule, rules'[p][x] > 0 PROVE x \in WantRules(d)
        <4>1. Left(cmds \ {c}, x) = {} BY <3>3 DEF Left
        <4>2. Cardinality(Left(cmds \ {c}, x)) = 0 BY <4>1, FS_EmptySet
        <4>3. rules'[p][x] + Coming(cmds \ {c}, x) <= Cardinality(Left(cmds \ {c}, x)) + Wanted(d, x)
          BY <3>4 DEF RulesCovered
        <4>4. Coming(cmds \ {c}, x) \in Nat /\ rules'[p][x] \in Nat BY <1>0, <1>9 DEF Coming
        <4> QED BY <3>5, <4>2, <4>3, <4>4 DEF Wanted
      <3>6. r \in WantRules(d) /\ s \in WantRules(d) BY <3>1, <3>5
      <3>7. OneRuleWanted(d) BY <1>1, <3>1
      <3> QED BY <3>6, <3>7 DEF OneRuleWanted
    <2> QED BY <2>1, <2>2
  <1> QED BY <1>1, <1>4, <1>5, <1>6, <1>7, <1>9, <1>10, <1>11 DEF p, cmds, d

LEMMA ReadKeeps ==
    ASSUME NetInv, NEW n \in Node, Read(n) PROVE NetInv'
  <1> DEFINE b == agent[n]
             p == b.cur
  <1>0. /\ agent \in [Node -> Locals] /\ b \in Locals /\ p \in Pod
        /\ b.want \in SUBSET Resolved /\ b.pc = "read"
        /\ rules \in [Pod -> [Rule -> Nat]] /\ routes \in [Pod -> SUBSET Route]
        /\ neighbours \in [Pod -> SUBSET Neighbour]
        /\ \A x, y \in neighbours[p] : SameKey(x, y) => x = y
        /\ touched \in [Node -> BOOLEAN] /\ rival \in SUBSET Pod
    BY LocalsTypes DEF NetInv, TypeOK, OneNeighbour, Read
  <1>1. /\ UNCHANGED <<vmi, net, macs, written, changes, copied, lost>>
        /\ touched' = [touched EXCEPT ![n] = FALSE] /\ (UNCHANGED faults \/ Fault)
        /\ rival' \in {rival, rival \cup {p}}
    BY DEF Read
  <1>2. ASSUME agent' \in [Node -> Locals] PROVE TypeOK'
    <2>1. faults' \in 0 .. MaxFaults
      <3>1. faults \in 0 .. MaxFaults BY DEF NetInv, TypeOK
      <3> QED BY <1>1, <3>1, NetAgentAssumption DEF Fault
    <2> QED BY <1>0, <1>1, <1>2, <2>1 DEF NetInv, TypeOK, vmi, net
  <1>3. CASE Converged(n, "Failed")
    <2>1. "Failed" \in State BY DEF State
    <2>2. \A q \in b.todo : place[q] = n BY DEF NetInv, PlaceInv
    <2>3. PICK a : Settled(a, n) /\ agent' = [agent EXCEPT ![n] = a]
      BY <1>0, <1>3, <2>1, <2>2, ConvergedSettles
    <2>4. agent' \in [Node -> Locals] BY <1>0, <2>3 DEF Settled
    <2> QED BY <1>0, <1>1, <1>2, <2>3, <2>4, AgentMoves DEF vmi
  <1>4. CASE /\ agent' = [agent EXCEPT ![n].pc = "run", ![n].cmds = commands(b.want, p)]
             /\ rival' = (IF OneRuleWanted(b.want) THEN rival ELSE rival \cup {p})
    <2> DEFINE cmds == commands(b.want, p)
               d == b.want
    <2>1. /\ cmds \in SUBSET Command /\ \A r \in Rule : IsFiniteSet(Left(cmds, r))
          /\ RulesBalance(rules[p], cmds, d) /\ RoutesPlanned(routes[p], cmds, d)
          /\ NeighboursPlanned(neighbours[p], cmds, d)
      <3> HIDE DEF p, d
      <3>1. d \in SUBSET Resolved BY <1>0 DEF d
      <3> QED BY <1>0, <3>1, PlanIsMade DEF d
    <2> HIDE DEF cmds
    <2> DEFINE a == [b EXCEPT !.pc = "run", !.cmds = cmds]
    <2>2. agent' = [agent EXCEPT ![n] = a] BY <1>0, <1>4 DEF cmds
    <2>3. a \in Locals BY <1>0, <2>1 DEF Locals
    <2>4. a.pc = "run" /\ a.cmds = cmds /\ a.want = d /\ a.todo = b.todo /\ a.cur = p
      BY <1>0 DEF Locals
    <2> HIDE DEF a
    <2>5. agent' \in [Node -> Locals] /\ agent'[n] = a /\ \A m \in Node \ {n} : agent'[m] = agent[m]
      BY <1>0, <2>2, <2>3
    <2>6. RulesCovered(rules[p], cmds, d)
      <3> SUFFICES ASSUME NEW r \in Rule
                   PROVE  rules[p][r] + Coming(cmds, r) <= Cardinality(Left(cmds, r)) + Wanted(d, r)
        BY DEF RulesCovered
      <3>1. rules[p][r] + Coming(cmds, r) = Cardinality(Left(cmds, r)) + Wanted(d, r)
        BY <2>1 DEF RulesBalance
      <3>2. rules[p][r] \in Nat /\ Coming(cmds, r) \in Nat BY <1>0 DEF Coming
      <3> QED BY <3>1, <3>2
    <2>7. PlaceInv(n)'
      <3>1. (\A q \in b.todo : place[q] = n) /\ place[p] = n BY <1>0 DEF NetInv, PlaceInv
      <3> QED BY <1>1, <2>4, <2>5, <3>1 DEF PlaceInv, vmi
    <2>8. PlanInv(n)'
      <3>1. p \notin rival' => OneRuleWanted(d) BY <1>4
      <3>2. rules'[p] = rules[p] /\ routes'[p] = routes[p] /\ neighbours'[p] = neighbours[p]
        BY <1>1 DEF net
      <3> HIDE DEF p, d
      <3> QED BY <2>1, <2>4, <2>5, <2>6, <3>1, <3>2 DEF PlanInv, Planned
    <2>9. ASSUME NEW m \in Node \ {n} PROVE PlaceInv(m)' /\ PlanInv(m)'
      <3>1. touched'[m] = touched[m] BY <1>0, <1>1
      <3> QED BY <1>1, <2>5, <3>1, OthersKeep DEF NetInv, net, vmi
    <2>10. TypeOK' BY <1>2, <2>5
    <2>11. OneRulePerClient' /\ OneNeighbour'
      BY <1>1 DEF NetInv, OneRulePerClient, OneNeighbour, net, SameKey
    <2> QED BY <2>7, <2>8, <2>9, <2>10, <2>11 DEF NetInv
  <1> QED BY <1>3, <1>4 DEF Read

\* When the last command has been run, a pod holds what was wanted of its rules, so
\* none that compete unless the setting asked for them.
LEMMA RunsOutKeeps ==
    ASSUME NetInv, NEW n \in Node, RunsOut(n) PROVE NetInv'
  <1> DEFINE b == agent[n]
             p == b.cur
             d == b.want
  <1>0. /\ agent \in [Node -> Locals] /\ b \in Locals /\ p \in Pod /\ d \in SUBSET Resolved
        /\ rules \in [Pod -> [Rule -> Nat]] /\ b.pc = "run" /\ b.cmds = {}
        /\ rival \in SUBSET Pod
    BY LocalsTypes DEF NetInv, TypeOK, RunsOut
  <1>1. /\ UNCHANGED <<vmi, net, macs, written, faults, changes, touched, copied, lost>>
        /\ Converged(n, "Applied")
        /\ rival' = (IF OneRuleWanted(d) /\ ~touched[n] THEN rival \ {p} ELSE rival)
    BY DEF RunsOut
  <1>2. PICK a : Settled(a, n) /\ agent' = [agent EXCEPT ![n] = a]
    <2>1. "Applied" \in State BY DEF State
    <2>2. \A q \in b.todo : place[q] = n BY DEF NetInv, PlaceInv
    <2> QED BY <1>0, <1>1, <2>1, <2>2, ConvergedSettles
  <1>3. agent' \in [Node -> Locals] /\ agent'[n] = a /\ \A m \in Node \ {n} : agent'[m] = agent[m]
    BY <1>0, <1>2 DEF Settled
  <1>4. place[p] = n BY <1>0 DEF NetInv, PlaceInv
  <1>5. ~touched[n] => RulesExact(p, d)
    <2> SUFFICES ASSUME ~touched[n] PROVE RulesExact(p, d) OBVIOUS
    <2>1. RulesBalance(rules[p], {}, d) BY <1>0 DEF NetInv, PlanInv, Planned
    <2>2. rules[p] \in [Rule -> Nat] BY <1>0
    <2> HIDE DEF p, d
    <2> QED BY <2>1, <2>2, PlanIsDone
  <1> HIDE DEF p, d
  <1>6. TypeOK'
    <2>1. rival' \in SUBSET Pod BY <1>0, <1>1
    <2> QED BY <1>1, <1>3, <2>1 DEF NetInv, TypeOK, vmi, net
  <1>7. OneRulePerClient'
    <2> SUFFICES ASSUME NEW q \in Pod, q \notin copied' \cup rival', NEW r \in Rule, NEW s \in Rule,
                        rules'[q][r] > 0, rules'[q][s] > 0,
                        r.interface = s.interface, r.client = s.client
                 PROVE  r = s
      BY DEF OneRulePerClient
    <2>1. rules[q][r] > 0 /\ rules[q][s] > 0 /\ q \notin copied BY <1>1 DEF net
    <2>2. CASE q \notin rival BY <2>1, <2>2 DEF NetInv, OneRulePerClient
    <2>3. CASE q \in rival
      <3>1. q = p /\ OneRuleWanted(d) /\ ~touched[n] BY <1>1, <2>3
      <3>2. r \in WantRules(d) /\ s \in WantRules(d) BY <1>5, <2>1, <3>1 DEF RulesExact
      <3> QED BY <3>1, <3>2 DEF OneRuleWanted
    <2> QED BY <2>2, <2>3
  <1>8. OneNeighbour' BY <1>1 DEF NetInv, OneNeighbour, net, SameKey
  <1>9. PlaceInv(n)' /\ PlanInv(n)' BY <1>1, <1>2, <1>3, SettledKeeps DEF vmi
  <1>10. ASSUME NEW m \in Node \ {n} PROVE PlaceInv(m)' /\ PlanInv(m)'
    <2>1. agent[m].pc = "run" => agent[m].cur # p BY <1>4 DEF NetInv, PlaceInv
    <2>2. agent[m].pc = "run" => (agent[m].cur \in rival => agent[m].cur \in rival')
      BY <1>1, <2>1
    <2>3. place' = place /\ copied' = copied /\ touched' = touched BY <1>1 DEF vmi
    <2>4. rules' = rules /\ routes' = routes /\ neighbours' = neighbours BY <1>1 DEF net
    <2>5. agent'[m] = agent[m] BY <1>3
    <2>6. PlaceInv(m) /\ PlanInv(m) BY DEF NetInv
    <2> QED BY <2>2, <2>3, <2>4, <2>5, <2>6, OthersKeep
  <1> QED BY <1>6, <1>7, <1>8, <1>9, <1>10 DEF NetInv

\* A command that is run, whether or not its agent goes on after it.
LEMMA RunKeeps ==
    ASSUME NetInv, NEW n \in Node, NEW c \in Ready(agent[n].cmds), agent[n].pc = "run",
           \/ Works(c, agent[n].cur) /\ Effect(c, agent[n].cur)
           \/ UNCHANGED net /\ Converged(n, "Failed"),
           \/ agent' = [agent EXCEPT ![n].cmds = @ \ {c}]
           \/ Converged(n, "Failed"),
           UNCHANGED <<vmi, macs, written, changes, touched, copied, rival, lost>>,
           UNCHANGED faults \/ Fault
    PROVE  NetInv'
  <1> DEFINE b == agent[n]
             p == b.cur
  <1>0. /\ agent \in [Node -> Locals] /\ b \in Locals /\ p \in Pod
        /\ b.want \in SUBSET Resolved /\ b.cmds \in SUBSET Command
        /\ rules \in [Pod -> [Rule -> Nat]] /\ routes \in [Pod -> SUBSET Route]
        /\ neighbours \in [Pod -> SUBSET Neighbour]
    BY LocalsTypes DEF NetInv, TypeOK
  <1>1. /\ rules' \in [Pod -> [Rule -> Nat]] /\ routes' \in [Pod -> SUBSET Route]
        /\ neighbours' \in [Pod -> SUBSET Neighbour]
        /\ \A q \in Pod \ {p} :
             rules'[q] = rules[q] /\ routes'[q] = routes[q] /\ neighbours'[q] = neighbours[q]
        /\ OneRulePerClient' /\ OneNeighbour'
    <2>1. CASE Works(c, p) /\ Effect(c, p) BY <2>1, CommandKeeps
    <2>2. CASE UNCHANGED net
      <3>1. OneRulePerClient' /\ OneNeighbour'
        BY <2>2 DEF NetInv, OneRulePerClient, OneNeighbour, net, SameKey
      <3> QED BY <1>0, <2>2, <3>1 DEF net
    <2> QED BY <2>1, <2>2
  <1>2. ASSUME agent' \in [Node -> Locals] PROVE TypeOK'
    <2>1. faults' \in 0 .. MaxFaults
      <3>1. faults \in 0 .. MaxFaults BY DEF NetInv, TypeOK
      <3> QED BY <3>1, NetAgentAssumption DEF Fault
    <2> QED BY <1>1, <1>2, <2>1 DEF NetInv, TypeOK, vmi
  <1>3. place[p] = n /\ \A q \in b.todo : place[q] = n BY DEF NetInv, PlaceInv
  <1>4. ASSUME NEW m \in Node \ {n}, agent'[m] = agent[m] PROVE PlaceInv(m)' /\ PlanInv(m)'
    <2>1. agent[m].pc = "run" => agent[m].cur # p BY <1>3 DEF NetInv, PlaceInv
    <2>2. agent[m].cur \in Pod
      <3>1. agent[m] \in Locals BY <1>0
      <3> QED BY <3>1, LocalsTypes
    <2>3. agent[m].pc = "run" =>
              /\ rules'[agent[m].cur] = rules[agent[m].cur]
              /\ routes'[agent[m].cur] = routes[agent[m].cur]
              /\ neighbours'[agent[m].cur] = neighbours[agent[m].cur]
      BY <1>1, <2>1, <2>2
    <2>4. PlaceInv(m) /\ PlanInv(m) BY DEF NetInv
    <2> QED BY <1>4, <2>3, <2>4, OthersKeep DEF vmi
  <1>5. CASE Converged(n, "Failed")
    <2>1. "Failed" \in State BY DEF State
    <2>2. PICK a : Settled(a, n) /\ agent' = [agent EXCEPT ![n] = a]
      BY <1>0, <1>3, <1>5, <2>1, ConvergedSettles
    <2>3. agent' \in [Node -> Locals] /\ agent'[n] = a /\ \A m \in Node \ {n} : agent'[m] = agent[m]
      BY <1>0, <2>2 DEF Settled
    <2>4. PlaceInv(n)' /\ PlanInv(n)' BY <2>2, <2>3, SettledKeeps DEF vmi
    <2> QED BY <1>1, <1>2, <1>4, <2>3, <2>4 DEF NetInv
  <1>6. CASE /\ agent' = [agent EXCEPT ![n].cmds = @ \ {c}]
             /\ Works(c, p) /\ Effect(c, p)
    <2> DEFINE a == [b EXCEPT !.cmds = b.cmds \ {c}]
               rest == b.cmds \ {c}
               d == b.want
    <2>1. agent' = [agent EXCEPT ![n] = a] BY <1>0, <1>6
    <2>2. a \in Locals BY <1>0 DEF Locals
    <2>3. a.pc = "run" /\ a.cmds = rest /\ a.want = d /\ a.todo = b.todo /\ a.cur = p
      BY <1>0 DEF Locals
    <2>4. /\ \A r \in Rule : IsFiniteSet(Left(rest, r))
          /\ p \notin rival => OneRuleWanted(d)
          /\ p \notin copied => RulesCovered(rules'[p], rest, d)
          /\ ~touched[n] => /\ RulesBalance(rules'[p], rest, d)
                            /\ OneWayWanted(d) => /\ RoutesPlanned(routes'[p], rest, d)
                                                  /\ NeighboursPlanned(neighbours'[p], rest, d)
      <3>1. p \notin rival => OneRuleWanted(d) BY DEF NetInv, PlanInv
      <3> QED BY <1>6, <3>1, CommandKeeps
    <2> HIDE DEF a, rest, d
    <2>5. agent' \in [Node -> Locals] /\ agent'[n] = a /\ \A m \in Node \ {n} : agent'[m] = agent[m]
      BY <1>0, <2>1, <2>2
    <2>6. PlaceInv(n)' BY <1>3, <2>3, <2>5 DEF PlaceInv, vmi
    <2>7. PlanInv(n)'
      <3> HIDE DEF p
      <3> QED BY <2>3, <2>4, <2>5 DEF PlanInv, Planned
    <2> QED BY <1>1, <1>2, <1>4, <2>5, <2>6, <2>7 DEF NetInv
  <1> QED BY <1>5, <1>6

-----------------------------------------------------------------------------
(* What happens around the agents.                                         *)

\* Whoever meddles with a pod marks the agent that is at work there, and the pod
\* when a rule is copied.
LEMMA MeddledKeeps ==
    ASSUME NetInv, NEW p \in Pod, Meddled(p) PROVE NetInv'
  <1>0. /\ rules \in [Pod -> [Rule -> Nat]] /\ routes \in [Pod -> SUBSET Route]
        /\ neighbours \in [Pod -> SUBSET Neighbour] /\ touched \in [Node -> BOOLEAN]
        /\ copied \in SUBSET Pod /\ agent \in [Node -> Locals] /\ changes \in 0 .. MaxChanges
    BY DEF NetInv, TypeOK
  <1>1. /\ UNCHANGED <<vmi, agent, macs, written, faults, rival, lost>>
        /\ touched' = [n \in Node |-> touched[n] \/ (agent[n].pc = "run" /\ agent[n].cur = p)]
        /\ changes' \in 0 .. MaxChanges
    BY <1>0, NetAgentAssumption DEF Meddled, Change
  <1>2. /\ rules' \in [Pod -> [Rule -> Nat]] /\ routes' \in [Pod -> SUBSET Route]
        /\ neighbours' \in [Pod -> SUBSET Neighbour]
        /\ copied' \in SUBSET Pod /\ copied \subseteq copied'
        /\ \A q \in Pod \ {p} :
             rules'[q] = rules[q] /\ routes'[q] = routes[q] /\ neighbours'[q] = neighbours[q]
        /\ p \in copied' \/ \A r \in Rule : rules'[p][r] <= rules[p][r]
        /\ neighbours'[p] \subseteq neighbours[p]
    <2>1. CASE \E r \in Rule : rules[p][r] > 0 /\ rules' = [rules EXCEPT ![p][r] = @ - 1]
                               /\ UNCHANGED <<copied, routes, neighbours>>
      <3>1. PICK r \in Rule : rules[p][r] > 0 /\ rules' = [rules EXCEPT ![p][r] = @ - 1]
                              /\ UNCHANGED <<copied, routes, neighbours>>
        BY <2>1
      <3>2. rules[p][r] \in Nat /\ rules[p] \in [Rule -> Nat] BY <1>0
      <3>3. [rules[p] EXCEPT ![r] = @ - 1] \in [Rule -> Nat] BY <3>1, <3>2
      <3>4. rules' = [rules EXCEPT ![p] = [rules[p] EXCEPT ![r] = @ - 1]] BY <1>0, <3>1
      <3>5. \A x \in Rule : rules'[p][x] <= rules[p][x] BY <1>0, <3>2, <3>4
      <3> QED BY <1>0, <3>1, <3>3, <3>4, <3>5
    <2>2. CASE \E r \in Rule : rules[p][r] > 0 /\ rules' = [rules EXCEPT ![p][r] = @ + 1]
                               /\ copied' = copied \cup {p} /\ UNCHANGED <<routes, neighbours>>
      <3>1. PICK r \in Rule : rules' = [rules EXCEPT ![p][r] = @ + 1]
                              /\ copied' = copied \cup {p} /\ UNCHANGED <<routes, neighbours>>
        BY <2>2
      <3>2. rules[p][r] \in Nat /\ rules[p] \in [Rule -> Nat] BY <1>0
      <3>3. [rules[p] EXCEPT ![r] = @ + 1] \in [Rule -> Nat] BY <3>2
      <3>4. rules' = [rules EXCEPT ![p] = [rules[p] EXCEPT ![r] = @ + 1]] BY <1>0, <3>1
      <3> QED BY <1>0, <3>1, <3>3, <3>4
    <2>3. CASE \E r \in routes[p] : routes' = [routes EXCEPT ![p] = @ \ {r}]
                                    /\ UNCHANGED <<rules, neighbours, copied>>
      <3>1. \A r \in Rule : rules[p][r] \in Nat BY <1>0
      <3> QED BY <1>0, <2>3, <3>1
    <2>4. CASE \E a \in neighbours[p] : neighbours' = [neighbours EXCEPT ![p] = @ \ {a}]
                                        /\ UNCHANGED <<rules, routes, copied>>
      <3>1. \A r \in Rule : rules[p][r] \in Nat BY <1>0
      <3> QED BY <1>0, <2>4, <3>1
    <2> QED BY <2>1, <2>2, <2>3, <2>4 DEF Meddled
  <1>3. TypeOK' BY <1>0, <1>1, <1>2 DEF NetInv, TypeOK, vmi
  <1>4. OneNeighbour'
    <2>1. \A q \in Pod : \A x, y \in neighbours'[q] : SameKey(x, y) => x = y
      BY <1>2 DEF NetInv, OneNeighbour
    <2> QED BY <2>1 DEF OneNeighbour, SameKey
  <1>5. OneRulePerClient'
    <2> SUFFICES ASSUME NEW q \in Pod, q \notin copied' \cup rival', NEW r \in Rule, NEW s \in Rule,
                        rules'[q][r] > 0, rules'[q][s] > 0,
                        r.interface = s.interface, r.client = s.client
                 PROVE  r = s
      BY DEF OneRulePerClient
    <2>1. rules'[q][r] <= rules[q][r] /\ rules'[q][s] <= rules[q][s]
      <3>1. \A x \in Rule : rules[q][x] \in Nat BY <1>0
      <3> QED BY <1>2, <3>1
    <2>2. rules[q][r] \in Nat /\ rules[q][s] \in Nat /\ rules'[q][r] \in Nat /\ rules'[q][s] \in Nat
      BY <1>0, <1>2
    <2>3. rules[q][r] > 0 /\ rules[q][s] > 0 BY <2>1, <2>2
    <2> QED BY <1>1, <1>2, <2>3 DEF NetInv, OneRulePerClient
  <1>6. ASSUME NEW n \in Node PROVE PlaceInv(n)' /\ PlanInv(n)'
    <2>1. agent[n].cur \in Pod
      <3>1. agent[n] \in Locals BY <1>0
      <3> QED BY <3>1, LocalsTypes
    <2>2. CASE ~(agent[n].pc = "run" /\ agent[n].cur = p)
      <3>1. touched[n] => touched'[n] BY <1>0, <1>1
      <3> QED BY <1>1, <1>2, <2>1, <2>2, <3>1, OthersKeep DEF NetInv, vmi
    <2>3. CASE agent[n].pc = "run" /\ agent[n].cur = p
      <3> DEFINE cmds == agent[n].cmds
                 d == agent[n].want
      <3>1. touched'[n] /\ agent' = agent BY <1>0, <1>1, <2>3
      <3>2. /\ \A r \in Rule : IsFiniteSet(Left(cmds, r))
            /\ p \notin rival' => OneRuleWanted(d)
            /\ p \notin copied => RulesCovered(rules[p], cmds, d)
        BY <1>1, <2>3 DEF NetInv, PlanInv
      <3>3. p \notin copied' => RulesCovered(rules'[p], cmds, d)
        <4> SUFFICES ASSUME p \notin copied', NEW r \in Rule
                     PROVE  rules'[p][r] + Coming(cmds, r) <= Cardinality(Left(cmds, r)) + Wanted(d, r)
          BY DEF RulesCovered
        <4>1. rules[p][r] + Coming(cmds, r) <= Cardinality(Left(cmds, r)) + Wanted(d, r)
          BY <1>2, <3>2 DEF RulesCovered
        <4>2. rules'[p][r] <= rules[p][r] BY <1>2
        <4>3. /\ rules[p][r] \in Nat /\ rules'[p][r] \in Nat /\ Coming(cmds, r) \in Nat
              /\ Wanted(d, r) \in Nat /\ Cardinality(Left(cmds, r)) \in Nat
          <5>1. Cardinality(Left(cmds, r)) \in Nat BY <3>2, FS_CardinalityType
          <5> QED BY <1>0, <1>2, <5>1 DEF Coming, Wanted
        <4> QED BY <4>1, <4>2, <4>3
      <3>4. PlaceInv(n)' BY <1>1, <3>1 DEF NetInv, PlaceInv, vmi
      <3>5. PlanInv(n)' BY <2>3, <3>1, <3>2, <3>3 DEF PlanInv, Planned
      <3> QED BY <3>4, <3>5
    <2> QED BY <2>2, <2>3
  <1> QED BY <1>3, <1>4, <1>5, <1>6 DEF NetInv

LEMMA NetStep == NetInv /\ [Next]_vars => NetInv'
  <1> SUFFICES ASSUME NetInv, [Next]_vars PROVE NetInv' OBVIOUS
  <1>0. TypeOK BY DEF NetInv
  <1>1. ASSUME NEW n \in Node,
               \/ Tick(n) \/ reconcile(n) \/ Visited(n) \/ Report(n) \/ Unsay(n)
               \/ Restart(n) \/ \E p \in Pod : Enter(n, p) \/ EnterFails(n, p)
        PROVE  NetInv'
    <2>1. /\ \E a : Settled(a, n) /\ agent' = [agent EXCEPT ![n] = a]
          /\ UNCHANGED <<config, ip, home, moving, place, live, gw, net, changes, touched, copied, rival>>
          /\ status' \in SUBSET Said /\ macs' \in [Node -> [Gateway -> SUBSET Mac]]
          /\ written' \in [Node -> SUBSET Status] /\ faults' \in 0 .. MaxFaults /\ lost' \in BOOLEAN
      BY <1>1, PassSettles
    <2>2. PICK a : Settled(a, n) /\ agent' = [agent EXCEPT ![n] = a] BY <2>1
    <2>3. agent' \in [Node -> Locals] BY <1>0, <2>2 DEF TypeOK, Settled
    <2>4. TypeOK' BY <1>0, <2>1, <2>3 DEF TypeOK, net
    <2> QED BY <2>1, <2>2, <2>4, AgentMoves
  <1>2. ASSUME NEW n \in Node, Read(n) PROVE NetInv' BY <1>2, ReadKeeps
  <1>3. ASSUME NEW n \in Node, NEW c \in agent[n].cmds, Run(n, c) \/ RunFails(n, c) PROVE NetInv'
    <2>1. CASE Run(n, c) BY <2>1, RunKeeps DEF Run
    <2>2. CASE RunFails(n, c) BY <2>2, RunKeeps DEF RunFails
    <2> QED BY <1>3, <2>1, <2>2
  <1>r. ASSUME NEW n \in Node, RunsOut(n) PROVE NetInv' BY <1>r, RunsOutKeeps
  <1>4. ASSUME NEW n \in Node, NEW g \in Gateway, MacExpires(n, g) PROVE NetInv'
    <2>1. /\ UNCHANGED <<vmi, net, agent, written, faults, changes, touched, copied, rival, lost>>
          /\ macs' \in [Node -> [Gateway -> SUBSET Mac]]
      BY <1>0, <1>4 DEF MacExpires, TypeOK
    <2>2. TypeOK' BY <1>0, <2>1 DEF TypeOK, vmi, net
    <2> QED BY <2>1, <2>2, WorldMoves DEF vmi
  <1>5. ASSUME Edit \/ Readdressed \/ MigrationStarts \/ MigrationEnds \/ \E p \in Pod : PodEnds(p)
        PROVE  NetInv'
    <2>0. /\ config \in Annotation /\ ip \in SUBSET Address /\ home \in Pod
          /\ moving \in {"not yet", "now", "over"} /\ live \in SUBSET Pod
          /\ gw \in [Gateway -> Mac] /\ changes \in 0 .. MaxChanges
      BY <1>0 DEF TypeOK
    <2>c. ASSUME Change PROVE changes' \in 0 .. MaxChanges
      <3>1. MaxChanges \in Nat BY NetAgentAssumption
      <3>2. changes < MaxChanges /\ changes' = changes + 1 BY <2>c DEF Change
      <3>3. changes \in 0 .. MaxChanges BY <1>0 DEF TypeOK
      <3> QED BY <3>1, <3>2, <3>3
    <2>1. /\ UNCHANGED <<status, place, net, agent, macs, written, faults, touched, copied, rival, lost>>
          /\ config' \in Annotation /\ ip' \in SUBSET Address
          /\ home' \in Pod /\ moving' \in {"not yet", "now", "over"} /\ live' \in SUBSET Pod
          /\ gw' \in [Gateway -> Mac] /\ changes' \in 0 .. MaxChanges
      <3>1. CASE Edit BY <2>0, <2>c, <3>1 DEF Edit
      <3>2. CASE Readdressed
        <4>1. gw' \in [Gateway -> Mac] BY <2>0, <3>2 DEF Readdressed
        <4>2. ip' \in SUBSET Address BY <2>0, <3>2 DEF Readdressed
        <4> QED BY <2>0, <2>c, <3>2, <4>1, <4>2 DEF Readdressed
      <3>3. CASE MigrationStarts BY <2>0, <2>c, <3>3 DEF MigrationStarts
      <3>4. CASE MigrationEnds BY <2>0, <3>4 DEF MigrationEnds
      <3>5. CASE \E p \in Pod : PodEnds(p) BY <2>0, <3>5 DEF PodEnds
      <3> QED BY <1>5, <3>1, <3>2, <3>3, <3>4, <3>5
    <2>2. /\ rules' = rules /\ routes' = routes /\ neighbours' = neighbours
          /\ status' = status /\ place' = place /\ agent' = agent /\ macs' = macs
          /\ written' = written /\ faults' = faults /\ touched' = touched
          /\ copied' = copied /\ rival' = rival /\ lost' = lost
      BY <2>1 DEF net
    <2>3. TypeOK' BY <1>0, <2>1, <2>2 DEF TypeOK
    <2> QED BY <2>1, <2>3, WorldMoves
  <1>6. ASSUME NEW p \in Pod, Meddled(p) PROVE NetInv' BY <1>6, MeddledKeeps
  <1>7. CASE UNCHANGED vars
    <2>1. TypeOK' BY <1>0, <1>7 DEF TypeOK, vars, vmi, net
    <2> QED BY <1>7, <2>1, WorldMoves DEF vars, vmi
  <1> QED BY <1>1, <1>2, <1>3, <1>r, <1>4, <1>5, <1>6, <1>7 DEF Next, Pass

LEMMA NetStarts == Init => NetInv
  <1> SUFFICES ASSUME Init PROVE NetInv OBVIOUS
  <1>1. agent \in [Node -> Locals] BY RestingTypes DEF Init
  <1>2. /\ rules \in [Pod -> [Rule -> Nat]] /\ routes \in [Pod -> SUBSET Route]
        /\ neighbours \in [Pod -> SUBSET Neighbour]
        /\ \A p \in Pod : neighbours[p] = {} /\ \A r \in Rule : rules[p][r] = 0
    BY DEF Init
  <1>3. TypeOK
    <2>1. config \in Annotation BY DEF Init, Annotation
    <2>2. ip \in SUBSET Address /\ status \in SUBSET Said BY DEF Init
    <2>3. /\ home \in Pod /\ moving \in {"not yet", "now", "over"} /\ live \in SUBSET Pod
          /\ place \in [Pod -> Node]
      BY NetAgentAssumption DEF Init, Pod
    <2>4. gw \in [Gateway -> Mac] BY NetAgentAssumption DEF Init
    <2>5. macs \in [Node -> [Gateway -> SUBSET Mac]] /\ written \in [Node -> SUBSET Status]
      BY DEF Init
    <2>6. faults \in 0 .. MaxFaults /\ changes \in 0 .. MaxChanges
      <3>1. faults = 0 /\ changes = 0 BY DEF Init
      <3>2. MaxFaults \in Nat /\ MaxChanges \in Nat BY NetAgentAssumption
      <3> QED BY <3>1, <3>2
    <2>7. /\ touched \in [Node -> BOOLEAN] /\ copied \in SUBSET Pod /\ rival \in SUBSET Pod
          /\ lost \in BOOLEAN
      BY DEF Init
    <2> QED BY <1>1, <1>2, <2>1, <2>2, <2>3, <2>4, <2>5, <2>6, <2>7 DEF TypeOK
  <1>4. OneRulePerClient
    <2> SUFFICES ASSUME NEW p \in Pod, NEW r \in Rule, NEW q \in Rule, rules[p][r] > 0
                 PROVE  r = q
      BY DEF OneRulePerClient
    <2> QED BY <1>2
  <1>5. OneNeighbour BY <1>2 DEF OneNeighbour
  <1>6. ASSUME NEW n \in Node PROVE PlaceInv(n) /\ PlanInv(n)
    <2>1. agent[n] = Resting BY DEF Init
    <2>2. Resting.todo = {} /\ Resting.pc = "idle" /\ Resting.want = {} BY DEF Resting
    <2>3. PlaceInv(n) BY <2>1, <2>2 DEF PlaceInv
    <2>4. PlanInv(n) BY <2>1, <2>2 DEF PlanInv
    <2> QED BY <2>3, <2>4
  <1> QED BY <1>3, <1>4, <1>5, <1>6 DEF NetInv

-----------------------------------------------------------------------------
(* Theorems.                                                               *)

\* The invariant, for any number of nodes, interfaces and settings, and however
\* often requests, commands and agents fail and pods are meddled with.
THEOREM NetInvariant == Spec => []NetInv
  BY NetStarts, NetStep, PTL DEF Spec

\* The state of the agents and the pods has its type; in particular no rule is
\* ever removed that is not there.
THEOREM NetTypeCorrect == Spec => []TypeOK
  <1>1. NetInv => TypeOK BY DEF NetInv
  <1> QED BY <1>1, NetInvariant, PTL

\* No pod has two different rules for one client range of an interface, at any
\* point of a pass and after any failure, unless somebody copied one by hand or a
\* setting asked for both and none that does not has been applied since
\* (commands, converge).
THEOREM RulesNeverClash == Spec => []OneRulePerClient
  <1>1. NetInv => OneRulePerClient BY DEF NetInv
  <1> QED BY <1>1, NetInvariant, PTL

\* When the last command of a pass has been run, the pod has exactly the rules
\* that are wanted, whatever it held before and whatever the setting, and exactly
\* the routes and neighbours where the setting asks for one of them at a time
\* (plan::commands, converge).
THEOREM AppliedMeansExact == Spec => []AppliedIsExact
  <1>1. NetInv => AppliedIsExact
    <2> SUFFICES ASSUME NetInv, NEW n \in Node,
                        agent[n].pc = "run", agent[n].cmds = {}, ~touched[n]
                 PROVE  /\ RulesExact(agent[n].cur, agent[n].want)
                        /\ OneWayWanted(agent[n].want) => WaysExact(agent[n].cur, agent[n].want)
      BY DEF AppliedIsExact
    <2> DEFINE p == agent[n].cur
               d == agent[n].want
    <2>1. /\ RulesBalance(rules[p], {}, d)
          /\ OneWayWanted(d) => /\ RoutesPlanned(routes[p], {}, d)
                                /\ NeighboursPlanned(neighbours[p], {}, d)
      BY DEF NetInv, PlanInv, Planned
    <2>2. rules[p] \in [Rule -> Nat]
      <3>1. agent[n] \in Locals /\ rules \in [Pod -> [Rule -> Nat]] BY DEF NetInv, TypeOK
      <3> QED BY <3>1, LocalsTypes
    <2> HIDE DEF p, d
    <2>3. RulesExact(p, d) /\ (OneWayWanted(d) => WaysExact(p, d)) BY <2>1, <2>2, PlanIsDone
    <2> QED BY <2>3 DEF p, d
  <1> QED BY <1>1, NetInvariant, PTL
=============================================================================
