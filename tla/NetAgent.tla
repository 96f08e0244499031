------------------------------ MODULE NetAgent ------------------------------
(***************************************************************************)
(* The node agents of src/netagent/: each lists the VM instances every few *)
(* seconds and brings the launcher pods of its node to the NAT rules,      *)
(* routes and neighbours that an instance's annotation asks for.           *)
(*                                                                         *)
(* One VM instance, which may live-migrate once, from the pod "old" to the *)
(* pod "new", on another node or on the same one. A pass is a chain of     *)
(* awaits: the list, the reads, every command and the PATCH of the status  *)
(* are steps of their own.                                                 *)
(***************************************************************************)
EXTENDS Integers

CONSTANTS Node,
          Interface,   \* the VM's interfaces; the bridge of one is named by it
          Bridged,     \* those that have a pod interface and a bridge
          Client,      \* client ranges, canonical
          Host,        \* those that are single addresses (/32)
          Everywhere,  \* the range of every address (0.0.0.0/0), if it is among them
          Address,     \* IPv4 addresses of the guest
          Gateway,     \* addresses clients may be rewritten to
          Mac,
          Config,      \* the settings people write: sets of entries
          Place,       \* the nodes the two pods may be on
          FirstMac,    \* what the gateways have until one is replaced
          MaxFaults,   \* requests, commands and processes that fail
          MaxChanges   \* what people and the cluster change

Pod == {"old", "new"}
auto == "auto"

\* The annotation: not there, not parsed, or a list of entries (plan::parse).
Absent == [kind |-> "absent", entries |-> {}]
Bad == [kind |-> "bad", entries |-> {}]
Set(entries) == [kind |-> "set", entries |-> entries]
Annotation == {Absent, Bad} \cup {Set(c) : c \in Config}

Entry == [interface : Interface, clients : SUBSET Client, guest : Address \cup {auto},
          snat : Gateway, mac : Mac \cup {auto}, enabled : BOOLEAN]

\* `Resolved`, and the objects in a pod's network namespace.
Resolved == [interface : Interface, clients : SUBSET Client, guest : Address,
             snat : Gateway, mac : Mac]
Rule == [interface : Interface, client : Client, guest : Address, snat : Gateway]
Route == [dst : Client, via : Gateway, dev : Interface]
Neighbour == [addr : Gateway, mac : Mac, dev : Interface]

\* A setting is any set of entries, several for one interface or of one range
\* included. (The order they are listed in decides nothing but which of several
\* entries for an interface the status shows.)
ASSUME NetAgentAssumption ==
    /\ Bridged \subseteq Interface /\ Host \subseteq Client /\ Everywhere \subseteq Client
    /\ Config \subseteq SUBSET Entry
    /\ Place \subseteq [Pod -> Node] /\ FirstMac \in Mac
    /\ MaxFaults \in Nat /\ MaxChanges \in Nat

VARIABLES
    config,       \* the annotation
    status,       \* the status annotation: a set of at most one
    ip,           \* the guest's addresses that the VMI reports: at most one
    home,         \* the pod the VM runs in
    moving,       \* whether it is migrating to the pod "new": "not yet", "now", "over"
    place,        \* place[p]: the node of pod p
    live,         \* pods with a QEMU process
    gw,           \* gw[g]: the MAC of g on the LAN
    rules,        \* rules[p][r]: the copies of rule r in pod p
    routes,       \* routes[p]: those with the agent's protocol number
    neighbours,   \* neighbours[p]: the permanent ones on its bridges
    agent,        \* agent[n]: where the agent of node n is in its pass
    macs,         \* macs[n][g]: the MAC it remembers of g
    written,      \* written[n]: the status it wrote last
    faults, changes,
    touched,      \* touched[n]: the pod changed under it since it was read
    copied,       \* pods somebody has applied a rule in by hand
    rival,        \* pods that may hold rival rules because a setting asked for them
    lost          \* a status PATCH failed, or came from a node the VM had left

vmi == <<config, status, ip, home, moving, place, live, gw>>
net == <<rules, routes, neighbours>>
vars == <<vmi, net, agent, macs, written, faults, changes, touched, copied, rival, lost>>

State == {"none", "Failed", "Pending", "Applied", "Disabled"}
Outcome == [state : State, detail : SUBSET Resolved]
Command ==
    [op : {"rule-del"}, arg : Rule, nth : Nat \ {0}]
    \cup [op : {"rule-add"}, arg : Rule, nth : {0}]
    \cup [op : {"route-del", "route-replace"}, arg : Route, nth : {0}]
    \cup [op : {"neigh-del", "neigh-replace"}, arg : Neighbour, nth : {0}]
Status == [state : State, rows : [Interface -> Outcome]]
Said == [node : Node, what : Status]
NoRows == [i \in Interface |-> [state |-> "none", detail |-> {}]]

\* The locals of a pass: the VMI as it was listed (with `has_status` and
\* `owner`), the pods still to visit, the pod it is in, `desired` for that pod,
\* the commands still to run, the outcomes so far and the status to report.
Locals == [pc : {"idle", "seen", "pod", "read", "run", "report", "unsay"},
           seen : [config : Annotation,
                   told : BOOLEAN, owner : BOOLEAN, ip : SUBSET Address],
           todo : SUBSET Pod, cur : Pod, want : SUBSET Resolved, cmds : SUBSET Command,
           out : [Interface -> Outcome], verdict : SUBSET Status]

Resting == [pc |-> "idle",
            seen |-> [config |-> Absent, told |-> FALSE, owner |-> FALSE, ip |-> {}],
            todo |-> {}, cur |-> "old", want |-> {}, cmds |-> {},
            out |-> NoRows, verdict |-> {}]

TypeOK ==
    /\ config \in Annotation
    /\ ip \in SUBSET Address /\ status \in SUBSET Said
    /\ home \in Pod /\ moving \in {"not yet", "now", "over"} /\ place \in [Pod -> Node]
    /\ live \in SUBSET Pod
    /\ gw \in [Gateway -> Mac]
    /\ rules \in [Pod -> [Rule -> Nat]]
    /\ routes \in [Pod -> SUBSET Route]
    /\ neighbours \in [Pod -> SUBSET Neighbour]
    /\ agent \in [Node -> Locals]
    /\ macs \in [Node -> [Gateway -> SUBSET Mac]]
    /\ written \in [Node -> SUBSET Status]
    /\ faults \in 0 .. MaxFaults /\ changes \in 0 .. MaxChanges
    /\ touched \in [Node -> BOOLEAN] /\ copied \in SUBSET Pod /\ rival \in SUBSET Pod /\ lost \in BOOLEAN

Init ==
    /\ config \in {Set(c) : c \in Config} /\ status = {}
    /\ ip \in {{}} \cup {{a} : a \in Address}
    /\ home = "old" /\ moving = "not yet" /\ live = {"old"}
    /\ place \in Place
    /\ gw = [g \in Gateway |-> FirstMac]
    /\ rules = [p \in Pod |-> [r \in Rule |-> 0]]
    /\ routes = [p \in Pod |-> {}]
    /\ neighbours = [p \in Pod |-> {}]
    /\ agent = [n \in Node |-> Resting]
    /\ macs = [n \in Node |-> [g \in Gateway |-> {}]]
    /\ written = [n \in Node |-> {}]
    /\ faults = 0 /\ changes = 0
    /\ touched = [n \in Node |-> FALSE] /\ copied = {} /\ rival = {} /\ lost = FALSE

-----------------------------------------------------------------------------
(* plan.rs: the commands that turn a pod into what is desired.             *)

WantRules(d) ==
    UNION {{[interface |-> r.interface, client |-> c, guest |-> r.guest, snat |-> r.snat] :
              c \in r.clients} : r \in d}
WantRoutes(d) ==
    UNION {{[dst |-> c, via |-> r.snat, dev |-> r.interface] : c \in r.clients} : r \in d}
WantNeighbours(d) ==
    {[addr |-> r.snat, mac |-> r.mac, dev |-> r.interface] : r \in d}

Cmd(op, arg, nth) == [op |-> op, arg |-> arg, nth |-> nth]

\* Mutant: a second copy of a wanted rule is left alone.
SurplusOnce(copies, wanted) == IF wanted THEN 0 ELSE copies

\* Each wanted rule may stay once.
Surplus(copies, wanted) == IF wanted /\ copies > 0 THEN copies - 1 ELSE copies

\* What is there is told by the text `iptables` and `ip` print. A rule for every
\* address is printed without its range, and a route to it as "default"; a route
\* to a single address without its length. None of these is ever found, so each
\* pass removes it and puts it back.
Misprinted == Host \cup Everywhere
FoundRules(wanted) == {r \in wanted : r.client \notin Everywhere}
Found(have, wanted) == {r \in have \cap wanted : r.dst \notin Misprinted}

\* A neighbour that only changed its MAC is replaced, not removed.
commands(d, p) ==
    LET wr == WantRules(d)
        wt == WantRoutes(d)
        wn == WantNeighbours(d)
        fr == FoundRules(wr)
        same == Found(routes[p], wt)
        surplus == {{Cmd("rule-del", r, k) : k \in 1 .. Surplus(rules[p][r], r \in fr)} : r \in Rule}
    IN  (UNION surplus)
        \cup {Cmd("route-del", r, 0) : r \in routes[p] \ same}
        \cup {Cmd("neigh-del", a, 0) : a \in
                {x \in neighbours[p] \ wn : \A b \in wn : b.addr # x.addr \/ b.dev # x.dev}}
        \cup {Cmd("neigh-replace", a, 0) : a \in wn \ neighbours[p]}
        \cup {Cmd("route-replace", r, 0) : r \in wt \ same}
        \cup {Cmd("rule-add", r, 0) : r \in {q \in wr : rules[p][q] = 0 \/ q \notin fr}}

\* Mutant: what is new goes in before what is old goes out.
StageAddFirst(op) ==
    CASE op = "rule-add" -> 0 [] op = "rule-del" -> 1 [] op = "route-del" -> 2
      [] op = "neigh-del" -> 3 [] op = "neigh-replace" -> 4 [] op = "route-replace" -> 5

\* The order the commands are pushed in; within a stage it does not matter.
Stage(op) ==
    CASE op = "rule-del" -> 1 [] op = "route-del" -> 2 [] op = "neigh-del" -> 3
      [] op = "neigh-replace" -> 4 [] op = "route-replace" -> 5 [] op = "rule-add" -> 6

Ready(todo) == {c \in todo : \A d \in todo : Stage(c.op) <= Stage(d.op)}

\* Mutant: a command's exit code is not looked at.
WorksAnyway(c, p) == p \in live

\* What iptables and ip do with one command in pod p; a removal needs the object.
Works(c, p) ==
    /\ p \in live
    /\ c.op = "rule-del" => rules[p][c.arg] > 0
    /\ c.op = "route-del" => c.arg \in routes[p]
    /\ c.op = "neigh-del" => \E a \in neighbours[p] : a.addr = c.arg.addr /\ a.dev = c.arg.dev

\* The rules, routes and neighbours of a pod after c. A replacement takes the
\* place of what has its destination, or its address and device.
RulesAfter(c, have) ==
    CASE c.op = "rule-del" -> [have EXCEPT ![c.arg] = @ - 1]
      [] c.op = "rule-add" -> [have EXCEPT ![c.arg] = @ + 1]
      [] OTHER -> have

RoutesAfter(c, have) ==
    CASE c.op = "route-del" -> have \ {c.arg}
      [] c.op = "route-replace" -> {r \in have : r.dst # c.arg.dst} \cup {c.arg}
      [] OTHER -> have

NeighboursAfter(c, have) ==
    LET others == {a \in have : a.addr # c.arg.addr \/ a.dev # c.arg.dev}
    IN  CASE c.op = "neigh-del" -> others
          [] c.op = "neigh-replace" -> others \cup {c.arg}
          [] OTHER -> have

Effect(c, p) ==
    /\ rules' = [rules EXCEPT ![p] = RulesAfter(c, @)]
    /\ routes' = [routes EXCEPT ![p] = RoutesAfter(c, @)]
    /\ neighbours' = [neighbours EXCEPT ![p] = NeighboursAfter(c, @)]

-----------------------------------------------------------------------------
(* mod.rs: one agent's pass.                                               *)

Goto(n, where) == agent' = [agent EXCEPT ![n].pc = where]
Rest(n) == agent' = [agent EXCEPT ![n] = Resting]
Fault == faults < MaxFaults /\ faults' = faults + 1

\* `report` is for the owner only; the other agent's pass is over.
Say(n, st) ==
    IF agent[n].seen.owner
      THEN agent' = [agent EXCEPT ![n] = [Resting EXCEPT
                        !.pc = "report", !.seen = agent[n].seen, !.verdict = {st}]]
      ELSE Rest(n)

\* Mutant: only the node the VM runs on is looked after.
TickOwner(n) ==
    /\ agent[n].pc = "idle"
    /\ IF place[home] = n
         THEN /\ agent' = [agent EXCEPT ![n].pc = "seen",
                    ![n].seen = [config |-> config, told |-> status # {}, owner |-> TRUE, ip |-> ip]]
              /\ UNCHANGED written
         ELSE /\ written' = [written EXCEPT ![n] = {}]
              /\ UNCHANGED agent
    /\ UNCHANGED <<vmi, net, macs, faults, changes, touched, copied, rival, lost>>

\* tick: the list has been answered. An instance that is not of this node, nor
\* coming to it, is forgotten. (A list that fails changes nothing.)
Tick(n) ==
    /\ agent[n].pc = "idle"
    /\ IF place[home] = n \/ (moving = "now" /\ place["new"] = n)
         THEN /\ agent' = [agent EXCEPT ![n].pc = "seen",
                    ![n].seen = [config |-> config, told |-> status # {},
                                 owner |-> place[home] = n, ip |-> ip]]
              /\ UNCHANGED written
         ELSE /\ written' = [written EXCEPT ![n] = {}]
              /\ UNCHANGED agent
    /\ UNCHANGED <<vmi, net, macs, faults, changes, touched, copied, rival, lost>>

qemu_pids(n) == {p \in live : place[p] = n}

reconcile(n) ==
    LET s == agent[n].seen IN
    /\ agent[n].pc = "seen"
    /\ \/ /\ s.config = Absent /\ ~(s.told /\ s.owner)
          /\ Rest(n)
       \/ /\ s.config = Bad
          /\ Say(n, [state |-> "Failed", rows |-> NoRows])
       \/ /\ s.config \notin {Absent, Bad} /\ qemu_pids(n) = {}
          /\ Say(n, [state |-> "Pending", rows |-> NoRows])
       \/ /\ \/ s.config = Absent /\ s.told /\ s.owner
             \/ s.config \notin {Absent, Bad} /\ qemu_pids(n) # {}
          /\ agent' = [agent EXCEPT ![n].pc = "pod", ![n].todo = qemu_pids(n)]
    /\ UNCHANGED <<vmi, net, macs, written, faults, changes, touched, copied, rival, lost>>

Rank(st) == CASE st = "Failed" -> 3 [] st = "Pending" -> 2 [] st = "Applied" -> 1
              [] st = "Disabled" -> 0 [] st = "none" -> -1

\* One row per interface; with several entries or pods the worse outcome wins.
Worse(a, b) == IF Rank(b.state) > Rank(a.state) THEN b ELSE a
Nothing == [state |-> "none", detail |-> {}]
WorstOf(outcomes) ==
    CHOOSE o \in outcomes \cup {Nothing} :
        \A q \in outcomes \cup {Nothing} : Rank(q.state) <= Rank(o.state)

\* The MAC an entry resolves to, given the ones at hand; none at all is an error.
MacOf(e, known) == IF e.mac = auto THEN known[e.snat] ELSE {e.mac}
GuestOf(e, seenIp) == IF e.guest = auto THEN seenIp ELSE {e.guest}

\* resolve: what became of entry e, Disabled included. A result with a detail
\* is one to converge to.
Resolve(e, s, known) ==
    CASE ~e.enabled -> [state |-> "Disabled", detail |-> {}]
      [] e.enabled /\ e.interface \notin Bridged -> [state |-> "Failed", detail |-> {}]
      [] e.enabled /\ e.interface \in Bridged /\ GuestOf(e, s.ip) = {} ->
            [state |-> "Pending", detail |-> {}]
      [] e.enabled /\ e.interface \in Bridged /\ GuestOf(e, s.ip) # {} /\ MacOf(e, known) = {} ->
            [state |-> "Failed", detail |-> {}]
      [] OTHER -> [state |-> "none",
                   detail |-> {[interface |-> e.interface, clients |-> e.clients, snat |-> e.snat,
                                guest |-> CHOOSE a \in GuestOf(e, s.ip) : TRUE,
                                mac |-> CHOOSE m \in MacOf(e, known) : TRUE]}]

\* The addresses whose MAC is looked up for this setting: `auto`, enabled, and
\* not refused before.
Asked(entries, s) ==
    {e.snat : e \in {e \in entries : /\ e.enabled /\ e.interface \in Bridged
                                     /\ e.mac = auto /\ GuestOf(e, s.ip) # {}}}

\* The agent at pod p, its entries resolved with the MACs that are known.
Entered(a, p, known) ==
    LET entries == a.seen.config.entries
        res == [e \in entries |-> Resolve(e, a.seen, known)]
    IN  [a EXCEPT !.pc = "read", !.cur = p, !.todo = a.todo \ {p},
            !.want = UNION {res[e].detail : e \in entries},
            !.out = [i \in Interface |->
                Worse(a.out[i], WorstOf({res[e] : e \in {e \in entries : e.interface = i}}))]]

\* apply, for the next pod: its bridges are read and the entries resolved. For a
\* setting that was removed nothing is desired.
Enter(n, p) ==
    LET s == agent[n].seen
        asked == {g \in Asked(s.config.entries, s) : macs[n][g] = {}}
    IN
    /\ agent[n].pc = "pod" /\ p \in agent[n].todo
    /\ \E answered \in SUBSET asked :
          LET known == [g \in Gateway |-> IF g \in answered THEN {gw[g]} ELSE macs[n][g]] IN
          /\ IF answered = asked THEN UNCHANGED faults ELSE Fault
          /\ macs' = [macs EXCEPT ![n] = known]
          /\ agent' = [agent EXCEPT ![n] = Entered(agent[n], p, known)]
    /\ s.config # Absent => p \in live
    /\ UNCHANGED <<vmi, net, written, changes, touched, copied, rival, lost>>

\* The bridges could not be read: the whole setting has failed.
EnterFails(n, p) ==
    /\ agent[n].pc = "pod" /\ p \in agent[n].todo /\ agent[n].seen.config # Absent
    /\ IF p \in live THEN Fault ELSE UNCHANGED faults
    /\ Say(n, [state |-> "Failed", rows |-> NoRows])
    /\ UNCHANGED <<vmi, net, macs, written, changes, touched, copied, rival, lost>>

\* converge is over: its result goes to every desired interface. (A cleanup that
\* fails is only logged. Of several entries for an interface the code shows the
\* first, the model all.)
Converged(n, st) ==
    LET a == agent[n] IN
    agent' = [agent EXCEPT ![n] = [a EXCEPT
        !.pc = "pod", !.want = {}, !.cmds = {},
        !.out = [i \in Interface |->
            IF \E r \in a.want : r.interface = i
              THEN Worse(a.out[i], [state |-> st, detail |-> {r \in a.want : r.interface = i}])
              ELSE a.out[i]]]]

\* A setting may ask for several rules of one range and interface, for several
\* routes to one range, or for several MACs of one gateway.
OneRuleWanted(d) ==
    \A r, q \in WantRules(d) : r.interface = q.interface /\ r.client = q.client => r = q
OneWayWanted(d) ==
    /\ \A x, y \in WantRoutes(d) : x.dst = y.dst => x = y
    /\ \A x, y \in WantNeighbours(d) : x.addr = y.addr /\ x.dev = y.dev => x = y

\* host::current and plan::commands. The rules, the routes and the neighbours are
\* read one after the other; others change one kind at a time, so that such steps
\* can be moved out from between the reads, to before them what was still to be
\* read and to after them what had been: the three are one step.
Read(n) ==
    LET p == agent[n].cur IN
    /\ agent[n].pc = "read"
    /\ \/ /\ p \in live /\ UNCHANGED faults
          /\ agent' = [agent EXCEPT ![n].pc = "run", ![n].cmds = commands(agent[n].want, p)]
          /\ rival' = (IF OneRuleWanted(agent[n].want) THEN rival ELSE rival \cup {p})
       \/ /\ IF p \in live THEN Fault ELSE UNCHANGED faults
          /\ Converged(n, "Failed")
          /\ UNCHANGED rival
    /\ touched' = [touched EXCEPT ![n] = FALSE]
    /\ UNCHANGED <<vmi, net, macs, written, changes, copied, lost>>

Run(n, c) ==
    /\ agent[n].pc = "run" /\ c \in Ready(agent[n].cmds)
    /\ Works(c, agent[n].cur)
    /\ Effect(c, agent[n].cur)
    /\ agent' = [agent EXCEPT ![n].cmds = @ \ {c}]
    /\ UNCHANGED <<vmi, macs, written, faults, changes, touched, copied, rival, lost>>

\* A command that fails, or times out having taken effect, ends the pass of the
\* pod; what follows it is not run.
RunFails(n, c) ==
    /\ agent[n].pc = "run" /\ c \in Ready(agent[n].cmds)
    /\ \/ ~Works(c, agent[n].cur) /\ UNCHANGED <<net, faults>>
       \/ Works(c, agent[n].cur) /\ Fault /\ (UNCHANGED net \/ Effect(c, agent[n].cur))
    /\ Converged(n, "Failed")
    /\ UNCHANGED <<vmi, macs, written, changes, touched, copied, rival, lost>>

RunsOut(n) ==
    /\ agent[n].pc = "run" /\ agent[n].cmds = {}
    /\ Converged(n, "Applied")
    /\ rival' = (IF OneRuleWanted(agent[n].want) /\ ~touched[n] THEN rival \ {agent[n].cur} ELSE rival)
    /\ UNCHANGED <<vmi, net, macs, written, faults, changes, touched, copied, lost>>

\* The state of the whole: the worst of the rows, Disabled when there is none.
Overall(rows) ==
    LET there == {i \in Interface : rows[i].state # "none"} IN
    IF there = {} THEN "Disabled"
    ELSE rows[CHOOSE i \in there : \A j \in there : Rank(rows[j].state) <= Rank(rows[i].state)].state

Visited(n) ==
    /\ agent[n].pc = "pod" /\ agent[n].todo = {}
    /\ IF agent[n].seen.config = Absent
         THEN Goto(n, "unsay")
         ELSE Say(n, [state |-> Overall(agent[n].out), rows |-> agent[n].out])
    /\ UNCHANGED <<vmi, net, macs, written, faults, changes, touched, copied, rival, lost>>

\* patch_status: a PATCH that fails is only logged.
Patch(n, value) ==
    \/ /\ status' = value /\ UNCHANGED faults
       /\ lost' = (lost \/ place[home] # n)
    \/ Fault /\ lost' = TRUE /\ UNCHANGED status

\* Mutant: a status is written where there is none.
ReportMissing(n) ==
    /\ agent[n].pc = "report"
    /\ \/ agent[n].seen.told /\ UNCHANGED <<status, written, faults, lost>>
       \/ /\ ~agent[n].seen.told
          /\ Patch(n, {[node |-> n, what |-> v] : v \in agent[n].verdict})
          /\ written' = [written EXCEPT ![n] = agent[n].verdict]
    /\ Rest(n)
    /\ UNCHANGED <<config, ip, home, moving, place, live, gw, net, macs, changes, touched, copied, rival>>

\* report: skipped when only counters changed and the list showed a status; once
\* a minute a counter that moved has it written all the same. What was written
\* is remembered whether or not the PATCH succeeded.
Report(n) ==
    /\ agent[n].pc = "report"
    /\ \/ /\ written[n] = agent[n].verdict /\ agent[n].seen.told
          /\ UNCHANGED <<status, written, faults, lost>>
       \/ /\ Patch(n, {[node |-> n, what |-> v] : v \in agent[n].verdict})
          /\ written' = [written EXCEPT ![n] = agent[n].verdict]
    /\ Rest(n)
    /\ UNCHANGED <<config, ip, home, moving, place, live, gw, net, macs, changes, touched, copied, rival>>

Unsay(n) ==
    /\ agent[n].pc = "unsay"
    /\ Patch(n, {})
    /\ Rest(n)
    /\ UNCHANGED <<config, ip, home, moving, place, live, gw, net, macs, written, changes, touched, copied, rival>>

\* A remembered MAC is five minutes old.
MacExpires(n, g) ==
    /\ macs[n][g] # {}
    /\ macs' = [macs EXCEPT ![n][g] = {}]
    /\ UNCHANGED <<vmi, net, agent, written, faults, changes, touched, copied, rival, lost>>

\* The agent's process ends and is started again, between two commands.
Restart(n) ==
    /\ Fault
    /\ agent[n] # Resting
    /\ Rest(n)
    /\ macs' = [macs EXCEPT ![n] = [g \in Gateway |-> {}]]
    /\ written' = [written EXCEPT ![n] = {}]
    /\ UNCHANGED <<vmi, net, changes, touched, copied, rival, lost>>

-----------------------------------------------------------------------------
(* What happens around the agents.                                         *)

Change == changes < MaxChanges /\ changes' = changes + 1

\* Somebody writes the setting on the instance, or removes it.
Edit ==
    /\ Change
    /\ config' \in Annotation \ {config}
    /\ UNCHANGED <<status, ip, home, moving, place, live, gw, net, agent, macs, written, faults, touched, copied, rival, lost>>

\* The guest agent reports another address, or the gateway is replaced.
Readdressed ==
    /\ Change
    /\ \/ ip' \in {{a} : a \in Address} \ {ip} /\ UNCHANGED gw
       \/ \E g \in Gateway, m \in Mac : gw[g] # m /\ gw' = [gw EXCEPT ![g] = m] /\ UNCHANGED ip
    /\ UNCHANGED <<config, status, home, moving, place, live, net, agent, macs, written, faults, touched, copied, rival, lost>>

\* Somebody removes an object of the agent's, or applies a rule a second time.
Meddled(p) ==
    /\ Change
    /\ \/ \E r \in Rule : /\ rules[p][r] > 0
                          /\ \/ rules' = [rules EXCEPT ![p][r] = @ - 1] /\ UNCHANGED copied
                             \/ rules' = [rules EXCEPT ![p][r] = @ + 1] /\ copied' = copied \cup {p}
                          /\ UNCHANGED <<routes, neighbours>>
       \/ \E r \in routes[p] : routes' = [routes EXCEPT ![p] = @ \ {r}] /\ UNCHANGED <<rules, neighbours, copied>>
       \/ \E a \in neighbours[p] : neighbours' = [neighbours EXCEPT ![p] = @ \ {a}] /\ UNCHANGED <<rules, routes, copied>>
    /\ touched' = [n \in Node |-> touched[n] \/ (agent[n].pc = "run" /\ agent[n].cur = p)]
    /\ UNCHANGED <<vmi, agent, macs, written, faults, rival, lost>>

MigrationStarts ==
    /\ Change
    /\ moving = "not yet"
    /\ moving' = "now" /\ live' = Pod
    /\ UNCHANGED <<config, status, ip, home, place, gw, net, agent, macs, written, faults, touched, copied, rival, lost>>

\* The guest runs in the new pod, or stays in the old one.
MigrationEnds ==
    /\ moving = "now" /\ moving' = "over"
    /\ home' \in Pod
    /\ UNCHANGED <<config, status, ip, place, live, gw, net, agent, macs, written, faults, changes, touched, copied, rival, lost>>

\* The QEMU process of the pod the guest is not in ends.
PodEnds(p) ==
    /\ p \in live /\ p # home /\ moving = "over"
    /\ live' = live \ {p}
    /\ UNCHANGED <<config, status, ip, home, moving, place, gw, net, agent, macs, written, faults, changes, touched, copied, rival, lost>>

-----------------------------------------------------------------------------
Pass(n) ==
    \/ Tick(n) \/ reconcile(n) \/ Read(n) \/ RunsOut(n) \/ Visited(n) \/ Report(n) \/ Unsay(n)
    \/ \E p \in Pod : Enter(n, p) \/ EnterFails(n, p)
    \/ \E c \in agent[n].cmds : Run(n, c) \/ RunFails(n, c)

Next ==
    \/ \E n \in Node : Pass(n) \/ Restart(n) \/ \E g \in Gateway : MacExpires(n, g)
    \/ Edit \/ Readdressed \/ MigrationStarts \/ MigrationEnds
    \/ \E p \in Pod : Meddled(p) \/ PodEnds(p)

Spec == Init /\ [][Next]_vars

\* The ticker fires again and again, every request and command is answered or
\* times out, and five minutes pass.
Fairness ==
    \A n \in Node : WF_vars(Pass(n)) /\ \A g \in Gateway : WF_vars(MacExpires(n, g))

FairSpec == Spec /\ Fairness

-----------------------------------------------------------------------------
\* No pod ever has two rules of the agent for one client range of an interface
\* that say different things, at any point of a pass and after any failure, but
\* for copies somebody applied by hand: removals come first (plan.rs, commands).
\* A setting that asks for two itself gets them, and once another has been applied
\* they are gone.
OneRulePerClient ==
    \A p \in Pod \ (copied \cup rival) : \A r, q \in Rule :
        /\ rules[p][r] > 0 /\ rules[p][q] > 0
        /\ r.interface = q.interface /\ r.client = q.client
        => r = q

RulesExact(p, d) == \A r \in Rule : rules[p][r] = IF r \in WantRules(d) THEN 1 ELSE 0
WaysExact(p, d) == routes[p] = WantRoutes(d) /\ neighbours[p] = WantNeighbours(d)

\* An interface is called Applied only in a pod that holds exactly what is
\* wanted, each rule once, unless somebody changed the pod since it was read. (Of
\* two routes to one range, which two entries may ask for, a pod holds one.)
AppliedIsExact ==
    \A n \in Node : LET a == agent[n] IN
        a.pc = "run" /\ a.cmds = {} /\ ~touched[n] =>
            /\ RulesExact(a.cur, a.want)
            /\ OneWayWanted(a.want) => WaysExact(a.cur, a.want)

\* What the setting resolves to now, with the guest's and the gateway's addresses.
ResolvedNow(e) == Resolve(e, [ip |-> ip], [g \in Gateway |-> {gw[g]}])
Now == UNION {ResolvedNow(e).detail : e \in config.entries}

Serving == IF moving = "now" THEN Pod ELSE {home}

\* Whatever is deleted, fails or changes, the pod the guest runs in, and the one
\* it is migrating to, end up with what the setting asks for. (What is misprinted
\* is put back in every pass, and so is one after the other of two routes to one
\* range.)
NetSettles ==
    <>[](config \notin {Absent, Bad} => \A p \in Serving :
            /\ \A r \in Rule : \/ rules[p][r] = IF r \in WantRules(Now) THEN 1 ELSE 0
                               \/ r \in WantRules(Now) \ FoundRules(WantRules(Now))
            /\ OneWayWanted(Now) =>
                 /\ {r \in routes[p] : r.dst \notin Misprinted}
                      = {r \in WantRoutes(Now) : r.dst \notin Misprinted}
                 /\ neighbours[p] = WantNeighbours(Now))

\* What the status of each interface should be: the worst of what its entries
\* come to.
Truth == [i \in Interface |->
            LET outcomes == {ResolvedNow(e) : e \in {e \in config.entries : e.interface = i}}
                worst == WorstOf(outcomes)
            IN  IF Rank(worst.state) < Rank("Applied") /\ \E o \in outcomes : o.detail # {}
                THEN "Applied" ELSE worst.state]

\* The status ends up saying what is so, from the node the VM is on, unless a
\* PATCH of it failed or came late from the node the VM had left (report).
StatusSettles ==
    <>[](config \notin {Absent, Bad} /\ ~lost => \E s \in status :
            /\ s.node = place[home]
            /\ \A i \in Interface : s.what.rows[i].state = Truth[i])

\* "the agent then removes its rules": once the setting is removed for good, the
\* pod of a guest that is not migrated ends up with none of the agent's rules.
RemovedIsRemoved ==
    <>[](config = Absent /\ moving = "not yet" => \A r \in Rule : rules[home][r] = 0)
=============================================================================
