------------------------------- MODULE Rollout -------------------------------
(***************************************************************************)
(* What runs where: deploy/render.ts turns the hosts with their roles      *)
(* (deploy/inventory.ts) and a variant into the services of each host, the *)
(* worker and API addresses, the Prometheus targets and the deploy phases. *)
(* Pure operators; hosts are numbers, as node01 is host 1.                 *)
(***************************************************************************)
EXTENDS Integers, Sequences, FiniteSets, SequencesExt

CONSTANT PortBase      \* ENGINE_PORT_BASE, 7070

Roles == {"worker", "api", "nginx", "redis", "monitoring"}

\* The ports of the other services, which share the network of their host.
FixedPorts == {80, 3000, 4000, 6379, 8080, 9090, 9100, 9113, 9464}

\* The configured base keeps both engines of a host clear of them (defaults.env:16).
PortsAssumption ==
  PortBase \in Nat /\ {PortBase, PortBase + 1, PortBase + 10, PortBase + 11} \cap FixedPorts = {}
ASSUME PortsAssumption

Empty == -1            \* API_HOSTS left empty, and WORKERS=all

DefaultRoles(h, count) ==
  CASE h = count - 1 -> {"api", "nginx"}
    [] h = count     -> {"redis", "monitoring"}
    [] OTHER         -> {"worker"}

(* In the order of the inventory. *)
Only(inv, role) ==
  LET Found[h \in 0..Len(inv)] ==
        IF h = 0 THEN <<>> ELSE IF role \in inv[h] THEN Append(Found[h - 1], h) ELSE Found[h - 1]
  IN Found[Len(inv)]

(* API_HOSTS: the last worker hosts become API hosts. *)
ApiHostsFit(inv, env) ==
  LET more == env.apiHosts - Len(Only(inv, "api"))
  IN env.apiHosts # Empty => more >= 0 /\ more < Len(Only(inv, "worker"))

ApplyApiHosts(inv, env) ==
  LET workers == Only(inv, "worker")
      more == IF env.apiHosts = Empty THEN 0 ELSE env.apiHosts - Len(Only(inv, "api"))
      convert == {workers[k] : k \in Len(workers) - more + 1..Len(workers)}
  IN [h \in DOMAIN inv |-> IF h \in convert THEN (inv[h] \ {"worker"}) \cup {"api"} ELSE inv[h]]

(* Host by host; "spread" takes the first slot of every host before any second one. *)
AllSlots(inv, env) ==
  LET hosts == Only(inv, "worker")
      n == Len(hosts)
  IN [k \in 1..n * env.perHost |->
        IF env.placement = "pack"
        THEN [host |-> hosts[((k - 1) \div env.perHost) + 1], slot |-> (k - 1) % env.perHost]
        ELSE [host |-> hosts[((k - 1) % n) + 1], slot |-> (k - 1) \div n]]

WorkerCount(inv, env) == IF env.workers = Empty THEN Len(AllSlots(inv, env)) ELSE env.workers

\* Fault: every slot has the port of the first.
SamePort(slot) == PortBase

Port(slot) == PortBase + slot * 10
AdminPort(slot) == Port(slot) + 1

WorkerSlots(inv, env) == SubSeq(AllSlots(inv, env), 1, WorkerCount(inv, env))

(* What render refuses. *)
Renders(inventory, env) ==
  /\ ApiHostsFit(inventory, env)
  /\ env.perHost \in 1..2 /\ env.placement \in {"spread", "pack"}
  /\ LET inv == ApplyApiHosts(inventory, env) IN
     /\ WorkerCount(inv, env) \in 1..Len(AllSlots(inv, env))
     /\ Only(inv, "api") # <<>>
     /\ \A role \in {"nginx", "redis", "monitoring"} : Len(Only(inv, role)) = 1

Service(name, host, ports) == [name |-> name, host |-> host, ports |-> ports]

EngineName(slot) == IF slot = 0 THEN "engine-a" ELSE "engine-b"

(* Compose services with the ports they listen on: with host networking they share the host's. *)
ServicesOf(inv, env) ==
  LET ws == WorkerSlots(inv, env)
      On(role, name, ports) == {Service(name, h, ports) : h \in {x \in DOMAIN inv : role \in inv[x]}}
  IN {Service(EngineName(ws[k].slot), ws[k].host, {Port(ws[k].slot), AdminPort(ws[k].slot)}) : k \in DOMAIN ws}
     \cup On("api", "api", {4000, 9464})
     \cup On("nginx", "nginx", {80}) \cup On("nginx", "nginx-exporter", {9113})
     \cup On("redis", "redis", {6379})
     \cup On("monitoring", "prometheus", {9090}) \cup On("monitoring", "grafana", {3000})
     \cup {Service("node-exporter", h, {9100}) : h \in DOMAIN inv}
     \cup {Service("cadvisor", h, {8080}) : h \in DOMAIN inv}

Phase(roles) == IF "nginx" \in roles THEN 3 ELSE IF "api" \in roles THEN 2 ELSE 1

Addresses(ws) == [k \in DOMAIN ws |-> [host |-> ws[k].host, port |-> Port(ws[k].slot)]]
AdminAddresses(ws) == [k \in DOMAIN ws |-> [host |-> ws[k].host, port |-> AdminPort(ws[k].slot)]]
HostPorts(hosts, port) == [k \in DOMAIN hosts |-> [host |-> hosts[k], port |-> port]]

Render(inventory, env) ==
  LET inv == ApplyApiHosts(inventory, env)
      ws == WorkerSlots(inv, env)
      apis == Only(inv, "api")
      every == [h \in DOMAIN inv |-> h]
  IN [services |-> ServicesOf(inv, env),
      engineUrls |-> Addresses(ws),
      apiServers |-> HostPorts(apis, 4000),
      targets |-> AdminAddresses(ws) \o HostPorts(apis, 9464) \o HostPorts(Only(inv, "nginx"), 9113)
                    \o HostPorts(every, 9100) \o HostPorts(every, 8080),
      phases |-> [h \in DOMAIN inv |-> Phase(inv[h])],
      warmerHost |-> apis[1]]

-----------------------------------------------------------------------------
(***************************************************************************)
(* A plan that can be deployed (render.ts:140-313, deploy/README.md): no   *)
(* two services of a host want one port; every engine and API process is   *)
(* reached at one address and everything that is addressed or scraped      *)
(* listens there; nothing with two workers on one host while another has   *)
(* none, when they are spread; and with the default roles what the API     *)
(* needs is deployed before it.                                            *)
(***************************************************************************)
SoundRollout(inventory, env, plan) ==
  LET Named(names) == {s \in plan.services : s.name \in names}
      engines == Named({EngineName(0), EngineName(1)})
      Listens(a) == \E s \in plan.services : s.host = a.host /\ a.port \in s.ports
      Load(h) == Cardinality({s \in engines : s.host = h})
      workerHosts == ToSet(Only(ApplyApiHosts(inventory, env), "worker"))
  IN /\ \A s, t \in plan.services : s # t /\ s.host = t.host => s.ports \cap t.ports = {}
     /\ IsInjective(plan.engineUrls) /\ Len(plan.engineUrls) = Cardinality(engines)
     /\ Len(plan.apiServers) = Cardinality(Named({"api"}))
     /\ IsInjective(plan.targets)
     /\ \A a \in ToSet(plan.engineUrls) \cup ToSet(plan.apiServers) \cup ToSet(plan.targets) : Listens(a)
     /\ env.placement = "spread" => \A g, h \in workerHosts : Load(g) <= Load(h) + 1
     /\ inventory = [h \in DOMAIN inventory |-> DefaultRoles(h, Len(inventory))] =>
          \A s, a \in plan.services :
            a.name = "api" /\ (s \in engines \/ s.name = "redis") => plan.phases[s.host] < plan.phases[a.host]
=============================================================================
