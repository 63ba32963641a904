------------------------------- MODULE Shard --------------------------------
(***************************************************************************)
(* The services of a shard: the naming service                             *)
(* (nelns/naming_service/naming_service.cpp) and, in each other process,   *)
(* CNamingClient (nel/src/net/naming_client.cpp) and the layer 5           *)
(* connections of CUnifiedNetwork (nel/src/net/unified_network.cpp).       *)
(*                                                                         *)
(* A service registers with the naming service, which gives it an          *)
(* identifier and the list of the services there are; it connects to those *)
(* that were there before it and says who it is; the later ones connect to *)
(* it.  When a service leaves, the naming service tells the others, waits  *)
(* for each of them to acknowledge, and only then may give the identifier  *)
(* to a new service.  Processes die at any step, and the naming service    *)
(* may stop and start again with an empty list.                            *)
(***************************************************************************)
EXTENDS NamingService, FiniteSetsExt

CONSTANTS
  UniqueNames,  \* the values UniqueOnShardServices can have, sets of names
  MaxFaults     \* bounds on the faults of each kind, one of which must hold

Fault == {"death", "crash", "timeout"}
None == "none"

ASSUME ShardAssumption ==
  /\ None \notin Service
  /\ NameOf \in [Service -> STRING \ {"DEAD"}]
  /\ MaxSId \in Nat \ {0}
  /\ UniqueNames \subseteq SUBSET STRING
  /\ MaxFaults \subseteq [Fault -> Nat]

VARIABLES
  registry,  \* RegisteredServices of the naming service
  unique,    \* _UniqueServices, read from the configuration: a set of names
  nsUp,      \* is the naming service running
  toNS,      \* what is sent to it on each connection, and that it is closed
  fromNS,    \* what it sent to each service
  cnx,       \* CNamingClient::_Connection: "none", "open", or "cut" if it is
             \* closed and the service has not seen it
  stage,     \* how far each process is
  sid,       \* CUnifiedNetwork::_SId
  known,     \* CNamingClient::RegisteredServices: a list of [svc, sid]
  ids,       \* CUnifiedNetwork::_IdCnx: [name, conn, peer] for each identifier
  named,     \* CUnifiedNetwork::_NamedCnx: a set of << name, sid >>
  up,        \* history: the << service, sid >> the up callback was called for,
             \* but not the down callback since
  link,      \* link[c][p]: the connection that c opened to p
  faults,    \* how many faults of each kind there were
  spoiled    \* history: the << service, sid >> a fault that the protocol does
             \* not handle is about, see Spoil

naming == << registry, unique, nsUp >>
channels == << toNS, fromNS, cnx >>
tables == << known, ids, named, up >>
vars == << naming, channels, stage, sid, tables, link, faults, spoiled >>

NotUsed == [name |-> "DEAD", conn |-> "empty", peer |-> None]
Ready(e) == e.name # "DEAD"
Valid(e) == e.conn \in {"client", "server"}

Alive(p) == stage[p] \in {"registering", "registered", "connecting", "running"}

Init ==
  /\ registry = << >>
  /\ unique \in UniqueNames
  /\ nsUp = TRUE
  /\ toNS = [p \in Service |-> << >>]
  /\ fromNS = [p \in Service |-> << >>]
  /\ cnx = [p \in Service |-> "none"]
  /\ stage = [p \in Service |-> "off"]
  /\ sid = [p \in Service |-> 0]
  /\ known = [p \in Service |-> << >>]
  /\ ids = [p \in Service |-> [k \in SId |-> NotUsed]]
  /\ named = [p \in Service |-> {}]
  /\ up = [p \in Service |-> {}]
  /\ link = [c \in Service |-> [p \in Service |-> "none"]]
  /\ faults = [f \in Fault |-> 0]
  /\ spoiled = {}

Fails(kind) ==
  /\ faults' = [faults EXCEPT ![kind] = @ + 1]
  /\ \E max \in MaxFaults : \A f \in Fault : faults'[f] <= max[f]

(* What some processes have on an identifier is no longer claimed to be    *)
(* right: a time out removed it before they answered, nobody can tell them *)
(* that its owner died, its owner did not connect, or they were told that  *)
(* it died before they learnt that it was connected.                       *)
Spoil(ps, ks) == spoiled' = spoiled \union (ps \X ks)

-----------------------------------------------------------------------------
(* The naming service.  It handles the messages of a connection in order.  *)
Received(p, type) == nsUp /\ toNS[p] # << >> /\ Head(toNS[p]).type = type
Handled(p) == toNS' = [toNS EXCEPT ![p] = Tail(@)]

Recipients == {e.svc : e \in Available(registry)}

(* What is sent on a connection that the other end closed is lost.         *)
Broadcast(to, m) ==
  [p \in Service |-> IF p \in to /\ cnx[p] = "open" THEN Append(fromNS[p], m) ELSE fromNS[p]]
Reply(from, p, m) == [from EXCEPT ![p] = IF cnx[p] = "open" THEN Append(@, m) ELSE @]

SIdOf(reg, p) == CHOOSE k \in SId : \E e \in Entries(reg) : e.svc = p /\ e.sid = k

NSRefuse(p) ==
  /\ Received(p, "RG")
  /\ FreeSIds(registry) = {} \/ ~Granted(registry, unique, p)
  /\ fromNS' = Reply(fromNS, p, [type |-> "RG", ok |-> FALSE])
  /\ Handled(p)
  /\ UNCHANGED << naming, cnx, stage, sid, tables, link, faults, spoiled >>

BadNSAccept(p) ==
  /\ Received(p, "RG")
  /\ FreeSIds(registry) # {}
  /\ Granted(registry, unique, p)
  /\ LET k == Min(FreeSIds(registry))
         rgb == [type |-> "RGB", svc |-> p, sid |-> k]
         rg == [type |-> "RG", ok |-> TRUE, sid |-> k, list |-> Accessible(registry)]
     IN  /\ registry' = Register(registry, p, k)
         /\ fromNS' = Reply(Broadcast(Recipients, rgb), p, rg)
  /\ Handled(p)
  /\ UNCHANGED << unique, nsUp, cnx, stage, sid, tables, link, faults, spoiled >>

(* doRegister: the others learn of the new service, which gets the list of *)
(* those that are available, itself being the last one.                    *)
NSAccept(p) ==
  /\ Received(p, "RG")
  /\ FreeSIds(registry) # {}
  /\ Granted(registry, unique, p)
  /\ LET k == Min(FreeSIds(registry))
         rgb == [type |-> "RGB", svc |-> p, sid |-> k]
         rg == [type |-> "RG", ok |-> TRUE, sid |-> k, list |-> Accessible(registry')]
     IN  /\ registry' = Register(registry, p, k)
         /\ fromNS' = Reply(Broadcast(Recipients, rgb), p, rg)
  /\ Handled(p)
  /\ UNCHANGED << unique, nsUp, cnx, stage, sid, tables, link, faults, spoiled >>

(* doRegister with the identifier that the service already has: whether    *)
(* another entry has it is not looked at.  No answer and no broadcast.     *)
NSResend(p) ==
  /\ Received(p, "RRG")
  /\ registry' = IF Granted(registry, unique, p) THEN Register(registry, p, sid[p]) ELSE registry
  /\ Handled(p)
  /\ UNCHANGED << unique, nsUp, fromNS, cnx, stage, sid, tables, link, faults, spoiled >>

NSAck(p) ==
  /\ Received(p, "ACK_UNI")
  /\ registry' = Acknowledge(registry, sid[p], Head(toNS[p]).sid)
  /\ Handled(p)
  /\ UNCHANGED << unique, nsUp, fromNS, cnx, stage, sid, tables, link, faults, spoiled >>

(* Those that have an identifier, and are not back after a crash.          *)
Absent == {q \in Service : Alive(q) /\ (sid[q] # 0 \/ fromNS[q] # << >>) /\ ~Knows(registry, q)}

(* cbDisconnect.                                                           *)
NSDisconnect(p) ==
  /\ Received(p, "closed")
  /\ IF Knows(registry, p)
       THEN LET k == SIdOf(registry, p) IN
            /\ fromNS' = Broadcast(Recipients, [type |-> "UNB", svc |-> p, sid |-> k])
            /\ registry' = Unregister(registry, p)
            /\ Spoil(Absent, {k})
       ELSE UNCHANGED << registry, fromNS, spoiled >>
  /\ Handled(p)
  /\ UNCHANGED << unique, nsUp, cnx, stage, sid, tables, link, faults >>

(* checkWaitingUnregistrationServices, called by each update ...           *)
NSUpdate ==
  /\ nsUp
  /\ Purge(registry) # registry
  /\ registry' = Purge(registry)
  /\ UNCHANGED << unique, nsUp, channels, stage, sid, tables, link, faults, spoiled >>

(* ... which gives up after ten seconds.                                   *)
NSTimeout ==
  /\ Fails("timeout")
  /\ \E e \in Entries(registry) :
       /\ e.waiting
       /\ e.acks # {}
       /\ registry' = Removed(registry, e)
       /\ Spoil({f.svc : f \in {g \in Entries(registry) : g.sid \in e.acks}}, {e.sid})
  /\ UNCHANGED << unique, nsUp, channels, stage, sid, tables, link >>

-----------------------------------------------------------------------------
(* A service and the naming service.                                       *)
Send(p, m) == IF nsUp /\ cnx[p] = "open" THEN [toNS EXCEPT ![p] = Append(@, m)] ELSE toNS

Arrived(p, type) == fromNS[p] # << >> /\ Head(fromNS[p]).type = type

(* naming_client.h:49-50, "if other services try to register during the NS *)
(* is offline, it will cause bug": a service is started once those that    *)
(* have an identifier are known to the naming service.                     *)
Start(p) ==
  /\ stage[p] = "off"
  /\ nsUp
  /\ Absent = {}
  /\ \A q \in Service : ~Received(q, "RRG")
  /\ stage' = [stage EXCEPT ![p] = "registering"]
  /\ cnx' = [cnx EXCEPT ![p] = "open"]
  /\ toNS' = [toNS EXCEPT ![p] = << [type |-> "RG"] >>]
  /\ UNCHANGED << naming, fromNS, sid, tables, link, faults, spoiled >>

(* The process ends, whatever it was doing: its connections are closed.    *)
Ends(p) ==
  /\ stage' = [stage EXCEPT ![p] = "dead"]
  /\ toNS' = Send(p, [type |-> "closed"])
  /\ fromNS' = [fromNS EXCEPT ![p] = << >>]
  /\ cnx' = [cnx EXCEPT ![p] = "none"]
  /\ known' = [known EXCEPT ![p] = << >>]
  /\ ids' = [ids EXCEPT ![p] = [k \in SId |-> NotUsed]]
  /\ named' = [named EXCEPT ![p] = {}]
  /\ up' = [up EXCEPT ![p] = {}]
  /\ link' = [c \in Service |-> [q \in Service |->
        IF p \notin {c, q} \/ link[c][q] = "none" THEN link[c][q]
        ELSE IF stage[IF c = p THEN q ELSE c] = "dead" THEN "closed"
        ELSE IF link[c][q] = "ident" /\ c = p THEN "gone"
        ELSE IF link[c][q] \in {"ident", "up"} THEN "broken"
        ELSE link[c][q]]]

Add(ps, svc, k) == Append(ps, [svc |-> svc, sid |-> k])

(* uNetRegistrationBroadcast, which leaves an entry that is used as it is. *)
Inserted(entry, svc) ==
  IF Ready(entry) THEN entry ELSE [NotUsed EXCEPT !.name = NameOf[svc]]

(* cbRegister: RG tells the identifier and the services there are.         *)
Registered(p) ==
  /\ stage[p] = "registering"
  /\ Arrived(p, "RG")
  /\ LET rg == Head(fromNS[p])
         first(k) == CHOOSE i \in DOMAIN rg.list : /\ rg.list[i].sid = k
                                                  /\ \A j \in 1 .. i - 1 : rg.list[j].sid # k
         told(k) == \E i \in DOMAIN rg.list : rg.list[i].sid = k
     IN
       \/ /\ rg.ok
          /\ stage' = [stage EXCEPT ![p] = "registered"]
          /\ sid' = [sid EXCEPT ![p] = rg.sid]
          /\ known' = [known EXCEPT ![p] =
                         [i \in DOMAIN rg.list |-> [svc |-> rg.list[i].svc, sid |-> rg.list[i].sid]]]
          /\ ids' = [ids EXCEPT ![p] = [k \in SId |->
                         IF told(k) /\ k # rg.sid THEN Inserted(@[k], rg.list[first(k)].svc)
                                                 ELSE @[k]]]
          /\ fromNS' = [fromNS EXCEPT ![p] = Tail(@)]
          /\ UNCHANGED << toNS, cnx, named, up, link >>
       \/ /\ ~rg.ok
          /\ Ends(p)
          /\ UNCHANGED sid
  /\ UNCHANGED << naming, faults, spoiled >>

(* CNamingClient::update.  A service that registers also gets there what   *)
(* follows the answer; while it connects, it does not come back to it.     *)
Updates(p) == stage[p] \in {"registered", "running"}

(* cbRegisterBroadcast.                                                    *)
RegisterBroadcast(p) ==
  /\ Updates(p)
  /\ Arrived(p, "RGB")
  /\ LET m == Head(fromNS[p]) IN
       IF \E i \in DOMAIN known[p] : known[p][i].sid = m.sid
         THEN /\ known' = [known EXCEPT ![p] = [i \in DOMAIN @ |->
                   IF @[i].sid = m.sid THEN [@[i] EXCEPT !.svc = m.svc] ELSE @[i]]]
              /\ UNCHANGED ids
         ELSE /\ known' = [known EXCEPT ![p] = Add(@, m.svc, m.sid)]
              /\ ids' = [ids EXCEPT ![p][m.sid] =
                   IF m.sid = sid[p] THEN @ ELSE Inserted(@, m.svc)]
  /\ fromNS' = [fromNS EXCEPT ![p] = Tail(@)]
  /\ UNCHANGED << naming, toNS, cnx, stage, sid, named, up, link, faults, spoiled >>

(* The list loses the first entry that has the identifier.                 *)
Without(list, k) ==
  LET found == {i \in DOMAIN list : list[i].sid = k}
  IN  IF found = {} THEN list ELSE Kept(list, DOMAIN list \ {Min(found)})

(* cbUnregisterBroadcast, then uNetUnregistrationBroadcast: the down       *)
(* callback is called, connections are closed, the entry is free.  (That   *)
(* the identifier is one's own happens with killAllServices only.)         *)
BadUnregisterBroadcast(p) ==
  /\ Updates(p)
  /\ Arrived(p, "UNB")
  /\ LET k == Head(fromNS[p]).sid
     IN  /\ known' = [known EXCEPT ![p] = Without(@, k)]
         /\ toNS' = Send(p, [type |-> "ACK_UNI", sid |-> k])
         /\ up' = [up EXCEPT ![p] = {x \in @ : x[2] # k}]
  /\ fromNS' = [fromNS EXCEPT ![p] = Tail(@)]
  /\ UNCHANGED << naming, cnx, stage, sid, ids, named, link, faults, spoiled >>

UnregisterBroadcast(p) ==
  /\ Updates(p)
  /\ Arrived(p, "UNB")
  /\ LET k == Head(fromNS[p]).sid
         e == ids[p][k]
         closed(q) == IF Alive(q) THEN "broken" ELSE "closed"
     IN  /\ known' = [known EXCEPT ![p] = Without(@, k)]
         /\ toNS' = Send(p, [type |-> "ACK_UNI", sid |-> k])
         /\ up' = [up EXCEPT ![p] = {x \in @ : x[2] # k}]
         /\ named' = IF e.conn = "empty" THEN named ELSE [named EXCEPT ![p] = @ \ {<< e.name, k >>}]
         /\ ids' = [ids EXCEPT ![p][k] = NotUsed]
         /\ link' = CASE e.conn = "client" -> [link EXCEPT ![p][e.peer] = closed(e.peer)]
                      [] e.conn = "server" -> [link EXCEPT ![e.peer][p] = closed(e.peer)]
                      [] OTHER -> link
         /\ Spoil({q \in Service : q = e.peer /\ Alive(q)}, {sid[p]})
  /\ fromNS' = [fromNS EXCEPT ![p] = Tail(@)]
  /\ UNCHANGED << naming, cnx, stage, sid, faults >>

(* The connection to the naming service is closed: seen once all that was  *)
(* received on it is handled ...                                           *)
NoticeNS(p) ==
  /\ Updates(p)
  /\ cnx[p] = "cut"
  /\ fromNS[p] = << >>
  /\ cnx' = [cnx EXCEPT ![p] = "none"]
  /\ UNCHANGED << naming, toNS, fromNS, stage, sid, tables, link, faults, spoiled >>

(* ... and update tries again until the naming service is back.            *)
Reconnect(p) ==
  /\ stage[p] = "running"
  /\ cnx[p] = "none"
  /\ nsUp
  /\ cnx' = [cnx EXCEPT ![p] = "open"]
  /\ toNS' = [toNS EXCEPT ![p] = << [type |-> "RRG"] >>]
  /\ UNCHANGED << naming, fromNS, stage, sid, tables, link, faults, spoiled >>

-----------------------------------------------------------------------------
(* Services connect to each other.  CUnifiedNetwork::connect does nothing  *)
(* without the naming service ...                                          *)
Connect(c) ==
  /\ stage[c] = "registered"
  /\ IF cnx[c] = "none"
       THEN /\ stage' = [stage EXCEPT ![c] = "running"]
            /\ spoiled' = spoiled \union ({c} \X SId) \union (Service \X {sid[c]})
       ELSE /\ stage' = [stage EXCEPT ![c] = "connecting"]
            /\ UNCHANGED spoiled
  /\ UNCHANGED << naming, channels, sid, tables, link, faults >>

(* ... and else takes the services that are before it in the list.         *)
Before(c) == {i \in DOMAIN known[c] : \A j \in 1 .. i : known[c][j].sid # sid[c]}
ToConnect(c) == {i \in Before(c) : ids[c][known[c][i].sid].conn = "empty"}

(* addService: connects, says who it is, calls the up callback; if the     *)
(* other process is not there any more, the entry stays, without a name.   *)
AddService(c) ==
  /\ stage[c] = "connecting"
  /\ ToConnect(c) # {}
  /\ LET p == known[c][Min(ToConnect(c))].svc
         k == known[c][Min(ToConnect(c))].sid
     IN  \/ /\ Alive(p)
            /\ ids' = [ids EXCEPT ![c][k].conn = "client", ![c][k].peer = p]
            /\ link' = [link EXCEPT ![c][p] = "ident"]
            /\ named' = [named EXCEPT ![c] = @ \union {<< NameOf[p], k >>}]
            /\ up' = [up EXCEPT ![c] = @ \union {<< p, k >>}]
         \/ /\ ~Alive(p)
            /\ ids' = [ids EXCEPT ![c][k].conn = "invalid"]
            /\ UNCHANGED << link, named, up >>
  /\ UNCHANGED << naming, channels, stage, sid, known, faults, spoiled >>

Connected(c) ==
  /\ stage[c] = "connecting"
  /\ ToConnect(c) = {}
  /\ stage' = [stage EXCEPT ![c] = "running"]
  /\ UNCHANGED << naming, channels, sid, tables, link, faults, spoiled >>

Late(p, c) ==
  /\ \A i \in DOMAIN known[p] : known[p][i].svc # c
  /\ \A i \in DOMAIN fromNS[p] : ~(fromNS[p][i].type = "RGB" /\ fromNS[p][i].svc = c)

(* uncbServiceIdentification: the first connection of an entry, and only   *)
(* that one, makes the name known and the up callback called.              *)
ServiceIdentification(p, c) ==
  /\ stage[p] = "running"
  /\ link[c][p] \in {"ident", "gone"}
  /\ LET k == sid[c]
         first == ids[p][k].conn = "empty"
         entry == Inserted(ids[p][k], c)
     IN  /\ ids' = [ids EXCEPT ![p][k] = [entry EXCEPT !.conn = "server", !.peer = c]]
         /\ named' = IF first THEN [named EXCEPT ![p] = @ \union {<< NameOf[c], k >>}] ELSE named
         /\ up' = IF first THEN [up EXCEPT ![p] = @ \union {<< c, k >>}] ELSE up
         /\ IF link[c][p] = "gone" /\ Late(p, c) THEN Spoil({p}, {k}) ELSE UNCHANGED spoiled
  /\ link' = [link EXCEPT ![c][p] = IF @ = "gone" THEN "broken" ELSE "up"]
  /\ UNCHANGED << naming, channels, stage, sid, known, faults >>

Holds(p, q) == \E k \in SId : ids[p][k].peer = q

(* uncbDisconnection of a connection that p opened: it stays in the entry, *)
(* disconnected ...                                                        *)
ServerLost(p, q) ==
  /\ stage[p] = "running"
  /\ link[p][q] = "broken"
  /\ ~Alive(q) \/ Holds(p, q)
  /\ link' = [link EXCEPT ![p][q] = "closed"]
  /\ UNCHANGED << naming, channels, stage, sid, tables, faults, spoiled >>

(* ... and of one that q opened: it is reset, and the entry remains.       *)
ClientLost(p, q) ==
  /\ stage[p] = "running"
  /\ link[q][p] = "broken"
  /\ ~Alive(q) \/ Holds(p, q)
  /\ ids' = IF Holds(p, q)
              THEN [ids EXCEPT ![p][sid[q]].conn = "invalid", ![p][sid[q]].peer = None]
              ELSE ids
  /\ link' = [link EXCEPT ![q][p] = "closed"]
  /\ UNCHANGED << naming, channels, stage, sid, known, named, up, faults, spoiled >>

-----------------------------------------------------------------------------
(* Faults.  Nobody can be told of the death of a service that the naming   *)
(* service does not know.                                                  *)
Die(p) ==
  /\ Alive(p)
  /\ Fails("death")
  /\ Ends(p)
  /\ IF sid[p] # 0 /\ cnx[p] # "open" THEN Spoil(Service, {sid[p]}) ELSE UNCHANGED spoiled
  /\ UNCHANGED << naming, sid >>

(* What it sent may not be received up to the end.  It forgets who it is   *)
(* waiting for and who is about to be registered or removed.               *)
NSCrash ==
  /\ nsUp
  /\ Fails("crash")
  /\ nsUp' = FALSE
  /\ registry' = << >>
  /\ toNS' = [p \in Service |-> << >>]
  /\ \E n \in [Service -> UNION {0 .. Len(fromNS[p]) : p \in Service}] :
       /\ \A p \in Service : n[p] <= Len(fromNS[p])
       /\ fromNS' = [p \in Service |-> SubSeq(fromNS[p], 1, n[p])]
  /\ cnx' = [p \in Service |-> IF cnx[p] = "open" THEN "cut" ELSE cnx[p]]
  /\ Spoil(Service,
       {e.sid : e \in {f \in Entries(registry) : f.waiting \/ stage[f.svc] \in {"registering", "dead"}}}
       \union {sid[p] : p \in {q \in Service : stage[q] = "dead" /\ toNS[q] # << >> /\ sid[q] # 0}})
  /\ UNCHANGED << unique, stage, sid, tables, link >>

NSRestart ==
  /\ ~nsUp
  /\ nsUp' = TRUE
  /\ UNCHANGED << registry, unique, channels, stage, sid, tables, link, faults, spoiled >>

-----------------------------------------------------------------------------
NS ==
  \/ \E p \in Service :
       \/ NSAccept(p)
       \/ NSRefuse(p)
       \/ NSResend(p)
       \/ NSAck(p)
       \/ NSDisconnect(p)
  \/ NSUpdate

Process(p) ==
  \/ Registered(p)
  \/ RegisterBroadcast(p)
  \/ UnregisterBroadcast(p)
  \/ NoticeNS(p)
  \/ Reconnect(p)
  \/ Connect(p)
  \/ AddService(p)
  \/ Connected(p)
  \/ \E q \in Service : ServiceIdentification(p, q) \/ ServerLost(p, q) \/ ClientLost(p, q)

Next ==
  \/ NS
  \/ \E p \in Service : Process(p) \/ Start(p) \/ Die(p)
  \/ NSTimeout
  \/ NSCrash
  \/ NSRestart

(* Processes call update again and again.                                  *)
Fairness == WF_vars(NS) /\ \A p \in Service : WF_vars(Process(p))

Spec == Init /\ [][Next]_vars /\ Fairness

-----------------------------------------------------------------------------
TypeOK ==
  /\ registry \in Seq(Entry)
  /\ unique \in UniqueNames
  /\ nsUp \in BOOLEAN
  /\ \A p \in Service : \A i \in DOMAIN toNS[p] :
       toNS[p][i].type \in {"RG", "RRG", "ACK_UNI", "closed"}
  /\ \A p \in Service : \A i \in DOMAIN fromNS[p] : fromNS[p][i].type \in {"RG", "RGB", "UNB"}
  /\ cnx \in [Service -> {"none", "open", "cut"}]
  /\ stage \in [Service -> {"off", "registering", "registered", "connecting", "running", "dead"}]
  /\ sid \in [Service -> SId \union {0}]
  /\ known \in [Service -> Seq([svc : Service, sid : SId])]
  /\ ids \in [Service -> [SId -> [name : {NameOf[p] : p \in Service} \union {"DEAD"},
                                  conn : {"empty", "invalid", "client", "server"},
                                  peer : Service \union {None}]]]
  /\ named \in [Service -> SUBSET ({NameOf[p] : p \in Service} \X SId)]
  /\ up \in [Service -> SUBSET (Service \X SId)]
  /\ link \in [Service -> [Service -> {"none", "ident", "gone", "up", "broken", "closed"}]]
  /\ faults \in [Fault -> Nat]
  /\ spoiled \subseteq Service \X SId

Clean(p, k) == << p, k >> \notin spoiled

(* naming_service.cpp:387-389, "we wait ACK from all services before       *)
(* really remove the service": when an identifier belongs to a service,    *)
(* no process takes it for the one that had it before.                     *)
NoStaleIdentity ==
  \A p \in Service : \A e \in Available(registry) :
    Clean(p, e.sid) =>
      /\ \A i \in DOMAIN known[p] : known[p][i].sid = e.sid => known[p][i].svc = e.svc
      /\ Ready(ids[p][e.sid]) => ids[p][e.sid].name = NameOf[e.svc]
      /\ ids[p][e.sid].peer \in {e.svc, None}
      /\ \A x \in up[p] : x[2] = e.sid => x[1] = e.svc

(* What autoCheck looks for, unified_network.cpp:1882: a name leads to the *)
(* entry that has it.  An entry with a connection is found by its name,    *)
(* and the up callback was called for one service, the one that is         *)
(* connected, whose down callback comes before another is up.              *)
TablesAgree ==
  \A p \in Service, k \in SId : Clean(p, k) =>
    /\ \A x \in named[p] : x[2] = k => ids[p][k].name = x[1]
    /\ Valid(ids[p][k]) => /\ << ids[p][k].name, k >> \in named[p]
                           /\ << ids[p][k].peer, k >> \in up[p]
    /\ \A x, y \in up[p] : x[2] = k /\ y[2] = k => x = y

(* When nothing is left to handle, the services that run are those of the  *)
(* registry; any two of them have one connection, by which each is known   *)
(* to the other by its identifier and by its name, and nothing else is.    *)
Running == {p \in Service : stage[p] = "running"}

Quiet ==
  /\ nsUp
  /\ \A p \in Service :
       /\ toNS[p] = << >> /\ fromNS[p] = << >>
       /\ Alive(p) => stage[p] = "running" /\ cnx[p] = "open"
       /\ \A q \in Service : link[p][q] \in {"none", "up", "closed"}
  /\ Purge(registry) = registry

QuietMeansConnected ==
  Quiet =>
    /\ {e.svc : e \in Entries(registry)} = Running
    /\ \A p, q \in Running : p # q /\ Clean(p, sid[q]) =>
         LET e == ids[p][sid[q]]
         IN  /\ e.name = NameOf[q] /\ e.peer = q
             /\ << q, sid[q] >> \in up[p]
             /\ << NameOf[q], sid[q] >> \in named[p]
             /\ link[p][q] = (IF e.conn = "client" THEN "up" ELSE "none")
             /\ link[q][p] = (IF e.conn = "server" THEN "up" ELSE "none")
    /\ \A p \in Running, k \in SId \ {sid[q] : q \in Running} :
         Clean(p, k) => ids[p][k] = NotUsed

(* A service that left leaves the list, without the time out: all those    *)
(* that have to acknowledge do, or leave themselves.                       *)
UnregistrationEnds ==
  (\E e \in Entries(registry) : e.waiting) ~> ~ \E e \in Entries(registry) : e.waiting

-----------------------------------------------------------------------------
(* unified_network.h:339, of the up callback: "On a server, the callback   *)
(* is called each time a new client is connected to him".                  *)
EachClientIsGreeted ==
  \A p, c \in Service : link[c][p] = "up" => << c, sid[c] >> \in up[p]
=============================================================================
