---------------------------- MODULE ShardProofs -----------------------------
(***************************************************************************)
(* No service of a shard is ever taken for the one that had its identifier *)
(* before: NoStaleIdentity of Shard, for every set of services and names,  *)
(* every limit of the identifiers and any number of faults.                *)
(***************************************************************************)
EXTENDS ShardTypeProofs

-----------------------------------------------------------------------------
(* The inductive invariant.                                                *)

(* What p has received and not handled, and what it sent.                  *)
Mail(p) == Entries(fromNS[p])
Post(p) == Entries(toNS[p])
Posted(p, type) == \E m \in Post(p) : m.type = type

(* The answer that gives q the identifier k is on its way.                 *)
Granting(q, k) == \E m \in Mail(q) : m.type = "RG" /\ m.ok /\ m.sid = k
Refused(q) == \E m \in Mail(q) : m.type = "RG" /\ ~m.ok

(* The naming service has an entry of q with the identifier k.             *)
Entered(q, k) == \E e \in Entries(registry) : e.svc = q /\ e.sid = k

(* q has the identifier k, or had it and the naming service is not done    *)
(* with it.                                                                *)
Owner(q, k) ==
  \/ Alive(q) /\ (sid[q] = k \/ Granting(q, k))
  \/ Entered(q, k)
  \/ sid[q] = k /\ Posted(q, "RRG")

(* Where p takes, or is about to take, k for the identifier of q.          *)
Tells(m, q, k) ==
  \/ m.type = "RGB" /\ m.svc = q /\ m.sid = k
  \/ m.type = "RG" /\ m.ok /\ \E e \in Entries(m.list) : e.svc = q /\ e.sid = k
Told(p, q, k) == \E m \in Mail(p) : Tells(m, q, k)
Listed(p, q, k) == \E e \in Entries(known[p]) : e.svc = q /\ e.sid = k
Noted(p, q, k) == Listed(p, q, k) \/ << q, k >> \in up[p]
Mentions(p, q, k) == Noted(p, q, k) \/ ids[p][k].peer = q \/ Told(p, q, k)

(* All that relates q to the identifier k.                                 *)
Trace(q, k) ==
  \/ sid[q] = k
  \/ Granting(q, k)
  \/ Entered(q, k)
  \/ \E p \in Service : Mentions(p, q, k)

(* p is among those whose acknowledgement the naming service waits for     *)
(* before k is free.                                                       *)
Awaited(p, k) ==
  \E e \in Entries(registry), f \in Available(registry) :
    e.waiting /\ e.sid = k /\ f.svc = p /\ f.sid \in e.acks

(* The messages about an identifier.                                       *)
Drops(k) == {m \in FromNSMessage : m.type = "UNB" /\ m.sid = k}
Tales(k) == {m \in FromNSMessage : \E q \in Service : Tells(m, q, k)}
Acks(k) == {m \in ToNSMessage : m.type = "ACK_UNI" /\ m.sid = k}
Dropped(p, k) == Mail(p) \intersect Drops(k) # {}
Acked(p, k) == Post(p) \intersect Acks(k) # {}

Firsts == {m \in ToNSMessage : m.type \in {"RG", "RRG"}}
Lasts == {m \in ToNSMessage : m.type = "closed"}
Replies == {m \in FromNSMessage : m.type = "RG"}

(* A process and what there is of it.                                      *)
Blank(p) == /\ known[p] = << >>
            /\ ids[p] = [k \in SId |-> NotUsed]
            /\ up[p] = {}
LifeInv ==
  \A p \in Service :
    /\ ~Alive(p) => fromNS[p] = << >> /\ cnx[p] = "none" /\ Blank(p)
    /\ stage[p] = "off" => toNS[p] = << >> /\ sid[p] = 0 /\ \A k \in SId : ~Trace(p, k)
    /\ stage[p] = "registering" => sid[p] = 0 /\ Blank(p)
    /\ Bars(fromNS[p], FromNSMessage, Replies)
    /\ (\E m \in Mail(p) : m.type = "RG") => stage[p] = "registering"
    /\ stage[p] = "registering" /\ fromNS[p] # << >> => Head(fromNS[p]).type = "RG"
    /\ Refused(p) => \A k \in SId : ~Trace(p, k)

(* What is on its way to the naming service.                               *)
PostInv ==
  \A p \in Service :
    /\ Bars(toNS[p], ToNSMessage, Firsts)
    /\ Bars(toNS[p], Lasts, ToNSMessage)
    /\ Posted(p, "closed") => stage[p] = "dead"
    /\ toNS[p] # << >> => (Alive(p) /\ cnx[p] = "open") \/ Posted(p, "closed")
    /\ Posted(p, "RG") => fromNS[p] = << >> /\ \A k \in SId : ~Trace(p, k)
    /\ Posted(p, "RRG") => ~Entered(p, sid[p])
    /\ Posted(p, "ACK_UNI") => Knows(registry, p) \/ Posted(p, "RRG")
    /\ Alive(p) /\ cnx[p] = "open" /\ (sid[p] # 0 \/ \E k \in SId : Granting(p, k)) =>
         Knows(registry, p) \/ Posted(p, "RRG")
    /\ nsUp \/ toNS[p] = << >>

RegistryInv ==
  /\ nsUp \/ registry = << >>
  /\ \A e \in Entries(registry) :
       /\ e.waiting => stage[e.svc] = "dead" /\ toNS[e.svc] = << >>
       /\ ~e.waiting => (Alive(e.svc) /\ cnx[e.svc] = "open") \/ Posted(e.svc, "closed")
       /\ stage[e.svc] = "registering" => fromNS[e.svc] # << >>
  /\ Distinct(registry)

(* Nobody is given an identifier while the naming service does not know    *)
(* all those that have one.                                                *)
StartInv ==
  \A p \in Service : Posted(p, "RG") =>
    /\ \A q \in Service : Alive(q) /\ (sid[q] # 0 \/ fromNS[q] # << >>) =>
         Knows(registry, q) \/ Refused(q)
    /\ \A q \in Service : ~Posted(q, "RRG")

TraceInv == \A q \in Service, j, k \in SId : Trace(q, j) /\ Trace(q, k) => j = k
OwnerInv == \A q, r \in Service, k \in SId : Owner(q, k) /\ Owner(r, k) => q = r
NameInv ==
  \A q, r \in Service, j, k \in SId :
    Owner(q, j) /\ Owner(r, k) /\ NameOf[q] = NameOf[r] /\ NameOf[q] \in unique => q = r

LinkInv == \A c, p \in Service : link[c][p] = "ident" => Alive(c)

(* Whoever p takes for the owner of an identifier is, or p is told soon.   *)
MentionInv ==
  \A p, q \in Service, k \in SId : Clean(p, k) /\ Mentions(p, q, k) =>
    /\ Owner(q, k)
    /\ \A e \in Entries(registry) : e.waiting /\ e.sid = k => Awaited(p, k)

AckInv ==
  \A p \in Service, k \in SId : Clean(p, k) =>
    /\ Bars(fromNS[p], Drops(k), Drops(k) \union Tales(k))
    /\ Bars(toNS[p], Acks(k), Acks(k))
    /\ Dropped(p, k) \/ Acked(p, k) => Awaited(p, k)
    /\ Acked(p, k) => ~Dropped(p, k) /\ \A q \in Service : ~Mentions(p, q, k)

SpoilInv ==
  \A q \in Service, k \in SId : stage[q] = "registering" /\ cnx[q] # "open" /\ Granting(q, k) =>
    \A p \in Service : ~Clean(p, k)

TableInv ==
  \A p \in Service :
    /\ Distinct(known[p])
    /\ \A m \in Mail(p) : m.type = "RG" /\ m.ok => Distinct(m.list)
    /\ \A e \in Entries(known[p]) : e.sid # sid[p] => Ready(ids[p][e.sid])
    /\ \A k \in SId :
         /\ ids[p][k].conn # "empty" => Ready(ids[p][k])
         /\ ids[p][k].peer # None => ids[p][k].conn # "empty"
         /\ Clean(p, k) /\ Ready(ids[p][k]) =>
              \E q \in Service : NameOf[q] = ids[p][k].name /\ Noted(p, q, k)

Inv ==
  /\ TypeInv
  /\ LifeInv
  /\ PostInv
  /\ RegistryInv
  /\ StartInv
  /\ TraceInv
  /\ OwnerInv
  /\ NameInv
  /\ LinkInv
  /\ MentionInv
  /\ AckInv
  /\ SpoilInv
  /\ TableInv

(* The same, without what the steps of a process by itself preserve in     *)
(* ways of their own.                                                      *)
Protocol ==
  /\ LifeInv
  /\ PostInv
  /\ RegistryInv
  /\ StartInv
  /\ TraceInv
  /\ OwnerInv
  /\ NameInv
  /\ MentionInv
  /\ AckInv
  /\ SpoilInv

-----------------------------------------------------------------------------
(* The types of the variables.                                             *)
LEMMA Vars ==
  ASSUME TypeInv
  PROVE  /\ registry \in Seq(Entry)
         /\ toNS \in [Service -> Seq(ToNSMessage)]
         /\ fromNS \in [Service -> Seq(FromNSMessage)]
         /\ cnx \in [Service -> {"none", "open", "cut"}]
         /\ stage \in [Service -> {"off", "registering", "registered", "connecting", "running",
                                   "dead"}]
         /\ sid \in [Service -> SId \union {0}]
         /\ known \in [Service -> Seq([svc : Service, sid : SId])]
         /\ ids \in [Service -> [SId -> IdEntry]]
         /\ up \in [Service -> SUBSET (Service \X SId)]
         /\ link \in [Service -> [Service -> State]]
         /\ spoiled \in SUBSET (Service \X SId)
         /\ unique \in UniqueNames
PROOF
  BY DEF TypeInv, Typed, NamingType, MailOK, StageType, TablesType, LinkType, HistoryType

(* The types of the messages.                                              *)
LEMMA Messages ==
  ASSUME TypeInv, NEW p \in Service
  PROVE  Mail(p) \subseteq FromNSMessage /\ Post(p) \subseteq ToNSMessage
PROOF
  BY Vars, EntriesType DEF Mail, Post

(* The types of the entries of the naming service.                         *)
LEMMA RegistryEntries ==
  ASSUME TypeInv
  PROVE  Entries(registry) \subseteq Entry /\ Available(registry) \subseteq Entry
PROOF
  BY Vars, EntriesType DEF Available

(* Nobody has an identifier at first, and nobody is mentioned.             *)
LEMMA InitInv == Init => Inv
PROOF
  <1> SUFFICES ASSUME Init PROVE Inv
    OBVIOUS
  <1>0. TypeInv
    BY TypeInit
  <1>1. /\ registry = << >>
        /\ toNS = [p \in Service |-> << >>]
        /\ fromNS = [p \in Service |-> << >>]
        /\ cnx = [p \in Service |-> "none"]
        /\ stage = [p \in Service |-> "off"]
        /\ sid = [p \in Service |-> 0]
        /\ known = [p \in Service |-> << >>]
        /\ ids = [p \in Service |-> [k \in SId |-> NotUsed]]
        /\ up = [p \in Service |-> {}]
        /\ link = [c \in Service |-> [p \in Service |-> "none"]]
        /\ nsUp = TRUE
    BY DEF Init
  <1>2. \A p \in Service : Mail(p) = {} /\ Post(p) = {} /\ Entries(known[p]) = {}
    BY <1>1, EntriesEmpty DEF Mail, Post, Entries
  <1>3. Entries(registry) = {}
    BY <1>1 DEF Entries
  <1>4. \A p \in Service : ~Alive(p) /\ stage[p] = "off"
    BY <1>1 DEF Alive
  <1>5. \A q \in Service, k \in SId : ~Trace(q, k)
    <2> SUFFICES ASSUME NEW q \in Service, NEW k \in SId PROVE ~Trace(q, k)
      OBVIOUS
    <2>1. sid[q] # k
      BY <1>1, SIdNat
    <2>2. \A p \in Service : ids[p][k].peer # q
      BY <1>1, ShardAssumption DEF NotUsed, ShardAssumption
    <2>3. \A p \in Service : ~Mentions(p, q, k)
      BY <1>1, <1>2, <2>2 DEF Mentions, Noted, Listed, Told
    <2> QED BY <1>2, <1>3, <2>1, <2>3 DEF Trace, Granting, Entered
  <1>6. \A q \in Service, k \in SId : ~Owner(q, k)
    BY <1>2, <1>3, <1>4 DEF Owner, Posted, Entered
  <1>7. LifeInv
    BY <1>1, <1>2, <1>4, <1>5, BarsShort DEF LifeInv, Blank, Refused
  <1>8. PostInv
    BY <1>1, <1>2, <1>4, <1>5, BarsShort DEF PostInv, Posted
  <1>9. RegistryInv
    BY <1>1, <1>3 DEF RegistryInv, Distinct
  <1>10. StartInv /\ TraceInv /\ OwnerInv /\ NameInv
    BY <1>2, <1>5, <1>6 DEF StartInv, TraceInv, OwnerInv, NameInv, Posted
  <1>11. LinkInv
    BY <1>1 DEF LinkInv
  <1>12. MentionInv
    BY <1>5 DEF MentionInv, Trace
  <1>13. AckInv
    BY <1>1, <1>2, BarsShort DEF AckInv, Dropped, Acked
  <1>14. SpoilInv
    BY <1>4 DEF SpoilInv
  <1>15. TableInv
    BY <1>1, <1>2 DEF TableInv, Distinct, NotUsed, Ready
  <1> QED BY <1>0, <1>7, <1>8, <1>9, <1>10, <1>11, <1>12, <1>13, <1>14, <1>15 DEF Inv

-----------------------------------------------------------------------------
(* The steps that a process takes by itself: they leave the channels and   *)
(* the registry alone, and what they note of a service, they know of it,   *)
(* or it is alive.                                                         *)
Working(p) == stage[p] \in {"registered", "connecting", "running"}

Internal ==
  /\ UNCHANGED << registry, unique, toNS, fromNS, sid, known >>
  /\ spoiled \subseteq spoiled'
  /\ nsUp => nsUp'
  /\ \A p \in Service : stage'[p] # stage[p] => Working(p) /\ Working(p)'
  /\ \A p \in Service :
       cnx'[p] # cnx[p] => cnx[p] = "cut" /\ cnx'[p] = "none" /\ Working(p)
  /\ \A p \in Service : ~Working(p) => ids'[p] = ids[p] /\ up'[p] = up[p]
  /\ \A p, q \in Service, k \in SId : Mentions(p, q, k)' =>
       \/ Mentions(p, q, k)
       \/ sid[q] = k /\ Working(p) /\ (Clean(p, k)' => Alive(q))

(* What the naming service waits for, it waits for a dead process.         *)
LEMMA WaitingIsDead ==
  ASSUME Inv, NEW q \in Service, NEW k \in SId, Alive(q), Owner(q, k),
         NEW e \in Entries(registry), e.waiting, e.sid = k
  PROVE  FALSE
PROOF
  <1>1. e \in Entry
    BY RegistryEntries DEF Inv
  <1>2. Owner(e.svc, k) /\ e.svc \in Service
    BY <1>1 DEF Owner, Entered, Entry
  <1>3. e.svc = q
    BY <1>2 DEF Inv, OwnerInv
  <1>4. stage[e.svc] = "dead"
    BY DEF Inv, RegistryInv
  <1> QED BY <1>3, <1>4 DEF Alive

(* The internal steps keep all that the naming service takes part in.      *)
LEMMA InternalKeeps ==
  ASSUME Inv, Internal
  PROVE  Protocol'
PROOF
  <1>1. /\ UNCHANGED << registry, unique, toNS, fromNS, sid, known >>
        /\ \A p \in Service : stage'[p] # stage[p] => Working(p) /\ Working(p)'
        /\ \A p \in Service :
             cnx'[p] # cnx[p] => cnx[p] = "cut" /\ cnx'[p] = "none" /\ Working(p)
        /\ \A p \in Service : ~Working(p) => ids'[p] = ids[p] /\ up'[p] = up[p]
        /\ nsUp => nsUp'
    BY DEF Internal
  <1>2. \A p, q \in Service, k \in SId : Mentions(p, q, k)' =>
          \/ Mentions(p, q, k)
          \/ sid[q] = k /\ Working(p) /\ (Clean(p, k)' => Alive(q))
    BY DEF Internal
  <1>3. \A p \in Service, k \in SId : Clean(p, k)' => Clean(p, k)
    BY DEF Internal, Clean
  <1>4. \A p \in Service : (Alive(p)' <=> Alive(p)) /\ (Working(p) => Alive(p))
    BY <1>1 DEF Alive, Working
  <1>5. \A q \in Service, k \in SId : /\ Granting(q, k)' <=> Granting(q, k)
                                      /\ Entered(q, k)' <=> Entered(q, k)
                                      /\ Awaited(q, k)' <=> Awaited(q, k)
                                      /\ Dropped(q, k)' <=> Dropped(q, k)
                                      /\ Acked(q, k)' <=> Acked(q, k)
    BY <1>1 DEF Granting, Entered, Awaited, Dropped, Acked, Mail, Post
  <1>6. \A q \in Service : /\ Refused(q)' <=> Refused(q)
                           /\ \A type : Posted(q, type)' <=> Posted(q, type)
                           /\ Mail(q)' = Mail(q)
                           /\ Post(q)' = Post(q)
    BY <1>1 DEF Refused, Posted, Mail, Post
  <1>7. \A q \in Service, k \in SId : Owner(q, k)' <=> Owner(q, k)
    BY <1>1, <1>4, <1>5, <1>6 DEF Owner
  <1>8. \A q \in Service, k \in SId : Trace(q, k)' => Trace(q, k)
    BY <1>1, <1>2, <1>5 DEF Trace
  <1>9. LifeInv'
    <2> SUFFICES ASSUME NEW p \in Service
                 PROVE  /\ ~Alive(p)' => /\ fromNS'[p] = << >> /\ cnx'[p] = "none"
                                         /\ Blank(p)'
                        /\ stage'[p] = "off" => /\ toNS'[p] = << >> /\ sid'[p] = 0
                                                /\ \A k \in SId : ~Trace(p, k)'
                        /\ stage'[p] = "registering" => sid'[p] = 0 /\ Blank(p)'
                        /\ Bars(fromNS'[p], FromNSMessage, Replies)
                        /\ (\E m \in Mail(p)' : m.type = "RG") => stage'[p] = "registering"
                        /\ stage'[p] = "registering" /\ fromNS'[p] # << >> =>
                             Head(fromNS'[p]).type = "RG"
                        /\ Refused(p)' => \A k \in SId : ~Trace(p, k)'
      BY DEF LifeInv
    <2>1. ~Working(p) => stage'[p] = stage[p] /\ cnx'[p] = cnx[p] /\ (Blank(p)' <=> Blank(p))
      BY <1>1 DEF Blank
    <2>2. stage'[p] \in {"off", "registering"} => ~Working(p)
      BY <1>1 DEF Working
    <2>3. stage[p] = "registering" => ~Working(p)
      BY DEF Working
    <2> QED BY <1>1, <1>4, <1>6, <1>8, <2>1, <2>2, <2>3 DEF Inv, LifeInv
  <1>10. PostInv'
    <2> SUFFICES ASSUME NEW p \in Service
                 PROVE  /\ Bars(toNS'[p], ToNSMessage, Firsts)
                        /\ Bars(toNS'[p], Lasts, ToNSMessage)
                        /\ Posted(p, "closed")' => stage'[p] = "dead"
                        /\ toNS'[p] # << >> =>
                             (Alive(p)' /\ cnx'[p] = "open") \/ Posted(p, "closed")'
                        /\ Posted(p, "RG")' => /\ fromNS'[p] = << >>
                                               /\ \A k \in SId : ~Trace(p, k)'
                        /\ Posted(p, "RRG")' => ~Entered(p, sid[p])'
                        /\ Posted(p, "ACK_UNI")' => Knows(registry, p)' \/ Posted(p, "RRG")'
                        /\ /\ Alive(p)' /\ cnx'[p] = "open"
                           /\ sid'[p] # 0 \/ \E k \in SId : Granting(p, k)'
                           => Knows(registry, p)' \/ Posted(p, "RRG")'
                        /\ nsUp' \/ toNS'[p] = << >>
      BY DEF PostInv
    <2>1. stage[p] = "dead" => stage'[p] = "dead"
      BY <1>1 DEF Working
    <2>2. cnx'[p] = "open" <=> cnx[p] = "open"
      BY <1>1
    <2>3. Entered(p, sid[p])' <=> Entered(p, sid[p])
      BY <1>1 DEF Entered
    <2>4. Knows(registry, p)' <=> Knows(registry, p)
      BY <1>1
    <2> QED BY <1>1, <1>4, <1>5, <1>6, <1>8, <2>1, <2>2, <2>3, <2>4 DEF Inv, PostInv
  <1>11. RegistryInv'
    <2>1. \A e \in Entries(registry) :
            /\ e.svc \in Service
            /\ stage[e.svc] = "dead" => stage'[e.svc] = "dead"
            /\ cnx[e.svc] = "open" => cnx'[e.svc] = "open"
            /\ stage'[e.svc] = "registering" => stage[e.svc] = "registering"
      BY <1>1, RegistryEntries DEF Working, Entry, Inv
    <2> QED BY <1>1, <1>4, <1>6, <2>1 DEF Inv, RegistryInv
  <1>12. StartInv'
    BY <1>1, <1>4, <1>6 DEF Inv, StartInv
  <1>13. TraceInv' /\ OwnerInv' /\ NameInv'
    BY <1>1, <1>7, <1>8 DEF Inv, TraceInv, OwnerInv, NameInv
  <1>14. \A p, q \in Service, k \in SId :
           Mentions(p, q, k)' /\ ~Mentions(p, q, k) /\ Clean(p, k)' =>
             /\ Owner(q, k)
             /\ \A e \in Entries(registry) : ~(e.waiting /\ e.sid = k)
    <2> SUFFICES ASSUME NEW p \in Service, NEW q \in Service, NEW k \in SId,
                        Mentions(p, q, k)', ~Mentions(p, q, k), Clean(p, k)'
                 PROVE  /\ Owner(q, k)
                        /\ \A e \in Entries(registry) : ~(e.waiting /\ e.sid = k)
      OBVIOUS
    <2>1. sid[q] = k /\ Alive(q)
      BY <1>2
    <2>2. Owner(q, k)
      BY <2>1 DEF Owner
    <2> QED BY <2>1, <2>2, WaitingIsDead
  <1>15. MentionInv'
    BY <1>1, <1>3, <1>5, <1>7, <1>14 DEF Inv, MentionInv
  <1>16. AckInv'
    <2> SUFFICES ASSUME NEW p \in Service, NEW k \in SId, Clean(p, k)'
                 PROVE  /\ Bars(fromNS'[p], Drops(k), Drops(k) \union Tales(k))
                        /\ Bars(toNS'[p], Acks(k), Acks(k))
                        /\ Dropped(p, k)' \/ Acked(p, k)' => Awaited(p, k)'
                        /\ Acked(p, k)' => /\ ~Dropped(p, k)'
                                           /\ \A q \in Service : ~Mentions(p, q, k)'
      BY DEF AckInv
    <2>1. Clean(p, k)
      BY <1>3
    <2>2. /\ Bars(fromNS[p], Drops(k), Drops(k) \union Tales(k))
          /\ Bars(toNS[p], Acks(k), Acks(k))
          /\ Dropped(p, k) \/ Acked(p, k) => Awaited(p, k)
          /\ Acked(p, k) => ~Dropped(p, k) /\ \A q \in Service : ~Mentions(p, q, k)
      BY <2>1 DEF Inv, AckInv
    <2>3. Awaited(p, k) => \E e \in Entries(registry) : e.waiting /\ e.sid = k
      BY DEF Awaited
    <2> QED BY <1>1, <1>5, <1>14, <2>2, <2>3
  <1>17. SpoilInv'
    <2>1. \A q \in Service : stage'[q] = "registering" => stage[q] = "registering"
      BY <1>1 DEF Working
    <2>2. \A q \in Service : cnx'[q] # "open" => cnx[q] # "open"
      BY <1>1
    <2> QED BY <1>3, <1>5, <2>1, <2>2 DEF Inv, SpoilInv
  <1> QED BY <1>9, <1>10, <1>11, <1>12, <1>13, <1>15, <1>16, <1>17 DEF Protocol

(* The entries of the tables that change still have the name of a service  *)
(* that the process knows of.                                              *)
LEMMA TableKept ==
  ASSUME Inv, UNCHANGED << known, sid, fromNS >>, spoiled \subseteq spoiled',
         \A p \in Service : up[p] \subseteq up'[p],
         \A p \in Service, k \in SId :
           \/ ids'[p][k] = ids[p][k]
           \/ /\ Ready(ids'[p][k])
              /\ ids'[p][k].conn # "empty"
              /\ Clean(p, k)' => \E q \in Service : NameOf[q] = ids'[p][k].name /\ Noted(p, q, k)'
  PROVE  TableInv'
PROOF
  <1>1. \A p, q \in Service, k \in SId : Noted(p, q, k) => Noted(p, q, k)'
    BY DEF Noted, Listed
  <1>2. \A p \in Service, k \in SId : Clean(p, k)' => Clean(p, k)
    BY DEF Clean
  <1> SUFFICES ASSUME NEW p \in Service
               PROVE  /\ Distinct(known'[p])
                      /\ \A m \in Mail(p)' : m.type = "RG" /\ m.ok => Distinct(m.list)
                      /\ \A e \in Entries(known'[p]) : e.sid # sid'[p] => Ready(ids'[p][e.sid])
                      /\ \A k \in SId :
                           /\ ids'[p][k].conn # "empty" => Ready(ids'[p][k])
                           /\ ids'[p][k].peer # None => ids'[p][k].conn # "empty"
                           /\ Clean(p, k)' /\ Ready(ids'[p][k]) =>
                                \E q \in Service :
                                  NameOf[q] = ids'[p][k].name /\ Noted(p, q, k)'
    BY DEF TableInv
  <1>3. Distinct(known'[p]) /\ \A m \in Mail(p)' : m.type = "RG" /\ m.ok => Distinct(m.list)
    BY DEF Inv, TableInv, Mail
  <1>4. ASSUME NEW e \in Entries(known'[p]), e.sid # sid'[p]
        PROVE  Ready(ids'[p][e.sid])
    <2>1. e.sid \in SId
      <3>1. known[p] \in Seq([svc : Service, sid : SId]) /\ known' = known
        BY Vars DEF Inv
      <3>2. Entries(known[p]) \subseteq [svc : Service, sid : SId]
        BY <3>1, EntriesType
      <3>3. e \in [svc : Service, sid : SId]
        BY <1>4, <3>1, <3>2
      <3> QED BY <3>3
    <2>2. Ready(ids[p][e.sid])
      BY <1>4 DEF Inv, TableInv
    <2> QED BY <2>1, <2>2
  <1>5. ASSUME NEW k \in SId
        PROVE  /\ ids'[p][k].conn # "empty" => Ready(ids'[p][k])
               /\ ids'[p][k].peer # None => ids'[p][k].conn # "empty"
               /\ Clean(p, k)' /\ Ready(ids'[p][k]) =>
                    \E q \in Service : NameOf[q] = ids'[p][k].name /\ Noted(p, q, k)'
    <2>1. CASE ids'[p][k] = ids[p][k]
      BY <1>1, <1>2, <2>1 DEF Inv, TableInv
    <2>2. CASE ids'[p][k] # ids[p][k]
      BY <2>2
    <2> QED BY <2>1, <2>2
  <1> QED BY <1>3, <1>4, <1>5

(* What is left to show of an internal step: the types, the connections    *)
(* and the tables.                                                         *)
LEMMA InternalInv ==
  ASSUME Inv, TypeInv', Internal, LinkInv', TableInv'
  PROVE  Inv'
PROOF
  BY InternalKeeps DEF Inv, Protocol

(* The steps that only move a process or its connections on.               *)
LEMMA ConnectionInv ==
  ASSUME Inv,
         \/ \E p \in Service : NoticeNS(p) \/ Connect(p) \/ Connected(p)
         \/ \E p, q \in Service : ServerLost(p, q)
         \/ NSRestart
         \/ UNCHANGED vars
  PROVE  Inv'
PROOF
  <1>1. /\ UNCHANGED << registry, unique, toNS, fromNS, sid, known, ids, up >>
        /\ nsUp => nsUp'
    BY DEF NoticeNS, Connect, Connected, NSRestart, ServerLost, vars, naming, channels, tables
  <1>2. spoiled \subseteq spoiled'
    BY DEF NoticeNS, Connect, Connected, NSRestart, ServerLost, vars
  <1>0. /\ stage \in [Service -> {"off", "registering", "registered", "connecting", "running",
                                 "dead"}]
        /\ cnx \in [Service -> {"none", "open", "cut"}]
        /\ link \in [Service -> [Service -> State]]
    BY Vars DEF Inv
  <1>3. \A q \in Service : stage'[q] # stage[q] => Working(q) /\ Working(q)'
    <2>1. ASSUME NEW p \in Service, Connect(p)
          PROVE  \A q \in Service : stage'[q] # stage[q] => Working(q) /\ Working(q)'
      <3>1. stage[p] = "registered"
        BY <2>1 DEF Connect
      <3>2. \/ stage' = [stage EXCEPT ![p] = "running"]
            \/ stage' = [stage EXCEPT ![p] = "connecting"]
        BY <2>1 DEF Connect
      <3> QED BY <1>0, <3>1, <3>2 DEF Working
    <2>2. ASSUME NEW p \in Service, Connected(p)
          PROVE  \A q \in Service : stage'[q] # stage[q] => Working(q) /\ Working(q)'
      <3>1. stage[p] = "connecting" /\ stage' = [stage EXCEPT ![p] = "running"]
        BY <2>2 DEF Connected
      <3> QED BY <1>0, <3>1 DEF Working
    <2>3. CASE \/ \E p \in Service : NoticeNS(p)
               \/ \E p, q \in Service : ServerLost(p, q)
               \/ NSRestart
               \/ UNCHANGED vars
      BY <2>3 DEF NoticeNS, NSRestart, ServerLost, vars
    <2> QED BY <2>1, <2>2, <2>3
  <1>4. \A q \in Service : cnx'[q] # cnx[q] => cnx[q] = "cut" /\ cnx'[q] = "none" /\ Working(q)
    <2>1. ASSUME NEW p \in Service, NoticeNS(p)
          PROVE  \A q \in Service :
                   cnx'[q] # cnx[q] => cnx[q] = "cut" /\ cnx'[q] = "none" /\ Working(q)
      <3>1. /\ stage[p] \in {"registered", "running"} /\ cnx[p] = "cut"
            /\ cnx' = [cnx EXCEPT ![p] = "none"]
        BY <2>1 DEF NoticeNS, Updates
      <3> QED BY <1>0, <3>1 DEF Working
    <2>2. CASE \/ \E p \in Service : Connect(p) \/ Connected(p)
               \/ \E p, q \in Service : ServerLost(p, q)
               \/ NSRestart
               \/ UNCHANGED vars
      BY <2>2 DEF Connect, Connected, NSRestart, ServerLost, vars, channels
    <2> QED BY <2>1, <2>2
  <1>5. \A c, q \in Service : link'[c][q] = "ident" => link[c][q] = "ident"
    <2>1. ASSUME NEW p \in Service, NEW q \in Service, ServerLost(p, q)
          PROVE  \A c, r \in Service : link'[c][r] = "ident" => link[c][r] = "ident"
      <3>1. link' = [link EXCEPT ![p][q] = "closed"]
        BY <2>1 DEF ServerLost
      <3> QED BY <1>0, <3>1
    <2>2. CASE \/ \E p \in Service : NoticeNS(p) \/ Connect(p) \/ Connected(p)
               \/ NSRestart
               \/ UNCHANGED vars
      BY <2>2 DEF NoticeNS, Connect, Connected, NSRestart, vars
    <2> QED BY <2>1, <2>2
  <1>6. \A r, q \in Service, k \in SId : Mentions(r, q, k)' => Mentions(r, q, k)
    BY <1>1 DEF Mentions, Noted, Listed, Told, Mail
  <1>7. Internal
    BY <1>1, <1>2, <1>3, <1>4, <1>6 DEF Internal
  <1>8. LinkInv'
    BY <1>3, <1>5 DEF Inv, LinkInv, Alive, Working
  <1>9. TableInv'
    BY <1>1, <1>2, TableKept
  <1>10. TypeInv'
    <2>1. [Next]_vars
      BY DEF Next, Process
    <2> QED BY <2>1, TypeNext DEF Inv
  <1> QED BY <1>7, <1>8, <1>9, <1>10, InternalInv

(* A service that is connected to is in the list, or died: it is mentioned *)
(* as before.                                                              *)
LEMMA AddServiceInv ==
  ASSUME Inv, NEW c \in Service, AddService(c)
  PROVE  Inv'
PROOF
  <1> DEFINE i == Min(ToConnect(c))
  <1>1. /\ stage[c] = "connecting" /\ ToConnect(c) # {}
        /\ UNCHANGED << naming, channels, stage, sid, known, faults, spoiled >>
    BY DEF AddService
  <1>0. PICK p \in Service, k \in SId : p = known[c][i].svc /\ k = known[c][i].sid
    BY <1>1, ToConnectType DEF Inv
  <1>2. \/ /\ ids' = [ids EXCEPT ![c][k].conn = "client", ![c][k].peer = p]
           /\ link' = [link EXCEPT ![c][p] = "ident"]
           /\ up' = [up EXCEPT ![c] = @ \union {<< p, k >>}]
        \/ /\ ids' = [ids EXCEPT ![c][k].conn = "invalid"]
           /\ UNCHANGED << link, up >>
    BY <1>0 DEF AddService
  <1>3. i \in ToConnect(c) /\ i \in DOMAIN known[c]
    BY <1>1, ToConnectType DEF Inv
  <1>4. Listed(c, p, k)
    BY <1>0, <1>3 DEF Listed, Entries
  <1>5. Ready(ids[c][k])
    <2>1. k # sid[c]
      <3>1. i \in 1 .. i
        <4>1. DOMAIN known[c] \in SUBSET Nat /\ 1 <= i
          <5>1. known[c] \in Seq([svc : Service, sid : SId])
            BY Vars DEF Inv
          <5>2. DOMAIN known[c] = 1 .. Len(known[c]) /\ Len(known[c]) \in Nat
            BY <5>1, LenProperties
          <5> HIDE DEF i
          <5> QED BY <5>2, <1>3
        <4> HIDE DEF i
        <4> QED BY <4>1, <1>3
      <3> QED BY <1>0, <1>3, <3>1 DEF ToConnect, Before
    <2>2. known[c][i] \in Entries(known[c])
      BY <1>3 DEF Entries
    <2> QED BY <1>0, <2>1, <2>2 DEF Inv, TableInv
  <1> HIDE DEF i
  <1>6. /\ \A r \in Service, j \in SId : r # c \/ j # k => ids'[r][j] = ids[r][j]
        /\ ids'[c][k].name = ids[c][k].name
        /\ ids'[c][k].conn # "empty"
        /\ ids'[c][k].peer \in {p, ids[c][k].peer}
    <2>1. ids \in [Service -> [SId -> IdEntry]]
      BY Vars DEF Inv
    <2>2. ids[c][k] \in IdEntry
      BY <2>1, <1>3
    <2>3. \/ ids' = [ids EXCEPT ![c][k] = [ids[c][k] EXCEPT !.conn = "client", !.peer = p]]
          \/ ids' = [ids EXCEPT ![c][k] = [ids[c][k] EXCEPT !.conn = "invalid"]]
      BY ZenonT(60), <1>2, <1>3, <2>1
    <2>4. ids'[c][k] \in {[ids[c][k] EXCEPT !.conn = "client", !.peer = p],
                          [ids[c][k] EXCEPT !.conn = "invalid"]}
      BY <2>1, <2>3, <1>3
    <2>5. \A r \in Service, j \in SId : r # c \/ j # k => ids'[r][j] = ids[r][j]
      BY <2>1, <2>3, <1>3
    <2> QED BY <2>2, <2>4, <2>5 DEF IdEntry
  <1>7. \A r \in Service : /\ up[r] \subseteq up'[r]
                           /\ up'[r] \subseteq up[r] \union {<< p, k >>}
                           /\ r # c => up'[r] = up[r]
    BY <1>2, Vars DEF Inv
  <1>8. Working(c)
    BY <1>1 DEF Working
  <1>9. \A r, q \in Service, j \in SId : Mentions(r, q, j)' => Mentions(r, q, j)
    <2> SUFFICES ASSUME NEW r \in Service, NEW q \in Service, NEW j \in SId, Mentions(r, q, j)'
                 PROVE  Mentions(r, q, j)
      OBVIOUS
    <2>1. CASE r = c /\ q = p /\ j = k
      BY <1>4, <2>1 DEF Mentions, Noted
    <2>2. CASE ~(r = c /\ q = p /\ j = k)
      <3>1. << q, j >> \in up'[r] => << q, j >> \in up[r]
        BY <1>7, <2>2
      <3>2. ids'[r][j].peer = q => ids[r][j].peer = q
        BY <1>6, <2>2
      <3> QED BY <1>1, <3>1, <3>2 DEF Mentions, Noted, Listed, Told, Mail, channels
    <2> QED BY <2>1, <2>2
  <1>10. Internal
    <2>1. /\ UNCHANGED << registry, unique, toNS, fromNS, sid, known, spoiled, stage, cnx >>
          /\ nsUp => nsUp'
      BY <1>1 DEF naming, channels
    <2>2. \A r \in Service : ~Working(r) => ids'[r] = ids[r] /\ up'[r] = up[r]
      <3>1. \A r \in Service : r # c => ids'[r] = ids[r]
        BY <1>2, Vars DEF Inv
      <3> QED BY <3>1, <1>7, <1>8
    <2> QED BY <2>1, <2>2, <1>9 DEF Internal
  <1>11. LinkInv'
    <2>1. \A d, q \in Service : link'[d][q] = "ident" => link[d][q] = "ident" \/ d = c
      BY <1>2, Vars DEF Inv
    <2>2. Alive(c)
      BY <1>1 DEF Alive
    <2> QED BY <1>1, <2>1, <2>2 DEF Inv, LinkInv, Alive
  <1>12. TableInv'
    <2>1. Ready(ids'[c][k])
      BY <1>5, <1>6 DEF Ready
    <2>2. Clean(c, k) => \E q \in Service : NameOf[q] = ids'[c][k].name /\ Noted(c, q, k)
      BY <1>3, <1>5, <1>6 DEF Inv, TableInv
    <2>3. Clean(c, k)' => \E q \in Service : NameOf[q] = ids'[c][k].name /\ Noted(c, q, k)'
      <3>1. Clean(c, k)' <=> Clean(c, k)
        BY <1>1 DEF Clean
      <3>2. \A q \in Service : Noted(c, q, k) => Noted(c, q, k)'
        BY <1>1, <1>7 DEF Noted, Listed
      <3> QED BY <2>2, <3>1, <3>2
    <2>4. ASSUME NEW r \in Service, NEW j \in SId
          PROVE  \/ ids'[r][j] = ids[r][j]
                 \/ /\ Ready(ids'[r][j])
                    /\ ids'[r][j].conn # "empty"
                    /\ Clean(r, j)' =>
                         \E q \in Service : NameOf[q] = ids'[r][j].name /\ Noted(r, q, j)'
      <3>1. CASE r = c /\ j = k
        BY <1>6, <2>1, <2>3, <3>1
      <3>2. CASE ~(r = c /\ j = k)
        BY <1>6, <3>2
      <3> QED BY <3>1, <3>2
    <2> QED BY <1>1, <1>7, <2>4, TableKept DEF channels
  <1>13. TypeInv'
    BY AddServiceType DEF Inv
  <1> QED BY <1>10, <1>11, <1>12, <1>13, InternalInv

(* A service says who it is on a connection while it is alive; when it is  *)
(* not any more, the naming service is waited for, or the identifier is    *)
(* spoiled.                                                                *)
LEMMA IdentificationInv ==
  ASSUME Inv, NEW p \in Service, NEW c \in Service, ServiceIdentification(p, c)
  PROVE  Inv'
PROOF
  <1>1. /\ stage[p] = "running" /\ link[c][p] \in {"ident", "gone"}
        /\ UNCHANGED << naming, channels, stage, sid, known, faults >>
    BY DEF ServiceIdentification
  <1>0. PICK k \in SId : k = sid[c]
    <2>1. sid \in [Service -> SId \union {0}]
      BY Vars DEF Inv
    <2>2. sid[c] # 0
      BY <1>1 DEF Inv, TypeInv, Identified
    <2> QED BY <2>1, <2>2
  <1>2. /\ ids' = [ids EXCEPT ![p][k] =
                     [Inserted(ids[p][k], c) EXCEPT !.conn = "server", !.peer = c]]
        /\ up' = IF ids[p][k].conn = "empty" THEN [up EXCEPT ![p] = @ \union {<< c, k >>}] ELSE up
        /\ IF link[c][p] = "gone" /\ Late(p, c) THEN Spoil({p}, {k}) ELSE UNCHANGED spoiled
        /\ link' = [link EXCEPT ![c][p] = IF @ = "gone" THEN "broken" ELSE "up"]
    BY <1>0 DEF ServiceIdentification
  <1>3. /\ ids \in [Service -> [SId -> IdEntry]]
        /\ up \in [Service -> SUBSET (Service \X SId)]
        /\ link \in [Service -> [Service -> State]]
        /\ known \in [Service -> Seq([svc : Service, sid : SId])]
    BY Vars DEF Inv
  <1>4. /\ \A r \in Service, j \in SId : r # p \/ j # k => ids'[r][j] = ids[r][j]
        /\ \A r \in Service : r # p => ids'[r] = ids[r]
        /\ ids'[p][k].name = IF Ready(ids[p][k]) THEN ids[p][k].name ELSE NameOf[c]
        /\ ids'[p][k].conn = "server"
        /\ ids'[p][k].peer = c
    <2>1. ids[p][k] \in IdEntry
      BY <1>3
    <2>2. Inserted(ids[p][k], c) \in IdEntry
      BY <2>1, InsertedType
    <2>3. Inserted(ids[p][k], c).name = IF Ready(ids[p][k]) THEN ids[p][k].name ELSE NameOf[c]
      BY DEF Inserted, NotUsed
    <2>4. ids'[p][k] = [Inserted(ids[p][k], c) EXCEPT !.conn = "server", !.peer = c]
      BY <1>2, <1>3
    <2>5. /\ \A r \in Service, j \in SId : r # p \/ j # k => ids'[r][j] = ids[r][j]
          /\ \A r \in Service : r # p => ids'[r] = ids[r]
      BY <1>2, <1>3
    <2> QED BY <2>2, <2>3, <2>4, <2>5 DEF IdEntry
  <1>5. \A r \in Service : /\ up[r] \subseteq up'[r]
                           /\ up'[r] \subseteq up[r] \union {<< c, k >>}
                           /\ r # p => up'[r] = up[r]
    BY <1>2, <1>3
  <1>6. spoiled \subseteq spoiled'
    BY <1>2 DEF Spoil
  <1>7. \A r, q \in Service, j \in SId :
          Mentions(r, q, j)' => Mentions(r, q, j) \/ (r = p /\ q = c /\ j = k)
    <2> SUFFICES ASSUME NEW r \in Service, NEW q \in Service, NEW j \in SId,
                        Mentions(r, q, j)', ~(r = p /\ q = c /\ j = k)
                 PROVE  Mentions(r, q, j)
      OBVIOUS
    <2>1. << q, j >> \in up'[r] => << q, j >> \in up[r]
      BY <1>5
    <2>2. ids'[r][j].peer = q => ids[r][j].peer = q
      BY <1>4
    <2> QED BY <1>1, <2>1, <2>2 DEF Mentions, Noted, Listed, Told, Mail, channels
  <1>8. Clean(p, k)' => Alive(c) \/ Mentions(p, c, k)
    <2>1. CASE link[c][p] = "ident"
      BY <2>1 DEF Inv, LinkInv
    <2>2. ASSUME link[c][p] = "gone", Clean(p, k)'
          PROVE  Mentions(p, c, k)
      <3>1. ~Late(p, c)
        BY <1>2, <2>2 DEF Clean, Spoil
      <3>2. \E j \in SId : Mentions(p, c, j)
        <4>1. CASE \E h \in DOMAIN known[p] : known[p][h].svc = c
          <5>1. PICK h \in DOMAIN known[p] : known[p][h].svc = c
            BY <4>1
          <5>2. known[p][h].sid \in SId /\ known[p][h] \in Entries(known[p])
            <6>1. known[p] \in Seq([svc : Service, sid : SId])
              BY <1>3
            <6>2. known[p][h] \in [svc : Service, sid : SId]
              BY <6>1, EntriesType
            <6> QED BY <6>2 DEF Entries
          <5>3. Listed(p, c, known[p][h].sid)
            BY <5>1, <5>2 DEF Listed
          <5> QED BY <5>2, <5>3 DEF Mentions, Noted
        <4>2. CASE \E h \in DOMAIN fromNS[p] : fromNS[p][h].type = "RGB" /\ fromNS[p][h].svc = c
          <5>1. PICK h \in DOMAIN fromNS[p] : fromNS[p][h].type = "RGB" /\ fromNS[p][h].svc = c
            BY <4>2
          <5>2. fromNS[p][h] \in Mail(p)
            BY DEF Mail, Entries
          <5>3. fromNS[p][h].sid \in SId
            BY <5>1, <5>2, Messages, MessageFields DEF Inv
          <5>4. Told(p, c, fromNS[p][h].sid)
            BY <5>1, <5>2 DEF Told, Tells
          <5> QED BY <5>3, <5>4 DEF Mentions
        <4> QED BY <3>1, <4>1, <4>2 DEF Late
      <3>3. \A j \in SId : Mentions(p, c, j) => j = k
        <4>1. Trace(c, k)
          BY <1>0 DEF Trace
        <4>2. \A j \in SId : Mentions(p, c, j) => Trace(c, j)
          BY DEF Trace
        <4> QED BY <4>1, <4>2 DEF Inv, TraceInv
      <3> QED BY <3>2, <3>3
    <2> QED BY <1>1, <2>1, <2>2
  <1>9. Internal
    <2>1. /\ UNCHANGED << registry, unique, toNS, fromNS, sid, known, stage, cnx >>
          /\ nsUp => nsUp'
      BY <1>1 DEF naming, channels
    <2>2. \A r \in Service : ~Working(r) => ids'[r] = ids[r] /\ up'[r] = up[r]
      BY <1>1, <1>4, <1>5 DEF Working
    <2>3. Working(p)
      BY <1>1 DEF Working
    <2>4. \A r, q \in Service, j \in SId : Mentions(r, q, j)' =>
            \/ Mentions(r, q, j)
            \/ sid[q] = j /\ Working(r) /\ (Clean(r, j)' => Alive(q))
      BY <1>0, <1>7, <1>8, <2>3
    <2> QED BY <1>6, <2>1, <2>2, <2>4 DEF Internal
  <1>10. LinkInv'
    <2>1. \A d, q \in Service : link'[d][q] = "ident" => link[d][q] = "ident"
      BY <1>2, <1>3
    <2> QED BY <1>1, <2>1 DEF Inv, LinkInv, Alive
  <1>11. TableInv'
    <2>1. Ready(ids'[p][k])
      <3>1. NameOf[c] # "DEAD"
        BY ShardAssumption DEF ShardAssumption
      <3> QED BY <1>4, <3>1 DEF Ready
    <2>2. Clean(p, k)' => \E q \in Service : NameOf[q] = ids'[p][k].name /\ Noted(p, q, k)'
      <3>1. Clean(p, k)' => Clean(p, k)
        BY <1>6 DEF Clean
      <3>2. \A q \in Service : Noted(p, q, k) => Noted(p, q, k)'
        BY <1>1, <1>5 DEF Noted, Listed
      <3>3. CASE Ready(ids[p][k])
        <4>1. Clean(p, k) => \E q \in Service : NameOf[q] = ids[p][k].name /\ Noted(p, q, k)
          BY <3>3 DEF Inv, TableInv
        <4> QED BY <1>4, <3>1, <3>2, <3>3, <4>1
      <3>4. CASE ~Ready(ids[p][k])
        <4>1. ids[p][k].conn = "empty"
          BY <3>4 DEF Inv, TableInv
        <4>2. << c, k >> \in up'[p]
          BY <1>2, <1>3, <4>1
        <4>3. Noted(p, c, k)'
          BY <4>2 DEF Noted
        <4> QED BY <1>4, <3>4, <4>3
      <3> QED BY <3>3, <3>4
    <2>3. ASSUME NEW r \in Service, NEW j \in SId
          PROVE  \/ ids'[r][j] = ids[r][j]
                 \/ /\ Ready(ids'[r][j])
                    /\ ids'[r][j].conn # "empty"
                    /\ Clean(r, j)' =>
                         \E q \in Service : NameOf[q] = ids'[r][j].name /\ Noted(r, q, j)'
      <3>1. CASE r = p /\ j = k
        BY <1>4, <2>1, <2>2, <3>1
      <3>2. CASE ~(r = p /\ j = k)
        BY <1>4, <3>2
      <3> QED BY <3>1, <3>2
    <2> QED BY <1>1, <1>5, <1>6, <2>3, TableKept DEF channels
  <1>12. TypeInv'
    BY IdentificationType DEF Inv
  <1> QED BY <1>9, <1>10, <1>11, <1>12, InternalInv

(* A lost connection is taken out of the entry, whose name stays noted.    *)
LEMMA ClientLostInv ==
  ASSUME Inv, NEW p \in Service, NEW q \in Service, ClientLost(p, q)
  PROVE  Inv'
PROOF
  <1>1. /\ stage[p] = "running"
        /\ UNCHANGED << naming, channels, stage, sid, known, up, faults, spoiled >>
        /\ link' = [link EXCEPT ![q][p] = "closed"]
    BY DEF ClientLost
  <1>2. /\ ids \in [Service -> [SId -> IdEntry]]
        /\ link \in [Service -> [Service -> State]]
        /\ sid \in [Service -> SId \union {0}]
    BY Vars DEF Inv
  <1>3. \/ ids' = ids
        \/ \E k \in SId : /\ ids[p][k].peer = q
                          /\ ids' = [ids EXCEPT ![p][k].conn = "invalid", ![p][k].peer = None]
    <2>1. CASE ~Holds(p, q)
      BY <2>1 DEF ClientLost
    <2>2. ASSUME Holds(p, q), sid[q] = 0
          PROVE  ids' = ids
      <3>1. ids' = [ids EXCEPT ![p][0].conn = "invalid", ![p][0].peer = None]
        BY <2>2 DEF ClientLost
      <3>2. 0 \notin SId
        BY SIdNat
      <3>3. [ids[p] EXCEPT ![0].conn = "invalid", ![0].peer = None] = ids[p]
        BY <1>2, <3>2
      <3> QED BY <1>2, <3>1, <3>2, <3>3
    <2>3. ASSUME Holds(p, q), sid[q] # 0
          PROVE  \E k \in SId : /\ ids[p][k].peer = q
                                /\ ids' = [ids EXCEPT ![p][k].conn = "invalid",
                                                      ![p][k].peer = None]
      <3>1. PICK k \in SId : ids[p][k].peer = q
        BY <2>3 DEF Holds
      <3>2. Trace(q, k)
        BY <3>1 DEF Mentions, Trace
      <3>3. sid[q] \in SId /\ Trace(q, sid[q])
        BY <1>2, <2>3 DEF Trace
      <3>4. sid[q] = k
        BY <3>2, <3>3 DEF Inv, TraceInv
      <3>5. ids' = [ids EXCEPT ![p][k].conn = "invalid", ![p][k].peer = None]
        BY <2>3, <3>4 DEF ClientLost
      <3> QED BY <3>1, <3>5
    <2> QED BY <2>1, <2>2, <2>3
  <1>4. \A r \in Service, j \in SId :
          \/ ids'[r][j] = ids[r][j]
          \/ /\ r = p
             /\ ids[r][j].peer = q
             /\ ids'[r][j] = [ids[r][j] EXCEPT !.conn = "invalid", !.peer = None]
    <2>1. CASE ids' = ids
      BY <2>1
    <2>2. ASSUME NEW k \in SId, ids[p][k].peer = q,
                 ids' = [ids EXCEPT ![p][k].conn = "invalid", ![p][k].peer = None]
          PROVE  \A r \in Service, j \in SId :
                   \/ ids'[r][j] = ids[r][j]
                   \/ /\ r = p
                      /\ ids[r][j].peer = q
                      /\ ids'[r][j] = [ids[r][j] EXCEPT !.conn = "invalid", !.peer = None]
      <3> DEFINE lost == [ids[p][k] EXCEPT !.conn = "invalid", !.peer = None]
      <3>1. ids' = [ids EXCEPT ![p][k] = lost]
        BY <1>2, <2>2
      <3> HIDE DEF lost
      <3>2. \A r \in Service, j \in SId : r # p \/ j # k => ids'[r][j] = ids[r][j]
        BY <1>2, <3>1
      <3>3. ids'[p][k] = lost
        BY <1>2, <3>1
      <3>4. ids'[p][k] = [ids[p][k] EXCEPT !.conn = "invalid", !.peer = None]
        BY <3>3 DEF lost
      <3> QED BY <2>2, <3>2, <3>4
    <2> QED BY <1>3, <2>1, <2>2
  <1>5. ids' \in [Service -> [SId -> IdEntry]]
    BY LostType, Vars DEF Inv, TypeInv, Typed, TablesType
  <1>6. \A r \in Service : r # p => ids'[r] = ids[r]
    <2>1. ASSUME NEW k, ids' = [ids EXCEPT ![p][k].conn = "invalid", ![p][k].peer = None]
          PROVE  \A r \in Service : r # p => ids'[r] = ids[r]
      BY <1>2, <2>1
    <2> QED BY <1>3, <2>1
  <1>7. \A r, s \in Service, j \in SId : Mentions(r, s, j)' => Mentions(r, s, j)
    <2> SUFFICES ASSUME NEW r \in Service, NEW s \in Service, NEW j \in SId, Mentions(r, s, j)'
                 PROVE  Mentions(r, s, j)
      OBVIOUS
    <2>1. s # None
      BY ShardAssumption DEF ShardAssumption
    <2>2. ids[r][j] \in IdEntry
      BY <1>2
    <2>3. ids'[r][j].peer = s => ids[r][j].peer = s
      BY ZenonT(60), <1>4, <2>1, <2>2 DEF IdEntry
    <2> QED BY <1>1, <2>3 DEF Mentions, Noted, Listed, Told, Mail, channels
  <1>8. Internal
    <2>1. /\ UNCHANGED << registry, unique, toNS, fromNS, sid, known, up, spoiled, stage, cnx >>
          /\ nsUp => nsUp'
      BY <1>1 DEF naming, channels
    <2>2. \A r \in Service : ~Working(r) => ids'[r] = ids[r] /\ up'[r] = up[r]
      BY <1>1, <1>6 DEF Working
    <2> QED BY <1>7, <2>1, <2>2 DEF Internal
  <1>9. LinkInv'
    <2>1. \A d, r \in Service : link'[d][r] = "ident" => link[d][r] = "ident"
      BY <1>1, <1>2
    <2> QED BY <1>1, <2>1 DEF Inv, LinkInv, Alive
  <1>10. TableInv'
    <2>1. ASSUME NEW r \in Service, NEW j \in SId
          PROVE  \/ ids'[r][j] = ids[r][j]
                 \/ /\ Ready(ids'[r][j])
                    /\ ids'[r][j].conn # "empty"
                    /\ Clean(r, j)' =>
                         \E s \in Service : NameOf[s] = ids'[r][j].name /\ Noted(r, s, j)'
      <3>1. CASE ids'[r][j] = ids[r][j]
        BY <3>1
      <3>2. CASE ids'[r][j] # ids[r][j]
        <4>1. ids[r][j].peer = q /\ q # None
          BY <1>4, <3>2, ShardAssumption DEF ShardAssumption
        <4>2. Ready(ids[r][j])
          BY <4>1 DEF Inv, TableInv
        <4>3. ids[r][j] \in IdEntry
          BY <1>2
        <4>4. ids'[r][j].name = ids[r][j].name /\ ids'[r][j].conn = "invalid"
          <5>1. ids'[r][j] = [ids[r][j] EXCEPT !.conn = "invalid", !.peer = None]
            BY <1>4, <3>2
          <5> QED BY <4>3, <5>1 DEF IdEntry
        <4>5. Clean(r, j) =>
                \E s \in Service : NameOf[s] = ids[r][j].name /\ Noted(r, s, j)
          BY <4>2 DEF Inv, TableInv
        <4>6. /\ Clean(r, j)' <=> Clean(r, j)
              /\ \A s \in Service : Noted(r, s, j)' <=> Noted(r, s, j)
          BY <1>1 DEF Clean, Noted, Listed
        <4> QED BY <4>2, <4>4, <4>5, <4>6 DEF Ready
      <3> QED BY <3>1, <3>2
    <2> QED BY <1>1, <2>1, TableKept DEF channels
  <1>11. TypeInv'
    BY LostType DEF Inv
  <1> QED BY <1>8, <1>9, <1>10, <1>11, InternalInv

-----------------------------------------------------------------------------
(* The naming service takes the first message of a connection.             *)
LEMMA Taken ==
  ASSUME Inv, NEW p \in Service, NEW type, Received(p, type), Handled(p)
  PROVE  /\ nsUp /\ toNS[p] # << >>
         /\ Head(toNS[p]) \in ToNSMessage /\ Head(toNS[p]).type = type
         /\ Post(p) = {Head(toNS[p])} \union Post(p)'
         /\ \A q \in Service : /\ Post(q)' \subseteq Post(q)
                               /\ \A A, B : Bars(toNS[q], A, B) => Bars(toNS'[q], A, B)
         /\ \A q \in Service : q # p => toNS'[q] = toNS[q] /\ Post(q)' = Post(q)
         /\ \A m \in Post(p)' : m.type \notin {"RG", "RRG"}
         /\ \A A, B : Head(toNS[p]) \in A /\ Bars(toNS[p], A, B) => Post(p)' \intersect B = {}
         /\ toNS'[p] # << >> => toNS[p] # << >>
PROOF
  <1>1. toNS \in [Service -> Seq(ToNSMessage)] /\ toNS[p] \in Seq(ToNSMessage)
    BY Vars DEF Inv
  <1>2. /\ nsUp /\ toNS[p] # << >> /\ Head(toNS[p]).type = type
        /\ toNS' = [toNS EXCEPT ![p] = Tail(@)]
    BY DEF Received, Handled
  <1>3. toNS'[p] = Tail(toNS[p]) /\ \A q \in Service : q # p => toNS'[q] = toNS[q]
    BY <1>1, <1>2
  <1>4. \A q \in Service : q # p => Post(q)' = Post(q)
    BY <1>3 DEF Post
  <1>5. Post(p) = {Head(toNS[p])} \union Post(p)'
    BY <1>1, <1>2, <1>3, TailEntries DEF Post
  <1>6. \A A, B : Bars(toNS[p], A, B) =>
          /\ Bars(toNS'[p], A, B)
          /\ Head(toNS[p]) \in A => Post(p)' \intersect B = {}
    BY <1>1, <1>2, <1>3, BarsTail DEF Post
  <1>7. Head(toNS[p]) \in ToNSMessage
    BY <1>5, Messages DEF Inv
  <1>8. \A m \in Post(p)' : m.type \notin {"RG", "RRG"}
    <2>1. Bars(toNS[p], ToNSMessage, Firsts)
      BY DEF Inv, PostInv
    <2>2. Post(p)' \intersect Firsts = {}
      BY <1>6, <1>7, <2>1
    <2>3. Post(p)' \subseteq ToNSMessage
      BY <1>5, Messages DEF Inv
    <2> QED BY <2>2, <2>3 DEF Firsts
  <1> QED BY <1>2, <1>3, <1>4, <1>5, <1>6, <1>7, <1>8

(* Nobody gets an identifier nor another name for one.                     *)
LEMMA NothingNew ==
  ASSUME Inv, unique' = unique,
         \A q \in Service, k \in SId : Trace(q, k)' => Trace(q, k),
         \A q \in Service, k \in SId : Owner(q, k)' => Owner(q, k)
  PROVE  TraceInv' /\ OwnerInv' /\ NameInv'
PROOF
  <1>1. TraceInv' /\ OwnerInv'
    BY DEF Inv, TraceInv, OwnerInv
  <1>2. NameInv'
    BY DEF Inv, NameInv
  <1> QED BY <1>1, <1>2

(* The steps of the naming service leave the tables alone.                 *)
LEMMA TablesUntouched ==
  ASSUME Inv, UNCHANGED << stage, sid, tables, link >>, spoiled \subseteq spoiled',
         \A p \in Service : \A m \in Mail(p)' :
           m \in Mail(p) \/ (m.type = "RG" /\ m.ok => Distinct(m.list))
  PROVE  LinkInv' /\ TableInv'
PROOF
  <1>1. LinkInv'
    BY DEF Inv, LinkInv, Alive
  <1>2. \A p \in Service, k \in SId : Clean(p, k)' => Clean(p, k)
    BY DEF Clean
  <1>3. \A p, q \in Service, k \in SId : Noted(p, q, k)' <=> Noted(p, q, k)
    BY DEF Noted, Listed, tables
  <1>4. \A p \in Service : \A m \in Mail(p)' : m.type = "RG" /\ m.ok => Distinct(m.list)
    BY DEF Inv, TableInv
  <1>5. TableInv'
    BY <1>2, <1>3, <1>4 DEF Inv, TableInv, tables
  <1> QED BY <1>1, <1>5

(* A service that has asked for an identifier: nothing relates it to one.  *)
LEMMA Asking ==
  ASSUME Inv, NEW p \in Service, Posted(p, "RG")
  PROVE  /\ fromNS[p] = << >> /\ Mail(p) = {} /\ sid[p] = 0
         /\ \A k \in SId : ~Trace(p, k) /\ ~Owner(p, k)
         /\ stage[p] \in {"registering", "dead"}
         /\ Alive(p) => cnx[p] = "open"
         /\ \A q \in Service : ~Posted(q, "RRG")
PROOF
  <1>1. fromNS[p] = << >> /\ \A k \in SId : ~Trace(p, k)
    BY DEF Inv, PostInv
  <1>2. Mail(p) = {}
    BY <1>1, EntriesEmpty DEF Mail, Entries
  <1>3. sid[p] = 0
    <2>1. sid[p] \in SId \union {0}
      BY Vars DEF Inv
    <2> QED BY <1>1, <2>1 DEF Trace
  <1>4. \A q \in Service : ~Posted(q, "RRG")
    BY DEF Inv, StartInv
  <1>5. \A k \in SId : ~Owner(p, k)
    BY <1>1, <1>4 DEF Owner, Trace
  <1>6. toNS[p] # << >>
    BY EntriesEmpty DEF Posted, Post, Entries
  <1>7. stage[p] \in {"registering", "dead"} /\ (Alive(p) => cnx[p] = "open")
    <2>1. stage[p] \in {"off", "registering", "registered", "connecting", "running", "dead"}
      BY Vars DEF Inv
    <2>2. stage[p] # "off"
      BY <1>6 DEF Inv, LifeInv
    <2>3. stage[p] \notin {"registered", "connecting", "running"}
      BY <1>3 DEF Inv, TypeInv, Identified
    <2>4. Alive(p) => cnx[p] = "open"
      BY <1>6 DEF Inv, PostInv, Alive
    <2> QED BY <2>1, <2>2, <2>3, <2>4
  <1> QED BY <1>1, <1>2, <1>3, <1>4, <1>5, <1>7

(* A service that is refused has no identifier and never had.              *)
LEMMA RefuseInv ==
  ASSUME Inv, NEW p \in Service, NSRefuse(p)
  PROVE  Inv'
PROOF
  <1> DEFINE refusal == [type |-> "RG", ok |-> FALSE]
  <1>1. /\ Received(p, "RG") /\ Handled(p)
        /\ fromNS' = Reply(fromNS, p, refusal)
        /\ UNCHANGED << naming, cnx, stage, sid, tables, link, faults, spoiled >>
    BY DEF NSRefuse
  <1>2. /\ UNCHANGED << registry, unique, nsUp, cnx, stage, sid, known, ids, up, link, spoiled >>
        /\ UNCHANGED tables
    BY <1>1 DEF naming, tables
  <1>3. /\ nsUp /\ toNS[p] # << >>
        /\ Head(toNS[p]) \in ToNSMessage /\ Head(toNS[p]).type = "RG"
        /\ Post(p) = {Head(toNS[p])} \union Post(p)'
        /\ \A q \in Service : /\ Post(q)' \subseteq Post(q)
                              /\ \A A, B : Bars(toNS[q], A, B) => Bars(toNS'[q], A, B)
        /\ \A q \in Service : q # p => toNS'[q] = toNS[q] /\ Post(q)' = Post(q)
        /\ \A m \in Post(p)' : m.type \notin {"RG", "RRG"}
    BY <1>1, Taken
  <1>4. Posted(p, "RG")
    BY <1>3 DEF Posted
  <1>5. /\ fromNS[p] = << >> /\ Mail(p) = {} /\ sid[p] = 0
        /\ \A k \in SId : ~Trace(p, k) /\ ~Owner(p, k)
        /\ stage[p] \in {"registering", "dead"}
        /\ Alive(p) => cnx[p] = "open"
        /\ \A q \in Service : ~Posted(q, "RRG")
    BY <1>4, Asking
  <1>6. fromNS \in [Service -> Seq(FromNSMessage)]
    BY Vars DEF Inv
  <1>7. /\ \A q \in Service : q # p => fromNS'[q] = fromNS[q] /\ Mail(q)' = Mail(q)
        /\ cnx[p] = "open" => fromNS'[p] = << refusal >> /\ Mail(p)' = {refusal}
        /\ cnx[p] # "open" => fromNS'[p] = << >> /\ Mail(p)' = {}
        /\ Mail(p)' \subseteq {refusal}
    <2>1. /\ \A q \in Service : q # p => fromNS'[q] = fromNS[q]
          /\ cnx[p] = "open" => fromNS'[p] = Append(fromNS[p], refusal)
          /\ cnx[p] # "open" => fromNS'[p] = fromNS[p]
      BY <1>1, <1>6 DEF Reply
    <2>2. cnx[p] = "open" => fromNS'[p] = << refusal >>
      BY <1>5, <2>1
    <2>3. Entries(<< refusal >>) = {refusal}
      BY EntriesSingle
    <2> QED BY <1>5, <2>1, <2>2, <2>3 DEF Mail
  <1>8. cnx[p] = "open" => stage[p] = "registering"
    BY <1>5 DEF Inv, LifeInv, Alive
  <1>9. \A q \in Service : Alive(q)' <=> Alive(q)
    BY <1>2 DEF Alive
  <1>10. \A q \in Service, k \in SId : /\ Granting(q, k)' <=> Granting(q, k)
                                       /\ Entered(q, k)' <=> Entered(q, k)
                                       /\ Awaited(q, k)' <=> Awaited(q, k)
                                       /\ Dropped(q, k)' <=> Dropped(q, k)
                                       /\ Acked(q, k)' => Acked(q, k)
                                       /\ Clean(q, k)' <=> Clean(q, k)
    <2> SUFFICES ASSUME NEW q \in Service, NEW k \in SId
                 PROVE  /\ Granting(q, k)' <=> Granting(q, k)
                        /\ Dropped(q, k)' <=> Dropped(q, k)
      BY <1>2, <1>3 DEF Entered, Awaited, Acked, Clean
    <2>1. CASE q # p
      BY <1>7, <2>1 DEF Granting, Dropped
    <2>2. CASE q = p
      BY <1>5, <1>7, <2>2 DEF Granting, Dropped, Drops
    <2> QED BY <2>1, <2>2
  <1>11. \A q \in Service : /\ Posted(q, "RG")' => Posted(q, "RG") /\ q # p
                            /\ ~Posted(q, "RRG")'
                            /\ Posted(q, "closed")' <=> Posted(q, "closed")
                            /\ Posted(q, "ACK_UNI")' => Posted(q, "ACK_UNI")
    BY <1>3, <1>5 DEF Posted
  <1>12. \A q \in Service, k \in SId : Owner(q, k)' <=> Owner(q, k)
    BY <1>2, <1>5, <1>9, <1>10, <1>11 DEF Owner
  <1>13. \A r, q \in Service, k \in SId : Mentions(r, q, k)' <=> Mentions(r, q, k)
    <2> SUFFICES ASSUME NEW r \in Service, NEW q \in Service, NEW k \in SId
                 PROVE  Told(r, q, k)' <=> Told(r, q, k)
      BY <1>2 DEF Mentions, Noted, Listed
    <2>1. CASE r # p
      BY <1>7, <2>1 DEF Told
    <2>2. CASE r = p
      BY <1>5, <1>7, <2>2 DEF Told, Tells
    <2> QED BY <2>1, <2>2
  <1>14. \A q \in Service, k \in SId : Trace(q, k)' <=> Trace(q, k)
    BY <1>2, <1>10, <1>13 DEF Trace
  <1>15. \A q \in Service : Refused(q) \/ (Alive(q) /\ q = p) => Refused(q)' \/ sid[q] = 0
    BY <1>5, <1>7 DEF Refused
  <1>16. LifeInv'
    <2> SUFFICES ASSUME NEW q \in Service
                 PROVE  /\ ~Alive(q)' => /\ fromNS'[q] = << >> /\ cnx'[q] = "none"
                                         /\ Blank(q)'
                        /\ stage'[q] = "off" => /\ toNS'[q] = << >> /\ sid'[q] = 0
                                                /\ \A k \in SId : ~Trace(q, k)'
                        /\ stage'[q] = "registering" => sid'[q] = 0 /\ Blank(q)'
                        /\ Bars(fromNS'[q], FromNSMessage, Replies)
                        /\ (\E m \in Mail(q)' : m.type = "RG") => stage'[q] = "registering"
                        /\ stage'[q] = "registering" /\ fromNS'[q] # << >> =>
                             Head(fromNS'[q]).type = "RG"
                        /\ Refused(q)' => \A k \in SId : ~Trace(q, k)'
      BY DEF LifeInv
    <2>1. Blank(q)' <=> Blank(q)
      BY <1>2 DEF Blank
    <2>2. CASE q # p
      <3>1. Refused(q)' <=> Refused(q)
        BY <1>7, <2>2 DEF Refused
      <3> QED BY <1>2, <1>3, <1>7, <1>9, <1>14, <2>1, <2>2, <3>1 DEF Inv, LifeInv
    <2>3. CASE q = p
      <3>1. Bars(fromNS'[p], FromNSMessage, Replies)
        BY <1>7, BarsShort
      <3>2. fromNS'[p] # << >> => Head(fromNS'[p]).type = "RG"
        BY <1>7
      <3>3. stage[p] # "off"
        BY <1>5
      <3> QED BY <1>2, <1>5, <1>7, <1>8, <1>9, <1>14, <2>1, <2>3, <3>1, <3>2, <3>3
              DEF Inv, LifeInv
    <2> QED BY <2>2, <2>3
  <1>17. PostInv'
    <2> SUFFICES ASSUME NEW q \in Service
                 PROVE  /\ Bars(toNS'[q], ToNSMessage, Firsts)
                        /\ Bars(toNS'[q], Lasts, ToNSMessage)
                        /\ Posted(q, "closed")' => stage'[q] = "dead"
                        /\ toNS'[q] # << >> =>
                             (Alive(q)' /\ cnx'[q] = "open") \/ Posted(q, "closed")'
                        /\ Posted(q, "RG")' => /\ fromNS'[q] = << >>
                                               /\ \A k \in SId : ~Trace(q, k)'
                        /\ Posted(q, "RRG")' => ~Entered(q, sid[q])'
                        /\ Posted(q, "ACK_UNI")' => Knows(registry, q)' \/ Posted(q, "RRG")'
                        /\ /\ Alive(q)' /\ cnx'[q] = "open"
                           /\ sid'[q] # 0 \/ \E k \in SId : Granting(q, k)'
                           => Knows(registry, q)' \/ Posted(q, "RRG")'
                        /\ nsUp' \/ toNS'[q] = << >>
      BY DEF PostInv
    <2>1. Knows(registry, q)' <=> Knows(registry, q)
      BY <1>2
    <2>2. toNS'[q] # << >> => toNS[q] # << >>
      BY <1>3
    <2>3. Posted(q, "RG")' => fromNS'[q] = fromNS[q]
      BY <1>7, <1>11
    <2> QED BY <1>2, <1>3, <1>5, <1>9, <1>10, <1>11, <1>14, <2>1, <2>2, <2>3 DEF Inv, PostInv
  <1>18. RegistryInv'
    <2>1. \A e \in Entries(registry) : e.svc \in Service
      BY RegistryEntries DEF Inv, Entry
    <2>2. \A q \in Service : toNS[q] = << >> => toNS'[q] = << >>
      BY <1>3
    <2>3. \A q \in Service : fromNS[q] # << >> => fromNS'[q] # << >>
      BY <1>5, <1>7
    <2> QED BY <1>2, <1>9, <1>11, <2>1, <2>2, <2>3 DEF Inv, RegistryInv
  <1>19. StartInv'
    <2> SUFFICES ASSUME NEW r \in Service, Posted(r, "RG")', NEW q \in Service, Alive(q)',
                        sid'[q] # 0 \/ fromNS'[q] # << >>
                 PROVE  Knows(registry, q)' \/ Refused(q)'
      BY <1>11 DEF StartInv
    <2>1. Posted(r, "RG")
      BY <1>11
    <2>2. CASE q = p
      BY <1>2, <1>5, <1>7, <2>2 DEF Refused
    <2>3. CASE q # p
      <3>1. Refused(q)' <=> Refused(q)
        BY <1>7, <2>3 DEF Refused
      <3>2. Knows(registry, q) \/ Refused(q)
        BY <1>2, <1>7, <1>9, <2>1, <2>3 DEF Inv, StartInv
      <3> QED BY <1>2, <3>1, <3>2
    <2> QED BY <2>2, <2>3
  <1>20. TraceInv' /\ OwnerInv' /\ NameInv'
    BY <1>2, <1>12, <1>14, NothingNew
  <1>21. LinkInv' /\ TableInv'
    <2>1. \A q \in Service : \A m \in Mail(q)' :
            m \in Mail(q) \/ (m.type = "RG" /\ m.ok => Distinct(m.list))
      BY <1>7
    <2> QED BY <1>2, <2>1, TablesUntouched
  <1>22. MentionInv'
    BY <1>2, <1>10, <1>12, <1>13 DEF Inv, MentionInv
  <1>23. AckInv'
    <2> SUFFICES ASSUME NEW q \in Service, NEW k \in SId, Clean(q, k)'
                 PROVE  /\ Bars(fromNS'[q], Drops(k), Drops(k) \union Tales(k))
                        /\ Bars(toNS'[q], Acks(k), Acks(k))
                        /\ Dropped(q, k)' \/ Acked(q, k)' => Awaited(q, k)'
                        /\ Acked(q, k)' => /\ ~Dropped(q, k)'
                                           /\ \A r \in Service : ~Mentions(q, r, k)'
      BY DEF AckInv
    <2>1. /\ Bars(fromNS[q], Drops(k), Drops(k) \union Tales(k))
          /\ Bars(toNS[q], Acks(k), Acks(k))
          /\ Dropped(q, k) \/ Acked(q, k) => Awaited(q, k)
          /\ Acked(q, k) => ~Dropped(q, k) /\ \A r \in Service : ~Mentions(q, r, k)
      BY <1>10 DEF Inv, AckInv
    <2>2. CASE q # p
      BY <1>3, <1>7, <1>10, <1>13, <2>1, <2>2
    <2>3. CASE q = p
      <3>1. Bars(fromNS'[p], Drops(k), Drops(k) \union Tales(k))
        <4>1. CASE cnx[p] = "open"
          BY <1>7, <4>1, BarsShort
        <4>2. CASE cnx[p] # "open"
          BY <1>7, <4>2, BarsShort
        <4> QED BY <4>1, <4>2
      <3> QED BY <1>3, <1>10, <1>13, <2>1, <2>3, <3>1
    <2> QED BY <2>2, <2>3
  <1>24. SpoilInv'
    BY <1>2, <1>10 DEF Inv, SpoilInv
  <1>25. TypeInv'
    BY RefuseType DEF Inv
  <1> QED BY <1>16, <1>17, <1>18, <1>19, <1>20, <1>21, <1>22, <1>23, <1>24, <1>25 DEF Inv

-----------------------------------------------------------------------------
(* The naming service is done with services that left, or has an           *)
(* acknowledgement: a process that takes an identifier for that of such a  *)
(* service is still awaited.                                               *)
LEMMA RegistryShrinks ==
  ASSUME Inv, TypeInv',
         UNCHANGED << unique, nsUp, fromNS, cnx, stage, sid, tables, link >>,
         spoiled \subseteq spoiled',
         \A q \in Service : /\ Post(q)' \subseteq Post(q)
                            /\ \A A, B : Bars(toNS[q], A, B) => Bars(toNS'[q], A, B)
                            /\ toNS'[q] # << >> => toNS[q] # << >>
                            /\ Posted(q, "RRG") => Posted(q, "RRG")'
                            /\ Posted(q, "closed") =>
                                 Posted(q, "closed")' \/ (toNS'[q] = << >> /\ ~Knows(registry, q)),
         \A e \in Entries(registry)' : \E f \in Entries(registry) :
           e.svc = f.svc /\ e.sid = f.sid /\ e.waiting = f.waiting,
         Available(registry)' = Available(registry),
         Distinct(registry'),
         \A r \in Service, k \in SId :
           Clean(r, k)' /\ Awaited(r, k) => Awaited(r, k)' \/ (Acked(r, k) /\ ~Acked(r, k)')
  PROVE  Inv'
PROOF
  <1>1. UNCHANGED << unique, nsUp, fromNS, cnx, stage, sid, known, ids, up, link >>
    BY DEF tables
  <1>2. \A q \in Service : /\ Alive(q)' <=> Alive(q)
                           /\ Mail(q)' = Mail(q)
                           /\ Refused(q)' <=> Refused(q)
                           /\ Blank(q)' <=> Blank(q)
                           /\ Knows(registry, q)' <=> Knows(registry, q)
                           /\ \A type : Posted(q, type)' => Posted(q, type)
    BY <1>1 DEF Alive, Mail, Refused, Blank, Knows, Posted
  <1>3. \A q \in Service, k \in SId : /\ Granting(q, k)' <=> Granting(q, k)
                                      /\ Dropped(q, k)' <=> Dropped(q, k)
                                      /\ Acked(q, k)' => Acked(q, k)
                                      /\ Entered(q, k)' => Entered(q, k)
                                      /\ Clean(q, k)' => Clean(q, k)
    <2>1. \A q \in Service, k \in SId : /\ Granting(q, k)' <=> Granting(q, k)
                                        /\ Dropped(q, k)' <=> Dropped(q, k)
      BY <1>2 DEF Granting, Dropped
    <2>2. \A q \in Service, k \in SId : Acked(q, k)' => Acked(q, k)
      BY DEF Acked
    <2>3. \A q \in Service, k \in SId : Entered(q, k)' => Entered(q, k)
      BY DEF Entered
    <2>4. \A q \in Service, k \in SId : Clean(q, k)' => Clean(q, k)
      BY DEF Clean
    <2> QED BY <2>1, <2>2, <2>3, <2>4
  <1>4. \A r, q \in Service, k \in SId : Mentions(r, q, k)' <=> Mentions(r, q, k)
    BY <1>1, <1>2 DEF Mentions, Noted, Listed, Told
  <1>5. \A q \in Service, k \in SId : Owner(q, k)' => Owner(q, k)
    BY <1>1, <1>2, <1>3 DEF Owner
  <1>6. \A q \in Service, k \in SId : Trace(q, k)' => Trace(q, k)
    BY <1>1, <1>3, <1>4 DEF Trace
  <1>7. Distinct(registry)
    BY DEF Inv, RegistryInv
  <1>8. LifeInv'
    <2>1. \A q \in Service : toNS[q] = << >> => toNS'[q] = << >>
      OBVIOUS
    <2> QED BY <1>1, <1>2, <1>6, <2>1 DEF Inv, LifeInv
  <1>9. PostInv'
    <2> SUFFICES ASSUME NEW q \in Service
                 PROVE  /\ Bars(toNS'[q], ToNSMessage, Firsts)
                        /\ Bars(toNS'[q], Lasts, ToNSMessage)
                        /\ Posted(q, "closed")' => stage'[q] = "dead"
                        /\ toNS'[q] # << >> =>
                             (Alive(q)' /\ cnx'[q] = "open") \/ Posted(q, "closed")'
                        /\ Posted(q, "RG")' => /\ fromNS'[q] = << >>
                                               /\ \A k \in SId : ~Trace(q, k)'
                        /\ Posted(q, "RRG")' => ~Entered(q, sid[q])'
                        /\ Posted(q, "ACK_UNI")' => Knows(registry, q)' \/ Posted(q, "RRG")'
                        /\ /\ Alive(q)' /\ cnx'[q] = "open"
                           /\ sid'[q] # 0 \/ \E k \in SId : Granting(q, k)'
                           => Knows(registry, q)' \/ Posted(q, "RRG")'
                        /\ nsUp' \/ toNS'[q] = << >>
      BY DEF PostInv
    <2>1. Entered(q, sid[q])' => Entered(q, sid[q])
      BY <1>1 DEF Entered
    <2>2. Bars(toNS'[q], ToNSMessage, Firsts) /\ Bars(toNS'[q], Lasts, ToNSMessage)
      BY DEF Inv, PostInv
    <2> QED BY <1>1, <1>2, <1>3, <1>6, <2>1, <2>2 DEF Inv, PostInv
  <1>10. RegistryInv'
    <2>1. \A e \in Entries(registry) : e.svc \in Service
      BY RegistryEntries DEF Inv, Entry
    <2>2. nsUp' \/ registry' = << >>
      <3>1. CASE nsUp
        BY <1>1, <3>1
      <3>2. CASE registry = << >>
        <4>1. Entries(registry)' = {}
          BY <3>2 DEF Entries
        <4> QED BY <4>1, Vars, EntriesEmpty DEF TypeInv, Typed, NamingType
      <3> QED BY <3>1, <3>2 DEF Inv, RegistryInv
    <2>3. \A e \in Entries(registry)' :
            /\ e.waiting => stage'[e.svc] = "dead" /\ toNS'[e.svc] = << >>
            /\ ~e.waiting => (Alive(e.svc)' /\ cnx'[e.svc] = "open") \/ Posted(e.svc, "closed")'
            /\ stage'[e.svc] = "registering" => fromNS'[e.svc] # << >>
      <3> SUFFICES ASSUME NEW e \in Entries(registry)'
                   PROVE  /\ e.waiting => stage'[e.svc] = "dead" /\ toNS'[e.svc] = << >>
                          /\ ~e.waiting =>
                               (Alive(e.svc)' /\ cnx'[e.svc] = "open") \/ Posted(e.svc, "closed")'
                          /\ stage'[e.svc] = "registering" => fromNS'[e.svc] # << >>
        OBVIOUS
      <3>1. PICK f \in Entries(registry) : e.svc = f.svc /\ e.waiting = f.waiting
        OBVIOUS
      <3>2. /\ f.waiting => stage[f.svc] = "dead" /\ toNS[f.svc] = << >>
            /\ ~f.waiting => (Alive(f.svc) /\ cnx[f.svc] = "open") \/ Posted(f.svc, "closed")
            /\ stage[f.svc] = "registering" => fromNS[f.svc] # << >>
        BY DEF Inv, RegistryInv
      <3>3. ~f.waiting => Knows(registry, f.svc)
        BY DEF Knows, Available
      <3> QED BY <1>1, <1>2, <2>1, <3>1, <3>2, <3>3
    <2> QED BY <2>2, <2>3 DEF RegistryInv
  <1>11. StartInv'
    BY <1>1, <1>2 DEF Inv, StartInv
  <1>12. TraceInv' /\ OwnerInv' /\ NameInv'
    BY <1>1, <1>5, <1>6, NothingNew
  <1>13. LinkInv' /\ TableInv'
    <2>1. \A q \in Service : \A m \in Mail(q)' :
            m \in Mail(q) \/ (m.type = "RG" /\ m.ok => Distinct(m.list))
      BY <1>2
    <2> QED BY <1>1, <2>1, TablesUntouched
  <1>14. ASSUME NEW r \in Service, NEW q \in Service, NEW k \in SId,
                Clean(r, k)', Mentions(r, q, k)
         PROVE  /\ Owner(q, k)'
                /\ \A e \in Entries(registry)' : e.waiting /\ e.sid = k => Awaited(r, k)'
    <2>1. /\ Owner(q, k)
          /\ \A e \in Entries(registry) : e.waiting /\ e.sid = k => Awaited(r, k)
      BY <1>3, <1>14 DEF Inv, MentionInv
    <2>2. ~Acked(r, k)
      BY <1>3, <1>14 DEF Inv, AckInv
    <2>3. Awaited(r, k) => Awaited(r, k)'
      BY <1>14, <2>2
    <2>4. \A e \in Entries(registry)' : e.waiting /\ e.sid = k => Awaited(r, k)'
      BY <2>1, <2>3
    <2>5. ASSUME NEW e \in Entries(registry), e.svc = q, e.sid = k
          PROVE  Entered(q, k)'
      <3>1. CASE e \in Available(registry)
        <4>1. e \in Entries(registry)'
          BY <3>1 DEF Available
        <4> QED BY <2>5, <4>1 DEF Entered
      <3>2. CASE e.waiting
        <4>1. PICK g \in Entries(registry)' : g.waiting /\ g.sid = k
          BY <2>1, <2>3, <2>5, <3>2 DEF Awaited
        <4>2. PICK f \in Entries(registry) : g.svc = f.svc /\ g.sid = f.sid
          OBVIOUS
        <4>3. f = e
          BY <1>7, <2>5, <4>1, <4>2, DistinctEntries
        <4> QED BY <2>5, <4>1, <4>2, <4>3 DEF Entered
      <3> QED BY <3>1, <3>2 DEF Available
    <2>6. Owner(q, k)'
      BY <1>1, <1>2, <1>3, <2>1, <2>5 DEF Owner, Entered
    <2> QED BY <2>4, <2>6
  <1>15. MentionInv'
    BY <1>4, <1>14 DEF MentionInv
  <1>16. AckInv'
    <2> SUFFICES ASSUME NEW q \in Service, NEW k \in SId, Clean(q, k)'
                 PROVE  /\ Bars(fromNS'[q], Drops(k), Drops(k) \union Tales(k))
                        /\ Bars(toNS'[q], Acks(k), Acks(k))
                        /\ Dropped(q, k)' \/ Acked(q, k)' => Awaited(q, k)'
                        /\ Acked(q, k)' => /\ ~Dropped(q, k)'
                                           /\ \A r \in Service : ~Mentions(q, r, k)'
      BY DEF AckInv
    <2>1. /\ Bars(fromNS[q], Drops(k), Drops(k) \union Tales(k))
          /\ Bars(toNS[q], Acks(k), Acks(k))
          /\ Dropped(q, k) \/ Acked(q, k) => Awaited(q, k)
          /\ Acked(q, k) => ~Dropped(q, k) /\ \A r \in Service : ~Mentions(q, r, k)
      BY <1>3 DEF Inv, AckInv
    <2>2. Bars(toNS'[q], Acks(k), Acks(k))
      BY <2>1
    <2>3. Awaited(q, k) => Awaited(q, k)' \/ (Acked(q, k) /\ ~Acked(q, k)')
      OBVIOUS
    <2> QED BY <1>1, <1>3, <1>4, <2>1, <2>2, <2>3
  <1>17. SpoilInv'
    BY <1>1, <1>3 DEF Inv, SpoilInv
  <1> QED BY <1>8, <1>9, <1>10, <1>11, <1>12, <1>13, <1>15, <1>16, <1>17 DEF Inv

(* An entry that the naming service has done with was acknowledged by all  *)
(* those who mentioned it: nobody does any more, since they would be       *)
(* awaited.                                                                *)
LEMMA UpdateInv ==
  ASSUME Inv, NSUpdate
  PROVE  Inv'
PROOF
  <1>1. /\ registry' = Purge(registry)
        /\ UNCHANGED << unique, nsUp, toNS, fromNS, cnx, stage, sid, tables, link, spoiled >>
    BY DEF NSUpdate, channels
  <1>2. registry \in Seq(Entry) /\ Distinct(registry)
    BY Vars DEF Inv, RegistryInv
  <1>3. Entries(registry)' = {e \in Entries(registry) : e.waiting => e.acks # {}}
    BY <1>1, <1>2, PurgeEntries
  <1>4. Available(registry)' = Available(registry)
    BY <1>3 DEF Available
  <1>5. Distinct(registry')
    BY <1>1, <1>2, DistinctKept DEF Purge
  <1>6. \A r \in Service, k \in SId : Awaited(r, k) => Awaited(r, k)'
    BY <1>3, <1>4 DEF Awaited
  <1>7. TypeInv'
    BY UpdateType DEF Inv
  <1>8. \A q \in Service : /\ Post(q)' = Post(q) /\ toNS'[q] = toNS[q]
                           /\ Posted(q, "RRG") => Posted(q, "RRG")'
                           /\ Posted(q, "closed") => Posted(q, "closed")'
    BY <1>1 DEF Post, Posted
  <1>9. \A e \in Entries(registry)' : e \in Entries(registry)
    BY <1>3
  <1>10. UNCHANGED << unique, nsUp, fromNS, cnx, stage, sid, tables, link >>
    BY <1>1
  <1>11. spoiled \subseteq spoiled'
    BY <1>1
  <1> QED BY <1>4, <1>5, <1>6, <1>7, <1>8, <1>9, <1>10, <1>11, RegistryShrinks

(* An entry that it gives up on was not: what those have who did not       *)
(* acknowledge it is spoiled.                                              *)
LEMMA TimeoutInv ==
  ASSUME Inv, NSTimeout
  PROVE  Inv'
PROOF
  <1>1. UNCHANGED << unique, nsUp, toNS, fromNS, cnx, stage, sid, tables, link >>
    BY DEF NSTimeout, channels
  <1>2. PICK e \in Entries(registry) :
          /\ e.waiting
          /\ registry' = Removed(registry, e)
          /\ Spoil({f.svc : f \in {g \in Entries(registry) : g.sid \in e.acks}}, {e.sid})
    BY DEF NSTimeout
  <1>3. registry \in Seq(Entry) /\ Distinct(registry)
    BY Vars DEF Inv, RegistryInv
  <1>4. Entries(registry)' = Entries(registry) \ {e}
    BY <1>2, <1>3, RemovedEntries
  <1>5. Available(registry)' = Available(registry)
    BY <1>2, <1>4 DEF Available
  <1>6. Distinct(registry')
    BY <1>2, <1>3, DistinctKept DEF Removed
  <1>7. spoiled \subseteq spoiled'
    BY <1>2 DEF Spoil
  <1>8. ASSUME NEW r \in Service, NEW k \in SId, Clean(r, k)', Awaited(r, k)
        PROVE  Awaited(r, k)'
    <2>1. PICK g \in Entries(registry), f \in Available(registry) :
            g.waiting /\ g.sid = k /\ f.svc = r /\ f.sid \in g.acks
      BY <1>8 DEF Awaited
    <2>2. g # e
      <3>1. SUFFICES ASSUME g = e PROVE FALSE
        OBVIOUS
      <3>2. f \in {h \in Entries(registry) : h.sid \in e.acks}
        BY <2>1, <3>1 DEF Available
      <3>3. << r, k >> \in spoiled'
        BY <1>2, <2>1, <3>1, <3>2 DEF Spoil
      <3> QED BY <1>8, <3>3 DEF Clean
    <2> QED BY <1>4, <1>5, <2>1, <2>2 DEF Awaited
  <1>9. TypeInv'
    BY UpdateType DEF Inv
  <1>10. \A q \in Service : /\ Post(q)' = Post(q) /\ toNS'[q] = toNS[q]
                            /\ Posted(q, "RRG") => Posted(q, "RRG")'
                            /\ Posted(q, "closed") => Posted(q, "closed")'
    BY <1>1 DEF Post, Posted
  <1>11. \A f \in Entries(registry)' : f \in Entries(registry)
    BY <1>4
  <1>12. UNCHANGED << unique, nsUp, fromNS, cnx, stage, sid, tables, link >>
    BY <1>1
  <1> QED BY <1>5, <1>6, <1>7, <1>8, <1>9, <1>10, <1>11, <1>12, RegistryShrinks

(* The entry of a process that the naming service knows of has its         *)
(* identifier.                                                             *)
LEMMA KnownIdentifier ==
  ASSUME Inv, NEW p \in Service, sid[p] # 0, NEW e \in Entries(registry), e.svc = p
  PROVE  e.sid = sid[p]
PROOF
  <1>1. sid[p] \in SId /\ Trace(p, sid[p])
    BY Vars DEF Inv, Trace
  <1>2. e.sid \in SId
    BY RegistryEntries DEF Inv, Entry
  <1>3. Trace(p, e.sid)
    BY DEF Trace, Entered
  <1> QED BY <1>1, <1>2, <1>3 DEF Inv, TraceInv

(* A service that acknowledges does not mention the identifier any more;   *)
(* those that are awaited still are.                                       *)
LEMMA AckStepInv ==
  ASSUME Inv, NEW p \in Service, NSAck(p)
  PROVE  Inv'
PROOF
  <1> DEFINE m == Head(toNS[p])
  <1>1. /\ Received(p, "ACK_UNI") /\ Handled(p)
        /\ registry' = Acknowledge(registry, sid[p], m.sid)
        /\ UNCHANGED << unique, nsUp, fromNS, cnx, stage, sid, tables, link, spoiled >>
    BY DEF NSAck
  <1>2. registry \in Seq(Entry) /\ Distinct(registry) /\ toNS[p] \in Seq(ToNSMessage)
    BY Vars DEF Inv, RegistryInv
  <1>3. /\ toNS[p] # << >> /\ m \in ToNSMessage /\ m.type = "ACK_UNI"
        /\ Post(p) = {m} \union Post(p)'
        /\ \A q \in Service : /\ Post(q)' \subseteq Post(q)
                              /\ \A A, B : Bars(toNS[q], A, B) => Bars(toNS'[q], A, B)
        /\ \A q \in Service : q # p => toNS'[q] = toNS[q] /\ Post(q)' = Post(q)
        /\ \A o \in Post(p)' : o.type \notin {"RG", "RRG"}
        /\ \A A, B : m \in A /\ Bars(toNS[p], A, B) => Post(p)' \intersect B = {}
    BY <1>1, Taken
  <1>4. PICK k \in SId : k = m.sid
    BY <1>3 DEF ToNSMessage
  <1>5. sid[p] # 0
    BY <1>3 DEF Inv, TypeInv, Identified, Post
  <1>6. \A q \in Service : /\ toNS'[q] # << >> => toNS[q] # << >>
                           /\ Posted(q, "RRG") => Posted(q, "RRG")'
                           /\ Posted(q, "closed") => Posted(q, "closed")'
    BY <1>3 DEF Posted
  <1>7. \E g \in Available(registry) : g.svc = p /\ g.sid = sid[p]
    <2>1. Posted(p, "ACK_UNI") /\ ~Posted(p, "RRG")
      BY <1>3 DEF Posted
    <2>2. Knows(registry, p)
      BY <2>1 DEF Inv, PostInv
    <2> QED BY <1>5, <2>2, KnownIdentifier DEF Knows, Available
  <1> HIDE DEF m
  <1>8. TypeInv'
    BY AckType DEF Inv
  <1>9. CASE registry' = registry /\ \A e \in Entries(registry) : ~Awaits(e, sid[p], k)
    <2>1. Entries(registry)' = Entries(registry) /\ Available(registry)' = Available(registry)
      BY <1>9
    <2>2. \A r \in Service, j \in SId : Awaited(r, j) => Awaited(r, j)'
      BY <1>9, <2>1 DEF Awaited
    <2>3. Distinct(registry')
      BY <1>2, <1>9
    <2>4. spoiled \subseteq spoiled'
      BY <1>1
    <2> QED BY <1>1, <1>3, <1>6, <1>8, <2>1, <2>2, <2>3, <2>4, RegistryShrinks
  <1>10. ASSUME NEW h \in DOMAIN registry, Awaits(registry[h], sid[p], k),
                Entries(registry)' =
                  {e \in {registry[i] : i \in DOMAIN registry \ {h}}
                           \union {[registry[h] EXCEPT !.acks = @ \ {sid[p]}]} :
                     e.waiting => e.acks # {}}
         PROVE  Inv'
    <2>1. registry[h] \in Entry /\ registry[h] \in Entries(registry)
      BY <1>2, EntriesType DEF Entries
    <2>2. registry[h].sid = k /\ registry[h].waiting
      BY <1>10 DEF Awaits
    <2> DEFINE done == [registry[h] EXCEPT !.acks = @ \ {sid[p]}]
    <2>3. /\ done.svc = registry[h].svc /\ done.sid = k /\ done.waiting
          /\ done.acks = registry[h].acks \ {sid[p]}
      BY <2>1, <2>2 DEF Entry
    <2> HIDE DEF done
    <2>4. \A e \in Entries(registry) : e # registry[h] =>
            (e \in Entries(registry)' <=> (e.waiting => e.acks # {}))
      <3>1. \A e \in Entries(registry) : e # registry[h] =>
              e \in {registry[i] : i \in DOMAIN registry \ {h}}
        BY DEF Entries
      <3>2. \A e \in Entries(registry) : e # registry[h] => e # done
        BY <1>2, <2>1, <2>2, <2>3, DistinctEntries
      <3> QED BY <1>10, <3>1, <3>2 DEF done
    <2>5. \A e \in Entries(registry)' : e = done \/ (e \in Entries(registry) /\ e # registry[h])
      <3>1. \A i \in DOMAIN registry \ {h} : /\ registry[i] \in Entries(registry)
                                             /\ registry[i] # registry[h]
        BY <1>2 DEF Entries, Distinct
      <3> QED BY <1>10, <3>1 DEF done
    <2>6. done \in Entries(registry)' <=> done.acks # {}
      BY <1>10, <2>3 DEF done
    <2>7. Available(registry)' = Available(registry)
      BY <2>2, <2>3, <2>4, <2>5 DEF Available
    <2>8. Distinct(registry')
      BY <1>1, <1>2, AcknowledgeDistinct
    <2>9. ASSUME NEW r \in Service, NEW j \in SId, Clean(r, j)', Awaited(r, j)
          PROVE  Awaited(r, j)' \/ (Acked(r, j) /\ ~Acked(r, j)')
      <3>1. PICK e \in Entries(registry), f \in Available(registry) :
              e.waiting /\ e.sid = j /\ f.svc = r /\ f.sid \in e.acks
        BY <2>9 DEF Awaited
      <3>2. CASE e # registry[h]
        <4>1. e \in Entries(registry)'
          BY <2>4, <3>1, <3>2
        <4> QED BY <2>7, <3>1, <4>1 DEF Awaited
      <3>3. CASE e = registry[h] /\ f.sid # sid[p]
        <4>1. done \in Entries(registry)' /\ f.sid \in done.acks
          BY <2>3, <2>6, <3>1, <3>3
        <4> QED BY <2>2, <2>3, <2>7, <3>1, <3>3, <4>1 DEF Awaited
      <3>4. CASE e = registry[h] /\ f.sid = sid[p]
        <4>1. r = p
          BY <1>2, <1>7, <3>1, <3>4, DistinctEntries DEF Available
        <4>2. j = k
          BY <2>2, <3>1, <3>4
        <4>3. m \in Acks(k)
          BY <1>3, <1>4 DEF Acks
        <4>4. Bars(toNS[p], Acks(k), Acks(k))
          BY <1>1, <2>9, <4>1, <4>2 DEF Inv, AckInv, Clean
        <4>5. Post(p)' \intersect Acks(k) = {}
          BY <1>3, <4>3, <4>4
        <4> QED BY <1>3, <4>1, <4>2, <4>3, <4>5 DEF Acked
      <3> QED BY <3>2, <3>3, <3>4
    <2>10. \A e \in Entries(registry)' : \E f \in Entries(registry) :
             e.svc = f.svc /\ e.sid = f.sid /\ e.waiting = f.waiting
      BY <2>1, <2>2, <2>3, <2>5
    <2>11. spoiled \subseteq spoiled'
      BY <1>1
    <2> QED BY <1>1, <1>3, <1>6, <1>8, <2>7, <2>8, <2>9, <2>10, <2>11, RegistryShrinks
  <1> QED BY <1>1, <1>2, <1>4, <1>9, <1>10, AcknowledgeEntries

-----------------------------------------------------------------------------
(* A service has one entry at most.                                        *)
LEMMA OneEntry ==
  ASSUME Inv, NEW e \in Entries(registry), NEW f \in Entries(registry), e.svc = f.svc
  PROVE  e = f
PROOF
  <1>1. e.svc \in Service /\ e.sid \in SId /\ f.sid \in SId
    BY RegistryEntries DEF Inv, Entry
  <1>2. Trace(e.svc, e.sid) /\ Trace(e.svc, f.sid)
    BY DEF Trace, Entered
  <1>3. e.sid = f.sid
    BY <1>1, <1>2 DEF Inv, TraceInv
  <1> QED BY <1>3, DistinctEntries DEF Inv, RegistryInv

(* What becomes of the registry when p leaves.                             *)
LEMMA Departs ==
  ASSUME Inv, NEW p \in Service, NEW k \in SId, Knows(registry, p), k = SIdOf(registry, p),
         registry' = Unregister(registry, p)
  PROVE  /\ \E e \in Available(registry) : e.svc = p /\ e.sid = k
         /\ \A e \in Entries(registry) : e.svc = p <=> e.sid = k
         /\ \A g \in Entries(registry)' : \E e \in Entries(registry) :
              /\ g.svc = e.svc /\ g.sid = e.sid
              /\ g.waiting <=> e.waiting \/ e.svc = p
         /\ \A e \in Entries(registry) : e.svc # p => \E g \in Entries(registry)' :
              g.svc = e.svc /\ g.sid = e.sid /\ g.waiting = e.waiting /\ g.acks = e.acks \ {k}
         /\ \A f \in Available(registry) : f.svc # p => \E g \in Entries(registry)' :
              g.svc = p /\ g.sid = k /\ g.waiting /\ f.sid \in g.acks
         /\ Distinct(registry')
PROOF
  <1>1. registry \in Seq(Entry) /\ Distinct(registry) /\ Entries(registry) \subseteq Entry
    BY Vars, RegistryEntries DEF Inv, RegistryInv
  <1>2. PICK o \in Available(registry) : o.svc = p
    BY DEF Knows
  <1>3. o \in Entries(registry) /\ ~o.waiting /\ o \in Entry
    BY <1>1 DEF Available
  <1>4. o.sid = k
    <2>1. \E e \in Entries(registry) : e.svc = p /\ e.sid = SIdOf(registry, p)
      BY <1>1, SIdOfType
    <2> QED BY <1>2, <1>3, <2>1, OneEntry
  <1>5. \A e \in Entries(registry) : (e.svc = p <=> e = o) /\ (e.sid = k <=> e = o)
    BY <1>1, <1>2, <1>3, <1>4, OneEntry, DistinctEntries
  <1> DEFINE others == {f.sid : f \in {g \in Available(registry) : g.svc # p}}
  <1>6. \A e \in Entries(registry) :
          Marked(registry, p, e) = IF e = o THEN [e EXCEPT !.waiting = TRUE, !.acks = others]
                                            ELSE [e EXCEPT !.acks = @ \ {k}]
    <2>1. \A e \in Entries(registry) : Gone(e, p) <=> e = o
      BY <1>3, <1>5 DEF Gone
    <2>2. {f.sid : f \in {g \in Entries(registry) : Gone(g, p)}} = {k}
      BY <1>3, <1>4, <2>1
    <2> QED BY <2>1, <2>2 DEF Marked
  <1>7. Entries(registry)' =
          {e \in {Marked(registry, p, f) : f \in Entries(registry)} :
             ~(e.svc = p /\ e.waiting /\ e.acks = {})}
    BY <1>1, UnregisterEntries
  <1> HIDE DEF others
  <1>8. \A e \in Entries(registry) : e # o =>
          /\ Marked(registry, p, e).svc = e.svc /\ Marked(registry, p, e).sid = e.sid
          /\ Marked(registry, p, e).waiting = e.waiting
          /\ Marked(registry, p, e).acks = e.acks \ {k}
    BY <1>1, <1>6 DEF Entry
  <1>9. /\ Marked(registry, p, o).svc = p /\ Marked(registry, p, o).sid = k
        /\ Marked(registry, p, o).waiting
        /\ Marked(registry, p, o).acks = others
    BY <1>2, <1>3, <1>4, <1>6 DEF Entry
  <1>10. ASSUME NEW g \in Entries(registry)'
         PROVE  \E e \in Entries(registry) : /\ g.svc = e.svc /\ g.sid = e.sid
                                             /\ g.waiting <=> e.waiting \/ e.svc = p
    <2>1. PICK e \in Entries(registry) : g = Marked(registry, p, e)
      BY <1>7
    <2>2. CASE e = o
      BY <1>2, <1>4, <1>9, <2>1, <2>2
    <2>3. CASE e # o
      BY <1>5, <1>8, <2>1, <2>3
    <2> QED BY <2>2, <2>3
  <1>11. ASSUME NEW e \in Entries(registry), e.svc # p
         PROVE  \E g \in Entries(registry)' :
                  g.svc = e.svc /\ g.sid = e.sid /\ g.waiting = e.waiting /\ g.acks = e.acks \ {k}
    <2>1. e # o
      BY <1>2, <1>11
    <2>2. Marked(registry, p, e) \in Entries(registry)'
      BY <1>7, <1>8, <1>11, <2>1
    <2> QED BY <1>8, <2>1, <2>2
  <1>12. ASSUME NEW f \in Available(registry), f.svc # p
         PROVE  \E g \in Entries(registry)' :
                  g.svc = p /\ g.sid = k /\ g.waiting /\ f.sid \in g.acks
    <2>1. f.sid \in others
      BY <1>12 DEF others
    <2>2. Marked(registry, p, o) \in Entries(registry)'
      BY <1>3, <1>7, <1>9, <2>1
    <2> QED BY <1>9, <2>1, <2>2
  <1>13. Distinct(registry')
    BY <1>1, UnregisterDistinct
  <1>14. \A e \in Entries(registry) : e.svc = p <=> e.sid = k
    BY <1>5
  <1>15. \E e \in Available(registry) : e.svc = p /\ e.sid = k
    BY <1>2, <1>4
  <1> QED BY <1>10, <1>11, <1>12, <1>13, <1>14, <1>15

(* A message to q is sent, or lost.                                        *)
SentOrLost(q, m) == fromNS'[q] = fromNS[q] \/ (fromNS'[q] = Append(fromNS[q], m) /\ cnx[q] = "open")

(* A message that is sent, or lost as the connection is closed, adds       *)
(* itself at most, at the end.                                             *)
LEMMA Sent ==
  ASSUME TypeInv, NEW q \in Service, NEW m \in FromNSMessage, SentOrLost(q, m)
  PROVE  /\ Mail(q) \subseteq Mail(q)' /\ Mail(q)' \subseteq Mail(q) \union {m}
         /\ fromNS[q] # << >> => fromNS'[q] # << >> /\ Head(fromNS'[q]) = Head(fromNS[q])
         /\ cnx[q] # "open" => fromNS'[q] = fromNS[q]
         /\ \A A, B : Bars(fromNS[q], A, B) /\ (Mail(q) \intersect A = {} \/ m \notin B) =>
              Bars(fromNS'[q], A, B)
PROOF
  <1>1. fromNS[q] \in Seq(FromNSMessage)
    BY Vars
  <1>2. CASE fromNS'[q] = fromNS[q]
    BY <1>2 DEF Mail
  <1>3. CASE fromNS'[q] = Append(fromNS[q], m) /\ cnx[q] = "open"
    <2>1. Mail(q)' = Mail(q) \union {m}
      BY <1>1, <1>3, AppendEntries DEF Mail
    <2>2. fromNS[q] # << >> => fromNS'[q] # << >> /\ Head(fromNS'[q]) = Head(fromNS[q])
      BY <1>1, <1>3, HeadAppend
    <2>3. \A A, B : Bars(fromNS[q], A, B) /\ (Mail(q) \intersect A = {} \/ m \notin B) =>
            Bars(fromNS'[q], A, B)
      BY <1>1, <1>3, BarsAppend DEF Mail
    <2> QED BY <1>3, <2>1, <2>2, <2>3
  <1> QED BY <1>2, <1>3 DEF SentOrLost

(* Who has an identifier, or is about to, has mail or an identifier.       *)
LEMMA MentionsAlive ==
  ASSUME Inv, NEW r \in Service, NEW q \in Service, NEW k \in SId, Mentions(r, q, k)
  PROVE  Alive(r) /\ (sid[r] # 0 \/ fromNS[r] # << >>)
PROOF
  <1>1. Blank(r) => Told(r, q, k)
    <2>1. Entries(<< >>) = {}
      BY EntriesEmpty DEF Entries
    <2>2. q # None
      BY ShardAssumption DEF ShardAssumption
    <2> QED BY <2>1, <2>2 DEF Mentions, Noted, Listed, Blank, NotUsed
  <1>2. Told(r, q, k) => fromNS[r] # << >>
    BY EntriesEmpty DEF Told, Mail, Entries
  <1>3. Alive(r)
    BY <1>1, <1>2 DEF Inv, LifeInv
  <1>4. CASE stage[r] = "registering"
    BY <1>1, <1>2, <1>3, <1>4 DEF Inv, LifeInv
  <1>5. CASE stage[r] # "registering"
    BY <1>3, <1>5 DEF Inv, TypeInv, Identified, Alive
  <1> QED BY <1>3, <1>4, <1>5

(* A service leaves that has no entry: it had not been accepted, or the    *)
(* naming service lost its entry in a crash.                               *)
LEMMA UnknownDisconnectInv ==
  ASSUME Inv, NEW p \in Service, NSDisconnect(p), ~Knows(registry, p)
  PROVE  Inv'
PROOF
  <1>1. /\ Received(p, "closed") /\ Handled(p)
        /\ UNCHANGED << registry, fromNS, spoiled >>
        /\ UNCHANGED << unique, nsUp, cnx, stage, sid, tables, link, faults >>
    BY DEF NSDisconnect
  <1>2. /\ toNS[p] # << >> /\ Head(toNS[p]) \in ToNSMessage /\ Head(toNS[p]).type = "closed"
        /\ Post(p) = {Head(toNS[p])} \union Post(p)'
        /\ \A q \in Service : /\ Post(q)' \subseteq Post(q)
                              /\ \A A, B : Bars(toNS[q], A, B) => Bars(toNS'[q], A, B)
        /\ \A q \in Service : q # p => toNS'[q] = toNS[q] /\ Post(q)' = Post(q)
        /\ \A A, B : Head(toNS[p]) \in A /\ Bars(toNS[p], A, B) => Post(p)' \intersect B = {}
    BY <1>1, Taken
  <1>3. TypeInv'
    BY DisconnectType DEF Inv
  <1>4. Post(p)' = {} /\ toNS'[p] = << >>
    <2>1. Bars(toNS[p], Lasts, ToNSMessage) /\ Head(toNS[p]) \in Lasts
      BY <1>2 DEF Inv, PostInv, Lasts
    <2>2. Post(p)' \intersect ToNSMessage = {}
      BY <1>2, <2>1
    <2>3. toNS'[p] \in Seq(ToNSMessage)
      BY <1>3 DEF TypeInv, Typed, MailOK
    <2>4. Entries(toNS'[p]) \subseteq ToNSMessage
      BY <2>3, EntriesType
    <2>5. Entries(toNS'[p]) = {}
      BY <2>2, <2>4 DEF Post
    <2> QED BY <2>3, <2>5, EntriesEmpty DEF Post
  <1>5. \A q \in Service :
          /\ toNS'[q] # << >> => toNS[q] # << >>
          /\ Posted(q, "RRG") => Posted(q, "RRG")'
          /\ Posted(q, "closed") =>
               Posted(q, "closed")' \/ (toNS'[q] = << >> /\ ~Knows(registry, q))
    BY <1>2, <1>4 DEF Posted
  <1>6. Entries(registry)' = Entries(registry) /\ Available(registry)' = Available(registry)
    BY <1>1
  <1>7. Distinct(registry')
    BY <1>1 DEF Inv, RegistryInv
  <1>8. \A r \in Service, k \in SId : Awaited(r, k) => Awaited(r, k)'
    BY <1>6 DEF Awaited
  <1>9. spoiled \subseteq spoiled'
    BY <1>1
  <1> QED BY <1>1, <1>2, <1>3, <1>5, <1>6, <1>7, <1>8, <1>9, RegistryShrinks

(* A service leaves that has one: from then on its entry waits for all     *)
(* those that are told, who are all those that may mention it, and those   *)
(* that are absent are spoiled.                                            *)
LEMMA KnownDisconnectInv ==
  ASSUME Inv, NEW p \in Service, NSDisconnect(p), Knows(registry, p)
  PROVE  Inv'
PROOF
  <1>0. PICK k \in SId : k = SIdOf(registry, p)
    BY Vars, SIdOfType DEF Inv
  <1> DEFINE unb == [type |-> "UNB", svc |-> p, sid |-> k]
  <1>1. /\ Received(p, "closed") /\ Handled(p)
        /\ fromNS' = Broadcast(Recipients, unb)
        /\ registry' = Unregister(registry, p)
        /\ Spoil(Absent, {k})
        /\ UNCHANGED << unique, nsUp, cnx, stage, sid, tables, link, faults >>
    BY <1>0 DEF NSDisconnect
  <1>2. UNCHANGED << unique, nsUp, cnx, stage, sid, tables, link, known, ids, up >>
    BY <1>1 DEF tables
  <1>3. /\ toNS[p] # << >> /\ Head(toNS[p]) \in ToNSMessage /\ Head(toNS[p]).type = "closed"
        /\ nsUp
        /\ Post(p) = {Head(toNS[p])} \union Post(p)'
        /\ \A q \in Service : /\ Post(q)' \subseteq Post(q)
                              /\ \A A, B : Bars(toNS[q], A, B) => Bars(toNS'[q], A, B)
        /\ \A q \in Service : q # p => toNS'[q] = toNS[q] /\ Post(q)' = Post(q)
        /\ \A A, B : Head(toNS[p]) \in A /\ Bars(toNS[p], A, B) => Post(p)' \intersect B = {}
    BY <1>1, Taken
  <1>4. TypeInv'
    BY DisconnectType DEF Inv
  <1>5. Post(p)' = {} /\ toNS'[p] = << >>
    <2>1. Bars(toNS[p], Lasts, ToNSMessage) /\ Head(toNS[p]) \in Lasts
      BY <1>3 DEF Inv, PostInv, Lasts
    <2>2. Post(p)' \intersect ToNSMessage = {}
      BY <1>3, <2>1
    <2>3. toNS'[p] \in Seq(ToNSMessage)
      BY <1>4 DEF TypeInv, Typed, MailOK
    <2>4. Entries(toNS'[p]) \subseteq ToNSMessage
      BY <2>3, EntriesType
    <2>5. Entries(toNS'[p]) = {}
      BY <2>2, <2>4 DEF Post
    <2> QED BY <2>3, <2>5, EntriesEmpty DEF Post
  <1>6. stage[p] = "dead" /\ ~Alive(p) /\ Posted(p, "closed")
    <2>1. Posted(p, "closed")
      BY <1>3 DEF Posted
    <2> QED BY <2>1 DEF Inv, PostInv, Alive
  <1>7. unb \in FromNSMessage /\ unb.type = "UNB" /\ unb.sid = k
    BY DEF FromNSMessage, News
  <1> HIDE DEF unb
  <1>8. /\ \E e \in Available(registry) : e.svc = p /\ e.sid = k
        /\ \A e \in Entries(registry) : e.svc = p <=> e.sid = k
        /\ \A g \in Entries(registry)' : \E e \in Entries(registry) :
             /\ g.svc = e.svc /\ g.sid = e.sid
             /\ g.waiting <=> e.waiting \/ e.svc = p
        /\ \A e \in Entries(registry) : e.svc # p => \E g \in Entries(registry)' :
             g.svc = e.svc /\ g.sid = e.sid /\ g.waiting = e.waiting /\ g.acks = e.acks \ {k}
        /\ \A f \in Available(registry) : f.svc # p => \E g \in Entries(registry)' :
             g.svc = p /\ g.sid = k /\ g.waiting /\ f.sid \in g.acks
        /\ Distinct(registry')
    BY <1>0, <1>1, Departs
  <1>9. \A q \in Service : SentOrLost(q, unb) /\ (fromNS'[q] # fromNS[q] => Knows(registry, q))
    <2>1. fromNS \in [Service -> Seq(FromNSMessage)]
      BY Vars DEF Inv
    <2> QED BY <1>1, <2>1 DEF Broadcast, Recipients, SentOrLost, Knows
  <1>10. \A q \in Service :
           /\ Mail(q) \subseteq Mail(q)' /\ Mail(q)' \subseteq Mail(q) \union {unb}
           /\ fromNS[q] # << >> => fromNS'[q] # << >> /\ Head(fromNS'[q]) = Head(fromNS[q])
           /\ cnx[q] # "open" => fromNS'[q] = fromNS[q]
           /\ \A A, B : Bars(fromNS[q], A, B) /\ (Mail(q) \intersect A = {} \/ unb \notin B) =>
                Bars(fromNS'[q], A, B)
    BY <1>7, <1>9, Sent DEF Inv
  <1>11. \A q \in Service : /\ Alive(q)' <=> Alive(q)
                            /\ Refused(q)' <=> Refused(q)
                            /\ Blank(q)' <=> Blank(q)
                            /\ \A type : Posted(q, type)' <=> Posted(q, type) /\ q # p
    <2>1. \A q \in Service : (Alive(q)' <=> Alive(q)) /\ (Blank(q)' <=> Blank(q))
      BY <1>2 DEF Alive, Blank
    <2>2. \A q \in Service : Refused(q)' <=> Refused(q)
      BY <1>7, <1>10 DEF Refused
    <2>3. \A q \in Service : \A type : Posted(q, type)' <=> Posted(q, type) /\ q # p
      BY <1>3, <1>5 DEF Posted
    <2> QED BY <2>1, <2>2, <2>3
  <1>12. \A q \in Service, j \in SId : /\ Granting(q, j)' <=> Granting(q, j)
                                       /\ Acked(q, j)' => Acked(q, j)
                                       /\ Entered(q, j)' => Entered(q, j)
                                       /\ Clean(q, j)' => Clean(q, j)
    <2>1. \A q \in Service, j \in SId : Granting(q, j)' <=> Granting(q, j)
      BY <1>7, <1>10 DEF Granting
    <2>2. \A q \in Service, j \in SId : Acked(q, j)' => Acked(q, j)
      BY <1>3 DEF Acked
    <2>3. \A q \in Service, j \in SId : Entered(q, j)' => Entered(q, j)
      BY <1>8 DEF Entered
    <2>4. \A q \in Service, j \in SId : Clean(q, j)' => Clean(q, j)
      BY <1>1 DEF Clean, Spoil
    <2> QED BY <2>1, <2>2, <2>3, <2>4
  <1>13. \A r, q \in Service, j \in SId : Mentions(r, q, j)' <=> Mentions(r, q, j)
    <2>1. \A r, q \in Service, j \in SId : Told(r, q, j)' <=> Told(r, q, j)
      BY <1>7, <1>10 DEF Told, Tells
    <2> QED BY <1>2, <2>1 DEF Mentions, Noted, Listed
  <1>14. \A q \in Service, j \in SId : Owner(q, j)' => Owner(q, j)
    BY <1>2, <1>11, <1>12 DEF Owner
  <1>15. \A q \in Service, j \in SId : Trace(q, j)' => Trace(q, j)
    BY <1>2, <1>12, <1>13 DEF Trace
  <1>16. \A q \in Service : Knows(registry, q) /\ q # p => Knows(registry, q)'
    <2> SUFFICES ASSUME NEW q \in Service, Knows(registry, q), q # p PROVE Knows(registry, q)'
      OBVIOUS
    <2>1. PICK f \in Entries(registry) : f.svc = q /\ ~f.waiting
      BY DEF Knows, Available
    <2>2. PICK g \in Entries(registry)' : g.svc = q /\ g.waiting = f.waiting
      BY <1>8, <2>1
    <2> QED BY <2>1, <2>2 DEF Knows, Available
  <1>17. \A r \in Service : Knows(registry, r) /\ r # p => Awaited(r, k)'
    <2> SUFFICES ASSUME NEW r \in Service, Knows(registry, r), r # p PROVE Awaited(r, k)'
      OBVIOUS
    <2>1. PICK f \in Available(registry) : f.svc = r
      BY DEF Knows
    <2>2. f \in Entries(registry) /\ ~f.waiting
      BY DEF Available
    <2>3. PICK g \in Entries(registry)' : g.svc = p /\ g.sid = k /\ g.waiting /\ f.sid \in g.acks
      BY <1>8, <2>1
    <2>4. PICK h \in Entries(registry)' : h.svc = r /\ h.sid = f.sid /\ h.waiting = f.waiting
      BY <1>8, <2>1, <2>2
    <2>5. h \in Available(registry)'
      BY <2>2, <2>4 DEF Available
    <2> QED BY <2>3, <2>4, <2>5 DEF Awaited
  <1>18. \A r \in Service, j \in SId : Awaited(r, j) /\ r # p => Awaited(r, j)' /\ j # k
    <2> SUFFICES ASSUME NEW r \in Service, NEW j \in SId, Awaited(r, j), r # p
                 PROVE  Awaited(r, j)' /\ j # k
      OBVIOUS
    <2>1. PICK e \in Entries(registry), f \in Available(registry) :
            e.waiting /\ e.sid = j /\ f.svc = r /\ f.sid \in e.acks
      BY DEF Awaited
    <2>2. e.svc # p /\ j # k
      <3>1. PICK o \in Available(registry) : o.svc = p
        BY <1>8
      <3>2. o \in Entries(registry) /\ ~o.waiting
        BY DEF Available
      <3>3. e.svc # p
        BY <2>1, <3>1, <3>2, OneEntry
      <3> QED BY <1>8, <2>1, <3>3
    <2>3. PICK g \in Entries(registry)' :
            g.sid = j /\ g.waiting = e.waiting /\ g.acks = e.acks \ {k}
      BY <1>8, <2>1, <2>2
    <2>4. f \in Entries(registry) /\ ~f.waiting /\ f.sid # k
      BY <1>8, <2>1 DEF Available
    <2>5. PICK h \in Entries(registry)' : h.svc = r /\ h.sid = f.sid /\ h.waiting = f.waiting
      BY <1>8, <2>1, <2>4
    <2>6. h \in Available(registry)' /\ h.sid \in g.acks
      BY <2>1, <2>3, <2>4, <2>5 DEF Available
    <2> QED BY <2>1, <2>2, <2>3, <2>5, <2>6 DEF Awaited
  <1>19. /\ \A q \in Service : ~Awaited(q, k)
         /\ \A e \in Entries(registry) : ~(e.waiting /\ e.sid = k)
    <2>1. PICK o \in Available(registry) : o.svc = p
      BY <1>8
    <2>2. o \in Entries(registry) /\ ~o.waiting
      BY DEF Available
    <2>3. \A e \in Entries(registry) : ~(e.waiting /\ e.sid = k)
      BY <1>8, <2>1, <2>2, OneEntry
    <2> QED BY <2>3 DEF Awaited
  <1>20. LifeInv'
    <2> SUFFICES ASSUME NEW q \in Service
                 PROVE  /\ ~Alive(q)' => /\ fromNS'[q] = << >> /\ cnx'[q] = "none"
                                         /\ Blank(q)'
                        /\ stage'[q] = "off" => /\ toNS'[q] = << >> /\ sid'[q] = 0
                                                /\ \A j \in SId : ~Trace(q, j)'
                        /\ stage'[q] = "registering" => sid'[q] = 0 /\ Blank(q)'
                        /\ Bars(fromNS'[q], FromNSMessage, Replies)
                        /\ (\E m \in Mail(q)' : m.type = "RG") => stage'[q] = "registering"
                        /\ stage'[q] = "registering" /\ fromNS'[q] # << >> =>
                             Head(fromNS'[q]).type = "RG"
                        /\ Refused(q)' => \A j \in SId : ~Trace(q, j)'
      BY DEF LifeInv
    <2>1. ~Alive(q) => fromNS'[q] = fromNS[q]
      BY <1>10 DEF Inv, LifeInv
    <2>2. toNS[q] = << >> => toNS'[q] = << >>
      BY <1>3
    <2>3. Bars(fromNS'[q], FromNSMessage, Replies)
      BY <1>7, <1>10 DEF Inv, LifeInv, Replies
    <2>4. (\E m \in Mail(q)' : m.type = "RG") => \E m \in Mail(q) : m.type = "RG"
      BY <1>7, <1>10
    <2>5. stage[q] = "registering" /\ fromNS'[q] # << >> => fromNS[q] # << >>
      <3>1. CASE fromNS'[q] = fromNS[q]
        BY <3>1
      <3>2. CASE Knows(registry, q)
        BY <3>2 DEF Inv, RegistryInv, Knows, Available
      <3> QED BY <1>9, <3>1, <3>2
    <2> QED BY <1>2, <1>10, <1>11, <1>15, <2>1, <2>2, <2>3, <2>4, <2>5 DEF Inv, LifeInv
  <1>21. PostInv'
    <2> SUFFICES ASSUME NEW q \in Service
                 PROVE  /\ Bars(toNS'[q], ToNSMessage, Firsts)
                        /\ Bars(toNS'[q], Lasts, ToNSMessage)
                        /\ Posted(q, "closed")' => stage'[q] = "dead"
                        /\ toNS'[q] # << >> =>
                             (Alive(q)' /\ cnx'[q] = "open") \/ Posted(q, "closed")'
                        /\ Posted(q, "RG")' => /\ fromNS'[q] = << >>
                                               /\ \A j \in SId : ~Trace(q, j)'
                        /\ Posted(q, "RRG")' => ~Entered(q, sid[q])'
                        /\ Posted(q, "ACK_UNI")' => Knows(registry, q)' \/ Posted(q, "RRG")'
                        /\ /\ Alive(q)' /\ cnx'[q] = "open"
                           /\ sid'[q] # 0 \/ \E j \in SId : Granting(q, j)'
                           => Knows(registry, q)' \/ Posted(q, "RRG")'
                        /\ nsUp' \/ toNS'[q] = << >>
      BY DEF PostInv
    <2>1. Bars(toNS'[q], ToNSMessage, Firsts) /\ Bars(toNS'[q], Lasts, ToNSMessage)
      BY <1>3 DEF Inv, PostInv
    <2>2. CASE q = p
      BY <1>2, <1>3, <1>5, <1>6, <1>11, <2>1, <2>2
    <2>3. CASE q # p
      <3>1. Posted(q, "RG") => fromNS'[q] = fromNS[q]
        <4>1. ASSUME Posted(q, "RG"), Knows(registry, q) PROVE FALSE
          <5>1. PICK e \in Entries(registry) : e.svc = q
            BY <4>1 DEF Knows, Available
          <5>2. e.sid \in SId /\ Trace(q, e.sid)
            BY <5>1, RegistryEntries DEF Inv, Entry, Trace, Entered
          <5> QED BY <4>1, <5>2, Asking
        <4> QED BY <1>9, <4>1
      <3>2. Entered(q, sid[q])' => Entered(q, sid[q])
        BY <1>2, <1>8 DEF Entered
      <3> QED BY <1>2, <1>3, <1>11, <1>12, <1>15, <1>16, <2>1, <2>3, <3>1, <3>2
              DEF Inv, PostInv
    <2> QED BY <2>2, <2>3
  <1>22. RegistryInv'
    <2>1. ASSUME NEW g \in Entries(registry)'
          PROVE  /\ g.waiting => stage'[g.svc] = "dead" /\ toNS'[g.svc] = << >>
                 /\ ~g.waiting =>
                      (Alive(g.svc)' /\ cnx'[g.svc] = "open") \/ Posted(g.svc, "closed")'
                 /\ stage'[g.svc] = "registering" => fromNS'[g.svc] # << >>
      <3>1. PICK e \in Entries(registry) :
              g.svc = e.svc /\ (g.waiting <=> e.waiting \/ e.svc = p)
        BY <1>8
      <3>2. e.svc \in Service
        BY RegistryEntries DEF Inv, Entry
      <3>3. /\ e.waiting => stage[e.svc] = "dead" /\ toNS[e.svc] = << >>
            /\ ~e.waiting => (Alive(e.svc) /\ cnx[e.svc] = "open") \/ Posted(e.svc, "closed")
            /\ stage[e.svc] = "registering" => fromNS[e.svc] # << >>
        BY DEF Inv, RegistryInv
      <3>4. CASE e.svc = p
        BY <1>2, <1>5, <1>6, <3>1, <3>4
      <3>5. CASE e.svc # p
        BY <1>2, <1>3, <1>10, <1>11, <3>1, <3>2, <3>3, <3>5
      <3> QED BY <3>4, <3>5
    <2> QED BY <1>2, <1>3, <1>8, <2>1 DEF RegistryInv
  <1>23. StartInv'
    <2> SUFFICES ASSUME NEW r \in Service, Posted(r, "RG")'
                 PROVE  /\ \A q \in Service : Alive(q)' /\ (sid'[q] # 0 \/ fromNS'[q] # << >>) =>
                             Knows(registry, q)' \/ Refused(q)'
                        /\ \A q \in Service : ~Posted(q, "RRG")'
      BY DEF StartInv
    <2>1. /\ \A q \in Service : Alive(q) /\ (sid[q] # 0 \/ fromNS[q] # << >>) =>
               Knows(registry, q) \/ Refused(q)
          /\ \A q \in Service : ~Posted(q, "RRG")
      BY <1>11 DEF Inv, StartInv
    <2>2. ASSUME NEW q \in Service, Alive(q), sid[q] # 0 \/ fromNS'[q] # << >>
          PROVE  Knows(registry, q)' \/ Refused(q)'
      <3>1. q # p
        BY <1>6, <2>2
      <3>2. Knows(registry, q) \/ Refused(q)
        BY <1>9, <2>1, <2>2
      <3> QED BY <1>11, <1>16, <3>1, <3>2
    <2> QED BY <1>2, <1>11, <2>1, <2>2
  <1>24. TraceInv' /\ OwnerInv' /\ NameInv'
    BY <1>2, <1>14, <1>15, NothingNew
  <1>25. LinkInv' /\ TableInv'
    <2>1. \A q \in Service : \A m \in Mail(q)' :
            m \in Mail(q) \/ (m.type = "RG" /\ m.ok => Distinct(m.list))
      BY <1>7, <1>10
    <2>2. spoiled \subseteq spoiled'
      BY <1>1 DEF Spoil
    <2> QED BY <1>2, <2>1, <2>2, TablesUntouched
  <1>26. ASSUME NEW r \in Service, NEW q \in Service, NEW j \in SId,
                Clean(r, j)', Mentions(r, q, j)
         PROVE  /\ Owner(q, j)'
                /\ \A e \in Entries(registry)' : e.waiting /\ e.sid = j => Awaited(r, j)'
    <2>1. /\ Owner(q, j)
          /\ \A e \in Entries(registry) : e.waiting /\ e.sid = j => Awaited(r, j)
      BY <1>12, <1>26 DEF Inv, MentionInv
    <2>2. Alive(r) /\ (sid[r] # 0 \/ fromNS[r] # << >>) /\ r # p
      BY <1>6, <1>26, MentionsAlive
    <2>3. CASE j = k
      <3>1. Knows(registry, r)
        BY <1>1, <1>26, <2>2, <2>3 DEF Clean, Spoil, Absent
      <3>2. Awaited(r, k)'
        BY <1>17, <2>2, <3>1
      <3>3. q = p
        <4>1. Owner(p, k)
          BY <1>8 DEF Owner, Entered, Available
        <4> QED BY <2>1, <2>3, <4>1 DEF Inv, OwnerInv
      <3>4. Entered(p, k)'
        <4>1. PICK f \in Available(registry) : f.svc = r
          BY <3>1 DEF Knows
        <4> QED BY <1>8, <2>2, <4>1 DEF Entered
      <3> QED BY <2>3, <3>2, <3>3, <3>4 DEF Owner
    <2>4. CASE j # k
      <3>1. Owner(q, j)'
        <4>1. Entered(q, j) => Entered(q, j)'
          BY <1>8, <2>4 DEF Entered
        <4>2. q = p => ~Posted(q, "RRG") \/ sid[q] # j
          <5>1. Posted(p, "RRG") => FALSE
            BY <1>3, <1>5 DEF Posted
          <5> QED BY <5>1
        <4> QED BY <1>2, <1>11, <1>12, <2>1, <4>1, <4>2 DEF Owner
      <3>2. ASSUME NEW g \in Entries(registry)', g.waiting, g.sid = j
            PROVE  Awaited(r, j)'
        <4>1. PICK e \in Entries(registry) :
                g.sid = e.sid /\ (g.waiting <=> e.waiting \/ e.svc = p)
          BY <1>8
        <4>2. e.waiting
          BY <1>8, <2>4, <3>2, <4>1
        <4> QED BY <1>18, <2>1, <2>2, <3>2, <4>1, <4>2
      <3> QED BY <3>1, <3>2
    <2> QED BY <2>3, <2>4
  <1>27. MentionInv'
    BY <1>13, <1>26 DEF MentionInv
  <1>28. AckInv'
    <2> SUFFICES ASSUME NEW q \in Service, NEW j \in SId, Clean(q, j)'
                 PROVE  /\ Bars(fromNS'[q], Drops(j), Drops(j) \union Tales(j))
                        /\ Bars(toNS'[q], Acks(j), Acks(j))
                        /\ Dropped(q, j)' \/ Acked(q, j)' => Awaited(q, j)'
                        /\ Acked(q, j)' => /\ ~Dropped(q, j)'
                                           /\ \A r \in Service : ~Mentions(q, r, j)'
      BY DEF AckInv
    <2>1. /\ Bars(fromNS[q], Drops(j), Drops(j) \union Tales(j))
          /\ Bars(toNS[q], Acks(j), Acks(j))
          /\ Dropped(q, j) \/ Acked(q, j) => Awaited(q, j)
          /\ Acked(q, j) => ~Dropped(q, j) /\ \A r \in Service : ~Mentions(q, r, j)
      BY <1>12 DEF Inv, AckInv
    <2>2. Bars(toNS'[q], Acks(j), Acks(j))
      BY <1>3, <2>1
    <2>3. CASE q = p
      <3>1. fromNS'[p] = << >> /\ Mail(p)' = {} /\ Post(p)' = {}
        <4>1. fromNS'[p] = << >>
          BY <1>6, <1>10 DEF Inv, LifeInv
        <4> QED BY <1>5, <4>1, EntriesEmpty DEF Mail, Entries
      <3> QED BY <2>2, <2>3, <3>1, BarsShort DEF Dropped, Acked
    <2>4. CASE q # p /\ j # k
      <3>1. unb \notin Drops(j) \union Tales(j)
        BY <1>7, <2>4 DEF Drops, Tales, Tells
      <3>2. Dropped(q, j)' => Dropped(q, j)
        BY <1>10, <3>1 DEF Dropped
      <3> QED BY <1>10, <1>12, <1>13, <1>18, <2>1, <2>2, <2>4, <3>1, <3>2
    <2>5. CASE q # p /\ j = k
      <3>1. ~Dropped(q, k) /\ ~Acked(q, k)
        BY <1>19, <2>1, <2>5
      <3>2. Bars(fromNS'[q], Drops(k), Drops(k) \union Tales(k))
        BY <1>10, <2>1, <2>5, <3>1 DEF Dropped
      <3>3. Dropped(q, k)' => Knows(registry, q)
        <4>1. fromNS'[q] = fromNS[q] => (Dropped(q, k)' <=> Dropped(q, k))
          BY DEF Dropped, Mail
        <4> QED BY <1>9, <3>1, <4>1
      <3> QED BY <1>12, <1>17, <2>2, <2>5, <3>1, <3>2, <3>3
    <2> QED BY <2>3, <2>4, <2>5
  <1>29. SpoilInv'
    BY <1>2, <1>12 DEF Inv, SpoilInv
  <1> QED BY <1>4, <1>20, <1>21, <1>22, <1>23, <1>24, <1>25, <1>27, <1>28, <1>29 DEF Inv

-----------------------------------------------------------------------------
(* When a service asks for an identifier, the naming service knows all     *)
(* those that have one.                                                    *)
LEMMA AllEntered ==
  ASSUME Inv, NEW p \in Service, Posted(p, "RG"), NEW q \in Service, NEW k \in SId, Owner(q, k)
  PROVE  Entered(q, k)
PROOF
  <1>1. Trace(q, k)
    BY DEF Owner, Trace
  <1>2. ASSUME Alive(q), sid[q] = k \/ Granting(q, k)
        PROVE  Entered(q, k)
    <2>1. sid[q] # 0 \/ fromNS[q] # << >>
      <3>1. Granting(q, k) => fromNS[q] # << >>
        BY EntriesEmpty DEF Granting, Mail, Entries
      <3> QED BY <1>2, <3>1, SIdNat
    <2>2. Knows(registry, q) \/ Refused(q)
      BY <1>2, <2>1 DEF Inv, StartInv
    <2>3. ~Refused(q)
      BY <1>1 DEF Inv, LifeInv
    <2>4. PICK e \in Entries(registry) : e.svc = q
      BY <2>2, <2>3 DEF Knows, Available
    <2>5. e.sid \in SId /\ Trace(q, e.sid)
      BY <2>4, RegistryEntries DEF Inv, Entry, Trace, Entered
    <2>6. e.sid = k
      BY <1>1, <2>5 DEF Inv, TraceInv
    <2> QED BY <2>4, <2>6 DEF Entered
  <1>3. ~Posted(q, "RRG")
    BY Asking
  <1> QED BY <1>2, <1>3 DEF Owner

(* The naming service has one more service in its list.                    *)
LEMMA Registers ==
  ASSUME registry \in Seq(Entry), NEW p \in Service, NEW k \in SId,
         registry' = Register(registry, p, k), \A e \in Entries(registry) : e.sid # k,
         Distinct(registry)
  PROVE  \E new \in Entry :
           /\ new.svc = p /\ new.sid = k /\ ~new.waiting
           /\ Entries(registry)' = Entries(registry) \union {new}
           /\ Available(registry)' = Available(registry) \union {new}
           /\ Distinct(registry')
PROOF
  <1> DEFINE new == [svc |-> p, sid |-> k, waiting |-> FALSE, acks |-> {}]
  <1>1. new \in Entry /\ new.svc = p /\ new.sid = k /\ ~new.waiting
    BY DEF Entry
  <1>2. Entries(registry)' = Entries(registry) \union {new}
    BY RegisterEntries
  <1>3. registry' = Append(registry, new)
    BY DEF Register
  <1> HIDE DEF new
  <1>4. Available(registry)' = Available(registry) \union {new}
    BY <1>1, <1>2 DEF Available
  <1>5. Distinct(registry')
    BY <1>1, <1>3, DistinctAppend
  <1> QED BY <1>1, <1>2, <1>4, <1>5

(* A service that comes back sends the identifier that it owns: no entry   *)
(* has it for another, though the code does not look at them.              *)
LEMMA ResendInv ==
  ASSUME Inv, NEW p \in Service, NSResend(p)
  PROVE  Inv'
PROOF
  <1>1. /\ Received(p, "RRG") /\ Handled(p)
        /\ registry' = IF Granted(registry, unique, p) THEN Register(registry, p, sid[p])
                                                       ELSE registry
        /\ UNCHANGED << unique, nsUp, fromNS, cnx, stage, sid, tables, link, spoiled >>
    BY DEF NSResend
  <1>2. UNCHANGED << unique, nsUp, fromNS, cnx, stage, sid, known, ids, up, link, spoiled >>
    BY <1>1 DEF tables
  <1>3. /\ toNS[p] # << >> /\ Head(toNS[p]) \in ToNSMessage /\ Head(toNS[p]).type = "RRG"
        /\ Post(p) = {Head(toNS[p])} \union Post(p)'
        /\ \A q \in Service : /\ Post(q)' \subseteq Post(q)
                              /\ \A A, B : Bars(toNS[q], A, B) => Bars(toNS'[q], A, B)
        /\ \A q \in Service : q # p => toNS'[q] = toNS[q] /\ Post(q)' = Post(q)
        /\ \A m \in Post(p)' : m.type \notin {"RG", "RRG"}
        /\ nsUp
    BY <1>1, Taken
  <1>4. TypeInv'
    BY ResendType DEF Inv
  <1>5. Posted(p, "RRG")
    BY <1>3 DEF Posted
  <1>6. sid[p] # 0
    BY <1>3 DEF Inv, TypeInv, Identified, Post
  <1>0. PICK k \in SId : k = sid[p]
    BY <1>6, Vars DEF Inv
  <1>7. Owner(p, k) /\ ~Entered(p, k)
    BY <1>0, <1>5 DEF Owner, Inv, PostInv
  <1>8. \A e \in Entries(registry) :
          /\ e.svc \in Service /\ e.sid \in SId
          /\ Owner(e.svc, e.sid)
          /\ e.svc # p /\ e.sid # k
    <2> SUFFICES ASSUME NEW e \in Entries(registry)
                 PROVE  /\ e.svc \in Service /\ e.sid \in SId
                        /\ Owner(e.svc, e.sid)
                        /\ e.svc # p /\ e.sid # k
      OBVIOUS
    <2>1. e.svc \in Service /\ e.sid \in SId
      BY RegistryEntries DEF Inv, Entry
    <2>2. Entered(e.svc, e.sid) /\ Owner(e.svc, e.sid)
      BY DEF Owner, Entered
    <2>3. e.svc # p
      <3>1. SUFFICES ASSUME e.svc = p PROVE FALSE
        OBVIOUS
      <3>2. e.sid = k
        BY <1>0, <1>6, <3>1, KnownIdentifier
      <3> QED BY <1>7, <2>2, <3>1, <3>2
    <2>4. e.sid # k
      BY <1>7, <2>1, <2>2, <2>3 DEF Inv, OwnerInv
    <2> QED BY <2>1, <2>2, <2>3, <2>4
  <1>9. Granted(registry, unique, p)
    <2>1. \A e \in Entries(registry) : NameOf[p] \in unique => NameOf[e.svc] # NameOf[p]
      BY <1>7, <1>8 DEF Inv, NameInv
    <2> QED BY <2>1 DEF Granted
  <1>10. PICK new \in Entry : /\ new.svc = p /\ new.sid = k /\ ~new.waiting
                              /\ Entries(registry)' = Entries(registry) \union {new}
                              /\ Available(registry)' = Available(registry) \union {new}
                              /\ Distinct(registry')
    <2>1. registry \in Seq(Entry) /\ Distinct(registry)
      BY Vars DEF Inv, RegistryInv
    <2>2. registry' = Register(registry, p, k)
      BY <1>0, <1>1, <1>9
    <2>3. \A e \in Entries(registry) : e.sid # k
      BY <1>8
    <2> QED BY <2>1, <2>2, <2>3, Registers
  <1>11. \A q \in Service : /\ Alive(q)' <=> Alive(q)
                            /\ Mail(q)' = Mail(q)
                            /\ Refused(q)' <=> Refused(q)
                            /\ Blank(q)' <=> Blank(q)
                            /\ Knows(registry, q)' <=> Knows(registry, q) \/ q = p
                            /\ \A type : Posted(q, type)' => Posted(q, type)
                            /\ Posted(q, "RRG")' <=> Posted(q, "RRG") /\ q # p
                            /\ Posted(q, "closed") => Posted(q, "closed")'
    <2>1. \A q \in Service : /\ Alive(q)' <=> Alive(q)
                             /\ Mail(q)' = Mail(q)
                             /\ Refused(q)' <=> Refused(q)
                             /\ Blank(q)' <=> Blank(q)
      BY <1>2 DEF Alive, Mail, Refused, Blank
    <2>2. \A q \in Service : Knows(registry, q)' <=> Knows(registry, q) \/ q = p
      BY <1>10 DEF Knows
    <2>3. \A q \in Service : /\ \A type : Posted(q, type)' => Posted(q, type)
                             /\ Posted(q, "RRG")' <=> Posted(q, "RRG") /\ q # p
                             /\ Posted(q, "closed") => Posted(q, "closed")'
      BY <1>3 DEF Posted
    <2> QED BY <2>1, <2>2, <2>3
  <1>12. \A q \in Service, j \in SId : /\ Granting(q, j)' <=> Granting(q, j)
                                       /\ Dropped(q, j)' <=> Dropped(q, j)
                                       /\ Acked(q, j)' => Acked(q, j)
                                       /\ Entered(q, j)' <=> Entered(q, j) \/ (q = p /\ j = k)
                                       /\ Clean(q, j)' <=> Clean(q, j)
                                       /\ Awaited(q, j) => Awaited(q, j)'
    <2>1. \A q \in Service, j \in SId : /\ Granting(q, j)' <=> Granting(q, j)
                                        /\ Dropped(q, j)' <=> Dropped(q, j)
      BY <1>11 DEF Granting, Dropped
    <2>2. \A q \in Service, j \in SId : Acked(q, j)' => Acked(q, j)
      BY <1>3 DEF Acked
    <2>3. \A q \in Service, j \in SId : Entered(q, j)' <=> Entered(q, j) \/ (q = p /\ j = k)
      BY <1>10 DEF Entered
    <2>4. \A q \in Service, j \in SId : Clean(q, j)' <=> Clean(q, j)
      BY <1>2 DEF Clean
    <2>5. \A q \in Service, j \in SId : Awaited(q, j) => Awaited(q, j)'
      BY <1>10 DEF Awaited
    <2> QED BY <2>1, <2>2, <2>3, <2>4, <2>5
  <1>13. \A r, q \in Service, j \in SId : Mentions(r, q, j)' <=> Mentions(r, q, j)
    BY <1>2, <1>11 DEF Mentions, Noted, Listed, Told
  <1>14. \A q \in Service, j \in SId : Owner(q, j)' <=> Owner(q, j)
    <2> SUFFICES ASSUME NEW q \in Service, NEW j \in SId PROVE Owner(q, j)' <=> Owner(q, j)
      OBVIOUS
    <2>1. CASE q # p
      BY <1>2, <1>11, <1>12, <2>1 DEF Owner
    <2>2. CASE q = p
      BY <1>0, <1>2, <1>5, <1>11, <1>12, <2>2 DEF Owner
    <2> QED BY <2>1, <2>2
  <1>15. \A q \in Service, j \in SId : Trace(q, j)' <=> Trace(q, j)
    <2> SUFFICES ASSUME NEW q \in Service, NEW j \in SId PROVE Trace(q, j)' <=> Trace(q, j)
      OBVIOUS
    <2>1. q = p /\ j = k => sid[q] = j
      BY <1>0
    <2> QED BY <1>2, <1>12, <1>13, <2>1 DEF Trace
  <1>16. \A q \in Service : ~Posted(q, "RG")
    BY <1>5, Asking
  <1>17. LifeInv'
    <2>1. \A q \in Service : toNS[q] = << >> => toNS'[q] = << >>
      BY <1>3
    <2> QED BY <1>2, <1>11, <1>15, <2>1 DEF Inv, LifeInv
  <1>18. PostInv'
    <2> SUFFICES ASSUME NEW q \in Service
                 PROVE  /\ Bars(toNS'[q], ToNSMessage, Firsts)
                        /\ Bars(toNS'[q], Lasts, ToNSMessage)
                        /\ Posted(q, "closed")' => stage'[q] = "dead"
                        /\ toNS'[q] # << >> =>
                             (Alive(q)' /\ cnx'[q] = "open") \/ Posted(q, "closed")'
                        /\ Posted(q, "RG")' => /\ fromNS'[q] = << >>
                                               /\ \A j \in SId : ~Trace(q, j)'
                        /\ Posted(q, "RRG")' => ~Entered(q, sid[q])'
                        /\ Posted(q, "ACK_UNI")' => Knows(registry, q)' \/ Posted(q, "RRG")'
                        /\ /\ Alive(q)' /\ cnx'[q] = "open"
                           /\ sid'[q] # 0 \/ \E j \in SId : Granting(q, j)'
                           => Knows(registry, q)' \/ Posted(q, "RRG")'
                        /\ nsUp' \/ toNS'[q] = << >>
      BY DEF PostInv
    <2>1. Bars(toNS'[q], ToNSMessage, Firsts) /\ Bars(toNS'[q], Lasts, ToNSMessage)
      BY <1>3 DEF Inv, PostInv
    <2>2. q # p => (Entered(q, sid[q])' => Entered(q, sid[q]))
      BY <1>2, <1>10 DEF Entered
    <2>3. toNS'[q] # << >> => toNS[q] # << >>
      BY <1>3
    <2> QED BY <1>2, <1>3, <1>11, <1>12, <1>16, <2>1, <2>2, <2>3 DEF Inv, PostInv
  <1>19. RegistryInv'
    <2>1. (Alive(p) /\ cnx[p] = "open") \/ Posted(p, "closed")
      BY <1>3 DEF Inv, PostInv
    <2>2. stage[p] # "registering"
      BY <1>6 DEF Inv, LifeInv
    <2>3. \A q \in Service : toNS[q] = << >> => toNS'[q] = << >>
      BY <1>3
    <2>4. ASSUME NEW e \in Entries(registry)'
          PROVE  /\ e.waiting => stage'[e.svc] = "dead" /\ toNS'[e.svc] = << >>
                 /\ ~e.waiting =>
                      (Alive(e.svc)' /\ cnx'[e.svc] = "open") \/ Posted(e.svc, "closed")'
                 /\ stage'[e.svc] = "registering" => fromNS'[e.svc] # << >>
      <3>1. CASE e = new
        BY <1>2, <1>10, <1>11, <2>1, <2>2, <3>1
      <3>2. CASE e \in Entries(registry)
        <4>1. e.svc \in Service
          BY <1>8, <3>2
        <4>2. /\ e.waiting => stage[e.svc] = "dead" /\ toNS[e.svc] = << >>
              /\ ~e.waiting => (Alive(e.svc) /\ cnx[e.svc] = "open") \/ Posted(e.svc, "closed")
              /\ stage[e.svc] = "registering" => fromNS[e.svc] # << >>
          BY <3>2 DEF Inv, RegistryInv
        <4> QED BY <1>2, <1>11, <2>3, <4>1, <4>2
      <3> QED BY <1>10, <3>1, <3>2
    <2> QED BY <1>2, <1>3, <1>10, <2>4 DEF RegistryInv
  <1>20. StartInv'
    BY <1>11, <1>16 DEF StartInv
  <1>21. TraceInv' /\ OwnerInv' /\ NameInv'
    BY <1>2, <1>14, <1>15, NothingNew
  <1>22. LinkInv' /\ TableInv'
    <2>1. \A q \in Service : \A m \in Mail(q)' :
            m \in Mail(q) \/ (m.type = "RG" /\ m.ok => Distinct(m.list))
      BY <1>11
    <2> QED BY <1>1, <2>1, TablesUntouched
  <1>23. MentionInv'
    <2> SUFFICES ASSUME NEW r \in Service, NEW q \in Service, NEW j \in SId,
                        Clean(r, j)', Mentions(r, q, j)'
                 PROVE  /\ Owner(q, j)'
                        /\ \A e \in Entries(registry)' : e.waiting /\ e.sid = j => Awaited(r, j)'
      BY DEF MentionInv
    <2>1. /\ Owner(q, j)
          /\ \A e \in Entries(registry) : e.waiting /\ e.sid = j => Awaited(r, j)
      BY <1>12, <1>13 DEF Inv, MentionInv
    <2> QED BY <1>10, <1>12, <1>14, <2>1
  <1>24. AckInv'
    <2> SUFFICES ASSUME NEW q \in Service, NEW j \in SId, Clean(q, j)'
                 PROVE  /\ Bars(fromNS'[q], Drops(j), Drops(j) \union Tales(j))
                        /\ Bars(toNS'[q], Acks(j), Acks(j))
                        /\ Dropped(q, j)' \/ Acked(q, j)' => Awaited(q, j)'
                        /\ Acked(q, j)' => /\ ~Dropped(q, j)'
                                           /\ \A r \in Service : ~Mentions(q, r, j)'
      BY DEF AckInv
    <2>1. /\ Bars(fromNS[q], Drops(j), Drops(j) \union Tales(j))
          /\ Bars(toNS[q], Acks(j), Acks(j))
          /\ Dropped(q, j) \/ Acked(q, j) => Awaited(q, j)
          /\ Acked(q, j) => ~Dropped(q, j) /\ \A r \in Service : ~Mentions(q, r, j)
      BY <1>12 DEF Inv, AckInv
    <2>2. Bars(toNS'[q], Acks(j), Acks(j))
      BY <1>3, <2>1
    <2> QED BY <1>2, <1>12, <1>13, <2>1, <2>2
  <1>25. SpoilInv'
    BY <1>2, <1>12 DEF Inv, SpoilInv
  <1> QED BY <1>4, <1>17, <1>18, <1>19, <1>20, <1>21, <1>22, <1>23, <1>24, <1>25 DEF Inv

(* The smallest identifier that is free is nobody's, as all those who have *)
(* one are in the registry: it becomes that of the new service, and the    *)
(* others are told.                                                        *)
LEMMA AcceptInv ==
  ASSUME Inv, NEW p \in Service, NSAccept(p)
  PROVE  Inv'
PROOF
  <1>1. /\ Received(p, "RG") /\ Handled(p)
        /\ FreeSIds(registry) # {} /\ Granted(registry, unique, p)
        /\ UNCHANGED << unique, nsUp, cnx, stage, sid, tables, link, spoiled >>
    BY DEF NSAccept
  <1>0. PICK k \in SId : k = Min(FreeSIds(registry)) /\ \A e \in Entries(registry) : e.sid # k
    <2>1. FreeSIds(registry) \in SUBSET Nat
      BY SIdNat DEF FreeSIds
    <2>2. Min(FreeSIds(registry)) \in FreeSIds(registry)
      BY <1>1, <2>1, MinProperties
    <2> QED BY <2>2 DEF FreeSIds
  <1>2. UNCHANGED << unique, nsUp, cnx, stage, sid, known, ids, up, link, spoiled >>
    BY <1>1 DEF tables
  <1>3. /\ toNS[p] # << >> /\ Head(toNS[p]) \in ToNSMessage /\ Head(toNS[p]).type = "RG"
        /\ Post(p) = {Head(toNS[p])} \union Post(p)'
        /\ \A q \in Service : /\ Post(q)' \subseteq Post(q)
                              /\ \A A, B : Bars(toNS[q], A, B) => Bars(toNS'[q], A, B)
        /\ \A q \in Service : q # p => toNS'[q] = toNS[q] /\ Post(q)' = Post(q)
        /\ \A m \in Post(p)' : m.type \notin {"RG", "RRG"}
        /\ nsUp
    BY <1>1, Taken
  <1>4. TypeInv'
    BY AcceptType DEF Inv
  <1>5. Posted(p, "RG")
    BY <1>3 DEF Posted
  <1>6. /\ fromNS[p] = << >> /\ Mail(p) = {} /\ sid[p] = 0
        /\ \A j \in SId : ~Trace(p, j) /\ ~Owner(p, j)
        /\ stage[p] \in {"registering", "dead"}
        /\ Alive(p) => cnx[p] = "open"
        /\ \A q \in Service : ~Posted(q, "RRG")
    BY <1>5, Asking
  <1>7. cnx[p] = "open" => stage[p] = "registering"
    BY <1>6 DEF Inv, LifeInv, Alive
  <1>8. \A e \in Entries(registry) : e.svc \in Service /\ e.sid \in SId /\ e.svc # p
    <2> SUFFICES ASSUME NEW e \in Entries(registry)
                 PROVE  e.svc \in Service /\ e.sid \in SId /\ e.svc # p
      OBVIOUS
    <2>1. e.svc \in Service /\ e.sid \in SId
      BY RegistryEntries DEF Inv, Entry
    <2>2. Trace(e.svc, e.sid)
      BY DEF Trace, Entered
    <2> QED BY <1>6, <2>1, <2>2
  <1>9. registry' = Register(registry, p, k)
    BY <1>0 DEF NSAccept
  <1>10. PICK new \in Entry : /\ new.svc = p /\ new.sid = k /\ ~new.waiting
                              /\ Entries(registry)' = Entries(registry) \union {new}
                              /\ Available(registry)' = Available(registry) \union {new}
                              /\ Distinct(registry')
    <2>1. registry \in Seq(Entry) /\ Distinct(registry)
      BY Vars DEF Inv, RegistryInv
    <2> QED BY <1>0, <1>9, <2>1, Registers
  <1>11. registry' \in Seq(Entry)
    BY <1>4 DEF TypeInv, Typed, NamingType
  <1>12. PICK list \in Seq(Entry) :
           /\ list = Accessible(registry') /\ Distinct(list)
           /\ Entries(list) = Available(registry) \union {new}
    <2>1. Accessible(registry') \in Seq(Entry)
          /\ Entries(Accessible(registry')) = Available(registry')
      BY <1>11, AccessibleEntries
    <2>2. Distinct(Accessible(registry'))
      BY <1>10, <1>11, DistinctKept DEF Accessible
    <2> QED BY <1>10, <2>1, <2>2
  <1> DEFINE rgb == [type |-> "RGB", svc |-> p, sid |-> k]
             rg == [type |-> "RG", ok |-> TRUE, sid |-> k, list |-> list]
  <1>13. fromNS' = Reply(Broadcast(Recipients, rgb), p, rg)
    BY <1>0, <1>12 DEF NSAccept
  <1>14. /\ rgb \in FromNSMessage /\ rgb.type = "RGB" /\ rgb.svc = p /\ rgb.sid = k
         /\ rg \in FromNSMessage /\ rg.type = "RG" /\ rg.ok /\ rg.sid = k /\ rg.list = list
    BY DEF FromNSMessage, News, Answers
  <1> HIDE DEF rgb, rg
  <1>15. /\ \A q \in Service : q # p =>
              SentOrLost(q, rgb) /\ (fromNS'[q] # fromNS[q] => Knows(registry, q))
         /\ cnx[p] = "open" => fromNS'[p] = << rg >>
         /\ cnx[p] # "open" => fromNS'[p] = << >>
    <2>1. fromNS \in [Service -> Seq(FromNSMessage)]
      BY Vars DEF Inv
    <2>2. Broadcast(Recipients, rgb) \in [Service -> Seq(FromNSMessage)]
      BY <1>14, <2>1, BroadcastType
    <2>3. /\ \A q \in Service : q # p => fromNS'[q] = Broadcast(Recipients, rgb)[q]
          /\ cnx[p] = "open" => fromNS'[p] = Append(Broadcast(Recipients, rgb)[p], rg)
          /\ cnx[p] # "open" => fromNS'[p] = Broadcast(Recipients, rgb)[p]
      BY <1>13, <2>2 DEF Reply
    <2>4. p \notin Recipients
      BY <1>8 DEF Recipients, Available
    <2>5. Broadcast(Recipients, rgb)[p] = << >>
      BY <1>6, <2>4 DEF Broadcast
    <2>6. \A q \in Service : \/ Broadcast(Recipients, rgb)[q] = fromNS[q]
                             \/ /\ Broadcast(Recipients, rgb)[q] = Append(fromNS[q], rgb)
                                /\ cnx[q] = "open" /\ q \in Recipients
      BY DEF Broadcast
    <2>7. \A q \in Recipients : Knows(registry, q)
      BY DEF Recipients, Knows
    <2>8. cnx[p] = "open" => fromNS'[p] = << rg >>
      BY <2>3, <2>5
    <2> QED BY <2>3, <2>5, <2>6, <2>7, <2>8 DEF SentOrLost
  <1>16. \A q \in Service : q # p =>
           /\ Mail(q) \subseteq Mail(q)' /\ Mail(q)' \subseteq Mail(q) \union {rgb}
           /\ fromNS[q] # << >> => fromNS'[q] # << >> /\ Head(fromNS'[q]) = Head(fromNS[q])
           /\ cnx[q] # "open" => fromNS'[q] = fromNS[q]
           /\ \A A, B : Bars(fromNS[q], A, B) /\ (Mail(q) \intersect A = {} \/ rgb \notin B) =>
                Bars(fromNS'[q], A, B)
    BY <1>14, <1>15, Sent DEF Inv
  <1>17. /\ Mail(p)' \subseteq {rg}
         /\ cnx[p] # "open" => Mail(p)' = {}
         /\ \A A, B : Bars(fromNS'[p], A, B)
    <2>1. Entries(<< rg >>) = {rg}
      BY EntriesSingle
    <2>2. Entries(<< >>) = {}
      BY EntriesEmpty DEF Entries
    <2>3. CASE cnx[p] = "open"
      BY <1>15, <2>1, <2>3, BarsShort DEF Mail
    <2>4. CASE cnx[p] # "open"
      BY <1>15, <2>2, <2>4, BarsShort DEF Mail
    <2> QED BY <2>3, <2>4
  <1>18. \A q \in Service : /\ Alive(q)' <=> Alive(q)
                            /\ Refused(q)' <=> Refused(q)
                            /\ Blank(q)' <=> Blank(q)
                            /\ Knows(registry, q)' <=> Knows(registry, q) \/ q = p
                            /\ \A type : Posted(q, type)' => Posted(q, type)
                            /\ Posted(q, "RG")' => q # p
                            /\ Posted(q, "closed") => Posted(q, "closed")'
    <2>1. \A q \in Service : /\ Alive(q)' <=> Alive(q)
                             /\ Blank(q)' <=> Blank(q)
      BY <1>2 DEF Alive, Blank
    <2>2. \A q \in Service : Knows(registry, q)' <=> Knows(registry, q) \/ q = p
      BY <1>10 DEF Knows
    <2>3. \A q \in Service : /\ \A type : Posted(q, type)' => Posted(q, type)
                             /\ Posted(q, "RG")' => q # p
                             /\ Posted(q, "closed") => Posted(q, "closed")'
      BY <1>3 DEF Posted
    <2>4. ASSUME NEW q \in Service PROVE Refused(q)' <=> Refused(q)
      <3>1. CASE q = p
        BY <1>6, <1>14, <1>17, <3>1 DEF Refused
      <3>2. CASE q # p
        BY <1>14, <1>16, <3>2 DEF Refused
      <3> QED BY <3>1, <3>2
    <2> QED BY <2>1, <2>2, <2>3, <2>4
  <1>19. \A q \in Service, j \in SId :
           /\ Granting(q, j)' => Granting(q, j) \/ (q = p /\ j = k /\ cnx[p] = "open")
           /\ Granting(q, j) => Granting(q, j)'
           /\ Dropped(q, j)' <=> Dropped(q, j)
           /\ Acked(q, j)' => Acked(q, j)
           /\ Entered(q, j)' <=> Entered(q, j) \/ (q = p /\ j = k)
           /\ Clean(q, j)' <=> Clean(q, j)
           /\ Awaited(q, j) => Awaited(q, j)'
    <2>1. ASSUME NEW q \in Service, NEW j \in SId
          PROVE  /\ Granting(q, j)' => Granting(q, j) \/ (q = p /\ j = k /\ cnx[p] = "open")
                 /\ Granting(q, j) => Granting(q, j)'
                 /\ Dropped(q, j)' <=> Dropped(q, j)
      <3>1. CASE q = p
        BY <1>6, <1>14, <1>17, <3>1 DEF Granting, Dropped, Drops
      <3>2. CASE q # p
        BY <1>14, <1>16, <3>2 DEF Granting, Dropped, Drops
      <3> QED BY <3>1, <3>2
    <2>2. \A q \in Service, j \in SId : Acked(q, j)' => Acked(q, j)
      BY <1>3 DEF Acked
    <2>3. \A q \in Service, j \in SId : Entered(q, j)' <=> Entered(q, j) \/ (q = p /\ j = k)
      BY <1>10 DEF Entered
    <2>4. \A q \in Service, j \in SId : Clean(q, j)' <=> Clean(q, j)
      BY <1>2 DEF Clean
    <2>5. \A q \in Service, j \in SId : Awaited(q, j) => Awaited(q, j)'
      BY <1>10 DEF Awaited
    <2> QED BY <2>1, <2>2, <2>3, <2>4, <2>5
  <1>20. \A r, q \in Service, j \in SId :
           /\ Mentions(r, q, j) => Mentions(r, q, j)'
           /\ Mentions(r, q, j)' =>
                \/ Mentions(r, q, j)
                \/ q = p /\ j = k
                \/ r = p /\ \E e \in Available(registry) : e.svc = q /\ e.sid = j
    <2> SUFFICES ASSUME NEW r \in Service, NEW q \in Service, NEW j \in SId
                 PROVE  /\ Told(r, q, j) => Told(r, q, j)'
                        /\ Told(r, q, j)' =>
                             \/ Told(r, q, j)
                             \/ q = p /\ j = k
                             \/ r = p /\ \E e \in Available(registry) : e.svc = q /\ e.sid = j
      BY <1>2 DEF Mentions, Noted, Listed
    <2>1. CASE r = p
      <3>1. ~Told(p, q, j)
        BY <1>6 DEF Told
      <3>2. ASSUME Tells(rg, q, j)
            PROVE  (q = p /\ j = k) \/ \E e \in Available(registry) : e.svc = q /\ e.sid = j
        <4>1. PICK e \in Entries(list) : e.svc = q /\ e.sid = j
          BY <1>14, <3>2 DEF Tells
        <4> QED BY <1>10, <1>12, <4>1
      <3> QED BY <1>17, <2>1, <3>1, <3>2 DEF Told
    <2>2. CASE r # p
      BY <1>14, <1>16, <2>2 DEF Told, Tells
    <2> QED BY <2>1, <2>2
  <1>21. \A q \in Service, j \in SId : Owner(q, j)' <=> Owner(q, j) \/ (q = p /\ j = k)
    <2> SUFFICES ASSUME NEW q \in Service, NEW j \in SId
                 PROVE  Owner(q, j)' <=> Owner(q, j) \/ (q = p /\ j = k)
      OBVIOUS
    <2>1. ~Posted(q, "RRG")' /\ ~Posted(q, "RRG")
      BY <1>6, <1>18
    <2> QED BY <1>2, <1>18, <1>19, <2>1 DEF Owner
  <1>22. \A q \in Service, j \in SId : Trace(q, j)' <=> Trace(q, j) \/ (q = p /\ j = k)
    <2> SUFFICES ASSUME NEW q \in Service, NEW j \in SId
                 PROVE  Trace(q, j)' <=> Trace(q, j) \/ (q = p /\ j = k)
      OBVIOUS
    <2>1. (\E e \in Available(registry) : e.svc = q /\ e.sid = j) => Entered(q, j)
      BY DEF Entered, Available
    <2>2. (\E r \in Service : Mentions(r, q, j)) => \E r \in Service : Mentions(r, q, j)'
      BY <1>20
    <2>3. (\E r \in Service : Mentions(r, q, j)') =>
            (\E r \in Service : Mentions(r, q, j)) \/ (q = p /\ j = k) \/ Entered(q, j)
      BY <1>20, <2>1
    <2> QED BY <1>2, <1>19, <2>2, <2>3 DEF Trace
  <1>23. \A q \in Service, j \in SId : Owner(q, j) => Entered(q, j) /\ j # k
    <2>1. \A q \in Service, j \in SId : Owner(q, j) => Entered(q, j)
      BY <1>5, AllEntered
    <2> QED BY <1>0, <2>1 DEF Entered
  <1>24. \A q \in Service : Knows(registry, q) => \E j \in SId : Entered(q, j)
    BY <1>8 DEF Knows, Available, Entered
  <1>25. LifeInv'
    <2> SUFFICES ASSUME NEW q \in Service
                 PROVE  /\ ~Alive(q)' => /\ fromNS'[q] = << >> /\ cnx'[q] = "none"
                                         /\ Blank(q)'
                        /\ stage'[q] = "off" => /\ toNS'[q] = << >> /\ sid'[q] = 0
                                                /\ \A j \in SId : ~Trace(q, j)'
                        /\ stage'[q] = "registering" => sid'[q] = 0 /\ Blank(q)'
                        /\ Bars(fromNS'[q], FromNSMessage, Replies)
                        /\ (\E m \in Mail(q)' : m.type = "RG") => stage'[q] = "registering"
                        /\ stage'[q] = "registering" /\ fromNS'[q] # << >> =>
                             Head(fromNS'[q]).type = "RG"
                        /\ Refused(q)' => \A j \in SId : ~Trace(q, j)'
      BY DEF LifeInv
    <2>1. toNS[q] = << >> => toNS'[q] = << >>
      BY <1>3
    <2>2. CASE q = p
      <3>1. ~Alive(p) => fromNS'[p] = << >> /\ cnx[p] = "none"
        BY <1>15 DEF Inv, LifeInv
      <3>2. stage[p] # "off"
        BY <1>6
      <3>3. fromNS'[p] # << >> => Head(fromNS'[p]).type = "RG"
        BY <1>14, <1>15
      <3>4. (\E m \in Mail(p)' : m.type = "RG") => stage'[p] = "registering"
        BY <1>2, <1>7, <1>17
      <3>5. ~Refused(p)'
        BY <1>6, <1>18 DEF Refused
      <3>6. Bars(fromNS'[p], FromNSMessage, Replies)
        BY <1>17
      <3> QED BY <1>2, <1>18, <2>2, <3>1, <3>2, <3>3, <3>4, <3>5, <3>6 DEF Inv, LifeInv
    <2>3. CASE q # p
      <3>1. ~Alive(q) => fromNS'[q] = fromNS[q]
        BY <1>16, <2>3 DEF Inv, LifeInv
      <3>2. Bars(fromNS'[q], FromNSMessage, Replies)
        BY <1>14, <1>16, <2>3 DEF Inv, LifeInv, Replies
      <3>3. (\E m \in Mail(q)' : m.type = "RG") => \E m \in Mail(q) : m.type = "RG"
        BY <1>14, <1>16, <2>3
      <3>4. stage[q] = "registering" /\ fromNS'[q] # << >> => fromNS[q] # << >>
        <4>1. CASE fromNS'[q] = fromNS[q]
          BY <4>1
        <4>2. CASE Knows(registry, q)
          BY <4>2 DEF Inv, RegistryInv, Knows, Available
        <4> QED BY <1>15, <2>3, <4>1, <4>2
      <3>5. \A j \in SId : Trace(q, j)' => Trace(q, j)
        BY <1>22, <2>3
      <3> QED BY <1>2, <1>16, <1>18, <2>1, <2>3, <3>1, <3>2, <3>3, <3>4, <3>5 DEF Inv, LifeInv
    <2> QED BY <2>2, <2>3
  <1>26. PostInv'
    <2> SUFFICES ASSUME NEW q \in Service
                 PROVE  /\ Bars(toNS'[q], ToNSMessage, Firsts)
                        /\ Bars(toNS'[q], Lasts, ToNSMessage)
                        /\ Posted(q, "closed")' => stage'[q] = "dead"
                        /\ toNS'[q] # << >> =>
                             (Alive(q)' /\ cnx'[q] = "open") \/ Posted(q, "closed")'
                        /\ Posted(q, "RG")' => /\ fromNS'[q] = << >>
                                               /\ \A j \in SId : ~Trace(q, j)'
                        /\ Posted(q, "RRG")' => ~Entered(q, sid[q])'
                        /\ Posted(q, "ACK_UNI")' => Knows(registry, q)' \/ Posted(q, "RRG")'
                        /\ /\ Alive(q)' /\ cnx'[q] = "open"
                           /\ sid'[q] # 0 \/ \E j \in SId : Granting(q, j)'
                           => Knows(registry, q)' \/ Posted(q, "RRG")'
                        /\ nsUp' \/ toNS'[q] = << >>
      BY DEF PostInv
    <2>1. Bars(toNS'[q], ToNSMessage, Firsts) /\ Bars(toNS'[q], Lasts, ToNSMessage)
      BY <1>3 DEF Inv, PostInv
    <2>2. toNS'[q] # << >> => toNS[q] # << >>
      BY <1>3
    <2>3. Posted(q, "RG")' => fromNS'[q] = << >> /\ \A j \in SId : ~Trace(q, j)'
      <3> SUFFICES ASSUME Posted(q, "RG")'
                   PROVE  fromNS'[q] = << >> /\ \A j \in SId : ~Trace(q, j)'
        OBVIOUS
      <3>1. q # p /\ Posted(q, "RG")
        BY <1>18
      <3>2. fromNS[q] = << >> /\ \A j \in SId : ~Trace(q, j)
        BY <3>1, Asking
      <3>3. ~Knows(registry, q)
        BY <1>24, <3>2 DEF Trace
      <3> QED BY <1>15, <1>22, <3>1, <3>2, <3>3
    <2>4. ~Posted(q, "RRG")' /\ ~Posted(q, "RRG")
      BY <1>6, <1>18
    <2> QED BY <1>2, <1>3, <1>18, <1>19, <2>1, <2>2, <2>3, <2>4 DEF Inv, PostInv
  <1>27. RegistryInv'
    <2>1. (Alive(p) /\ cnx[p] = "open") \/ Posted(p, "closed")
      BY <1>3 DEF Inv, PostInv
    <2>2. stage[p] = "registering" => fromNS'[p] # << >>
      <3>1. stage[p] = "registering" => cnx[p] = "open"
        BY <1>6 DEF Alive
      <3>2. << rg >> # << >>
        OBVIOUS
      <3> QED BY <1>15, <3>1, <3>2
    <2>3. \A q \in Service : toNS[q] = << >> => toNS'[q] = << >>
      BY <1>3
    <2>4. ASSUME NEW e \in Entries(registry)'
          PROVE  /\ e.waiting => stage'[e.svc] = "dead" /\ toNS'[e.svc] = << >>
                 /\ ~e.waiting =>
                      (Alive(e.svc)' /\ cnx'[e.svc] = "open") \/ Posted(e.svc, "closed")'
                 /\ stage'[e.svc] = "registering" => fromNS'[e.svc] # << >>
      <3>1. CASE e = new
        BY <1>2, <1>10, <1>18, <2>1, <2>2, <3>1
      <3>2. CASE e \in Entries(registry)
        <4>1. e.svc \in Service /\ e.svc # p
          BY <1>8, <3>2
        <4>2. /\ e.waiting => stage[e.svc] = "dead" /\ toNS[e.svc] = << >>
              /\ ~e.waiting => (Alive(e.svc) /\ cnx[e.svc] = "open") \/ Posted(e.svc, "closed")
              /\ stage[e.svc] = "registering" => fromNS[e.svc] # << >>
          BY <3>2 DEF Inv, RegistryInv
        <4> QED BY <1>2, <1>16, <1>18, <2>3, <4>1, <4>2
      <3> QED BY <1>10, <3>1, <3>2
    <2> QED BY <1>2, <1>3, <1>10, <2>4 DEF RegistryInv
  <1>28. StartInv'
    <2> SUFFICES ASSUME NEW r \in Service, Posted(r, "RG")'
                 PROVE  /\ \A q \in Service : Alive(q)' /\ (sid'[q] # 0 \/ fromNS'[q] # << >>) =>
                             Knows(registry, q)' \/ Refused(q)'
                        /\ \A q \in Service : ~Posted(q, "RRG")'
      BY DEF StartInv
    <2>1. \A q \in Service : Alive(q) /\ (sid[q] # 0 \/ fromNS[q] # << >>) =>
            Knows(registry, q) \/ Refused(q)
      BY <1>18 DEF Inv, StartInv
    <2>2. \A q \in Service : ~Posted(q, "RRG")'
      BY <1>6, <1>18
    <2>3. ASSUME NEW q \in Service, Alive(q), sid[q] # 0 \/ fromNS'[q] # << >>
          PROVE  Knows(registry, q)' \/ Refused(q)'
      <3>1. CASE q = p
        BY <1>18, <3>1
      <3>2. CASE q # p
        BY <1>15, <1>18, <2>1, <2>3, <3>2
      <3> QED BY <3>1, <3>2
    <2> QED BY <1>2, <1>18, <2>2, <2>3
  <1>29. TraceInv'
    BY <1>6, <1>22 DEF Inv, TraceInv
  <1>30. OwnerInv'
    BY <1>21, <1>23 DEF Inv, OwnerInv
  <1>31. NameInv'
    <2>1. \A q \in Service, j \in SId :
            Owner(q, j) /\ NameOf[p] \in unique => NameOf[q] # NameOf[p]
      BY <1>1, <1>23 DEF Granted, Entered
    <2>2. \A q, r \in Service, j, l \in SId :
            Owner(q, j)' /\ Owner(r, l)' /\ NameOf[q] = NameOf[r] /\ NameOf[q] \in unique => q = r
      BY <1>21, <2>1 DEF Inv, NameInv
    <2> QED BY <1>2, <2>2 DEF NameInv
  <1>32. LinkInv' /\ TableInv'
    <2>1. \A q \in Service : \A m \in Mail(q)' :
            m \in Mail(q) \/ (m.type = "RG" /\ m.ok => Distinct(m.list))
      <3>1. rgb.type # "RG"
        BY <1>14
      <3> QED BY <1>12, <1>14, <1>16, <1>17, <3>1
    <2> QED BY <1>1, <2>1, TablesUntouched
  <1>33. MentionInv'
    <2> SUFFICES ASSUME NEW r \in Service, NEW q \in Service, NEW j \in SId,
                        Clean(r, j)', Mentions(r, q, j)'
                 PROVE  /\ Owner(q, j)'
                        /\ \A e \in Entries(registry)' : e.waiting /\ e.sid = j => Awaited(r, j)'
      BY DEF MentionInv
    <2>1. CASE Mentions(r, q, j)
      <3>1. /\ Owner(q, j)
            /\ \A e \in Entries(registry) : e.waiting /\ e.sid = j => Awaited(r, j)
        BY <1>19, <2>1 DEF Inv, MentionInv
      <3> QED BY <1>10, <1>19, <1>21, <3>1
    <2>2. CASE q = p /\ j = k
      BY <1>0, <1>10, <1>21, <2>2
    <2>3. CASE r = p /\ \E e \in Available(registry) : e.svc = q /\ e.sid = j
      <3>1. PICK e \in Available(registry) : e.svc = q /\ e.sid = j
        BY <2>3
      <3>2. e \in Entries(registry) /\ ~e.waiting /\ e \in Entries(registry)'
        BY <1>10 DEF Available
      <3>3. \A f \in Entries(registry)' : f.sid = j => f = e
        BY <1>10, <3>1, <3>2, DistinctEntries
      <3>4. Owner(q, j)'
        BY <3>1, <3>2 DEF Owner, Entered
      <3> QED BY <3>2, <3>3, <3>4
    <2> QED BY <1>20, <2>1, <2>2, <2>3
  <1>34. \A r \in Service : ~Awaited(r, k)
    BY <1>0 DEF Awaited
  <1>35. AckInv'
    <2> SUFFICES ASSUME NEW q \in Service, NEW j \in SId, Clean(q, j)'
                 PROVE  /\ Bars(fromNS'[q], Drops(j), Drops(j) \union Tales(j))
                        /\ Bars(toNS'[q], Acks(j), Acks(j))
                        /\ Dropped(q, j)' \/ Acked(q, j)' => Awaited(q, j)'
                        /\ Acked(q, j)' => /\ ~Dropped(q, j)'
                                           /\ \A r \in Service : ~Mentions(q, r, j)'
      BY DEF AckInv
    <2>1. /\ Bars(fromNS[q], Drops(j), Drops(j) \union Tales(j))
          /\ Bars(toNS[q], Acks(j), Acks(j))
          /\ Dropped(q, j) \/ Acked(q, j) => Awaited(q, j)
          /\ Acked(q, j) => ~Dropped(q, j) /\ \A r \in Service : ~Mentions(q, r, j)
      BY <1>19 DEF Inv, AckInv
    <2>2. Bars(toNS'[q], Acks(j), Acks(j))
      BY <1>3, <2>1
    <2>3. Bars(fromNS'[q], Drops(j), Drops(j) \union Tales(j))
      <3>1. CASE q = p
        BY <1>17, <3>1
      <3>2. CASE q # p /\ j = k
        BY <1>16, <1>34, <2>1, <3>2 DEF Dropped
      <3>3. CASE q # p /\ j # k
        <4>1. rgb \notin Drops(j) \union Tales(j)
          BY <1>14, <3>3 DEF Drops, Tales, Tells
        <4> QED BY <1>16, <2>1, <3>3, <4>1
      <3> QED BY <3>1, <3>2, <3>3
    <2>4. Acked(q, j) => \A r \in Service : ~Mentions(q, r, j)'
      <3> SUFFICES ASSUME Acked(q, j), NEW r \in Service, Mentions(q, r, j)' PROVE FALSE
        OBVIOUS
      <3>1. Awaited(q, j) /\ ~Mentions(q, r, j) /\ j # k
        BY <1>34, <2>1
      <3>2. PICK e \in Entries(registry), f \in Available(registry) :
              e.waiting /\ e.sid = j /\ f.svc = q
        BY <3>1 DEF Awaited
      <3>3. q # p
        BY <1>8, <3>2 DEF Available
      <3> QED BY <1>20, <3>1, <3>3
    <2> QED BY <1>19, <2>1, <2>2, <2>3, <2>4
  <1>36. SpoilInv'
    BY <1>2, <1>19 DEF Inv, SpoilInv
  <1> QED BY <1>4, <1>25, <1>26, <1>27, <1>28, <1>29, <1>30, <1>31, <1>32, <1>33, <1>35, <1>36
          DEF Inv

-----------------------------------------------------------------------------
(* A registration is the first message of a connection.                    *)
LEMMA PostedFirst ==
  ASSUME Inv, NEW q \in Service, Posted(q, "RG") \/ Posted(q, "RRG")
  PROVE  /\ toNS[q] # << >> /\ nsUp
         /\ Received(q, "RG") \/ Received(q, "RRG")
         /\ Posted(q, "RRG") => Received(q, "RRG")
PROOF
  <1>1. toNS[q] \in Seq(ToNSMessage)
    BY Vars DEF Inv
  <1>2. toNS[q] # << >>
    BY EntriesEmpty DEF Posted, Post, Entries
  <1>3. Post(q) = {Head(toNS[q])} \union Entries(Tail(toNS[q]))
    BY <1>1, <1>2, TailEntries DEF Post
  <1>4. Head(toNS[q]) \in ToNSMessage /\ Post(q) \subseteq ToNSMessage
    BY <1>3, Messages DEF Inv
  <1>5. Bars(toNS[q], ToNSMessage, Firsts)
    BY DEF Inv, PostInv
  <1>6. Entries(Tail(toNS[q])) \intersect Firsts = {}
    BY <1>1, <1>2, <1>4, <1>5, BarsTail
  <1>7. \A m \in Post(q) : m.type \in {"RG", "RRG"} => m = Head(toNS[q])
    BY <1>3, <1>4, <1>6 DEF Firsts
  <1>8. nsUp
    BY <1>2 DEF Inv, PostInv
  <1> QED BY <1>2, <1>7, <1>8 DEF Posted, Received

(* A service is started when the naming service knows all those that have  *)
(* an identifier.                                                          *)
LEMMA StartStepInv ==
  ASSUME Inv, NEW p \in Service, Start(p)
  PROVE  Inv'
PROOF
  <1>1. /\ stage[p] = "off" /\ nsUp /\ Absent = {}
        /\ \A q \in Service : ~Received(q, "RRG")
        /\ stage' = [stage EXCEPT ![p] = "registering"]
        /\ cnx' = [cnx EXCEPT ![p] = "open"]
        /\ toNS' = [toNS EXCEPT ![p] = << [type |-> "RG"] >>]
        /\ UNCHANGED << registry, unique, nsUp, fromNS, sid, known, ids, up, link, spoiled >>
    BY DEF Start, naming, tables
  <1> DEFINE rg == [type |-> "RG"]
  <1>2. rg.type = "RG" /\ Entries(<< rg >>) = {rg}
    BY EntriesSingle
  <1> HIDE DEF rg
  <1>3. /\ toNS[p] = << >> /\ sid[p] = 0 /\ fromNS[p] = << >> /\ cnx[p] = "none"
        /\ Blank(p) /\ \A k \in SId : ~Trace(p, k)
    BY <1>1 DEF Inv, LifeInv, Alive
  <1>4. /\ toNS \in [Service -> Seq(ToNSMessage)]
        /\ cnx \in [Service -> {"none", "open", "cut"}]
        /\ stage \in [Service -> {"off", "registering", "registered", "connecting", "running",
                                  "dead"}]
    BY Vars DEF Inv
  <1>5. /\ stage'[p] = "registering" /\ cnx'[p] = "open" /\ toNS'[p] = << rg >>
        /\ \A q \in Service : q # p => /\ stage'[q] = stage[q] /\ cnx'[q] = cnx[q]
                                       /\ toNS'[q] = toNS[q]
    BY <1>1, <1>4 DEF rg
  <1>6. /\ Post(p) = {} /\ Post(p)' = {rg}
        /\ \A q \in Service : q # p => Post(q)' = Post(q)
    <2>1. Entries(<< >>) = {}
      BY EntriesEmpty DEF Entries
    <2> QED BY <1>2, <1>3, <1>5, <2>1 DEF Post
  <1>7. \A q \in Service : /\ Mail(q)' = Mail(q)
                           /\ Refused(q)' <=> Refused(q)
                           /\ Blank(q)' <=> Blank(q)
                           /\ Knows(registry, q)' <=> Knows(registry, q)
    BY <1>1 DEF Mail, Refused, Blank
  <1>8. \A q \in Service, k \in SId : /\ Granting(q, k)' <=> Granting(q, k)
                                      /\ Entered(q, k)' <=> Entered(q, k)
                                      /\ Awaited(q, k)' <=> Awaited(q, k)
                                      /\ Dropped(q, k)' <=> Dropped(q, k)
                                      /\ Clean(q, k)' <=> Clean(q, k)
    BY <1>1 DEF Granting, Entered, Awaited, Dropped, Clean, Mail
  <1>9. \A q, r \in Service, k \in SId : Mentions(r, q, k)' <=> Mentions(r, q, k)
    BY <1>1 DEF Mentions, Noted, Listed, Told, Mail
  <1>10. \A q \in Service, k \in SId : Trace(q, k)' <=> Trace(q, k)
    BY <1>1, <1>8, <1>9 DEF Trace
  <1>11. \A q \in Service : q # p => /\ Alive(q)' <=> Alive(q)
                                     /\ \A type : Posted(q, type)' <=> Posted(q, type)
    BY <1>5, <1>6 DEF Alive, Posted
  <1>12. /\ ~Alive(p) /\ Alive(p)'
         /\ \A type : ~Posted(p, type) /\ (Posted(p, type)' => type = "RG")
    BY <1>1, <1>2, <1>5, <1>6 DEF Alive, Posted
  <1>13. \A q \in Service, k \in SId : Owner(q, k)' <=> Owner(q, k)
    <2> SUFFICES ASSUME NEW q \in Service, NEW k \in SId PROVE Owner(q, k)' <=> Owner(q, k)
      OBVIOUS
    <2>1. CASE q = p
      <3>1. sid[p] # k /\ ~Granting(p, k)
        BY <1>3 DEF Trace
      <3> QED BY <1>1, <1>8, <2>1, <3>1 DEF Owner
    <2>2. CASE q # p
      BY <1>1, <1>8, <1>11, <2>2 DEF Owner
    <2> QED BY <2>1, <2>2
  <1>14. LifeInv'
    <2> SUFFICES ASSUME NEW q \in Service
                 PROVE  /\ ~Alive(q)' => /\ fromNS'[q] = << >> /\ cnx'[q] = "none"
                                         /\ Blank(q)'
                        /\ stage'[q] = "off" => /\ toNS'[q] = << >> /\ sid'[q] = 0
                                                /\ \A j \in SId : ~Trace(q, j)'
                        /\ stage'[q] = "registering" => sid'[q] = 0 /\ Blank(q)'
                        /\ Bars(fromNS'[q], FromNSMessage, Replies)
                        /\ (\E m \in Mail(q)' : m.type = "RG") => stage'[q] = "registering"
                        /\ stage'[q] = "registering" /\ fromNS'[q] # << >> =>
                             Head(fromNS'[q]).type = "RG"
                        /\ Refused(q)' => \A j \in SId : ~Trace(q, j)'
      BY DEF LifeInv
    <2>1. Bars(fromNS'[q], FromNSMessage, Replies)
      BY <1>1 DEF Inv, LifeInv
    <2>2. Refused(q)' => \A j \in SId : ~Trace(q, j)'
      BY <1>7, <1>10 DEF Inv, LifeInv
    <2>3. CASE q = p
      BY <1>1, <1>3, <1>5, <1>7, <1>12, <2>1, <2>2, <2>3
    <2>4. CASE q # p
      BY <1>1, <1>5, <1>7, <1>10, <1>11, <2>1, <2>2, <2>4 DEF Inv, LifeInv
    <2> QED BY <2>3, <2>4
  <1>15. PostInv'
    <2> SUFFICES ASSUME NEW q \in Service
                 PROVE  /\ Bars(toNS'[q], ToNSMessage, Firsts)
                        /\ Bars(toNS'[q], Lasts, ToNSMessage)
                        /\ Posted(q, "closed")' => stage'[q] = "dead"
                        /\ toNS'[q] # << >> =>
                             (Alive(q)' /\ cnx'[q] = "open") \/ Posted(q, "closed")'
                        /\ Posted(q, "RG")' => /\ fromNS'[q] = << >>
                                               /\ \A j \in SId : ~Trace(q, j)'
                        /\ Posted(q, "RRG")' => ~Entered(q, sid[q])'
                        /\ Posted(q, "ACK_UNI")' => Knows(registry, q)' \/ Posted(q, "RRG")'
                        /\ /\ Alive(q)' /\ cnx'[q] = "open"
                           /\ sid'[q] # 0 \/ \E j \in SId : Granting(q, j)'
                           => Knows(registry, q)' \/ Posted(q, "RRG")'
                        /\ nsUp' \/ toNS'[q] = << >>
      BY DEF PostInv
    <2>1. CASE q = p
      <3>1. sid'[p] = 0 /\ \A j \in SId : ~Granting(p, j)'
        BY <1>1, <1>3, <1>8 DEF Trace
      <3>2. fromNS'[p] = << >> /\ \A j \in SId : ~Trace(p, j)'
        BY <1>1, <1>3, <1>10
      <3>3. Bars(toNS'[p], ToNSMessage, Firsts) /\ Bars(toNS'[p], Lasts, ToNSMessage)
        BY <1>5, BarsShort
      <3> QED BY <1>1, <1>5, <1>12, <2>1, <3>1, <3>2, <3>3
    <2>2. CASE q # p
      <3>1. ~Entered(q, sid[q]) => ~Entered(q, sid[q])'
        BY <1>1 DEF Entered
      <3> QED BY <1>1, <1>5, <1>7, <1>8, <1>10, <1>11, <2>2, <3>1 DEF Inv, PostInv
    <2> QED BY <2>1, <2>2
  <1>16. RegistryInv'
    <2>1. ASSUME NEW e \in Entries(registry)
          PROVE  /\ e.waiting => stage'[e.svc] = "dead" /\ toNS'[e.svc] = << >>
                 /\ ~e.waiting =>
                      (Alive(e.svc)' /\ cnx'[e.svc] = "open") \/ Posted(e.svc, "closed")'
                 /\ stage'[e.svc] = "registering" => fromNS'[e.svc] # << >>
      <3>1. e.svc \in Service /\ e.sid \in SId
        BY RegistryEntries DEF Inv, Entry
      <3>2. e.svc # p
        BY <1>3, <3>1 DEF Trace, Entered
      <3> QED BY <1>1, <1>5, <1>11, <3>1, <3>2 DEF Inv, RegistryInv
    <2> QED BY <1>1, <2>1 DEF Inv, RegistryInv
  <1>17. StartInv'
    <2> SUFFICES ASSUME NEW r \in Service, Posted(r, "RG")'
                 PROVE  /\ \A q \in Service : Alive(q)' /\ (sid'[q] # 0 \/ fromNS'[q] # << >>) =>
                             Knows(registry, q)' \/ Refused(q)'
                        /\ \A q \in Service : ~Posted(q, "RRG")'
      BY DEF StartInv
    <2>1. \A q \in Service : Alive(q) /\ (sid[q] # 0 \/ fromNS[q] # << >>) => Knows(registry, q)
      BY <1>1 DEF Absent
    <2>2. \A q \in Service : Alive(q)' /\ (sid'[q] # 0 \/ fromNS'[q] # << >>) =>
            Knows(registry, q)'
      BY <1>1, <1>3, <1>7, <1>11, <2>1
    <2>3. \A q \in Service : ~Posted(q, "RRG")
      BY <1>1, PostedFirst
    <2>4. \A q \in Service : ~Posted(q, "RRG")'
      BY <1>11, <1>12, <2>3
    <2> QED BY <2>2, <2>4
  <1>18. TraceInv' /\ OwnerInv' /\ NameInv'
    BY <1>1, <1>10, <1>13, NothingNew
  <1>19. LinkInv'
    BY <1>1, <1>11, <1>12 DEF Inv, LinkInv
  <1>20. MentionInv'
    BY <1>1, <1>8, <1>9, <1>13 DEF Inv, MentionInv
  <1>21. AckInv'
    <2> SUFFICES ASSUME NEW q \in Service, NEW j \in SId, Clean(q, j)'
                 PROVE  /\ Bars(fromNS'[q], Drops(j), Drops(j) \union Tales(j))
                        /\ Bars(toNS'[q], Acks(j), Acks(j))
                        /\ Dropped(q, j)' \/ Acked(q, j)' => Awaited(q, j)'
                        /\ Acked(q, j)' => /\ ~Dropped(q, j)'
                                           /\ \A r \in Service : ~Mentions(q, r, j)'
      BY DEF AckInv
    <2>1. Acked(q, j)' => Acked(q, j)
      <3>1. rg \notin Acks(j)
        BY <1>2 DEF Acks
      <3> QED BY <1>6, <3>1 DEF Acked
    <2>2. Bars(toNS'[q], Acks(j), Acks(j))
      <3>1. CASE q = p
        BY <1>5, <3>1, BarsShort
      <3>2. CASE q # p
        BY <1>5, <1>8, <3>2 DEF Inv, AckInv
      <3> QED BY <3>1, <3>2
    <2> QED BY <1>1, <1>8, <1>9, <2>1, <2>2 DEF Inv, AckInv
  <1>22. SpoilInv'
    BY <1>5, <1>8 DEF Inv, SpoilInv
  <1>23. TableInv'
    BY <1>1, <1>7, <1>8 DEF Inv, TableInv, Noted, Listed
  <1>24. TypeInv'
    BY StartType DEF Inv
  <1> QED BY <1>14, <1>15, <1>16, <1>17, <1>18, <1>19, <1>20, <1>21, <1>22, <1>23, <1>24 DEF Inv

-----------------------------------------------------------------------------
(* A process ends.  Its death is in order when the naming service is told  *)
(* of it, or when what it had is given up.                                 *)
LEMMA EndsInv ==
  ASSUME Inv, TypeInv', NEW p \in Service, Alive(p), Ends(p), UNCHANGED << naming, sid >>,
         spoiled \subseteq spoiled',
         sid[p] # 0 /\ cnx[p] # "open" => \A r \in Service : << r, sid[p] >> \in spoiled'
  PROVE  Inv'
PROOF
  <1> DEFINE closed == [type |-> "closed"]
  <1>1. /\ UNCHANGED << registry, unique, nsUp, sid >>
        /\ stage' = [stage EXCEPT ![p] = "dead"]
        /\ toNS' = Send(p, closed)
        /\ fromNS' = [fromNS EXCEPT ![p] = << >>]
        /\ cnx' = [cnx EXCEPT ![p] = "none"]
        /\ known' = [known EXCEPT ![p] = << >>]
        /\ ids' = [ids EXCEPT ![p] = [k \in SId |-> NotUsed]]
        /\ up' = [up EXCEPT ![p] = {}]
    BY DEF Ends, naming
  <1>2. /\ toNS \in [Service -> Seq(ToNSMessage)]
        /\ fromNS \in [Service -> Seq(FromNSMessage)]
        /\ cnx \in [Service -> {"none", "open", "cut"}]
        /\ stage \in [Service -> {"off", "registering", "registered", "connecting", "running",
                                  "dead"}]
        /\ sid \in [Service -> SId \union {0}]
        /\ known \in [Service -> Seq([svc : Service, sid : SId])]
        /\ ids \in [Service -> [SId -> IdEntry]]
        /\ up \in [Service -> SUBSET (Service \X SId)]
    BY Vars DEF Inv
  <1>3. closed \in ToNSMessage /\ closed.type = "closed"
    BY DEF ToNSMessage
  <1> HIDE DEF closed
  <1>4. /\ stage'[p] = "dead" /\ fromNS'[p] = << >> /\ cnx'[p] = "none"
        /\ known'[p] = << >> /\ ids'[p] = [k \in SId |-> NotUsed] /\ up'[p] = {}
    BY <1>1, <1>2
  <1>5. \A q \in Service : q # p =>
          /\ stage'[q] = stage[q] /\ fromNS'[q] = fromNS[q] /\ cnx'[q] = cnx[q]
          /\ known'[q] = known[q] /\ ids'[q] = ids[q] /\ up'[q] = up[q]
    BY <1>1, <1>2
  <1>6. ~Posted(p, "closed")
    BY DEF Inv, PostInv, Alive
  <1>7. IF nsUp /\ cnx[p] = "open"
          THEN toNS'[p] = Append(toNS[p], closed) /\ Post(p)' = Post(p) \union {closed}
          ELSE toNS'[p] = << >> /\ toNS[p] = << >> /\ Post(p)' = Post(p)
    <2>1. CASE nsUp /\ cnx[p] = "open"
      <3>1. toNS'[p] = Append(toNS[p], closed)
        BY <1>1, <1>2, <2>1 DEF Send
      <3>2. Entries(Append(toNS[p], closed)) = Entries(toNS[p]) \union {closed}
        BY <1>2, <1>3, AppendEntries
      <3> QED BY <2>1, <3>1, <3>2 DEF Post
    <2>2. CASE ~(nsUp /\ cnx[p] = "open")
      <3>1. toNS' = toNS
        BY <1>1, <2>2 DEF Send
      <3>2. toNS[p] = << >>
        BY <1>6, <2>2 DEF Inv, PostInv
      <3> QED BY <2>2, <3>1, <3>2 DEF Post
    <2> QED BY <2>1, <2>2
  <1>8. \A q \in Service : q # p => toNS'[q] = toNS[q] /\ Post(q)' = Post(q)
    BY <1>1, <1>2 DEF Send, Post
  <1>9. Mail(p)' = {} /\ \A q \in Service : q # p => Mail(q)' = Mail(q)
    <2>1. Entries(<< >>) = {}
      BY EntriesEmpty DEF Entries
    <2> QED BY <1>4, <1>5, <2>1 DEF Mail
  <1>10. \A q \in Service : /\ Alive(q)' <=> Alive(q) /\ q # p
                            /\ Knows(registry, q)' <=> Knows(registry, q)
                            /\ Refused(q)' <=> Refused(q) /\ q # p
                            /\ q # p => (Blank(q)' <=> Blank(q))
    <2>1. \A q \in Service : Alive(q)' <=> Alive(q) /\ q # p
      BY <1>4, <1>5 DEF Alive
    <2>2. \A q \in Service : Refused(q)' <=> Refused(q) /\ q # p
      BY <1>9 DEF Refused
    <2> QED BY <1>1, <1>5, <2>1, <2>2 DEF Blank
  <1>11. Blank(p)'
    BY <1>4 DEF Blank
  <1>12. \A q \in Service : \A type : Posted(q, type)' <=>
           Posted(q, type) \/ (q = p /\ type = "closed" /\ nsUp /\ cnx[p] = "open")
    <2>1. \A type : Posted(p, type)' <=>
            Posted(p, type) \/ (type = "closed" /\ nsUp /\ cnx[p] = "open")
      <3>1. CASE nsUp /\ cnx[p] = "open"
        BY <1>3, <1>7, <3>1 DEF Posted
      <3>2. CASE ~(nsUp /\ cnx[p] = "open")
        BY <1>7, <3>2 DEF Posted
      <3> QED BY <3>1, <3>2
    <2>2. \A q \in Service : q # p => \A type : Posted(q, type)' <=> Posted(q, type)
      BY <1>8 DEF Posted
    <2> QED BY <2>1, <2>2
  <1>13. \A q \in Service, k \in SId :
           /\ Granting(q, k)' <=> Granting(q, k) /\ q # p
           /\ Dropped(q, k)' <=> Dropped(q, k) /\ q # p
           /\ Entered(q, k)' <=> Entered(q, k)
           /\ Awaited(q, k)' <=> Awaited(q, k)
           /\ Acked(q, k)' <=> Acked(q, k)
           /\ Clean(q, k)' => Clean(q, k)
    <2>1. \A q \in Service, k \in SId : /\ Granting(q, k)' <=> Granting(q, k) /\ q # p
                                        /\ Dropped(q, k)' <=> Dropped(q, k) /\ q # p
      BY <1>9 DEF Granting, Dropped
    <2>2. \A q \in Service, k \in SId : /\ Entered(q, k)' <=> Entered(q, k)
                                        /\ Awaited(q, k)' <=> Awaited(q, k)
      BY <1>1 DEF Entered, Awaited
    <2>3. \A q \in Service, k \in SId : Acked(q, k)' <=> Acked(q, k)
      <3>1. \A k \in SId : closed \notin Acks(k)
        BY <1>3 DEF Acks
      <3> QED BY <1>7, <1>8, <3>1 DEF Acked
    <2>4. \A q \in Service, k \in SId : Clean(q, k)' => Clean(q, k)
      BY DEF Clean
    <2> QED BY <2>1, <2>2, <2>3, <2>4
  <1>14. /\ \A r, q \in Service, k \in SId : r # p =>
              /\ Mentions(r, q, k)' <=> Mentions(r, q, k)
              /\ Noted(r, q, k)' <=> Noted(r, q, k)
         /\ \A q \in Service, k \in SId : ~Mentions(p, q, k)'
    <2>1. \A r, q \in Service, k \in SId : r # p =>
              /\ Mentions(r, q, k)' <=> Mentions(r, q, k)
              /\ Noted(r, q, k)' <=> Noted(r, q, k)
      BY <1>5, <1>9 DEF Mentions, Noted, Listed, Told
    <2>2. \A q \in Service, k \in SId : ~Mentions(p, q, k)'
      <3>1. Entries(<< >>) = {}
        BY EntriesEmpty DEF Entries
      <3>2. \A q \in Service : q # None
        BY ShardAssumption DEF ShardAssumption
      <3> QED BY <1>4, <1>9, <3>1, <3>2 DEF Mentions, Noted, Listed, Told, NotUsed
    <2> QED BY <2>1, <2>2
  <1>15. \A q \in Service, k \in SId : Trace(q, k)' => Trace(q, k)
    BY <1>1, <1>13, <1>14 DEF Trace
  <1>16. \A q \in Service, k \in SId : Owner(q, k)' => Owner(q, k)
    BY <1>1, <1>10, <1>12, <1>13 DEF Owner
  <1>17. ASSUME NEW r \in Service, NEW k \in SId, Clean(r, k)', NEW q \in Service, Owner(q, k)
         PROVE  Owner(q, k)'
    <2>1. Entered(q, k) => Owner(q, k)'
      BY <1>13 DEF Owner
    <2>2. sid[q] = k /\ Posted(q, "RRG") => Owner(q, k)'
      BY <1>1, <1>12 DEF Owner
    <2>3. CASE q # p
      BY <1>1, <1>10, <1>12, <1>13, <1>17, <2>3 DEF Owner
    <2>4. ASSUME q = p, sid[p] = k \/ Granting(p, k)
          PROVE  Owner(q, k)'
      <3>1. CASE cnx[p] = "open"
        <4>1. sid[p] # 0 \/ \E j \in SId : Granting(p, j)
          BY <2>4, SIdNat
        <4>2. Knows(registry, p) \/ Posted(p, "RRG")
          BY <3>1, <4>1 DEF Inv, PostInv
        <4>3. Trace(p, k)
          BY <2>4 DEF Trace
        <4>4. ASSUME Knows(registry, p) PROVE Entered(p, k)
          <5>1. PICK e \in Entries(registry) : e.svc = p
            BY <4>4 DEF Knows, Available
          <5>2. e.sid \in SId
            BY RegistryEntries DEF Inv, Entry
          <5>3. Trace(p, e.sid)
            BY <5>1 DEF Trace, Entered
          <5>4. e.sid = k
            BY <4>3, <5>2, <5>3 DEF Inv, TraceInv
          <5> QED BY <5>1, <5>4 DEF Entered
        <4>5. ASSUME Posted(p, "RRG") PROVE sid[p] = k
          <5>1. sid[p] # 0
            BY <4>5 DEF Inv, TypeInv, Identified, Posted, Post
          <5>2. sid[p] \in SId /\ Trace(p, sid[p])
            BY <1>2, <5>1 DEF Trace
          <5> QED BY <4>3, <5>2 DEF Inv, TraceInv
        <4> QED BY <2>1, <2>2, <2>4, <4>2, <4>4, <4>5
      <3>2. CASE cnx[p] # "open"
        <4>1. sid[p] # k
          BY <1>17, <3>2, SIdNat DEF Clean
        <4>2. Granting(p, k)
          BY <2>4, <4>1
        <4>3. stage[p] = "registering"
          BY <4>2 DEF Inv, LifeInv, Granting
        <4>4. ~Clean(r, k)
          BY <3>2, <4>2, <4>3 DEF Inv, SpoilInv
        <4> QED BY <1>13, <1>17, <4>4
      <3> QED BY <3>1, <3>2
    <2> QED BY <1>17, <2>1, <2>2, <2>3, <2>4 DEF Owner
  <1>18. LifeInv'
    <2> SUFFICES ASSUME NEW q \in Service
                 PROVE  /\ ~Alive(q)' => /\ fromNS'[q] = << >> /\ cnx'[q] = "none"
                                         /\ Blank(q)'
                        /\ stage'[q] = "off" => /\ toNS'[q] = << >> /\ sid'[q] = 0
                                                /\ \A j \in SId : ~Trace(q, j)'
                        /\ stage'[q] = "registering" => sid'[q] = 0 /\ Blank(q)'
                        /\ Bars(fromNS'[q], FromNSMessage, Replies)
                        /\ (\E m \in Mail(q)' : m.type = "RG") => stage'[q] = "registering"
                        /\ stage'[q] = "registering" /\ fromNS'[q] # << >> =>
                             Head(fromNS'[q]).type = "RG"
                        /\ Refused(q)' => \A j \in SId : ~Trace(q, j)'
      BY DEF LifeInv
    <2>1. CASE q = p
      <3>1. Bars(<< >>, FromNSMessage, Replies)
        BY BarsShort
      <3> QED BY <1>4, <1>9, <1>10, <1>11, <2>1, <3>1
    <2>2. CASE q # p
      BY <1>1, <1>5, <1>8, <1>9, <1>10, <1>15, <2>2 DEF Inv, LifeInv
    <2> QED BY <2>1, <2>2
  <1>19. PostInv'
    <2> SUFFICES ASSUME NEW q \in Service
                 PROVE  /\ Bars(toNS'[q], ToNSMessage, Firsts)
                        /\ Bars(toNS'[q], Lasts, ToNSMessage)
                        /\ Posted(q, "closed")' => stage'[q] = "dead"
                        /\ toNS'[q] # << >> =>
                             (Alive(q)' /\ cnx'[q] = "open") \/ Posted(q, "closed")'
                        /\ Posted(q, "RG")' => /\ fromNS'[q] = << >>
                                               /\ \A j \in SId : ~Trace(q, j)'
                        /\ Posted(q, "RRG")' => ~Entered(q, sid[q])'
                        /\ Posted(q, "ACK_UNI")' => Knows(registry, q)' \/ Posted(q, "RRG")'
                        /\ /\ Alive(q)' /\ cnx'[q] = "open"
                           /\ sid'[q] # 0 \/ \E j \in SId : Granting(q, j)'
                           => Knows(registry, q)' \/ Posted(q, "RRG")'
                        /\ nsUp' \/ toNS'[q] = << >>
      BY DEF PostInv
    <2>1. ~Entered(q, sid[q]) => ~Entered(q, sid[q])'
      BY <1>1 DEF Entered
    <2>2. CASE q = p
      <3>1. Bars(toNS'[p], ToNSMessage, Firsts) /\ Bars(toNS'[p], Lasts, ToNSMessage)
        <4>1. Bars(toNS[p], ToNSMessage, Firsts) /\ Bars(toNS[p], Lasts, ToNSMessage)
          BY DEF Inv, PostInv
        <4>2. closed \notin Firsts
          BY <1>3 DEF Firsts
        <4>3. Entries(toNS[p]) \intersect Lasts = {}
          BY <1>6 DEF Posted, Post, Lasts
        <4>4. toNS[p] \in Seq(ToNSMessage)
          BY <1>2
        <4>5. Bars(Append(toNS[p], closed), ToNSMessage, Firsts)
          BY <1>3, <4>1, <4>2, <4>4, BarsAppend
        <4>6. Bars(Append(toNS[p], closed), Lasts, ToNSMessage)
          BY <1>3, <4>1, <4>3, <4>4, BarsAppend
        <4> QED BY <1>7, <4>1, <4>5, <4>6
      <3>2. toNS'[p] # << >> => Posted(p, "closed")' /\ nsUp
        BY <1>7, <1>12
      <3>3. Posted(p, "RG")' => \A j \in SId : ~Trace(p, j)'
        BY <1>12, <1>15 DEF Inv, PostInv
      <3>4. Posted(p, "ACK_UNI")' => Knows(registry, p)' \/ Posted(p, "RRG")'
        BY <1>10, <1>12 DEF Inv, PostInv
      <3>5. Posted(p, "RRG")' => ~Entered(p, sid[p])'
        BY <1>12, <2>1, <2>2 DEF Inv, PostInv
      <3> QED BY <1>1, <1>4, <1>10, <2>2, <3>1, <3>2, <3>3, <3>4, <3>5
    <2>3. CASE q # p
      BY <1>1, <1>5, <1>8, <1>10, <1>12, <1>13, <1>15, <2>1, <2>3 DEF Inv, PostInv
    <2> QED BY <2>2, <2>3
  <1>20. RegistryInv'
    <2>1. ASSUME NEW e \in Entries(registry)
          PROVE  /\ e.waiting => stage'[e.svc] = "dead" /\ toNS'[e.svc] = << >>
                 /\ ~e.waiting =>
                      (Alive(e.svc)' /\ cnx'[e.svc] = "open") \/ Posted(e.svc, "closed")'
                 /\ stage'[e.svc] = "registering" => fromNS'[e.svc] # << >>
      <3>1. e.svc \in Service
        BY RegistryEntries DEF Inv, Entry
      <3>2. /\ e.waiting => stage[e.svc] = "dead" /\ toNS[e.svc] = << >>
            /\ ~e.waiting => (Alive(e.svc) /\ cnx[e.svc] = "open") \/ Posted(e.svc, "closed")
            /\ stage[e.svc] = "registering" => fromNS[e.svc] # << >>
        BY DEF Inv, RegistryInv
      <3>3. nsUp
        BY EntriesEmpty DEF Inv, RegistryInv, Entries
      <3>4. CASE e.svc = p
        <4>1. ~e.waiting /\ cnx[p] = "open"
          BY <1>6, <3>2, <3>4 DEF Alive
        <4> QED BY <1>4, <1>12, <3>3, <3>4, <4>1
      <3>5. CASE e.svc # p
        BY <1>5, <1>8, <1>10, <1>12, <3>1, <3>2, <3>5
      <3> QED BY <3>4, <3>5
    <2> QED BY <1>1, <2>1 DEF Inv, RegistryInv
  <1>21. StartInv'
    BY <1>1, <1>5, <1>10, <1>12 DEF Inv, StartInv
  <1>22. TraceInv' /\ OwnerInv' /\ NameInv'
    BY <1>1, <1>15, <1>16, NothingNew
  <1>23. LinkInv'
    <2> SUFFICES ASSUME NEW c \in Service, NEW q \in Service, link'[c][q] = "ident"
                 PROVE  Alive(c)'
      BY DEF LinkInv
    <2>1. link'[c][q] =
            IF p \notin {c, q} \/ link[c][q] = "none" THEN link[c][q]
            ELSE IF stage[IF c = p THEN q ELSE c] = "dead" THEN "closed"
            ELSE IF link[c][q] = "ident" /\ c = p THEN "gone"
            ELSE IF link[c][q] \in {"ident", "up"} THEN "broken"
            ELSE link[c][q]
      BY DEF Ends
    <2>2. p \notin {c, q} /\ link[c][q] = "ident"
      BY <2>1
    <2> QED BY <1>10, <2>2 DEF Inv, LinkInv
  <1>24. MentionInv'
    <2> SUFFICES ASSUME NEW r \in Service, NEW q \in Service, NEW k \in SId,
                        Clean(r, k)', Mentions(r, q, k)'
                 PROVE  /\ Owner(q, k)'
                        /\ \A e \in Entries(registry)' : e.waiting /\ e.sid = k => Awaited(r, k)'
      BY DEF MentionInv
    <2>1. Clean(r, k) /\ Mentions(r, q, k)
      BY <1>13, <1>14
    <2>2. /\ Owner(q, k)
          /\ \A e \in Entries(registry) : e.waiting /\ e.sid = k => Awaited(r, k)
      BY <2>1 DEF Inv, MentionInv
    <2> QED BY <1>1, <1>13, <1>17, <2>2
  <1>25. AckInv'
    <2> SUFFICES ASSUME NEW q \in Service, NEW j \in SId, Clean(q, j)'
                 PROVE  /\ Bars(fromNS'[q], Drops(j), Drops(j) \union Tales(j))
                        /\ Bars(toNS'[q], Acks(j), Acks(j))
                        /\ Dropped(q, j)' \/ Acked(q, j)' => Awaited(q, j)'
                        /\ Acked(q, j)' => /\ ~Dropped(q, j)'
                                           /\ \A r \in Service : ~Mentions(q, r, j)'
      BY DEF AckInv
    <2>1. /\ Bars(fromNS[q], Drops(j), Drops(j) \union Tales(j))
          /\ Bars(toNS[q], Acks(j), Acks(j))
          /\ Dropped(q, j) \/ Acked(q, j) => Awaited(q, j)
          /\ Acked(q, j) => ~Dropped(q, j) /\ \A r \in Service : ~Mentions(q, r, j)
      BY <1>13 DEF Inv, AckInv
    <2>2. Bars(<< >>, Drops(j), Drops(j) \union Tales(j)) /\ Bars(<< >>, Acks(j), Acks(j))
      BY BarsShort
    <2>3. Bars(toNS'[q], Acks(j), Acks(j))
      <3>1. CASE q = p
        <4>1. closed \notin Acks(j) /\ toNS[p] \in Seq(ToNSMessage)
          BY <1>2, <1>3 DEF Acks
        <4>2. Bars(Append(toNS[p], closed), Acks(j), Acks(j))
          BY <1>3, <2>1, <3>1, <4>1, BarsAppend
        <4> QED BY <1>7, <2>1, <2>2, <3>1, <4>2
      <3>2. CASE q # p
        BY <1>8, <2>1, <3>2
      <3> QED BY <3>1, <3>2
    <2>4. Bars(fromNS'[q], Drops(j), Drops(j) \union Tales(j))
      BY <1>4, <1>5, <2>1, <2>2
    <2> QED BY <1>13, <1>14, <2>1, <2>3, <2>4
  <1>26. SpoilInv'
    BY <1>4, <1>5, <1>13 DEF Inv, SpoilInv
  <1>27. TableInv'
    <2> SUFFICES ASSUME NEW q \in Service
                 PROVE  /\ Distinct(known'[q])
                        /\ \A m \in Mail(q)' : m.type = "RG" /\ m.ok => Distinct(m.list)
                        /\ \A e \in Entries(known'[q]) : e.sid # sid'[q] => Ready(ids'[q][e.sid])
                        /\ \A k \in SId :
                             /\ ids'[q][k].conn # "empty" => Ready(ids'[q][k])
                             /\ ids'[q][k].peer # None => ids'[q][k].conn # "empty"
                             /\ Clean(q, k)' /\ Ready(ids'[q][k]) =>
                                  \E r \in Service : /\ NameOf[r] = ids'[q][k].name
                                                     /\ Noted(q, r, k)'
      BY DEF TableInv
    <2>1. CASE q = p
      <3>1. Entries(<< >>) = {} /\ Distinct(<< >>)
        BY EntriesEmpty DEF Entries, Distinct
      <3> QED BY <1>4, <1>9, <2>1, <3>1 DEF NotUsed, Ready
    <2>2. CASE q # p
      BY <1>1, <1>5, <1>9, <1>13, <1>14, <2>2 DEF Inv, TableInv
    <2> QED BY <2>1, <2>2
  <1> QED BY <1>18, <1>19, <1>20, <1>21, <1>22, <1>23, <1>24, <1>25, <1>26, <1>27 DEF Inv

(* A process that dies mentions nothing any more; if nobody can be told,   *)
(* its identifier is spoiled.                                              *)
LEMMA DieInv ==
  ASSUME Inv, NEW p \in Service, Die(p)
  PROVE  Inv'
PROOF
  <1>1. /\ Alive(p) /\ Ends(p) /\ UNCHANGED << naming, sid >>
        /\ IF sid[p] # 0 /\ cnx[p] # "open" THEN Spoil(Service, {sid[p]}) ELSE UNCHANGED spoiled
    BY DEF Die
  <1>2. spoiled \subseteq spoiled'
    BY <1>1 DEF Spoil
  <1>3. sid[p] # 0 /\ cnx[p] # "open" => \A r \in Service : << r, sid[p] >> \in spoiled'
    BY <1>1 DEF Spoil
  <1>4. TypeInv'
    BY DieType DEF Inv
  <1> QED BY <1>1, <1>2, <1>3, <1>4, EndsInv

-----------------------------------------------------------------------------
(* A process takes a message of the naming service.                        *)
LEMMA Read ==
  ASSUME Inv, NEW p \in Service, NEW type, Arrived(p, type),
         fromNS' = [fromNS EXCEPT ![p] = Tail(@)]
  PROVE  /\ fromNS[p] # << >>
         /\ Head(fromNS[p]) \in FromNSMessage /\ Head(fromNS[p]).type = type
         /\ Mail(p) = {Head(fromNS[p])} \union Mail(p)'
         /\ \A q \in Service : q # p => fromNS'[q] = fromNS[q] /\ Mail(q)' = Mail(q)
         /\ \A q \in Service : \A A, B : Bars(fromNS[q], A, B) => Bars(fromNS'[q], A, B)
         /\ \A A, B : Head(fromNS[p]) \in A /\ Bars(fromNS[p], A, B) =>
              Mail(p)' \intersect B = {}
         /\ \A m \in Mail(p)' : m.type # "RG"
PROOF
  <1>1. fromNS \in [Service -> Seq(FromNSMessage)] /\ fromNS[p] \in Seq(FromNSMessage)
    BY Vars DEF Inv
  <1>2. fromNS[p] # << >> /\ Head(fromNS[p]).type = type
    BY DEF Arrived
  <1>3. fromNS'[p] = Tail(fromNS[p]) /\ \A q \in Service : q # p => fromNS'[q] = fromNS[q]
    BY <1>1
  <1>4. \A q \in Service : q # p => Mail(q)' = Mail(q)
    BY <1>3 DEF Mail
  <1>5. Mail(p) = {Head(fromNS[p])} \union Mail(p)'
    BY <1>1, <1>2, <1>3, TailEntries DEF Mail
  <1>6. \A A, B : Bars(fromNS[p], A, B) =>
          /\ Bars(fromNS'[p], A, B)
          /\ Head(fromNS[p]) \in A => Mail(p)' \intersect B = {}
    BY <1>1, <1>2, <1>3, BarsTail DEF Mail
  <1>7. Head(fromNS[p]) \in FromNSMessage /\ Mail(p)' \subseteq FromNSMessage
    BY <1>5, Messages DEF Inv
  <1>8. \A m \in Mail(p)' : m.type # "RG"
    <2>1. Bars(fromNS[p], FromNSMessage, Replies)
      BY DEF Inv, LifeInv
    <2>2. Mail(p)' \intersect Replies = {}
      BY <1>6, <1>7, <2>1
    <2> QED BY <1>7, <2>2 DEF Replies
  <1> QED BY <1>2, <1>3, <1>4, <1>5, <1>6, <1>7, <1>8

(* It is given an identifier and a list of the services there are.         *)
LEMMA AnsweredInv ==
  ASSUME Inv, TypeInv', NEW p \in Service, stage[p] = "registering", Arrived(p, "RG"),
         NEW k \in SId, NEW list \in Seq(Entry),
         Head(fromNS[p]).ok, Head(fromNS[p]).sid = k, Head(fromNS[p]).list = list,
         stage' = [stage EXCEPT ![p] = "registered"],
         sid' = [sid EXCEPT ![p] = k],
         known' = [known EXCEPT ![p] =
                     [i \in DOMAIN list |-> [svc |-> list[i].svc, sid |-> list[i].sid]]],
         ids' = [ids EXCEPT ![p] = [j \in SId |->
                   IF (\E i \in DOMAIN list : list[i].sid = j) /\ j # k
                   THEN Inserted(@[j], list[First(list, j)].svc)
                   ELSE @[j]]],
         fromNS' = [fromNS EXCEPT ![p] = Tail(@)],
         UNCHANGED << registry, unique, nsUp, toNS, cnx, up, link, spoiled >>
  PROVE  Inv'
PROOF
  <1>1. PICK rg \in FromNSMessage : rg = Head(fromNS[p])
    BY Read
  <1>2. /\ rg.type = "RG" /\ rg.ok /\ rg.sid = k /\ rg.list = list
        /\ fromNS[p] # << >>
        /\ Mail(p) = {rg} \union Mail(p)'
        /\ \A m \in Mail(p)' : m.type # "RG"
        /\ \A q \in Service : q # p => fromNS'[q] = fromNS[q] /\ Mail(q)' = Mail(q)
        /\ \A q \in Service : \A A, B : Bars(fromNS[q], A, B) => Bars(fromNS'[q], A, B)
    BY <1>1, Read
  <1>3. /\ cnx \in [Service -> {"none", "open", "cut"}]
        /\ stage \in [Service -> {"off", "registering", "registered", "connecting", "running",
                                  "dead"}]
        /\ sid \in [Service -> SId \union {0}]
        /\ known \in [Service -> Seq([svc : Service, sid : SId])]
        /\ ids \in [Service -> [SId -> IdEntry]]
        /\ up \in [Service -> SUBSET (Service \X SId)]
    BY Vars DEF Inv
  <1>4. /\ sid[p] = 0 /\ known[p] = << >> /\ ids[p] = [j \in SId |-> NotUsed] /\ up[p] = {}
    BY DEF Inv, LifeInv, Blank
  <1> DEFINE new == [i \in DOMAIN list |-> [svc |-> list[i].svc, sid |-> list[i].sid]]
  <1>5. /\ stage'[p] = "registered" /\ sid'[p] = k /\ known'[p] = new
        /\ \A j \in SId : ids'[p][j] =
             IF (\E i \in DOMAIN list : list[i].sid = j) /\ j # k
             THEN Inserted(NotUsed, list[First(list, j)].svc)
             ELSE NotUsed
    BY <1>3, <1>4
  <1>6. \A q \in Service : q # p => /\ stage'[q] = stage[q] /\ sid'[q] = sid[q]
                                    /\ known'[q] = known[q] /\ ids'[q] = ids[q]
    BY <1>3
  <1>7. \A q \in Service, j \in SId : Listed(p, q, j)' <=> Tells(rg, q, j)
    <2>1. \A q \in Service, j \in SId :
            (\E e \in Entries(new) : e.svc = q /\ e.sid = j) <=>
            \E e \in Entries(list) : e.svc = q /\ e.sid = j
      <3>1. /\ DOMAIN new = DOMAIN list
            /\ \A i \in DOMAIN list : new[i].svc = list[i].svc /\ new[i].sid = list[i].sid
        OBVIOUS
      <3> HIDE DEF new
      <3>2. \A q \in Service, j \in SId :
              (\E i \in DOMAIN new : new[i].svc = q /\ new[i].sid = j) <=>
              \E i \in DOMAIN list : list[i].svc = q /\ list[i].sid = j
        BY <3>1
      <3>3. \A q \in Service, j \in SId :
              (\E e \in Entries(new) : e.svc = q /\ e.sid = j) <=>
              \E i \in DOMAIN new : new[i].svc = q /\ new[i].sid = j
        BY DEF Entries
      <3>4. \A q \in Service, j \in SId :
              (\E e \in Entries(list) : e.svc = q /\ e.sid = j) <=>
              \E i \in DOMAIN list : list[i].svc = q /\ list[i].sid = j
        BY DEF Entries
      <3> QED BY <3>2, <3>3, <3>4
    <2>2. \A q \in Service, j \in SId :
            Tells(rg, q, j) <=> \E e \in Entries(list) : e.svc = q /\ e.sid = j
      BY <1>2 DEF Tells
    <2> HIDE DEF new
    <2>3. \A q \in Service, j \in SId :
            Listed(p, q, j)' <=> \E e \in Entries(new) : e.svc = q /\ e.sid = j
      BY <1>5 DEF Listed
    <2> QED BY <2>1, <2>2, <2>3
  <1>8. \A i \in DOMAIN list : list[i].svc \in Service /\ list[i].sid \in SId
    <2>1. \A i \in DOMAIN list : list[i] \in Entry
      BY EntriesType
    <2> HIDE DEF new
    <2> QED BY <2>1 DEF Entry
  <1>9. /\ Distinct(list) /\ Distinct(new)
    <2>1. Distinct(list)
      BY <1>2 DEF Inv, TableInv
    <2>2. DOMAIN new = DOMAIN list /\ \A i \in DOMAIN list : new[i].sid = list[i].sid
      OBVIOUS
    <2> HIDE DEF new
    <2> QED BY <2>1, <2>2, DistinctRenamed
  <1> HIDE DEF new
  <1>10. \A j \in SId :
           /\ ids'[p][j].conn = "empty" /\ ids'[p][j].peer = None
           /\ Ready(ids'[p][j]) <=> j # k /\ \E q \in Service : Tells(rg, q, j)
           /\ Ready(ids'[p][j]) =>
                \E q \in Service : NameOf[q] = ids'[p][j].name /\ Tells(rg, q, j)
    <2> SUFFICES ASSUME NEW j \in SId
                 PROVE  /\ ids'[p][j].conn = "empty" /\ ids'[p][j].peer = None
                        /\ Ready(ids'[p][j]) <=> j # k /\ \E q \in Service : Tells(rg, q, j)
                        /\ Ready(ids'[p][j]) =>
                             \E q \in Service : NameOf[q] = ids'[p][j].name /\ Tells(rg, q, j)
      OBVIOUS
    <2>1. (\E q \in Service : Tells(rg, q, j)) <=> \E i \in DOMAIN list : list[i].sid = j
      BY <1>2, <1>8 DEF Tells, Entries
    <2>2. CASE (\E i \in DOMAIN list : list[i].sid = j) /\ j # k
      <3>1. First(list, j) \in DOMAIN list /\ list[First(list, j)].sid = j
        BY <2>2, FirstFound
      <3>2. PICK q \in Service : q = list[First(list, j)].svc /\ Tells(rg, q, j)
        BY <1>2, <1>8, <3>1 DEF Tells, Entries
      <3>3. ids'[p][j] = Inserted(NotUsed, q)
        BY <1>5, <2>2, <3>2
      <3>4. NameOf[q] # "DEAD"
        BY ShardAssumption DEF ShardAssumption
      <3>5. ids'[p][j].conn = "empty" /\ ids'[p][j].peer = None /\ ids'[p][j].name = NameOf[q]
        BY <3>3 DEF Inserted, NotUsed, Ready
      <3> QED BY <2>1, <2>2, <3>2, <3>4, <3>5 DEF Ready
    <2>3. CASE ~((\E i \in DOMAIN list : list[i].sid = j) /\ j # k)
      <3>1. ids'[p][j] = NotUsed
        BY <1>5, <2>3
      <3>2. ids'[p][j].conn = "empty" /\ ids'[p][j].peer = None /\ ~Ready(ids'[p][j])
        BY <3>1 DEF NotUsed, Ready
      <3> QED BY <2>1, <2>3, <3>2
    <2> QED BY <2>2, <2>3
  <1>11. \A q \in Service : /\ Alive(q)' <=> Alive(q)
                            /\ Knows(registry, q)' <=> Knows(registry, q)
                            /\ Post(q)' = Post(q)
                            /\ \A type : Posted(q, type)' <=> Posted(q, type)
                            /\ Refused(q)' <=> Refused(q) /\ q # p
                            /\ q # p => (Blank(q)' <=> Blank(q))
    <2>1. \A q \in Service : Alive(q)' <=> Alive(q)
      BY <1>5, <1>6 DEF Alive
    <2>2. \A q \in Service : Refused(q)' <=> Refused(q) /\ q # p
      BY <1>2 DEF Refused
    <2> QED BY <1>6, <2>1, <2>2 DEF Post, Posted, Blank
  <1>12. Alive(p) /\ ~Refused(p) /\ Trace(p, k) /\ Granting(p, k)
    <2>1. Granting(p, k)
      BY <1>2 DEF Granting
    <2>2. Trace(p, k)
      BY <2>1 DEF Trace
    <2> QED BY <2>1, <2>2 DEF Alive, Inv, LifeInv
  <1>13. \A q \in Service, j \in SId :
           /\ Granting(q, j)' <=> Granting(q, j) /\ q # p
           /\ Dropped(q, j)' <=> Dropped(q, j)
           /\ Entered(q, j)' <=> Entered(q, j)
           /\ Awaited(q, j)' <=> Awaited(q, j)
           /\ Acked(q, j)' <=> Acked(q, j)
           /\ Clean(q, j)' <=> Clean(q, j)
    <2>1. \A q \in Service, j \in SId : Granting(q, j)' <=> Granting(q, j) /\ q # p
      BY <1>2 DEF Granting
    <2>2. \A q \in Service, j \in SId : Dropped(q, j)' <=> Dropped(q, j)
      BY <1>2 DEF Dropped, Drops
    <2> QED BY <2>1, <2>2 DEF Entered, Awaited, Acked, Clean, Post
  <1>14. \A r, q \in Service, j \in SId : /\ Mentions(r, q, j)' <=> Mentions(r, q, j)
                                          /\ r # p => (Noted(r, q, j)' <=> Noted(r, q, j))
    <2>1. \A r, q \in Service, j \in SId : r # p => /\ Mentions(r, q, j)' <=> Mentions(r, q, j)
                                                    /\ Noted(r, q, j)' <=> Noted(r, q, j)
      BY <1>2, <1>6 DEF Mentions, Noted, Listed, Told
    <2>2. ASSUME NEW q \in Service, NEW j \in SId
          PROVE  Mentions(p, q, j)' <=> Mentions(p, q, j)
      <3>1. q # None
        BY ShardAssumption DEF ShardAssumption
      <3>2. ~Noted(p, q, j) /\ ids[p][j].peer # q
        <4>1. Entries(<< >>) = {}
          BY EntriesEmpty DEF Entries
        <4> QED BY <1>4, <3>1, <4>1 DEF Noted, Listed, NotUsed
      <3>3. << q, j >> \notin up'[p] /\ ids'[p][j].peer # q
        BY <1>4, <1>10, <3>1
      <3>4. Told(p, q, j) <=> Told(p, q, j)' \/ Tells(rg, q, j)
        BY <1>2 DEF Told
      <3> QED BY <1>7, <3>2, <3>3, <3>4 DEF Mentions, Noted
    <2> QED BY <2>1, <2>2
  <1>15. \A q \in Service, j \in SId : Trace(q, j)' <=> Trace(q, j)
    <2>1. \A q \in Service, j \in SId : q # p => (Trace(q, j)' <=> Trace(q, j))
      BY <1>6, <1>13, <1>14 DEF Trace
    <2>2. \A j \in SId : Trace(p, j)' => Trace(p, j)
      BY <1>5, <1>12, <1>13, <1>14 DEF Trace
    <2>3. \A j \in SId : Trace(p, j) => j = k
      BY <1>12 DEF Inv, TraceInv
    <2>4. Trace(p, k)'
      BY <1>5 DEF Trace
    <2> QED BY <2>1, <2>2, <2>3, <2>4
  <1>16. \A q \in Service, j \in SId : Owner(q, j)' <=> Owner(q, j)
    <2>1. \A q \in Service, j \in SId : q # p => (Owner(q, j)' <=> Owner(q, j))
      BY <1>6, <1>11, <1>13 DEF Owner
    <2>2. ASSUME NEW j \in SId PROVE Owner(p, j)' <=> Owner(p, j)
      <3>1. ~Posted(p, "RRG")
        BY <1>4 DEF Inv, TypeInv, Identified, Posted, Post
      <3>2. Granting(p, j) => Trace(p, j)
        BY DEF Trace
      <3>3. Granting(p, j) <=> j = k
        BY <1>12, <3>2 DEF Inv, TraceInv
      <3>4. sid[p] # j
        BY <1>4, SIdNat
      <3> QED BY <1>5, <1>11, <1>12, <1>13, <3>1, <3>3, <3>4 DEF Owner
    <2> QED BY <2>1, <2>2
  <1>17. LifeInv'
    <2> SUFFICES ASSUME NEW q \in Service
                 PROVE  /\ ~Alive(q)' => /\ fromNS'[q] = << >> /\ cnx'[q] = "none"
                                         /\ Blank(q)'
                        /\ stage'[q] = "off" => /\ toNS'[q] = << >> /\ sid'[q] = 0
                                                /\ \A j \in SId : ~Trace(q, j)'
                        /\ stage'[q] = "registering" => sid'[q] = 0 /\ Blank(q)'
                        /\ Bars(fromNS'[q], FromNSMessage, Replies)
                        /\ (\E m \in Mail(q)' : m.type = "RG") => stage'[q] = "registering"
                        /\ stage'[q] = "registering" /\ fromNS'[q] # << >> =>
                             Head(fromNS'[q]).type = "RG"
                        /\ Refused(q)' => \A j \in SId : ~Trace(q, j)'
      BY DEF LifeInv
    <2>1. Bars(fromNS'[q], FromNSMessage, Replies)
      BY <1>2 DEF Inv, LifeInv
    <2>2. CASE q = p
      BY <1>2, <1>5, <1>11, <1>12, <2>1, <2>2
    <2>3. CASE q # p
      BY <1>2, <1>6, <1>11, <1>15, <2>1, <2>3 DEF Inv, LifeInv
    <2> QED BY <2>2, <2>3
  <1>18. PostInv'
    <2> SUFFICES ASSUME NEW q \in Service
                 PROVE  /\ Bars(toNS'[q], ToNSMessage, Firsts)
                        /\ Bars(toNS'[q], Lasts, ToNSMessage)
                        /\ Posted(q, "closed")' => stage'[q] = "dead"
                        /\ toNS'[q] # << >> =>
                             (Alive(q)' /\ cnx'[q] = "open") \/ Posted(q, "closed")'
                        /\ Posted(q, "RG")' => /\ fromNS'[q] = << >>
                                               /\ \A j \in SId : ~Trace(q, j)'
                        /\ Posted(q, "RRG")' => ~Entered(q, sid[q])'
                        /\ Posted(q, "ACK_UNI")' => Knows(registry, q)' \/ Posted(q, "RRG")'
                        /\ /\ Alive(q)' /\ cnx'[q] = "open"
                           /\ sid'[q] # 0 \/ \E j \in SId : Granting(q, j)'
                           => Knows(registry, q)' \/ Posted(q, "RRG")'
                        /\ nsUp' \/ toNS'[q] = << >>
      BY DEF PostInv
    <2>1. CASE q = p
      <3>1. ~Posted(p, "RRG") /\ ~Posted(p, "RG") /\ ~Posted(p, "closed")
        <4>1. ~Posted(p, "RRG")
          BY <1>4 DEF Inv, TypeInv, Identified, Posted, Post
        <4>2. ~Posted(p, "RG")
          BY <1>2 DEF Inv, PostInv
        <4>3. ~Posted(p, "closed")
          BY DEF Inv, PostInv
        <4> QED BY <4>1, <4>2, <4>3
      <3>2. Alive(p) /\ cnx[p] = "open" => Knows(registry, p)
        BY <1>12, <3>1 DEF Inv, PostInv
      <3> QED BY <1>11, <1>12, <2>1, <3>1, <3>2 DEF Inv, PostInv
    <2>2. CASE q # p
      <3>1. ~Entered(q, sid[q]) => ~Entered(q, sid[q])'
        BY <1>6, <2>2 DEF Entered
      <3> QED BY <1>2, <1>6, <1>11, <1>13, <1>15, <2>2, <3>1 DEF Inv, PostInv
    <2> QED BY <2>1, <2>2
  <1>19. RegistryInv'
    <2>1. ASSUME NEW e \in Entries(registry)
          PROVE  /\ e.waiting => stage'[e.svc] = "dead" /\ toNS'[e.svc] = << >>
                 /\ ~e.waiting =>
                      (Alive(e.svc)' /\ cnx'[e.svc] = "open") \/ Posted(e.svc, "closed")'
                 /\ stage'[e.svc] = "registering" => fromNS'[e.svc] # << >>
      <3>1. e.svc \in Service
        BY RegistryEntries DEF Inv, Entry
      <3>2. /\ e.waiting => stage[e.svc] = "dead" /\ toNS[e.svc] = << >>
            /\ ~e.waiting => (Alive(e.svc) /\ cnx[e.svc] = "open") \/ Posted(e.svc, "closed")
            /\ stage[e.svc] = "registering" => fromNS[e.svc] # << >>
        BY DEF Inv, RegistryInv
      <3>3. CASE e.svc = p
        BY <1>5, <1>11, <3>2, <3>3
      <3>4. CASE e.svc # p
        BY <1>2, <1>6, <1>11, <3>1, <3>2, <3>4
      <3> QED BY <3>3, <3>4
    <2> QED BY <2>1 DEF Inv, RegistryInv
  <1>20. StartInv'
    <2> SUFFICES ASSUME NEW r \in Service, Posted(r, "RG")'
                 PROVE  /\ \A q \in Service : Alive(q)' /\ (sid'[q] # 0 \/ fromNS'[q] # << >>) =>
                             Knows(registry, q)' \/ Refused(q)'
                        /\ \A q \in Service : ~Posted(q, "RRG")'
      BY DEF StartInv
    <2>1. /\ \A q \in Service : Alive(q) /\ (sid[q] # 0 \/ fromNS[q] # << >>) =>
               Knows(registry, q) \/ Refused(q)
          /\ \A q \in Service : ~Posted(q, "RRG")
      BY <1>11 DEF Inv, StartInv
    <2>2. Knows(registry, p)
      BY <1>2, <1>12, <2>1
    <2> QED BY <1>2, <1>6, <1>11, <2>1, <2>2
  <1>21. TraceInv' /\ OwnerInv' /\ NameInv'
    BY <1>15, <1>16, NothingNew
  <1>22. LinkInv'
    BY <1>11 DEF Inv, LinkInv
  <1>23. MentionInv'
    BY <1>13, <1>14, <1>16 DEF Inv, MentionInv
  <1>24. AckInv'
    <2> SUFFICES ASSUME NEW q \in Service, NEW j \in SId, Clean(q, j)'
                 PROVE  /\ Bars(fromNS'[q], Drops(j), Drops(j) \union Tales(j))
                        /\ Bars(toNS'[q], Acks(j), Acks(j))
                        /\ Dropped(q, j)' \/ Acked(q, j)' => Awaited(q, j)'
                        /\ Acked(q, j)' => /\ ~Dropped(q, j)'
                                           /\ \A r \in Service : ~Mentions(q, r, j)'
      BY DEF AckInv
    <2>1. /\ Bars(fromNS[q], Drops(j), Drops(j) \union Tales(j))
          /\ Bars(toNS[q], Acks(j), Acks(j))
          /\ Dropped(q, j) \/ Acked(q, j) => Awaited(q, j)
          /\ Acked(q, j) => ~Dropped(q, j) /\ \A r \in Service : ~Mentions(q, r, j)
      BY <1>13 DEF Inv, AckInv
    <2>2. Bars(fromNS'[q], Drops(j), Drops(j) \union Tales(j))
      BY <1>2, <2>1
    <2> QED BY <1>13, <1>14, <2>1, <2>2
  <1>25. SpoilInv'
    BY <1>5, <1>6, <1>13 DEF Inv, SpoilInv
  <1>26. TableInv'
    <2> SUFFICES ASSUME NEW q \in Service
                 PROVE  /\ Distinct(known'[q])
                        /\ \A m \in Mail(q)' : m.type = "RG" /\ m.ok => Distinct(m.list)
                        /\ \A e \in Entries(known'[q]) : e.sid # sid'[q] => Ready(ids'[q][e.sid])
                        /\ \A j \in SId :
                             /\ ids'[q][j].conn # "empty" => Ready(ids'[q][j])
                             /\ ids'[q][j].peer # None => ids'[q][j].conn # "empty"
                             /\ Clean(q, j)' /\ Ready(ids'[q][j]) =>
                                  \E r \in Service : /\ NameOf[r] = ids'[q][j].name
                                                     /\ Noted(q, r, j)'
      BY DEF TableInv
    <2>1. CASE q = p
      <3>1. ASSUME NEW e \in Entries(known'[p]), e.sid # k
            PROVE  Ready(ids'[p][e.sid])
        <4>1. known' \in [Service -> Seq([svc : Service, sid : SId])]
          BY DEF TypeInv, Typed, TablesType
        <4>2. known'[p] \in Seq([svc : Service, sid : SId])
          BY <4>1
        <4>4. Entries(known'[p]) \subseteq [svc : Service, sid : SId]
          BY <4>2, EntriesType
        <4>5. e.svc \in Service /\ e.sid \in SId
          BY <4>4
        <4>3. Listed(p, e.svc, e.sid)'
          BY DEF Listed
        <4> QED BY <1>7, <1>10, <3>1, <4>3, <4>5
      <3>2. \A j \in SId : Ready(ids'[p][j]) =>
              \E r \in Service : NameOf[r] = ids'[p][j].name /\ Noted(p, r, j)'
        BY <1>7, <1>10 DEF Noted
      <3>3. \A m \in Mail(p)' : ~(m.type = "RG" /\ m.ok)
        BY <1>2
      <3>4. sid'[p] = k /\ Distinct(known'[p])
        BY <1>5, <1>9
      <3>5. \A j \in SId : ids'[p][j].conn = "empty" /\ ids'[p][j].peer = None
        BY <1>10
      <3> QED BY <2>1, <3>1, <3>2, <3>3, <3>4, <3>5
    <2>2. CASE q # p
      BY <1>2, <1>6, <1>13, <1>14, <2>2 DEF Inv, TableInv
    <2> QED BY <2>1, <2>2
  <1> QED BY <1>17, <1>18, <1>19, <1>20, <1>21, <1>22, <1>23, <1>24, <1>25, <1>26 DEF Inv

(* A service that has its answer owns the identifier; one that is refused  *)
(* ends.                                                                   *)
LEMMA RegisteredInv ==
  ASSUME Inv, NEW p \in Service, Registered(p)
  PROVE  Inv'
PROOF
  <1> DEFINE rg == Head(fromNS[p])
  <1>1. /\ stage[p] = "registering" /\ Arrived(p, "RG")
        /\ UNCHANGED << registry, unique, nsUp, spoiled >> /\ UNCHANGED naming
    BY DEF Registered, naming
  <1>2. TypeInv'
    BY RegisteredType DEF Inv
  <1>3. rg \in FromNSMessage /\ rg.type = "RG"
    BY <1>1, ArrivedType DEF Inv, TypeInv, Typed
  <1>4. ASSUME rg.ok,
               stage' = [stage EXCEPT ![p] = "registered"],
               sid' = [sid EXCEPT ![p] = rg.sid],
               known' = [known EXCEPT ![p] =
                           [i \in DOMAIN rg.list |->
                              [svc |-> rg.list[i].svc, sid |-> rg.list[i].sid]]],
               ids' = [ids EXCEPT ![p] = [k \in SId |->
                         IF (\E i \in DOMAIN rg.list : rg.list[i].sid = k) /\ k # rg.sid
                         THEN Inserted(@[k], rg.list[First(rg.list, k)].svc)
                         ELSE @[k]]],
               fromNS' = [fromNS EXCEPT ![p] = Tail(@)],
               UNCHANGED << toNS, cnx, named, up, link >>
        PROVE  Inv'
    <2>1. rg.sid \in SId /\ rg.list \in Seq(Entry)
      BY <1>3, <1>4, MessageFields
    <2> QED BY <1>1, <1>2, <1>4, <2>1, AnsweredInv
  <1>5. ASSUME Ends(p), UNCHANGED sid
        PROVE  Inv'
    <2>1. Alive(p) /\ sid[p] = 0
      BY <1>1 DEF Alive, Inv, LifeInv
    <2>2. UNCHANGED << naming, sid >> /\ spoiled \subseteq spoiled'
      BY <1>1, <1>5
    <2> QED BY <1>2, <1>5, <2>1, <2>2, EndsInv
  <1>6. \/ /\ rg.ok
           /\ stage' = [stage EXCEPT ![p] = "registered"]
           /\ sid' = [sid EXCEPT ![p] = rg.sid]
           /\ known' = [known EXCEPT ![p] =
                          [i \in DOMAIN rg.list |->
                             [svc |-> rg.list[i].svc, sid |-> rg.list[i].sid]]]
           /\ ids' = [ids EXCEPT ![p] = [k \in SId |->
                        IF (\E i \in DOMAIN rg.list : rg.list[i].sid = k) /\ k # rg.sid
                        THEN Inserted(@[k], rg.list[First(rg.list, k)].svc)
                        ELSE @[k]]]
           /\ fromNS' = [fromNS EXCEPT ![p] = Tail(@)]
           /\ UNCHANGED << toNS, cnx, named, up, link >>
        \/ Ends(p) /\ UNCHANGED sid
    BY DEF Registered, First
  <1> HIDE DEF rg
  <1> QED BY <1>4, <1>5, <1>6

-----------------------------------------------------------------------------
(* A process handles a broadcast of the naming service, and may answer it: *)
(* what holds of the protocol, but for the acknowledgements, still does if *)
(* the process then mentions nothing that it did not.                      *)
LEMMA NewsKeep ==
  ASSUME Inv, NEW p \in Service, Updates(p), NEW type \in {"RGB", "UNB"}, Arrived(p, type),
         fromNS' = [fromNS EXCEPT ![p] = Tail(@)],
         NEW ack \in ToNSMessage, ack.type = "ACK_UNI",
         toNS' = toNS \/ toNS' = Send(p, ack),
         UNCHANGED << registry, unique, nsUp, cnx, stage, sid >>,
         spoiled \subseteq spoiled',
         \A q \in Service : q # p => known'[q] = known[q] /\ ids'[q] = ids[q] /\ up'[q] = up[q],
         \A q \in Service, k \in SId : Mentions(p, q, k)' => Mentions(p, q, k)
  PROVE  /\ LifeInv' /\ PostInv' /\ RegistryInv' /\ StartInv' /\ TraceInv' /\ OwnerInv'
         /\ NameInv' /\ MentionInv' /\ SpoilInv'
         /\ \A r, q \in Service, k \in SId : Mentions(r, q, k)' => Mentions(r, q, k)
         /\ \A q \in Service : q # p => toNS'[q] = toNS[q] /\ Post(q)' = Post(q)
         /\ \/ toNS'[p] = toNS[p] /\ Post(p)' = Post(p)
            \/ /\ toNS'[p] = Append(toNS[p], ack) /\ Post(p)' = Post(p) \union {ack}
               /\ toNS' = Send(p, ack)
PROOF
  <1>1. /\ fromNS[p] # << >>
        /\ Head(fromNS[p]).type # "RG"
        /\ Mail(p) = {Head(fromNS[p])} \union Mail(p)'
        /\ \A m \in Mail(p)' : m.type # "RG"
        /\ \A q \in Service : q # p => fromNS'[q] = fromNS[q] /\ Mail(q)' = Mail(q)
        /\ \A q \in Service : \A A, B : Bars(fromNS[q], A, B) => Bars(fromNS'[q], A, B)
    BY Read
  <1>2. Alive(p) /\ stage[p] # "registering" /\ sid[p] # 0
    BY DEF Updates, Alive, Inv, TypeInv, Identified
  <1>3. toNS \in [Service -> Seq(ToNSMessage)]
    BY Vars DEF Inv
  <1>4. \/ toNS' = toNS
        \/ toNS' = [toNS EXCEPT ![p] = Append(@, ack)] /\ nsUp /\ cnx[p] = "open"
           /\ toNS' = Send(p, ack)
    BY DEF Send
  <1>5. \A q \in Service : q # p => toNS'[q] = toNS[q] /\ Post(q)' = Post(q)
    BY <1>3, <1>4 DEF Post
  <1>6. \/ toNS'[p] = toNS[p] /\ Post(p)' = Post(p)
        \/ /\ toNS'[p] = Append(toNS[p], ack) /\ Post(p)' = Post(p) \union {ack}
           /\ nsUp /\ cnx[p] = "open"
           /\ toNS' = Send(p, ack)
    <2>1. CASE toNS' = toNS
      BY <2>1 DEF Post
    <2>2. ASSUME toNS' = [toNS EXCEPT ![p] = Append(@, ack)]
          PROVE  toNS'[p] = Append(toNS[p], ack) /\ Post(p)' = Post(p) \union {ack}
      <3>1. toNS'[p] = Append(toNS[p], ack)
        BY <1>3, <2>2
      <3>2. Entries(Append(toNS[p], ack)) = Entries(toNS[p]) \union {ack}
        BY <1>3, AppendEntries
      <3> QED BY <3>1, <3>2 DEF Post
    <2> QED BY <1>4, <2>1, <2>2
  <1>7. \A q \in Service : /\ Alive(q)' <=> Alive(q)
                           /\ Knows(registry, q)' <=> Knows(registry, q)
                           /\ Refused(q)' <=> Refused(q)
                           /\ q # p => (Blank(q)' <=> Blank(q))
                           /\ \A t : t # "ACK_UNI" => (Posted(q, t)' <=> Posted(q, t))
    <2>1. \A q \in Service : Refused(q)' <=> Refused(q)
      BY <1>1 DEF Refused
    <2>2. \A q \in Service : \A t : t # "ACK_UNI" => (Posted(q, t)' <=> Posted(q, t))
      BY <1>5, <1>6 DEF Posted
    <2> QED BY <2>1, <2>2 DEF Alive, Blank
  <1>8. \A q \in Service, j \in SId : /\ Granting(q, j)' <=> Granting(q, j)
                                      /\ Entered(q, j)' <=> Entered(q, j)
                                      /\ Awaited(q, j)' <=> Awaited(q, j)
                                      /\ Clean(q, j)' => Clean(q, j)
    <2>1. \A q \in Service, j \in SId : Granting(q, j)' <=> Granting(q, j)
      BY <1>1 DEF Granting
    <2> QED BY <2>1 DEF Entered, Awaited, Clean
  <1>9. \A r, q \in Service, j \in SId : Mentions(r, q, j)' => Mentions(r, q, j)
    <2>1. \A r, q \in Service, j \in SId : r # p => (Mentions(r, q, j)' <=> Mentions(r, q, j))
      BY <1>1 DEF Mentions, Noted, Listed, Told
    <2> QED BY <2>1
  <1>10. \A q \in Service, j \in SId : Trace(q, j)' => Trace(q, j)
    BY <1>8, <1>9 DEF Trace
  <1>11. \A q \in Service, j \in SId : Owner(q, j)' <=> Owner(q, j)
    BY <1>7, <1>8 DEF Owner
  <1>12. LifeInv'
    <2> SUFFICES ASSUME NEW q \in Service
                 PROVE  /\ ~Alive(q)' => /\ fromNS'[q] = << >> /\ cnx'[q] = "none"
                                         /\ Blank(q)'
                        /\ stage'[q] = "off" => /\ toNS'[q] = << >> /\ sid'[q] = 0
                                                /\ \A j \in SId : ~Trace(q, j)'
                        /\ stage'[q] = "registering" => sid'[q] = 0 /\ Blank(q)'
                        /\ Bars(fromNS'[q], FromNSMessage, Replies)
                        /\ (\E m \in Mail(q)' : m.type = "RG") => stage'[q] = "registering"
                        /\ stage'[q] = "registering" /\ fromNS'[q] # << >> =>
                             Head(fromNS'[q]).type = "RG"
                        /\ Refused(q)' => \A j \in SId : ~Trace(q, j)'
      BY DEF LifeInv
    <2>1. Bars(fromNS'[q], FromNSMessage, Replies)
      BY <1>1 DEF Inv, LifeInv
    <2>2. CASE q = p
      <3>1. stage[p] # "off"
        BY <1>2 DEF Alive
      <3>2. Refused(p)' => \A j \in SId : ~Trace(p, j)'
        BY <1>7, <1>10 DEF Inv, LifeInv
      <3> QED BY <1>1, <1>2, <1>7, <2>1, <2>2, <3>1, <3>2
    <2>3. CASE q # p
      BY <1>1, <1>5, <1>7, <1>10, <2>1, <2>3 DEF Inv, LifeInv
    <2> QED BY <2>2, <2>3
  <1>13. PostInv'
    <2> SUFFICES ASSUME NEW q \in Service
                 PROVE  /\ Bars(toNS'[q], ToNSMessage, Firsts)
                        /\ Bars(toNS'[q], Lasts, ToNSMessage)
                        /\ Posted(q, "closed")' => stage'[q] = "dead"
                        /\ toNS'[q] # << >> =>
                             (Alive(q)' /\ cnx'[q] = "open") \/ Posted(q, "closed")'
                        /\ Posted(q, "RG")' => /\ fromNS'[q] = << >>
                                               /\ \A j \in SId : ~Trace(q, j)'
                        /\ Posted(q, "RRG")' => ~Entered(q, sid[q])'
                        /\ Posted(q, "ACK_UNI")' => Knows(registry, q)' \/ Posted(q, "RRG")'
                        /\ /\ Alive(q)' /\ cnx'[q] = "open"
                           /\ sid'[q] # 0 \/ \E j \in SId : Granting(q, j)'
                           => Knows(registry, q)' \/ Posted(q, "RRG")'
                        /\ nsUp' \/ toNS'[q] = << >>
      BY DEF PostInv
    <2>1. ~Entered(q, sid[q]) => ~Entered(q, sid[q])'
      BY DEF Entered
    <2>2. CASE q = p
      <3>1. ~Posted(p, "closed") /\ ~Posted(p, "RG")
        BY <1>1, <1>2 DEF Inv, PostInv, Alive
      <3>2. Bars(toNS'[p], ToNSMessage, Firsts) /\ Bars(toNS'[p], Lasts, ToNSMessage)
        <4>1. Bars(toNS[p], ToNSMessage, Firsts) /\ Bars(toNS[p], Lasts, ToNSMessage)
          BY DEF Inv, PostInv
        <4>2. ack \notin Firsts
          BY DEF Firsts
        <4>3. Entries(toNS[p]) \intersect Lasts = {}
          BY <3>1 DEF Posted, Post, Lasts
        <4>4. toNS[p] \in Seq(ToNSMessage)
          BY <1>3
        <4>5. Bars(Append(toNS[p], ack), ToNSMessage, Firsts)
          BY <4>1, <4>2, <4>4, BarsAppend
        <4>6. Bars(Append(toNS[p], ack), Lasts, ToNSMessage)
          BY <4>1, <4>3, <4>4, BarsAppend
        <4> QED BY <1>6, <4>1, <4>5, <4>6
      <3>3. cnx[p] = "open" => Knows(registry, p) \/ Posted(p, "RRG")
        BY <1>2 DEF Inv, PostInv
      <3>4. toNS[p] # << >> => cnx[p] = "open"
        BY <3>1 DEF Inv, PostInv
      <3>5. toNS'[p] # << >> => cnx[p] = "open" /\ nsUp
        BY <1>6, <3>4 DEF Inv, PostInv
      <3>6. Posted(p, "ACK_UNI") => Knows(registry, p) \/ Posted(p, "RRG")
        BY DEF Inv, PostInv
      <3>7. Posted(p, "ACK_UNI")' => Posted(p, "ACK_UNI") \/ cnx[p] = "open"
        BY <1>6 DEF Posted
      <3>8. Posted(p, "RRG")' => ~Entered(p, sid[p])'
        BY <1>7, <2>1, <2>2 DEF Inv, PostInv
      <3> QED BY <1>2, <1>7, <2>2, <3>1, <3>2, <3>3, <3>5, <3>6, <3>7, <3>8
    <2>3. CASE q # p
      <3>1. Posted(q, "ACK_UNI")' => Posted(q, "ACK_UNI")
        BY <1>5, <2>3 DEF Posted
      <3> QED BY <1>1, <1>5, <1>7, <1>8, <1>10, <2>1, <2>3, <3>1 DEF Inv, PostInv
    <2> QED BY <2>2, <2>3
  <1>14. RegistryInv'
    <2>1. ASSUME NEW e \in Entries(registry)
          PROVE  /\ e.waiting => stage'[e.svc] = "dead" /\ toNS'[e.svc] = << >>
                 /\ ~e.waiting =>
                      (Alive(e.svc)' /\ cnx'[e.svc] = "open") \/ Posted(e.svc, "closed")'
                 /\ stage'[e.svc] = "registering" => fromNS'[e.svc] # << >>
      <3>1. e.svc \in Service
        BY RegistryEntries DEF Inv, Entry
      <3>2. /\ e.waiting => stage[e.svc] = "dead" /\ toNS[e.svc] = << >>
            /\ ~e.waiting => (Alive(e.svc) /\ cnx[e.svc] = "open") \/ Posted(e.svc, "closed")
            /\ stage[e.svc] = "registering" => fromNS[e.svc] # << >>
        BY DEF Inv, RegistryInv
      <3>3. CASE e.svc = p
        BY <1>2, <1>7, <3>2, <3>3 DEF Alive
      <3>4. CASE e.svc # p
        BY <1>1, <1>5, <1>7, <3>1, <3>2, <3>4
      <3> QED BY <3>3, <3>4
    <2> QED BY <2>1 DEF Inv, RegistryInv
  <1>15. StartInv'
    <2> SUFFICES ASSUME NEW r \in Service, Posted(r, "RG")'
                 PROVE  /\ \A q \in Service : Alive(q)' /\ (sid'[q] # 0 \/ fromNS'[q] # << >>) =>
                             Knows(registry, q)' \/ Refused(q)'
                        /\ \A q \in Service : ~Posted(q, "RRG")'
      BY DEF StartInv
    <2>1. /\ \A q \in Service : Alive(q) /\ (sid[q] # 0 \/ fromNS[q] # << >>) =>
               Knows(registry, q) \/ Refused(q)
          /\ \A q \in Service : ~Posted(q, "RRG")
      BY <1>7 DEF Inv, StartInv
    <2> QED BY <1>1, <1>7, <2>1
  <1>16. TraceInv' /\ OwnerInv' /\ NameInv'
    BY <1>10, <1>11, NothingNew
  <1>17. MentionInv'
    BY <1>8, <1>9, <1>11 DEF Inv, MentionInv
  <1>18. SpoilInv'
    BY <1>8 DEF Inv, SpoilInv
  <1> QED BY <1>5, <1>6, <1>9, <1>12, <1>13, <1>14, <1>15, <1>16, <1>17, <1>18

(* It learns of a service.                                                 *)
LEMMA RegisterBroadcastInv ==
  ASSUME Inv, NEW p \in Service, RegisterBroadcast(p)
  PROVE  Inv'
PROOF
  <1>1. /\ Updates(p) /\ Arrived(p, "RGB")
        /\ fromNS' = [fromNS EXCEPT ![p] = Tail(@)]
        /\ UNCHANGED << registry, unique, nsUp, toNS, cnx, stage, sid, up, link, spoiled >>
    BY DEF RegisterBroadcast, naming
  <1>2. PICK m \in FromNSMessage : m = Head(fromNS[p])
    BY <1>1, Read
  <1>3. /\ m.type = "RGB"
        /\ fromNS[p] # << >>
        /\ Mail(p) = {m} \union Mail(p)'
        /\ \A n \in Mail(p)' : n.type # "RG"
        /\ \A q \in Service : q # p => fromNS'[q] = fromNS[q] /\ Mail(q)' = Mail(q)
        /\ \A q \in Service : \A A, B : Bars(fromNS[q], A, B) => Bars(fromNS'[q], A, B)
    BY <1>1, <1>2, Read
  <1>4. PICK c \in Service, k \in SId : c = m.svc /\ k = m.sid
    BY <1>3, MessageFields
  <1> DEFINE list == known[p]
             Heard == \E i \in DOMAIN list : list[i].sid = k
             new == IF Heard
                      THEN [i \in DOMAIN list |->
                              IF list[i].sid = k THEN [list[i] EXCEPT !.svc = c] ELSE list[i]]
                      ELSE Append(list, [svc |-> c, sid |-> k])
  <1>5. /\ known' = [known EXCEPT ![p] = new]
        /\ \/ ids' = ids /\ Heard
           \/ /\ ids' = [ids EXCEPT ![p][k] = IF k = sid[p] THEN @ ELSE Inserted(@, c)]
              /\ ~Heard
    BY <1>2, <1>4 DEF RegisterBroadcast, Add
  <1>6. /\ known \in [Service -> Seq([svc : Service, sid : SId])]
        /\ ids \in [Service -> [SId -> IdEntry]]
        /\ up \in [Service -> SUBSET (Service \X SId)]
        /\ list \in Seq([svc : Service, sid : SId])
    BY Vars DEF Inv
  <1>7. /\ Distinct(list) /\ Entries(list) \subseteq [svc : Service, sid : SId]
        /\ \A i \in DOMAIN list : list[i] \in [svc : Service, sid : SId]
    BY <1>6, EntriesType DEF Inv, TableInv
  <1>8. /\ Distinct(new)
        /\ \A e \in Entries(new) : \/ e.svc = c /\ e.sid = k
                                   \/ e \in Entries(list) /\ e.sid # k
        /\ \A e \in Entries(list) : e.sid # k => e \in Entries(new)
        /\ \E e \in Entries(new) : e.svc = c /\ e.sid = k
    <2>1. CASE Heard
      <3> DEFINE old == known[p]
                 t == [i \in DOMAIN old |->
                         IF old[i].sid = k THEN [old[i] EXCEPT !.svc = c] ELSE old[i]]
      <3>1. new = t
        BY <2>1
      <3>2. DOMAIN t = DOMAIN old
        OBVIOUS
      <3>3. \A i \in DOMAIN old : /\ t[i].sid = old[i].sid
                                  /\ old[i].sid = k => t[i].svc = c
                                  /\ old[i].sid # k => t[i] = old[i]
        BY <1>7
      <3>4. PICK h \in DOMAIN old : old[h].sid = k
        BY <2>1
      <3> HIDE DEF t, new, list
      <3>5. Distinct(t)
        BY <1>7, <3>2, <3>3, DistinctRenamed DEF list
      <3>6. \A e \in Entries(t) : \/ e.svc = c /\ e.sid = k
                                  \/ e \in Entries(old) /\ e.sid # k
        BY <3>2, <3>3 DEF Entries
      <3>7. \A e \in Entries(old) : e.sid # k => e \in Entries(t)
        BY <3>2, <3>3 DEF Entries
      <3>8. t[h] \in Entries(t) /\ t[h].svc = c /\ t[h].sid = k
        BY <3>2, <3>3, <3>4 DEF Entries
      <3> QED BY <3>1, <3>5, <3>6, <3>7, <3>8 DEF list
    <2>2. CASE ~Heard
      <3> DEFINE x == [svc |-> c, sid |-> k]
      <3>1. new = Append(list, x)
        BY <2>2
      <3>2. x \in [svc : Service, sid : SId] /\ x.svc = c /\ x.sid = k
        OBVIOUS
      <3>3. \A e \in Entries(list) : e.sid # k
        BY <2>2 DEF Entries
      <3> HIDE DEF x, new, list
      <3>4. Entries(Append(list, x)) = Entries(list) \union {x}
        <4> DEFINE Listing == [svc : Service, sid : SId]
        <4>1. list \in Seq(Listing) /\ x \in Listing
          BY <1>6, <3>2
        <4> HIDE DEF Listing
        <4> QED BY <4>1, AppendEntries
      <3>5. Distinct(Append(list, x))
        BY <1>6, <1>7, <3>2, <3>3, DistinctAppend
      <3> QED BY <3>1, <3>2, <3>3, <3>4, <3>5
    <2> QED BY <2>1, <2>2
  <1>9. known'[p] = new /\ \A q \in Service : q # p => known'[q] = known[q]
    BY <1>5, <1>6
  <1>10. /\ Distinct(known'[p])
         /\ \A e \in Entries(known'[p]) : \/ e.svc = c /\ e.sid = k
                                          \/ e \in Entries(known[p]) /\ e.sid # k
         /\ \A e \in Entries(known[p]) : e.sid # k => e \in Entries(known'[p])
         /\ \E e \in Entries(known'[p]) : e.svc = c /\ e.sid = k
    <2> HIDE DEF new
    <2> QED BY <1>8, <1>9
  <1>11. /\ \A q \in Service : q # p => ids'[q] = ids[q]
         /\ \A j \in SId : j # k => ids'[p][j] = ids[p][j]
         /\ ids'[p][k] = IF Heard \/ k = sid[p] THEN ids[p][k] ELSE Inserted(ids[p][k], c)
    <2> HIDE DEF new, Heard
    <2> QED BY <1>5, <1>6
  <1>12. Heard => \E e \in Entries(known[p]) : e.sid = k
    BY DEF Entries
  <1> HIDE DEF new, list, Heard
  <1>13. /\ ids'[p][k].conn = ids[p][k].conn /\ ids'[p][k].peer = ids[p][k].peer
         /\ Ready(ids[p][k]) => ids'[p][k] = ids[p][k]
         /\ ~Ready(ids[p][k]) /\ Ready(ids'[p][k]) => ids'[p][k].name = NameOf[c]
         /\ k # sid[p] => Ready(ids'[p][k])
    <2>1. CASE Ready(ids[p][k])
      BY <1>11, <2>1 DEF Inserted
    <2>2. CASE ~Ready(ids[p][k])
      <3>1. ids[p][k].conn = "empty" /\ ids[p][k].peer = None
        BY <2>2 DEF Inv, TableInv
      <3>2. CASE Heard \/ k = sid[p]
        BY <1>11, <1>12, <2>2, <3>2 DEF Inv, TableInv
      <3>3. CASE ~(Heard \/ k = sid[p])
        <4>1. ids'[p][k] = [NotUsed EXCEPT !.name = NameOf[c]]
          BY <1>11, <2>2, <3>3 DEF Inserted
        <4>2. NameOf[c] # "DEAD"
          BY ShardAssumption DEF ShardAssumption
        <4>3. /\ ids'[p][k].conn = "empty" /\ ids'[p][k].peer = None
              /\ ids'[p][k].name = NameOf[c]
          BY <4>1 DEF NotUsed
        <4> QED BY <2>2, <3>1, <4>2, <4>3 DEF Ready
      <3> QED BY <3>2, <3>3
    <2> QED BY <2>1, <2>2
  <1>14. \A q \in Service, j \in SId : Listed(p, q, j)' => Listed(p, q, j) \/ (q = c /\ j = k)
    BY <1>10 DEF Listed
  <1>15. Told(p, c, k)
    BY <1>3, <1>4 DEF Told, Tells
  <1>16. \A q \in Service, j \in SId : Mentions(p, q, j)' => Mentions(p, q, j)
    <2> SUFFICES ASSUME NEW q \in Service, NEW j \in SId, Mentions(p, q, j)'
                 PROVE  Mentions(p, q, j)
      OBVIOUS
    <2>1. ids'[p][j].peer = ids[p][j].peer
      BY <1>11, <1>13
    <2>2. Told(p, q, j)' => Told(p, q, j)
      BY <1>3 DEF Told
    <2> QED BY <1>1, <1>14, <1>15, <2>1, <2>2 DEF Mentions, Noted
  <1>17. TypeInv'
    BY RegisterBroadcastType DEF Inv
  <1>18. PICK ack \in ToNSMessage : ack.type = "ACK_UNI"
    <2>1. [type |-> "ACK_UNI", sid |-> k] \in ToNSMessage
      BY DEF ToNSMessage
    <2> QED BY <2>1
  <1>19. /\ LifeInv' /\ PostInv' /\ RegistryInv' /\ StartInv' /\ TraceInv' /\ OwnerInv'
         /\ NameInv' /\ MentionInv' /\ SpoilInv'
         /\ \A r, q \in Service, j \in SId : Mentions(r, q, j)' => Mentions(r, q, j)
    <2>1. \A q \in Service :
            q # p => known'[q] = known[q] /\ ids'[q] = ids[q] /\ up'[q] = up[q]
      BY <1>1, <1>9, <1>11
    <2>2. spoiled \subseteq spoiled' /\ toNS' = toNS
      BY <1>1
    <2>3. UNCHANGED << registry, unique, nsUp, cnx, stage, sid >>
      BY <1>1
    <2>4. "RGB" \in {"RGB", "UNB"}
      OBVIOUS
    <2> QED BY <1>1, <1>16, <1>18, <2>1, <2>2, <2>3, <2>4, NewsKeep
  <1>20. LinkInv'
    BY <1>1 DEF Inv, LinkInv, Alive
  <1>21. AckInv'
    <2> SUFFICES ASSUME NEW q \in Service, NEW j \in SId, Clean(q, j)'
                 PROVE  /\ Bars(fromNS'[q], Drops(j), Drops(j) \union Tales(j))
                        /\ Bars(toNS'[q], Acks(j), Acks(j))
                        /\ Dropped(q, j)' \/ Acked(q, j)' => Awaited(q, j)'
                        /\ Acked(q, j)' => /\ ~Dropped(q, j)'
                                           /\ \A r \in Service : ~Mentions(q, r, j)'
      BY DEF AckInv
    <2>1. Clean(q, j)
      BY <1>1 DEF Clean
    <2>2. /\ Bars(fromNS[q], Drops(j), Drops(j) \union Tales(j))
          /\ Bars(toNS[q], Acks(j), Acks(j))
          /\ Dropped(q, j) \/ Acked(q, j) => Awaited(q, j)
          /\ Acked(q, j) => ~Dropped(q, j) /\ \A r \in Service : ~Mentions(q, r, j)
      BY <2>1 DEF Inv, AckInv
    <2>3. Dropped(q, j)' => Dropped(q, j)
      BY <1>3 DEF Dropped
    <2>4. (Acked(q, j)' <=> Acked(q, j)) /\ (Awaited(q, j)' <=> Awaited(q, j))
      BY <1>1 DEF Acked, Post, Awaited
    <2>5. Bars(fromNS'[q], Drops(j), Drops(j) \union Tales(j))
      BY <1>3, <2>2
    <2> QED BY <1>1, <1>19, <2>2, <2>3, <2>4, <2>5
  <1>22. TableInv'
    <2> SUFFICES ASSUME NEW q \in Service
                 PROVE  /\ Distinct(known'[q])
                        /\ \A n \in Mail(q)' : n.type = "RG" /\ n.ok => Distinct(n.list)
                        /\ \A e \in Entries(known'[q]) : e.sid # sid'[q] => Ready(ids'[q][e.sid])
                        /\ \A j \in SId :
                             /\ ids'[q][j].conn # "empty" => Ready(ids'[q][j])
                             /\ ids'[q][j].peer # None => ids'[q][j].conn # "empty"
                             /\ Clean(q, j)' /\ Ready(ids'[q][j]) =>
                                  \E r \in Service : /\ NameOf[r] = ids'[q][j].name
                                                     /\ Noted(q, r, j)'
      BY DEF TableInv
    <2>1. \A j \in SId : Clean(q, j)' <=> Clean(q, j)
      BY <1>1 DEF Clean
    <2>2. CASE q = p
      <3>1. \A e \in Entries(known'[p]) : e.sid # sid[p] => Ready(ids'[p][e.sid])
        <4> SUFFICES ASSUME NEW e \in Entries(known'[p]), e.sid # sid[p]
                     PROVE  Ready(ids'[p][e.sid])
          OBVIOUS
        <4>1. CASE e.sid = k
          BY <1>13, <4>1
        <4>2. CASE e.sid # k
          <5>1. e \in Entries(known[p])
            BY <1>10, <4>2
          <5>2. e.sid \in SId
            BY <1>7, <5>1 DEF list
          <5>3. Ready(ids[p][e.sid])
            BY <5>1 DEF Inv, TableInv
          <5> QED BY <1>11, <4>2, <5>2, <5>3
        <4> QED BY <4>1, <4>2
      <3>2. ASSUME NEW j \in SId
            PROVE  /\ ids'[p][j].conn # "empty" => Ready(ids'[p][j])
                   /\ ids'[p][j].peer # None => ids'[p][j].conn # "empty"
        <4>1. /\ ids[p][j].conn # "empty" => Ready(ids[p][j])
              /\ ids[p][j].peer # None => ids[p][j].conn # "empty"
          BY DEF Inv, TableInv
        <4> QED BY <1>11, <1>13, <4>1
      <3>3. ASSUME NEW j \in SId, Clean(p, j), Ready(ids'[p][j])
            PROVE  \E r \in Service : NameOf[r] = ids'[p][j].name /\ Noted(p, r, j)'
        <4>1. Ready(ids[p][j]) =>
                \E r \in Service : NameOf[r] = ids[p][j].name /\ Noted(p, r, j)
          BY <3>3 DEF Inv, TableInv
        <4>2. CASE j # k
          <5>1. \A r \in Service : Noted(p, r, j) => Noted(p, r, j)'
            BY <1>1, <1>10, <4>2 DEF Noted, Listed
          <5> QED BY <1>11, <3>3, <4>1, <4>2, <5>1
        <4>3. CASE j = k
          <5>1. Noted(p, c, k)'
            BY <1>10 DEF Noted, Listed
          <5>2. Owner(c, k)
            BY <1>15, <3>3, <4>3 DEF Inv, MentionInv, Mentions
          <5>3. ASSUME NEW r \in Service, Noted(p, r, k) PROVE r = c
            <6>1. Owner(r, k)
              BY <3>3, <4>3, <5>3 DEF Inv, MentionInv, Mentions
            <6> QED BY <5>2, <6>1 DEF Inv, OwnerInv
          <5>4. ids'[p][k].name = NameOf[c]
            BY <1>13, <3>3, <4>1, <4>3, <5>3
          <5> QED BY <4>3, <5>1, <5>4
        <4> QED BY <4>2, <4>3
      <3>4. \A n \in Mail(p)' : ~(n.type = "RG" /\ n.ok)
        BY <1>3
      <3>5. sid'[p] = sid[p] /\ Distinct(known'[p])
        BY <1>1, <1>10
      <3> QED BY <2>1, <2>2, <3>1, <3>2, <3>3, <3>4, <3>5
    <2>3. CASE q # p
      <3>1. \A r \in Service, j \in SId : Noted(q, r, j)' <=> Noted(q, r, j)
        BY <1>1, <1>9, <2>3 DEF Noted, Listed
      <3> QED BY <1>1, <1>3, <1>9, <1>11, <2>1, <2>3, <3>1 DEF Inv, TableInv
    <2> QED BY <2>2, <2>3
  <1> QED BY <1>17, <1>19, <1>20, <1>21, <1>22 DEF Inv

(* What the list of the services loses when one leaves.                    *)
LEMMA WithoutEntries ==
  ASSUME NEW S, NEW list \in Seq(S), Distinct(list), NEW k
  PROVE  /\ Distinct(Without(list, k))
         /\ Entries(Without(list, k)) = {e \in Entries(list) : e.sid # k}
PROOF
  <1> DEFINE found == {i \in DOMAIN list : list[i].sid = k}
             rest == DOMAIN list \ {Min(found)}
  <1>1. CASE found = {}
    <2>1. Without(list, k) = list
      BY <1>1 DEF Without
    <2>2. \A e \in Entries(list) : e.sid # k
      BY <1>1 DEF Entries
    <2> QED BY <2>1, <2>2
  <1>2. CASE found # {}
    <2>1. found \in SUBSET Nat
      <3>1. DOMAIN list = 1 .. Len(list) /\ Len(list) \in Nat
        BY LenProperties
      <3> QED BY <3>1
    <2>2. Min(found) \in found
      BY <1>2, <2>1, MinProperties
    <2>3. \A i \in DOMAIN list : list[i].sid = k <=> i = Min(found)
      BY <2>2 DEF Distinct
    <2>4. Without(list, k) = Kept(list, rest)
      BY <1>2 DEF Without
    <2>5. rest \in SUBSET DOMAIN list
      OBVIOUS
    <2>6. \A i \in DOMAIN list : i \in rest <=> list[i].sid # k
      BY <2>3
    <2> HIDE DEF rest, found
    <2>7. Entries(Kept(list, rest)) = {list[i] : i \in rest}
      BY <2>5, KeptSequence
    <2>8. {list[i] : i \in rest} = {e \in Entries(list) : e.sid # k}
      BY <2>5, <2>6 DEF Entries
    <2>9. Distinct(Kept(list, rest))
      BY <2>5, DistinctKept
    <2> QED BY <2>4, <2>7, <2>8, <2>9
  <1> QED BY <1>1, <1>2

(* It learns that a service left, and says so.                             *)
LEMMA UnregisterBroadcastInv ==
  ASSUME Inv, NEW p \in Service, UnregisterBroadcast(p)
  PROVE  Inv'
PROOF
  <1>1. /\ Updates(p) /\ Arrived(p, "UNB")
        /\ fromNS' = [fromNS EXCEPT ![p] = Tail(@)]
        /\ UNCHANGED << registry, unique, nsUp, cnx, stage, sid >>
    BY DEF UnregisterBroadcast, naming
  <1>2. PICK m \in FromNSMessage : m = Head(fromNS[p])
    BY <1>1, Read
  <1>3. /\ m.type = "UNB"
        /\ fromNS[p] # << >>
        /\ Mail(p) = {m} \union Mail(p)'
        /\ \A n \in Mail(p)' : n.type # "RG"
        /\ \A q \in Service : q # p => fromNS'[q] = fromNS[q] /\ Mail(q)' = Mail(q)
        /\ \A q \in Service : \A A, B : Bars(fromNS[q], A, B) => Bars(fromNS'[q], A, B)
        /\ \A A, B : m \in A /\ Bars(fromNS[p], A, B) => Mail(p)' \intersect B = {}
    BY <1>1, <1>2, Read
  <1>4. PICK k \in SId : k = m.sid
    BY <1>3, MessageFields
  <1>5. /\ known \in [Service -> Seq([svc : Service, sid : SId])]
        /\ ids \in [Service -> [SId -> IdEntry]]
        /\ up \in [Service -> SUBSET (Service \X SId)]
        /\ link \in [Service -> [Service -> State]]
        /\ toNS \in [Service -> Seq(ToNSMessage)]
    BY Vars DEF Inv
  <1>6. PICK ack \in ToNSMessage : ack = [type |-> "ACK_UNI", sid |-> k]
    <2>1. [type |-> "ACK_UNI", sid |-> k] \in ToNSMessage
      BY DEF ToNSMessage
    <2> QED BY <2>1
  <1>7. /\ known' = [known EXCEPT ![p] = Without(@, k)]
        /\ toNS' = Send(p, ack)
        /\ up' = [up EXCEPT ![p] = {x \in @ : x[2] # k}]
        /\ ids' = [ids EXCEPT ![p][k] = NotUsed]
    BY <1>2, <1>4, <1>6 DEF UnregisterBroadcast
  <1>8. spoiled \subseteq spoiled'
    BY DEF UnregisterBroadcast, Spoil
  <1>9. /\ known'[p] = Without(known[p], k)
        /\ \A x : x \in up'[p] <=> x \in up[p] /\ x[2] # k
        /\ ids'[p][k] = NotUsed
        /\ \A j \in SId : j # k => ids'[p][j] = ids[p][j]
        /\ \A q \in Service : q # p => known'[q] = known[q] /\ ids'[q] = ids[q] /\ up'[q] = up[q]
    BY <1>5, <1>7
  <1>10. /\ Distinct(known'[p])
         /\ Entries(known'[p]) = {e \in Entries(known[p]) : e.sid # k}
    <2>1. known[p] \in Seq([svc : Service, sid : SId]) /\ Distinct(known[p])
      BY <1>5 DEF Inv, TableInv
    <2>2. /\ Distinct(Without(known[p], k))
          /\ Entries(Without(known[p], k)) = {e \in Entries(known[p]) : e.sid # k}
      BY <2>1, WithoutEntries
    <2> QED BY <1>9, <2>2
  <1>11. \A q \in Service, j \in SId : Noted(p, q, j)' <=> Noted(p, q, j) /\ j # k
    <2>1. \A q \in Service, j \in SId : Listed(p, q, j)' <=> Listed(p, q, j) /\ j # k
      BY <1>10 DEF Listed
    <2>2. \A q \in Service, j \in SId : << q, j >> \in up'[p] <=> << q, j >> \in up[p] /\ j # k
      BY <1>9
    <2> QED BY <2>1, <2>2 DEF Noted
  <1>12. \A q \in Service, j \in SId :
           /\ Mentions(p, q, j)' => Mentions(p, q, j)
           /\ Mentions(p, q, k)' => Told(p, q, k)'
    <2> SUFFICES ASSUME NEW q \in Service, NEW j \in SId
                 PROVE  /\ Mentions(p, q, j)' => Mentions(p, q, j)
                        /\ Mentions(p, q, k)' => Told(p, q, k)'
      OBVIOUS
    <2>1. q # None
      BY ShardAssumption DEF ShardAssumption
    <2>2. ids'[p][k].peer # q
      BY <1>9, <2>1 DEF NotUsed
    <2>3. Told(p, q, j)' => Told(p, q, j)
      BY <1>3 DEF Told
    <2>4. ids'[p][j].peer = q => ids[p][j].peer = q
      BY <1>9, <2>2
    <2> QED BY <1>11, <2>2, <2>3, <2>4 DEF Mentions
  <1>13. TypeInv'
    BY UnregisterBroadcastType DEF Inv
  <1>14. /\ LifeInv' /\ PostInv' /\ RegistryInv' /\ StartInv' /\ TraceInv' /\ OwnerInv'
         /\ NameInv' /\ MentionInv' /\ SpoilInv'
         /\ \A r, q \in Service, j \in SId : Mentions(r, q, j)' => Mentions(r, q, j)
         /\ \A q \in Service : q # p => toNS'[q] = toNS[q] /\ Post(q)' = Post(q)
         /\ \/ toNS'[p] = toNS[p] /\ Post(p)' = Post(p)
            \/ toNS'[p] = Append(toNS[p], ack) /\ Post(p)' = Post(p) \union {ack}
    <2>1. ack.type = "ACK_UNI"
      BY <1>6
    <2>2. "UNB" \in {"RGB", "UNB"}
      OBVIOUS
    <2> QED BY ZenonT(60), <1>1, <1>7, <1>8, <1>9, <1>12, <2>1, <2>2, NewsKeep
  <1>15. LinkInv'
    <2> SUFFICES ASSUME NEW c \in Service, NEW q \in Service, link'[c][q] = "ident"
                 PROVE  Alive(c)'
      BY DEF LinkInv
    <2> DEFINE e == ids[p][k]
               closed(r) == IF Alive(r) THEN "broken" ELSE "closed"
    <2>1. link' = CASE e.conn = "client" -> [link EXCEPT ![p][e.peer] = closed(e.peer)]
                    [] e.conn = "server" -> [link EXCEPT ![e.peer][p] = closed(e.peer)]
                    [] OTHER -> link
      BY <1>2, <1>4 DEF UnregisterBroadcast
    <2>2. PICK lost \in {"broken", "closed"} : lost = closed(e.peer)
      OBVIOUS
    <2>3. \/ link' = [link EXCEPT ![p][e.peer] = lost]
          \/ link' = [link EXCEPT ![e.peer][p] = lost]
          \/ link' = link
      BY <2>1, <2>2
    <2>4. PICK peer : peer = e.peer
      OBVIOUS
    <2>5. \/ link' = [link EXCEPT ![p][peer] = lost]
          \/ link' = [link EXCEPT ![peer][p] = lost]
          \/ link' = link
      BY <2>3, <2>4
    <2> HIDE DEF e, closed
    <2>6. /\ link[p] \in [Service -> State] /\ link[c] \in [Service -> State]
          /\ peer \in Service => link[peer] \in [Service -> State]
      BY <1>5
    <2>7. link'[c][q] \in {link[c][q], lost}
      <3>1. CASE link' = [link EXCEPT ![p][peer] = lost]
        BY <1>5, <2>6, <3>1
      <3>2. CASE link' = [link EXCEPT ![peer][p] = lost]
        BY <1>5, <2>6, <3>2
      <3> QED BY <2>5, <3>1, <3>2
    <2>8. link[c][q] = "ident"
      BY <2>2, <2>7
    <2> QED BY <1>1, <2>8 DEF Inv, LinkInv, Alive
  <1>16. AckInv'
    <2> SUFFICES ASSUME NEW q \in Service, NEW j \in SId, Clean(q, j)'
                 PROVE  /\ Bars(fromNS'[q], Drops(j), Drops(j) \union Tales(j))
                        /\ Bars(toNS'[q], Acks(j), Acks(j))
                        /\ Dropped(q, j)' \/ Acked(q, j)' => Awaited(q, j)'
                        /\ Acked(q, j)' => /\ ~Dropped(q, j)'
                                           /\ \A r \in Service : ~Mentions(q, r, j)'
      BY DEF AckInv
    <2>1. Clean(q, j)
      BY <1>8 DEF Clean
    <2>2. /\ Bars(fromNS[q], Drops(j), Drops(j) \union Tales(j))
          /\ Bars(toNS[q], Acks(j), Acks(j))
          /\ Dropped(q, j) \/ Acked(q, j) => Awaited(q, j)
          /\ Acked(q, j) => ~Dropped(q, j) /\ \A r \in Service : ~Mentions(q, r, j)
      BY <2>1 DEF Inv, AckInv
    <2>3. Dropped(q, j)' => Dropped(q, j)
      BY <1>3 DEF Dropped
    <2>4. Awaited(q, j)' <=> Awaited(q, j)
      BY <1>1 DEF Awaited
    <2>5. Bars(fromNS'[q], Drops(j), Drops(j) \union Tales(j))
      BY <1>3, <2>2
    <2>6. CASE q = p /\ j = k
      <3>1. m \in Drops(k) /\ m \in Mail(p)
        BY <1>3, <1>4 DEF Drops
      <3>2. Dropped(p, k)
        BY <3>1 DEF Dropped
      <3>3. Mail(p)' \intersect (Drops(k) \union Tales(k)) = {}
        BY <1>3, <2>2, <2>6, <3>1
      <3>4. ~Dropped(p, k)'
        BY <3>3 DEF Dropped
      <3>5. \A r \in Service : ~Mentions(p, r, k)'
        <4>1. Mail(p)' \subseteq FromNSMessage
          BY <1>3, Messages DEF Inv
        <4>2. \A r \in Service : ~Told(p, r, k)'
          BY <3>3, <4>1 DEF Told, Tales
        <4> QED BY <1>12, <4>2
      <3>6. Entries(toNS[p]) \intersect Acks(k) = {}
        BY <2>2, <2>6, <3>2 DEF Acked, Post
      <3>7. Bars(Append(toNS[p], ack), Acks(k), Acks(k))
        <4>1. toNS[p] \in Seq(ToNSMessage) /\ Bars(toNS[p], Acks(k), Acks(k))
          BY <1>5, <2>2, <2>6
        <4> QED BY <3>6, <4>1, BarsAppend
      <3>8. Bars(toNS'[p], Acks(k), Acks(k))
        BY <1>14, <2>2, <2>6, <3>7
      <3> QED BY <2>2, <2>4, <2>5, <2>6, <3>2, <3>4, <3>5, <3>8
    <2>7. CASE ~(q = p /\ j = k)
      <3>1. q = p => ack \notin Acks(j)
        BY <1>6, <2>7 DEF Acks
      <3>2. Acked(q, j)' => Acked(q, j)
        BY <1>14, <3>1 DEF Acked
      <3>3. Bars(toNS'[q], Acks(j), Acks(j))
        <4>1. CASE q = p
          <5>1. toNS[p] \in Seq(ToNSMessage) /\ Bars(toNS[p], Acks(j), Acks(j))
            BY <1>5, <2>2, <4>1
          <5>2. Bars(Append(toNS[p], ack), Acks(j), Acks(j))
            BY <3>1, <4>1, <5>1, BarsAppend
          <5> QED BY <1>14, <4>1, <5>1, <5>2
        <4>2. CASE q # p
          BY <1>14, <2>2, <4>2
        <4> QED BY <4>1, <4>2
      <3> QED BY <1>14, <2>2, <2>3, <2>4, <2>5, <3>2, <3>3
    <2> QED BY <2>6, <2>7
  <1>17. TableInv'
    <2> SUFFICES ASSUME NEW q \in Service
                 PROVE  /\ Distinct(known'[q])
                        /\ \A n \in Mail(q)' : n.type = "RG" /\ n.ok => Distinct(n.list)
                        /\ \A e \in Entries(known'[q]) : e.sid # sid'[q] => Ready(ids'[q][e.sid])
                        /\ \A j \in SId :
                             /\ ids'[q][j].conn # "empty" => Ready(ids'[q][j])
                             /\ ids'[q][j].peer # None => ids'[q][j].conn # "empty"
                             /\ Clean(q, j)' /\ Ready(ids'[q][j]) =>
                                  \E r \in Service : /\ NameOf[r] = ids'[q][j].name
                                                     /\ Noted(q, r, j)'
      BY DEF TableInv
    <2>1. \A j \in SId : Clean(q, j)' => Clean(q, j)
      BY <1>8 DEF Clean
    <2>2. CASE q = p
      <3>1. \A e \in Entries(known'[p]) : e.sid # sid[p] => Ready(ids'[p][e.sid])
        <4> SUFFICES ASSUME NEW e \in Entries(known'[p]), e.sid # sid[p]
                     PROVE  Ready(ids'[p][e.sid])
          OBVIOUS
        <4>1. e \in Entries(known[p]) /\ e.sid # k
          BY <1>10
        <4>2. e.sid \in SId
          <5>1. known[p] \in Seq([svc : Service, sid : SId])
            BY <1>5
          <5>2. Entries(known[p]) \subseteq [svc : Service, sid : SId]
            BY <5>1, EntriesType
          <5> QED BY <4>1, <5>2
        <4>3. Ready(ids[p][e.sid])
          BY <4>1 DEF Inv, TableInv
        <4> QED BY <1>9, <4>1, <4>2, <4>3
      <3>2. ASSUME NEW j \in SId
            PROVE  /\ ids'[p][j].conn # "empty" => Ready(ids'[p][j])
                   /\ ids'[p][j].peer # None => ids'[p][j].conn # "empty"
                   /\ Clean(p, j)' /\ Ready(ids'[p][j]) =>
                        \E r \in Service : NameOf[r] = ids'[p][j].name /\ Noted(p, r, j)'
        <4>1. CASE j = k
          BY <1>9, <4>1 DEF NotUsed, Ready
        <4>2. CASE j # k
          <5>1. /\ ids[p][j].conn # "empty" => Ready(ids[p][j])
                /\ ids[p][j].peer # None => ids[p][j].conn # "empty"
                /\ Clean(p, j) /\ Ready(ids[p][j]) =>
                     \E r \in Service : NameOf[r] = ids[p][j].name /\ Noted(p, r, j)
            BY DEF Inv, TableInv
          <5>2. ids'[p][j] = ids[p][j] /\ \A r \in Service : Noted(p, r, j)' <=> Noted(p, r, j)
            BY <1>9, <1>11, <4>2
          <5> QED BY <2>1, <2>2, <5>1, <5>2
        <4> QED BY <4>1, <4>2
      <3>3. \A n \in Mail(p)' : ~(n.type = "RG" /\ n.ok)
        BY <1>3
      <3>4. sid'[p] = sid[p] /\ Distinct(known'[p])
        BY <1>1, <1>10
      <3> QED BY <2>2, <3>1, <3>2, <3>3, <3>4
    <2>3. CASE q # p
      <3>1. \A r \in Service, j \in SId : Noted(q, r, j)' <=> Noted(q, r, j)
        BY <1>9, <2>3 DEF Noted, Listed
      <3> QED BY <1>1, <1>3, <1>9, <2>1, <2>3, <3>1 DEF Inv, TableInv
    <2> QED BY <2>2, <2>3
  <1> QED BY <1>13, <1>14, <1>15, <1>16, <1>17 DEF Inv

-----------------------------------------------------------------------------
(* A service that lost the naming service is back.                         *)
LEMMA ReconnectInv ==
  ASSUME Inv, NEW p \in Service, Reconnect(p)
  PROVE  Inv'
PROOF
  <1> DEFINE rrg == [type |-> "RRG"]
  <1>1. /\ stage[p] = "running" /\ cnx[p] = "none" /\ nsUp
        /\ cnx' = [cnx EXCEPT ![p] = "open"]
        /\ toNS' = [toNS EXCEPT ![p] = << rrg >>]
        /\ UNCHANGED << registry, unique, nsUp, fromNS, stage, sid, known, ids, up, link,
                        spoiled >>
    BY DEF Reconnect, naming, tables
  <1>2. rrg.type = "RRG" /\ Entries(<< rrg >>) = {rrg} /\ << rrg >> # << >>
    BY EntriesSingle
  <1> HIDE DEF rrg
  <1>3. /\ toNS \in [Service -> Seq(ToNSMessage)]
        /\ cnx \in [Service -> {"none", "open", "cut"}]
    BY Vars DEF Inv
  <1>4. /\ cnx'[p] = "open" /\ toNS'[p] = << rrg >>
        /\ \A q \in Service : q # p => cnx'[q] = cnx[q] /\ toNS'[q] = toNS[q]
    BY <1>1, <1>3
  <1>5. Alive(p) /\ sid[p] # 0
    BY <1>1 DEF Alive, Inv, TypeInv, Identified
  <1>6. ~Posted(p, "closed") /\ toNS[p] = << >>
    BY <1>1 DEF Inv, PostInv
  <1>7. \A e \in Entries(registry) : e.svc # p
    BY <1>1, <1>6 DEF Inv, RegistryInv
  <1>8. \A q \in Service : ~Posted(q, "RG")
    <2>1. ~Knows(registry, p)
      BY <1>7 DEF Knows, Available
    <2>2. ~Refused(p)
      BY <1>1 DEF Inv, LifeInv, Refused
    <2> QED BY <1>5, <2>1, <2>2 DEF Inv, StartInv
  <1>9. /\ Post(p) = {} /\ Post(p)' = {rrg}
        /\ \A q \in Service : q # p => Post(q)' = Post(q)
    <2>1. Entries(<< >>) = {}
      BY EntriesEmpty DEF Entries
    <2> QED BY <1>2, <1>4, <1>6, <2>1 DEF Post
  <1>10. /\ \A q \in Service : q # p => \A type : Posted(q, type)' <=> Posted(q, type)
         /\ \A type : ~Posted(p, type) /\ (Posted(p, type)' <=> type = "RRG")
    BY <1>2, <1>9 DEF Posted
  <1>11. \A q \in Service : /\ Mail(q)' = Mail(q)
                            /\ Alive(q)' <=> Alive(q)
                            /\ Refused(q)' <=> Refused(q)
                            /\ Blank(q)' <=> Blank(q)
                            /\ Knows(registry, q)' <=> Knows(registry, q)
    BY <1>1 DEF Mail, Refused, Blank, Alive
  <1>12. \A q \in Service, k \in SId : /\ Granting(q, k)' <=> Granting(q, k)
                                       /\ Entered(q, k)' <=> Entered(q, k)
                                       /\ Awaited(q, k)' <=> Awaited(q, k)
                                       /\ Dropped(q, k)' <=> Dropped(q, k)
                                       /\ Clean(q, k)' <=> Clean(q, k)
    BY <1>1 DEF Granting, Entered, Awaited, Dropped, Clean, Mail
  <1>13. \A q, r \in Service, k \in SId : Mentions(r, q, k)' <=> Mentions(r, q, k)
    BY <1>1 DEF Mentions, Noted, Listed, Told, Mail
  <1>14. \A q \in Service, k \in SId : Trace(q, k)' <=> Trace(q, k)
    BY <1>1, <1>12, <1>13 DEF Trace
  <1>15. \A q \in Service, k \in SId : Owner(q, k)' <=> Owner(q, k)
    <2>1. \A q \in Service, k \in SId : q # p => (Owner(q, k)' <=> Owner(q, k))
      BY <1>1, <1>10, <1>11, <1>12 DEF Owner
    <2>2. \A k \in SId : Owner(p, k)' <=> Owner(p, k)
      BY <1>1, <1>5, <1>11, <1>12 DEF Owner
    <2> QED BY <2>1, <2>2
  <1>16. LifeInv'
    <2> SUFFICES ASSUME NEW q \in Service
                 PROVE  /\ ~Alive(q)' => /\ fromNS'[q] = << >> /\ cnx'[q] = "none"
                                         /\ Blank(q)'
                        /\ stage'[q] = "off" => /\ toNS'[q] = << >> /\ sid'[q] = 0
                                                /\ \A j \in SId : ~Trace(q, j)'
                        /\ stage'[q] = "registering" => sid'[q] = 0 /\ Blank(q)'
                        /\ Bars(fromNS'[q], FromNSMessage, Replies)
                        /\ (\E m \in Mail(q)' : m.type = "RG") => stage'[q] = "registering"
                        /\ stage'[q] = "registering" /\ fromNS'[q] # << >> =>
                             Head(fromNS'[q]).type = "RG"
                        /\ Refused(q)' => \A j \in SId : ~Trace(q, j)'
      BY DEF LifeInv
    <2>1. CASE q = p
      BY <1>1, <1>5, <1>11, <1>14, <2>1 DEF Inv, LifeInv
    <2>2. CASE q # p
      BY <1>1, <1>4, <1>11, <1>14, <2>2 DEF Inv, LifeInv
    <2> QED BY <2>1, <2>2
  <1>17. PostInv'
    <2> SUFFICES ASSUME NEW q \in Service
                 PROVE  /\ Bars(toNS'[q], ToNSMessage, Firsts)
                        /\ Bars(toNS'[q], Lasts, ToNSMessage)
                        /\ Posted(q, "closed")' => stage'[q] = "dead"
                        /\ toNS'[q] # << >> =>
                             (Alive(q)' /\ cnx'[q] = "open") \/ Posted(q, "closed")'
                        /\ Posted(q, "RG")' => /\ fromNS'[q] = << >>
                                               /\ \A j \in SId : ~Trace(q, j)'
                        /\ Posted(q, "RRG")' => ~Entered(q, sid[q])'
                        /\ Posted(q, "ACK_UNI")' => Knows(registry, q)' \/ Posted(q, "RRG")'
                        /\ /\ Alive(q)' /\ cnx'[q] = "open"
                           /\ sid'[q] # 0 \/ \E j \in SId : Granting(q, j)'
                           => Knows(registry, q)' \/ Posted(q, "RRG")'
                        /\ nsUp' \/ toNS'[q] = << >>
      BY DEF PostInv
    <2>1. ~Entered(q, sid[q]) => ~Entered(q, sid[q])'
      BY <1>1 DEF Entered
    <2>2. CASE q = p
      <3>1. Bars(toNS'[p], ToNSMessage, Firsts) /\ Bars(toNS'[p], Lasts, ToNSMessage)
        BY <1>4, BarsShort
      <3>2. ~Entered(p, sid[p])'
        BY <1>7, <2>1, <2>2 DEF Entered
      <3> QED BY <1>1, <1>4, <1>5, <1>10, <1>11, <2>2, <3>1, <3>2
    <2>3. CASE q # p
      BY <1>1, <1>4, <1>10, <1>11, <1>12, <1>14, <2>1, <2>3 DEF Inv, PostInv
    <2> QED BY <2>2, <2>3
  <1>18. RegistryInv'
    <2>1. ASSUME NEW e \in Entries(registry)
          PROVE  /\ e.waiting => stage'[e.svc] = "dead" /\ toNS'[e.svc] = << >>
                 /\ ~e.waiting =>
                      (Alive(e.svc)' /\ cnx'[e.svc] = "open") \/ Posted(e.svc, "closed")'
                 /\ stage'[e.svc] = "registering" => fromNS'[e.svc] # << >>
      <3>1. e.svc \in Service /\ e.svc # p
        BY <1>7, RegistryEntries DEF Inv, Entry
      <3>2. /\ e.waiting => stage[e.svc] = "dead" /\ toNS[e.svc] = << >>
            /\ ~e.waiting => (Alive(e.svc) /\ cnx[e.svc] = "open") \/ Posted(e.svc, "closed")
            /\ stage[e.svc] = "registering" => fromNS[e.svc] # << >>
        BY DEF Inv, RegistryInv
      <3> QED BY <1>1, <1>4, <1>10, <1>11, <3>1, <3>2
    <2> QED BY <1>1, <2>1 DEF Inv, RegistryInv
  <1>19. StartInv'
    <2>1. \A q \in Service : ~Posted(q, "RG")'
      BY <1>8, <1>10
    <2> QED BY <2>1 DEF StartInv
  <1>20. TraceInv' /\ OwnerInv' /\ NameInv'
    BY <1>1, <1>14, <1>15, NothingNew
  <1>21. LinkInv'
    BY <1>1, <1>11 DEF Inv, LinkInv
  <1>22. MentionInv'
    BY <1>1, <1>12, <1>13, <1>15 DEF Inv, MentionInv
  <1>23. AckInv'
    <2> SUFFICES ASSUME NEW q \in Service, NEW j \in SId, Clean(q, j)'
                 PROVE  /\ Bars(fromNS'[q], Drops(j), Drops(j) \union Tales(j))
                        /\ Bars(toNS'[q], Acks(j), Acks(j))
                        /\ Dropped(q, j)' \/ Acked(q, j)' => Awaited(q, j)'
                        /\ Acked(q, j)' => /\ ~Dropped(q, j)'
                                           /\ \A r \in Service : ~Mentions(q, r, j)'
      BY DEF AckInv
    <2>1. Acked(q, j)' => Acked(q, j)
      <3>1. rrg \notin Acks(j)
        BY <1>2 DEF Acks
      <3> QED BY <1>9, <3>1 DEF Acked
    <2>2. Bars(toNS'[q], Acks(j), Acks(j))
      <3>1. CASE q = p
        BY <1>4, <3>1, BarsShort
      <3>2. CASE q # p
        BY <1>4, <1>12, <3>2 DEF Inv, AckInv
      <3> QED BY <3>1, <3>2
    <2> QED BY <1>1, <1>12, <1>13, <2>1, <2>2 DEF Inv, AckInv
  <1>24. SpoilInv'
    BY <1>1, <1>4, <1>12 DEF Inv, SpoilInv
  <1>25. TableInv'
    BY <1>1, <1>11, <1>12 DEF Inv, TableInv, Noted, Listed
  <1>26. TypeInv'
    BY ReconnectType DEF Inv
  <1> QED BY <1>16, <1>17, <1>18, <1>19, <1>20, <1>21, <1>22, <1>23, <1>24, <1>25, <1>26 DEF Inv

-----------------------------------------------------------------------------
(* The naming service forgets everything: those who are alive still have   *)
(* their identifiers, and the others are given up.                         *)
LEMMA CrashInv ==
  ASSUME Inv, NSCrash
  PROVE  Inv'
PROOF
  <1> DEFINE lost == {e.sid : e \in {f \in Entries(registry) :
                                f.waiting \/ stage[f.svc] \in {"registering", "dead"}}}
                       \union {sid[p] : p \in {q \in Service :
                                stage[q] = "dead" /\ toNS[q] # << >> /\ sid[q] # 0}}
  <1>1. /\ nsUp' = FALSE /\ registry' = << >> /\ toNS' = [p \in Service |-> << >>]
        /\ cnx' = [p \in Service |-> IF cnx[p] = "open" THEN "cut" ELSE cnx[p]]
        /\ Spoil(Service, lost)
        /\ UNCHANGED << unique, stage, sid, tables, link >>
    BY DEF NSCrash
  <1>2. /\ toNS \in [Service -> Seq(ToNSMessage)]
        /\ fromNS \in [Service -> Seq(FromNSMessage)]
        /\ cnx \in [Service -> {"none", "open", "cut"}]
        /\ stage \in [Service -> {"off", "registering", "registered", "connecting", "running",
                                  "dead"}]
        /\ sid \in [Service -> SId \union {0}]
    BY Vars DEF Inv
  <1>3. \A p \in Service : \E n \in 0 .. Len(fromNS[p]) : fromNS'[p] = SubSeq(fromNS[p], 1, n)
    <2>1. PICK n \in [Service -> UNION {0 .. Len(fromNS[p]) : p \in Service}] :
            /\ \A p \in Service : n[p] <= Len(fromNS[p])
            /\ fromNS' = [p \in Service |-> SubSeq(fromNS[p], 1, n[p])]
      BY DEF NSCrash
    <2>2. ASSUME NEW p \in Service PROVE n[p] \in 0 .. Len(fromNS[p])
      <3>1. \A q \in Service : Len(fromNS[q]) \in Nat
        BY <1>2, LenProperties
      <3>2. n[p] \in Nat
        BY <2>1, <3>1
      <3> QED BY <2>1, <3>1, <3>2
    <2> QED BY <2>1, <2>2
  <1>4. \A p \in Service : /\ Mail(p)' \subseteq Mail(p)
                           /\ fromNS'[p] # << >> =>
                                fromNS[p] # << >> /\ Head(fromNS'[p]) = Head(fromNS[p])
                           /\ \A A, B : Bars(fromNS[p], A, B) => Bars(fromNS'[p], A, B)
    <2> SUFFICES ASSUME NEW p \in Service
                 PROVE  /\ Mail(p)' \subseteq Mail(p)
                        /\ fromNS'[p] # << >> =>
                             fromNS[p] # << >> /\ Head(fromNS'[p]) = Head(fromNS[p])
                        /\ \A A, B : Bars(fromNS[p], A, B) => Bars(fromNS'[p], A, B)
      OBVIOUS
    <2>1. PICK n \in 0 .. Len(fromNS[p]) : fromNS'[p] = SubSeq(fromNS[p], 1, n)
      BY <1>3
    <2>2. fromNS[p] \in Seq(FromNSMessage)
      BY <1>2
    <2>3. Entries(SubSeq(fromNS[p], 1, n)) \subseteq Entries(fromNS[p])
      BY <2>2, PrefixEntries
    <2>4. SubSeq(fromNS[p], 1, n) # << >> =>
            fromNS[p] # << >> /\ Head(SubSeq(fromNS[p], 1, n)) = Head(fromNS[p])
      BY <2>2, PrefixHead
    <2>5. \A A, B : Bars(fromNS[p], A, B) => Bars(SubSeq(fromNS[p], 1, n), A, B)
      BY <2>2, BarsPrefix
    <2> QED BY <2>1, <2>3, <2>4, <2>5 DEF Mail
  <1>5. /\ \A p \in Service : toNS'[p] = << >> /\ Post(p)' = {}
        /\ Entries(registry)' = {}
        /\ \A p \in Service : cnx'[p] # "open" /\ (cnx[p] = "none" => cnx'[p] = "none")
    <2>1. Entries(<< >>) = {}
      BY EntriesEmpty DEF Entries
    <2>2. \A p \in Service : toNS'[p] = << >>
      BY <1>1
    <2>3. \A p \in Service : cnx'[p] # "open" /\ (cnx[p] = "none" => cnx'[p] = "none")
      BY <1>1
    <2> QED BY <1>1, <2>1, <2>2, <2>3 DEF Post
  <1>6. \A p \in Service, k \in SId : Clean(p, k)' => Clean(p, k) /\ k \notin lost
    <2>1. spoiled' = spoiled \union (Service \X lost)
      BY <1>1 DEF Spoil
    <2> HIDE DEF lost
    <2> QED BY <2>1 DEF Clean
  <1>7. /\ \A e \in Entries(registry) :
             e.waiting \/ stage[e.svc] \in {"registering", "dead"} => e.sid \in lost
        /\ \A q \in Service : stage[q] = "dead" /\ toNS[q] # << >> /\ sid[q] # 0 => sid[q] \in lost
    OBVIOUS
  <1> HIDE DEF lost
  <1>8. \A q \in Service : /\ Alive(q)' <=> Alive(q)
                           /\ Blank(q)' <=> Blank(q)
                           /\ ~Knows(registry, q)'
                           /\ Refused(q)' => Refused(q)
                           /\ \A type : ~Posted(q, type)'
    <2>1. \A q \in Service : Blank(q)' <=> Blank(q)
      BY <1>1 DEF Blank, tables
    <2>2. \A q \in Service : (Alive(q)' <=> Alive(q)) /\ \A type : ~Posted(q, type)'
      BY <1>1, <1>5 DEF Alive, Posted
    <2>3. \A q \in Service : Refused(q)' => Refused(q)
      BY <1>4 DEF Refused
    <2>4. \A q \in Service : ~Knows(registry, q)'
      BY <1>5 DEF Knows, Available
    <2> QED BY <2>1, <2>2, <2>3, <2>4
  <1>9. \A q \in Service, k \in SId : /\ Granting(q, k)' => Granting(q, k)
                                      /\ Dropped(q, k)' => Dropped(q, k)
                                      /\ ~Entered(q, k)' /\ ~Acked(q, k)'
    <2>1. \A q \in Service, k \in SId : /\ Granting(q, k)' => Granting(q, k)
                                        /\ Dropped(q, k)' => Dropped(q, k)
      BY <1>4 DEF Granting, Dropped
    <2>2. \A q \in Service, k \in SId : ~Entered(q, k)' /\ ~Acked(q, k)'
      BY <1>5 DEF Entered, Acked
    <2> QED BY <2>1, <2>2
  <1>10. \A r, q \in Service, k \in SId : Mentions(r, q, k)' => Mentions(r, q, k)
    <2>1. \A r, q \in Service, k \in SId : Told(r, q, k)' => Told(r, q, k)
      BY <1>4 DEF Told
    <2> QED BY <1>1, <2>1 DEF Mentions, Noted, Listed, tables
  <1>11. \A q \in Service, k \in SId : Trace(q, k)' => Trace(q, k)
    BY <1>1, <1>9, <1>10 DEF Trace
  <1>12. \A q \in Service, k \in SId : Owner(q, k)' => Owner(q, k)
    BY <1>1, <1>8, <1>9 DEF Owner
  <1>13. ASSUME NEW q \in Service, NEW k \in SId, Alive(q), Granting(q, k), sid[q] # k
         PROVE  stage[q] = "registering" /\ \A p \in Service : ~Clean(p, k)'
    <2>1. stage[q] = "registering" /\ sid[q] = 0
      BY <1>13 DEF Inv, LifeInv, Granting
    <2>2. CASE cnx[q] = "open"
      <3>1. ~Posted(q, "RRG")
        BY <2>1 DEF Inv, TypeInv, Identified, Posted, Post
      <3>2. Knows(registry, q)
        BY <1>13, <2>2, <3>1 DEF Inv, PostInv
      <3>3. PICK e \in Entries(registry) : e.svc = q
        BY <3>2 DEF Knows, Available
      <3>4. e.sid \in SId
        BY RegistryEntries DEF Inv, Entry
      <3>5. Trace(q, k) /\ Trace(q, e.sid)
        BY <1>13, <3>3 DEF Trace, Entered
      <3>6. e.sid = k
        BY <3>4, <3>5 DEF Inv, TraceInv
      <3> QED BY <1>6, <1>7, <2>1, <3>3, <3>6
    <2>3. CASE cnx[q] # "open"
      <3>1. \A p \in Service : ~Clean(p, k)
        BY <1>13, <2>1, <2>3 DEF Inv, SpoilInv
      <3> QED BY <1>6, <2>1, <3>1
    <2> QED BY <2>2, <2>3
  <1>14. ASSUME NEW p \in Service, NEW q \in Service, NEW k \in SId, Clean(p, k)', Owner(q, k)
         PROVE  Owner(q, k)'
    <2>1. Alive(q) /\ sid[q] = k => Owner(q, k)'
      BY <1>1, <1>8 DEF Owner
    <2>2. CASE Alive(q) /\ (sid[q] = k \/ Granting(q, k))
      BY <1>13, <1>14, <2>1, <2>2
    <2>3. CASE Entered(q, k)
      <3>1. PICK e \in Entries(registry) : e.svc = q /\ e.sid = k
        BY <2>3 DEF Entered
      <3>2. stage[q] \notin {"registering", "dead"}
        BY <1>6, <1>7, <1>14, <3>1
      <3>3. Trace(q, k)
        BY <2>3 DEF Trace
      <3>4. stage[q] # "off"
        BY <3>3 DEF Inv, LifeInv
      <3>5. stage[q] \in {"registered", "connecting", "running"}
        BY <1>2, <3>2, <3>4
      <3>6. sid[q] # 0 /\ Alive(q)
        BY <3>5 DEF Inv, TypeInv, Identified, Alive
      <3>7. sid[q] \in SId /\ Trace(q, sid[q])
        BY <1>2, <3>6 DEF Trace
      <3>8. sid[q] = k
        BY <3>3, <3>7 DEF Inv, TraceInv
      <3> QED BY <2>1, <3>6, <3>8
    <2>4. CASE sid[q] = k /\ Posted(q, "RRG")
      <3>1. toNS[q] # << >>
        BY <2>4, EntriesEmpty DEF Posted, Post, Entries
      <3>2. stage[q] # "off"
        BY <3>1 DEF Inv, LifeInv
      <3>3. stage[q] # "dead"
        BY <1>6, <1>7, <1>14, <2>4, <3>1, SIdNat
      <3>4. Alive(q)
        BY <1>2, <3>2, <3>3 DEF Alive
      <3> QED BY <2>1, <2>4, <3>4
    <2> QED BY <1>14, <2>2, <2>3, <2>4 DEF Owner
  <1>15. TypeInv'
    BY CrashType DEF Inv
  <1>16. LifeInv'
    <2> SUFFICES ASSUME NEW q \in Service
                 PROVE  /\ ~Alive(q)' => /\ fromNS'[q] = << >> /\ cnx'[q] = "none"
                                         /\ Blank(q)'
                        /\ stage'[q] = "off" => /\ toNS'[q] = << >> /\ sid'[q] = 0
                                                /\ \A j \in SId : ~Trace(q, j)'
                        /\ stage'[q] = "registering" => sid'[q] = 0 /\ Blank(q)'
                        /\ Bars(fromNS'[q], FromNSMessage, Replies)
                        /\ (\E m \in Mail(q)' : m.type = "RG") => stage'[q] = "registering"
                        /\ stage'[q] = "registering" /\ fromNS'[q] # << >> =>
                             Head(fromNS'[q]).type = "RG"
                        /\ Refused(q)' => \A j \in SId : ~Trace(q, j)'
      BY DEF LifeInv
    <2>1. Bars(fromNS'[q], FromNSMessage, Replies)
      BY <1>4 DEF Inv, LifeInv
    <2>2. Refused(q)' => \A j \in SId : ~Trace(q, j)'
      BY <1>8, <1>11 DEF Inv, LifeInv
    <2>3. ~Alive(q)' => fromNS'[q] = << >> /\ cnx'[q] = "none" /\ Blank(q)'
      BY <1>4, <1>5, <1>8 DEF Inv, LifeInv
    <2>4. stage'[q] = "registering" => sid'[q] = 0 /\ Blank(q)'
      BY <1>1, <1>8 DEF Inv, LifeInv
    <2>5. stage'[q] = "off" => /\ toNS'[q] = << >> /\ sid'[q] = 0
                               /\ \A j \in SId : ~Trace(q, j)'
      BY <1>1, <1>5, <1>11 DEF Inv, LifeInv
    <2>6. (\E m \in Mail(q)' : m.type = "RG") => stage'[q] = "registering"
      BY <1>1, <1>4 DEF Inv, LifeInv
    <2>7. stage'[q] = "registering" /\ fromNS'[q] # << >> => Head(fromNS'[q]).type = "RG"
      BY <1>1, <1>4 DEF Inv, LifeInv
    <2> QED BY <2>1, <2>2, <2>3, <2>4, <2>5, <2>6, <2>7
  <1>17. PostInv'
    <2>1. \A q \in Service :
            Bars(toNS'[q], ToNSMessage, Firsts) /\ Bars(toNS'[q], Lasts, ToNSMessage)
      BY <1>5, BarsShort
    <2> QED BY <1>5, <1>8, <2>1 DEF PostInv
  <1>18. RegistryInv'
    BY <1>1, <1>5 DEF RegistryInv, Distinct
  <1>19. StartInv'
    BY <1>8 DEF StartInv
  <1>20. TraceInv' /\ OwnerInv' /\ NameInv'
    BY <1>1, <1>11, <1>12, NothingNew
  <1>21. LinkInv' /\ TableInv'
    <2>1. spoiled \subseteq spoiled'
      BY <1>1 DEF Spoil
    <2>2. \A p \in Service : \A m \in Mail(p)' :
            m \in Mail(p) \/ (m.type = "RG" /\ m.ok => Distinct(m.list))
      BY <1>4
    <2> QED BY <1>1, <2>1, <2>2, TablesUntouched
  <1>22. MentionInv'
    <2> SUFFICES ASSUME NEW r \in Service, NEW q \in Service, NEW k \in SId,
                        Clean(r, k)', Mentions(r, q, k)'
                 PROVE  /\ Owner(q, k)'
                        /\ \A e \in Entries(registry)' : e.waiting /\ e.sid = k => Awaited(r, k)'
      BY DEF MentionInv
    <2>1. Clean(r, k) /\ Mentions(r, q, k)
      BY <1>6, <1>10
    <2>2. Owner(q, k)
      BY <2>1 DEF Inv, MentionInv
    <2> QED BY <1>5, <1>14, <2>2
  <1>23. AckInv'
    <2> SUFFICES ASSUME NEW q \in Service, NEW j \in SId, Clean(q, j)'
                 PROVE  /\ Bars(fromNS'[q], Drops(j), Drops(j) \union Tales(j))
                        /\ Bars(toNS'[q], Acks(j), Acks(j))
                        /\ ~Dropped(q, j)'
      BY <1>9 DEF AckInv
    <2>1. /\ Bars(fromNS[q], Drops(j), Drops(j) \union Tales(j))
          /\ Dropped(q, j) => Awaited(q, j)
      BY <1>6 DEF Inv, AckInv
    <2>2. Bars(fromNS'[q], Drops(j), Drops(j) \union Tales(j))
      BY <1>4, <2>1
    <2>3. Bars(toNS'[q], Acks(j), Acks(j))
      BY <1>5, BarsShort
    <2>4. ~Awaited(q, j)
      BY <1>6, <1>7 DEF Awaited
    <2> QED BY <1>9, <2>1, <2>2, <2>3, <2>4
  <1>24. SpoilInv'
    <2> SUFFICES ASSUME NEW q \in Service, NEW k \in SId, stage'[q] = "registering",
                        Granting(q, k)'
                 PROVE  \A p \in Service : ~Clean(p, k)'
      BY DEF SpoilInv
    <2>1. Alive(q) /\ sid[q] # k
      BY <1>1, SIdNat DEF Alive, Inv, LifeInv
    <2> QED BY <1>9, <1>13, <2>1
  <1> QED BY <1>15, <1>16, <1>17, <1>18, <1>19, <1>20, <1>21, <1>22, <1>23, <1>24 DEF Inv

-----------------------------------------------------------------------------
(* Every step preserves the invariant.                                     *)
LEMMA NextInv == Inv /\ [Next]_vars => Inv'
PROOF
  <1> SUFFICES ASSUME Inv, [Next]_vars PROVE Inv'
    OBVIOUS
  <1>1. ASSUME NS PROVE Inv'
    <2>1. ASSUME NEW p \in Service, NSDisconnect(p) PROVE Inv'
      BY <2>1, UnknownDisconnectInv, KnownDisconnectInv
    <2>2. ASSUME NEW p \in Service, NSAccept(p) \/ NSRefuse(p) \/ NSResend(p) \/ NSAck(p)
          PROVE  Inv'
      BY <2>2, AcceptInv, RefuseInv, ResendInv, AckStepInv
    <2> QED BY <1>1, <2>1, <2>2, UpdateInv DEF NS
  <1>2. ASSUME NEW p \in Service, Process(p) PROVE Inv'
    <2>1. ASSUME Registered(p) \/ RegisterBroadcast(p) \/ UnregisterBroadcast(p) \/ Reconnect(p)
          PROVE  Inv'
      BY <2>1, RegisteredInv, RegisterBroadcastInv, UnregisterBroadcastInv, ReconnectInv
    <2>2. ASSUME NoticeNS(p) \/ Connect(p) \/ Connected(p) PROVE Inv'
      BY <2>2, ConnectionInv
    <2>3. ASSUME AddService(p) PROVE Inv'
      BY <2>3, AddServiceInv
    <2>4. ASSUME NEW q \in Service,
                 ServiceIdentification(p, q) \/ ServerLost(p, q) \/ ClientLost(p, q)
          PROVE  Inv'
      BY <2>4, IdentificationInv, ConnectionInv, ClientLostInv
    <2> QED BY <1>2, <2>1, <2>2, <2>3, <2>4 DEF Process
  <1>3. ASSUME NEW p \in Service, Start(p) \/ Die(p) PROVE Inv'
    BY <1>3, StartStepInv, DieInv
  <1>4. ASSUME NSTimeout \/ NSCrash PROVE Inv'
    BY <1>4, TimeoutInv, CrashInv
  <1>5. ASSUME NSRestart \/ UNCHANGED vars PROVE Inv'
    BY <1>5, ConnectionInv
  <1> QED BY <1>1, <1>2, <1>3, <1>4, <1>5 DEF Next

(* The owner of an available identifier is the service that the registry   *)
(* has it for, and nobody who is not told yet takes it for another one.    *)
LEMMA InvNoStale == Inv => NoStaleIdentity
PROOF
  <1> SUFFICES ASSUME Inv, NEW p \in Service, NEW e \in Available(registry), Clean(p, e.sid)
               PROVE  /\ \A i \in DOMAIN known[p] : known[p][i].sid = e.sid =>
                                                      known[p][i].svc = e.svc
                      /\ Ready(ids[p][e.sid]) => ids[p][e.sid].name = NameOf[e.svc]
                      /\ ids[p][e.sid].peer \in {e.svc, None}
                      /\ \A x \in up[p] : x[2] = e.sid => x[1] = e.svc
    BY DEF NoStaleIdentity
  <1>1. /\ e \in Entries(registry) /\ e.svc \in Service /\ e.sid \in SId
    <2>1. e \in Entry
      BY RegistryEntries DEF Inv
    <2> QED BY <2>1 DEF Available, Entry
  <1>2. Owner(e.svc, e.sid)
    BY <1>1 DEF Owner, Entered
  <1>3. \A q \in Service : Mentions(p, q, e.sid) => q = e.svc
    BY <1>1, <1>2 DEF Inv, MentionInv, OwnerInv
  <1>4. /\ known[p] \in Seq([svc : Service, sid : SId])
        /\ ids[p] \in [SId -> IdEntry]
        /\ up[p] \in SUBSET (Service \X SId)
    BY Vars DEF Inv
  <1>5. ASSUME NEW i \in DOMAIN known[p], known[p][i].sid = e.sid
        PROVE  known[p][i].svc = e.svc
    <2>1. known[p][i] \in Entries(known[p])
      BY DEF Entries
    <2>2. known[p][i] \in [svc : Service, sid : SId]
      BY <1>4, <2>1, EntriesType
    <2>3. known[p][i].svc \in Service
      BY <2>2
    <2>4. Mentions(p, known[p][i].svc, e.sid)
      BY <1>5, <2>1 DEF Mentions, Noted, Listed
    <2> QED BY <1>3, <2>3, <2>4
  <1>6. ASSUME Ready(ids[p][e.sid]) PROVE ids[p][e.sid].name = NameOf[e.svc]
    <2>1. PICK q \in Service : NameOf[q] = ids[p][e.sid].name /\ Noted(p, q, e.sid)
      BY <1>1, <1>6 DEF Inv, TableInv
    <2>2. q = e.svc
      BY <1>3, <2>1 DEF Mentions
    <2> QED BY <2>1, <2>2
  <1>7. ids[p][e.sid].peer \in {e.svc, None}
    <2>1. ids[p][e.sid].peer \in Service \union {None}
      BY <1>1, <1>4 DEF IdEntry
    <2> QED BY <1>3, <2>1 DEF Mentions
  <1>8. ASSUME NEW x \in up[p], x[2] = e.sid PROVE x[1] = e.svc
    <2>1. x[1] \in Service /\ x = << x[1], e.sid >>
      BY <1>4, <1>8
    <2> QED BY <1>3, <2>1 DEF Mentions, Noted
  <1> QED BY <1>5, <1>6, <1>7, <1>8

(* naming_service.cpp:387-389, "we wait ACK from all services before       *)
(* really remove the service": whatever dies, is lost or comes late, when  *)
(* the naming service has an identifier for a service, no other process    *)
(* takes it for the one that had it before, unless a fault is about it     *)
(* that the protocol does not handle.                                      *)
THEOREM NoIdentityIsStale == Spec => []NoStaleIdentity
PROOF
  BY InitInv, NextInv, InvNoStale, PTL DEF Spec

(* An identifier belongs to one service at most ...                        *)
IdentifiersDiffer ==
  \A p, q \in Service : Alive(p) /\ Alive(q) /\ sid[p] # 0 /\ sid[p] = sid[q] => p = q

(* ... and the services that queryStartService lets start once are alone.  *)
UniqueAlone ==
  \A p, q \in Service :
    /\ Alive(p) /\ Alive(q) /\ sid[p] # 0 /\ sid[q] # 0
    /\ NameOf[p] = NameOf[q] /\ NameOf[p] \in unique
    => p = q

(* Two services that are alive never have the same identifier, and two     *)
(* that have been given one never have the same name if it must be unique  *)
(* on the shard: neither a time out of the naming service nor its crash    *)
(* and the identifiers that the services then send again change that.      *)
THEOREM IdentitiesDiffer == Spec => [](IdentifiersDiffer /\ UniqueAlone)
PROOF
  <1>1. Inv => IdentifiersDiffer /\ UniqueAlone
    <2> SUFFICES ASSUME Inv, NEW p \in Service, NEW q \in Service,
                        Alive(p), Alive(q), sid[p] # 0, sid[q] # 0
                 PROVE  /\ sid[p] = sid[q] => p = q
                        /\ NameOf[p] = NameOf[q] /\ NameOf[p] \in unique => p = q
      BY DEF IdentifiersDiffer, UniqueAlone
    <2>1. sid[p] \in SId /\ sid[q] \in SId
      BY Vars DEF Inv
    <2>2. Owner(p, sid[p]) /\ Owner(q, sid[q])
      BY <2>1 DEF Owner
    <2> QED BY <2>1, <2>2 DEF Inv, OwnerInv, NameInv
  <1> QED BY <1>1, InitInv, NextInv, PTL DEF Spec
=============================================================================
