-------------------------- MODULE ShardTableProofs --------------------------
(***************************************************************************)
(* The tables of a service of a shard agree, and its services end up       *)
(* connected: TablesAgree and QuietMeansConnected of Shard, for every set  *)
(* of services and names, every limit of the identifiers and any number of *)
(* faults.                                                                 *)
(***************************************************************************)
EXTENDS ShardProofs

-----------------------------------------------------------------------------
(* An element of A comes before any of B.                                  *)
Early(s, A, B) ==
  \E i \in DOMAIN s : s[i] \in A /\ \A d \in DOMAIN s : d < i => s[d] \notin B

(* Only the head, if it is in B, hides what comes early in the tail.       *)
LEMMA EarlyTail ==
  ASSUME NEW S, NEW s \in Seq(S), s # << >>, NEW A, NEW B
  PROVE  /\ Head(s) \notin B /\ Early(Tail(s), A, B) => Early(s, A, B)
         /\ Head(s) \in A => Early(s, A, B)
PROOF
  <1> DEFINE t == Tail(s)
  <1>1. /\ Head(s) = s[1]
        /\ Len(t) = Len(s) - 1
        /\ \A i \in 1 .. Len(t) : t[i] = s[i + 1]
        /\ t \in Seq(S)
    BY HeadTailProperties DEF Head
  <1> HIDE DEF t
  <1>2. Len(s) \in Nat \ {0} /\ DOMAIN s = 1 .. Len(s) /\ DOMAIN t = 1 .. Len(t)
    BY <1>1, EmptySeq, LenProperties
  <1>3. 1 \in DOMAIN s /\ \A d \in DOMAIN s : ~(d < 1)
    BY <1>2
  <1>4. Head(s) \in A => Early(s, A, B)
    BY <1>1, <1>3 DEF Early
  <1>5. ASSUME Head(s) \notin B, Early(t, A, B) PROVE Early(s, A, B)
    <2>1. PICK i \in DOMAIN t : t[i] \in A /\ \A d \in DOMAIN t : d < i => t[d] \notin B
      BY <1>5 DEF Early
    <2>2. i + 1 \in DOMAIN s /\ s[i + 1] \in A
      BY <1>1, <1>2, <2>1
    <2>3. ASSUME NEW d \in DOMAIN s, d < i + 1 PROVE s[d] \notin B
      <3>1. CASE d = 1
        BY <1>1, <1>5, <3>1
      <3>2. CASE d # 1
        <4>1. d - 1 \in DOMAIN t /\ d - 1 < i /\ (d - 1) + 1 = d
          BY <1>1, <1>2, <2>3, <3>2
        <4>2. t[d - 1] = s[(d - 1) + 1]
          BY <1>1, <1>2, <4>1
        <4> QED BY <2>1, <4>1, <4>2
      <3> QED BY <3>1, <3>2
    <2> QED BY <2>2, <2>3 DEF Early
  <1> QED BY <1>4, <1>5 DEF t

(* What is appended comes early only if it is in A and nothing of B is     *)
(* there.                                                                  *)
LEMMA EarlyAppend ==
  ASSUME NEW S, NEW s \in Seq(S), NEW x \in S, NEW A, NEW B, Early(Append(s, x), A, B)
  PROVE  Early(s, A, B) \/ (x \in A /\ Entries(s) \intersect B = {})
PROOF
  <1> DEFINE t == Append(s, x)
  <1>1. /\ t \in Seq(S)
        /\ Len(t) = Len(s) + 1
        /\ \A i \in 1 .. Len(s) : t[i] = s[i]
        /\ t[Len(s) + 1] = x
    BY AppendProperties
  <1>2. PICK i \in DOMAIN t : t[i] \in A /\ \A d \in DOMAIN t : d < i => t[d] \notin B
    BY DEF Early
  <1> HIDE DEF t
  <1>3. DOMAIN s = 1 .. Len(s) /\ Len(s) \in Nat /\ DOMAIN t = 1 .. Len(t)
    BY <1>1, LenProperties
  <1>4. \A d \in DOMAIN s : d \in DOMAIN t /\ t[d] = s[d]
    BY <1>1, <1>3
  <1>5. CASE i \in DOMAIN s
    BY <1>2, <1>4, <1>5 DEF Early
  <1>6. CASE i = Len(s) + 1
    <2>1. x \in A
      BY <1>1, <1>2, <1>6
    <2>2. \A d \in DOMAIN s : d < i
      BY <1>3, <1>6
    <2>3. \A d \in DOMAIN s : s[d] \notin B
      BY <1>2, <1>4, <2>2
    <2> QED BY <2>1, <2>3 DEF Entries
  <1> QED BY <1>1, <1>3, <1>5, <1>6

(* A crash, which cuts a queue, lets nothing come early that did not.      *)
LEMMA EarlyPrefix ==
  ASSUME NEW S, NEW s \in Seq(S), NEW n \in 0 .. Len(s), NEW A, NEW B,
         Early(SubSeq(s, 1, n), A, B)
  PROVE  Early(s, A, B)
PROOF
  <1>1. Len(s) \in Nat /\ DOMAIN s = 1 .. Len(s) /\ n \in Nat /\ n <= Len(s)
    BY LenProperties
  <1> DEFINE t == SubSeq(s, 1, n)
  <1>2. t = [i \in 1 .. n |-> s[i]]
    <2>1. t = [i \in 1 .. (1 + n - 1) |-> s[i + 1 - 1]]
      BY <1>1 DEF SubSeq
    <2>2. 1 + n - 1 = n /\ \A i \in 1 .. n : i + 1 - 1 = i
      BY <1>1
    <2> QED BY <2>1, <2>2
  <1>3. PICK i \in DOMAIN t : t[i] \in A /\ \A d \in DOMAIN t : d < i => t[d] \notin B
    BY DEF Early
  <1> HIDE DEF t
  <1>4. DOMAIN t = 1 .. n /\ \A d \in 1 .. n : t[d] = s[d]
    BY <1>2
  <1>5. i \in DOMAIN s /\ s[i] \in A
    BY <1>1, <1>3, <1>4
  <1>6. \A d \in DOMAIN s : d < i => d \in 1 .. n
    BY <1>1, <1>3, <1>4
  <1> QED BY <1>3, <1>4, <1>5, <1>6 DEF Early

(* Nor does the loss of elements that are not in B.                        *)
LEMMA EarlyKept ==
  ASSUME NEW S, NEW s \in Seq(S), NEW I \in SUBSET DOMAIN s, NEW A, NEW B,
         \A i \in DOMAIN s \ I : s[i] \notin B,
         Early(Kept(s, I), A, B)
  PROVE  Early(s, A, B)
PROOF
  <1>1. IsFiniteSet(I) /\ I \in SUBSET Nat
    BY KeptSequence
  <1>2. Cardinality(I) \in Nat /\ DOMAIN Kept(s, I) = 1 .. Cardinality(I)
    BY <1>1, KeptProperties
  <1>3. PICK f : Numbers(f, s, I)
    BY <1>1, KeptProperties
  <1>4. PICK n \in DOMAIN Kept(s, I) :
          Kept(s, I)[n] \in A /\ \A d \in DOMAIN Kept(s, I) : d < n => Kept(s, I)[d] \notin B
    BY DEF Early
  <1>5. f[n] \in DOMAIN s /\ s[f[n]] \in A
    BY <1>2, <1>3, <1>4 DEF Numbers
  <1>6. ASSUME NEW d \in DOMAIN s, d < f[n] PROVE s[d] \notin B
    <2>1. CASE d \in I
      <3>1. PICK m \in 1 .. Cardinality(I) : f[m] = d
        BY <1>3, <2>1 DEF Numbers
      <3>2. m < n
        BY <1>2, <1>3, <1>4, <1>6, <3>1 DEF Numbers
      <3>3. Kept(s, I)[m] = s[d]
        BY <1>3, <3>1 DEF Numbers
      <3> QED BY <1>2, <1>4, <3>1, <3>2, <3>3
    <2> QED BY <2>1
  <1> QED BY <1>5, <1>6 DEF Early

(* Nothing comes early where nothing is.                                   *)
LEMMA EarlyFound ==
  ASSUME NEW s, NEW A, NEW B, Early(s, A, B)
  PROVE  Entries(s) \intersect A # {}
PROOF
  BY DEF Early, Entries

-----------------------------------------------------------------------------
(* The strengthening of Inv.                                               *)

(* p found, or is about to find, q with the identifier k when it           *)
(* registered, or has taken its place: an entry of q comes before the one  *)
(* of p in the list.                                                       *)
At(q, k) == {e \in [svc : Service, sid : SId] : e.svc = q /\ e.sid = k}
Own(k) == {e \in [svc : Service, sid : SId] : e.sid = k}
Offers(m, q, k) ==
  m.type = "RG" /\ m.ok /\ m.sid # k /\ \E e \in Entries(m.list) : e.svc = q /\ e.sid = k
Prior(p, q, k) ==
  \/ \E m \in Mail(p) : Offers(m, q, k)
  \/ stage[p] \in {"registered", "connecting"} /\ sid[p] # k
     /\ Early(known[p], At(q, k), Own(sid[p]))

(* A service is told of a new owner of k and, before that, of no loss.     *)
Calls(k) == {m \in FromNSMessage : m.type = "RGB" /\ m.sid = k}
Fresh(p, k) == Early(fromNS[p], Calls(k), Drops(k))

(* A service has its own entry, which stays, and it asks to be registered  *)
(* again only after it connected to those before it.                       *)
Placed(p) ==
  /\ \A m \in Mail(p) : m.type = "RG" /\ m.ok => \E e \in Entries(m.list) : e.sid = m.sid
  /\ stage[p] \in {"registered", "connecting"} => \E e \in Entries(known[p]) : e.sid = sid[p]
  /\ \A k \in SId : sid[p] = k \/ Granting(p, k) => ~Dropped(p, k)
  /\ Posted(p, "RRG") => stage[p] \in {"running", "dead"}

(* Nobody takes the place of a service in that part of the list: as long   *)
(* as p is not told that it left, its identifier is not free.              *)
Cleared(p) ==
  \A q \in Service, k \in SId : Prior(p, q, k) =>
    /\ ~Fresh(p, k)
    /\ cnx[p] = "open" /\ ~Dropped(p, k) => \E e \in Available(registry) : e.sid = k

(* Of two services, only one found the other.                              *)
AntiInv == \A p, q \in Service, j, k \in SId : ~(Prior(p, q, k) /\ Prior(q, p, j))

(* Who connects did not do it before, and not to one that is to connect to *)
(* it.                                                                     *)
OpenInv ==
  \A p, q \in Service :
    /\ stage[p] = "off" \/ Posted(p, "RG") => link[q][p] = "none"
    /\ stage[q] \in {"off", "registering", "registered"} => link[q][p] = "none"
    /\ link[q][p] # "none" => sid[q] # 0
    /\ stage[q] = "connecting" => \A i \in ToConnect(q) : known[q][i].svc = p => link[q][p] = "none"
    /\ \A r \in Service, k \in SId :
         link[q][p] # "none" /\ Prior(p, r, k) /\ Clean(p, k) => sid[q] # k
    /\ link[q][p] # "none" => link[p][q] = "none" /\ \A k \in SId : ~Prior(p, q, k)

(* An entry has a connection that was opened.                              *)
PeerInv ==
  \A p, q \in Service, k \in SId : ids[p][k].peer = q =>
    /\ ids[p][k].conn = "client" => link[p][q] # "none"
    /\ ids[p][k].conn = "server" => link[q][p] # "none"

(* Where a connection was lost, or could not be opened, none comes.        *)
InvalidInv ==
  \A p, q \in Service, k \in SId : Clean(p, k) /\ ids[p][k].conn = "invalid" /\ Noted(p, q, k) =>
    /\ link[q][p] \notin {"ident", "gone"}
    /\ Alive(q) => link[q][p] # "none"

(* The three tables agree.                                                 *)
Agree(p, k) ==
  /\ \A x \in named[p] : x[2] = k => ids[p][k].name = x[1] /\ ids[p][k].conn # "empty"
  /\ Valid(ids[p][k]) => /\ << ids[p][k].name, k >> \in named[p]
                         /\ << ids[p][k].peer, k >> \in up[p]
NamedInv ==
  \A p \in Service :
    /\ ~Working(p) => named[p] = {}
    /\ \A k \in SId : Clean(p, k) => Agree(p, k)

OrderInv == (\A p \in Service : Placed(p) /\ Cleared(p)) /\ AntiInv
LinksInv == OpenInv /\ PeerInv /\ InvalidInv

-----------------------------------------------------------------------------
(* What is prior is mentioned, and who is prior has not registered or has  *)
(* not connected to all.                                                   *)
LEMMA PriorMentions == Inv => \A p, q \in Service, k \in SId : Prior(p, q, k) =>
  Mentions(p, q, k) /\ stage[p] \in {"registering", "registered", "connecting"}
PROOF
  <1> SUFFICES ASSUME Inv, NEW p \in Service, NEW q \in Service, NEW k \in SId, Prior(p, q, k)
               PROVE  /\ Mentions(p, q, k)
                      /\ stage[p] \in {"registering", "registered", "connecting"}
    OBVIOUS
  <1>1. CASE \E m \in Mail(p) : Offers(m, q, k)
    BY <1>1 DEF Offers, Mentions, Told, Tells, Inv, LifeInv
  <1>2. CASE /\ stage[p] \in {"registered", "connecting"}
             /\ Early(known[p], At(q, k), Own(sid[p]))
    <2>1. Entries(known[p]) \intersect At(q, k) # {}
      BY <1>2, EarlyFound
    <2> QED BY <1>2, <2>1 DEF At, Mentions, Noted, Listed
  <1> QED BY <1>1, <1>2 DEF Prior

(* What a name or a peer of an entry says is what the owner of the         *)
(* identifier is.                                                          *)
LEMMA OwnersOnly == Inv => \A p, q \in Service, k \in SId : Clean(p, k) /\ Owner(q, k) =>
  /\ \A r \in Service : Mentions(p, r, k) => r = q
  /\ Ready(ids[p][k]) => ids[p][k].name = NameOf[q] /\ Noted(p, q, k)
  /\ \A x \in up[p] : x[2] = k => x = << q, k >>
PROOF
  <1> SUFFICES ASSUME Inv, NEW p \in Service, NEW q \in Service, NEW k \in SId,
                      Clean(p, k), Owner(q, k)
               PROVE  /\ \A r \in Service : Mentions(p, r, k) => r = q
                      /\ Ready(ids[p][k]) => ids[p][k].name = NameOf[q] /\ Noted(p, q, k)
                      /\ \A x \in up[p] : x[2] = k => x = << q, k >>
    OBVIOUS
  <1>1. \A r \in Service : Mentions(p, r, k) => r = q
    BY DEF Inv, MentionInv, OwnerInv
  <1>2. ASSUME Ready(ids[p][k]) PROVE ids[p][k].name = NameOf[q] /\ Noted(p, q, k)
    <2>1. PICK r \in Service : NameOf[r] = ids[p][k].name /\ Noted(p, r, k)
      BY <1>2 DEF Inv, TableInv
    <2>2. r = q
      BY <1>1, <2>1 DEF Mentions
    <2> QED BY <2>1, <2>2
  <1>3. ASSUME NEW x \in up[p], x[2] = k PROVE x = << q, k >>
    <2>1. up[p] \in SUBSET (Service \X SId)
      BY Vars DEF Inv
    <2>2. x[1] \in Service /\ x = << x[1], k >>
      BY <1>3, <2>1
    <2>3. Mentions(p, x[1], k)
      BY <2>2 DEF Mentions, Noted
    <2> QED BY <1>1, <2>2, <2>3
  <1> QED BY <1>1, <1>2, <1>3

(* An entry that is ready mentions the owner.                              *)
LEMMA ReadyOwned == Inv => \A p \in Service, k \in SId : Clean(p, k) /\ Ready(ids[p][k]) =>
  \E q \in Service : Owner(q, k) /\ Noted(p, q, k)
PROOF
  BY DEF Inv, TableInv, MentionInv, Mentions

(* The invariant holds at first, and is as strong as TablesAgree.          *)
LEMMA InitTables == Init => OrderInv /\ LinksInv /\ NamedInv
PROOF
  <1> SUFFICES ASSUME Init PROVE OrderInv /\ LinksInv /\ NamedInv
    OBVIOUS
  <1>1. Inv
    BY InitInv
  <1>2. /\ toNS = [p \in Service |-> << >>]
        /\ fromNS = [p \in Service |-> << >>]
        /\ stage = [p \in Service |-> "off"]
        /\ sid = [p \in Service |-> 0]
        /\ ids = [p \in Service |-> [k \in SId |-> NotUsed]]
        /\ named = [p \in Service |-> {}]
        /\ link = [c \in Service |-> [p \in Service |-> "none"]]
    BY DEF Init
  <1>3. \A p \in Service : Mail(p) = {} /\ Post(p) = {}
    BY <1>2, EntriesEmpty DEF Mail, Post, Entries
  <1>4. \A p, q \in Service, k \in SId : ~Prior(p, q, k)
    BY <1>2, <1>3 DEF Prior
  <1>5. \A p \in Service : Placed(p)
    BY <1>2, <1>3 DEF Placed, Posted, Dropped
  <1>6. (\A p \in Service : Cleared(p)) /\ AntiInv
    BY <1>4 DEF Cleared, AntiInv
  <1>7. OpenInv
    BY <1>2, <1>4 DEF OpenInv
  <1>8. \A p \in Service, k \in SId : ids[p][k].conn = "empty"
    BY <1>2 DEF NotUsed
  <1>9. PeerInv /\ InvalidInv
    BY <1>8 DEF PeerInv, InvalidInv
  <1>10. NamedInv
    BY <1>2, <1>8 DEF NamedInv, Agree, Valid
  <1> QED BY <1>5, <1>6, <1>7, <1>9, <1>10 DEF OrderInv, LinksInv

(* What it says of the tables is TablesAgree.                              *)
LEMMA TablesFollow == Inv /\ NamedInv => TablesAgree
PROOF
  <1> SUFFICES ASSUME Inv, NamedInv, NEW p \in Service, NEW k \in SId, Clean(p, k)
               PROVE  /\ \A x \in named[p] : x[2] = k => ids[p][k].name = x[1]
                      /\ Valid(ids[p][k]) => /\ << ids[p][k].name, k >> \in named[p]
                                             /\ << ids[p][k].peer, k >> \in up[p]
                      /\ \A x, y \in up[p] : x[2] = k /\ y[2] = k => x = y
    BY DEF TablesAgree
  <1>1. ASSUME NEW x \in up[p], NEW y \in up[p], x[2] = k, y[2] = k PROVE x = y
    <2>1. up[p] \in SUBSET (Service \X SId)
      BY Vars DEF Inv
    <2>2. x[1] \in Service /\ x = << x[1], k >>
      BY <1>1, <2>1
    <2>3. Mentions(p, x[1], k)
      BY <2>2 DEF Mentions, Noted
    <2>4. Owner(x[1], k)
      BY <2>2, <2>3 DEF Inv, MentionInv
    <2> QED BY <1>1, <2>2, <2>4, OwnersOnly
  <1> QED BY <1>1 DEF NamedInv, Agree

-----------------------------------------------------------------------------
(* The order of the registrations.                                         *)

(* A step keeps what p found when it registered.                           *)
StaysOrdered(p) ==
  /\ Placed(p)' /\ Cleared(p)'
  /\ \A q \in Service, k \in SId : Prior(p, q, k)' => Prior(p, q, k)

(* The order is kept; who asks to be registered is about to find others.   *)
OrderKept ==
  /\ OrderInv'
  /\ \A p, q \in Service, k \in SId : Prior(p, q, k)' => Prior(p, q, k) \/ Posted(p, "RG")

(* What keeps it for each service keeps it for any two.                    *)
LEMMA OrderStays ==
  ASSUME OrderInv, \A p \in Service : StaysOrdered(p)
  PROVE  OrderKept
PROOF
  <1>1. OrderInv'
    BY DEF OrderInv, StaysOrdered, AntiInv
  <1> QED BY <1>1 DEF OrderKept, StaysOrdered

(* A message to p is sent or lost, and nothing else is done about p.       *)
LEMMA OrderSent ==
  ASSUME Inv, TypeInv', OrderInv, NEW p \in Service,
         sid'[p] = sid[p], known'[p] = known[p],
         stage'[p] \in {"registered", "connecting"} => stage[p] \in {"registered", "connecting"},
         cnx'[p] = "open" => cnx[p] = "open",
         Posted(p, "RRG")' => stage'[p] \in {"running", "dead"},
         NEW m \in FromNSMessage, SentOrLost(p, m), m.type = "RG" => ~m.ok,
         m.type = "UNB" => sid[p] # m.sid /\ ~Granting(p, m.sid),
         m.type = "RGB" => \A e \in Entries(registry) : e.sid # m.sid,
         \A e \in Available(registry) :
           \/ \E f \in Available(registry)' : f.sid = e.sid
           \/ cnx[p] = "open" /\ (\E q \in Service : Prior(p, q, e.sid)) =>
                fromNS'[p] = Append(fromNS[p], m) /\ m.type = "UNB" /\ m.sid = e.sid
  PROVE  StaysOrdered(p)
PROOF
  <1>1. /\ Mail(p) \subseteq Mail(p)' /\ Mail(p)' \subseteq Mail(p) \union {m}
    BY Sent DEF Inv
  <1>2. Placed(p) /\ Cleared(p)
    BY DEF OrderInv
  <1>3. \A q \in Service, k \in SId : ~Offers(m, q, k)
    BY DEF Offers
  <1>4. \A q \in Service, k \in SId : Prior(p, q, k)' => Prior(p, q, k)
    <2>1. \A q \in Service, k \in SId :
            (\E n \in Mail(p)' : Offers(n, q, k)) => \E n \in Mail(p) : Offers(n, q, k)
      BY <1>1, <1>3
    <2> QED BY <2>1 DEF Prior
  <1>5. \A k \in SId : Granting(p, k)' => Granting(p, k)
    BY <1>1 DEF Granting
  <1>6. \A k \in SId : Dropped(p, k)' => Dropped(p, k) \/ (m.type = "UNB" /\ m.sid = k)
    BY <1>1 DEF Dropped, Drops
  <1>7. Placed(p)'
    <2>1. \A n \in Mail(p)' : n.type = "RG" /\ n.ok => \E e \in Entries(n.list) : e.sid = n.sid
      BY <1>1, <1>2 DEF Placed
    <2>2. stage'[p] \in {"registered", "connecting"} =>
            \E e \in Entries(known'[p]) : e.sid = sid'[p]
      BY <1>2 DEF Placed
    <2>3. \A k \in SId : sid'[p] = k \/ Granting(p, k)' => ~Dropped(p, k)'
      BY <1>2, <1>5, <1>6 DEF Placed
    <2> QED BY <2>1, <2>2, <2>3 DEF Placed
  <1>8. fromNS[p] \in Seq(FromNSMessage)
    BY Vars DEF Inv
  <1>9. ASSUME NEW q \in Service, NEW k \in SId, Prior(p, q, k)' PROVE ~Fresh(p, k)'
    <2>1. Prior(p, q, k) /\ ~Fresh(p, k)
      BY <1>2, <1>4, <1>9 DEF Cleared
    <2>2. CASE fromNS'[p] = fromNS[p]
      BY <2>1, <2>2 DEF Fresh
    <2>3. CASE fromNS'[p] = Append(fromNS[p], m) /\ cnx[p] = "open"
      <3> SUFFICES ASSUME Fresh(p, k)' PROVE FALSE
        OBVIOUS
      <3>1. Early(Append(fromNS[p], m), Calls(k), Drops(k))
        BY <2>3 DEF Fresh
      <3>2. m \in Calls(k) /\ Entries(fromNS[p]) \intersect Drops(k) = {}
        BY <1>8, <2>1, <3>1, EarlyAppend DEF Fresh
      <3>3. ~Dropped(p, k) /\ m.type = "RGB" /\ m.sid = k
        BY <3>2 DEF Dropped, Mail, Calls
      <3>4. \E e \in Available(registry) : e.sid = k
        BY <1>2, <2>1, <2>3, <3>3 DEF Cleared
      <3> QED BY <3>3, <3>4 DEF Available
    <2> QED BY <2>2, <2>3 DEF SentOrLost
  <1>10. ASSUME NEW q \in Service, NEW k \in SId, Prior(p, q, k)', cnx'[p] = "open",
                ~Dropped(p, k)'
         PROVE  \E e \in Available(registry)' : e.sid = k
    <2>1. Prior(p, q, k) /\ cnx[p] = "open"
      BY <1>4, <1>10
    <2>2. ~Dropped(p, k)
      BY <1>1, <1>10 DEF Dropped
    <2>3. PICK e \in Available(registry) : e.sid = k
      BY <1>2, <2>1, <2>2 DEF Cleared
    <2>4. ~(fromNS'[p] = Append(fromNS[p], m) /\ m.type = "UNB" /\ m.sid = k)
      <3> SUFFICES ASSUME fromNS'[p] = Append(fromNS[p], m), m.type = "UNB", m.sid = k PROVE FALSE
        OBVIOUS
      <3>1. m \in Mail(p)'
        BY <1>8, AppendEntries DEF Mail
      <3> QED BY <1>10, <3>1 DEF Dropped, Drops
    <2> QED BY <2>1, <2>3, <2>4
  <1>11. Cleared(p)'
    BY <1>9, <1>10 DEF Cleared
  <1> QED BY <1>4, <1>7, <1>11 DEF StaysOrdered

(* Nothing is done about the mail and the list of p.                       *)
LEMMA OrderSame ==
  ASSUME Inv, TypeInv', OrderInv, NEW p \in Service,
         sid'[p] = sid[p], known'[p] = known[p], fromNS'[p] = fromNS[p],
         stage'[p] \in {"registered", "connecting"} => stage[p] \in {"registered", "connecting"},
         cnx'[p] = "open" => cnx[p] = "open",
         Posted(p, "RRG")' => stage'[p] \in {"running", "dead"},
         \A e \in Available(registry) :
           \/ \E f \in Available(registry)' : f.sid = e.sid
           \/ cnx[p] = "open" => \A q \in Service : ~Prior(p, q, e.sid)
  PROVE  StaysOrdered(p)
PROOF
  <1> DEFINE m == [type |-> "RG", ok |-> FALSE]
  <1>1. m \in FromNSMessage /\ m.type = "RG" /\ ~m.ok
    BY DEF FromNSMessage, Refusal
  <1>2. SentOrLost(p, m)
    BY DEF SentOrLost
  <1> HIDE DEF m
  <1> QED BY <1>1, <1>2, OrderSent

(* Who is not registered, or runs, has nobody before it.                   *)
LEMMA OrderNone ==
  ASSUME NEW p \in Service, stage'[p] \notin {"registered", "connecting"},
         \A m \in Mail(p)' : m.type # "RG",
         \A k \in SId : sid'[p] = k => ~Dropped(p, k)',
         Posted(p, "RRG")' => stage'[p] \in {"running", "dead"}
  PROVE  StaysOrdered(p)
PROOF
  <1>1. \A q \in Service, k \in SId : ~Prior(p, q, k)'
    BY DEF Prior, Offers
  <1>2. \A k \in SId : ~Granting(p, k)'
    BY DEF Granting
  <1>3. Placed(p)'
    BY <1>2 DEF Placed
  <1>4. Cleared(p)'
    BY <1>1 DEF Cleared
  <1> QED BY <1>1, <1>3, <1>4 DEF StaysOrdered

(* The steps that leave the mail and the lists alone, and with which the   *)
(* naming service forgets nobody that is available.                        *)
Aside ==
  /\ UNCHANGED << fromNS, sid, known >>
  /\ \A p \in Service :
       \/ stage'[p] = stage[p]
       \/ stage[p] \in {"registered", "connecting"} /\ stage'[p] \in {"connecting", "running"}
  /\ \A p \in Service : cnx'[p] = "open" => cnx[p] = "open"
  /\ \A p \in Service : Post(p)' \subseteq Post(p)
  /\ Available(registry) \subseteq Available(registry)'

(* Such a step keeps the order.                                           *)
LEMMA AsideOrder ==
  ASSUME Inv, TypeInv', OrderInv, Aside
  PROVE  OrderKept
PROOF
  <1> SUFFICES ASSUME NEW p \in Service PROVE StaysOrdered(p)
    BY OrderStays
  <1>1. sid'[p] = sid[p] /\ known'[p] = known[p] /\ fromNS'[p] = fromNS[p]
    BY DEF Aside
  <1>2. /\ stage'[p] = stage[p] \/ (/\ stage[p] \in {"registered", "connecting"}
                                    /\ stage'[p] \in {"connecting", "running"})
        /\ cnx'[p] = "open" => cnx[p] = "open"
    BY DEF Aside
  <1>3. Posted(p, "RRG")' => Posted(p, "RRG")
    BY DEF Aside, Posted
  <1>4. Posted(p, "RRG") => stage[p] \in {"running", "dead"}
    BY DEF OrderInv, Placed
  <1>5. \A e \in Available(registry) : \E f \in Available(registry)' : f.sid = e.sid
    BY DEF Aside
  <1> QED BY <1>1, <1>2, <1>3, <1>4, <1>5, OrderSame

(* Those of the naming service that send nothing.                          *)
LEMMA SilentSteps ==
  ASSUME Inv, \/ \E p \in Service : NSResend(p) \/ NSAck(p) \/ (NSDisconnect(p) /\ ~Knows(registry, p))
              \/ NSUpdate \/ NSTimeout
  PROVE  Aside /\ UNCHANGED << stage, sid, tables, link >> /\ spoiled \subseteq spoiled'
PROOF
  <1>1. registry \in Seq(Entry)
    BY Vars DEF Inv
  <1>2. ASSUME NEW p \in Service, NSResend(p)
        PROVE  Aside /\ UNCHANGED << stage, sid, tables, link >> /\ spoiled \subseteq spoiled'
    <2>1. /\ Received(p, "RRG") /\ Handled(p)
          /\ registry' = IF Granted(registry, unique, p) THEN Register(registry, p, sid[p])
                                                         ELSE registry
          /\ UNCHANGED << unique, nsUp, fromNS, cnx, stage, sid, tables, link, spoiled >>
      BY <1>2 DEF NSResend
    <2>2. \A q \in Service : Post(q)' \subseteq Post(q)
      BY <2>1, Taken
    <2>3. sid[p] \in SId
      <3>1. Head(toNS[p]).type = "RRG" /\ Head(toNS[p]) \in Post(p)
        BY <2>1, Taken
      <3> QED BY <3>1, Vars DEF Inv, TypeInv, Identified, Post
    <2>4. Available(registry) \subseteq Available(registry)'
      <3>1. Entries(Register(registry, p, sid[p])) =
              Entries(registry) \union {[svc |-> p, sid |-> sid[p], waiting |-> FALSE, acks |-> {}]}
        BY <1>1, <2>3, RegisterEntries
      <3> QED BY <2>1, <3>1 DEF Available
    <2>5. \A q \in Service : stage'[q] = stage[q] /\ cnx'[q] = cnx[q]
      BY <2>1
    <2>6. UNCHANGED << fromNS, sid, known >>
      BY <2>1 DEF tables
    <2> QED BY <2>1, <2>2, <2>4, <2>5, <2>6 DEF Aside
  <1>3. ASSUME NEW p \in Service, NSAck(p)
        PROVE  Aside /\ UNCHANGED << stage, sid, tables, link >> /\ spoiled \subseteq spoiled'
    <2>1. /\ Received(p, "ACK_UNI") /\ Handled(p)
          /\ registry' = Acknowledge(registry, sid[p], Head(toNS[p]).sid)
          /\ UNCHANGED << unique, nsUp, fromNS, cnx, stage, sid, tables, link, spoiled >>
      BY <1>3 DEF NSAck
    <2>2. \A q \in Service : Post(q)' \subseteq Post(q)
      BY <2>1, Taken
    <2>3. Available(registry) \subseteq Available(registry)'
      <3>1. CASE registry' = registry
        BY <3>1
      <3>2. ASSUME NEW h \in DOMAIN registry, Awaits(registry[h], sid[p], Head(toNS[p]).sid),
                   Entries(registry)' =
                     {e \in {registry[i] : i \in DOMAIN registry \ {h}}
                              \union {[registry[h] EXCEPT !.acks = @ \ {sid[p]}]} :
                        e.waiting => e.acks # {}}
            PROVE  Available(registry) \subseteq Available(registry)'
        <4>1. \A e \in Available(registry) :
                e \in {registry[i] : i \in DOMAIN registry \ {h}} /\ ~e.waiting
          BY <3>2 DEF Available, Entries, Awaits
        <4>2. \A e \in Available(registry) : e \in Entries(registry)'
          BY <3>2, <4>1
        <4> QED BY <4>1, <4>2 DEF Available
      <3> QED BY <1>1, <2>1, <3>1, <3>2, AcknowledgeEntries
    <2>4. \A q \in Service : stage'[q] = stage[q] /\ cnx'[q] = cnx[q]
      BY <2>1
    <2>5. UNCHANGED << fromNS, sid, known >>
      BY <2>1 DEF tables
    <2> QED BY <2>1, <2>2, <2>3, <2>4, <2>5 DEF Aside
  <1>4. ASSUME NEW p \in Service, NSDisconnect(p), ~Knows(registry, p)
        PROVE  Aside /\ UNCHANGED << stage, sid, tables, link >> /\ spoiled \subseteq spoiled'
    <2>1. /\ Received(p, "closed") /\ Handled(p)
          /\ UNCHANGED << registry, fromNS, spoiled, unique, nsUp, cnx, stage, sid, tables, link >>
      BY <1>4 DEF NSDisconnect
    <2>2. \A q \in Service : Post(q)' \subseteq Post(q)
      BY <2>1, Taken
    <2>3. \A q \in Service : stage'[q] = stage[q] /\ cnx'[q] = cnx[q]
      BY <2>1
    <2>4. UNCHANGED << fromNS, sid, known >> /\ Available(registry)' = Available(registry)
      BY <2>1 DEF tables
    <2> QED BY <2>1, <2>2, <2>3, <2>4 DEF Aside
  <1>5. ASSUME NSUpdate \/ NSTimeout
        PROVE  Aside /\ UNCHANGED << stage, sid, tables, link >> /\ spoiled \subseteq spoiled'
    <2>1. UNCHANGED << unique, nsUp, toNS, fromNS, cnx, stage, sid, tables, link >>
      BY <1>5 DEF NSUpdate, NSTimeout, channels
    <2>2. Available(registry) \subseteq Available(registry)' /\ spoiled \subseteq spoiled'
      <3>1. CASE NSUpdate
        <4>1. Entries(registry)' = {e \in Entries(registry) : e.waiting => e.acks # {}}
          BY <1>1, <3>1, PurgeEntries DEF NSUpdate
        <4> QED BY <3>1, <4>1 DEF Available, NSUpdate
      <3>2. CASE NSTimeout
        <4>1. PICK e \in Entries(registry) :
                /\ e.waiting
                /\ registry' = Removed(registry, e)
                /\ Spoil({f.svc : f \in {g \in Entries(registry) : g.sid \in e.acks}}, {e.sid})
          BY <3>2 DEF NSTimeout
        <4>2. Entries(registry)' = Entries(registry) \ {e}
          BY <1>1, <4>1, RemovedEntries
        <4> QED BY <4>1, <4>2 DEF Available, Spoil
      <3> QED BY <1>5, <3>1, <3>2
    <2>3. \A q \in Service : stage'[q] = stage[q] /\ cnx'[q] = cnx[q] /\ Post(q)' = Post(q)
      BY <2>1 DEF Post
    <2>4. UNCHANGED << fromNS, sid, known >>
      BY <2>1 DEF tables
    <2> QED BY <2>1, <2>2, <2>3, <2>4 DEF Aside
  <1> QED BY <1>2, <1>3, <1>4, <1>5

(* What a service and its connections do but for registering and ending.   *)
OwnStep ==
  \/ \E p \in Service : NoticeNS(p) \/ Connect(p) \/ Connected(p) \/ AddService(p)
  \/ \E p, q \in Service : ServiceIdentification(p, q) \/ ServerLost(p, q) \/ ClientLost(p, q)
  \/ NSRestart
  \/ UNCHANGED vars

(* The steps that a process takes by itself, and the start of the naming   *)
(* service.                                                                *)
LEMMA OwnSteps ==
  ASSUME OwnStep, Inv
  PROVE  Aside /\ spoiled \subseteq spoiled'
PROOF
  <1> DEFINE Still == /\ UNCHANGED << registry, toNS, fromNS, sid, known >>
                      /\ spoiled \subseteq spoiled'
  <1>a. ASSUME NEW p \in Service, NoticeNS(p) PROVE Still
    BY <1>a DEF NoticeNS, naming, tables
  <1>b. ASSUME NEW p \in Service, Connect(p) PROVE Still
    BY <1>b DEF Connect, naming, channels, tables
  <1>c. ASSUME NEW p \in Service, Connected(p) PROVE Still
    BY <1>c DEF Connected, naming, channels, tables
  <1>d. ASSUME NEW p \in Service, AddService(p)
        PROVE  Still /\ UNCHANGED << stage, cnx >>
    <2>1. UNCHANGED << naming, channels, stage, sid, known, spoiled >>
      BY <1>d, Zenon DEF AddService
    <2> QED BY <2>1 DEF naming, channels
  <1>e. ASSUME NEW p \in Service, NEW q \in Service, ServiceIdentification(p, q)
        PROVE  Still /\ UNCHANGED << stage, cnx >>
    <2>1. UNCHANGED << naming, channels, stage, sid, known >>
      BY <1>e DEF ServiceIdentification
    <2>2. spoiled \subseteq spoiled'
      BY <1>e DEF ServiceIdentification, Spoil
    <2> QED BY <2>1, <2>2 DEF naming, channels
  <1>f. ASSUME NEW p \in Service, NEW q \in Service, ServerLost(p, q)
        PROVE  Still /\ UNCHANGED << stage, cnx >>
    BY <1>f DEF ServerLost, naming, channels, tables
  <1>g. ASSUME NEW p \in Service, NEW q \in Service, ClientLost(p, q)
        PROVE  Still /\ UNCHANGED << stage, cnx >>
    BY <1>g DEF ClientLost, naming, channels
  <1>h. ASSUME NSRestart \/ UNCHANGED vars PROVE Still /\ UNCHANGED << stage, cnx >>
    BY <1>h DEF NSRestart, vars, naming, channels, tables
  <1>i. Still
    BY <1>a, <1>b, <1>c, <1>d, <1>e, <1>f, <1>g, <1>h DEF OwnStep
  <1>1. UNCHANGED << registry, toNS, fromNS, sid, known >>
    BY <1>i
  <1>2. spoiled \subseteq spoiled'
    BY <1>i
  <1>3. ASSUME NEW q \in Service
        PROVE  /\ \/ stage'[q] = stage[q]
                  \/ /\ stage[q] \in {"registered", "connecting"}
                     /\ stage'[q] \in {"connecting", "running"}
               /\ cnx'[q] = "open" => cnx[q] = "open"
    <2>0. DOMAIN stage = Service /\ DOMAIN cnx = Service
      BY Vars DEF Inv
    <2>1. ASSUME NEW p \in Service, NoticeNS(p)
          PROVE  stage'[q] = stage[q] /\ (cnx'[q] = "open" => cnx[q] = "open")
      BY <2>0, <2>1 DEF NoticeNS
    <2>2. ASSUME NEW p \in Service, Connect(p) \/ Connected(p)
          PROVE  /\ \/ stage'[q] = stage[q]
                    \/ /\ stage[q] \in {"registered", "connecting"}
                       /\ stage'[q] \in {"connecting", "running"}
                 /\ cnx'[q] = cnx[q]
      BY <2>0, <2>2 DEF Connect, Connected, channels
    <2>3. ASSUME \/ \E p \in Service : AddService(p)
                 \/ \E p, r \in Service :
                      ServiceIdentification(p, r) \/ ServerLost(p, r) \/ ClientLost(p, r)
                 \/ NSRestart
                 \/ UNCHANGED vars
          PROVE  stage' = stage /\ cnx' = cnx
      BY <2>3, <1>d, <1>e, <1>f, <1>g, <1>h
    <2> QED BY <2>1, <2>2, <2>3 DEF OwnStep
  <1>4. \A p \in Service : Post(p)' \subseteq Post(p)
    BY <1>1 DEF Post
  <1>5. Available(registry)' = Available(registry)
    BY <1>1
  <1>6. UNCHANGED << fromNS, sid, known >>
    BY <1>1
  <1> QED BY <1>2, <1>3, <1>4, <1>5, <1>6 DEF Aside

(* A refusal offers nothing.                                               *)
LEMMA RefuseOrder ==
  ASSUME Inv, OrderInv, NEW p \in Service, NSRefuse(p)
  PROVE  OrderKept
PROOF
  <1> DEFINE refusal == [type |-> "RG", ok |-> FALSE]
  <1>1. /\ Received(p, "RG") /\ Handled(p)
        /\ fromNS' = Reply(fromNS, p, refusal)
        /\ UNCHANGED << naming, cnx, stage, sid, tables, link, faults, spoiled >>
    BY DEF NSRefuse
  <1>2. UNCHANGED << registry, cnx, stage, sid, known >>
    BY <1>1 DEF naming, tables
  <1>3. \A q \in Service : Post(q)' \subseteq Post(q)
    BY <1>1, Taken
  <1>4. refusal \in FromNSMessage /\ refusal.type = "RG" /\ ~refusal.ok
    BY DEF FromNSMessage, Refusal
  <1>5. \A q \in Service : SentOrLost(q, refusal)
    <2>1. fromNS \in [Service -> Seq(FromNSMessage)]
      BY Vars DEF Inv
    <2> QED BY <1>1, <2>1 DEF Reply, SentOrLost
  <1> HIDE DEF refusal
  <1>6. TypeInv'
    BY RefuseType DEF Inv
  <1> SUFFICES ASSUME NEW q \in Service PROVE StaysOrdered(q)
    BY OrderStays
  <1>7. sid'[q] = sid[q] /\ known'[q] = known[q] /\ stage'[q] = stage[q] /\ cnx'[q] = cnx[q]
    BY <1>2
  <1>8. Posted(q, "RRG")' => stage'[q] \in {"running", "dead"}
    BY <1>3, <1>7 DEF OrderInv, Placed, Posted
  <1>9. \A e \in Available(registry) : \E f \in Available(registry)' : f.sid = e.sid
    BY <1>2
  <1> QED BY <1>4, <1>5, <1>6, <1>7, <1>8, <1>9, OrderSent

(* Whoever found the service that leaves is told that it does.             *)
LEMMA DisconnectOrder ==
  ASSUME Inv, OrderInv, NEW p \in Service, NSDisconnect(p), Knows(registry, p)
  PROVE  OrderKept
PROOF
  <1>0. PICK k \in SId : k = SIdOf(registry, p)
    BY Vars, SIdOfType DEF Inv
  <1> DEFINE unb == [type |-> "UNB", svc |-> p, sid |-> k]
  <1>1. /\ Received(p, "closed") /\ Handled(p)
        /\ fromNS' = Broadcast(Recipients, unb)
        /\ registry' = Unregister(registry, p)
        /\ UNCHANGED << unique, nsUp, cnx, stage, sid, tables, link, faults >>
    BY <1>0 DEF NSDisconnect
  <1>2. UNCHANGED << cnx, stage, sid, known >>
    BY <1>1 DEF tables
  <1>3. /\ toNS[p] # << >> /\ Head(toNS[p]) \in Post(p) /\ Head(toNS[p]).type = "closed"
        /\ \A q \in Service : Post(q)' \subseteq Post(q)
    BY <1>1, Taken
  <1>4. TypeInv'
    BY DisconnectType DEF Inv
  <1>5. cnx[p] = "none"
    <2>1. Posted(p, "closed")
      BY <1>3 DEF Posted
    <2> QED BY <2>1 DEF Inv, PostInv, LifeInv, Alive
  <1>6. unb \in FromNSMessage /\ unb.type = "UNB" /\ unb.sid = k
    BY DEF FromNSMessage, News
  <1> HIDE DEF unb
  <1>7. /\ \E e \in Available(registry) : e.svc = p /\ e.sid = k
        /\ \A e \in Entries(registry) : e.svc = p <=> e.sid = k
        /\ \A e \in Entries(registry) : e.svc # p => \E g \in Entries(registry)' :
             g.svc = e.svc /\ g.sid = e.sid /\ g.waiting = e.waiting
    BY <1>0, <1>1, Departs
  <1>8. \A q \in Service : /\ SentOrLost(q, unb)
                           /\ Knows(registry, q) /\ cnx[q] = "open" =>
                                fromNS'[q] = Append(fromNS[q], unb)
    <2>1. fromNS \in [Service -> Seq(FromNSMessage)]
      BY Vars DEF Inv
    <2>2. \A q \in Service : Knows(registry, q) => q \in Recipients
      BY DEF Recipients, Knows
    <2> QED BY <1>1, <2>1, <2>2 DEF Broadcast, SentOrLost
  <1> SUFFICES ASSUME NEW q \in Service PROVE StaysOrdered(q)
    BY OrderStays
  <1>9. sid'[q] = sid[q] /\ known'[q] = known[q] /\ stage'[q] = stage[q] /\ cnx'[q] = cnx[q]
    BY <1>2
  <1>10. Posted(q, "RRG")' => stage'[q] \in {"running", "dead"}
    BY <1>3, <1>9 DEF OrderInv, Placed, Posted
  <1>11. \A e \in Available(registry) : e.sid # k => \E f \in Available(registry)' : f.sid = e.sid
    BY <1>7 DEF Available
  <1>12. CASE cnx[q] # "open"
    <2>1. fromNS'[q] = fromNS[q]
      BY <1>6, <1>8, <1>12, Sent DEF Inv
    <2> QED BY <1>4, <1>9, <1>10, <1>12, <2>1, OrderSame
  <1>13. CASE cnx[q] = "open"
    <2>1. q # p /\ Alive(q)
      BY <1>5, <1>13 DEF Inv, LifeInv
    <2>2. ~Owner(q, k)
      <3>1. Owner(p, k)
        BY <1>7 DEF Owner, Entered, Available
      <3> QED BY <2>1, <3>1 DEF Inv, OwnerInv
    <2>3. sid[q] # k /\ ~Granting(q, k)
      BY <2>1, <2>2 DEF Owner
    <2>4. ASSUME NEW r \in Service, NEW j \in SId, Prior(q, r, j) PROVE Knows(registry, q)
      <3>1. stage[q] \in {"registering", "registered", "connecting"}
        BY <2>4, PriorMentions
      <3>2. ~Posted(q, "RRG")
        BY <3>1 DEF OrderInv, Placed
      <3>3. sid[q] # 0 \/ \E i \in SId : Granting(q, i)
        <4>1. CASE stage[q] \in {"registered", "connecting"}
          BY <4>1 DEF Inv, TypeInv, Identified
        <4>2. CASE stage[q] = "registering"
          <5>1. PICK m \in Mail(q) : Offers(m, r, j)
            BY <2>4, <4>2 DEF Prior
          <5>2. m \in FromNSMessage
            BY Messages DEF Inv
          <5>3. m.sid \in SId
            BY <5>1, <5>2, MessageFields DEF Offers
          <5> QED BY <5>1, <5>3 DEF Offers, Granting
        <4> QED BY <3>1, <4>1, <4>2
      <3> QED BY <1>13, <2>1, <3>2, <3>3 DEF Inv, PostInv
    <2>5. ASSUME NEW e \in Available(registry)
          PROVE  \/ \E f \in Available(registry)' : f.sid = e.sid
                 \/ cnx[q] = "open" /\ (\E r \in Service : Prior(q, r, e.sid)) =>
                      fromNS'[q] = Append(fromNS[q], unb) /\ unb.type = "UNB" /\ unb.sid = e.sid
      <3>1. e.sid \in SId
        BY RegistryEntries DEF Inv, Entry, Available
      <3> QED BY <1>6, <1>8, <1>11, <2>4, <3>1
    <2> QED BY <1>4, <1>6, <1>8, <1>9, <1>10, <2>3, <2>5, OrderSent
  <1> QED BY <1>12, <1>13

(* A new service finds those that were there before it: none of them found *)
(* it, and it has no mail yet.                                             *)
LEMMA AcceptOrder ==
  ASSUME Inv, OrderInv, NEW p \in Service, NSAccept(p)
  PROVE  OrderKept
PROOF
  <1>1. /\ Received(p, "RG") /\ Handled(p)
        /\ FreeSIds(registry) # {}
        /\ UNCHANGED << unique, nsUp, cnx, stage, sid, tables, link, spoiled >>
    BY DEF NSAccept
  <1>0. PICK k \in SId : k = Min(FreeSIds(registry)) /\ \A e \in Entries(registry) : e.sid # k
    <2>1. FreeSIds(registry) \in SUBSET Nat
      BY SIdNat DEF FreeSIds
    <2>2. Min(FreeSIds(registry)) \in FreeSIds(registry)
      BY <1>1, <2>1, MinProperties
    <2> QED BY <2>2 DEF FreeSIds
  <1>2. UNCHANGED << cnx, stage, sid, known >>
    BY <1>1 DEF tables
  <1>3. /\ Head(toNS[p]) \in Post(p) /\ Head(toNS[p]).type = "RG"
        /\ \A q \in Service : Post(q)' \subseteq Post(q)
    BY <1>1, Taken
  <1>4. TypeInv'
    BY AcceptType DEF Inv
  <1>5. /\ fromNS[p] = << >> /\ sid[p] = 0
        /\ \A j \in SId : ~Trace(p, j)
        /\ stage[p] \in {"registering", "dead"}
        /\ \A q \in Service : ~Posted(q, "RRG")
    BY <1>3, Asking DEF Posted
  <1>6. \A e \in Entries(registry) : e.sid \in SId /\ e.svc # p
    <2>1. \A e \in Entries(registry) : e.svc \in Service /\ e.sid \in SId
      BY RegistryEntries DEF Inv, Entry
    <2> QED BY <1>5, <2>1 DEF Trace, Entered
  <1>7. PICK new \in Entry : /\ new.svc = p /\ new.sid = k
                             /\ Available(registry)' = Available(registry) \union {new}
    <2>1. registry \in Seq(Entry) /\ Distinct(registry)
      BY Vars DEF Inv, RegistryInv
    <2>2. registry' = Register(registry, p, k)
      BY <1>0 DEF NSAccept
    <2> QED BY <1>0, <2>1, <2>2, Registers
  <1>8. PICK list \in Seq(Entry) :
          list = Accessible(registry') /\ Entries(list) = Available(registry)'
    <2>1. registry' \in Seq(Entry)
      BY <1>4 DEF TypeInv, Typed, NamingType
    <2> QED BY <2>1, AccessibleEntries
  <1> DEFINE rgb == [type |-> "RGB", svc |-> p, sid |-> k]
             rg == [type |-> "RG", ok |-> TRUE, sid |-> k, list |-> list]
  <1>9. fromNS' = Reply(Broadcast(Recipients, rgb), p, rg)
    BY <1>0, <1>8 DEF NSAccept
  <1>10. /\ rgb \in FromNSMessage /\ rgb.type = "RGB" /\ rgb.sid = k
         /\ rg \in FromNSMessage /\ rg.type = "RG" /\ rg.ok /\ rg.sid = k /\ rg.list = list
    BY DEF FromNSMessage, News, Answers
  <1> HIDE DEF rgb, rg
  <1>11. /\ \A q \in Service : q # p => SentOrLost(q, rgb)
         /\ Mail(p)' \subseteq {rg}
    <2>1. fromNS \in [Service -> Seq(FromNSMessage)]
      BY Vars DEF Inv
    <2>2. Broadcast(Recipients, rgb) \in [Service -> Seq(FromNSMessage)]
      BY <1>10, <2>1, BroadcastType
    <2>3. p \notin Recipients
      BY <1>6 DEF Recipients, Available
    <2>4. Broadcast(Recipients, rgb)[p] = << >>
      BY <1>5, <2>3 DEF Broadcast
    <2>5. fromNS'[p] = << rg >> \/ fromNS'[p] = << >>
      <3>1. fromNS'[p] = Append(<< >>, rg) \/ fromNS'[p] = << >>
        BY <1>9, <2>2, <2>4 DEF Reply
      <3> QED BY <3>1
    <2>6. Mail(p)' \subseteq {rg}
      BY <2>5, EntriesSingle, EntriesEmpty DEF Mail, Entries
    <2>7. \A q \in Service : q # p => fromNS'[q] = Broadcast(Recipients, rgb)[q]
      BY <1>9, <2>2 DEF Reply
    <2> QED BY <2>6, <2>7 DEF Broadcast, SentOrLost
  <1>12. \A q \in Service : q # p => StaysOrdered(q)
    <2> SUFFICES ASSUME NEW q \in Service, q # p PROVE StaysOrdered(q)
      OBVIOUS
    <2>1. sid'[q] = sid[q] /\ known'[q] = known[q] /\ stage'[q] = stage[q] /\ cnx'[q] = cnx[q]
      BY <1>2
    <2>2. ~Posted(q, "RRG")'
      BY <1>3, <1>5 DEF Posted
    <2>3. \A e \in Available(registry) : \E f \in Available(registry)' : f.sid = e.sid
      BY <1>7
    <2> QED BY <1>0, <1>4, <1>10, <1>11, <2>1, <2>2, <2>3, OrderSent
  <1>13. \A q \in Service, j \in SId : Prior(p, q, j)' =>
           q # p /\ \E e \in Available(registry)' : e.sid = j
    <2> SUFFICES ASSUME NEW q \in Service, NEW j \in SId, Prior(p, q, j)'
                 PROVE  q # p /\ \E e \in Available(registry)' : e.sid = j
      OBVIOUS
    <2>1. stage'[p] \notin {"registered", "connecting"}
      BY <1>2, <1>5
    <2>2. Offers(rg, q, j)
      BY <1>11, <2>1 DEF Prior
    <2>3. PICK e \in Available(registry)' : e.svc = q /\ e.sid = j
      BY <1>8, <1>10, <2>2 DEF Offers
    <2>4. j # k
      BY <1>10, <2>2 DEF Offers
    <2>5. e \in Available(registry)
      BY <1>7, <2>3, <2>4
    <2>6. q # p
      BY <1>6, <2>3, <2>5 DEF Available
    <2> QED BY <2>3, <2>6
  <1>14. Placed(p)'
    <2>1. \E e \in Entries(rg.list) : e.sid = rg.sid
      BY <1>7, <1>8, <1>10
    <2>2. \A m \in Mail(p)' : m.type = "RG" /\ m.ok => \E e \in Entries(m.list) : e.sid = m.sid
      BY <1>11, <2>1
    <2>3. stage'[p] \notin {"registered", "connecting"}
      BY <1>2, <1>5
    <2>4. \A j \in SId : ~Dropped(p, j)'
      BY <1>10, <1>11 DEF Dropped, Drops
    <2>5. ~Posted(p, "RRG")'
      BY <1>3, <1>5 DEF Posted
    <2> QED BY <2>2, <2>3, <2>4, <2>5 DEF Placed
  <1>15. Cleared(p)'
    <2>1. \A j \in SId : Mail(p)' \intersect Calls(j) = {}
      BY <1>10, <1>11 DEF Calls
    <2>2. \A j \in SId : ~Fresh(p, j)'
      BY <2>1, EarlyFound DEF Fresh, Mail
    <2> QED BY <1>13, <2>2 DEF Cleared
  <1>16. AntiInv'
    <2> SUFFICES ASSUME NEW a \in Service, NEW b \in Service, NEW i \in SId, NEW j \in SId,
                        Prior(a, b, i)', Prior(b, a, j)'
                 PROVE  FALSE
      BY DEF AntiInv
    <2>1. \A q \in Service, h \in SId : q # p => ~Prior(q, p, h)'
      <3> SUFFICES ASSUME NEW q \in Service, NEW h \in SId, q # p, Prior(q, p, h) PROVE FALSE
        BY <1>12 DEF StaysOrdered
      <3>1. Mentions(q, p, h)
        BY PriorMentions
      <3> QED BY <1>5, <3>1 DEF Trace
    <2>2. ~Prior(p, p, i)'
      BY <1>13
    <2>3. a # p /\ b # p
      BY <2>1, <2>2
    <2> QED BY <1>12, <2>3 DEF StaysOrdered, OrderInv, AntiInv
  <1>17. \A q \in Service : Placed(q)' /\ Cleared(q)'
    BY <1>12, <1>14, <1>15 DEF StaysOrdered
  <1>18. Posted(p, "RG")
    BY <1>3 DEF Posted
  <1>19. OrderInv'
    BY <1>16, <1>17 DEF OrderInv
  <1> QED BY <1>12, <1>18, <1>19 DEF OrderKept, StaysOrdered

(* A process starts, or connects to the naming service again.              *)
LEMMA StartOrder ==
  ASSUME Inv, OrderInv, NEW p \in Service, Start(p) \/ Reconnect(p)
  PROVE  OrderKept
PROOF
  <1> DEFINE first == IF stage[p] = "running" THEN [type |-> "RRG"] ELSE [type |-> "RG"]
  <1>1. /\ UNCHANGED << registry, fromNS, sid, known >>
        /\ cnx' = [cnx EXCEPT ![p] = "open"]
        /\ toNS' = [toNS EXCEPT ![p] = << first >>]
        /\ stage[p] \in {"off", "running"}
        /\ stage[p] = "running" => stage' = stage
        /\ stage[p] = "off" => stage' = [stage EXCEPT ![p] = "registering"]
    <2>1. CASE Start(p)
      BY <2>1 DEF Start, naming, tables
    <2>2. CASE Reconnect(p)
      BY <2>2 DEF Reconnect, naming, tables
    <2> QED BY <2>1, <2>2
  <1>2. stage[p] # "running" => first.type = "RG"
    OBVIOUS
  <1> HIDE DEF first
  <1>3. /\ toNS \in [Service -> Seq(ToNSMessage)]
        /\ cnx \in [Service -> {"none", "open", "cut"}]
        /\ stage \in [Service -> {"off", "registering", "registered", "connecting", "running",
                                  "dead"}]
    BY Vars DEF Inv
  <1>4. \A q \in Service : q # p => /\ stage'[q] = stage[q] /\ cnx'[q] = cnx[q]
                                    /\ toNS'[q] = toNS[q]
    BY <1>1, <1>3
  <1>5. TypeInv'
    BY StartType, ReconnectType DEF Inv
  <1>6. \A q \in Service : /\ sid'[q] = sid[q] /\ known'[q] = known[q] /\ fromNS'[q] = fromNS[q]
                           /\ Mail(q)' = Mail(q)
    BY <1>1 DEF Mail
  <1>7. ASSUME NEW q \in Service, q # p PROVE StaysOrdered(q)
    <2>1. Posted(q, "RRG")' => stage'[q] \in {"running", "dead"}
      BY <1>4, <1>7 DEF OrderInv, Placed, Posted, Post
    <2>2. \A e \in Available(registry) : \E f \in Available(registry)' : f.sid = e.sid
      BY <1>1
    <2> QED BY <1>4, <1>5, <1>6, <1>7, <2>1, <2>2, OrderSame
  <1>8. StaysOrdered(p)
    <2>1. /\ stage'[p] \notin {"registered", "connecting"}
          /\ stage[p] = "running" => stage'[p] = "running"
      BY <1>1, <1>3
    <2>2. \A m \in Mail(p)' : m.type # "RG"
      BY <1>1, <1>6 DEF Inv, LifeInv
    <2>3. \A k \in SId : sid'[p] = k => ~Dropped(p, k)'
      BY <1>6 DEF OrderInv, Placed, Dropped
    <2>4. Posted(p, "RRG")' => stage'[p] \in {"running", "dead"}
      <3>1. toNS'[p] = << first >>
        BY <1>1, <1>3
      <3>2. Post(p)' = {first}
        BY <3>1, EntriesSingle DEF Post
      <3> QED BY <1>2, <2>1, <3>2 DEF Posted
    <2> QED BY <2>1, <2>2, <2>3, <2>4, OrderNone
  <1> QED BY <1>7, <1>8, OrderStays

(* A process that ends found nobody.                                       *)
LEMMA EndsOrder ==
  ASSUME Inv, TypeInv', OrderInv, NEW p \in Service, Ends(p), UNCHANGED << naming, sid >>
  PROVE  OrderKept
PROOF
  <1>1. /\ UNCHANGED << registry, sid >>
        /\ stage' = [stage EXCEPT ![p] = "dead"]
        /\ toNS' = Send(p, [type |-> "closed"])
        /\ fromNS' = [fromNS EXCEPT ![p] = << >>]
        /\ cnx' = [cnx EXCEPT ![p] = "none"]
        /\ known' = [known EXCEPT ![p] = << >>]
    BY DEF Ends, naming
  <1>2. /\ toNS \in [Service -> Seq(ToNSMessage)]
        /\ fromNS \in [Service -> Seq(FromNSMessage)]
        /\ cnx \in [Service -> {"none", "open", "cut"}]
        /\ stage \in [Service -> {"off", "registering", "registered", "connecting", "running",
                                  "dead"}]
        /\ known \in [Service -> Seq([svc : Service, sid : SId])]
    BY Vars DEF Inv
  <1>3. stage'[p] = "dead" /\ Mail(p)' = {}
    <2>1. stage'[p] = "dead" /\ fromNS'[p] = << >>
      BY <1>1, <1>2
    <2> QED BY <2>1, EntriesEmpty DEF Mail, Entries
  <1>4. \A q \in Service : q # p =>
          /\ stage'[q] = stage[q] /\ fromNS'[q] = fromNS[q] /\ cnx'[q] = cnx[q]
          /\ known'[q] = known[q] /\ toNS'[q] = toNS[q]
    BY <1>1, <1>2 DEF Send
  <1>5. ASSUME NEW q \in Service, q # p PROVE StaysOrdered(q)
    <2>1. Posted(q, "RRG")' => stage'[q] \in {"running", "dead"}
      BY <1>4, <1>5 DEF OrderInv, Placed, Posted, Post
    <2>2. \A e \in Available(registry) : \E f \in Available(registry)' : f.sid = e.sid
      BY <1>1
    <2>3. sid'[q] = sid[q]
      BY <1>1
    <2> QED BY <1>4, <1>5, <2>1, <2>2, <2>3, OrderSame
  <1>6. StaysOrdered(p)
    BY <1>3, OrderNone DEF Dropped
  <1> QED BY <1>5, <1>6, OrderStays

(* A process takes a message, and for those that are prior it was not that *)
(* they left.                                                              *)
LEMMA OrderRead ==
  ASSUME Inv, TypeInv', OrderInv, NEW p \in Service, NEW type, Arrived(p, type),
         fromNS' = [fromNS EXCEPT ![p] = Tail(@)],
         UNCHANGED << registry, cnx >>,
         \A q \in Service : q # p => /\ stage'[q] = stage[q] /\ sid'[q] = sid[q]
                                     /\ known'[q] = known[q] /\ Post(q)' = Post(q),
         \A q \in Service, k \in SId : Prior(p, q, k)' =>
           Prior(p, q, k) /\ Head(fromNS[p]) \notin Drops(k),
         stage'[p] \in {"registered", "connecting"} =>
           \E e \in Entries(known[p])' : e.sid = sid'[p],
         sid'[p] = sid[p] \/ Granting(p, sid'[p]),
         Posted(p, "RRG")' => stage'[p] \in {"running", "dead"}
  PROVE  OrderKept
PROOF
  <1>1. fromNS \in [Service -> Seq(FromNSMessage)] /\ fromNS[p] \in Seq(FromNSMessage)
    BY Vars DEF Inv
  <1>2. fromNS[p] # << >> /\ fromNS'[p] = Tail(fromNS[p])
    BY <1>1 DEF Arrived
  <1>3. /\ Mail(p) = {Head(fromNS[p])} \union Mail(p)'
        /\ \A q \in Service : q # p => fromNS'[q] = fromNS[q]
        /\ \A m \in Mail(p)' : m.type # "RG"
    BY Read
  <1>4. \A k \in SId : Head(fromNS[p]) \notin Drops(k) =>
          (Fresh(p, k)' => Fresh(p, k)) /\ (Dropped(p, k) => Dropped(p, k)')
    BY <1>1, <1>2, <1>3, EarlyTail DEF Fresh, Dropped
  <1>5. ASSUME NEW q \in Service, q # p PROVE StaysOrdered(q)
    <2>1. Posted(q, "RRG")' => stage'[q] \in {"running", "dead"}
      BY <1>5 DEF OrderInv, Placed, Posted
    <2>2. \A e \in Available(registry) : \E f \in Available(registry)' : f.sid = e.sid
      OBVIOUS
    <2>3. fromNS'[q] = fromNS[q]
      BY <1>3, <1>5
    <2> QED BY <1>5, <2>1, <2>2, <2>3, OrderSame
  <1>6. Placed(p)'
    <2>1. \A k \in SId : ~Granting(p, k)'
      BY <1>3 DEF Granting
    <2>2. \A k \in SId : sid'[p] = k => ~Dropped(p, k)'
      <3>1. \A k \in SId : Dropped(p, k)' => Dropped(p, k)
        BY <1>3 DEF Dropped
      <3> QED BY <3>1 DEF OrderInv, Placed
    <2> QED BY <1>3, <2>1, <2>2 DEF Placed
  <1>7. Cleared(p)'
    <2> SUFFICES ASSUME NEW q \in Service, NEW k \in SId, Prior(p, q, k)'
                 PROVE  /\ ~Fresh(p, k)'
                        /\ cnx'[p] = "open" /\ ~Dropped(p, k)' =>
                             \E e \in Available(registry)' : e.sid = k
      BY DEF Cleared
    <2>1. Prior(p, q, k) /\ Head(fromNS[p]) \notin Drops(k)
      OBVIOUS
    <2>2. ~Fresh(p, k) /\ (cnx[p] = "open" /\ ~Dropped(p, k) =>
                             \E e \in Available(registry) : e.sid = k)
      BY <2>1 DEF OrderInv, Cleared
    <2> QED BY <1>4, <2>1, <2>2
  <1>8. StaysOrdered(p)
    BY <1>6, <1>7 DEF StaysOrdered
  <1> QED BY <1>5, <1>8, OrderStays

(* The list it is given is the one that was offered.                       *)
LEMMA RegisteredOrder ==
  ASSUME Inv, OrderInv, NEW p \in Service, Registered(p)
  PROVE  OrderKept
PROOF
  <1>1. /\ stage[p] = "registering" /\ Arrived(p, "RG")
        /\ UNCHANGED naming /\ UNCHANGED registry
    BY DEF Registered, naming
  <1>2. TypeInv'
    BY RegisteredType DEF Inv
  <1>3. PICK rg \in FromNSMessage : rg = Head(fromNS[p]) /\ rg.type = "RG" /\ rg \in Mail(p)
    <2>1. fromNS[p] # << >>
      BY <1>1 DEF Arrived
    <2> QED BY <1>1, ArrivedType DEF Inv, TypeInv, Typed, Mail
  <1>4. ASSUME rg.ok,
               stage' = [stage EXCEPT ![p] = "registered"],
               sid' = [sid EXCEPT ![p] = rg.sid],
               known' = [known EXCEPT ![p] =
                           [i \in DOMAIN rg.list |->
                              [svc |-> rg.list[i].svc, sid |-> rg.list[i].sid]]],
               fromNS' = [fromNS EXCEPT ![p] = Tail(@)],
               UNCHANGED << toNS, cnx >>
        PROVE  OrderKept
    <2>1. rg.sid \in SId /\ rg.list \in Seq(Entry)
      BY <1>3, <1>4, MessageFields
    <2>2. /\ stage \in [Service -> {"off", "registering", "registered", "connecting", "running",
                                    "dead"}]
          /\ sid \in [Service -> SId \union {0}]
          /\ known \in [Service -> Seq([svc : Service, sid : SId])]
      BY Vars DEF Inv
    <2> DEFINE list == rg.list
               new == [i \in DOMAIN list |-> [svc |-> list[i].svc, sid |-> list[i].sid]]
    <2>3. stage'[p] = "registered" /\ sid'[p] = rg.sid /\ known'[p] = new
      BY <1>4, <2>2
    <2>4. \A q \in Service : q # p =>
            stage'[q] = stage[q] /\ sid'[q] = sid[q] /\ known'[q] = known[q]
      BY <1>4, <2>2
    <2>5. DOMAIN new = DOMAIN list
          /\ \A i \in DOMAIN list : new[i].svc = list[i].svc /\ new[i].sid = list[i].sid
      OBVIOUS
    <2> HIDE DEF new
    <2>6. \A q \in Service : Post(q)' = Post(q)
      BY <1>4 DEF Post
    <2>7. \A m \in Mail(p)' : m.type # "RG"
      BY <1>1, <1>4, Read
    <2>8. ASSUME NEW q \in Service, NEW k \in SId, Prior(p, q, k)'
          PROVE  Prior(p, q, k) /\ Head(fromNS[p]) \notin Drops(k)
      <3>1. rg.sid # k /\ Early(new, At(q, k), Own(rg.sid))
        BY <2>3, <2>7, <2>8 DEF Prior, Offers
      <3>2. Entries(new) \intersect At(q, k) # {}
        BY <3>1, EarlyFound
      <3>3. PICK i \in DOMAIN list : list[i].svc = q /\ list[i].sid = k
        BY <2>5, <3>2 DEF Entries, At
      <3>4. Offers(rg, q, k)
        BY <1>3, <1>4, <3>1, <3>3 DEF Offers, Entries
      <3>5. Head(fromNS[p]) \notin Drops(k)
        BY <1>3 DEF Drops
      <3> QED BY <1>3, <3>4, <3>5 DEF Prior
    <2>9. \E e \in Entries(known[p])' : e.sid = sid'[p]
      <3>1. PICK e \in Entries(list) : e.sid = rg.sid
        BY <1>3, <1>4 DEF OrderInv, Placed
      <3>2. PICK i \in DOMAIN list : list[i].sid = rg.sid
        BY <3>1 DEF Entries
      <3>3. new[i] \in Entries(new) /\ new[i].sid = rg.sid
        BY <2>5, <3>2 DEF Entries
      <3> QED BY <2>3, <3>3
    <2>10. Granting(p, sid'[p])
      BY <1>3, <1>4, <2>3 DEF Granting
    <2>11. ~Posted(p, "RRG")'
      BY <1>1, <2>6 DEF OrderInv, Placed, Posted
    <2> QED BY <1>1, <1>2, <1>4, <2>4, <2>6, <2>8, <2>9, <2>10, <2>11, OrderRead
  <1>5. ASSUME Ends(p), UNCHANGED sid PROVE OrderKept
    BY <1>1, <1>2, <1>5, EndsOrder
  <1>6. \/ /\ rg.ok
           /\ stage' = [stage EXCEPT ![p] = "registered"]
           /\ sid' = [sid EXCEPT ![p] = rg.sid]
           /\ known' = [known EXCEPT ![p] =
                          [i \in DOMAIN rg.list |->
                             [svc |-> rg.list[i].svc, sid |-> rg.list[i].sid]]]
           /\ fromNS' = [fromNS EXCEPT ![p] = Tail(@)]
           /\ UNCHANGED << toNS, cnx >>
        \/ Ends(p) /\ UNCHANGED sid
    BY <1>3 DEF Registered
  <1> QED BY <1>4, <1>5, <1>6

(* A new service is behind p in its list: it replaces none that p found,   *)
(* as p would have been told first that this one left.                     *)
LEMMA RegisterBroadcastOrder ==
  ASSUME Inv, OrderInv, NEW p \in Service, RegisterBroadcast(p)
  PROVE  OrderKept
PROOF
  <1>1. /\ Updates(p) /\ Arrived(p, "RGB")
        /\ fromNS' = [fromNS EXCEPT ![p] = Tail(@)]
        /\ UNCHANGED << registry, toNS, cnx, stage, sid >>
    BY DEF RegisterBroadcast, naming
  <1>2. PICK m \in FromNSMessage : m = Head(fromNS[p])
    BY <1>1, Read
  <1>3. /\ m.type = "RGB" /\ \A n \in Mail(p)' : n.type # "RG"
        /\ Mail(p) = {m} \union Mail(p)'
    BY <1>1, <1>2, Read
  <1>4. PICK c \in Service, k \in SId : c = m.svc /\ k = m.sid
    BY <1>3, MessageFields
  <1>5. /\ known \in [Service -> Seq([svc : Service, sid : SId])]
        /\ known[p] \in Seq([svc : Service, sid : SId])
    BY Vars DEF Inv
  <1> DEFINE list == known[p]
             t == [i \in DOMAIN list |->
                     IF list[i].sid = k THEN [list[i] EXCEPT !.svc = c] ELSE list[i]]
             x == [svc |-> c, sid |-> k]
  <1>6. /\ known'[p] = t \/ known'[p] = Append(list, x)
        /\ \A q \in Service : q # p => known'[q] = known[q]
    BY ZenonT(60), <1>2, <1>4, <1>5 DEF RegisterBroadcast, Add
  <1>7. \A i \in DOMAIN list : list[i] \in [svc : Service, sid : SId]
    BY <1>5, EntriesType
  <1>8. /\ DOMAIN t = DOMAIN list
        /\ \A i \in DOMAIN list : /\ t[i].sid = list[i].sid
                                  /\ t[i] \in [svc : Service, sid : SId]
                                  /\ list[i].sid # k => t[i] = list[i]
    BY <1>7
  <1>9. x \in [svc : Service, sid : SId]
    OBVIOUS
  <1> HIDE DEF t, x
  <1>10. \A j \in SId : m \notin Drops(j)
    BY <1>3 DEF Drops
  <1>11. Fresh(p, k)
    <2>1. fromNS[p] \in Seq(FromNSMessage) /\ fromNS[p] # << >>
      BY <1>1, Vars DEF Inv, Arrived
    <2>2. Head(fromNS[p]) \in Calls(k)
      BY <1>2, <1>3, <1>4 DEF Calls
    <2> QED BY <2>1, <2>2, EarlyTail DEF Fresh
  <1>12. ASSUME NEW q \in Service, NEW j \in SId, Prior(p, q, j)'
         PROVE  Prior(p, q, j)
    <2>1. /\ stage[p] \in {"registered", "connecting"} /\ sid[p] # j
          /\ Early(known'[p], At(q, j), Own(sid[p]))
      BY <1>1, <1>3, <1>12 DEF Prior, Offers
    <2>2. CASE known'[p] = Append(list, x)
      <3>1. Early(list, At(q, j), Own(sid[p])) \/ Entries(list) \intersect Own(sid[p]) = {}
        <4> DEFINE S == [svc : Service, sid : SId]
                   A == At(q, j)
                   B == Own(sid[p])
        <4>1. list \in Seq(S) /\ x \in S /\ Early(Append(list, x), A, B)
          BY <1>5, <1>9, <2>1, <2>2
        <4> HIDE DEF S, A, B, list
        <4>2. Early(list, A, B) \/ Entries(list) \intersect B = {}
          BY <4>1, EarlyAppend
        <4> QED BY <4>2 DEF A, B
      <3>2. Entries(list) \intersect Own(sid[p]) # {}
        <4>1. PICK e \in Entries(list) : e.sid = sid[p]
          BY <2>1 DEF OrderInv, Placed
        <4>2. e \in [svc : Service, sid : SId]
          BY <1>5, EntriesType
        <4> QED BY <4>1, <4>2 DEF Own
      <3> QED BY <2>1, <3>1, <3>2 DEF Prior
    <2>3. CASE known'[p] = t
      <3>1. PICK i \in DOMAIN t :
              t[i] \in At(q, j) /\ \A d \in DOMAIN t : d < i => t[d] \notin Own(sid[p])
        BY <2>1, <2>3 DEF Early
      <3>2. \A d \in DOMAIN list : d < i => list[d] \notin Own(sid[p])
        BY <1>8, <3>1 DEF Own
      <3>3. PICK r \in Service : r = list[i].svc
        BY <1>7, <1>8, <3>1
      <3>4. list[i] \in At(r, j)
        BY <1>7, <1>8, <3>1, <3>3 DEF At
      <3>5. Early(list, At(r, j), Own(sid[p]))
        BY <1>8, <3>1, <3>2, <3>4 DEF Early
      <3>6. Prior(p, r, j)
        BY <2>1, <3>5 DEF Prior
      <3>7. j # k
        BY <1>11, <3>6 DEF OrderInv, Cleared
      <3>8. t[i] = list[i]
        BY <1>8, <3>1, <3>7 DEF At
      <3>9. r = q
        BY <3>1, <3>3, <3>8 DEF At
      <3> QED BY <3>6, <3>9
    <2> QED BY <1>6, <2>2, <2>3
  <1>13. stage'[p] \in {"registered", "connecting"} => \E e \in Entries(known[p])' : e.sid = sid'[p]
    <2> SUFFICES ASSUME stage'[p] \in {"registered", "connecting"}
                 PROVE  \E e \in Entries(known[p])' : e.sid = sid'[p]
      OBVIOUS
    <2>1. PICK e \in Entries(list) : e.sid = sid[p]
      BY <1>1 DEF OrderInv, Placed
    <2>2. CASE known'[p] = Append(list, x)
      <3> DEFINE S == [svc : Service, sid : SId]
      <3>0. list \in Seq(S) /\ x \in S
        BY <1>5, <1>9
      <3> HIDE DEF S, list
      <3>1. Entries(Append(list, x)) = Entries(list) \union {x}
        BY <3>0, AppendEntries
      <3> QED BY <1>1, <2>1, <2>2, <3>1 DEF list
    <2>3. CASE known'[p] = t
      <3>1. PICK i \in DOMAIN list : list[i].sid = sid[p]
        BY <2>1 DEF Entries
      <3>2. t[i] \in Entries(t) /\ t[i].sid = sid[p]
        BY <1>8, <3>1 DEF Entries
      <3> QED BY <1>1, <2>3, <3>2
    <2> QED BY <1>6, <2>2, <2>3
  <1>14. \A q \in Service : q # p => /\ stage'[q] = stage[q] /\ sid'[q] = sid[q]
                                     /\ known'[q] = known[q] /\ Post(q)' = Post(q)
    BY <1>1, <1>6 DEF Post
  <1>15. Posted(p, "RRG")' => stage'[p] \in {"running", "dead"}
    BY <1>1 DEF OrderInv, Placed, Posted, Post
  <1>16. TypeInv'
    BY RegisterBroadcastType DEF Inv
  <1>17. sid'[p] = sid[p] /\ UNCHANGED << registry, cnx >>
    BY <1>1
  <1> QED BY <1>1, <1>2, <1>10, <1>12, <1>13, <1>14, <1>15, <1>16, <1>17, OrderRead

(* A service is taken from the list that is not p.                         *)
LEMMA UnregisterBroadcastOrder ==
  ASSUME Inv, OrderInv, NEW p \in Service, UnregisterBroadcast(p)
  PROVE  OrderKept
PROOF
  <1>1. /\ Updates(p) /\ Arrived(p, "UNB")
        /\ fromNS' = [fromNS EXCEPT ![p] = Tail(@)]
        /\ UNCHANGED << registry, cnx, stage, sid >>
    BY DEF UnregisterBroadcast, naming
  <1>2. PICK m \in FromNSMessage : m = Head(fromNS[p])
    BY <1>1, Read
  <1>3. /\ m.type = "UNB" /\ \A n \in Mail(p)' : n.type # "RG"
        /\ Mail(p) = {m} \union Mail(p)'
    BY <1>1, <1>2, Read
  <1>4. PICK k \in SId : k = m.sid
    BY <1>3, MessageFields
  <1> DEFINE ack == [type |-> "ACK_UNI", sid |-> k]
  <1>5. /\ known \in [Service -> Seq([svc : Service, sid : SId])]
        /\ known[p] \in Seq([svc : Service, sid : SId])
        /\ toNS \in [Service -> Seq(ToNSMessage)]
    BY Vars DEF Inv
  <1>6. /\ known'[p] = Without(known[p], k) /\ toNS' = Send(p, ack)
        /\ \A q \in Service : q # p => known'[q] = known[q]
    BY <1>2, <1>4, <1>5 DEF UnregisterBroadcast
  <1>7. ack \in ToNSMessage /\ ack.type = "ACK_UNI"
    BY DEF ToNSMessage
  <1> HIDE DEF ack
  <1>8. sid[p] # k
    BY <1>3, <1>4 DEF OrderInv, Placed, Dropped, Drops
  <1>9. Entries(known'[p]) = {e \in Entries(known[p]) : e.sid # k}
    BY <1>5, <1>6, WithoutEntries DEF Inv, TableInv
  <1>10. \A A, B : (\A e \in Entries(known[p]) : e.sid = k => e \notin B) /\ Early(known'[p], A, B)
                      => Early(known[p], A, B)
    <2> SUFFICES ASSUME NEW A, NEW B, \A e \in Entries(known[p]) : e.sid = k => e \notin B,
                        Early(known'[p], A, B)
                 PROVE  Early(known[p], A, B)
      OBVIOUS
    <2> DEFINE found == {i \in DOMAIN known[p] : known[p][i].sid = k}
    <2>1. CASE found = {}
      BY <1>6, <2>1 DEF Without
    <2>2. CASE found # {}
      <3>1. found \in SUBSET Nat
        <4>1. DOMAIN known[p] = 1 .. Len(known[p]) /\ Len(known[p]) \in Nat
          BY <1>5, LenProperties
        <4> QED BY <4>1
      <3>2. Min(found) \in found
        BY <2>2, <3>1, MinProperties
      <3>3. known'[p] = Kept(known[p], DOMAIN known[p] \ {Min(found)})
        BY <1>6, <2>2 DEF Without
      <3>4. \A i \in DOMAIN known[p] \ (DOMAIN known[p] \ {Min(found)}) : known[p][i] \notin B
        BY <3>2 DEF Entries
      <3> HIDE DEF found
      <3> QED BY <1>5, <3>3, <3>4, EarlyKept
    <2> QED BY <2>1, <2>2
  <1>11. ASSUME NEW q \in Service, NEW j \in SId, Prior(p, q, j)'
         PROVE  Prior(p, q, j) /\ m \notin Drops(j)
    <2>1. /\ stage[p] \in {"registered", "connecting"} /\ sid[p] # j
          /\ Early(known'[p], At(q, j), Own(sid[p]))
      BY <1>1, <1>3, <1>11 DEF Prior, Offers
    <2>2. Early(known[p], At(q, j), Own(sid[p]))
      BY <1>8, <1>10, <2>1 DEF Own
    <2>3. j # k
      <3>1. Entries(known'[p]) \intersect At(q, j) # {}
        BY <2>1, EarlyFound
      <3> QED BY <1>9, <3>1 DEF At
    <2> QED BY <1>4, <2>1, <2>2, <2>3 DEF Prior, Drops
  <1>12. stage'[p] \in {"registered", "connecting"} => \E e \in Entries(known[p])' : e.sid = sid'[p]
    BY <1>1, <1>8, <1>9 DEF OrderInv, Placed
  <1>13. \A q \in Service : /\ q # p => toNS'[q] = toNS[q]
                            /\ Posted(q, "RRG")' => Posted(q, "RRG")
    <2>1. /\ \A q \in Service : q # p => toNS'[q] = toNS[q]
          /\ Entries(toNS'[p]) \subseteq Entries(toNS[p]) \union {ack}
      BY <1>5, <1>6, <1>7, SendEntries
    <2> QED BY <1>7, <2>1 DEF Posted, Post
  <1>14. \A q \in Service : q # p => /\ stage'[q] = stage[q] /\ sid'[q] = sid[q]
                                     /\ known'[q] = known[q] /\ Post(q)' = Post(q)
    BY <1>1, <1>6, <1>13 DEF Post
  <1>15. Posted(p, "RRG")' => stage'[p] \in {"running", "dead"}
    BY <1>1, <1>13 DEF OrderInv, Placed
  <1>16. TypeInv'
    BY UnregisterBroadcastType DEF Inv
  <1>17. sid'[p] = sid[p] /\ UNCHANGED << registry, cnx >>
    BY <1>1
  <1> QED BY <1>1, <1>2, <1>11, <1>12, <1>14, <1>15, <1>16, <1>17, OrderRead

(* A crash of the naming service cuts what it sent, and after it nothing   *)
(* comes on the connections there are.                                     *)
LEMMA CrashOrder ==
  ASSUME Inv, OrderInv, NSCrash
  PROVE  OrderKept
PROOF
  <1>1. /\ toNS' = [p \in Service |-> << >>]
        /\ cnx' = [p \in Service |-> IF cnx[p] = "open" THEN "cut" ELSE cnx[p]]
        /\ UNCHANGED << stage, sid, known >>
    BY DEF NSCrash, tables
  <1> SUFFICES ASSUME NEW p \in Service PROVE StaysOrdered(p)
    BY OrderStays
  <1>2. fromNS[p] \in Seq(FromNSMessage) /\ \A q \in Service : Len(fromNS[q]) \in Nat
    BY Vars, LenProperties DEF Inv
  <1>3. PICK n \in 0 .. Len(fromNS[p]) : fromNS'[p] = SubSeq(fromNS[p], 1, n)
    <2>1. PICK n \in [Service -> UNION {0 .. Len(fromNS[q]) : q \in Service}] :
            /\ \A q \in Service : n[q] <= Len(fromNS[q])
            /\ fromNS' = [q \in Service |-> SubSeq(fromNS[q], 1, n[q])]
      BY DEF NSCrash
    <2>2. n[p] \in 0 .. Len(fromNS[p])
      BY <1>2, <2>1
    <2> QED BY <2>1, <2>2
  <1>4. Mail(p)' \subseteq Mail(p)
    BY <1>2, <1>3, PrefixEntries DEF Mail
  <1>5. \A k \in SId : Fresh(p, k)' => Fresh(p, k)
    BY <1>2, <1>3, EarlyPrefix DEF Fresh
  <1>6. stage'[p] = stage[p] /\ sid'[p] = sid[p] /\ known'[p] = known[p] /\ cnx'[p] # "open"
    BY <1>1
  <1>7. \A q \in Service, k \in SId : Prior(p, q, k)' => Prior(p, q, k)
    BY <1>4, <1>6 DEF Prior
  <1>8. Placed(p)'
    <2>1. ~Posted(p, "RRG")'
      BY <1>1, EntriesEmpty DEF Posted, Post, Entries
    <2>2. \A k \in SId : (Dropped(p, k)' => Dropped(p, k)) /\ (Granting(p, k)' => Granting(p, k))
      BY <1>4 DEF Dropped, Granting
    <2> QED BY <1>4, <1>6, <2>1, <2>2 DEF Placed, OrderInv
  <1>9. Cleared(p)'
    BY <1>5, <1>6, <1>7 DEF Cleared, OrderInv
  <1> QED BY <1>7, <1>8, <1>9 DEF StaysOrdered

(* Every step keeps the order.                                             *)
LEMMA OrderNext == Inv /\ OrderInv /\ [Next]_vars => OrderKept
PROOF
  <1> SUFFICES ASSUME Inv, OrderInv, [Next]_vars PROVE OrderKept
    OBVIOUS
  <1>0. TypeInv'
    BY NextInv DEF Inv
  <1>1. ASSUME NEW p \in Service, NSAccept(p) \/ NSRefuse(p) PROVE OrderKept
    BY <1>1, AcceptOrder, RefuseOrder
  <1>2. ASSUME \/ \E p \in Service : NSResend(p) \/ NSAck(p) \/ NSDisconnect(p)
               \/ NSUpdate \/ NSTimeout
        PROVE  OrderKept
    BY <1>0, <1>2, SilentSteps, AsideOrder, DisconnectOrder
  <1>3. ASSUME \/ \E p \in Service : NoticeNS(p) \/ Connect(p) \/ Connected(p) \/ AddService(p)
               \/ \E p, q \in Service :
                    ServiceIdentification(p, q) \/ ServerLost(p, q) \/ ClientLost(p, q)
               \/ NSRestart
               \/ UNCHANGED vars
        PROVE  OrderKept
    BY <1>0, <1>3, OwnSteps, AsideOrder DEF OwnStep
  <1>4. ASSUME NEW p \in Service,
               \/ Registered(p) \/ RegisterBroadcast(p) \/ UnregisterBroadcast(p)
               \/ Reconnect(p) \/ Start(p) \/ Die(p)
        PROVE  OrderKept
    <2>1. Die(p) => OrderKept
      BY <1>0, EndsOrder DEF Die
    <2> QED BY <1>4, <2>1, RegisteredOrder, RegisterBroadcastOrder, UnregisterBroadcastOrder,
               StartOrder
  <1> QED BY <1>1, <1>2, <1>3, <1>4, CrashOrder DEF Next, NS, Process

-----------------------------------------------------------------------------
(* The connections.                                                        *)

(* No connection is opened, and nobody gets to where it has none.          *)
Onward ==
  /\ spoiled \subseteq spoiled'
  /\ \A p, q \in Service :
       /\ link'[q][p] = "none" <=> link[q][p] = "none"
       /\ link'[q][p] \in {"ident", "gone"} => link[q][p] \in {"ident", "gone"}
  /\ \A p \in Service :
       /\ stage'[p] = "off" \/ Posted(p, "RG")' => stage[p] = "off" \/ Posted(p, "RG")
       /\ stage'[p] \in {"off", "registering", "registered"} =>
            stage[p] \in {"off", "registering", "registered"}
       /\ sid'[p] = sid[p] \/ stage[p] = "registering"
       /\ stage'[p] = "connecting" =>
            \/ stage[p] = "registered"
            \/ /\ stage[p] = "connecting" /\ known'[p] = known[p]
               /\ ToConnect(p)' \subseteq ToConnect(p)
       /\ Alive(p)' => Alive(p) \/ stage[p] = "off"

(* Such a step keeps who may connect to whom.                              *)
LEMMA OpenStays ==
  ASSUME Inv, OpenInv, OrderKept, Onward
  PROVE  OpenInv'
PROOF
  <1> SUFFICES ASSUME NEW p \in Service, NEW q \in Service, link'[q][p] # "none"
               PROVE  /\ ~(stage'[p] = "off" \/ Posted(p, "RG")')
                      /\ stage'[q] \notin {"off", "registering", "registered"}
                      /\ sid'[q] # 0
                      /\ stage'[q] = "connecting" =>
                           \A i \in ToConnect(q)' : known'[q][i].svc # p
                      /\ \A r \in Service, k \in SId :
                           Prior(p, r, k)' /\ Clean(p, k)' => sid'[q] # k
                      /\ link'[p][q] = "none" /\ \A k \in SId : ~Prior(p, q, k)'
    BY DEF OpenInv
  <1>1. /\ link[q][p] # "none"
        /\ ~(stage[p] = "off" \/ Posted(p, "RG"))
        /\ stage[q] \notin {"off", "registering", "registered"}
        /\ sid[q] # 0
        /\ stage[q] = "connecting" => \A i \in ToConnect(q) : known[q][i].svc # p
        /\ \A r \in Service, k \in SId : Prior(p, r, k) /\ Clean(p, k) => sid[q] # k
        /\ link[p][q] = "none" /\ \A k \in SId : ~Prior(p, q, k)
    <2>1. link[q][p] # "none"
      BY DEF Onward
    <2> QED BY <2>1 DEF OpenInv
  <1>2. sid'[q] = sid[q]
    BY <1>1 DEF Onward
  <1>3. ~(stage'[p] = "off" \/ Posted(p, "RG")')
    BY <1>1 DEF Onward
  <1>4. stage'[q] \notin {"off", "registering", "registered"}
    BY <1>1 DEF Onward
  <1>5. stage'[q] = "connecting" => \A i \in ToConnect(q)' : known'[q][i].svc # p
    <2>1. stage'[q] = "connecting" =>
            /\ stage[q] = "connecting" /\ known'[q] = known[q]
            /\ ToConnect(q)' \subseteq ToConnect(q)
      BY <1>1 DEF Onward
    <2> QED BY <1>1, <2>1
  <1>6. ASSUME NEW r \in Service, NEW k \in SId, Prior(p, r, k)', Clean(p, k)'
        PROVE  sid'[q] # k
    <2>1. Prior(p, r, k)
      BY <1>1, <1>6 DEF OrderKept
    <2>2. Clean(p, k)
      BY <1>6 DEF Onward, Clean
    <2> QED BY <1>1, <1>2, <2>1, <2>2
  <1>7. link'[p][q] = "none" /\ \A k \in SId : ~Prior(p, q, k)'
    BY <1>1 DEF Onward, OrderKept
  <1> QED BY <1>1, <1>2, <1>3, <1>4, <1>5, <1>6, <1>7

(* An entry has no connection, the one it had, or one that was opened.     *)
LEMMA PeerStays ==
  ASSUME PeerInv, Onward,
         \A p \in Service, k \in SId :
           \/ ids'[p][k].conn = ids[p][k].conn /\ ids'[p][k].peer = ids[p][k].peer
           \/ ids'[p][k].conn \in {"empty", "invalid"}
           \/ ids'[p][k].conn = "server" /\ link'[ids'[p][k].peer][p] # "none"
  PROVE  PeerInv'
PROOF
  <1> SUFFICES ASSUME NEW p \in Service, NEW q \in Service, NEW k \in SId, ids'[p][k].peer = q
               PROVE  /\ ids'[p][k].conn = "client" => link'[p][q] # "none"
                      /\ ids'[p][k].conn = "server" => link'[q][p] # "none"
    BY DEF PeerInv
  <1>1. ASSUME ids'[p][k].conn = ids[p][k].conn, ids[p][k].peer = q
        PROVE  /\ ids'[p][k].conn = "client" => link'[p][q] # "none"
               /\ ids'[p][k].conn = "server" => link'[q][p] # "none"
    <2>1. /\ ids'[p][k].conn = "client" => link[p][q] # "none"
          /\ ids'[p][k].conn = "server" => link[q][p] # "none"
      BY <1>1 DEF PeerInv
    <2>2. /\ link[p][q] # "none" => link'[p][q] # "none"
          /\ link[q][p] # "none" => link'[q][p] # "none"
      BY DEF Onward
    <2> QED BY <2>1, <2>2
  <1> QED BY <1>1

(* An entry is invalid as it was, or because its connection was lost.      *)
LEMMA InvalidStays ==
  ASSUME Inv, InvalidInv, Onward,
         \A p, q \in Service, k \in SId :
           Clean(p, k)' /\ ids'[p][k].conn = "invalid" /\ Noted(p, q, k)' =>
             \/ ids[p][k].conn = "invalid" /\ Noted(p, q, k)
             \/ link'[q][p] \notin {"ident", "gone", "none"}
  PROVE  InvalidInv'
PROOF
  <1> SUFFICES ASSUME NEW p \in Service, NEW q \in Service, NEW k \in SId,
                      Clean(p, k)', ids'[p][k].conn = "invalid", Noted(p, q, k)'
               PROVE  /\ link'[q][p] \notin {"ident", "gone"}
                      /\ Alive(q)' => link'[q][p] # "none"
    BY DEF InvalidInv
  <1>1. CASE link'[q][p] \notin {"ident", "gone", "none"}
    BY <1>1
  <1>2. CASE ids[p][k].conn = "invalid" /\ Noted(p, q, k)
    <2>1. Clean(p, k)
      BY DEF Onward, Clean
    <2>2. /\ link[q][p] \notin {"ident", "gone"}
          /\ Alive(q) => link[q][p] # "none"
      BY <1>2, <2>1 DEF InvalidInv
    <2>3. stage[q] # "off"
      <3>1. Trace(q, k)
        BY <1>2 DEF Trace, Mentions
      <3> QED BY <3>1 DEF Inv, LifeInv
    <2>4. /\ link'[q][p] = "none" <=> link[q][p] = "none"
          /\ link'[q][p] \in {"ident", "gone"} => link[q][p] \in {"ident", "gone"}
      BY DEF Onward
    <2>5. Alive(q)' => Alive(q)
      BY <2>3 DEF Onward
    <2> QED BY <2>2, <2>4, <2>5
  <1> QED BY <1>1, <1>2

(* The tables of the others are as they were.                              *)
LEMMA NamedStays ==
  ASSUME NamedInv, NEW p \in Service, spoiled \subseteq spoiled',
         \A r \in Service : r # p => /\ stage'[r] = stage[r] /\ ids'[r] = ids[r]
                                     /\ named'[r] = named[r] /\ up'[r] = up[r],
         ~Working(p)' => named'[p] = {},
         \A k \in SId : Clean(p, k)' => Agree(p, k)'
  PROVE  NamedInv'
PROOF
  <1>1. \A r \in Service, k \in SId : Clean(r, k)' => Clean(r, k)
    BY DEF Clean
  <1>2. \A r \in Service : r # p => (Working(r)' <=> Working(r))
    BY DEF Working
  <1>3. \A r \in Service, k \in SId : r # p => (Agree(r, k)' <=> Agree(r, k))
    BY DEF Agree
  <1> QED BY <1>1, <1>2, <1>3 DEF NamedInv

(* The steps that leave the tables alone.                                  *)
LEMMA TablesStay ==
  ASSUME Inv, LinksInv, NamedInv, OrderKept,
         UNCHANGED << sid, tables >>, spoiled \subseteq spoiled',
         \A p, q \in Service :
           /\ link'[q][p] = "none" <=> link[q][p] = "none"
           /\ link'[q][p] \in {"ident", "gone"} => link[q][p] \in {"ident", "gone"},
         \A p \in Service :
           /\ Posted(p, "RG")' => Posted(p, "RG") \/ stage[p] = "off"
           /\ \/ stage'[p] = stage[p]
              \/ /\ stage[p] \in {"registered", "connecting"}
                 /\ stage'[p] \in {"connecting", "running"}
              \/ stage[p] = "off" /\ stage'[p] = "registering"
  PROVE  LinksInv' /\ NamedInv'
PROOF
  <1>1. UNCHANGED << sid, known, ids, named, up >>
    BY DEF tables
  <1>2. \A p \in Service : ToConnect(p)' = ToConnect(p)
    BY <1>1 DEF ToConnect, Before
  <1>3. Onward
    BY <1>1, <1>2 DEF Onward, Alive
  <1>4. OpenInv'
    BY <1>3, OpenStays DEF LinksInv
  <1>5. PeerInv'
    BY <1>1, <1>3, PeerStays DEF LinksInv
  <1>6. InvalidInv'
    <2>1. \A p, q \in Service, k \in SId : Noted(p, q, k)' => Noted(p, q, k)
      BY <1>1 DEF Noted, Listed
    <2> QED BY <1>1, <1>3, <2>1, InvalidStays DEF LinksInv
  <1>7. NamedInv'
    <2>1. \A p \in Service : Working(p) => Working(p)'
      BY DEF Working
    <2>2. \A p \in Service, k \in SId : Clean(p, k)' => Clean(p, k)
      BY DEF Clean
    <2>3. \A p \in Service, k \in SId : Agree(p, k)' <=> Agree(p, k)
      BY <1>1 DEF Agree
    <2> QED BY <1>1, <2>1, <2>2, <2>3 DEF NamedInv
  <1> QED BY <1>4, <1>5, <1>6, <1>7 DEF LinksInv

(* Those of the naming service do.                                         *)
LEMMA NamingTables ==
  ASSUME Inv, LinksInv, NamedInv, OrderKept,
         \/ \E p \in Service :
              NSAccept(p) \/ NSRefuse(p) \/ NSResend(p) \/ NSAck(p) \/ NSDisconnect(p)
         \/ NSUpdate \/ NSTimeout \/ NSCrash
  PROVE  LinksInv' /\ NamedInv'
PROOF
  <1>1. /\ UNCHANGED << stage, sid, tables, link >>
        /\ spoiled \subseteq spoiled'
    BY DEF NSAccept, NSRefuse, NSResend, NSAck, NSDisconnect, NSUpdate, NSTimeout, NSCrash, Spoil
  <1>2. \A q \in Service : Post(q)' \subseteq Post(q)
    <2>1. ASSUME NEW p \in Service, NEW type, Received(p, type), Handled(p)
          PROVE  \A q \in Service : Post(q)' \subseteq Post(q)
      BY <2>1, HandledType DEF Inv, Post
    <2>2. ASSUME NEW p \in Service,
                 NSAccept(p) \/ NSRefuse(p) \/ NSResend(p) \/ NSAck(p) \/ NSDisconnect(p)
          PROVE  \E type \in {"RG", "RRG", "ACK_UNI", "closed"} : Received(p, type) /\ Handled(p)
      BY <2>2 DEF NSAccept, NSRefuse, NSResend, NSAck, NSDisconnect
    <2>3. NSUpdate \/ NSTimeout => \A q \in Service : Post(q)' \subseteq Post(q)
      BY DEF NSUpdate, NSTimeout, channels, Post
    <2>4. ASSUME NSCrash PROVE \A q \in Service : Post(q)' \subseteq Post(q)
      <3>1. toNS' = [q \in Service |-> << >>]
        BY <2>4 DEF NSCrash
      <3> QED BY <3>1, EntriesEmpty DEF Post, Entries
    <2> QED BY <2>1, <2>2, <2>3, <2>4
  <1>3. \A q \in Service : Posted(q, "RG")' => Posted(q, "RG")
    BY <1>2 DEF Posted
  <1> QED BY <1>1, <1>3, TablesStay

(* So do those of a service and its connections.                           *)
LEMMA ServiceTables ==
  ASSUME Inv, LinksInv, NamedInv, OrderKept,
         \/ \E p \in Service :
              NoticeNS(p) \/ Connect(p) \/ Connected(p) \/ Start(p) \/ Reconnect(p)
         \/ \E p, q \in Service : ServerLost(p, q)
         \/ NSRestart
         \/ UNCHANGED vars
  PROVE  LinksInv' /\ NamedInv'
PROOF
  <1>1. link \in [Service -> [Service -> State]]
    BY Vars DEF Inv
  <1>2. ASSUME \/ \E p \in Service : NoticeNS(p) \/ Connect(p) \/ Connected(p)
               \/ \E p, q \in Service : ServerLost(p, q)
               \/ NSRestart
               \/ UNCHANGED vars
        PROVE  LinksInv' /\ NamedInv'
    <2>1. Aside /\ spoiled \subseteq spoiled'
      BY <1>2, OwnSteps DEF OwnStep
    <2>2. UNCHANGED << sid, tables >>
      BY <1>2 DEF NoticeNS, Connect, Connected, ServerLost, NSRestart, vars
    <2>3. \A p, q \in Service :
            /\ link'[q][p] = "none" <=> link[q][p] = "none"
            /\ link'[q][p] \in {"ident", "gone"} => link[q][p] \in {"ident", "gone"}
      <3>1. ASSUME NEW c \in Service, NEW s \in Service, ServerLost(c, s)
            PROVE  \A p, q \in Service :
                     /\ link'[q][p] = "none" <=> link[q][p] = "none"
                     /\ link'[q][p] \in {"ident", "gone"} => link[q][p] \in {"ident", "gone"}
        <4>1. link[c][s] = "broken" /\ link' = [link EXCEPT ![c][s] = "closed"]
          BY <3>1 DEF ServerLost
        <4> QED BY <1>1, <4>1
      <3>2. CASE UNCHANGED link
        BY <3>2
      <3>3. CASE \/ \E p \in Service : NoticeNS(p) \/ Connect(p) \/ Connected(p)
                 \/ NSRestart
                 \/ UNCHANGED vars
        BY <3>2, <3>3 DEF NoticeNS, Connect, Connected, NSRestart, vars
      <3> QED BY <1>2, <3>1, <3>3
    <2>4. \A q \in Service : Posted(q, "RG")' => Posted(q, "RG")
      BY <2>1 DEF Aside, Posted
    <2>5. \A p \in Service : \/ stage'[p] = stage[p]
                             \/ /\ stage[p] \in {"registered", "connecting"}
                                /\ stage'[p] \in {"connecting", "running"}
      BY <2>1 DEF Aside
    <2> QED BY <2>1, <2>2, <2>3, <2>4, <2>5, TablesStay
  <1>3. ASSUME NEW p \in Service, Start(p) \/ Reconnect(p)
        PROVE  LinksInv' /\ NamedInv'
    <2>1. UNCHANGED << sid, tables, link, spoiled >>
      BY <1>3 DEF Start, Reconnect
    <2>2. /\ toNS \in [Service -> Seq(ToNSMessage)]
          /\ DOMAIN stage = Service
      BY Vars DEF Inv
    <2>3. \A q \in Service : \/ stage'[q] = stage[q]
                             \/ stage[q] = "off" /\ stage'[q] = "registering"
      BY <1>3, <2>2 DEF Start, Reconnect
    <2>4. ASSUME NEW q \in Service, Posted(q, "RG")'
          PROVE  Posted(q, "RG") \/ stage[q] = "off"
      <3>1. CASE q # p
        <4>1. toNS'[q] = toNS[q]
          BY <1>3, <2>2, <3>1 DEF Start, Reconnect
        <4> QED BY <2>4, <4>1 DEF Posted, Post
      <3>2. CASE q = p /\ Start(p)
        BY <3>2 DEF Start
      <3>3. CASE q = p /\ Reconnect(p)
        <4> DEFINE first == [type |-> "RRG"]
        <4>1. toNS'[p] = << first >>
          BY <2>2, <3>3 DEF Reconnect
        <4>2. Entries(<< first >>) = {first}
          BY EntriesSingle
        <4> QED BY <2>4, <3>3, <4>1, <4>2 DEF Posted, Post
      <3> QED BY <1>3, <3>1, <3>2, <3>3
    <2> QED BY <2>1, <2>3, <2>4, TablesStay
  <1> QED BY <1>2, <1>3

(* A process that ends loses its connections, and leaves no table.         *)
LEMMA EndsTables ==
  ASSUME Inv, LinksInv, NamedInv, OrderKept, NEW p \in Service,
         Alive(p), Ends(p), UNCHANGED sid, spoiled \subseteq spoiled'
  PROVE  LinksInv' /\ NamedInv'
PROOF
  <1>1. /\ stage' = [stage EXCEPT ![p] = "dead"]
        /\ toNS' = Send(p, [type |-> "closed"])
        /\ known' = [known EXCEPT ![p] = << >>]
        /\ ids' = [ids EXCEPT ![p] = [k \in SId |-> NotUsed]]
        /\ named' = [named EXCEPT ![p] = {}]
        /\ up' = [up EXCEPT ![p] = {}]
    BY DEF Ends
  <1>2. /\ toNS \in [Service -> Seq(ToNSMessage)]
        /\ stage \in [Service -> {"off", "registering", "registered", "connecting", "running",
                                  "dead"}]
        /\ known \in [Service -> Seq([svc : Service, sid : SId])]
        /\ ids \in [Service -> [SId -> IdEntry]]
        /\ up \in [Service -> SUBSET (Service \X SId)]
        /\ link \in [Service -> [Service -> State]]
    BY Vars DEF Inv
  <1>3. DOMAIN named = Service
    BY DEF Inv, TypeInv, Typed, TablesType
  <1>4. /\ stage'[p] = "dead" /\ ids'[p] = [k \in SId |-> NotUsed]
        /\ named'[p] = {} /\ up'[p] = {}
    BY <1>1, <1>2, <1>3
  <1>5. \A q \in Service : q # p =>
          /\ stage'[q] = stage[q] /\ known'[q] = known[q] /\ ids'[q] = ids[q]
          /\ named'[q] = named[q] /\ up'[q] = up[q]
    BY <1>1, <1>2, <1>3
  <1>6. \A k \in SId : ids'[p][k].conn = "empty"
    BY <1>4 DEF NotUsed
  <1>7. ASSUME NEW q \in Service, NEW c \in Service
        PROVE  /\ link'[c][q] = "none" <=> link[c][q] = "none"
               /\ link'[c][q] \in {"ident", "gone"} => link[c][q] \in {"ident", "gone"}
    <2>1. link'[c][q] =
            IF p \notin {c, q} \/ link[c][q] = "none" THEN link[c][q]
            ELSE IF stage[IF c = p THEN q ELSE c] = "dead" THEN "closed"
            ELSE IF link[c][q] = "ident" /\ c = p THEN "gone"
            ELSE IF link[c][q] \in {"ident", "up"} THEN "broken"
            ELSE link[c][q]
      BY DEF Ends
    <2> QED BY <2>1
  <1>8. \A q \in Service : Posted(q, "RG")' => Posted(q, "RG")
    <2> DEFINE closed == [type |-> "closed"]
    <2>1. closed \in ToNSMessage /\ closed.type # "RG"
      BY DEF ToNSMessage
    <2> HIDE DEF closed
    <2>2. toNS' = Send(p, closed)
      BY <1>1 DEF closed
    <2>3. /\ \A q \in Service : q # p => toNS'[q] = toNS[q]
          /\ Entries(toNS'[p]) \subseteq Entries(toNS[p]) \union {closed}
      BY <1>2, <2>1, <2>2, SendEntries
    <2> QED BY <2>1, <2>3 DEF Posted, Post
  <1>9. \A q \in Service : q # p => ToConnect(q)' = ToConnect(q)
    BY <1>5 DEF ToConnect, Before
  <1>10. Onward
    <2>1. \A q \in Service :
            /\ stage'[q] = "off" \/ Posted(q, "RG")' => stage[q] = "off" \/ Posted(q, "RG")
            /\ stage'[q] \in {"off", "registering", "registered"} =>
                 stage[q] \in {"off", "registering", "registered"}
            /\ Alive(q)' => Alive(q)
      BY <1>4, <1>5, <1>8 DEF Alive
    <2>2. \A q \in Service : stage'[q] = "connecting" =>
            /\ stage[q] = "connecting" /\ known'[q] = known[q]
            /\ ToConnect(q)' \subseteq ToConnect(q)
      BY <1>4, <1>5, <1>9
    <2> QED BY <1>7, <2>1, <2>2 DEF Onward
  <1>11. OpenInv'
    BY <1>10, OpenStays DEF LinksInv
  <1>12. PeerInv'
    BY <1>5, <1>6, <1>10, PeerStays DEF LinksInv
  <1>13. InvalidInv'
    <2>1. ASSUME NEW r \in Service, NEW q \in Service, NEW k \in SId,
                 ids'[r][k].conn = "invalid", Noted(r, q, k)'
          PROVE  ids[r][k].conn = "invalid" /\ Noted(r, q, k)
      <3>1. r # p
        BY <1>6, <2>1
      <3> QED BY <1>5, <2>1, <3>1 DEF Noted, Listed
    <2> QED BY <1>10, <2>1, InvalidStays DEF LinksInv
  <1>14. NamedInv'
    <2>1. \A k \in SId : Agree(p, k)'
      BY <1>4, <1>6 DEF Agree, Valid
    <2> QED BY <1>4, <1>5, <2>1, NamedStays
  <1> QED BY <1>11, <1>12, <1>13, <1>14 DEF LinksInv

(* A process that is registered has the names of the others, and no        *)
(* connection.                                                             *)
LEMMA RegisteredTables ==
  ASSUME Inv, LinksInv, NamedInv, OrderKept, NEW p \in Service, Registered(p)
  PROVE  LinksInv' /\ NamedInv'
PROOF
  <1> DEFINE rg == Head(fromNS[p])
  <1>1. /\ stage[p] = "registering" /\ Arrived(p, "RG")
        /\ UNCHANGED naming /\ UNCHANGED spoiled
    BY DEF Registered
  <1>3. ASSUME Ends(p), UNCHANGED sid
        PROVE  LinksInv' /\ NamedInv'
    <2>1. Alive(p) /\ spoiled \subseteq spoiled'
      BY <1>1 DEF Alive
    <2> QED BY <1>3, <2>1, EndsTables
  <1>4. ASSUME stage' = [stage EXCEPT ![p] = "registered"],
               sid' = [sid EXCEPT ![p] = rg.sid],
               NEW list, known' = [known EXCEPT ![p] = list],
               ids' = [ids EXCEPT ![p] = [k \in SId |->
                         IF (\E i \in DOMAIN rg.list : rg.list[i].sid = k) /\ k # rg.sid
                         THEN Inserted(@[k], rg.list[First(rg.list, k)].svc)
                         ELSE @[k]]],
               UNCHANGED << toNS, cnx, named, up, link >>
        PROVE  LinksInv' /\ NamedInv'
    <2>1. /\ stage \in [Service -> {"off", "registering", "registered", "connecting", "running",
                                    "dead"}]
          /\ sid \in [Service -> SId \union {0}]
          /\ known \in [Service -> Seq([svc : Service, sid : SId])]
          /\ ids \in [Service -> [SId -> IdEntry]]
      BY Vars DEF Inv
    <2>2. \A q \in Service : q # p =>
            /\ stage'[q] = stage[q] /\ sid'[q] = sid[q]
            /\ known'[q] = known[q] /\ ids'[q] = ids[q]
      BY <1>4, <2>1
    <2>3. stage'[p] = "registered"
      BY <1>4, <2>1
    <2>4. \A k \in SId : ids'[p][k].conn = "empty"
      <3>1. ids[p] = [k \in SId |-> NotUsed]
        BY <1>1 DEF Inv, LifeInv, Blank
      <3>2. \A svc : Inserted(NotUsed, svc).conn = "empty"
        BY DEF Inserted, Ready, NotUsed
      <3>3. NotUsed.conn = "empty"
        BY DEF NotUsed
      <3>4. ASSUME NEW k \in SId
            PROVE  ids'[p][k] = IF (\E i \in DOMAIN rg.list : rg.list[i].sid = k) /\ k # rg.sid
                                THEN Inserted(ids[p][k], rg.list[First(rg.list, k)].svc)
                                ELSE ids[p][k]
        BY <1>4, <2>1
      <3>5. \A k \in SId : ids[p][k] = NotUsed
        BY <3>1
      <3> QED BY <3>2, <3>3, <3>4, <3>5
    <2>5. \A q \in Service : q # p => ToConnect(q)' = ToConnect(q)
      BY <2>2 DEF ToConnect, Before
    <2>6. Onward
      <3>1. \A q \in Service :
              /\ stage'[q] = "off" \/ Posted(q, "RG")' => stage[q] = "off" \/ Posted(q, "RG")
              /\ stage'[q] \in {"off", "registering", "registered"} =>
                   stage[q] \in {"off", "registering", "registered"}
              /\ Alive(q)' => Alive(q)
        BY <1>1, <1>4, <2>2, <2>3 DEF Alive, Posted, Post
      <3>2. \A q \in Service : stage'[q] = "connecting" =>
              /\ stage[q] = "connecting" /\ known'[q] = known[q]
              /\ ToConnect(q)' \subseteq ToConnect(q)
        BY <2>2, <2>3, <2>5
      <3>3. \A q \in Service : sid'[q] = sid[q] \/ stage[q] = "registering"
        BY <1>1, <2>2
      <3>4. link' = link /\ spoiled' = spoiled
        BY <1>1, <1>4
      <3> QED BY <3>1, <3>2, <3>3, <3>4 DEF Onward
    <2>7. OpenInv'
      BY <2>6, OpenStays DEF LinksInv
    <2>8. PeerInv'
      BY <2>2, <2>4, <2>6, PeerStays DEF LinksInv
    <2>9. InvalidInv'
      <3>1. ASSUME NEW r \in Service, NEW q \in Service, NEW k \in SId,
                   ids'[r][k].conn = "invalid", Noted(r, q, k)'
            PROVE  ids[r][k].conn = "invalid" /\ Noted(r, q, k)
        <4>1. r # p
          BY <2>4, <3>1
        <4> QED BY <1>4, <2>2, <3>1, <4>1 DEF Noted, Listed
      <3> QED BY <2>6, <3>1, InvalidStays DEF LinksInv
    <2>10. NamedInv'
      <3>1. named'[p] = {}
        BY <1>1, <1>4 DEF NamedInv, Working
      <3>2. \A k \in SId : Agree(p, k)'
        BY <2>4, <3>1 DEF Agree, Valid
      <3>3. \A q \in Service : q # p => named'[q] = named[q] /\ up'[q] = up[q]
        BY <1>4
      <3>4. spoiled \subseteq spoiled'
        BY <1>1
      <3> QED BY <2>2, <3>1, <3>2, <3>3, <3>4, NamedStays
    <2> QED BY <2>7, <2>8, <2>9, <2>10 DEF LinksInv
  <1>5. \/ /\ stage' = [stage EXCEPT ![p] = "registered"]
           /\ sid' = [sid EXCEPT ![p] = rg.sid]
           /\ known' = [known EXCEPT ![p] =
                          [i \in DOMAIN rg.list |->
                             [svc |-> rg.list[i].svc, sid |-> rg.list[i].sid]]]
           /\ ids' = [ids EXCEPT ![p] = [k \in SId |->
                        IF (\E i \in DOMAIN rg.list : rg.list[i].sid = k) /\ k # rg.sid
                        THEN Inserted(@[k], rg.list[First(rg.list, k)].svc)
                        ELSE @[k]]]
           /\ UNCHANGED << toNS, cnx, named, up, link >>
        \/ Ends(p) /\ UNCHANGED sid
    BY DEF Registered, First
  <1> HIDE DEF rg
  <1> QED BY <1>3, <1>4, <1>5

(* A name that is inserted comes with no connection.                       *)
LEMMA RegisterBroadcastTables ==
  ASSUME Inv, LinksInv, NamedInv, OrderKept, NEW p \in Service, RegisterBroadcast(p)
  PROVE  LinksInv' /\ NamedInv'
PROOF
  <1>1. /\ Updates(p) /\ Arrived(p, "RGB")
        /\ fromNS' = [fromNS EXCEPT ![p] = Tail(@)]
        /\ UNCHANGED << registry, toNS, stage, sid, named, up, link, spoiled >>
    BY DEF RegisterBroadcast, naming
  <1>2. PICK m \in FromNSMessage : m = Head(fromNS[p])
    BY <1>1, Read
  <1>3. /\ m.type = "RGB"
        /\ \A q \in Service : q # p => Mail(q)' = Mail(q)
    BY <1>1, <1>2, Read
  <1>4. PICK c \in Service, k \in SId : c = m.svc /\ k = m.sid
    BY <1>3, MessageFields
  <1>5. /\ known \in [Service -> Seq([svc : Service, sid : SId])]
        /\ ids \in [Service -> [SId -> IdEntry]]
    BY Vars DEF Inv
  <1>6. \A q \in Service : q # p => known'[q] = known[q]
    BY <1>5 DEF RegisterBroadcast
  <1>7. /\ \A q \in Service : q # p => ids'[q] = ids[q]
        /\ \A j \in SId : \/ ids'[p][j] = ids[p][j]
                          \/ ids'[p][j] = Inserted(ids[p][j], c)
    <2>1. \/ ids' = ids
          \/ ids' = [ids EXCEPT ![p][k] = IF k = sid[p] THEN @ ELSE Inserted(@, c)]
      BY <1>2, <1>4 DEF RegisterBroadcast
    <2> QED BY <1>5, <2>1
  <1>8. ASSUME NEW j \in SId
        PROVE  \/ ids'[p][j] = ids[p][j]
               \/ ~Ready(ids[p][j]) /\ ids[p][j].conn = "empty" /\ ids'[p][j].conn = "empty"
    <2>1. ~Ready(ids[p][j]) => ids[p][j].conn = "empty"
      BY DEF Inv, TableInv
    <2> QED BY <1>7, <2>1 DEF Inserted, NotUsed
  <1>9. stage[p] \in {"registered", "running"}
    BY <1>1 DEF Updates
  <1>10. Onward
    <2>1. \A q \in Service : q # p => ToConnect(q)' = ToConnect(q)
      BY <1>1, <1>6, <1>7 DEF ToConnect, Before
    <2>2. \A q \in Service : stage'[q] = "connecting" =>
            /\ stage[q] = "connecting" /\ known'[q] = known[q]
            /\ ToConnect(q)' \subseteq ToConnect(q)
      BY <1>1, <1>6, <1>9, <2>1
    <2>3. \A q \in Service : Posted(q, "RG")' <=> Posted(q, "RG")
      BY <1>1 DEF Posted, Post
    <2> QED BY <1>1, <2>2, <2>3 DEF Onward, Alive
  <1>11. OpenInv'
    BY <1>10, OpenStays DEF LinksInv
  <1>12. PeerInv'
    BY <1>7, <1>8, <1>10, PeerStays DEF LinksInv
  <1>13. InvalidInv'
    <2>1. ASSUME NEW r \in Service, NEW j \in SId, Owner(r, j)
          PROVE  Owner(r, j)'
      <3>1. Granting(r, j) => r # p
        BY <1>9 DEF Granting, Inv, LifeInv
      <3>2. Granting(r, j) => Granting(r, j)'
        BY <1>3, <3>1 DEF Granting
      <3> QED BY <1>1, <2>1, <3>2 DEF Owner, Alive, Entered, Posted, Post
    <2>2. Inv'
      BY RegisterBroadcastInv
    <2>3. ASSUME NEW r \in Service, NEW q \in Service, NEW j \in SId, Clean(r, j)',
                 ids'[r][j].conn = "invalid", Noted(r, q, j)'
          PROVE  ids[r][j].conn = "invalid" /\ Noted(r, q, j)
      <3>1. CASE r # p
        BY <1>1, <1>6, <1>7, <2>3, <3>1 DEF Noted, Listed
      <3>2. CASE r = p
        <4>1. ids[r][j].conn = "invalid" /\ Ready(ids[r][j])
          <5>1. ids[r][j].conn = "invalid"
            BY <1>8, <2>3, <3>2
          <5> QED BY <5>1 DEF Inv, TableInv
        <4>2. Clean(r, j)
          BY <1>1, <2>3 DEF Clean
        <4>3. PICK s \in Service : Owner(s, j) /\ Noted(r, s, j)
          BY <4>1, <4>2, ReadyOwned
        <4>4. Owner(s, j)' /\ Owner(q, j)'
          BY <2>1, <2>2, <2>3, <4>3 DEF Inv, MentionInv, Mentions
        <4>5. s = q
          BY <2>2, <4>4 DEF Inv, OwnerInv
        <4> QED BY <4>1, <4>3, <4>5
      <3> QED BY <3>1, <3>2
    <2> QED BY <1>10, <2>3, InvalidStays DEF LinksInv
  <1>14. NamedInv'
    <2>1. ASSUME NEW j \in SId, Clean(p, j)' PROVE Agree(p, j)'
      <3>1. Agree(p, j)
        BY <1>1, <2>1 DEF Clean, NamedInv
      <3>2. CASE ids'[p][j] = ids[p][j]
        BY <1>1, <3>1, <3>2 DEF Agree
      <3>3. CASE ids[p][j].conn = "empty" /\ ids'[p][j].conn = "empty"
        BY <1>1, <3>1, <3>3 DEF Agree, Valid
      <3> QED BY <1>8, <3>2, <3>3
    <2>2. ~Working(p)' => named'[p] = {}
      BY <1>1, <1>9 DEF Working
    <2>3. \A r \in Service : r # p => /\ stage'[r] = stage[r] /\ ids'[r] = ids[r]
                                      /\ named'[r] = named[r] /\ up'[r] = up[r]
      BY <1>1, <1>7
    <2>4. spoiled \subseteq spoiled'
      BY <1>1
    <2> QED BY <2>1, <2>2, <2>3, <2>4, NamedStays
  <1> QED BY <1>11, <1>12, <1>13, <1>14 DEF LinksInv

(* What the three tables have on an identifier is taken out together.      *)
LEMMA UnregisterBroadcastTables ==
  ASSUME Inv, LinksInv, NamedInv, OrderKept, NEW p \in Service, UnregisterBroadcast(p)
  PROVE  LinksInv' /\ NamedInv'
PROOF
  <1>1. /\ Updates(p) /\ Arrived(p, "UNB")
        /\ fromNS' = [fromNS EXCEPT ![p] = Tail(@)]
        /\ UNCHANGED << registry, cnx, stage, sid >>
    BY DEF UnregisterBroadcast, naming
  <1>2. PICK m \in FromNSMessage : m = Head(fromNS[p])
    BY <1>1, Read
  <1>3. m.type = "UNB"
    BY <1>1, <1>2, Read
  <1>4. PICK k \in SId : k = m.sid
    BY <1>3, MessageFields
  <1>5. /\ known \in [Service -> Seq([svc : Service, sid : SId])]
        /\ ids \in [Service -> [SId -> IdEntry]]
        /\ up \in [Service -> SUBSET (Service \X SId)]
        /\ link \in [Service -> [Service -> State]]
        /\ toNS \in [Service -> Seq(ToNSMessage)]
    BY Vars DEF Inv
  <1>6. named \in [Service -> SUBSET (Name \X SId)]
    BY DEF Inv, TypeInv, Typed, TablesType
  <1>7. PICK ack \in ToNSMessage : ack.type = "ACK_UNI" /\ toNS' = Send(p, ack)
    <2> DEFINE a == [type |-> "ACK_UNI", sid |-> k]
    <2>1. a \in ToNSMessage /\ a.type = "ACK_UNI"
      BY DEF ToNSMessage
    <2>2. toNS' = Send(p, a)
      BY <1>2, <1>4 DEF UnregisterBroadcast
    <2> QED BY <2>1, <2>2
  <1>8. /\ known' = [known EXCEPT ![p] = Without(@, k)]
        /\ up' = [up EXCEPT ![p] = {x \in @ : x[2] # k}]
        /\ named' = IF ids[p][k].conn = "empty" THEN named
                    ELSE [named EXCEPT ![p] = @ \ {<< ids[p][k].name, k >>}]
        /\ ids' = [ids EXCEPT ![p][k] = NotUsed]
    BY <1>2, <1>4 DEF UnregisterBroadcast
  <1>9. /\ known'[p] = Without(known[p], k)
        /\ up'[p] = {x \in up[p] : x[2] # k}
        /\ named'[p] = IF ids[p][k].conn = "empty" THEN named[p]
                       ELSE named[p] \ {<< ids[p][k].name, k >>}
        /\ ids'[p][k] = NotUsed
        /\ \A j \in SId : j # k => ids'[p][j] = ids[p][j]
        /\ \A q \in Service : q # p => /\ known'[q] = known[q] /\ ids'[q] = ids[q]
                                       /\ up'[q] = up[q] /\ named'[q] = named[q]
    BY <1>5, <1>6, <1>8
  <1>10. ids'[p][k].conn = "empty"
    BY <1>9 DEF NotUsed
  <1>11. stage[p] \in {"registered", "running"}
    BY <1>1 DEF Updates
  <1>12. spoiled \subseteq spoiled'
    BY DEF UnregisterBroadcast, Spoil
  <1>13. ASSUME NEW s \in Service, NEW c \in Service
         PROVE  /\ link'[c][s] = "none" <=> link[c][s] = "none"
                /\ link'[c][s] \in {"ident", "gone"} => link[c][s] \in {"ident", "gone"}
    <2> DEFINE e == ids[p][k]
               closed(r) == IF Alive(r) THEN "broken" ELSE "closed"
    <2>1. link' = CASE e.conn = "client" -> [link EXCEPT ![p][e.peer] = closed(e.peer)]
                    [] e.conn = "server" -> [link EXCEPT ![e.peer][p] = closed(e.peer)]
                    [] OTHER -> link
      BY <1>2, <1>4 DEF UnregisterBroadcast
    <2>0. PICK peer : peer = e.peer
      OBVIOUS
    <2>2. PICK lost \in {"broken", "closed"} : lost = closed(e.peer)
      OBVIOUS
    <2>3. \/ e.conn = "client" /\ link' = [link EXCEPT ![p][peer] = lost]
          \/ e.conn = "server" /\ link' = [link EXCEPT ![peer][p] = lost]
          \/ link' = link
      BY <2>0, <2>1, <2>2
    <2>4. /\ e.conn = "client" /\ peer \in Service => link[p][peer] # "none"
          /\ e.conn = "server" /\ peer \in Service => link[peer][p] # "none"
      BY <2>0 DEF LinksInv, PeerInv
    <2> HIDE DEF e, closed
    <2>5. /\ link[p] \in [Service -> State] /\ link[c] \in [Service -> State]
          /\ peer \in Service => link[peer] \in [Service -> State]
      BY <1>5
    <2>6. link'[c][s] = link[c][s] \/ (link[c][s] # "none" /\ link'[c][s] = lost)
      <3>1. CASE e.conn = "client" /\ link' = [link EXCEPT ![p][peer] = lost]
        BY <1>5, <2>4, <2>5, <3>1
      <3>2. CASE e.conn = "server" /\ link' = [link EXCEPT ![peer][p] = lost]
        BY <1>5, <2>4, <2>5, <3>2
      <3> QED BY <2>3, <3>1, <3>2
    <2> QED BY <2>2, <2>6
  <1>14. \A q \in Service : Posted(q, "RG")' => Posted(q, "RG")
    <2>1. /\ \A q \in Service : q # p => toNS'[q] = toNS[q]
          /\ Entries(toNS'[p]) \subseteq Entries(toNS[p]) \union {ack}
      BY <1>5, <1>7, SendEntries
    <2> QED BY <1>7, <2>1 DEF Posted, Post
  <1>15. Onward
    <2>1. \A q \in Service : q # p => ToConnect(q)' = ToConnect(q)
      BY <1>1, <1>9 DEF ToConnect, Before
    <2>2. \A q \in Service : stage'[q] = "connecting" =>
            /\ stage[q] = "connecting" /\ known'[q] = known[q]
            /\ ToConnect(q)' \subseteq ToConnect(q)
      BY <1>1, <1>9, <1>11, <2>1
    <2> QED BY <1>1, <1>12, <1>13, <1>14, <2>2 DEF Onward, Alive
  <1>16. OpenInv'
    BY <1>15, OpenStays DEF LinksInv
  <1>17. \A r \in Service, j \in SId : ids'[r][j] = ids[r][j] \/ ids'[r][j].conn = "empty"
    BY <1>9, <1>10
  <1>18. PeerInv'
    BY <1>15, <1>17, PeerStays DEF LinksInv
  <1>19. InvalidInv'
    <2>1. \A r, q \in Service, j \in SId : Noted(r, q, j)' => Noted(r, q, j)
      <3>1. known[p] \in Seq([svc : Service, sid : SId]) /\ Distinct(known[p])
        BY <1>5 DEF Inv, TableInv
      <3>2. Entries(Without(known[p], k)) = {f \in Entries(known[p]) : f.sid # k}
        BY <3>1, WithoutEntries
      <3>3. \A r \in Service : /\ Entries(known'[r]) \subseteq Entries(known[r])
                               /\ up'[r] \subseteq up[r]
        BY <1>9, <3>2
      <3> QED BY <3>3 DEF Noted, Listed
    <2> QED BY <1>15, <1>17, <2>1, InvalidStays DEF LinksInv
  <1>20. NamedInv'
    <2>1. ASSUME NEW j \in SId, Clean(p, j)' PROVE Agree(p, j)'
      <3>1. Agree(p, j)
        BY <1>12, <2>1 DEF Clean, NamedInv
      <3>2. CASE j # k
        <4>1. \A a : << a, j >> \in named[p] => << a, j >> \in named'[p]
          BY <1>9, <3>2
        <4>2. \A a : << a, j >> \in up[p] => << a, j >> \in up'[p]
          BY <1>9, <3>2
        <4>3. named'[p] \subseteq named[p] /\ ids'[p][j] = ids[p][j]
          BY <1>9, <3>2
        <4> QED BY <3>1, <4>1, <4>2, <4>3 DEF Agree
      <3>3. CASE j = k
        <4>1. ASSUME NEW x \in named'[p], x[2] = k PROVE FALSE
          <5>1. x \in named[p]
            BY <1>9, <4>1
          <5>2. ids[p][k].name = x[1] /\ ids[p][k].conn # "empty"
            BY <3>1, <3>3, <4>1, <5>1 DEF Agree
          <5>3. x = << x[1], x[2] >>
            BY <1>6, <5>1
          <5>4. x # << ids[p][k].name, k >>
            BY <1>9, <4>1, <5>2
          <5> QED BY <4>1, <5>2, <5>3, <5>4
        <4> QED BY <1>10, <3>3, <4>1 DEF Agree, Valid
      <3> QED BY <3>2, <3>3
    <2>2. ~Working(p)' => named'[p] = {}
      BY <1>1, <1>11 DEF Working
    <2>3. \A r \in Service : r # p => /\ stage'[r] = stage[r] /\ ids'[r] = ids[r]
                                      /\ named'[r] = named[r] /\ up'[r] = up[r]
      BY <1>1, <1>9
    <2> QED BY <1>12, <2>1, <2>2, <2>3, NamedStays
  <1> QED BY <1>16, <1>18, <1>19, <1>20 DEF LinksInv

(* The list has services and identifiers.                                  *)
LEMMA KnownType ==
  ASSUME Inv, NEW c \in Service, NEW i \in DOMAIN known[c]
  PROVE  known[c][i].svc \in Service /\ known[c][i].sid \in SId
PROOF
  <1>1. known[c] \in Seq([svc : Service, sid : SId])
    BY Vars DEF Inv
  <1>2. known[c][i] \in [svc : Service, sid : SId]
    BY <1>1, EntriesType
  <1> QED BY <1>2

(* The first service that is connected to next is prior.                   *)
LEMMA NextIsPrior ==
  ASSUME Inv, NEW c \in Service, stage[c] = "connecting", NEW i \in ToConnect(c),
         NEW p \in Service, NEW k \in SId, p = known[c][i].svc, k = known[c][i].sid
  PROVE  Prior(c, p, k) /\ k # sid[c] /\ Listed(c, p, k)
PROOF
  <1>1. known[c] \in Seq([svc : Service, sid : SId])
    BY Vars DEF Inv
  <1>2. i \in DOMAIN known[c] /\ \A j \in 1 .. i : known[c][j].sid # sid[c]
    BY DEF ToConnect, Before
  <1>3. DOMAIN known[c] = 1 .. Len(known[c]) /\ Len(known[c]) \in Nat
    BY <1>1, LenProperties
  <1>4. k # sid[c]
    BY <1>2, <1>3
  <1>5. known[c][i] \in At(p, k)
    BY <1>1, <1>2, EntriesType DEF At
  <1>6. \A d \in DOMAIN known[c] : d < i => known[c][d] \notin Own(sid[c])
    <2>1. \A d \in DOMAIN known[c] : d < i => d \in 1 .. i
      BY <1>2, <1>3
    <2> QED BY <1>2, <2>1 DEF Own
  <1>7. Early(known[c], At(p, k), Own(sid[c]))
    BY <1>2, <1>5, <1>6 DEF Early
  <1>8. Listed(c, p, k)
    BY <1>2, <1>5 DEF Listed, Entries
  <1> QED BY <1>4, <1>7, <1>8 DEF Prior

(* A connection that is opened is the first between the two.               *)
LEMMA AddServiceTables ==
  ASSUME Inv, OrderInv, LinksInv, NamedInv, OrderKept, NEW c \in Service, AddService(c)
  PROVE  LinksInv' /\ NamedInv'
PROOF
  <1>1. /\ stage[c] = "connecting" /\ ToConnect(c) # {}
        /\ UNCHANGED << naming, channels, stage, sid, known, faults, spoiled >>
        /\ UNCHANGED << toNS, stage, sid, known, spoiled >>
    BY DEF AddService, channels
  <1>2. PICK i \in ToConnect(c) : i = Min(ToConnect(c))
    BY <1>1, ToConnectType DEF Inv
  <1>3. PICK p \in Service, k \in SId : p = known[c][i].svc /\ k = known[c][i].sid
    BY <1>1, <1>2, ToConnectType DEF Inv
  <1>4. Prior(c, p, k) /\ k # sid[c] /\ Listed(c, p, k)
    BY <1>1, <1>3, NextIsPrior
  <1>5. ids[c][k].conn = "empty"
    BY <1>3 DEF ToConnect
  <1>6. Ready(ids[c][k])
    BY <1>4 DEF Listed, Inv, TableInv
  <1>7. Trace(p, k)
    BY <1>4 DEF Trace, Mentions, Noted
  <1>8. Clean(c, k) => Owner(p, k) /\ ids[c][k].name = NameOf[p]
    <2>1. Clean(c, k) => Owner(p, k)
      BY <1>4 DEF Inv, MentionInv, Mentions, Noted
    <2> QED BY <1>6, <2>1, OwnersOnly
  <1>9. /\ ids \in [Service -> [SId -> IdEntry]]
        /\ up \in [Service -> SUBSET (Service \X SId)]
        /\ link \in [Service -> [Service -> State]]
        /\ named \in [Service -> SUBSET (Name \X SId)]
    BY Vars DEF Inv, TypeInv, Typed, TablesType
  <1>10. \/ /\ Alive(p)
            /\ ids' = [ids EXCEPT ![c][k].conn = "client", ![c][k].peer = p]
            /\ link' = [link EXCEPT ![c][p] = "ident"]
            /\ named' = [named EXCEPT ![c] = @ \union {<< NameOf[p], k >>}]
            /\ up' = [up EXCEPT ![c] = @ \union {<< p, k >>}]
         \/ /\ ~Alive(p)
            /\ ids' = [ids EXCEPT ![c][k].conn = "invalid"]
            /\ UNCHANGED << link, named, up >>
    BY <1>2, <1>3 DEF AddService
  <1>11. /\ \A r \in Service, j \in SId : r # c \/ j # k => ids'[r][j] = ids[r][j]
         /\ \A r \in Service : r # c => ids'[r] = ids[r] /\ named'[r] = named[r] /\ up'[r] = up[r]
         /\ ids'[c][k].name = ids[c][k].name
         /\ IF Alive(p) THEN ids'[c][k].conn = "client" /\ ids'[c][k].peer = p
                        ELSE ids'[c][k].conn = "invalid"
    <2>1. ids[c][k] \in IdEntry
      BY <1>9
    <2>2. ASSUME Alive(p)
          PROVE  /\ ids'[c][k].name = ids[c][k].name
                 /\ ids'[c][k].conn = "client" /\ ids'[c][k].peer = p
                 /\ \A r \in Service, j \in SId : r # c \/ j # k => ids'[r][j] = ids[r][j]
                 /\ \A r \in Service : r # c => ids'[r] = ids[r]
      <3> DEFINE new == [ids[c][k] EXCEPT !.conn = "client", !.peer = p]
      <3>1. ids' = [ids EXCEPT ![c][k].conn = "client", ![c][k].peer = p]
        BY <1>10, <2>2
      <3>2. ids' = [ids EXCEPT ![c][k] = new]
        BY <1>9, <3>1
      <3>3. new.name = ids[c][k].name /\ new.conn = "client" /\ new.peer = p
        BY <2>1 DEF IdEntry
      <3> HIDE DEF new
      <3>4. ids'[c][k] = new
        BY <1>9, <3>2
      <3> QED BY <1>9, <3>2, <3>3, <3>4
    <2>3. ASSUME ~Alive(p)
          PROVE  /\ ids'[c][k].name = ids[c][k].name /\ ids'[c][k].conn = "invalid"
                 /\ \A r \in Service, j \in SId : r # c \/ j # k => ids'[r][j] = ids[r][j]
                 /\ \A r \in Service : r # c => ids'[r] = ids[r]
      <3> DEFINE new == [ids[c][k] EXCEPT !.conn = "invalid"]
      <3>1. ids' = [ids EXCEPT ![c][k].conn = "invalid"]
        BY <1>10, <2>3
      <3>2. ids' = [ids EXCEPT ![c][k] = new]
        BY <1>9, <3>1
      <3>3. new.name = ids[c][k].name /\ new.conn = "invalid"
        BY <2>1 DEF IdEntry
      <3> HIDE DEF new
      <3>4. ids'[c][k] = new
        BY <1>9, <3>2
      <3> QED BY <1>9, <3>2, <3>3, <3>4
    <2>4. \A r \in Service : r # c => named'[r] = named[r] /\ up'[r] = up[r]
      BY <1>9, <1>10
    <2> QED BY <2>2, <2>3, <2>4
  <1>12. IF Alive(p) THEN /\ named'[c] = named[c] \union {<< NameOf[p], k >>}
                          /\ up'[c] = up[c] \union {<< p, k >>}
                          /\ link'[c][p] = "ident"
                          /\ \A q, r \in Service : q # c \/ r # p => link'[q][r] = link[q][r]
                     ELSE link' = link /\ named'[c] = named[c] /\ up'[c] = up[c]
    BY <1>9, <1>10
  <1>13. /\ ToConnect(c)' \subseteq ToConnect(c)
         /\ \A h \in ToConnect(c)' : known[c][h].sid # k
         /\ \A r \in Service : r # c => ToConnect(r)' = ToConnect(r)
    <2>1. /\ Before(c)' = Before(c)
          /\ \A r \in Service : r # c => ToConnect(r)' = ToConnect(r)
      BY <1>1, <1>11 DEF ToConnect, Before
    <2>2. ids'[c][k].conn # "empty"
      BY <1>11
    <2>3. ASSUME NEW h \in ToConnect(c)'
          PROVE  h \in ToConnect(c) /\ known[c][h].sid # k
      <3>1. h \in Before(c) /\ ids'[c][known[c][h].sid].conn = "empty"
        BY <1>1, <2>1 DEF ToConnect
      <3>2. known[c][h].sid # k
        BY <2>2, <3>1
      <3>3. known[c][h].sid \in SId
        BY <3>1, KnownType DEF Before
      <3> QED BY <1>11, <3>1, <3>2, <3>3 DEF ToConnect
    <2> QED BY <2>1, <2>3
  <1>14. Alive(p) => link[c][p] = "none"
    BY <1>1, <1>3 DEF LinksInv, OpenInv
  <1>15. OpenInv' /\ PeerInv' /\ InvalidInv'
    <2>1. CASE ~Alive(p)
      <3>1. Onward
        <4>1. \A q \in Service : Posted(q, "RG")' <=> Posted(q, "RG")
          BY <1>1 DEF Posted, Post
        <4>2. \A q \in Service : known'[q] = known[q] /\ ToConnect(q)' \subseteq ToConnect(q)
          BY <1>1, <1>13
        <4>3. link' = link
          BY <1>12, <2>1
        <4> QED BY <1>1, <4>1, <4>2, <4>3 DEF Onward, Alive
      <3>2. OpenInv'
        BY <3>1, OpenStays DEF LinksInv
      <3>3. PeerInv'
        BY <1>11, <2>1, <3>1, PeerStays DEF LinksInv
      <3>4. ASSUME NEW r \in Service, NEW q \in Service, NEW j \in SId, Clean(r, j)',
                   ids'[r][j].conn = "invalid", Noted(r, q, j)'
            PROVE  /\ link'[q][r] \notin {"ident", "gone"}
                   /\ Alive(q)' => link'[q][r] # "none"
        <4>1. Clean(r, j) /\ Noted(r, q, j) /\ link' = link /\ (Alive(q)' <=> Alive(q))
          <5>1. up'[r] = up[r]
            BY <1>11, <1>12, <2>1
          <5> QED BY <1>1, <1>12, <2>1, <3>4, <5>1 DEF Clean, Noted, Listed, Alive
        <4>2. CASE r # c \/ j # k
          BY <1>11, <3>4, <4>1, <4>2 DEF LinksInv, InvalidInv
        <4>3. CASE r = c /\ j = k
          <5>1. q = p
            BY <1>8, <4>1, <4>3, OwnersOnly DEF Mentions
          <5>2. link[p][c] = "none"
            <6> SUFFICES ASSUME link[p][c] # "none" PROVE FALSE
              OBVIOUS
            <6>1. sid[p] # 0 /\ sid[p] # k
              BY <1>4, <4>1, <4>3 DEF LinksInv, OpenInv
            <6>2. sid[p] \in SId
              BY <6>1, Vars DEF Inv
            <6> QED BY <1>7, <6>1, <6>2 DEF Inv, TraceInv, Trace
          <5> QED BY <2>1, <4>1, <4>3, <5>1, <5>2
        <4> QED BY <4>2, <4>3
      <3>5. InvalidInv'
        BY <3>4 DEF InvalidInv
      <3> QED BY <3>2, <3>3, <3>5
    <2>2. CASE Alive(p)
      <3>1. stage[p] # "off" /\ ~Posted(p, "RG")
        BY <1>7, <2>2 DEF Alive, Inv, PostInv
      <3>2. \A q, r \in Service : q # c \/ r # p => link'[q][r] = link[q][r]
        BY <1>12, <2>2
      <3>3. ASSUME NEW r \in Service, NEW q \in Service, link'[q][r] # "none"
            PROVE  /\ ~(stage'[r] = "off" \/ Posted(r, "RG")')
                   /\ stage'[q] \notin {"off", "registering", "registered"}
                   /\ sid'[q] # 0
                   /\ stage'[q] = "connecting" =>
                        \A h \in ToConnect(q)' : known'[q][h].svc # r
                   /\ \A s \in Service, j \in SId :
                        Prior(r, s, j)' /\ Clean(r, j)' => sid'[q] # j
                   /\ link'[r][q] = "none" /\ \A j \in SId : ~Prior(r, q, j)'
        <4>0. Posted(r, "RG")' <=> Posted(r, "RG")
          BY <1>1 DEF Posted, Post
        <4>1. CASE q # c \/ r # p
          <5>1. link[q][r] # "none"
            BY <3>2, <3>3, <4>1
          <5>2. /\ ~(stage[r] = "off" \/ Posted(r, "RG"))
                /\ stage[q] \notin {"off", "registering", "registered"}
                /\ sid[q] # 0
                /\ stage[q] = "connecting" => \A h \in ToConnect(q) : known[q][h].svc # r
                /\ \A s \in Service, j \in SId : Prior(r, s, j) /\ Clean(r, j) => sid[q] # j
                /\ link[r][q] = "none" /\ \A j \in SId : ~Prior(r, q, j)
            BY <5>1 DEF LinksInv, OpenInv
          <5>3. ToConnect(q)' \subseteq ToConnect(q)
            BY <1>13
          <5>4. \A s \in Service, j \in SId :
                  Prior(r, s, j)' /\ Clean(r, j)' => Prior(r, s, j) /\ Clean(r, j)
            BY <1>1, <5>2 DEF OrderKept, Clean
          <5>5. link'[r][q] = "none"
            <6>1. ~(r = c /\ q = p)
              BY <1>4, <5>2
            <6> QED BY <3>2, <5>2, <6>1
          <5>6. \A j \in SId : ~Prior(r, q, j)'
            BY <5>2 DEF OrderKept
          <5> QED BY <1>1, <4>0, <5>2, <5>3, <5>4, <5>5, <5>6
        <4>2. CASE q = c /\ r = p
          <5>1. sid[c] # 0
            BY <1>1 DEF Inv, TypeInv, Identified
          <5>2. ASSUME NEW h \in ToConnect(c)', known[c][h].svc = p PROVE FALSE
            <6>1. h \in ToConnect(c) /\ known[c][h].sid # k
              BY <1>13
            <6>2. known[c][h].sid \in SId
              BY <6>1, KnownType DEF ToConnect, Before
            <6>3. PICK j \in SId : j = known[c][h].sid
              BY <6>2
            <6>4. Listed(c, p, j)
              BY <1>1, <5>2, <6>1, <6>3, NextIsPrior
            <6>5. Trace(p, j)
              BY <6>4 DEF Trace, Mentions, Noted
            <6> QED BY <1>7, <6>1, <6>3, <6>5 DEF Inv, TraceInv
          <5>3. ASSUME NEW s \in Service, NEW j \in SId, Prior(p, s, j)', Clean(p, j)', sid[c] = j
                PROVE  FALSE
            <6>1. Prior(p, s, j)
              BY <3>1, <5>3 DEF OrderKept
            <6>2. Clean(p, j)
              BY <1>1, <5>3 DEF Clean
            <6>3. Mentions(p, s, j)
              BY <6>1, PriorMentions
            <6>4. Owner(s, j)
              BY <6>2, <6>3 DEF Inv, MentionInv
            <6>5. Owner(c, j)
              BY <1>1, <5>3 DEF Owner, Alive
            <6>6. s = c
              BY <6>4, <6>5 DEF Inv, OwnerInv
            <6> QED BY <1>4, <6>1, <6>6 DEF OrderInv, AntiInv
          <5>4. \A j \in SId : ~Prior(p, c, j)'
            BY <1>4, <3>1 DEF OrderKept, OrderInv, AntiInv
          <5>5. link'[p][c] = "none"
            <6>1. p # c
              BY <1>4 DEF OrderInv, AntiInv
            <6>2. link[p][c] = "none"
              BY <1>4 DEF LinksInv, OpenInv
            <6> QED BY <3>2, <6>1, <6>2
          <5> QED BY <1>1, <3>1, <4>0, <4>2, <5>1, <5>2, <5>3, <5>4, <5>5
        <4> QED BY <4>1, <4>2
      <3>4. OpenInv'
        BY <3>3 DEF OpenInv
      <3>5. ASSUME NEW r \in Service, NEW q \in Service, NEW j \in SId, ids'[r][j].peer = q
            PROVE  /\ ids'[r][j].conn = "client" => link'[r][q] # "none"
                   /\ ids'[r][j].conn = "server" => link'[q][r] # "none"
        <4>1. CASE r = c /\ j = k
          BY <1>11, <1>12, <2>2, <3>5, <4>1
        <4>2. CASE r # c \/ j # k
          <5>1. /\ ids'[r][j].conn = "client" => link[r][q] # "none"
                /\ ids'[r][j].conn = "server" => link[q][r] # "none"
            BY <1>11, <3>5, <4>2 DEF LinksInv, PeerInv
          <5>2. \A x, y \in Service : link[x][y] # "none" => link'[x][y] # "none"
            BY <1>12, <2>2
          <5> QED BY <5>1, <5>2
        <4> QED BY <4>1, <4>2
      <3>6. PeerInv'
        BY <3>5 DEF PeerInv
      <3>7. ASSUME NEW r \in Service, NEW q \in Service, NEW j \in SId, Clean(r, j)',
                   ids'[r][j].conn = "invalid", Noted(r, q, j)'
            PROVE  /\ link'[q][r] \notin {"ident", "gone"}
                   /\ Alive(q)' => link'[q][r] # "none"
        <4>1. r # c \/ j # k
          BY <1>11, <2>2, <3>7
        <4>2. Clean(r, j) /\ (Alive(q)' <=> Alive(q)) /\ ids[r][j].conn = "invalid"
          BY <1>1, <1>11, <3>7, <4>1 DEF Clean, Alive
        <4>3. << q, j >> \in up'[r] => << q, j >> \in up[r]
          BY <1>11, <1>12, <2>2, <4>1
        <4>4. Noted(r, q, j)
          BY <1>1, <3>7, <4>3 DEF Noted, Listed
        <4>5. /\ link[q][r] \notin {"ident", "gone"}
              /\ Alive(q) => link[q][r] # "none"
          BY <4>2, <4>4 DEF LinksInv, InvalidInv
        <4>6. q # c \/ r # p
          <5>1. Alive(c)
            BY <1>1 DEF Alive
          <5> QED BY <1>14, <2>2, <4>5, <5>1
        <4> QED BY <3>2, <4>2, <4>5, <4>6
      <3>8. InvalidInv'
        BY <3>7 DEF InvalidInv
      <3> QED BY <3>4, <3>6, <3>8
    <2> QED BY <2>1, <2>2
  <1>16. NamedInv'
    <2>1. ASSUME NEW j \in SId, Clean(c, j)' PROVE Agree(c, j)'
      <3>1. Agree(c, j)
        BY <1>1, <2>1 DEF Clean, NamedInv
      <3>2. CASE j # k
        <4>1. \A x \in named'[c] : x[2] = j => x \in named[c]
          BY <1>12, <3>2
        <4>2. named[c] \subseteq named'[c] /\ up[c] \subseteq up'[c]
          BY <1>12
        <4>3. ids'[c][j] = ids[c][j]
          BY <1>11, <3>2
        <4> QED BY <3>1, <4>1, <4>2, <4>3 DEF Agree
      <3>3. CASE j = k
        <4>1. ids[c][k].name = NameOf[p]
          BY <1>1, <1>8, <2>1, <3>3 DEF Clean
        <4>2. \A x \in named[c] : x[2] # k
          BY <1>5, <3>1, <3>3 DEF Agree
        <4>3. CASE ~Alive(p)
          BY <1>11, <1>12, <3>3, <4>2, <4>3 DEF Agree, Valid
        <4>4. CASE Alive(p)
          <5>1. \A x \in named'[c] : x[2] = k => x[1] = NameOf[p]
            BY <1>12, <4>2, <4>4
          <5>2. << NameOf[p], k >> \in named'[c] /\ << p, k >> \in up'[c]
            BY <1>12, <4>4
          <5>3. /\ ids'[c][k].name = NameOf[p] /\ ids'[c][k].conn = "client"
                /\ ids'[c][k].peer = p
            BY <1>11, <4>1, <4>4
          <5> QED BY <3>3, <5>1, <5>2, <5>3 DEF Agree
        <4> QED BY <4>3, <4>4
      <3> QED BY <3>2, <3>3
    <2>2. ~Working(c)' => named'[c] = {}
      BY <1>1 DEF Working
    <2>3. \A r \in Service : r # c => /\ stage'[r] = stage[r] /\ ids'[r] = ids[r]
                                      /\ named'[r] = named[r] /\ up'[r] = up[r]
      BY <1>1, <1>11
    <2>4. spoiled \subseteq spoiled'
      BY <1>1
    <2> QED BY <2>1, <2>2, <2>3, <2>4, NamedStays
  <1> QED BY <1>15, <1>16 DEF LinksInv

(* Who says who it is to p is the one that p has in its tables, if any.    *)
LEMMA IdentificationTables ==
  ASSUME Inv, LinksInv, NamedInv, OrderKept, NEW p \in Service, NEW c \in Service,
         ServiceIdentification(p, c)
  PROVE  LinksInv' /\ NamedInv'
PROOF
  <1>1. /\ stage[p] = "running" /\ link[c][p] \in {"ident", "gone"}
        /\ UNCHANGED << registry, toNS, fromNS, stage, sid, known >>
    BY DEF ServiceIdentification, naming, channels
  <1>2. PICK k \in SId : k = sid[c]
    <2>1. sid[c] \in SId \union {0} /\ sid[c] # 0
      BY <1>1, Vars DEF Inv, TypeInv, Identified
    <2> QED BY <2>1
  <1>3. /\ ids \in [Service -> [SId -> IdEntry]]
        /\ up \in [Service -> SUBSET (Service \X SId)]
        /\ link \in [Service -> [Service -> State]]
        /\ named \in [Service -> SUBSET (Name \X SId)]
    BY Vars DEF Inv, TypeInv, Typed, TablesType
  <1>4. /\ ids' = [ids EXCEPT ![p][k] =
                     [Inserted(ids[p][k], c) EXCEPT !.conn = "server", !.peer = c]]
        /\ up' = IF ids[p][k].conn = "empty" THEN [up EXCEPT ![p] = @ \union {<< c, k >>}] ELSE up
        /\ named' = IF ids[p][k].conn = "empty"
                      THEN [named EXCEPT ![p] = @ \union {<< NameOf[c], k >>}] ELSE named
        /\ link' = [link EXCEPT ![c][p] = IF @ = "gone" THEN "broken" ELSE "up"]
    BY <1>2 DEF ServiceIdentification
  <1>5. /\ \A r \in Service, j \in SId : r # p \/ j # k => ids'[r][j] = ids[r][j]
        /\ \A r \in Service : r # p => ids'[r] = ids[r]
        /\ ids'[p][k].name = IF Ready(ids[p][k]) THEN ids[p][k].name ELSE NameOf[c]
        /\ ids'[p][k].conn = "server" /\ ids'[p][k].peer = c
    <2> DEFINE new == [Inserted(ids[p][k], c) EXCEPT !.conn = "server", !.peer = c]
    <2>1. ids[p][k] \in IdEntry
      BY <1>3
    <2>2. Inserted(ids[p][k], c) \in IdEntry
      BY <2>1, InsertedType
    <2>3. Inserted(ids[p][k], c).name = IF Ready(ids[p][k]) THEN ids[p][k].name ELSE NameOf[c]
      BY DEF Inserted, NotUsed
    <2>4. /\ new.name = Inserted(ids[p][k], c).name
          /\ new.conn = "server" /\ new.peer = c
      BY <2>2 DEF IdEntry
    <2>5. ids' = [ids EXCEPT ![p][k] = new]
      BY <1>4
    <2> HIDE DEF new
    <2> QED BY <1>3, <2>3, <2>4, <2>5
  <1>6. /\ IF ids[p][k].conn = "empty"
             THEN /\ named'[p] = named[p] \union {<< NameOf[c], k >>}
                  /\ up'[p] = up[p] \union {<< c, k >>}
             ELSE named'[p] = named[p] /\ up'[p] = up[p]
        /\ \A r \in Service : r # p => named'[r] = named[r] /\ up'[r] = up[r]
    BY <1>3, <1>4
  <1>7. /\ link'[c][p] \in {"broken", "up"}
        /\ \A q, r \in Service : q # c \/ r # p => link'[q][r] = link[q][r]
    BY <1>3, <1>4
  <1>8. spoiled \subseteq spoiled'
    BY DEF ServiceIdentification, Spoil
  <1>9. Onward
    <2>1. \A q \in Service : q # p => ToConnect(q)' = ToConnect(q)
      BY <1>1, <1>5 DEF ToConnect, Before
    <2>2. \A q \in Service : stage'[q] = "connecting" =>
            /\ stage[q] = "connecting" /\ known'[q] = known[q]
            /\ ToConnect(q)' \subseteq ToConnect(q)
      BY <1>1, <2>1
    <2>3. \A q \in Service : Posted(q, "RG")' <=> Posted(q, "RG")
      BY <1>1 DEF Posted, Post
    <2>4. \A r, q \in Service :
            /\ link'[q][r] = "none" <=> link[q][r] = "none"
            /\ link'[q][r] \in {"ident", "gone"} => link[q][r] \in {"ident", "gone"}
      BY <1>1, <1>7
    <2> QED BY <1>1, <1>8, <2>2, <2>3, <2>4 DEF Onward, Alive
  <1>10. OpenInv'
    BY <1>9, OpenStays DEF LinksInv
  <1>11. PeerInv'
    <2>1. ids'[p][k].conn = "server" /\ link'[ids'[p][k].peer][p] # "none"
      BY <1>5, <1>7
    <2> QED BY <1>5, <1>9, <2>1, PeerStays DEF LinksInv
  <1>12. InvalidInv'
    <2>1. ASSUME NEW r \in Service, NEW q \in Service, NEW j \in SId,
                 ids'[r][j].conn = "invalid", Noted(r, q, j)'
          PROVE  ids[r][j].conn = "invalid" /\ Noted(r, q, j)
      <3>1. r # p \/ j # k
        BY <1>5, <2>1
      <3>2. << q, j >> \in up'[r] => << q, j >> \in up[r]
        BY <1>6, <3>1
      <3> QED BY <1>1, <1>5, <2>1, <3>1, <3>2 DEF Noted, Listed
    <2> QED BY <1>9, <2>1, InvalidStays DEF LinksInv
  <1>13. ASSUME Clean(p, k)'
         PROVE  /\ Clean(p, k) /\ Agree(p, k) /\ ids[p][k].conn # "invalid"
                /\ Ready(ids[p][k]) => ids[p][k].name = NameOf[c]
                /\ \A x \in up[p] : x[2] = k => x = << c, k >>
    <2>1. Clean(p, k)
      BY <1>8, <1>13 DEF Clean
    <2>2. Owner(c, k)
      <3>1. Inv'
        BY IdentificationInv
      <3>2. Mentions(p, c, k)'
        BY <1>5 DEF Mentions
      <3>3. Owner(c, k)'
        BY <1>13, <3>1, <3>2 DEF Inv, MentionInv
      <3> QED BY <1>1, <3>3 DEF Owner, Alive, Granting, Mail, Entered, Posted, Post
    <2>3. /\ Ready(ids[p][k]) => ids[p][k].name = NameOf[c] /\ Noted(p, c, k)
          /\ \A x \in up[p] : x[2] = k => x = << c, k >>
      BY <2>1, <2>2, OwnersOnly
    <2>4. ids[p][k].conn # "invalid"
      <3>1. ids[p][k].conn = "invalid" => Ready(ids[p][k])
        BY DEF Inv, TableInv
      <3> QED BY <1>1, <2>1, <2>3, <3>1 DEF LinksInv, InvalidInv
    <2> QED BY <2>1, <2>3, <2>4 DEF NamedInv
  <1>14. NamedInv'
    <2>1. ASSUME NEW j \in SId, Clean(p, j)' PROVE Agree(p, j)'
      <3>1. CASE j # k
        <4>1. Agree(p, j)
          BY <1>8, <2>1 DEF Clean, NamedInv
        <4>2. \A x \in named'[p] : x[2] = j => x \in named[p]
          BY <1>6, <3>1
        <4>3. named[p] \subseteq named'[p] /\ up[p] \subseteq up'[p]
          BY <1>6
        <4>4. ids'[p][j] = ids[p][j]
          BY <1>5, <3>1
        <4> QED BY <4>1, <4>2, <4>3, <4>4 DEF Agree
      <3>2. CASE j = k
        <4>1. /\ Agree(p, k) /\ ids[p][k].conn # "invalid"
              /\ Ready(ids[p][k]) => ids[p][k].name = NameOf[c]
              /\ \A x \in up[p] : x[2] = k => x = << c, k >>
          BY <1>13, <2>1, <3>2
        <4>2. /\ ids'[p][k].name = NameOf[c] /\ ids'[p][k].conn = "server"
              /\ ids'[p][k].peer = c
          BY <1>5, <4>1
        <4>3. CASE ids[p][k].conn = "empty"
          <5>1. \A x \in named[p] : x[2] # k
            BY <4>1, <4>3 DEF Agree
          <5>2. \A x \in named'[p] : x[2] = k => x[1] = NameOf[c]
            BY <1>6, <4>3, <5>1
          <5>3. << NameOf[c], k >> \in named'[p] /\ << c, k >> \in up'[p]
            BY <1>6, <4>3
          <5> QED BY <3>2, <4>2, <5>2, <5>3 DEF Agree
        <4>4. CASE ids[p][k].conn # "empty"
          <5>1. Valid(ids[p][k])
            <6>1. ids[p][k] \in IdEntry
              BY <1>3
            <6> QED BY <4>1, <4>4, <6>1 DEF Valid, IdEntry
          <5>2. << ids[p][k].name, k >> \in named[p] /\ << ids[p][k].peer, k >> \in up[p]
            BY <4>1, <5>1 DEF Agree
          <5>3. Ready(ids[p][k])
            BY <4>4 DEF Inv, TableInv
          <5>4. ids[p][k].name = NameOf[c] /\ ids[p][k].peer = c
            <6> DEFINE x == << ids[p][k].peer, k >>
            <6>1. x \in up[p] /\ x[2] = k /\ x[1] = ids[p][k].peer
              BY <5>2
            <6>2. x = << c, k >>
              BY <4>1, <6>1
            <6> QED BY <4>1, <5>3, <6>1, <6>2
          <5>5. \A x \in named'[p] : x[2] = k => x[1] = NameOf[c]
            BY <1>6, <4>1, <4>4, <5>4 DEF Agree
          <5>6. << NameOf[c], k >> \in named'[p] /\ << c, k >> \in up'[p]
            BY <1>6, <4>4, <5>2, <5>4
          <5> QED BY <3>2, <4>2, <5>5, <5>6 DEF Agree
        <4> QED BY <4>3, <4>4
      <3> QED BY <3>1, <3>2
    <2>2. ~Working(p)' => named'[p] = {}
      BY <1>1 DEF Working
    <2>3. \A r \in Service : r # p => /\ stage'[r] = stage[r] /\ ids'[r] = ids[r]
                                      /\ named'[r] = named[r] /\ up'[r] = up[r]
      BY <1>1, <1>5, <1>6
    <2> QED BY <1>8, <2>1, <2>2, <2>3, NamedStays
  <1> QED BY <1>10, <1>11, <1>12, <1>14 DEF LinksInv

(* The connection that is lost is the one that the owner of the identifier *)
(* had.                                                                    *)
LEMMA ClientLostTables ==
  ASSUME Inv, LinksInv, NamedInv, OrderKept, NEW p \in Service, NEW q \in Service,
         ClientLost(p, q)
  PROVE  LinksInv' /\ NamedInv'
PROOF
  <1>1. /\ stage[p] = "running" /\ link[q][p] = "broken"
        /\ UNCHANGED << toNS, stage, sid, known, named, up, spoiled >>
        /\ link' = [link EXCEPT ![q][p] = "closed"]
    BY DEF ClientLost, channels
  <1>2. /\ ids \in [Service -> [SId -> IdEntry]]
        /\ link \in [Service -> [Service -> State]]
        /\ sid \in [Service -> SId \union {0}]
    BY Vars DEF Inv
  <1>3. /\ link'[q][p] = "closed"
        /\ \A r, s \in Service : r # q \/ s # p => link'[r][s] = link[r][s]
    BY <1>1, <1>2
  <1>4. /\ \A r \in Service : r # p => ids'[r] = ids[r]
        /\ \A j \in SId : \/ ids'[p][j] = ids[p][j]
                          \/ /\ ids[p][j].peer = q /\ j = sid[q]
                             /\ ids'[p][j].conn = "invalid"
                             /\ ids'[p][j].name = ids[p][j].name
    <2>1. CASE ~Holds(p, q)
      <3>1. ids' = ids
        BY <2>1 DEF ClientLost
      <3> QED BY <3>1
    <2>2. CASE Holds(p, q)
      <3>1. PICK k \in SId : ids[p][k].peer = q
        BY <2>2 DEF Holds
      <3>2. sid[q] # 0
        <4>1. link[q][p] # "none"
          BY <1>1
        <4> QED BY <4>1 DEF LinksInv, OpenInv
      <3>3. Trace(q, k) /\ Trace(q, sid[q]) /\ sid[q] \in SId
        BY <1>2, <3>1, <3>2 DEF Trace, Mentions
      <3>4. sid[q] = k
        BY <3>3 DEF Inv, TraceInv
      <3> DEFINE new == [ids[p][k] EXCEPT !.conn = "invalid", !.peer = None]
      <3>5. ids' = [ids EXCEPT ![p][k].conn = "invalid", ![p][k].peer = None]
        BY <2>2, <3>4 DEF ClientLost
      <3>6. ids' = [ids EXCEPT ![p][k] = new]
        BY <1>2, <3>5
      <3>7. ids[p][k] \in IdEntry
        BY <1>2
      <3>8. new.name = ids[p][k].name /\ new.conn = "invalid"
        BY <3>7 DEF IdEntry
      <3> HIDE DEF new
      <3>9. /\ \A r \in Service : r # p => ids'[r] = ids[r]
            /\ ids'[p][k] = new
            /\ \A j \in SId : j # k => ids'[p][j] = ids[p][j]
        BY <1>2, <3>6
      <3> QED BY <3>1, <3>4, <3>8, <3>9
    <2> QED BY <2>1, <2>2
  <1>5. Onward
    <2>1. \A r \in Service : r # p => ToConnect(r)' = ToConnect(r)
      BY <1>1, <1>4 DEF ToConnect, Before
    <2>2. \A r \in Service : stage'[r] = "connecting" =>
            /\ stage[r] = "connecting" /\ known'[r] = known[r]
            /\ ToConnect(r)' \subseteq ToConnect(r)
      BY <1>1, <2>1
    <2>3. \A r \in Service : Posted(r, "RG")' <=> Posted(r, "RG")
      BY <1>1 DEF Posted, Post
    <2>4. \A r, s \in Service :
            /\ link'[s][r] = "none" <=> link[s][r] = "none"
            /\ link'[s][r] \in {"ident", "gone"} => link[s][r] \in {"ident", "gone"}
      BY <1>1, <1>3
    <2> QED BY <1>1, <2>2, <2>3, <2>4 DEF Onward, Alive
  <1>6. OpenInv'
    BY <1>5, OpenStays DEF LinksInv
  <1>7. PeerInv'
    <2>1. \A r \in Service, j \in SId : ids'[r][j] = ids[r][j] \/ ids'[r][j].conn = "invalid"
      BY <1>4
    <2> QED BY <1>5, <2>1, PeerStays DEF LinksInv
  <1>8. InvalidInv'
    <2>1. ASSUME NEW r \in Service, NEW s \in Service, NEW j \in SId, Clean(r, j)',
                 ids'[r][j].conn = "invalid", Noted(r, s, j)'
          PROVE  \/ ids[r][j].conn = "invalid" /\ Noted(r, s, j)
                 \/ link'[s][r] \notin {"ident", "gone", "none"}
      <3>1. Clean(r, j) /\ Noted(r, s, j)
        BY <1>1, <2>1 DEF Clean, Noted, Listed
      <3>2. CASE ids'[r][j] = ids[r][j]
        BY <2>1, <3>1, <3>2
      <3>3. CASE ids'[r][j] # ids[r][j]
        <4>1. r = p /\ ids[p][j].peer = q
          BY <1>4, <3>3
        <4>2. Owner(s, j) /\ Owner(q, j)
          BY <3>1, <4>1 DEF Inv, MentionInv, Mentions
        <4>3. s = q
          BY <4>2 DEF Inv, OwnerInv
        <4> QED BY <1>3, <4>1, <4>3
      <3> QED BY <3>2, <3>3
    <2> QED BY <1>5, <2>1, InvalidStays DEF LinksInv
  <1>9. NamedInv'
    <2>1. ASSUME NEW j \in SId, Clean(p, j)' PROVE Agree(p, j)'
      <3>1. Agree(p, j)
        BY <1>1, <2>1 DEF Clean, NamedInv
      <3>2. CASE ids'[p][j] = ids[p][j]
        BY <1>1, <3>1, <3>2 DEF Agree
      <3>3. CASE ids'[p][j].conn = "invalid" /\ ids'[p][j].name = ids[p][j].name
        BY <1>1, <3>1, <3>3 DEF Agree, Valid
      <3> QED BY <1>4, <3>2, <3>3
    <2>2. ~Working(p)' => named'[p] = {}
      BY <1>1 DEF Working
    <2>3. \A r \in Service : r # p => /\ stage'[r] = stage[r] /\ ids'[r] = ids[r]
                                      /\ named'[r] = named[r] /\ up'[r] = up[r]
      BY <1>1, <1>4
    <2>4. spoiled \subseteq spoiled'
      BY <1>1
    <2> QED BY <2>1, <2>2, <2>3, <2>4, NamedStays
  <1> QED BY <1>6, <1>7, <1>8, <1>9 DEF LinksInv

-----------------------------------------------------------------------------
(* A step of the shard keeps the tables.                                   *)
LEMMA TablesNext == Inv /\ OrderInv /\ LinksInv /\ NamedInv /\ [Next]_vars => LinksInv' /\ NamedInv'
PROOF
  <1> SUFFICES ASSUME Inv, OrderInv, LinksInv, NamedInv, [Next]_vars
               PROVE  LinksInv' /\ NamedInv'
    OBVIOUS
  <1>0. OrderKept
    BY OrderNext
  <1>1. ASSUME \/ \E p \in Service :
                    NSAccept(p) \/ NSRefuse(p) \/ NSResend(p) \/ NSAck(p) \/ NSDisconnect(p)
               \/ NSUpdate \/ NSTimeout \/ NSCrash
        PROVE  LinksInv' /\ NamedInv'
    BY <1>0, <1>1, NamingTables
  <1>2. ASSUME \/ \E p \in Service :
                    NoticeNS(p) \/ Connect(p) \/ Connected(p) \/ Start(p) \/ Reconnect(p)
               \/ \E p, q \in Service : ServerLost(p, q)
               \/ NSRestart
               \/ UNCHANGED vars
        PROVE  LinksInv' /\ NamedInv'
    BY <1>0, <1>2, ServiceTables
  <1>3. ASSUME NEW p \in Service,
               Registered(p) \/ RegisterBroadcast(p) \/ UnregisterBroadcast(p) \/ AddService(p)
        PROVE  LinksInv' /\ NamedInv'
    BY <1>0, <1>3, RegisteredTables, RegisterBroadcastTables, UnregisterBroadcastTables,
       AddServiceTables
  <1>4. ASSUME NEW p \in Service, NEW q \in Service, ServiceIdentification(p, q) \/ ClientLost(p, q)
        PROVE  LinksInv' /\ NamedInv'
    BY <1>0, <1>4, IdentificationTables, ClientLostTables
  <1>5. ASSUME NEW p \in Service, Die(p) PROVE LinksInv' /\ NamedInv'
    <2>1. Alive(p) /\ Ends(p) /\ UNCHANGED sid /\ spoiled \subseteq spoiled'
      BY <1>5 DEF Die, Spoil
    <2> QED BY <1>0, <2>1, EndsTables
  <1> QED BY <1>1, <1>2, <1>3, <1>4, <1>5 DEF Next, NS, Process

(* The whole invariant.                                                    *)
AllInv == Inv /\ OrderInv /\ LinksInv /\ NamedInv

(* It holds in every state of the shard.                                   *)
LEMMA AllInvAlways == Spec => []AllInv
PROOF
  <1>1. Init => AllInv
    BY InitInv, InitTables DEF AllInv
  <1>2. AllInv /\ [Next]_vars => AllInv'
    BY NextInv, OrderNext, TablesNext DEF AllInv, OrderKept
  <1> QED BY <1>1, <1>2, PTL DEF Spec

(* The names, the entries and the callbacks of each service agree, always: *)
(* CUnifiedNetwork finds by name or by identifier the same connection.     *)
THEOREM TablesAreConsistent == Spec => []TablesAgree
PROOF
  <1>1. AllInv => TablesAgree
    BY TablesFollow DEF AllInv
  <1> QED BY <1>1, AllInvAlways, PTL

(* Each two services connect at most once, whoever dies, restarts or times *)
(* out: if one opened a connection the other never does, and none opens    *)
(* one to itself (addService is for those before it in the list).          *)
ConnectedOnce == \A p, q \in Service : link[p][q] = "none" \/ link[q][p] = "none"

(* No two services connect to each other.                                  *)
THEOREM OneConnection == Spec => []ConnectedOnce
PROOF
  <1>1. AllInv => ConnectedOnce
    BY DEF AllInv, LinksInv, OpenInv, ConnectedOnce
  <1> QED BY <1>1, AllInvAlways, PTL

-----------------------------------------------------------------------------
(* Those that are waited for.                                              *)

(* What makes the naming service stop waiting for p is on its way.         *)
Pending(p, k) == Dropped(p, k) \/ Acked(p, k) \/ Posted(p, "closed")

(* Each answer that a service which left waits for is of a service of the  *)
(* list, which will give it or leave: the list does not keep an entry for  *)
(* ever.                                                                   *)
AwaitInv ==
  \A e \in Entries(registry) : e.waiting => \A j \in e.acks :
    \E f \in Available(registry) : f.sid = j /\ Pending(f.svc, e.sid)

(* A step that takes none of that away.                                    *)
LEMMA AwaitStays ==
  ASSUME Inv, AwaitInv,
         \A g \in Entries(registry)' : g.waiting =>
           \E e \in Entries(registry) : e.waiting /\ e.sid = g.sid /\ g.acks \subseteq e.acks,
         Available(registry) \subseteq Available(registry)',
         \A f \in Available(registry) : \A k \in SId :
           f.svc \in Service /\ Pending(f.svc, k) => Pending(f.svc, k)'
  PROVE  AwaitInv'
PROOF
  <1> SUFFICES ASSUME NEW g \in Entries(registry)', g.waiting, NEW j \in g.acks
               PROVE  \E f \in Available(registry)' : f.sid = j /\ Pending(f.svc, g.sid)'
    BY DEF AwaitInv
  <1>1. PICK e \in Entries(registry) : e.waiting /\ e.sid = g.sid /\ g.acks \subseteq e.acks
    OBVIOUS
  <1>2. PICK f \in Available(registry) : f.sid = j /\ Pending(f.svc, e.sid)
    BY <1>1 DEF AwaitInv
  <1>3. f.svc \in Service /\ e.sid \in SId
    BY RegistryEntries DEF Inv, Entry
  <1> QED BY <1>1, <1>2, <1>3

(* The messages about that which a step leaves where they were.            *)
LEMMA PendingStays ==
  ASSUME NEW p \in Service, NEW k \in SId, Pending(p, k),
         \A m \in Mail(p) : m.type = "UNB" => m \in Mail(p)',
         \A m \in Post(p) : m.type \in {"ACK_UNI", "closed"} => m \in Post(p)'
  PROVE  Pending(p, k)'
PROOF
  <1>1. Dropped(p, k) => Dropped(p, k)'
    BY DEF Dropped, Drops
  <1>2. Acked(p, k) => Acked(p, k)'
    BY DEF Acked, Acks
  <1>3. Posted(p, "closed") => Posted(p, "closed")'
    BY DEF Posted
  <1> QED BY <1>1, <1>2, <1>3 DEF Pending

(* What the naming service does but for removing someone.                  *)
LEMMA NamingAwait ==
  ASSUME Inv, AwaitInv, \/ \E p \in Service : NSAccept(p) \/ NSRefuse(p) \/ NSResend(p)
                        \/ NSUpdate \/ NSTimeout \/ NSCrash
  PROVE  AwaitInv'
PROOF
  <1>0. /\ registry \in Seq(Entry)
        /\ fromNS \in [Service -> Seq(FromNSMessage)]
    BY Vars DEF Inv
  <1>1. ASSUME NEW p \in Service, NSAccept(p) \/ NSRefuse(p) \/ NSResend(p) PROVE AwaitInv'
    <2>1. PICK type \in {"RG", "RRG"} : Received(p, type) /\ Handled(p)
      BY <1>1 DEF NSAccept, NSRefuse, NSResend
    <2>2. \A q \in Service : \A m \in Post(q) : m.type \in {"ACK_UNI", "closed"} => m \in Post(q)'
      <3>1. Head(toNS[p]).type = type /\ Post(p) = {Head(toNS[p])} \union Post(p)'
        BY <2>1, Taken
      <3>2. \A q \in Service : q # p => Post(q)' = Post(q)
        BY <2>1, Taken
      <3> QED BY <2>1, <3>1, <3>2
    <2>3. \A q \in Service : Mail(q) \subseteq Mail(q)'
      <3>1. CASE NSAccept(p)
        <4>1. PICK k \in SId : k = Min(FreeSIds(registry))
          <5>1. FreeSIds(registry) \in SUBSET Nat /\ FreeSIds(registry) # {}
            BY <3>1, SIdNat DEF NSAccept, FreeSIds
          <5> QED BY <5>1, MinProperties DEF FreeSIds
        <4> DEFINE rgb == [type |-> "RGB", svc |-> p, sid |-> k]
                   rg == [type |-> "RG", ok |-> TRUE, sid |-> k, list |-> Accessible(registry')]
                   sent == Broadcast(Recipients, rgb)
        <4>2. fromNS' = Reply(sent, p, rg)
          BY <3>1, <4>1 DEF NSAccept
        <4>3. registry' \in Seq(Entry)
          BY <1>0, <3>1, <4>1, RegisterEntries DEF NSAccept
        <4>4. rgb \in FromNSMessage
          BY DEF FromNSMessage, News
        <4>5. rg \in FromNSMessage
          BY <4>3, AccessibleEntries DEF FromNSMessage, Answers
        <4>6. \A q \in Service : sent[q] = fromNS[q] \/ sent[q] = Append(fromNS[q], rgb)
          BY DEF Broadcast
        <4>7. sent \in [Service -> Seq(FromNSMessage)]
          BY <1>0, <4>4, BroadcastType
        <4> HIDE DEF rgb, rg, sent
        <4>8. \A q \in Service : fromNS'[q] = sent[q] \/ fromNS'[q] = Append(sent[q], rg)
          BY <4>2, <4>7 DEF Reply
        <4> SUFFICES ASSUME NEW q \in Service PROVE Mail(q) \subseteq Mail(q)'
          OBVIOUS
        <4>9. fromNS[q] \in Seq(FromNSMessage) /\ sent[q] \in Seq(FromNSMessage)
          BY <1>0, <4>7
        <4>10. Entries(fromNS[q]) \subseteq Entries(sent[q])
          <5>1. CASE sent[q] = fromNS[q]
            BY <5>1
          <5>2. CASE sent[q] = Append(fromNS[q], rgb)
            <6>1. Entries(sent[q]) = Entries(fromNS[q]) \union {rgb}
              BY <4>4, <4>9, <5>2, AppendEntries
            <6> QED BY <6>1
          <5> QED BY <4>6, <5>1, <5>2
        <4>11. Entries(sent[q]) \subseteq Entries(fromNS'[q])
          <5>1. CASE fromNS'[q] = sent[q]
            BY <5>1
          <5>2. CASE fromNS'[q] = Append(sent[q], rg)
            <6>1. Entries(fromNS'[q]) = Entries(sent[q]) \union {rg}
              BY <4>5, <4>9, <5>2, AppendEntries
            <6> QED BY <6>1
          <5> QED BY <4>8, <5>1, <5>2
        <4> QED BY <4>10, <4>11 DEF Mail
      <3>2. CASE NSRefuse(p)
        <4> DEFINE rg == [type |-> "RG", ok |-> FALSE]
        <4>1. \A q \in Service : fromNS'[q] = fromNS[q] \/ fromNS'[q] = Append(fromNS[q], rg)
          BY <1>0, <3>2 DEF NSRefuse, Reply
        <4>2. rg \in FromNSMessage
          BY DEF FromNSMessage, Refusal
        <4> HIDE DEF rg
        <4> SUFFICES ASSUME NEW q \in Service PROVE Mail(q) \subseteq Mail(q)'
          OBVIOUS
        <4>3. CASE fromNS'[q] = fromNS[q]
          BY <4>3 DEF Mail
        <4>4. CASE fromNS'[q] = Append(fromNS[q], rg)
          <5>1. fromNS[q] \in Seq(FromNSMessage)
            BY <1>0
          <5>2. Entries(fromNS'[q]) = Entries(fromNS[q]) \union {rg}
            BY <4>2, <4>4, <5>1, AppendEntries
          <5> QED BY <5>2 DEF Mail
        <4> QED BY <4>1, <4>3, <4>4
      <3>3. CASE NSResend(p)
        BY <3>3 DEF NSResend, Mail
      <3> QED BY <1>1, <3>1, <3>2, <3>3
    <2>4. /\ \A g \in Entries(registry)' : g.waiting => g \in Entries(registry)
          /\ Available(registry) \subseteq Available(registry)'
      <3>1. CASE registry' = registry
        BY <3>1
      <3>2. ASSUME NEW k \in SId, registry' = Register(registry, p, k)
            PROVE  /\ \A g \in Entries(registry)' : g.waiting => g \in Entries(registry)
                   /\ Available(registry) \subseteq Available(registry)'
        <4>1. Entries(registry)' =
                Entries(registry) \union {[svc |-> p, sid |-> k, waiting |-> FALSE, acks |-> {}]}
          BY <1>0, <3>2, RegisterEntries
        <4> QED BY <4>1 DEF Available
      <3>3. CASE NSAccept(p)
        <4>1. FreeSIds(registry) \in SUBSET Nat /\ FreeSIds(registry) # {}
          BY <3>3, SIdNat DEF NSAccept, FreeSIds
        <4>2. Min(FreeSIds(registry)) \in SId
          BY <4>1, MinProperties DEF FreeSIds
        <4>3. registry' = Register(registry, p, Min(FreeSIds(registry)))
          BY <3>3 DEF NSAccept
        <4> QED BY <3>2, <4>2, <4>3
      <3>4. CASE NSResend(p)
        <4>1. Head(toNS[p]).type = "RRG" /\ Head(toNS[p]) \in Post(p)
          BY <3>4, Taken DEF NSResend
        <4>2. sid[p] \in SId
          BY <4>1, Vars DEF Inv, TypeInv, Identified, Post
        <4> QED BY <3>1, <3>2, <3>4, <4>2 DEF NSResend
      <3>5. CASE NSRefuse(p)
        BY <3>1, <3>5 DEF NSRefuse, naming
      <3> QED BY <1>1, <3>3, <3>4, <3>5
    <2>5. \A f \in Available(registry) : \A k \in SId :
            f.svc \in Service /\ Pending(f.svc, k) => Pending(f.svc, k)'
      BY <2>2, <2>3, PendingStays
    <2>6. \A g \in Entries(registry)' : g.waiting =>
            \E e \in Entries(registry) : e.waiting /\ e.sid = g.sid /\ g.acks \subseteq e.acks
      BY <2>4
    <2> QED BY <2>4, <2>5, <2>6, AwaitStays
  <1>2. ASSUME NSUpdate \/ NSTimeout PROVE AwaitInv'
    <2>1. UNCHANGED << toNS, fromNS >>
      BY <1>2 DEF NSUpdate, NSTimeout, channels
    <2>2. Entries(registry)' \subseteq Entries(registry)
      <3>1. CASE NSUpdate
        BY <1>0, <3>1, PurgeEntries DEF NSUpdate
      <3>2. CASE NSTimeout
        <4>1. PICK e \in Entries(registry) : registry' = Removed(registry, e)
          BY <3>2 DEF NSTimeout
        <4> QED BY <1>0, <4>1, RemovedEntries
      <3> QED BY <1>2, <3>1, <3>2
    <2>3. Available(registry) \subseteq Available(registry)'
      BY <1>2, SilentSteps DEF Aside
    <2>4. \A f \in Available(registry) : \A k \in SId :
            f.svc \in Service /\ Pending(f.svc, k) => Pending(f.svc, k)'
      BY <2>1 DEF Pending, Dropped, Acked, Posted, Mail, Post
    <2>5. \A g \in Entries(registry)' : g.waiting =>
            \E e \in Entries(registry) : e.waiting /\ e.sid = g.sid /\ g.acks \subseteq e.acks
      BY <2>2
    <2> QED BY <2>3, <2>4, <2>5, AwaitStays
  <1>3. ASSUME NSCrash PROVE AwaitInv'
    BY <1>3, EntriesEmpty DEF NSCrash, AwaitInv, Entries
  <1> QED BY <1>1, <1>2, <1>3

(* An answer that comes is not waited for any more.                        *)
LEMMA AckAwait ==
  ASSUME Inv, AwaitInv, NEW p \in Service, NSAck(p)
  PROVE  AwaitInv'
PROOF
  <1>1. /\ Received(p, "ACK_UNI") /\ Handled(p)
        /\ registry' = Acknowledge(registry, sid[p], Head(toNS[p]).sid)
        /\ UNCHANGED fromNS
    BY DEF NSAck
  <1>2. registry \in Seq(Entry) /\ Distinct(registry)
    BY Vars DEF Inv, RegistryInv
  <1>3. PICK k : k = Head(toNS[p]).sid
    OBVIOUS
  <1>4. /\ Head(toNS[p]).type = "ACK_UNI" /\ Head(toNS[p]) \in Post(p)
        /\ Post(p) = {Head(toNS[p])} \union Post(p)'
        /\ \A q \in Service : q # p => Post(q)' = Post(q)
    BY <1>1, Taken
  <1>5. sid[p] # 0
    BY <1>4 DEF Inv, TypeInv, Identified, Post
  <1>6. Available(registry) \subseteq Available(registry)'
    BY SilentSteps DEF Aside
  <1>7. ASSUME NEW f \in Available(registry), NEW i \in SId, Pending(f.svc, i),
               ~(f.sid = sid[p] /\ i = k)
        PROVE  Pending(f.svc, i)'
    <2>1. f.svc \in Service /\ f \in Entries(registry)
      BY RegistryEntries DEF Inv, Entry, Available
    <2>2. CASE f.svc # p
      BY <1>1, <1>4, <1>7, <2>1, <2>2 DEF Pending, Dropped, Acked, Posted, Mail
    <2>3. CASE f.svc = p
      <3>1. i # k
        BY <1>5, <1>7, <2>1, <2>3, KnownIdentifier
      <3>2. Acked(p, i) => Acked(p, i)'
        BY <1>3, <1>4, <3>1 DEF Acked, Acks
      <3>3. Posted(p, "closed") => Posted(p, "closed")'
        BY <1>4 DEF Posted
      <3>4. Dropped(p, i) => Dropped(p, i)'
        BY <1>1 DEF Dropped, Mail
      <3> QED BY <1>7, <2>3, <3>2, <3>3, <3>4 DEF Pending
    <2> QED BY <2>2, <2>3
  <1>8. \A g \in Entries(registry)' : g.waiting =>
          \E e \in Entries(registry) : /\ e.waiting /\ e.sid = g.sid /\ g.acks \subseteq e.acks
                                       /\ e.sid = k => sid[p] \notin g.acks
    <2>1. CASE registry' = registry /\ \A e \in Entries(registry) : ~Awaits(e, sid[p], k)
      BY <2>1 DEF Awaits
    <2>2. ASSUME NEW h \in DOMAIN registry, Awaits(registry[h], sid[p], k),
                 Entries(registry)' =
                   {e \in {registry[i] : i \in DOMAIN registry \ {h}}
                            \union {[registry[h] EXCEPT !.acks = @ \ {sid[p]}]} :
                      e.waiting => e.acks # {}}
          PROVE  \A g \in Entries(registry)' : g.waiting =>
                   \E e \in Entries(registry) :
                      /\ e.waiting /\ e.sid = g.sid /\ g.acks \subseteq e.acks
                      /\ e.sid = k => sid[p] \notin g.acks
      <3> SUFFICES ASSUME NEW g \in Entries(registry)', g.waiting
                   PROVE  \E e \in Entries(registry) :
                            /\ e.waiting /\ e.sid = g.sid /\ g.acks \subseteq e.acks
                            /\ e.sid = k => sid[p] \notin g.acks
        OBVIOUS
      <3>1. registry[h] \in Entries(registry) /\ registry[h] \in Entry
        BY <1>2, EntriesType DEF Entries
      <3>2. ASSUME NEW i \in DOMAIN registry \ {h}, g = registry[i]
            PROVE  \E e \in Entries(registry) :
                     /\ e.waiting /\ e.sid = g.sid /\ g.acks \subseteq e.acks
                     /\ e.sid = k => sid[p] \notin g.acks
        <4>1. g \in Entries(registry)
          BY <3>2 DEF Entries
        <4>2. g.sid # registry[h].sid
          BY <1>2, <3>2 DEF Distinct
        <4> QED BY <2>2, <4>1, <4>2 DEF Awaits
      <3>3. CASE g = [registry[h] EXCEPT !.acks = @ \ {sid[p]}]
        <4>1. /\ g.sid = registry[h].sid /\ g.waiting = registry[h].waiting
              /\ g.acks = registry[h].acks \ {sid[p]}
          BY <3>1, <3>3 DEF Entry
        <4> QED BY <3>1, <4>1
      <3> QED BY <2>2, <3>2, <3>3
    <2> QED BY <1>1, <1>2, <1>3, <2>1, <2>2, AcknowledgeEntries
  <1> SUFFICES ASSUME NEW g \in Entries(registry)', g.waiting, NEW j \in g.acks
               PROVE  \E f \in Available(registry)' : f.sid = j /\ Pending(f.svc, g.sid)'
    BY DEF AwaitInv
  <1>9. PICK e \in Entries(registry) : /\ e.waiting /\ e.sid = g.sid /\ g.acks \subseteq e.acks
                                       /\ e.sid = k => sid[p] \notin g.acks
    BY <1>8
  <1>10. PICK f \in Available(registry) : f.sid = j /\ Pending(f.svc, e.sid)
    BY <1>9 DEF AwaitInv
  <1>11. e.sid \in SId
    BY RegistryEntries DEF Inv, Entry
  <1> QED BY <1>6, <1>7, <1>9, <1>10, <1>11

(* The others are told of the one that leaves, and answers of its own are  *)
(* not waited for.                                                         *)
LEMMA DisconnectAwait ==
  ASSUME Inv, AwaitInv, NEW p \in Service, NSDisconnect(p)
  PROVE  AwaitInv'
PROOF
  <1>1. /\ Received(p, "closed") /\ Handled(p)
        /\ UNCHANGED cnx
    BY DEF NSDisconnect
  <1>2. \A q \in Service : q # p => Post(q)' = Post(q)
    BY <1>1, Taken
  <1>3. CASE ~Knows(registry, p)
    <2>1. registry' = registry /\ fromNS' = fromNS
      BY <1>3 DEF NSDisconnect
    <2>2. \A f \in Available(registry) : f.svc \in Service /\ f.svc # p
      BY <1>3, RegistryEntries DEF Inv, Entry, Knows
    <2>3. \A f \in Available(registry) : \A k \in SId :
            f.svc \in Service /\ Pending(f.svc, k) => Pending(f.svc, k)'
      BY <1>2, <2>1, <2>2 DEF Pending, Dropped, Acked, Posted, Mail
    <2>4. Available(registry) \subseteq Available(registry)'
      BY <2>1
    <2>5. \A g \in Entries(registry)' : g.waiting =>
            \E e \in Entries(registry) : e.waiting /\ e.sid = g.sid /\ g.acks \subseteq e.acks
      BY <2>1
    <2> QED BY <2>3, <2>4, <2>5, AwaitStays
  <1>4. CASE Knows(registry, p)
    <2>0. PICK k \in SId : k = SIdOf(registry, p)
      BY <1>4, Vars, SIdOfType DEF Inv
    <2> DEFINE unb == [type |-> "UNB", svc |-> p, sid |-> k]
    <2>1. fromNS' = Broadcast(Recipients, unb) /\ registry' = Unregister(registry, p)
      BY <1>4, <2>0 DEF NSDisconnect
    <2>2. unb \in Drops(k) /\ unb \in FromNSMessage
      BY DEF FromNSMessage, News, Drops
    <2> HIDE DEF unb
    <2>3. /\ registry \in Seq(Entry) /\ Entries(registry) \subseteq Entry
          /\ fromNS \in [Service -> Seq(FromNSMessage)]
      BY Vars, RegistryEntries DEF Inv
    <2>4. \A q \in Service : /\ Mail(q) \subseteq Mail(q)'
                             /\ Knows(registry, q) /\ cnx[q] = "open" => Dropped(q, k)'
      <3> SUFFICES ASSUME NEW q \in Service
                   PROVE  /\ Mail(q) \subseteq Mail(q)'
                          /\ Knows(registry, q) /\ cnx[q] = "open" => Dropped(q, k)'
        OBVIOUS
      <3>1. Knows(registry, q) => q \in Recipients
        BY DEF Recipients, Knows
      <3>2. \/ fromNS'[q] = fromNS[q] /\ ~(Knows(registry, q) /\ cnx[q] = "open")
            \/ fromNS'[q] = Append(fromNS[q], unb)
        BY <2>1, <3>1 DEF Broadcast
      <3>3. CASE fromNS'[q] = Append(fromNS[q], unb)
        <4>1. fromNS[q] \in Seq(FromNSMessage)
          BY <2>3
        <4>2. Mail(q)' = Mail(q) \union {unb}
          BY <2>2, <3>3, <4>1, AppendEntries DEF Mail
        <4> QED BY <2>2, <4>2 DEF Dropped
      <3> QED BY <3>2, <3>3 DEF Mail
    <2>5. /\ \E e \in Available(registry) : e.svc = p /\ e.sid = k
          /\ \A e \in Entries(registry) : e.svc = p <=> e.sid = k
          /\ \A g \in Entries(registry)' : \E e \in Entries(registry) :
               /\ g.svc = e.svc /\ g.sid = e.sid
               /\ g.waiting <=> e.waiting \/ e.svc = p
          /\ \A e \in Entries(registry) : e.svc # p => \E g \in Entries(registry)' :
               g.svc = e.svc /\ g.sid = e.sid /\ g.waiting = e.waiting /\ g.acks = e.acks \ {k}
          /\ Distinct(registry')
      BY <1>4, <2>0, <2>1, Departs
    <2>6. ASSUME NEW f \in Available(registry), f.sid # k, NEW i \in SId, Pending(f.svc, i)
          PROVE  /\ Pending(f.svc, i)'
                 /\ \E g \in Available(registry)' : g.svc = f.svc /\ g.sid = f.sid
      <3>1. f.svc \in Service /\ f \in Entries(registry) /\ ~f.waiting
        BY <2>3 DEF Entry, Available
      <3>2. f.svc # p
        BY <2>5, <2>6, <3>1
      <3>3. Pending(f.svc, i)'
        BY <1>2, <2>4, <2>6, <3>1, <3>2, PendingStays
      <3> QED BY <2>5, <3>1, <3>2, <3>3 DEF Available
    <2> SUFFICES ASSUME NEW g \in Entries(registry)', g.waiting, NEW j \in g.acks
                 PROVE  \E f \in Available(registry)' : f.sid = j /\ Pending(f.svc, g.sid)'
      BY DEF AwaitInv
    <2>7. CASE g.svc # p
      <3>1. PICK e \in Entries(registry) : /\ g.svc = e.svc /\ g.sid = e.sid
                                           /\ g.waiting <=> e.waiting \/ e.svc = p
        BY <2>5
      <3>2. PICK h \in Entries(registry)' : h.sid = e.sid /\ h.acks = e.acks \ {k}
        BY <2>5, <2>7, <3>1
      <3>3. h = g
        BY <2>5, <3>1, <3>2, DistinctEntries
      <3>4. e.waiting /\ j \in e.acks /\ j # k /\ e.sid \in SId
        BY <2>3, <2>7, <3>1, <3>2, <3>3 DEF Entry
      <3>5. PICK f \in Available(registry) : f.sid = j /\ Pending(f.svc, e.sid)
        BY <3>4 DEF AwaitInv
      <3> QED BY <2>6, <3>1, <3>4, <3>5
    <2>8. CASE g.svc = p
      <3>1. PICK e \in Entries(registry) : g = Marked(registry, p, e)
        BY <2>1, <2>3, UnregisterEntries
      <3>2. e \in Entry
        BY <2>3
      <3>3. e.svc = p
        BY <2>8, <3>1, <3>2 DEF Marked, Entry
      <3>4. ~e.waiting /\ e.sid = k
        BY <2>5, <3>3, OneEntry DEF Available
      <3>5. g.sid = k /\ g.acks = {f.sid : f \in {i \in Available(registry) : i.svc # p}}
        BY <3>1, <3>2, <3>3, <3>4 DEF Marked, Gone, Entry
      <3>6. PICK f \in Available(registry) : f.svc # p /\ f.sid = j
        BY <3>5
      <3>7. f.svc \in Service /\ f \in Entries(registry) /\ ~f.waiting /\ Knows(registry, f.svc)
        BY <2>3 DEF Entry, Available, Knows
      <3>8. j # k
        BY <2>5, <3>6, <3>7
      <3>9. Pending(f.svc, k)'
        <4>1. (Alive(f.svc) /\ cnx[f.svc] = "open") \/ Posted(f.svc, "closed")
          BY <3>7 DEF Inv, RegistryInv
        <4>2. Posted(f.svc, "closed") => Posted(f.svc, "closed")'
          BY <1>2, <3>6, <3>7 DEF Posted
        <4> QED BY <2>4, <3>7, <4>1, <4>2 DEF Pending
      <3>10. \E h \in Available(registry)' : h.svc = f.svc /\ h.sid = j
        BY <2>5, <3>6, <3>7 DEF Available
      <3> QED BY <3>5, <3>9, <3>10
    <2> QED BY <2>7, <2>8
  <1> QED BY <1>3, <1>4

(* A process that ends says so, where it has not to answer by now.         *)
LEMMA EndsAwait ==
  ASSUME Inv, AwaitInv, NEW p \in Service, Alive(p), Ends(p), UNCHANGED naming
  PROVE  AwaitInv'
PROOF
  <1> DEFINE bye == [type |-> "closed"]
  <1>1. /\ UNCHANGED registry
        /\ toNS' = Send(p, bye)
        /\ fromNS' = [fromNS EXCEPT ![p] = << >>]
    BY DEF Ends, naming
  <1>2. bye \in ToNSMessage /\ bye.type = "closed"
    BY DEF ToNSMessage
  <1> HIDE DEF bye
  <1>3. toNS \in [Service -> Seq(ToNSMessage)] /\ fromNS \in [Service -> Seq(FromNSMessage)]
    BY Vars DEF Inv
  <1>4. \A q \in Service : q # p => toNS'[q] = toNS[q] /\ fromNS'[q] = fromNS[q]
    BY <1>1, <1>3 DEF Send
  <1>5. ASSUME NEW f \in Available(registry), NEW k \in SId, f.svc \in Service, Pending(f.svc, k)
        PROVE  Pending(f.svc, k)'
    <2>1. CASE f.svc # p
      BY <1>4, <1>5, <2>1 DEF Pending, Dropped, Acked, Posted, Mail, Post
    <2>2. CASE f.svc = p
      <3>1. f \in Entries(registry) /\ ~f.waiting
        BY DEF Available
      <3>2. nsUp
        BY <3>1, EntriesEmpty, Vars DEF Inv, RegistryInv
      <3>3. ~Posted(p, "closed")
        BY DEF Inv, PostInv, Alive
      <3>4. cnx[p] = "open"
        BY <2>2, <3>1, <3>3 DEF Inv, RegistryInv
      <3>5. toNS'[p] = Append(toNS[p], bye) /\ toNS[p] \in Seq(ToNSMessage)
        BY <1>1, <1>3, <3>2, <3>4 DEF Send
      <3>6. bye \in Post(p)'
        BY <1>2, <3>5, AppendEntries DEF Post
      <3> QED BY <1>2, <2>2, <3>6 DEF Pending, Posted
    <2> QED BY <2>1, <2>2
  <1>6. Available(registry) \subseteq Available(registry)'
    BY <1>1
  <1>7. \A g \in Entries(registry)' : g.waiting =>
          \E e \in Entries(registry) : e.waiting /\ e.sid = g.sid /\ g.acks \subseteq e.acks
    BY <1>1
  <1> QED BY <1>5, <1>6, <1>7, AwaitStays

(* A process that reads that one left answers.                             *)
LEMMA ReadAwait ==
  ASSUME Inv, AwaitInv, NEW p \in Service,
         (Registered(p) /\ Head(fromNS[p]).ok) \/ RegisterBroadcast(p) \/ UnregisterBroadcast(p)
  PROVE  AwaitInv'
PROOF
  <1>1. PICK type \in {"RG", "RGB", "UNB"} :
          /\ Arrived(p, type)
          /\ fromNS' = [fromNS EXCEPT ![p] = Tail(@)]
          /\ UNCHANGED registry
          /\ type # "UNB" => UNCHANGED toNS
          /\ type = "UNB" => UnregisterBroadcast(p)
    <2>1. CASE Registered(p) /\ Head(fromNS[p]).ok
      BY <2>1 DEF Registered, naming
    <2>2. CASE RegisterBroadcast(p)
      BY <2>2 DEF RegisterBroadcast, naming
    <2>3. CASE UnregisterBroadcast(p)
      BY <2>3 DEF UnregisterBroadcast, naming
    <2> QED BY <2>1, <2>2, <2>3
  <1>2. /\ Head(fromNS[p]) \in FromNSMessage /\ Head(fromNS[p]).type = type
        /\ Mail(p) = {Head(fromNS[p])} \union Mail(p)'
        /\ \A q \in Service : q # p => Mail(q)' = Mail(q)
    BY <1>1, Read
  <1>3. \A q \in Service : Post(q) \subseteq Post(q)' /\ (q # p => Post(q)' = Post(q))
    <2>1. CASE type # "UNB"
      BY <1>1, <2>1 DEF Post
    <2>2. CASE type = "UNB"
      <3>1. PICK ack \in ToNSMessage : toNS' = Send(p, ack)
        <4>1. Head(fromNS[p]).sid \in SId
          BY <1>2, <2>2, MessageFields
        <4>2. [type |-> "ACK_UNI", sid |-> Head(fromNS[p]).sid] \in ToNSMessage
          BY <4>1 DEF ToNSMessage
        <4> QED BY <1>1, <2>2, <4>2 DEF UnregisterBroadcast
      <3>2. toNS \in [Service -> Seq(ToNSMessage)]
        BY Vars DEF Inv
      <3>3. \A q \in Service : toNS'[q] = toNS[q] \/ (q = p /\ toNS'[q] = Append(toNS[q], ack))
        BY <3>1, <3>2 DEF Send
      <3> SUFFICES ASSUME NEW q \in Service
                   PROVE  Post(q) \subseteq Post(q)' /\ (q # p => Post(q)' = Post(q))
        OBVIOUS
      <3>4. CASE toNS'[q] = toNS[q]
        BY <3>4 DEF Post
      <3>5. CASE q = p /\ toNS'[q] = Append(toNS[q], ack)
        <4>1. toNS[q] \in Seq(ToNSMessage)
          BY <3>2
        <4> QED BY <3>5, <4>1, AppendEntries DEF Post
      <3> QED BY <3>3, <3>4, <3>5
    <2> QED BY <2>1, <2>2
  <1>4. ASSUME NEW f \in Available(registry), NEW k \in SId, f.svc \in Service, Pending(f.svc, k)
        PROVE  Pending(f.svc, k)'
    <2>1. CASE f.svc = p /\ type = "UNB" /\ Head(fromNS[p]).sid = k
      <3>1. f \in Entries(registry) /\ ~f.waiting
        BY DEF Available
      <3>2. nsUp
        BY <3>1, EntriesEmpty, Vars DEF Inv, RegistryInv
      <3>3. ~Posted(p, "closed")
        BY <1>1, <2>1 DEF Inv, PostInv, UnregisterBroadcast, Updates
      <3>4. cnx[p] = "open"
        BY <2>1, <3>1, <3>3 DEF Inv, RegistryInv
      <3> DEFINE ack == [type |-> "ACK_UNI", sid |-> k]
      <3>5. toNS' = Send(p, ack)
        BY <1>1, <2>1 DEF UnregisterBroadcast
      <3>6. ack \in Acks(k) /\ ack \in ToNSMessage
        BY DEF Acks, ToNSMessage
      <3> HIDE DEF ack
      <3>7. toNS'[p] = Append(toNS[p], ack) /\ toNS[p] \in Seq(ToNSMessage)
        BY <3>2, <3>4, <3>5, Vars DEF Inv, Send
      <3>8. ack \in Post(p)'
        BY <3>6, <3>7, AppendEntries DEF Post
      <3> QED BY <2>1, <3>6, <3>8 DEF Pending, Acked
    <2>2. CASE ~(f.svc = p /\ type = "UNB" /\ Head(fromNS[p]).sid = k)
      <3>1. Dropped(f.svc, k) => Dropped(f.svc, k)'
        BY <1>2, <1>4, <2>2 DEF Dropped, Drops
      <3>2. Acked(f.svc, k) => Acked(f.svc, k)'
        BY <1>3, <1>4 DEF Acked
      <3>3. Posted(f.svc, "closed") => Posted(f.svc, "closed")'
        BY <1>3, <1>4 DEF Posted
      <3> QED BY <1>4, <3>1, <3>2, <3>3 DEF Pending
    <2> QED BY <2>1, <2>2
  <1>5. Available(registry) \subseteq Available(registry)'
    BY <1>1
  <1>6. \A g \in Entries(registry)' : g.waiting =>
          \E e \in Entries(registry) : e.waiting /\ e.sid = g.sid /\ g.acks \subseteq e.acks
    BY <1>1
  <1> QED BY <1>4, <1>5, <1>6, AwaitStays

(* The steps by which a connection to the naming service starts.           *)
LEMMA StartAwait ==
  ASSUME Inv, AwaitInv, NEW p \in Service, Start(p) \/ Reconnect(p)
  PROVE  AwaitInv'
PROOF
  <1>1. /\ UNCHANGED << registry, fromNS >>
        /\ \E m : toNS' = [toNS EXCEPT ![p] = m]
        /\ stage[p] = "off" \/ (stage[p] = "running" /\ cnx[p] = "none")
    BY DEF Start, Reconnect, naming
  <1>2. toNS[p] = << >>
    <2>1. stage[p] = "off" => toNS[p] = << >>
      BY DEF Inv, LifeInv
    <2>2. stage[p] = "running" /\ cnx[p] = "none" => toNS[p] = << >>
      BY DEF Inv, PostInv, Alive
    <2> QED BY <1>1, <2>1, <2>2
  <1>3. Post(p) = {}
    BY <1>2, EntriesEmpty DEF Post, Entries
  <1>4. \A q \in Service : q # p => Post(q)' = Post(q)
    BY <1>1, Vars DEF Inv, Post
  <1>5. \A f \in Available(registry) : \A k \in SId :
          f.svc \in Service /\ Pending(f.svc, k) => Pending(f.svc, k)'
    BY <1>1, <1>3, <1>4 DEF Pending, Dropped, Acked, Posted, Mail
  <1>6. Available(registry) \subseteq Available(registry)'
    BY <1>1
  <1>7. \A g \in Entries(registry)' : g.waiting =>
          \E e \in Entries(registry) : e.waiting /\ e.sid = g.sid /\ g.acks \subseteq e.acks
    BY <1>1
  <1> QED BY <1>5, <1>6, <1>7, AwaitStays

(* The other steps of a process leave the channels alone.                  *)
LEMMA OwnChannels ==
  ASSUME OwnStep
  PROVE  UNCHANGED << registry, toNS, fromNS >>
PROOF
  <1>a. ASSUME NEW p \in Service, NoticeNS(p) \/ Connect(p) \/ Connected(p)
        PROVE  UNCHANGED << registry, toNS, fromNS >>
    BY <1>a DEF NoticeNS, Connect, Connected, naming, channels
  <1>b. ASSUME NEW p \in Service, AddService(p) PROVE UNCHANGED << registry, toNS, fromNS >>
    <2>1. UNCHANGED << naming, channels >>
      BY <1>b, Zenon DEF AddService
    <2> QED BY <2>1 DEF naming, channels
  <1>c. ASSUME NEW p \in Service, NEW q \in Service, ServiceIdentification(p, q)
        PROVE  UNCHANGED << registry, toNS, fromNS >>
    BY <1>c DEF ServiceIdentification, naming, channels
  <1>d. ASSUME NEW p \in Service, NEW q \in Service, ServerLost(p, q) \/ ClientLost(p, q)
        PROVE  UNCHANGED << registry, toNS, fromNS >>
    BY <1>d DEF ServerLost, ClientLost, naming, channels
  <1>e. ASSUME NSRestart \/ UNCHANGED vars PROVE UNCHANGED << registry, toNS, fromNS >>
    BY <1>e DEF NSRestart, vars, naming, channels
  <1> QED BY <1>a, <1>b, <1>c, <1>d, <1>e DEF OwnStep

(* Registering is one of two.                                              *)
LEMMA RegisteredHow ==
  ASSUME Inv, NEW p \in Service, Registered(p)
  PROVE  Head(fromNS[p]).ok \/ (Alive(p) /\ Ends(p) /\ UNCHANGED << naming, sid, spoiled >>)
PROOF
  <1>1. CASE ~Head(fromNS[p]).ok
    BY <1>1 DEF Registered, Alive
  <1> QED BY <1>1

(* AwaitInv is inductive.                                                  *)
LEMMA AwaitNext == Inv /\ AwaitInv /\ [Next]_vars => AwaitInv'
PROOF
  <1> SUFFICES ASSUME Inv, AwaitInv, [Next]_vars PROVE AwaitInv'
    OBVIOUS
  <1>1. ASSUME OwnStep PROVE AwaitInv'
    BY <1>1, OwnChannels DEF AwaitInv, Pending, Dropped, Acked, Posted, Mail, Post, Entries,
       Available
  <1>2. ASSUME NEW p \in Service, Registered(p) PROVE AwaitInv'
    BY <1>2, RegisteredHow, ReadAwait, EndsAwait
  <1>3. ASSUME NEW p \in Service, Die(p) PROVE AwaitInv'
    <2>1. Alive(p) /\ Ends(p) /\ UNCHANGED naming
      BY <1>3 DEF Die
    <2> QED BY <2>1, EndsAwait
  <1> QED BY <1>1, <1>2, <1>3, NamingAwait, AckAwait, DisconnectAwait, ReadAwait, StartAwait
          DEF Next, NS, Process, OwnStep

-----------------------------------------------------------------------------
(* Those that have an identifier, and what is said of it.                  *)

(* A process that k is given to, whether or not it was told by now.        *)
Has(q, k) == Alive(q) /\ (sid[q] = k \/ Granting(q, k))

(* A step by which no identifier is given.                                 *)
Passing ==
  /\ \A p \in Service : \A m \in Mail(p)' : m.type = "RG" /\ m.ok => m \in Mail(p)
  /\ \A p, q \in Service, k \in SId : Has(q, k) /\ Dropped(p, k)' => Dropped(p, k)
  /\ \A q \in Service, k \in SId : Has(q, k)' => Has(q, k)
  /\ \A p \in Service : stage'[p] \in {"registered", "connecting"} =>
       stage[p] \in {"registered", "connecting"} \/ fromNS[p] # << >>

(* Nothing is new, but that a process starts.                              *)
LEMMA PassingStays ==
  ASSUME Inv, \A p \in Service : /\ Mail(p)' \subseteq Mail(p)
                                 /\ sid'[p] = sid[p]
                                 /\ Alive(p)' => Alive(p) \/ stage[p] = "off"
                                 /\ stage'[p] \in {"registered", "connecting"} =>
                                      stage[p] \in {"registered", "connecting"}
  PROVE  Passing
PROOF
  <1>1. \A q \in Service, k \in SId : Granting(q, k)' => Granting(q, k)
    BY DEF Granting
  <1>2. \A p \in Service, k \in SId : Dropped(p, k)' => Dropped(p, k)
    BY DEF Dropped
  <1>3. ASSUME NEW q \in Service, NEW k \in SId, Has(q, k)' PROVE Has(q, k)
    <2>1. sid[q] = k \/ Granting(q, k)
      BY <1>1, <1>3 DEF Has
    <2>2. stage[q] # "off"
      BY <2>1 DEF Inv, LifeInv, Trace
    <2> QED BY <1>3, <2>1, <2>2 DEF Has
  <1>4. \A p \in Service : \A m \in Mail(p)' : m.type = "RG" /\ m.ok => m \in Mail(p)
    OBVIOUS
  <1> QED BY <1>2, <1>3, <1>4 DEF Passing

(* Two processes have different identifiers, and the one that ends and is  *)
(* announced has none.                                                     *)
LEMMA HasOwns ==
  ASSUME Inv, NEW q \in Service, NEW k \in SId, Has(q, k)
  PROVE  /\ Owner(q, k) /\ Trace(q, k) /\ Alive(q)
         /\ \A j \in SId : Trace(q, j) => j = k
         /\ \A r \in Service : Owner(r, k) => r = q
         /\ ~Posted(q, "RG")
PROOF
  <1>1. Owner(q, k) /\ Trace(q, k) /\ Alive(q)
    BY DEF Has, Owner, Trace
  <1>2. \A j \in SId : Trace(q, j) => j = k
    BY <1>1 DEF Inv, TraceInv
  <1>3. \A r \in Service : Owner(r, k) => r = q
    BY <1>1 DEF Inv, OwnerInv
  <1> QED BY <1>1, <1>2, <1>3, Asking

(* All the steps of the naming service but the one that gives it.          *)
LEMMA NamingPassing ==
  ASSUME Inv, \/ \E p \in Service : NSRefuse(p) \/ NSResend(p) \/ NSAck(p) \/ NSDisconnect(p)
              \/ NSUpdate \/ NSTimeout \/ NSCrash
  PROVE  Passing
PROOF
  <1>0. fromNS \in [Service -> Seq(FromNSMessage)]
    BY Vars DEF Inv
  <1>1. ASSUME \/ \E p \in Service :
                    NSResend(p) \/ NSAck(p) \/ (NSDisconnect(p) /\ ~Knows(registry, p))
               \/ NSUpdate \/ NSTimeout
        PROVE  Passing
    <2>1. Aside /\ UNCHANGED stage
      BY <1>1, SilentSteps
    <2> QED BY <2>1, PassingStays DEF Aside, Mail, Alive
  <1>2. ASSUME NEW p \in Service, NEW m \in FromNSMessage, m.type = "RG" => ~m.ok,
               \A q \in Service : SentOrLost(q, m),
               UNCHANGED << stage, sid >>,
               \A q \in Service, k \in SId : m \in Drops(k) => ~Has(q, k)
        PROVE  Passing
    <2>1. \A q \in Service : Mail(q)' \subseteq Mail(q) \union {m}
      BY <1>2, Sent DEF Inv
    <2>2. \A q \in Service, k \in SId : Granting(q, k)' => Granting(q, k)
      BY <1>2, <2>1 DEF Granting
    <2>3. \A q \in Service, k \in SId : Has(q, k)' => Has(q, k)
      BY <1>2, <2>2 DEF Has, Alive
    <2>4. \A r, q \in Service, k \in SId : Has(q, k) /\ Dropped(r, k)' => Dropped(r, k)
      BY <1>2, <2>1 DEF Dropped
    <2>5. \A r \in Service : \A n \in Mail(r)' : n.type = "RG" /\ n.ok => n \in Mail(r)
      BY <1>2, <2>1
    <2> QED BY <1>2, <2>3, <2>4, <2>5 DEF Passing
  <1>3. ASSUME NEW p \in Service, NSRefuse(p) PROVE Passing
    <2> DEFINE m == [type |-> "RG", ok |-> FALSE]
    <2>1. \A q \in Service : SentOrLost(q, m)
      BY <1>0, <1>3 DEF NSRefuse, Reply, SentOrLost
    <2>2. m \in FromNSMessage /\ ~m.ok /\ m.type = "RG"
      BY DEF FromNSMessage, Refusal
    <2> HIDE DEF m
    <2>3. UNCHANGED << stage, sid >>
      BY <1>3 DEF NSRefuse
    <2>4. \A k \in SId : m \notin Drops(k)
      BY <2>2 DEF Drops
    <2> QED BY <1>2, <2>1, <2>2, <2>3, <2>4
  <1>4. ASSUME NEW p \in Service, NSDisconnect(p), Knows(registry, p) PROVE Passing
    <2>0. PICK k \in SId : k = SIdOf(registry, p)
      BY <1>4, Vars, SIdOfType DEF Inv
    <2> DEFINE m == [type |-> "UNB", svc |-> p, sid |-> k]
    <2>1. fromNS' = Broadcast(Recipients, m) /\ UNCHANGED << stage, sid >>
      BY <1>4, <2>0 DEF NSDisconnect
    <2>2. \A q \in Service : SentOrLost(q, m)
      BY <1>0, <2>1 DEF Broadcast, SentOrLost
    <2>3. m \in FromNSMessage /\ m.type = "UNB" /\ m.sid = k
      BY DEF FromNSMessage, News
    <2> HIDE DEF m
    <2>4. Entered(p, k)
      BY <1>4, <2>0, Vars, SIdOfType DEF Inv, Entered
    <2>5. ~Alive(p)
      <3>1. Head(toNS[p]) \in Post(p) /\ Head(toNS[p]).type = "closed"
        BY <1>4, Taken DEF NSDisconnect
      <3> QED BY <3>1 DEF Posted, Inv, PostInv, Alive
    <2>6. \A q \in Service, j \in SId : m \in Drops(j) => ~Has(q, j)
      <3> SUFFICES ASSUME NEW q \in Service, Has(q, k) PROVE FALSE
        BY <2>3 DEF Drops
      <3>1. Owner(p, k)
        BY <2>4 DEF Owner
      <3> QED BY <2>5, <3>1, HasOwns
    <2> QED BY <1>2, <2>1, <2>2, <2>3, <2>6
  <1>5. ASSUME NSCrash PROVE Passing
    <2>1. UNCHANGED << stage, sid >>
      BY <1>5 DEF NSCrash
    <2>2. PICK n \in [Service -> UNION {0 .. Len(fromNS[p]) : p \in Service}] :
            /\ \A p \in Service : n[p] <= Len(fromNS[p])
            /\ fromNS' = [p \in Service |-> SubSeq(fromNS[p], 1, n[p])]
      BY <1>5 DEF NSCrash
    <2>3. \A p \in Service : Mail(p)' \subseteq Mail(p)
      <3> SUFFICES ASSUME NEW p \in Service PROVE Mail(p)' \subseteq Mail(p)
        OBVIOUS
      <3>1. fromNS[p] \in Seq(FromNSMessage) /\ Len(fromNS[p]) \in Nat
        BY <1>0, LenProperties
      <3>2. n[p] \in 0 .. Len(fromNS[p])
        <4>1. \A q \in Service : Len(fromNS[q]) \in Nat
          BY <1>0, LenProperties
        <4>2. n[p] \in Nat
          BY <2>2, <4>1
        <4> QED BY <2>2, <3>1, <4>2
      <3> QED BY <2>2, <3>1, <3>2, PrefixEntries DEF Mail
    <2> QED BY <2>1, <2>3, PassingStays DEF Alive
  <1> QED BY <1>1, <1>3, <1>4, <1>5

(* A process that reads a message gives itself no identifier but the one   *)
(* it was given.                                                           *)
LEMMA ReadPassing ==
  ASSUME Inv, NEW p \in Service, Registered(p) \/ RegisterBroadcast(p) \/ UnregisterBroadcast(p),
         ~Ends(p)
  PROVE  Passing
PROOF
  <1>0. /\ sid \in [Service -> SId \union {0}]
        /\ stage \in [Service -> {"off", "registering", "registered", "connecting", "running",
                                  "dead"}]
    BY Vars DEF Inv
  <1>1. PICK type \in {"RG", "RGB", "UNB"} :
          Arrived(p, type) /\ fromNS' = [fromNS EXCEPT ![p] = Tail(@)]
    BY DEF Registered, RegisterBroadcast, UnregisterBroadcast
  <1>2. /\ fromNS[p] # << >>
        /\ Head(fromNS[p]) \in FromNSMessage /\ Head(fromNS[p]) \in Mail(p)
        /\ Head(fromNS[p]).type = type
        /\ Mail(p) = {Head(fromNS[p])} \union Mail(p)'
        /\ \A q \in Service : q # p => Mail(q)' = Mail(q)
    <2>1. /\ fromNS[p] # << >>
          /\ Head(fromNS[p]) \in FromNSMessage /\ Head(fromNS[p]).type = type
          /\ Mail(p) = {Head(fromNS[p])} \union Mail(p)'
          /\ \A q \in Service : q # p => fromNS'[q] = fromNS[q] /\ Mail(q)' = Mail(q)
      BY <1>1, Read
    <2>2. Head(fromNS[p]) \in Mail(p)
      BY <2>1
    <2> QED BY <2>1, <2>2
  <1>3. \A q \in Service : Mail(q)' \subseteq Mail(q)
    BY <1>2
  <1>4. CASE RegisterBroadcast(p) \/ UnregisterBroadcast(p)
    <2>1. UNCHANGED << stage, sid >>
      BY <1>4 DEF RegisterBroadcast, UnregisterBroadcast
    <2> QED BY <1>3, <2>1, PassingStays DEF Alive
  <1>5. CASE Registered(p)
    <2>1. /\ stage[p] = "registering" /\ Arrived(p, "RG") /\ Head(fromNS[p]).ok
          /\ stage' = [stage EXCEPT ![p] = "registered"]
          /\ sid' = [sid EXCEPT ![p] = Head(fromNS[p]).sid]
      BY <1>5 DEF Registered
    <2>2. Granting(p, Head(fromNS[p]).sid)
      BY <1>2, <2>1 DEF Granting, Arrived
    <2>3. \A q \in Service, k \in SId : Granting(q, k)' => Granting(q, k)
      BY <1>3 DEF Granting
    <2>4. ASSUME NEW q \in Service, NEW k \in SId, Has(q, k)' PROVE Has(q, k)
      <3>1. CASE q # p
        <4>1. stage'[q] = stage[q] /\ sid'[q] = sid[q]
          BY <1>0, <2>1, <3>1
        <4> QED BY <2>3, <2>4, <4>1 DEF Has, Alive
      <3>2. CASE q = p
        <4>1. sid'[p] = Head(fromNS[p]).sid /\ Alive(p)
          BY <1>0, <2>1 DEF Alive
        <4> QED BY <2>2, <2>3, <2>4, <3>2, <4>1 DEF Has
      <3> QED BY <3>1, <3>2
    <2>5. \A r, q \in Service, k \in SId : Has(q, k) /\ Dropped(r, k)' => Dropped(r, k)
      BY <1>3 DEF Dropped
    <2>6. \A q \in Service : stage'[q] \in {"registered", "connecting"} =>
            stage[q] \in {"registered", "connecting"} \/ fromNS[q] # << >>
      <3>1. \A q \in Service : q # p => stage'[q] = stage[q]
        BY <1>0, <2>1
      <3> QED BY <1>2, <3>1
    <2> QED BY <1>3, <2>4, <2>5, <2>6 DEF Passing
  <1> QED BY <1>4, <1>5

(* A process that starts or ends.                                          *)
LEMMA LifePassing ==
  ASSUME Inv, NEW p \in Service, Start(p) \/ Reconnect(p) \/ (Ends(p) /\ UNCHANGED sid)
  PROVE  Passing
PROOF
  <1>0. /\ stage \in [Service -> {"off", "registering", "registered", "connecting", "running",
                                  "dead"}]
        /\ fromNS \in [Service -> Seq(FromNSMessage)]
    BY Vars DEF Inv
  <1>1. CASE Start(p) \/ Reconnect(p)
    <2>1. /\ UNCHANGED << fromNS, sid >>
          /\ \A q \in Service :
               stage'[q] = stage[q] \/ (stage[q] = "off" /\ stage'[q] = "registering")
      BY <1>0, <1>1 DEF Start, Reconnect
    <2> QED BY <2>1, PassingStays DEF Mail, Alive
  <1>2. CASE Ends(p) /\ UNCHANGED sid
    <2>1. /\ stage' = [stage EXCEPT ![p] = "dead"]
          /\ fromNS' = [fromNS EXCEPT ![p] = << >>]
      BY <1>2 DEF Ends
    <2>2. \A q \in Service : /\ stage'[q] = stage[q] \/ stage'[q] = "dead"
                             /\ fromNS'[q] = fromNS[q] \/ fromNS'[q] = << >>
      BY <1>0, <2>1
    <2>3. \A q \in Service : Mail(q)' \subseteq Mail(q)
      BY <2>2, EntriesEmpty DEF Mail, Entries
    <2> QED BY <1>2, <2>2, <2>3, PassingStays DEF Alive
  <1> QED BY <1>1, <1>2

(* All the steps but the one that gives an identifier.                     *)
LEMMA PassingNext ==
  ASSUME Inv, [Next]_vars
  PROVE  Passing \/ \E p \in Service : NSAccept(p)
PROOF
  <1>1. ASSUME OwnStep PROVE Passing
    <2>1. Aside
      BY <1>1, OwnSteps
    <2> QED BY <2>1, PassingStays DEF Aside, Mail, Alive
  <1>2. ASSUME NEW p \in Service, Registered(p) PROVE Passing
    <2>1. CASE Ends(p)
      <3>1. ~Head(fromNS[p]).ok \/ UNCHANGED sid
        <4>1. stage' = [stage EXCEPT ![p] = "dead"]
          BY <2>1 DEF Ends
        <4>2. stage'[p] = "dead"
          BY <4>1, Vars DEF Inv
        <4>3. stage' # [stage EXCEPT ![p] = "registered"]
          BY <4>2, Vars DEF Inv
        <4> QED BY <1>2, <4>3 DEF Registered
      <3>2. UNCHANGED sid
        BY <1>2, <3>1 DEF Registered
      <3> QED BY <2>1, <3>2, LifePassing
    <2>2. CASE ~Ends(p)
      BY <1>2, <2>2, ReadPassing
    <2> QED BY <2>1, <2>2
  <1>3. ASSUME NEW p \in Service, RegisterBroadcast(p) \/ UnregisterBroadcast(p) PROVE Passing
    <2>1. ~Ends(p)
      <3>1. stage'[p] = stage[p] /\ Updates(p)
        BY <1>3 DEF RegisterBroadcast, UnregisterBroadcast
      <3>2. Ends(p) => stage'[p] = "dead"
        BY Vars DEF Inv, Ends
      <3> QED BY <3>1, <3>2 DEF Updates
    <2> QED BY <1>3, <2>1, ReadPassing
  <1>4. ASSUME NEW p \in Service, Die(p) PROVE Passing
    BY <1>4, LifePassing DEF Die
  <1> QED BY <1>1, <1>2, <1>3, <1>4, NamingPassing, LifePassing DEF Next, NS, Process, OwnStep

(* Who finds whom does not change then, but to be lost.                    *)
LEMMA PassingPrior ==
  ASSUME Inv, OrderKept, Passing, NEW p \in Service, NEW q \in Service, NEW k \in SId,
         Prior(p, q, k)'
  PROVE  Prior(p, q, k)
PROOF
  <1> SUFFICES ASSUME Posted(p, "RG") PROVE FALSE
    BY DEF OrderKept
  <1>1. fromNS[p] = << >> /\ Mail(p) = {} /\ stage[p] \in {"registering", "dead"}
    BY Asking
  <1>2. stage'[p] \notin {"registered", "connecting"}
    BY <1>1 DEF Passing
  <1>3. PICK m \in Mail(p)' : Offers(m, q, k)
    BY <1>2 DEF Prior
  <1>4. m \in Mail(p)
    BY <1>3 DEF Passing, Offers
  <1> QED BY <1>1, <1>4

(* The step that gives k to p, which is new: the others are told, and if p *)
(* can be told, it gets the list of those that are available, itself the   *)
(* last one.                                                               *)
LEMMA AcceptGives ==
  ASSUME Inv, NEW p \in Service, NSAccept(p)
  PROVE  \E k \in SId, rg \in FromNSMessage :
           /\ Posted(p, "RG")
           /\ \A e \in Entries(registry) : e.sid # k
           /\ rg.type = "RG" /\ rg.ok /\ rg.sid = k
           /\ rg.list = Accessible(Register(registry, p, k))
           /\ Mail(p)' \subseteq {rg}
           /\ \A q \in Service : q # p => /\ Mail(q) \subseteq Mail(q)'
                                          /\ \A m \in Mail(q)' \ Mail(q) : m.type = "RGB"
           /\ \A q \in Service, j \in SId : q # p => (Granting(q, j)' <=> Granting(q, j))
           /\ UNCHANGED << stage, sid, tables, link, spoiled >>
PROOF
  <1>0. registry \in Seq(Entry) /\ fromNS \in [Service -> Seq(FromNSMessage)]
    BY Vars DEF Inv
  <1>1. FreeSIds(registry) \in SUBSET Nat /\ FreeSIds(registry) # {}
    BY SIdNat DEF NSAccept, FreeSIds
  <1>2. PICK k \in FreeSIds(registry) : k = Min(FreeSIds(registry))
    BY <1>1, MinProperties
  <1>3. k \in SId /\ \A e \in Entries(registry) : e.sid # k
    BY <1>2 DEF FreeSIds
  <1> DEFINE rgb == [type |-> "RGB", svc |-> p, sid |-> k]
             list == Accessible(Register(registry, p, k))
             rg == [type |-> "RG", ok |-> TRUE, sid |-> k, list |-> list]
             sent == Broadcast(Recipients, rgb)
  <1>4. Register(registry, p, k) \in Seq(Entry)
    BY <1>0, <1>3, RegisterEntries
  <1>5. list \in Seq(Entry)
    BY <1>4, AccessibleEntries
  <1>6. fromNS' = Reply(sent, p, rg) /\ UNCHANGED << stage, sid, tables, link, spoiled >>
    BY <1>2 DEF NSAccept
  <1>7. rgb \in FromNSMessage /\ rgb.type = "RGB"
    BY <1>3 DEF FromNSMessage, News
  <1> HIDE DEF list
  <1>8. rg \in FromNSMessage /\ rg.type = "RG" /\ rg.ok /\ rg.sid = k /\ rg.list = list
    BY <1>3, <1>5 DEF FromNSMessage, Answers
  <1>9. Posted(p, "RG")
    <2>1. Head(toNS[p]).type = "RG" /\ Head(toNS[p]) \in Post(p)
      BY Taken DEF NSAccept
    <2> QED BY <2>1 DEF Posted
  <1>10. fromNS[p] = << >> /\ p \notin Recipients
    <2>1. fromNS[p] = << >> /\ \A j \in SId : ~Trace(p, j)
      BY <1>9, Asking
    <2>2. \A e \in Entries(registry) : e.svc # p
      BY <2>1, RegistryEntries DEF Trace, Entered, Inv, Entry
    <2> QED BY <2>1, <2>2 DEF Recipients, Available
  <1>11. sent \in [Service -> Seq(FromNSMessage)] /\ sent[p] = << >>
    BY <1>0, <1>7, <1>10, BroadcastType DEF Broadcast
  <1>12. \A q \in Service : sent[q] = fromNS[q] \/ sent[q] = Append(fromNS[q], rgb)
    BY DEF Broadcast
  <1> HIDE DEF sent, rgb, rg
  <1>13. fromNS'[p] = fromNS[p] \/ fromNS'[p] = Append(fromNS[p], rg)
    BY <1>6, <1>10, <1>11 DEF Reply
  <1>14. Mail(p)' \subseteq {rg}
    <2>1. fromNS[p] \in Seq(FromNSMessage) /\ Entries(fromNS[p]) = {}
      BY <1>0, <1>10, EntriesEmpty
    <2>2. Entries(Append(fromNS[p], rg)) = Entries(fromNS[p]) \union {rg}
      BY <1>8, <2>1, AppendEntries
    <2> QED BY <1>13, <2>1, <2>2 DEF Mail
  <1>15. ASSUME NEW q \in Service, q # p
         PROVE  /\ Mail(q) \subseteq Mail(q)'
                /\ Mail(q)' \subseteq Mail(q) \union {rgb}
    <2>1. fromNS'[q] = sent[q]
      BY <1>6, <1>11, <1>15 DEF Reply
    <2>2. SentOrLost(q, rgb) \/ Mail(q)' = Mail(q)
      <3>1. sent[q] = fromNS[q] \/ (sent[q] = Append(fromNS[q], rgb) /\ cnx[q] = "open")
        BY <1>12 DEF sent, Broadcast
      <3> QED BY <2>1, <3>1 DEF SentOrLost
    <2> QED BY <1>7, <2>2, Sent DEF Inv
  <1>16. \A q \in Service, j \in SId : q # p => (Granting(q, j)' <=> Granting(q, j))
    BY <1>7, <1>15 DEF Granting
  <1> QED BY <1>3, <1>6, <1>7, <1>8, <1>9, <1>14, <1>15, <1>16 DEF list

-----------------------------------------------------------------------------
(* What each step does to the entries and the connections.                 *)

(* The next service is connected to, if it is there.                       *)
LEMMA AddServiceDoes ==
  ASSUME Inv, NEW c \in Service, AddService(c)
  PROVE  \E p \in Service, k \in SId :
           /\ stage[c] = "connecting"
           /\ Prior(c, p, k) /\ k # sid[c] /\ Listed(c, p, k)
           /\ \E i \in ToConnect(c) : p = known[c][i].svc /\ k = known[c][i].sid
           /\ ids[c][k].conn = "empty"
           /\ UNCHANGED << fromNS, stage, sid, known, spoiled >>
           /\ \A r \in Service, j \in SId : r # c \/ j # k => ids'[r][j] = ids[r][j]
           /\ IF Alive(p)
                THEN /\ ids'[c][k].conn = "client" /\ ids'[c][k].peer = p
                     /\ link'[c][p] = "ident"
                     /\ \A q, r \in Service : q # c \/ r # p => link'[q][r] = link[q][r]
                ELSE ids'[c][k].conn = "invalid" /\ link' = link
PROOF
  <1>1. /\ stage[c] = "connecting" /\ ToConnect(c) # {}
        /\ UNCHANGED << fromNS, stage, sid, known, spoiled >>
    BY DEF AddService, channels
  <1>2. PICK i \in ToConnect(c) : i = Min(ToConnect(c))
    BY <1>1, ToConnectType DEF Inv
  <1>3. PICK p \in Service, k \in SId : p = known[c][i].svc /\ k = known[c][i].sid
    BY <1>1, <1>2, ToConnectType DEF Inv
  <1>4. Prior(c, p, k) /\ k # sid[c] /\ Listed(c, p, k)
    BY <1>1, <1>3, NextIsPrior
  <1>5. ids[c][k].conn = "empty"
    BY <1>3 DEF ToConnect
  <1>6. /\ ids \in [Service -> [SId -> IdEntry]]
        /\ link \in [Service -> [Service -> State]]
    BY Vars DEF Inv
  <1>7. \/ /\ Alive(p)
           /\ ids' = [ids EXCEPT ![c][k].conn = "client", ![c][k].peer = p]
           /\ link' = [link EXCEPT ![c][p] = "ident"]
        \/ /\ ~Alive(p)
           /\ ids' = [ids EXCEPT ![c][k].conn = "invalid"]
           /\ link' = link
    BY <1>2, <1>3 DEF AddService
  <1>8. ids[c][k] \in IdEntry
    BY <1>6
  <1>9. CASE Alive(p)
    <2> DEFINE new == [ids[c][k] EXCEPT !.conn = "client", !.peer = p]
    <2>1. ids' = [ids EXCEPT ![c][k].conn = "client", ![c][k].peer = p]
      BY <1>7, <1>9
    <2>2. ids' = [ids EXCEPT ![c][k] = new]
      BY <1>6, <2>1
    <2>3. new.conn = "client" /\ new.peer = p
      BY <1>8 DEF IdEntry
    <2> HIDE DEF new
    <2>4. /\ ids'[c][k] = new
          /\ \A r \in Service, j \in SId : r # c \/ j # k => ids'[r][j] = ids[r][j]
      BY <1>6, <2>2
    <2>5. /\ link'[c][p] = "ident"
          /\ \A q, r \in Service : q # c \/ r # p => link'[q][r] = link[q][r]
      BY <1>6, <1>7, <1>9
    <2> QED BY <1>1, <1>3, <1>4, <1>5, <1>9, <2>3, <2>4, <2>5
  <1>10. CASE ~Alive(p)
    <2> DEFINE new == [ids[c][k] EXCEPT !.conn = "invalid"]
    <2>1. ids' = [ids EXCEPT ![c][k].conn = "invalid"]
      BY <1>7, <1>10
    <2>2. ids' = [ids EXCEPT ![c][k] = new]
      BY <1>6, <2>1
    <2>3. new.conn = "invalid"
      BY <1>8 DEF IdEntry
    <2> HIDE DEF new
    <2>4. /\ ids'[c][k] = new
          /\ \A r \in Service, j \in SId : r # c \/ j # k => ids'[r][j] = ids[r][j]
      BY <1>6, <2>2
    <2> QED BY <1>1, <1>3, <1>4, <1>5, <1>7, <1>10, <2>3, <2>4
  <1> QED BY <1>9, <1>10

(* The entry of the identifier is the one of who says that it has it.      *)
LEMMA IdentificationDoes ==
  ASSUME Inv, NEW p \in Service, NEW c \in Service, ServiceIdentification(p, c)
  PROVE  /\ stage[p] = "running" /\ link[c][p] \in {"ident", "gone"} /\ sid[c] \in SId
         /\ UNCHANGED << fromNS, stage, sid, known >>
         /\ \A r \in Service, j \in SId : r # p \/ j # sid[c] => ids'[r][j] = ids[r][j]
         /\ ids'[p][sid[c]].conn = "server" /\ ids'[p][sid[c]].peer = c
         /\ \A q, r \in Service : q # c \/ r # p => link'[q][r] = link[q][r]
         /\ link[c][p] = "ident" => link'[c][p] = "up"
         /\ link[c][p] = "gone" => link'[c][p] = "broken"
         /\ spoiled \subseteq spoiled'
         /\ link[c][p] = "gone" /\ Late(p, c) => << p, sid[c] >> \in spoiled'
PROOF
  <1>1. /\ stage[p] = "running" /\ link[c][p] \in {"ident", "gone"}
        /\ UNCHANGED << fromNS, stage, sid, known >>
    BY DEF ServiceIdentification, channels
  <1>2. PICK k \in SId : k = sid[c]
    <2>1. sid[c] \in SId \union {0} /\ sid[c] # 0
      BY <1>1, Vars DEF Inv, TypeInv, Identified
    <2> QED BY <2>1
  <1>3. /\ ids \in [Service -> [SId -> IdEntry]]
        /\ link \in [Service -> [Service -> State]]
    BY Vars DEF Inv
  <1>4. /\ ids' = [ids EXCEPT ![p][k] =
                     [Inserted(ids[p][k], c) EXCEPT !.conn = "server", !.peer = c]]
        /\ link' = [link EXCEPT ![c][p] = IF @ = "gone" THEN "broken" ELSE "up"]
    BY <1>2 DEF ServiceIdentification
  <1>5. /\ \A r \in Service, j \in SId : r # p \/ j # k => ids'[r][j] = ids[r][j]
        /\ ids'[p][k].conn = "server" /\ ids'[p][k].peer = c
    <2> DEFINE new == [Inserted(ids[p][k], c) EXCEPT !.conn = "server", !.peer = c]
    <2>1. ids[p][k] \in IdEntry
      BY <1>3
    <2>2. Inserted(ids[p][k], c) \in IdEntry
      BY <2>1, InsertedType
    <2>3. new.conn = "server" /\ new.peer = c
      BY <2>2 DEF IdEntry
    <2>4. ids' = [ids EXCEPT ![p][k] = new]
      BY <1>4
    <2> HIDE DEF new
    <2> QED BY <1>3, <2>3, <2>4
  <1>6. /\ link[c][p] = "ident" => link'[c][p] = "up"
        /\ link[c][p] = "gone" => link'[c][p] = "broken"
        /\ \A q, r \in Service : q # c \/ r # p => link'[q][r] = link[q][r]
    BY <1>3, <1>4
  <1>7. spoiled \subseteq spoiled'
    BY DEF ServiceIdentification, Spoil
  <1>8. link[c][p] = "gone" /\ Late(p, c) => << p, k >> \in spoiled'
    BY <1>2 DEF ServiceIdentification, Spoil
  <1> QED BY <1>1, <1>2, <1>5, <1>6, <1>7, <1>8

(* The connection that is lost is the one of the entry.                    *)
LEMMA LostDoes ==
  ASSUME Inv, LinksInv, NEW p \in Service, NEW q \in Service,
         NEW a \in Service, NEW b \in Service,
         (a = p /\ b = q /\ ServerLost(p, q)) \/ (a = q /\ b = p /\ ClientLost(p, q))
  PROVE  /\ stage[p] = "running" /\ link[a][b] = "broken"
         /\ UNCHANGED << fromNS, stage, sid, known, spoiled >>
         /\ \A r, s \in Service : link'[r][s] = IF r = a /\ s = b THEN "closed" ELSE link[r][s]
         /\ \A r \in Service, j \in SId :
              \/ ids'[r][j] = ids[r][j]
              \/ r = p /\ a = q /\ b = p /\ ids[p][j].peer = q
PROOF
  <1>1. /\ stage[p] = "running" /\ link[a][b] = "broken"
        /\ UNCHANGED << fromNS, stage, sid, known, spoiled >>
        /\ link' = [link EXCEPT ![a][b] = "closed"]
    BY DEF ServerLost, ClientLost, channels, tables
  <1>2. /\ ids \in [Service -> [SId -> IdEntry]]
        /\ link \in [Service -> [Service -> State]]
        /\ sid \in [Service -> SId \union {0}]
    BY Vars DEF Inv
  <1>3. \A r, s \in Service : link'[r][s] = IF r = a /\ s = b THEN "closed" ELSE link[r][s]
    BY <1>1, <1>2
  <1>4. CASE ids' = ids
    BY <1>1, <1>3, <1>4
  <1>5. CASE ids' # ids
    <2>1. /\ a = q /\ b = p /\ Holds(p, q)
          /\ ids' = [ids EXCEPT ![p][sid[q]].conn = "invalid", ![p][sid[q]].peer = None]
      BY <1>5 DEF ServerLost, ClientLost, tables
    <2>2. PICK k \in SId : ids[p][k].peer = q
      BY <2>1 DEF Holds
    <2>3. sid[q] # 0
      <3>1. link[q][p] # "none"
        BY <1>1, <2>1
      <3> QED BY <3>1 DEF LinksInv, OpenInv
    <2>4. Trace(q, k) /\ Trace(q, sid[q]) /\ sid[q] \in SId
      BY <1>2, <2>2, <2>3 DEF Trace, Mentions
    <2>5. sid[q] = k
      BY <2>4 DEF Inv, TraceInv
    <2> DEFINE new == [ids[p][k] EXCEPT !.conn = "invalid", !.peer = None]
    <2>6. ids' = [ids EXCEPT ![p][k] = new]
      BY <1>2, <2>1, <2>5
    <2> HIDE DEF new
    <2>7. \A r \in Service, j \in SId : r # p \/ j # k => ids'[r][j] = ids[r][j]
      BY <1>2, <2>6
    <2> QED BY <1>1, <1>3, <2>1, <2>2, <2>7
  <1> QED BY <1>4, <1>5

(* An entry is freed, and the connection it had is closed.                 *)
LEMMA UnregisterBroadcastDoes ==
  ASSUME Inv, LinksInv, NEW p \in Service, UnregisterBroadcast(p)
  PROVE  \E k \in SId, peer \in Service \union {None} :
           /\ stage[p] \in {"registered", "running"} /\ Dropped(p, k)
           /\ UNCHANGED << stage, sid >>
           /\ Head(fromNS[p]).type = "UNB" /\ Head(fromNS[p]).sid = k
           /\ known'[p] = Without(known[p], k)
           /\ \A q \in Service : q # p => known'[q] = known[q]
           /\ peer = ids[p][k].peer
           /\ ids'[p][k].conn = "empty"
           /\ \A r \in Service, j \in SId : r # p \/ j # k => ids'[r][j] = ids[r][j]
           /\ \A c, s \in Service :
                \/ link'[c][s] = link[c][s]
                \/ /\ link[c][s] # "none" /\ link'[c][s] \in {"broken", "closed"}
                   /\ (c = p /\ s = peer) \/ (c = peer /\ s = p)
           /\ spoiled \subseteq spoiled'
           /\ peer \in Service /\ Alive(peer) => << peer, sid[p] >> \in spoiled'
PROOF
  <1>1. /\ Updates(p) /\ Arrived(p, "UNB")
        /\ fromNS' = [fromNS EXCEPT ![p] = Tail(@)]
        /\ UNCHANGED << stage, sid >>
    BY DEF UnregisterBroadcast
  <1>2. PICK m \in FromNSMessage : m = Head(fromNS[p])
    BY <1>1, Read
  <1>3. m.type = "UNB" /\ m \in Mail(p)
    <2>1. Head(fromNS[p]).type = "UNB" /\ Mail(p) = {Head(fromNS[p])} \union Mail(p)'
      BY <1>1, Read
    <2> QED BY <1>2, <2>1
  <1>4. PICK k \in SId : k = m.sid
    BY <1>3, MessageFields
  <1>5. /\ known \in [Service -> Seq([svc : Service, sid : SId])]
        /\ ids \in [Service -> [SId -> IdEntry]]
        /\ link \in [Service -> [Service -> State]]
    BY Vars DEF Inv
  <1>6. Dropped(p, k)
    BY <1>3, <1>4 DEF Dropped, Drops
  <1>7. /\ known' = [known EXCEPT ![p] = Without(@, k)]
        /\ ids' = [ids EXCEPT ![p][k] = NotUsed]
    BY <1>2, <1>4 DEF UnregisterBroadcast
  <1>8. /\ known'[p] = Without(known[p], k)
        /\ ids'[p][k] = NotUsed
        /\ \A r \in Service, j \in SId : r # p \/ j # k => ids'[r][j] = ids[r][j]
        /\ \A q \in Service : q # p => known'[q] = known[q]
    BY <1>5, <1>7
  <1>9. ids'[p][k].conn = "empty"
    BY <1>8 DEF NotUsed
  <1>10. stage[p] \in {"registered", "running"}
    BY <1>1 DEF Updates
  <1>11. PICK peer \in Service \union {None} : peer = ids[p][k].peer
    <2>1. ids[p][k] \in IdEntry
      BY <1>5
    <2> QED BY <2>1 DEF IdEntry
  <1>12. /\ spoiled \subseteq spoiled'
         /\ peer \in Service /\ Alive(peer) => << peer, sid[p] >> \in spoiled'
    BY <1>2, <1>4, <1>11 DEF UnregisterBroadcast, Spoil
  <1>13. ASSUME NEW s \in Service, NEW c \in Service
         PROVE  \/ link'[c][s] = link[c][s]
                \/ /\ link[c][s] # "none" /\ link'[c][s] \in {"broken", "closed"}
                   /\ (c = p /\ s = peer) \/ (c = peer /\ s = p)
    <2> DEFINE e == ids[p][k]
               closed(r) == IF Alive(r) THEN "broken" ELSE "closed"
    <2>1. link' = CASE e.conn = "client" -> [link EXCEPT ![p][e.peer] = closed(e.peer)]
                    [] e.conn = "server" -> [link EXCEPT ![e.peer][p] = closed(e.peer)]
                    [] OTHER -> link
      BY <1>2, <1>4 DEF UnregisterBroadcast
    <2>2. PICK lost \in {"broken", "closed"} : lost = closed(e.peer)
      OBVIOUS
    <2>3. \/ e.conn = "client" /\ link' = [link EXCEPT ![p][peer] = lost]
          \/ e.conn = "server" /\ link' = [link EXCEPT ![peer][p] = lost]
          \/ link' = link
      BY <1>11, <2>1, <2>2
    <2>4. /\ e.conn = "client" /\ peer \in Service => link[p][peer] # "none"
          /\ e.conn = "server" /\ peer \in Service => link[peer][p] # "none"
      BY <1>11 DEF LinksInv, PeerInv
    <2> HIDE DEF e, closed
    <2>5. /\ link[p] \in [Service -> State] /\ link[c] \in [Service -> State]
          /\ peer \in Service => link[peer] \in [Service -> State]
      BY <1>5
    <2>6. CASE e.conn = "client" /\ link' = [link EXCEPT ![p][peer] = lost]
      BY <1>5, <2>4, <2>5, <2>6
    <2>7. CASE e.conn = "server" /\ link' = [link EXCEPT ![peer][p] = lost]
      BY <1>5, <2>4, <2>5, <2>7
    <2> QED BY <2>3, <2>6, <2>7
  <1>14. /\ UNCHANGED << stage, sid >>
         /\ Head(fromNS[p]).type = "UNB" /\ Head(fromNS[p]).sid = k
    BY <1>1, <1>2, <1>3, <1>4
  <1> QED
    BY <1>6, <1>8, <1>9, <1>10, <1>11, <1>12, <1>13, <1>14, SMTT(30)

(* A name is inserted where there is none.                                 *)
LEMMA RegisterBroadcastDoes ==
  ASSUME Inv, NEW p \in Service, RegisterBroadcast(p)
  PROVE  /\ stage[p] \in {"registered", "running"}
         /\ UNCHANGED << stage, sid, link, spoiled >>
         /\ \A q \in Service : q # p => known'[q] = known[q]
         /\ \A r \in Service, j \in SId :
              \/ ids'[r][j] = ids[r][j]
              \/ ids[r][j].conn = "empty" /\ ids'[r][j].conn = "empty"
PROOF
  <1>1. /\ Updates(p) /\ Arrived(p, "RGB")
        /\ UNCHANGED << stage, sid, link, spoiled >>
    BY DEF RegisterBroadcast
  <1>2. PICK m \in FromNSMessage : m = Head(fromNS[p])
    BY <1>1, ArrivedType DEF Inv, TypeInv, Typed
  <1>3. m.type = "RGB"
    BY <1>1, <1>2 DEF Arrived
  <1>4. PICK c \in Service, k \in SId : c = m.svc /\ k = m.sid
    BY <1>3, MessageFields
  <1>5. /\ known \in [Service -> Seq([svc : Service, sid : SId])]
        /\ ids \in [Service -> [SId -> IdEntry]]
    BY Vars DEF Inv
  <1>6. \A q \in Service : q # p => known'[q] = known[q]
    BY <1>5 DEF RegisterBroadcast
  <1>7. \A r \in Service, j \in SId : \/ ids'[r][j] = ids[r][j]
                                      \/ r = p /\ ids'[p][j] = Inserted(ids[p][j], c)
    <2>1. \/ ids' = ids
          \/ ids' = [ids EXCEPT ![p][k] = IF k = sid[p] THEN @ ELSE Inserted(@, c)]
      BY <1>2, <1>4 DEF RegisterBroadcast
    <2> QED BY <1>5, <2>1
  <1>8. ASSUME NEW j \in SId
        PROVE  \/ Inserted(ids[p][j], c) = ids[p][j]
               \/ ids[p][j].conn = "empty" /\ Inserted(ids[p][j], c).conn = "empty"
    <2>1. ~Ready(ids[p][j]) => ids[p][j].conn = "empty"
      BY DEF Inv, TableInv
    <2> QED BY <2>1 DEF Inserted, NotUsed
  <1>9. stage[p] \in {"registered", "running"}
    BY <1>1 DEF Updates
  <1> QED BY <1>1, <1>6, <1>7, <1>8, <1>9

(* A process that was given its identifier has no connection yet.          *)
LEMMA RegisteredDoes ==
  ASSUME Inv, NEW p \in Service, Registered(p)
  PROVE  /\ stage[p] = "registering" /\ Arrived(p, "RG") /\ UNCHANGED spoiled
         /\ \/ Alive(p) /\ Ends(p) /\ UNCHANGED sid
            \/ /\ Head(fromNS[p]).ok
               /\ stage'[p] = "registered" /\ sid'[p] = Head(fromNS[p]).sid
               /\ known'[p] = [i \in DOMAIN Head(fromNS[p]).list |->
                                 [svc |-> Head(fromNS[p]).list[i].svc,
                                  sid |-> Head(fromNS[p]).list[i].sid]]
               /\ \A q \in Service : q # p => /\ stage'[q] = stage[q] /\ sid'[q] = sid[q]
                                              /\ known'[q] = known[q] /\ ids'[q] = ids[q]
               /\ \A k \in SId : ids'[p][k].conn = "empty"
               /\ \A k \in SId : ids[p][k].conn = "empty"
               /\ UNCHANGED link
PROOF
  <1> DEFINE rg == Head(fromNS[p])
  <1>1. /\ stage[p] = "registering" /\ Arrived(p, "RG") /\ UNCHANGED spoiled
    BY DEF Registered
  <1>2. \/ Ends(p) /\ UNCHANGED sid
        \/ /\ rg.ok
           /\ stage' = [stage EXCEPT ![p] = "registered"]
           /\ sid' = [sid EXCEPT ![p] = rg.sid]
           /\ known' = [known EXCEPT ![p] =
                          [i \in DOMAIN rg.list |->
                             [svc |-> rg.list[i].svc, sid |-> rg.list[i].sid]]]
           /\ ids' = [ids EXCEPT ![p] = [k \in SId |->
                        IF (\E i \in DOMAIN rg.list : rg.list[i].sid = k) /\ k # rg.sid
                        THEN Inserted(@[k], rg.list[First(rg.list, k)].svc)
                        ELSE @[k]]]
           /\ link' = link
    BY DEF Registered, First
  <1>3. Alive(p)
    BY <1>1 DEF Alive
  <1> HIDE DEF rg
  <1>4. ASSUME rg.ok,
               stage' = [stage EXCEPT ![p] = "registered"],
               sid' = [sid EXCEPT ![p] = rg.sid],
               NEW list, known' = [known EXCEPT ![p] = list],
               ids' = [ids EXCEPT ![p] = [k \in SId |->
                         IF (\E i \in DOMAIN rg.list : rg.list[i].sid = k) /\ k # rg.sid
                         THEN Inserted(@[k], rg.list[First(rg.list, k)].svc)
                         ELSE @[k]]]
        PROVE  /\ stage'[p] = "registered" /\ sid'[p] = rg.sid /\ known'[p] = list
               /\ \A q \in Service : q # p => /\ stage'[q] = stage[q] /\ sid'[q] = sid[q]
                                              /\ known'[q] = known[q] /\ ids'[q] = ids[q]
               /\ \A k \in SId : ids'[p][k].conn = "empty" /\ ids[p][k].conn = "empty"
    <2>1. /\ stage \in [Service -> {"off", "registering", "registered", "connecting", "running",
                                    "dead"}]
          /\ sid \in [Service -> SId \union {0}]
          /\ known \in [Service -> Seq([svc : Service, sid : SId])]
          /\ ids \in [Service -> [SId -> IdEntry]]
      BY Vars DEF Inv
    <2>2. \A q \in Service : q # p =>
            /\ stage'[q] = stage[q] /\ sid'[q] = sid[q]
            /\ known'[q] = known[q] /\ ids'[q] = ids[q]
      BY <1>4, <2>1
    <2>3. stage'[p] = "registered" /\ sid'[p] = rg.sid /\ known'[p] = list
      BY <1>4, <2>1
    <2>4. \A k \in SId : ids'[p][k].conn = "empty" /\ ids[p][k].conn = "empty"
      <3>1. ids[p] = [k \in SId |-> NotUsed]
        BY <1>1 DEF Inv, LifeInv, Blank
      <3>2. \A svc : Inserted(NotUsed, svc).conn = "empty"
        BY DEF Inserted, Ready, NotUsed
      <3>3. NotUsed.conn = "empty"
        BY DEF NotUsed
      <3>4. ASSUME NEW k \in SId
            PROVE  ids'[p][k] = IF (\E i \in DOMAIN rg.list : rg.list[i].sid = k) /\ k # rg.sid
                                THEN Inserted(ids[p][k], rg.list[First(rg.list, k)].svc)
                                ELSE ids[p][k]
        BY <1>4, <2>1
      <3>5. \A k \in SId : ids[p][k] = NotUsed
        BY <3>1
      <3> QED BY <3>2, <3>3, <3>4, <3>5
    <2> QED BY <2>2, <2>3, <2>4
  <1>5. CASE Ends(p) /\ UNCHANGED sid
    BY <1>1, <1>3, <1>5
  <1>6. CASE ~(Ends(p) /\ UNCHANGED sid)
    <2> DEFINE list == [i \in DOMAIN rg.list |-> [svc |-> rg.list[i].svc, sid |-> rg.list[i].sid]]
    <2>1. /\ stage'[p] = "registered" /\ sid'[p] = rg.sid /\ known'[p] = list
          /\ \A q \in Service : q # p => /\ stage'[q] = stage[q] /\ sid'[q] = sid[q]
                                         /\ known'[q] = known[q] /\ ids'[q] = ids[q]
          /\ \A k \in SId : ids'[p][k].conn = "empty" /\ ids[p][k].conn = "empty"
      <3>1. \A l : known' = [known EXCEPT ![p] = l] =>
              /\ stage'[p] = "registered" /\ sid'[p] = rg.sid /\ known'[p] = l
              /\ \A q \in Service : q # p => /\ stage'[q] = stage[q] /\ sid'[q] = sid[q]
                                             /\ known'[q] = known[q] /\ ids'[q] = ids[q]
              /\ \A k \in SId : ids'[p][k].conn = "empty" /\ ids[p][k].conn = "empty"
        BY <1>2, <1>4, <1>6
      <3> QED BY <1>2, <1>6, <3>1
    <2> QED BY <1>1, <1>2, <1>6, <2>1 DEF rg
  <1> QED BY <1>5, <1>6

(* A process that ends has no entry, and the others keep theirs.           *)
LEMMA EndsDoes ==
  ASSUME Inv, NEW p \in Service, Ends(p)
  PROVE  /\ stage'[p] = "dead"
         /\ \A q \in Service : q # p => /\ stage'[q] = stage[q] /\ fromNS'[q] = fromNS[q]
                                        /\ known'[q] = known[q] /\ ids'[q] = ids[q]
         /\ \A c, q \in Service : /\ link'[c][q] = "none" <=> link[c][q] = "none"
                                  /\ p \notin {c, q} => link'[c][q] = link[c][q]
PROOF
  <1>1. /\ stage' = [stage EXCEPT ![p] = "dead"]
        /\ fromNS' = [fromNS EXCEPT ![p] = << >>]
        /\ known' = [known EXCEPT ![p] = << >>]
        /\ ids' = [ids EXCEPT ![p] = [k \in SId |-> NotUsed]]
    BY DEF Ends
  <1>2. ASSUME NEW c \in Service, NEW q \in Service
        PROVE  /\ link'[c][q] = "none" <=> link[c][q] = "none"
               /\ p \notin {c, q} => link'[c][q] = link[c][q]
    <2>1. link'[c][q] =
            IF p \notin {c, q} \/ link[c][q] = "none" THEN link[c][q]
            ELSE IF stage[IF c = p THEN q ELSE c] = "dead" THEN "closed"
            ELSE IF link[c][q] = "ident" /\ c = p THEN "gone"
            ELSE IF link[c][q] \in {"ident", "up"} THEN "broken"
            ELSE link[c][q]
      BY DEF Ends
    <2> QED BY <2>1
  <1> QED BY <1>1, <1>2, Vars DEF Inv

(* A step closes no connection as if it never was, and a process that does *)
(* not run yet gets one by connecting only.                                *)
Steady ==
  /\ spoiled \subseteq spoiled'
  /\ \A p, q \in Service : link[p][q] # "none" => link'[p][q] # "none"
  /\ \A p \in Service, k \in SId :
       stage'[p] \in {"registered", "connecting"} /\ ids'[p][k].conn # "empty" =>
         ids[p][k].conn # "empty" \/ AddService(p)
  /\ \A p \in Service :
       /\ stage'[p] = "registered" => stage[p] \in {"registering", "registered"}
       /\ stage'[p] = "connecting" => stage[p] \in {"registered", "connecting"}

(* That holds of all steps.                                                *)
LEMMA SteadyNext ==
  ASSUME Inv, LinksInv, [Next]_vars
  PROVE  Steady
PROOF
  <1>0. stage \in [Service -> {"off", "registering", "registered", "connecting", "running",
                               "dead"}]
    BY Vars DEF Inv
  <1>1. ASSUME UNCHANGED << tables, link >>, spoiled \subseteq spoiled',
               \A p \in Service : \/ stage'[p] = stage[p]
                                  \/ stage'[p] \in {"registering", "running"}
                                  \/ stage[p] = "registered" /\ stage'[p] = "connecting"
        PROVE  Steady
    BY <1>1 DEF Steady, tables
  <1>2. ASSUME \/ \E p \in Service :
                    NSAccept(p) \/ NSRefuse(p) \/ NSResend(p) \/ NSAck(p) \/ NSDisconnect(p)
               \/ NSUpdate \/ NSTimeout \/ NSCrash \/ NSRestart
               \/ UNCHANGED vars
        PROVE  Steady
    <2>1. /\ UNCHANGED << stage, tables, link >>
          /\ spoiled \subseteq spoiled'
      BY <1>2 DEF NSAccept, NSRefuse, NSResend, NSAck, NSDisconnect, NSUpdate, NSTimeout, NSCrash,
         NSRestart, Spoil, vars
    <2> QED BY <1>1, <2>1
  <1>3. ASSUME NEW p \in Service,
               NoticeNS(p) \/ Connect(p) \/ Connected(p) \/ Start(p) \/ Reconnect(p)
        PROVE  Steady
    <2>1. UNCHANGED << tables, link >> /\ spoiled \subseteq spoiled'
      BY <1>3 DEF NoticeNS, Connect, Connected, Start, Reconnect
    <2>2. \A q \in Service : \/ stage'[q] = stage[q]
                             \/ stage'[q] \in {"registering", "running"}
                             \/ stage[q] = "registered" /\ stage'[q] = "connecting"
      BY <1>0, <1>3 DEF NoticeNS, Connect, Connected, Start, Reconnect
    <2> QED BY <1>1, <2>1, <2>2
  <1>4. ASSUME NEW p \in Service, Ends(p), spoiled \subseteq spoiled' PROVE Steady
    BY <1>4, EndsDoes DEF Steady
  <1>5. ASSUME NEW p \in Service, Registered(p) PROVE Steady
    <2>1. CASE Ends(p)
      <3>1. spoiled \subseteq spoiled'
        BY <1>5, RegisteredDoes
      <3> QED BY <1>4, <2>1, <3>1
    <2>2. CASE ~Ends(p)
      BY <1>5, <2>2, RegisteredDoes DEF Steady
    <2> QED BY <2>1, <2>2
  <1>6. ASSUME NEW p \in Service, Die(p) PROVE Steady
    <2>1. Ends(p) /\ spoiled \subseteq spoiled'
      BY <1>6 DEF Die, Spoil
    <2> QED BY <1>4, <2>1
  <1>7. ASSUME NEW p \in Service, RegisterBroadcast(p) PROVE Steady
    BY <1>7, RegisterBroadcastDoes DEF Steady
  <1>8. ASSUME NEW p \in Service, UnregisterBroadcast(p) PROVE Steady
    <2>1. PICK k \in SId, peer \in Service \union {None} :
            /\ stage[p] \in {"registered", "running"} /\ Dropped(p, k)
            /\ UNCHANGED << stage, sid >>
            /\ Head(fromNS[p]).type = "UNB" /\ Head(fromNS[p]).sid = k
            /\ known'[p] = Without(known[p], k)
            /\ \A q \in Service : q # p => known'[q] = known[q]
            /\ peer = ids[p][k].peer
            /\ ids'[p][k].conn = "empty"
            /\ \A r \in Service, j \in SId : r # p \/ j # k => ids'[r][j] = ids[r][j]
            /\ \A c, s \in Service :
                 \/ link'[c][s] = link[c][s]
                 \/ /\ link[c][s] # "none" /\ link'[c][s] \in {"broken", "closed"}
                    /\ (c = p /\ s = peer) \/ (c = peer /\ s = p)
            /\ spoiled \subseteq spoiled'
            /\ peer \in Service /\ Alive(peer) => << peer, sid[p] >> \in spoiled'
      BY <1>8, UnregisterBroadcastDoes
    <2>2. \A c, s \in Service : link[c][s] # "none" => link'[c][s] # "none"
      BY <2>1
    <2>3. \A r \in Service, j \in SId : ids'[r][j].conn # "empty" => ids'[r][j] = ids[r][j]
      BY <2>1
    <2> QED BY <2>1, <2>2, <2>3 DEF Steady
  <1>9. ASSUME NEW c \in Service, AddService(c) PROVE Steady
    <2>1. PICK p \in Service, k \in SId :
            /\ UNCHANGED << stage, spoiled >>
            /\ \A r \in Service, j \in SId : r # c \/ j # k => ids'[r][j] = ids[r][j]
            /\ \/ link' = link
               \/ /\ link'[c][p] = "ident"
                  /\ \A q, r \in Service : q # c \/ r # p => link'[q][r] = link[q][r]
      BY <1>9, AddServiceDoes
    <2>2. \A q, r \in Service : link[q][r] # "none" => link'[q][r] # "none"
      BY <2>1
    <2> QED BY <1>9, <2>1, <2>2 DEF Steady
  <1>10. ASSUME NEW p \in Service, NEW c \in Service, ServiceIdentification(p, c) PROVE Steady
    <2>1. /\ stage[p] = "running" /\ link[c][p] \in {"ident", "gone"} /\ sid[c] \in SId
          /\ UNCHANGED << fromNS, stage, sid, known >>
          /\ \A r \in Service, j \in SId : r # p \/ j # sid[c] => ids'[r][j] = ids[r][j]
          /\ ids'[p][sid[c]].conn = "server" /\ ids'[p][sid[c]].peer = c
          /\ \A q, r \in Service : q # c \/ r # p => link'[q][r] = link[q][r]
          /\ link[c][p] = "ident" => link'[c][p] = "up"
          /\ link[c][p] = "gone" => link'[c][p] = "broken"
          /\ spoiled \subseteq spoiled'
          /\ link[c][p] = "gone" /\ Late(p, c) => << p, sid[c] >> \in spoiled'
      BY <1>10, IdentificationDoes
    <2>2. \A q, r \in Service : link[q][r] # "none" => link'[q][r] # "none"
      BY <2>1
    <2> QED BY <2>1, <2>2 DEF Steady
  <1>11. ASSUME NEW p \in Service, NEW q \in Service, ServerLost(p, q) \/ ClientLost(p, q)
         PROVE  Steady
    <2>1. PICK a \in Service, b \in Service :
            (a = p /\ b = q /\ ServerLost(p, q)) \/ (a = q /\ b = p /\ ClientLost(p, q))
      BY <1>11
    <2>2. /\ stage[p] = "running" /\ UNCHANGED << stage, spoiled >>
          /\ \A r, s \in Service : link'[r][s] = IF r = a /\ s = b THEN "closed" ELSE link[r][s]
          /\ \A r \in Service, j \in SId : ids'[r][j] = ids[r][j] \/ r = p
      BY <2>1, LostDoes
    <2> QED BY <2>2 DEF Steady
  <1> QED BY <1>2, <1>3, <1>5, <1>6, <1>7, <1>8, <1>9, <1>10, <1>11 DEF Next, NS, Process

-----------------------------------------------------------------------------
(* What those that are before a process in its list still are for it.      *)

(* The list that comes with an identifier ends with its owner.             *)
LastInv ==
  \A p \in Service : \A m \in Mail(p) : m.type = "RG" /\ m.ok =>
    \A i, d \in DOMAIN m.list : m.list[d].sid = m.sid => i <= d

(* A process that does not connect yet has no connection.                  *)
BareInv ==
  \A p \in Service : stage[p] \in {"registering", "registered"} =>
    \A k \in SId : ids[p][k].conn = "empty"

(* Nobody is told that a process that lives died, and the entry that has a *)
(* connection has it to the process it is about.                           *)
StillInv ==
  \A p, q \in Service, k \in SId : Prior(p, q, k) /\ Has(q, k) =>
    /\ ~Dropped(p, k)
    /\ stage[p] = "connecting" /\ ids[p][k].conn # "empty" => link[p][q] # "none"

(* What is appended to the list comes last among those that are available. *)
LEMMA AccessibleLast ==
  ASSUME NEW reg \in Seq(Entry), NEW p \in Service, NEW k \in SId,
         \A e \in Entries(reg) : e.sid # k,
         NEW list, list = Accessible(Register(reg, p, k))
  PROVE  \A i, d \in DOMAIN list : list[d].sid = k => i <= d
PROOF
  <1> DEFINE s == Register(reg, p, k)
             I == {i \in DOMAIN s : ~s[i].waiting}
  <1>1. s \in Seq(Entry)
    BY RegisterEntries
  <1>2. PICK n \in Nat : n = Len(reg)
    BY LenProperties
  <1>3. /\ DOMAIN s = 1 .. n + 1
        /\ \A i \in 1 .. n : s[i] = reg[i]
        /\ DOMAIN reg = 1 .. n
    <2> DEFINE new == [svc |-> p, sid |-> k, waiting |-> FALSE, acks |-> {}]
    <2>1. new \in Entry
      BY DEF Entry
    <2>2. s = Append(reg, new)
      BY DEF Register
    <2> HIDE DEF new, s
    <2> QED BY <1>2, <2>1, <2>2, AppendProperties, LenProperties
  <1>4. list = Kept(s, I)
    BY DEF Accessible
  <1> HIDE DEF s
  <1>5. I \in SUBSET DOMAIN s
    OBVIOUS
  <1> HIDE DEF I
  <1>6. IsFiniteSet(I) /\ I \in SUBSET Nat
    BY <1>1, <1>5, KeptSequence
  <1>7. /\ Cardinality(I) \in Nat
        /\ DOMAIN Kept(s, I) = 1 .. Cardinality(I)
        /\ \E f : Numbers(f, s, I)
    BY <1>6, KeptProperties
  <1>8. PICK f : Numbers(f, s, I)
    BY <1>7
  <1>9. ASSUME NEW i \in DOMAIN list, NEW d \in DOMAIN list, list[d].sid = k, ~(i <= d)
        PROVE  FALSE
    <2>1. i \in 1 .. Cardinality(I) /\ d \in 1 .. Cardinality(I) /\ d < i
      BY <1>4, <1>7, <1>9
    <2>2. f[d] \in 1 .. n + 1 /\ f[i] \in 1 .. n + 1 /\ f[d] < f[i]
      BY <1>3, <1>5, <1>8, <2>1 DEF Numbers
    <2>3. list[d] = s[f[d]]
      BY <1>4, <1>8, <2>1 DEF Numbers
    <2>4. f[d] \in 1 .. n
      BY <1>2, <2>2
    <2>5. reg[f[d]].sid = k /\ f[d] \in DOMAIN reg
      BY <1>3, <1>9, <2>3, <2>4
    <2> QED BY <2>5 DEF Entries
  <1> QED BY <1>9

(* A list is given by one step, as it is in AcceptGives.                   *)
LEMMA LastNext ==
  ASSUME Inv, LastInv, [Next]_vars
  PROVE  LastInv'
PROOF
  <1>1. CASE Passing
    BY <1>1 DEF Passing, LastInv
  <1>2. ASSUME NEW p \in Service, NSAccept(p) PROVE LastInv'
    <2>1. PICK k \in SId, rg \in FromNSMessage :
           /\ Posted(p, "RG")
           /\ \A e \in Entries(registry) : e.sid # k
           /\ rg.type = "RG" /\ rg.ok /\ rg.sid = k
           /\ rg.list = Accessible(Register(registry, p, k))
           /\ Mail(p)' \subseteq {rg}
           /\ \A q \in Service : q # p => /\ Mail(q) \subseteq Mail(q)'
                                          /\ \A m \in Mail(q)' \ Mail(q) : m.type = "RGB"
           /\ \A q \in Service, j \in SId : q # p => (Granting(q, j)' <=> Granting(q, j))
           /\ UNCHANGED << stage, sid, tables, link, spoiled >>
      BY <1>2, AcceptGives
    <2>2. \A i, d \in DOMAIN rg.list : rg.list[d].sid = rg.sid => i <= d
      <3>1. registry \in Seq(Entry)
        BY Vars DEF Inv
      <3>2. PICK list : list = rg.list
        OBVIOUS
      <3>3. list = Accessible(Register(registry, p, k)) /\ rg.sid = k
        BY <2>1, <3>2
      <3>4. \A i, d \in DOMAIN list : list[d].sid = k => i <= d
        BY <2>1, <3>1, <3>3, AccessibleLast
      <3> QED BY <3>2, <3>3, <3>4
    <2>3. ASSUME NEW q \in Service, NEW m \in Mail(q)', m.type = "RG", m.ok
          PROVE  \A i, d \in DOMAIN m.list : m.list[d].sid = m.sid => i <= d
      <3>1. CASE q = p
        <4>1. m = rg
          BY <2>1, <2>3, <3>1
        <4> QED BY <2>2, <4>1
      <3>2. CASE q # p
        <4>1. m \in Mail(q)
          BY <2>1, <2>3, <3>2
        <4> QED BY <2>3, <4>1 DEF LastInv
      <3> QED BY <3>1, <3>2
    <2> QED BY <2>3 DEF LastInv
  <1> QED BY <1>1, <1>2, PassingNext

(* To get a connection, a process has to connect.                          *)
LEMMA BareNext ==
  ASSUME Inv, Inv', LinksInv, BareInv, [Next]_vars
  PROVE  BareInv'
PROOF
  <1> SUFFICES ASSUME NEW p \in Service, NEW k \in SId,
                      stage'[p] \in {"registering", "registered"}, ids'[p][k].conn # "empty"
               PROVE  FALSE
    BY DEF BareInv
  <1>1. stage'[p] = "registered"
    <2>1. stage'[p] = "registering" => ids'[p] = [j \in SId |-> NotUsed]
      BY DEF Inv, LifeInv, Blank
    <2> QED BY <2>1 DEF NotUsed
  <1>2. Steady
    BY SteadyNext
  <1>3. stage[p] \in {"registering", "registered"} /\ (ids[p][k].conn # "empty" \/ AddService(p))
    BY <1>1, <1>2 DEF Steady
  <1>4. AddService(p) => stage[p] = "connecting"
    BY DEF AddService
  <1> QED BY <1>3, <1>4 DEF BareInv

(* Once a process has an identifier, those that are before it are listed.  *)
LEMMA PriorListed ==
  ASSUME Inv, NEW p \in Service, NEW q \in Service, NEW k \in SId, Prior(p, q, k),
         stage[p] # "registering"
  PROVE  /\ stage[p] \in {"registered", "connecting"} /\ sid[p] # k
         /\ Early(known[p], At(q, k), Own(sid[p]))
         /\ Listed(p, q, k)
PROOF
  <1>1. \A m \in Mail(p) : m.type # "RG"
    BY DEF Inv, LifeInv
  <1>2. /\ stage[p] \in {"registered", "connecting"} /\ sid[p] # k
        /\ Early(known[p], At(q, k), Own(sid[p]))
    BY <1>1 DEF Prior, Offers
  <1>3. Listed(p, q, k)
    BY <1>2, EarlyFound DEF Listed, At
  <1> QED BY <1>2, <1>3

(* An identifier is there only once.                                       *)
LEMMA ListedOnce ==
  ASSUME Inv, NEW p \in Service, NEW q \in Service, NEW r \in Service, NEW k \in SId,
         Listed(p, q, k), Listed(p, r, k)
  PROVE  q = r
PROOF
  <1>1. PICK e \in Entries(known[p]) : e.svc = q /\ e.sid = k
    BY DEF Listed
  <1>2. PICK f \in Entries(known[p]) : f.svc = r /\ f.sid = k
    BY DEF Listed
  <1>3. Distinct(known[p])
    BY DEF Inv, TableInv
  <1>4. e = f
    BY <1>1, <1>2, <1>3, DistinctEntries
  <1> QED BY <1>1, <1>2, <1>4

(* No step says of a process that lives that it died.                      *)
LEMMA StillNext ==
  ASSUME Inv, OrderInv, LinksInv, BareInv, StillInv, [Next]_vars
  PROVE  StillInv'
PROOF
  <1>0. OrderKept /\ Steady
    BY OrderNext, SteadyNext
  <1> SUFFICES ASSUME NEW p \in Service, NEW q \in Service, NEW k \in SId,
                      Prior(p, q, k)', Has(q, k)'
               PROVE  /\ ~Dropped(p, k)'
                      /\ stage'[p] = "connecting" /\ ids'[p][k].conn # "empty" =>
                           link'[p][q] # "none"
    BY DEF StillInv
  <1>1. CASE Passing
    <2>1. Prior(p, q, k) /\ Has(q, k)
      <3>1. Prior(p, q, k)
        BY <1>0, <1>1, PassingPrior
      <3> QED BY <1>1, <3>1 DEF Passing
    <2>2. ~Dropped(p, k)'
      BY <1>1, <2>1 DEF Passing, StillInv
    <2>3. ASSUME stage'[p] = "connecting", ids'[p][k].conn # "empty" PROVE link'[p][q] # "none"
      <3>1. stage[p] \in {"registered", "connecting"}
        BY <1>0, <2>3 DEF Steady
      <3>2. CASE ids[p][k].conn # "empty"
        <4>1. stage[p] = "connecting"
          BY <3>1, <3>2 DEF BareInv
        <4>2. link[p][q] # "none"
          BY <2>1, <3>2, <4>1 DEF StillInv
        <4> QED BY <1>0, <4>2 DEF Steady
      <3>3. CASE ids[p][k].conn = "empty"
        <4>1. AddService(p)
          BY <1>0, <2>3, <3>3 DEF Steady
        <4>2. PICK r \in Service, j \in SId :
           /\ stage[p] = "connecting"
           /\ Prior(p, r, j) /\ j # sid[p] /\ Listed(p, r, j)
           /\ \E i \in ToConnect(p) : r = known[p][i].svc /\ j = known[p][i].sid
           /\ ids[p][j].conn = "empty"
           /\ UNCHANGED << fromNS, stage, sid, known, spoiled >>
           /\ \A s \in Service, i \in SId : s # p \/ i # j => ids'[s][i] = ids[s][i]
           /\ IF Alive(r)
                THEN /\ ids'[p][j].conn = "client" /\ ids'[p][j].peer = r
                     /\ link'[p][r] = "ident"
                     /\ \A s, t \in Service : s # p \/ t # r => link'[s][t] = link[s][t]
                ELSE ids'[p][j].conn = "invalid" /\ link' = link
          BY <4>1, AddServiceDoes
        <4>3. j = k
          BY <2>3, <3>3, <4>2
        <4>4. Listed(p, q, k)
          BY <2>1, <4>2, PriorListed
        <4>5. r = q
          BY <4>2, <4>3, <4>4, ListedOnce
        <4>6. Alive(q)
          BY <2>1 DEF Has
        <4> QED BY <4>2, <4>5, <4>6
      <3> QED BY <3>2, <3>3
    <2> QED BY <2>2, <2>3
  <1>2. ASSUME NEW s \in Service, NSAccept(s)
        PROVE  /\ ~Dropped(p, k)'
               /\ stage'[p] = "connecting" /\ ids'[p][k].conn # "empty" => link'[p][q] # "none"
    <2>1. PICK j \in SId, rg \in FromNSMessage :
           /\ Posted(s, "RG")
           /\ \A e \in Entries(registry) : e.sid # j
           /\ rg.type = "RG" /\ rg.ok /\ rg.sid = j
           /\ rg.list = Accessible(Register(registry, s, j))
           /\ Mail(s)' \subseteq {rg}
           /\ \A r \in Service : r # s => /\ Mail(r) \subseteq Mail(r)'
                                          /\ \A m \in Mail(r)' \ Mail(r) : m.type = "RGB"
           /\ \A r \in Service, i \in SId : r # s => (Granting(r, i)' <=> Granting(r, i))
           /\ UNCHANGED << stage, sid, tables, link, spoiled >>
      BY <1>2, AcceptGives
    <2>2. \A r \in Service : Posted(r, "RG") =>
            Mail(r) = {} /\ stage[r] \in {"registering", "dead"} /\ ~Trace(r, k)
      BY Asking
    <2>3. CASE p = s
      <3>1. ~Dropped(p, k)'
        BY <2>1, <2>3 DEF Dropped, Drops
      <3> QED BY <2>1, <2>2, <2>3, <3>1
    <2>4. CASE p # s
      <3>1. Prior(p, q, k)
        <4> SUFFICES ASSUME Posted(p, "RG") PROVE FALSE
          BY <1>0 DEF OrderKept
        <4>1. \A m \in Mail(p)' : m.type # "RG"
          BY <2>1, <2>2, <2>4
        <4>2. stage'[p] \notin {"registered", "connecting"}
          BY <2>1, <2>2
        <4> QED BY <4>1, <4>2 DEF Prior, Offers
      <3>2. q # s
        <4>1. Mentions(p, q, k)
          BY <3>1, PriorMentions
        <4> QED BY <2>1, <2>2, <4>1 DEF Trace
      <3>3. Has(q, k)
        BY <2>1, <3>2 DEF Has, Alive
      <3>4. ~Dropped(p, k)'
        <4>1. ~Dropped(p, k)
          BY <3>1, <3>3 DEF StillInv
        <4> QED BY <2>1, <2>4, <4>1 DEF Dropped, Drops
      <3>5. stage[p] = "connecting" /\ ids[p][k].conn # "empty" => link[p][q] # "none"
        BY <3>1, <3>3 DEF StillInv
      <3> QED BY <2>1, <3>4, <3>5 DEF tables
    <2> QED BY <2>3, <2>4
  <1> QED BY <1>1, <1>2, PassingNext

-----------------------------------------------------------------------------
(* Any two processes that have an identifier meet: one of them is before   *)
(* the other in its list, or connected.                                    *)
MeetInv ==
  \A p, q \in Service, j, k \in SId : p # q /\ Has(p, j) /\ Has(q, k) /\ Clean(p, k) =>
    Prior(p, q, k) \/ Prior(q, p, j) \/ link[p][q] # "none" \/ link[q][p] # "none"

(* An answer is what a process receives first, and once.                   *)
LEMMA OneReply ==
  ASSUME Inv, NEW p \in Service, NEW m \in Mail(p), m.type = "RG"
  PROVE  /\ m = Head(fromNS[p]) /\ stage[p] = "registering" /\ sid[p] = 0
         /\ m \in FromNSMessage
         /\ \A n \in Mail(p) : n.type = "RG" => n = m
PROOF
  <1>1. fromNS[p] \in Seq(FromNSMessage) /\ Mail(p) \subseteq FromNSMessage
    BY Vars, Messages DEF Inv
  <1>2. stage[p] = "registering" /\ sid[p] = 0 /\ Bars(fromNS[p], FromNSMessage, Replies)
    BY DEF Inv, LifeInv
  <1>3. ASSUME NEW n \in Mail(p), n.type = "RG" PROVE n = Head(fromNS[p])
    <2>1. PICK i \in DOMAIN fromNS[p] : n = fromNS[p][i]
      BY DEF Mail, Entries
    <2>2. n \in Replies /\ \A d \in DOMAIN fromNS[p] : fromNS[p][d] \in FromNSMessage
      BY <1>1, <1>3, EntriesType DEF Replies
    <2>3. \A d \in DOMAIN fromNS[p] : ~(d < i)
      BY <1>2, <2>1, <2>2 DEF Bars
    <2>4. 1 \in DOMAIN fromNS[p] /\ i \in Nat \ {0} /\ Head(fromNS[p]) = fromNS[p][1]
      <3>1. DOMAIN fromNS[p] = 1 .. Len(fromNS[p]) /\ Len(fromNS[p]) \in Nat
        BY <1>1, LenProperties
      <3>2. 1 \in DOMAIN fromNS[p] /\ i \in Nat \ {0}
        BY <2>1, <3>1
      <3> QED BY <3>2 DEF Head
    <2>5. i = 1
      BY <2>3, <2>4
    <2> QED BY <2>1, <2>4, <2>5
  <1> QED BY <1>1, <1>2, <1>3

(* What comes early is early when something else is taken away.            *)
LEMMA EarlyThin ==
  ASSUME NEW S, NEW s \in Seq(S), NEW I \in SUBSET DOMAIN s, NEW A, NEW B,
         \A i \in DOMAIN s \ I : s[i] \notin A,
         Early(s, A, B)
  PROVE  Early(Kept(s, I), A, B)
PROOF
  <1>1. IsFiniteSet(I) /\ I \in SUBSET Nat
    BY KeptSequence
  <1>2. /\ Cardinality(I) \in Nat
        /\ DOMAIN Kept(s, I) = 1 .. Cardinality(I)
        /\ \E f : Numbers(f, s, I)
    BY <1>1, KeptProperties
  <1>3. PICK f : Numbers(f, s, I)
    BY <1>2
  <1>4. PICK i \in DOMAIN s : s[i] \in A /\ \A d \in DOMAIN s : d < i => s[d] \notin B
    BY DEF Early
  <1>5. PICK n \in 1 .. Cardinality(I) : f[n] = i
    BY <1>3, <1>4 DEF Numbers
  <1>6. n \in DOMAIN Kept(s, I) /\ Kept(s, I)[n] \in A
    BY <1>2, <1>3, <1>4, <1>5 DEF Numbers
  <1>7. ASSUME NEW d \in DOMAIN Kept(s, I), d < n PROVE Kept(s, I)[d] \notin B
    <2>1. d \in 1 .. Cardinality(I)
      BY <1>2
    <2>2. f[d] \in I /\ f[d] < f[n] /\ Kept(s, I)[d] = s[f[d]]
      BY <1>3, <1>7, <2>1 DEF Numbers
    <2> QED BY <1>4, <1>5, <2>2
  <1> QED BY <1>6, <1>7 DEF Early

(* ... or added after it.                                                  *)
LEMMA EarlyGrows ==
  ASSUME NEW S, NEW s \in Seq(S), NEW x \in S, NEW A, NEW B, Early(s, A, B)
  PROVE  Early(Append(s, x), A, B)
PROOF
  <1>1. /\ DOMAIN s = 1 .. Len(s) /\ Len(s) \in Nat
        /\ DOMAIN Append(s, x) = 1 .. Len(s) + 1
        /\ \A i \in 1 .. Len(s) : Append(s, x)[i] = s[i]
    BY AppendProperties, LenProperties
  <1>2. PICK i \in DOMAIN s : s[i] \in A /\ \A d \in DOMAIN s : d < i => s[d] \notin B
    BY DEF Early
  <1>3. i \in DOMAIN Append(s, x) /\ Append(s, x)[i] \in A
    BY <1>1, <1>2
  <1>4. ASSUME NEW d \in DOMAIN Append(s, x), d < i PROVE Append(s, x)[d] \notin B
    <2>1. d \in 1 .. Len(s)
      BY <1>1, <1>4
    <2> QED BY <1>1, <1>2, <1>4, <2>1
  <1> QED BY <1>3, <1>4 DEF Early

(* The one that gets an identifier finds all those that have one.          *)
LEMMA AcceptOffers ==
  ASSUME Inv, NEW p \in Service, NSAccept(p), NEW j \in SId, Has(p, j)',
         NEW q \in Service, q # p, NEW k \in SId, Has(q, k)'
  PROVE  Prior(p, q, k)' /\ Has(q, k)
PROOF
  <1>1. PICK i \in SId, rg \in FromNSMessage :
           /\ Posted(p, "RG")
           /\ \A e \in Entries(registry) : e.sid # i
           /\ rg.type = "RG" /\ rg.ok /\ rg.sid = i
           /\ rg.list = Accessible(Register(registry, p, i))
           /\ Mail(p)' \subseteq {rg}
           /\ \A r \in Service : r # p => /\ Mail(r) \subseteq Mail(r)'
                                          /\ \A m \in Mail(r)' \ Mail(r) : m.type = "RGB"
           /\ \A r \in Service, l \in SId : r # p => (Granting(r, l)' <=> Granting(r, l))
           /\ UNCHANGED << stage, sid, tables, link, spoiled >>
    BY AcceptGives
  <1>2. sid[p] = 0
    BY <1>1, Asking
  <1>3. rg \in Mail(p)'
    <2>1. Granting(p, j)'
      BY <1>1, <1>2, SIdNat DEF Has
    <2> QED BY <1>1, <2>1 DEF Granting
  <1>4. Has(q, k)
    BY <1>1 DEF Has, Alive
  <1>5. Owner(q, k) /\ Alive(q)
    BY <1>4, HasOwns
  <1>6. PICK e \in Entries(registry) : e.svc = q /\ e.sid = k
    BY <1>1, <1>5, AllEntered DEF Entered
  <1>7. ~e.waiting
    BY <1>5, <1>6 DEF Inv, RegistryInv, Alive
  <1>8. e \in Entries(rg.list)
    <2>1. registry \in Seq(Entry)
      BY Vars DEF Inv
    <2>2. /\ Register(registry, p, i) \in Seq(Entry)
          /\ Entries(registry) \subseteq Entries(Register(registry, p, i))
      BY <2>1, RegisterEntries
    <2>3. Entries(Accessible(Register(registry, p, i))) = Available(Register(registry, p, i))
      BY <2>2, AccessibleEntries
    <2>4. e \in Available(Register(registry, p, i))
      BY <1>6, <1>7, <2>2 DEF Available
    <2> QED BY <1>1, <2>3, <2>4
  <1>9. Offers(rg, q, k)
    BY <1>1, <1>6, <1>8 DEF Offers
  <1> QED BY <1>3, <1>4, <1>9 DEF Prior

(* The steps of a process that change how far it is or what it knows.      *)
LEMMA ListHow ==
  ASSUME Inv, LinksInv, [Next]_vars, NEW p \in Service
  PROVE  \/ stage'[p] = stage[p] /\ sid'[p] = sid[p] /\ known'[p] = known[p]
         \/ Start(p) \/ Registered(p) \/ RegisterBroadcast(p) \/ UnregisterBroadcast(p)
         \/ Connect(p) \/ Connected(p) \/ Die(p)
PROOF
  <1> DEFINE Same == stage'[p] = stage[p] /\ sid'[p] = sid[p] /\ known'[p] = known[p]
             Mine == \/ Start(p) \/ Registered(p) \/ RegisterBroadcast(p)
                    \/ UnregisterBroadcast(p) \/ Connect(p) \/ Connected(p) \/ Die(p)
  <1>0. /\ stage \in [Service -> {"off", "registering", "registered", "connecting", "running",
                                  "dead"}]
        /\ sid \in [Service -> SId \union {0}]
        /\ known \in [Service -> Seq([svc : Service, sid : SId])]
    BY Vars DEF Inv
  <1>1. ASSUME \/ \E r \in Service :
                    NSAccept(r) \/ NSRefuse(r) \/ NSResend(r) \/ NSAck(r) \/ NSDisconnect(r)
               \/ NSUpdate \/ NSTimeout \/ NSCrash \/ NSRestart
               \/ UNCHANGED vars
        PROVE  Same
    <2>1. UNCHANGED << stage, sid, tables >>
      BY <1>1 DEF NSAccept, NSRefuse, NSResend, NSAck, NSDisconnect, NSUpdate, NSTimeout, NSCrash,
         NSRestart, vars
    <2> QED BY <2>1 DEF tables
  <1>2. ASSUME NEW r \in Service, NoticeNS(r) \/ Reconnect(r) \/ AddService(r) PROVE Same
    <2>1. UNCHANGED << stage, sid, known >>
      BY <1>2 DEF NoticeNS, Reconnect, AddService, tables
    <2> QED BY <2>1
  <1>3. ASSUME NEW r \in Service, NEW q \in Service,
               ServiceIdentification(r, q) \/ ServerLost(r, q) \/ ClientLost(r, q)
        PROVE  Same
    <2>1. UNCHANGED << stage, sid, known >>
      BY <1>3 DEF ServiceIdentification, ServerLost, ClientLost, tables
    <2> QED BY <2>1
  <1>4. ASSUME NEW r \in Service, Start(r) \/ Connect(r) \/ Connected(r) PROVE Same \/ Mine
    <2>1. CASE r = p
      BY <1>4, <2>1
    <2>2. CASE r # p
      <3>1. UNCHANGED << sid, known >> /\ stage'[p] = stage[p]
        BY <1>0, <1>4, <2>2 DEF Start, Connect, Connected, tables
      <3> QED BY <3>1
    <2> QED BY <2>1, <2>2
  <1>5. ASSUME NEW r \in Service, RegisterBroadcast(r) PROVE Same \/ Mine
    <2>1. UNCHANGED << stage, sid >> /\ \A q \in Service : q # r => known'[q] = known[q]
      BY <1>5, RegisterBroadcastDoes
    <2> QED BY <1>5, <2>1
  <1>6. ASSUME NEW r \in Service, UnregisterBroadcast(r) PROVE Same \/ Mine
    <2>1. UNCHANGED << stage, sid >>
      BY <1>6 DEF UnregisterBroadcast
    <2>2. r # p => known'[p] = known[p]
      BY <1>0, <1>6 DEF UnregisterBroadcast
    <2> QED BY <1>6, <2>1, <2>2
  <1>7. ASSUME NEW r \in Service, Die(r) PROVE Same \/ Mine
    <2>1. Ends(r) /\ UNCHANGED sid
      BY <1>7 DEF Die
    <2>2. r # p => stage'[p] = stage[p] /\ known'[p] = known[p]
      BY <2>1, EndsDoes
    <2> QED BY <1>7, <2>1, <2>2
  <1>8. ASSUME NEW r \in Service, Registered(r) PROVE Same \/ Mine
    <2>1. CASE r = p
      BY <1>8, <2>1
    <2>2. CASE r # p
      <3>1. CASE Ends(r)
        <4>1. stage'[r] = "dead" /\ stage'[p] = stage[p] /\ known'[p] = known[p]
          BY <2>2, <3>1, EndsDoes
        <4>2. UNCHANGED sid
          BY <1>8, <4>1, RegisteredDoes
        <4> QED BY <4>1, <4>2
      <3>2. CASE ~Ends(r)
        <4>1. \A q \in Service : q # r => /\ stage'[q] = stage[q] /\ sid'[q] = sid[q]
                                          /\ known'[q] = known[q] /\ ids'[q] = ids[q]
          BY <1>8, <3>2, RegisteredDoes
        <4> QED BY <2>2, <4>1
      <3> QED BY <3>1, <3>2
    <2> QED BY <2>1, <2>2
  <1> HIDE DEF Same, Mine
  <1>9. Same \/ Mine
    BY <1>1, <1>2, <1>3, <1>4, <1>5, <1>6, <1>7, <1>8 DEF Next, NS, Process
  <1> QED BY <1>9 DEF Same, Mine

(* A process that waits for its identifier still has the answer.           *)
LEMMA AnswerStays ==
  ASSUME Inv, Inv', Passing, NEW p \in Service, NEW j \in SId, Has(p, j)',
         stage'[p] = "registering", NEW m \in Mail(p), m.type = "RG"
  PROVE  m \in Mail(p)'
PROOF
  <1>1. sid'[p] = 0
    BY DEF Inv, LifeInv
  <1>2. Granting(p, j)'
    BY <1>1, SIdNat DEF Has
  <1>3. PICK n \in Mail(p)' : n.type = "RG" /\ n.ok
    BY <1>2 DEF Granting
  <1>4. n \in Mail(p)
    BY <1>3 DEF Passing
  <1>5. n = m
    BY <1>3, <1>4, OneReply
  <1> QED BY <1>3, <1>5

(* The list that a process gets is then what it knows.                     *)
LEMMA RegisteredPrior ==
  ASSUME Inv, LastInv, NEW p \in Service, Registered(p), Alive(p)',
         NEW q \in Service, NEW k \in SId, Prior(p, q, k)
  PROVE  Prior(p, q, k)'
PROOF
  <1>1. stage[p] = "registering" /\ Arrived(p, "RG")
    BY RegisteredDoes
  <1>2. PICK m \in Mail(p) : Offers(m, q, k)
    BY <1>1 DEF Prior
  <1>3. /\ m.type = "RG" /\ m.ok /\ m.sid # k /\ m = Head(fromNS[p])
        /\ m.sid \in SId /\ m.list \in Seq(Entry)
    BY <1>2, OneReply, MessageFields DEF Offers
  <1>4. ~Ends(p)
    <2>1. Ends(p) => stage'[p] = "dead"
      BY EndsDoes
    <2> QED BY <2>1 DEF Alive
  <1>5. /\ stage'[p] = "registered" /\ sid'[p] = m.sid
        /\ known'[p] = [i \in DOMAIN m.list |-> [svc |-> m.list[i].svc, sid |-> m.list[i].sid]]
    BY <1>3, <1>4, RegisteredDoes
  <1>6. PICK i \in DOMAIN m.list : m.list[i].svc = q /\ m.list[i].sid = k
    BY <1>2 DEF Offers, Entries
  <1>7. known'[p][i] \in At(q, k) /\ i \in DOMAIN known'[p]
    BY <1>5, <1>6 DEF At
  <1>8. ASSUME NEW d \in DOMAIN known'[p], d < i PROVE known'[p][d] \notin Own(m.sid)
    <2>1. d \in DOMAIN m.list /\ known'[p][d].sid = m.list[d].sid
      BY <1>5, <1>8
    <2>2. m.list[d].sid = m.sid => i <= d
      BY <1>3, <1>6, <2>1 DEF LastInv
    <2>3. i \in Nat /\ d \in Nat
      <3>1. DOMAIN m.list = 1 .. Len(m.list)
        BY <1>3, LenProperties
      <3> QED BY <1>6, <2>1, <3>1
    <2>4. m.list[d].sid # m.sid
      BY <1>8, <2>2, <2>3
    <2> QED BY <2>1, <2>4 DEF Own
  <1>9. Early(known'[p], At(q, k), Own(sid'[p]))
    BY <1>5, <1>7, <1>8 DEF Early
  <1> QED BY <1>3, <1>5, <1>9 DEF Prior

(* A service that is new does not take the place of one that is before.    *)
LEMMA RegisterBroadcastPrior ==
  ASSUME Inv, OrderInv, NEW p \in Service, RegisterBroadcast(p),
         NEW q \in Service, NEW k \in SId, Prior(p, q, k)
  PROVE  Prior(p, q, k)'
PROOF
  <1>1. /\ Updates(p) /\ Arrived(p, "RGB") /\ UNCHANGED << stage, sid >>
        /\ fromNS' = [fromNS EXCEPT ![p] = Tail(@)]
    BY DEF RegisterBroadcast
  <1>2. stage[p] \in {"registered", "connecting"} /\ sid[p] # k
        /\ Early(known[p], At(q, k), Own(sid[p]))
    BY <1>1, PriorListed DEF Updates
  <1>3. PICK m \in FromNSMessage : m = Head(fromNS[p]) /\ m.type = "RGB"
    BY <1>1, Read
  <1>4. PICK c \in Service, i \in SId : c = m.svc /\ i = m.sid
    BY <1>3, MessageFields
  <1>5. i # k
    <2> SUFFICES ASSUME m.sid = k PROVE FALSE
      BY <1>4
    <2>1. Head(fromNS[p]) \in Calls(k)
      BY <1>3 DEF Calls
    <2>2. fromNS[p] \in Seq(FromNSMessage) /\ fromNS[p] # << >>
      BY <1>1, Vars DEF Inv, Arrived
    <2>3. Fresh(p, k)
      BY <2>1, <2>2, EarlyTail DEF Fresh
    <2> QED BY <2>3 DEF OrderInv, Cleared
  <1>6. known \in [Service -> Seq([svc : Service, sid : SId])]
    BY Vars DEF Inv
  <1>7. \/ known' = [known EXCEPT ![p] = [d \in DOMAIN @ |->
                       IF @[d].sid = i THEN [@[d] EXCEPT !.svc = c] ELSE @[d]]]
        \/ known' = [known EXCEPT ![p] = Add(@, c, i)]
    BY <1>3, <1>4 DEF RegisterBroadcast
  <1>8. Early(known'[p], At(q, k), Own(sid[p]))
    <2>1. CASE known' = [known EXCEPT ![p] = [d \in DOMAIN @ |->
                           IF @[d].sid = i THEN [@[d] EXCEPT !.svc = c] ELSE @[d]]]
      <3>1. known'[p] = [d \in DOMAIN known[p] |->
                           IF known[p][d].sid = i THEN [known[p][d] EXCEPT !.svc = c]
                           ELSE known[p][d]]
        BY <1>6, <2>1
      <3>2. PICK n \in DOMAIN known[p] :
              /\ known[p][n] \in At(q, k)
              /\ \A d \in DOMAIN known[p] : d < n => known[p][d] \notin Own(sid[p])
        BY <1>2 DEF Early
      <3>3. n \in DOMAIN known'[p] /\ known'[p][n] \in At(q, k)
        BY <1>5, <3>1, <3>2 DEF At
      <3>4. ASSUME NEW d \in DOMAIN known'[p], d < n PROVE known'[p][d] \notin Own(sid[p])
        <4>1. d \in DOMAIN known[p] /\ known[p][d] \in [svc : Service, sid : SId]
          <5>1. d \in DOMAIN known[p]
            BY <3>1
          <5>2. known[p] \in Seq([svc : Service, sid : SId])
            BY <1>6
          <5> QED BY <5>1, <5>2, EntriesType
        <4>2. known'[p][d].sid = known[p][d].sid
          BY <3>1, <4>1
        <4>3. known[p][d] \notin Own(sid[p])
          BY <3>2, <3>4, <4>1
        <4> QED BY <4>1, <4>2, <4>3 DEF Own
      <3> QED BY <3>3, <3>4 DEF Early
    <2>2. CASE known' = [known EXCEPT ![p] = Add(@, c, i)]
      <3>1. known'[p] = Append(known[p], [svc |-> c, sid |-> i])
        BY <1>6, <2>2 DEF Add
      <3>2. known[p] \in Seq([svc : Service, sid : SId])
        BY <1>6
      <3> QED BY <1>2, <3>1, <3>2, EarlyGrows
    <2> QED BY <1>7, <2>1, <2>2
  <1> QED BY <1>1, <1>2, <1>8 DEF Prior

(* Those that live are not taken away.                                     *)
LEMMA UnregisterBroadcastPrior ==
  ASSUME Inv, LinksInv, StillInv, NEW p \in Service, UnregisterBroadcast(p),
         NEW q \in Service, NEW k \in SId, Prior(p, q, k), Has(q, k)
  PROVE  Prior(p, q, k)'
PROOF
  <1>1. Updates(p) /\ UNCHANGED << stage, sid >>
    BY DEF UnregisterBroadcast
  <1>2. stage[p] \in {"registered", "connecting"} /\ sid[p] # k
        /\ Early(known[p], At(q, k), Own(sid[p]))
    BY <1>1, PriorListed DEF Updates
  <1>3. PICK i \in SId, peer \in Service \union {None} :
           /\ stage[p] \in {"registered", "running"} /\ Dropped(p, i)
           /\ UNCHANGED << stage, sid >>
           /\ Head(fromNS[p]).type = "UNB" /\ Head(fromNS[p]).sid = i
           /\ known'[p] = Without(known[p], i)
           /\ \A r \in Service : r # p => known'[r] = known[r]
           /\ peer = ids[p][i].peer
           /\ ids'[p][i].conn = "empty"
           /\ \A r \in Service, j \in SId : r # p \/ j # i => ids'[r][j] = ids[r][j]
           /\ \A c, s \in Service :
                \/ link'[c][s] = link[c][s]
                \/ /\ link[c][s] # "none" /\ link'[c][s] \in {"broken", "closed"}
                   /\ (c = p /\ s = peer) \/ (c = peer /\ s = p)
           /\ spoiled \subseteq spoiled'
           /\ peer \in Service /\ Alive(peer) => << peer, sid[p] >> \in spoiled'
    BY UnregisterBroadcastDoes
  <1>4. i # k
    BY <1>3 DEF StillInv
  <1>5. Early(known'[p], At(q, k), Own(sid[p]))
    <2> DEFINE found == {d \in DOMAIN known[p] : known[p][d].sid = i}
    <2>1. CASE found = {}
      BY <1>2, <1>3, <2>1 DEF Without
    <2>2. CASE found # {}
      <3>1. known'[p] = Kept(known[p], DOMAIN known[p] \ {Min(found)})
        BY <1>3, <2>2 DEF Without
      <3>2. known[p] \in Seq([svc : Service, sid : SId])
        BY Vars DEF Inv
      <3>3. Min(found) \in found
        <4>1. found \in SUBSET Nat
          BY <3>2, LenProperties
        <4> QED BY <2>2, <4>1, MinProperties
      <3>4. PICK d \in DOMAIN known[p] : d = Min(found) /\ known[p][d].sid = i
        BY <3>3
      <3> HIDE DEF found
      <3>5. known[p][d] \notin At(q, k)
        BY <1>4, <3>4 DEF At
      <3>6. \A n \in DOMAIN known[p] \ (DOMAIN known[p] \ {d}) : known[p][n] \notin At(q, k)
        BY <3>5
      <3> QED BY <1>2, <3>1, <3>2, <3>4, <3>6, EarlyThin
    <2> QED BY <2>1, <2>2
  <1> QED BY <1>1, <1>2, <1>5 DEF Prior

(* A process that is done is connected to those that were before it.       *)
LEMMA ConnectedPrior ==
  ASSUME Inv, StillInv, NEW p \in Service, Connected(p),
         NEW q \in Service, NEW k \in SId, Prior(p, q, k), Has(q, k)
  PROVE  link[p][q] # "none"
PROOF
  <1>1. stage[p] = "connecting" /\ ToConnect(p) = {}
    BY DEF Connected
  <1>2. sid[p] # k /\ Early(known[p], At(q, k), Own(sid[p]))
    BY <1>1, PriorListed
  <1>3. PICK i \in DOMAIN known[p] :
          /\ known[p][i] \in At(q, k)
          /\ \A d \in DOMAIN known[p] : d < i => known[p][d] \notin Own(sid[p])
    BY <1>2 DEF Early
  <1>4. known[p] \in Seq([svc : Service, sid : SId])
    BY Vars DEF Inv
  <1>5. DOMAIN known[p] = 1 .. Len(known[p]) /\ Len(known[p]) \in Nat
    BY <1>4, LenProperties
  <1>6. known[p][i].sid = k
    BY <1>3 DEF At
  <1>7. ASSUME NEW d \in 1 .. i PROVE known[p][d].sid # sid[p]
    <2>1. CASE d = i
      BY <1>2, <1>6, <2>1
    <2>2. CASE d # i
      <3>1. d \in DOMAIN known[p] /\ d < i
        BY <1>5, <2>2
      <3>2. known[p][d] \in [svc : Service, sid : SId] /\ known[p][d] \notin Own(sid[p])
        BY <1>3, <1>4, <3>1, EntriesType
      <3> QED BY <3>2 DEF Own
    <2> QED BY <2>1, <2>2
  <1>8. i \in Before(p)
    BY <1>7 DEF Before
  <1>9. ids[p][k].conn # "empty"
    BY <1>1, <1>6, <1>8 DEF ToConnect
  <1> QED BY <1>1, <1>9 DEF StillInv

(* One that is before a process, and lives, stays so until they are        *)
(* connected, or the process is left alone by the naming service.          *)
LEMMA PriorGoes ==
  ASSUME Inv, Inv', OrderInv, LinksInv, LastInv, StillInv, [Next]_vars, Passing,
         NEW p \in Service, NEW j \in SId, Has(p, j), Has(p, j)',
         NEW q \in Service, NEW k \in SId, Has(q, k), Prior(p, q, k)
  PROVE  \/ Prior(p, q, k)'
         \/ link[p][q] # "none"
         \/ /\ \A r \in Service : << r, j >> \in spoiled'
            /\ \A i \in SId : << p, i >> \in spoiled'
PROOF
  <1>0. /\ stage \in [Service -> {"off", "registering", "registered", "connecting", "running",
                                  "dead"}]
        /\ Alive(p) /\ Alive(p)'
    BY Vars DEF Inv, Has
  <1>1. CASE stage'[p] = stage[p] /\ sid'[p] = sid[p] /\ known'[p] = known[p]
    <2>1. CASE stage[p] = "registering"
      <3>1. PICK m \in Mail(p) : Offers(m, q, k)
        BY <2>1 DEF Prior
      <3>2. m \in Mail(p)'
        BY <1>1, <2>1, <3>1, AnswerStays DEF Offers
      <3> QED BY <3>1, <3>2 DEF Prior
    <2>2. CASE stage[p] # "registering"
      <3>1. stage[p] \in {"registered", "connecting"} /\ sid[p] # k
            /\ Early(known[p], At(q, k), Own(sid[p]))
        BY <2>2, PriorListed
      <3> QED BY <1>1, <3>1 DEF Prior
    <2> QED BY <2>1, <2>2
  <1>2. CASE Registered(p)
    BY <1>0, <1>2, RegisteredPrior
  <1>3. CASE RegisterBroadcast(p)
    BY <1>3, RegisterBroadcastPrior
  <1>4. CASE UnregisterBroadcast(p)
    BY <1>4, UnregisterBroadcastPrior
  <1>5. CASE Connected(p)
    BY <1>5, ConnectedPrior
  <1>6. CASE Connect(p)
    <2>1. stage[p] = "registered" /\ UNCHANGED << sid, known >>
      BY <1>6 DEF Connect, tables
    <2>2. stage[p] \in {"registered", "connecting"} /\ sid[p] # k
          /\ Early(known[p], At(q, k), Own(sid[p]))
      BY <2>1, PriorListed
    <2>3. CASE cnx[p] # "none"
      <3>1. stage'[p] = "connecting"
        BY <1>0, <1>6, <2>3 DEF Connect
      <3> QED BY <2>1, <2>2, <3>1 DEF Prior
    <2>4. CASE cnx[p] = "none"
      <3>1. spoiled' = spoiled \union ({p} \X SId) \union (Service \X {sid[p]})
        BY <1>6, <2>4 DEF Connect
      <3>2. sid[p] = j
        <4>1. ~Granting(p, j)
          BY <2>1 DEF Granting, Inv, LifeInv
        <4> QED BY <4>1 DEF Has
      <3> QED BY <3>1, <3>2
    <2> QED BY <2>3, <2>4
  <1>7. CASE Start(p)
    <2>1. stage[p] = "off"
      BY <1>7 DEF Start
    <2> QED BY <1>0, <2>1 DEF Alive
  <1>8. CASE Die(p)
    <2>1. stage'[p] = "dead"
      BY <1>8, EndsDoes DEF Die
    <2> QED BY <1>0, <2>1 DEF Alive
  <1> QED BY <1>1, <1>2, <1>3, <1>4, <1>5, <1>6, <1>7, <1>8, ListHow

(* The two who are met when one gets its identifier.                       *)
LEMMA AcceptMeet ==
  ASSUME Inv, MeetInv, NEW s \in Service, NSAccept(s)
  PROVE  MeetInv'
PROOF
  <1> SUFFICES ASSUME NEW p \in Service, NEW q \in Service, NEW j \in SId, NEW k \in SId,
                      p # q, Has(p, j)', Has(q, k)', Clean(p, k)'
               PROVE  \/ Prior(p, q, k)' \/ Prior(q, p, j)'
                      \/ link'[p][q] # "none" \/ link'[q][p] # "none"
    BY DEF MeetInv
  <1>1. CASE p = s
    BY <1>1, AcceptOffers
  <1>2. CASE q = s
    BY <1>2, AcceptOffers
  <1>3. CASE p # s /\ q # s
    <2>1. PICK i \in SId, rg \in FromNSMessage :
           /\ Posted(s, "RG")
           /\ \A e \in Entries(registry) : e.sid # i
           /\ rg.type = "RG" /\ rg.ok /\ rg.sid = i
           /\ rg.list = Accessible(Register(registry, s, i))
           /\ Mail(s)' \subseteq {rg}
           /\ \A r \in Service : r # s => /\ Mail(r) \subseteq Mail(r)'
                                          /\ \A m \in Mail(r)' \ Mail(r) : m.type = "RGB"
           /\ \A r \in Service, l \in SId : r # s => (Granting(r, l)' <=> Granting(r, l))
           /\ UNCHANGED << stage, sid, tables, link, spoiled >>
      BY AcceptGives
    <2>2. Has(p, j) /\ Has(q, k) /\ Clean(p, k)
      BY <1>3, <2>1 DEF Has, Alive, Clean
    <2>3. \/ Prior(p, q, k) \/ Prior(q, p, j) \/ link[p][q] # "none" \/ link[q][p] # "none"
      BY <2>2 DEF MeetInv
    <2>4. UNCHANGED << stage, sid, known, link >> /\ Mail(p) \subseteq Mail(p)'
          /\ Mail(q) \subseteq Mail(q)'
      BY <1>3, <2>1 DEF tables
    <2>5. Prior(p, q, k) => Prior(p, q, k)'
      BY <2>4 DEF Prior
    <2>6. Prior(q, p, j) => Prior(q, p, j)'
      BY <2>4 DEF Prior
    <2> QED BY <2>3, <2>4, <2>5, <2>6
  <1> QED BY <1>1, <1>2, <1>3

(* Those who have met do not part, but by a fault.                         *)
LEMMA MeetNext ==
  ASSUME Inv, Inv', OrderInv, LinksInv, LastInv, StillInv, MeetInv, [Next]_vars
  PROVE  MeetInv'
PROOF
  <1>1. CASE Passing
    <2> SUFFICES ASSUME NEW p \in Service, NEW q \in Service, NEW j \in SId, NEW k \in SId,
                        p # q, Has(p, j)', Has(q, k)', Clean(p, k)'
                 PROVE  \/ Prior(p, q, k)' \/ Prior(q, p, j)'
                        \/ link'[p][q] # "none" \/ link'[q][p] # "none"
      BY DEF MeetInv
    <2>1. Steady
      BY SteadyNext
    <2>2. Has(p, j) /\ Has(q, k)
      BY <1>1 DEF Passing
    <2>3. Clean(p, k)
      BY <2>1 DEF Steady, Clean
    <2>4. \/ Prior(p, q, k) \/ Prior(q, p, j) \/ link[p][q] # "none" \/ link[q][p] # "none"
      BY <2>2, <2>3 DEF MeetInv
    <2>5. CASE link[p][q] # "none" \/ link[q][p] # "none"
      BY <2>1, <2>5 DEF Steady
    <2>6. CASE Prior(p, q, k)
      <3>1. \/ Prior(p, q, k)'
            \/ link[p][q] # "none"
            \/ /\ \A r \in Service : << r, j >> \in spoiled'
               /\ \A i \in SId : << p, i >> \in spoiled'
        BY <1>1, <2>2, <2>6, PriorGoes
      <3> QED BY <2>5, <3>1 DEF Clean
    <2>7. CASE Prior(q, p, j)
      <3>1. \/ Prior(q, p, j)'
            \/ link[q][p] # "none"
            \/ /\ \A r \in Service : << r, k >> \in spoiled'
               /\ \A i \in SId : << q, i >> \in spoiled'
        BY <1>1, <2>2, <2>7, PriorGoes
      <3> QED BY <2>5, <3>1 DEF Clean
    <2> QED BY <2>4, <2>5, <2>6, <2>7
  <1>2. ASSUME NEW s \in Service, NSAccept(s) PROVE MeetInv'
    BY <1>2, AcceptMeet
  <1> QED BY <1>1, <1>2, PassingNext

-----------------------------------------------------------------------------
(* What a connection is to the process that has it.                        *)

(* The connection between p and q, which has k, is in the entry of p that  *)
(* has k: at once if p opened it, and else once q said who it is.          *)
Joined(p, q, k) ==
  /\ link[p][q] # "none" =>
       link[p][q] \in {"ident", "up"} /\ ids[p][k].conn = "client" /\ ids[p][k].peer = q
  /\ link[q][p] # "none" =>
       \/ link[q][p] = "ident"
       \/ link[q][p] = "up" /\ ids[p][k].conn = "server" /\ ids[p][k].peer = q

JoinedInv ==
  \A p, q \in Service, k \in SId : Alive(p) /\ Has(q, k) /\ Clean(p, k) => Joined(p, q, k)

(* Neither the connection nor the entry changes.                           *)
LEMMA JoinedStays ==
  ASSUME JoinedInv, NEW p \in Service, NEW q \in Service, NEW k \in SId,
         Alive(p), Has(q, k), Clean(p, k),
         link'[p][q] = link[p][q], link'[q][p] = link[q][p],
         \/ ids'[p][k] = ids[p][k]
         \/ ids[p][k].conn = "empty" /\ ids'[p][k].conn = "empty"
  PROVE  Joined(p, q, k)'
PROOF
  <1>1. Joined(p, q, k)
    BY DEF JoinedInv
  <1> QED BY <1>1 DEF Joined

(* Two processes do not connect to each other, nor one to itself.          *)
LEMMA Unlinked ==
  ASSUME LinksInv, NEW p \in Service, NEW q \in Service,
         link[p][q] # "none"
  PROVE  p # q /\ link[q][p] = "none"
PROOF
  <1>1. link[q][p] = "none"
    BY DEF LinksInv, OpenInv
  <1> QED BY <1>1

(* One that starts, or that gets its identifier, has no connection.        *)
LEMMA NamingJoined ==
  ASSUME Inv, LinksInv, JoinedInv, NEW r \in Service, NSAccept(r) \/ Start(r),
         NEW p \in Service, NEW q \in Service, NEW k \in SId,
         Alive(p)', Has(q, k)', Clean(p, k)'
  PROVE  Joined(p, q, k)'
PROOF
  <1>1. UNCHANGED << tables, link, spoiled >>
    BY DEF NSAccept, Start
  <1>2. UNCHANGED << ids, link, spoiled >>
    BY <1>1 DEF tables
  <1>3. CASE NSAccept(r)
    <2>1. PICK i \in SId, rg \in FromNSMessage :
           /\ Posted(r, "RG")
           /\ \A e \in Entries(registry) : e.sid # i
           /\ rg.type = "RG" /\ rg.ok /\ rg.sid = i
           /\ rg.list = Accessible(Register(registry, r, i))
           /\ Mail(r)' \subseteq {rg}
           /\ \A s \in Service : s # r => /\ Mail(s) \subseteq Mail(s)'
                                          /\ \A m \in Mail(s)' \ Mail(s) : m.type = "RGB"
           /\ \A s \in Service, l \in SId : s # r => (Granting(s, l)' <=> Granting(s, l))
           /\ UNCHANGED << stage, sid, tables, link, spoiled >>
      BY <1>3, AcceptGives
    <2>2. CASE q = r
      <3>1. stage[r] = "registering"
        BY <2>1, <2>2, Asking DEF Has, Alive
      <3>2. link[p][q] = "none" /\ link[q][p] = "none"
        BY <2>1, <2>2, <3>1 DEF LinksInv, OpenInv
      <3> QED BY <1>2, <3>2 DEF Joined
    <2>3. CASE q # r
      <3>1. Alive(p) /\ Has(q, k) /\ Clean(p, k)
        BY <2>1, <2>3 DEF Has, Alive, Clean
      <3> QED BY <1>2, <3>1, JoinedStays
    <2> QED BY <2>2, <2>3
  <1>4. CASE Start(r)
    <2>1. Has(q, k)
      <3>1. Passing
        BY <1>4, LifePassing
      <3> QED BY <3>1 DEF Passing
    <2>2. stage' = [stage EXCEPT ![r] = "registering"] /\ stage[r] = "off"
      BY <1>4 DEF Start
    <2>3. CASE p = r
      <3>1. link[p][q] = "none" /\ link[q][p] = "none"
        BY <2>2, <2>3 DEF LinksInv, OpenInv
      <3> QED BY <1>2, <3>1 DEF Joined
    <2>4. CASE p # r
      <3>1. stage'[p] = stage[p]
        BY <2>2, <2>4, Vars DEF Inv
      <3>2. Alive(p) /\ Clean(p, k)
        BY <1>2, <3>1 DEF Alive, Clean
      <3> QED BY <1>2, <2>1, <3>2, JoinedStays
    <2> QED BY <2>3, <2>4
  <1> QED BY <1>3, <1>4

(* Who is told that a service died closes the connection to that one, and  *)
(* to no other: if it lives, its peer is given up.                         *)
LEMMA UnregisterBroadcastJoined ==
  ASSUME Inv, LinksInv, JoinedInv, NEW r \in Service, UnregisterBroadcast(r),
         NEW p \in Service, NEW q \in Service, NEW k \in SId,
         Alive(p), Has(q, k), Clean(p, k), Clean(p, k)'
  PROVE  Joined(p, q, k)'
PROOF
  <1>1. PICK i \in SId, peer \in Service \union {None} :
           /\ stage[r] \in {"registered", "running"} /\ Dropped(r, i)
           /\ UNCHANGED << stage, sid >>
           /\ Head(fromNS[r]).type = "UNB" /\ Head(fromNS[r]).sid = i
           /\ known'[r] = Without(known[r], i)
           /\ \A s \in Service : s # r => known'[s] = known[s]
           /\ peer = ids[r][i].peer
           /\ ids'[r][i].conn = "empty"
           /\ \A s \in Service, j \in SId : s # r \/ j # i => ids'[s][j] = ids[s][j]
           /\ \A c, s \in Service :
                \/ link'[c][s] = link[c][s]
                \/ /\ link[c][s] # "none" /\ link'[c][s] \in {"broken", "closed"}
                   /\ (c = r /\ s = peer) \/ (c = peer /\ s = r)
           /\ spoiled \subseteq spoiled'
           /\ peer \in Service /\ Alive(peer) => << peer, sid[r] >> \in spoiled'
    BY UnregisterBroadcastDoes
  <1>2. /\ Owner(q, k) /\ Alive(q)
        /\ \A j \in SId : Trace(q, j) => j = k
    BY HasOwns
  <1>3. ~(p = r /\ k = i)
    <2> SUFFICES ASSUME Dropped(p, k) PROVE FALSE
      BY <1>1
    <2>1. Awaited(p, k)
      BY DEF Inv, AckInv
    <2>2. PICK e \in Entries(registry) : e.waiting /\ e.sid = k
      BY <2>1 DEF Awaited
    <2> QED BY <1>2, <2>2, WaitingIsDead
  <1>4. ids'[p][k] = ids[p][k]
    BY <1>1, <1>3
  <1>5. ~(p = r /\ q = peer)
    <2> SUFFICES ASSUME p = r, q = peer PROVE FALSE
      OBVIOUS
    <2>1. Mentions(p, q, i)
      BY <1>1 DEF Mentions
    <2>2. Trace(q, i)
      BY <2>1 DEF Trace
    <2> QED BY <1>2, <1>3, <2>2
  <1>6. ~(q = r /\ p = peer)
    <2> SUFFICES ASSUME q = r, p = peer PROVE FALSE
      OBVIOUS
    <2>1. << p, sid[q] >> \in spoiled'
      BY <1>1
    <2>2. ~Granting(q, k)
      BY <1>1 DEF Granting, Inv, LifeInv
    <2>3. sid[q] = k
      BY <2>2 DEF Has
    <2> QED BY <2>1, <2>3 DEF Clean
  <1>7. link'[p][q] = link[p][q] /\ link'[q][p] = link[q][p]
    BY <1>1, <1>5, <1>6
  <1> QED BY <1>4, <1>7, JoinedStays

(* A process connects to the one that has the identifier.                  *)
LEMMA AddServiceJoined ==
  ASSUME Inv, OrderInv, LinksInv, JoinedInv, NEW c \in Service, AddService(c),
         NEW p \in Service, NEW q \in Service, NEW k \in SId,
         Alive(p), Has(q, k), Clean(p, k)
  PROVE  Joined(p, q, k)'
PROOF
  <1>1. PICK r \in Service, j \in SId :
           /\ stage[c] = "connecting"
           /\ Prior(c, r, j) /\ j # sid[c] /\ Listed(c, r, j)
           /\ \E i \in ToConnect(c) : r = known[c][i].svc /\ j = known[c][i].sid
           /\ ids[c][j].conn = "empty"
           /\ UNCHANGED << fromNS, stage, sid, known, spoiled >>
           /\ \A s \in Service, i \in SId : s # c \/ i # j => ids'[s][i] = ids[s][i]
           /\ IF Alive(r)
                THEN /\ ids'[c][j].conn = "client" /\ ids'[c][j].peer = r
                     /\ link'[c][r] = "ident"
                     /\ \A s, t \in Service : s # c \/ t # r => link'[s][t] = link[s][t]
                ELSE ids'[c][j].conn = "invalid" /\ link' = link
    BY AddServiceDoes
  <1>2. /\ Alive(q)
        /\ \A i \in SId : Trace(q, i) => i = k
        /\ \A s \in Service : Owner(s, k) => s = q
    BY HasOwns
  <1>3. \A s, t \in Service : s # c \/ t # r => link'[s][t] = link[s][t]
    BY <1>1
  <1>4. Mentions(c, r, j) /\ Trace(r, j)
    <2>1. Mentions(c, r, j)
      BY <1>1, PriorMentions
    <2> QED BY <2>1 DEF Trace
  <1>5. r = q => j = k
    BY <1>2, <1>4
  <1>6. CASE p = c /\ k = j
    <2>1. Owner(r, k)
      BY <1>4, <1>6 DEF Inv, MentionInv
    <2>2. r = q
      BY <1>2, <2>1
    <2>3. ids'[p][k].conn = "client" /\ ids'[p][k].peer = q /\ link'[p][q] = "ident"
      BY <1>1, <1>2, <1>6, <2>2
    <2>4. Prior(p, q, k)
      BY <1>1, <1>6, <2>2
    <2>5. link[q][p] = "none"
      BY <2>4 DEF LinksInv, OpenInv
    <2>6. p # q
      BY <2>4 DEF OrderInv, AntiInv
    <2>7. link'[q][p] = "none"
      BY <1>3, <1>6, <2>5, <2>6
    <2> QED BY <2>3, <2>7 DEF Joined
  <1>7. CASE p = c /\ k # j
    <2>1. r # q
      BY <1>5, <1>7
    <2>2. link'[p][q] = link[p][q] /\ link'[q][p] = link[q][p]
      BY <1>3, <1>7, <2>1
    <2>3. ids'[p][k] = ids[p][k]
      BY <1>1, <1>7
    <2> QED BY <2>2, <2>3, JoinedStays
  <1>8. CASE p # c
    <2>1. ids'[p][k] = ids[p][k] /\ link'[p][q] = link[p][q]
      BY <1>1, <1>3, <1>8
    <2>2. link'[q][p] = link[q][p] \/ link'[q][p] = "ident"
      BY <1>1, <1>3
    <2>3. Joined(p, q, k)
      BY DEF JoinedInv
    <2> QED BY <2>1, <2>2, <2>3 DEF Joined
  <1> QED BY <1>6, <1>7, <1>8

(* Who says that it has an identifier has it, or is dead and was unknown.  *)
LEMMA IdentificationJoined ==
  ASSUME Inv, LinksInv, JoinedInv, NEW s \in Service, NEW c \in Service,
         ServiceIdentification(s, c),
         NEW p \in Service, NEW q \in Service, NEW k \in SId,
         Alive(p), Has(q, k), Clean(p, k), Clean(p, k)'
  PROVE  Joined(p, q, k)'
PROOF
  <1>1. /\ stage[s] = "running" /\ link[c][s] \in {"ident", "gone"} /\ sid[c] \in SId
        /\ UNCHANGED << fromNS, stage, sid, known >>
        /\ \A r \in Service, j \in SId : r # s \/ j # sid[c] => ids'[r][j] = ids[r][j]
        /\ ids'[s][sid[c]].conn = "server" /\ ids'[s][sid[c]].peer = c
        /\ \A t, r \in Service : t # c \/ r # s => link'[t][r] = link[t][r]
        /\ link[c][s] = "ident" => link'[c][s] = "up"
        /\ link[c][s] = "gone" => link'[c][s] = "broken"
        /\ spoiled \subseteq spoiled'
        /\ link[c][s] = "gone" /\ Late(s, c) => << s, sid[c] >> \in spoiled'
    BY IdentificationDoes
  <1>2. /\ Alive(q)
        /\ \A i \in SId : Trace(q, i) => i = k
        /\ \A r \in Service : Owner(r, k) => r = q
    BY HasOwns
  <1>3. link[c][s] # "none" /\ c # s /\ link[s][c] = "none"
    BY <1>1, Unlinked
  <1>4. Joined(p, q, k)
    BY DEF JoinedInv
  <1>5. CASE p = s /\ q = c
    <2>1. sid[c] = k
      BY <1>1, <1>2, <1>5 DEF Trace
    <2>2. link[c][s] = "ident"
      BY <1>1, <1>4, <1>5 DEF Joined
    <2>3. link'[s][c] = "none"
      BY <1>1, <1>3
    <2> QED BY <1>1, <1>5, <2>1, <2>2, <2>3 DEF Joined
  <1>6. CASE p = s /\ q # c
    <2>1. link'[p][q] = link[p][q] /\ link'[q][p] = link[q][p]
      BY <1>1, <1>3, <1>6
    <2>2. sid[c] # k
      <3> SUFFICES ASSUME sid[c] = k PROVE FALSE
        OBVIOUS
      <3>1. ~Owner(c, k)
        BY <1>2, <1>6
      <3>2. link[c][s] = "gone"
        <4>1. ~Alive(c)
          BY <3>1 DEF Owner
        <4>2. link[c][s] # "ident"
          BY <4>1 DEF Inv, LinkInv
        <4> QED BY <1>1, <4>2
      <3>3. ~Late(s, c)
        BY <1>1, <1>6, <3>2 DEF Clean
      <3>4. \E j \in SId : Mentions(s, c, j)
        <4>1. CASE \E i \in DOMAIN known[s] : known[s][i].svc = c
          <5>1. PICK i \in DOMAIN known[s] : known[s][i].svc = c
            BY <4>1
          <5>2. known[s][i].sid \in SId
            BY <5>1, KnownType
          <5>3. Listed(s, c, known[s][i].sid)
            BY <5>1 DEF Listed, Entries
          <5> QED BY <5>2, <5>3 DEF Mentions, Noted
        <4>2. CASE \E i \in DOMAIN fromNS[s] : fromNS[s][i].type = "RGB" /\ fromNS[s][i].svc = c
          <5>1. PICK i \in DOMAIN fromNS[s] : fromNS[s][i].type = "RGB" /\ fromNS[s][i].svc = c
            BY <4>2
          <5>2. PICK m \in Mail(s) : m = fromNS[s][i]
            BY <5>1 DEF Mail, Entries
          <5>3. m \in FromNSMessage
            BY <5>2, Messages DEF Inv
          <5>4. m.sid \in SId /\ m.type = "RGB" /\ m.svc = c
            BY <5>1, <5>2, <5>3, MessageFields
          <5>5. Tells(m, c, m.sid)
            BY <5>4 DEF Tells
          <5> QED BY <5>2, <5>4, <5>5 DEF Mentions, Told
        <4> QED BY <3>3, <4>1, <4>2 DEF Late
      <3>5. PICK j \in SId : Mentions(s, c, j)
        BY <3>4
      <3>6. j = k
        <4>1. Trace(c, j) /\ Trace(c, k)
          BY <3>5 DEF Trace
        <4> QED BY <4>1 DEF Inv, TraceInv
      <3>7. Owner(c, k)
        BY <1>6, <3>5, <3>6 DEF Inv, MentionInv
      <3> QED BY <3>1, <3>7
    <2>3. ids'[p][k] = ids[p][k]
      BY <1>1, <2>2
    <2> QED BY <2>1, <2>3, JoinedStays
  <1>7. CASE p # s
    <2>1. ids'[p][k] = ids[p][k] /\ link'[q][p] = link[q][p]
      BY <1>1, <1>7
    <2>2. CASE p = c /\ q = s
      <3>1. link[p][q] = "ident"
        BY <1>1, <1>4, <2>2 DEF Joined
      <3>2. link'[p][q] = "up"
        BY <1>1, <2>2, <3>1
      <3> QED BY <1>4, <2>1, <3>1, <3>2 DEF Joined
    <2>3. CASE ~(p = c /\ q = s)
      <3>1. link'[p][q] = link[p][q]
        BY <1>1, <2>3
      <3> QED BY <2>1, <3>1, JoinedStays
    <2> QED BY <2>2, <2>3
  <1> QED BY <1>5, <1>6, <1>7

(* A connection that is lost is not one between two processes that live.   *)
LEMMA LostJoined ==
  ASSUME Inv, LinksInv, JoinedInv, NEW s \in Service, NEW t \in Service,
         NEW a \in Service, NEW b \in Service,
         (a = s /\ b = t /\ ServerLost(s, t)) \/ (a = t /\ b = s /\ ClientLost(s, t)),
         NEW p \in Service, NEW q \in Service, NEW k \in SId,
         Alive(p), Has(q, k), Clean(p, k)
  PROVE  Joined(p, q, k)'
PROOF
  <1>1. /\ stage[s] = "running" /\ link[a][b] = "broken"
        /\ UNCHANGED << fromNS, stage, sid, known, spoiled >>
        /\ \A r, u \in Service : link'[r][u] = IF r = a /\ u = b THEN "closed" ELSE link[r][u]
        /\ \A r \in Service, j \in SId :
             \/ ids'[r][j] = ids[r][j]
             \/ r = s /\ a = t /\ b = s /\ ids[s][j].peer = t
    BY LostDoes
  <1>2. Joined(p, q, k)
    BY DEF JoinedInv
  <1>3. ~(p = a /\ q = b) /\ ~(p = b /\ q = a)
    BY <1>1, <1>2 DEF Joined
  <1>4. link'[p][q] = link[p][q] /\ link'[q][p] = link[q][p]
    BY <1>1, <1>3
  <1>5. ids'[p][k] = ids[p][k]
    <2> SUFFICES ASSUME p = s, a = t, b = s, ids[s][k].peer = t PROVE FALSE
      BY <1>1
    <2>1. Mentions(p, t, k)
      BY DEF Mentions
    <2>2. Owner(t, k)
      BY <2>1 DEF Inv, MentionInv
    <2>3. t = q
      BY <2>2, HasOwns
    <2> QED BY <1>3, <2>3
  <1> QED BY <1>4, <1>5, JoinedStays

(* When a process ends, nothing changes between the others.                *)
LEMMA EndsJoined ==
  ASSUME Inv, JoinedInv, NEW r \in Service, Ends(r), UNCHANGED sid,
         NEW p \in Service, NEW q \in Service, NEW k \in SId,
         Alive(p)', Has(q, k)', Clean(p, k)
  PROVE  Joined(p, q, k)'
PROOF
  <1>1. /\ stage'[r] = "dead"
        /\ \A s \in Service : s # r => /\ stage'[s] = stage[s] /\ fromNS'[s] = fromNS[s]
                                       /\ known'[s] = known[s] /\ ids'[s] = ids[s]
        /\ \A c, s \in Service : /\ link'[c][s] = "none" <=> link[c][s] = "none"
                                 /\ r \notin {c, s} => link'[c][s] = link[c][s]
    BY EndsDoes
  <1>2. p # r /\ q # r
    BY <1>1 DEF Has, Alive
  <1>3. Has(q, k)
    <2>1. Passing
      BY LifePassing
    <2> QED BY <2>1 DEF Passing
  <1>4. Alive(p)
    BY <1>1, <1>2 DEF Alive
  <1>5. ids'[p][k] = ids[p][k] /\ link'[p][q] = link[p][q] /\ link'[q][p] = link[q][p]
    BY <1>1, <1>2
  <1> QED BY <1>3, <1>4, <1>5, JoinedStays

(* What two processes are to each other stays so.                          *)
LEMMA JoinedNext ==
  ASSUME Inv, OrderInv, LinksInv, JoinedInv, [Next]_vars
  PROVE  JoinedInv'
PROOF
  <1> SUFFICES ASSUME NEW p \in Service, NEW q \in Service, NEW k \in SId,
                      Alive(p)', Has(q, k)', Clean(p, k)'
               PROVE  Joined(p, q, k)'
    BY DEF JoinedInv
  <1>1. Clean(p, k)
    <2>1. spoiled \subseteq spoiled'
      BY SteadyNext DEF Steady
    <2> QED BY <2>1 DEF Clean
  <1>2. ASSUME NEW r \in Service, NSAccept(r) \/ Start(r) PROVE Joined(p, q, k)'
    BY <1>2, NamingJoined
  <1>3. ASSUME NEW r \in Service, Ends(r), UNCHANGED sid PROVE Joined(p, q, k)'
    BY <1>1, <1>3, EndsJoined
  <1>4. Alive(p) \/ Start(p)
    <2>1. \/ stage'[p] = stage[p] /\ sid'[p] = sid[p] /\ known'[p] = known[p]
          \/ Start(p) \/ Registered(p) \/ RegisterBroadcast(p) \/ UnregisterBroadcast(p)
          \/ Connect(p) \/ Connected(p) \/ Die(p)
      BY ListHow
    <2>2. stage'[p] = stage[p] => Alive(p)
      BY DEF Alive
    <2>3. Registered(p) \/ RegisterBroadcast(p) \/ UnregisterBroadcast(p) \/ Connect(p)
          \/ Connected(p) \/ Die(p) => Alive(p)
      BY DEF Registered, RegisterBroadcast, UnregisterBroadcast, Updates, Connect, Connected, Die,
         Alive
    <2> QED BY <2>1, <2>2, <2>3
  <1>5. Has(q, k) \/ \E r \in Service : NSAccept(r)
    BY PassingNext DEF Passing
  <1>6. CASE \E r \in Service : NSAccept(r) \/ Start(r)
    BY <1>2, <1>6
  <1>7. CASE ~ \E r \in Service : NSAccept(r) \/ Start(r)
    <2>1. Alive(p) /\ Has(q, k)
      BY <1>4, <1>5, <1>7
    <2>2. ASSUME UNCHANGED << tables, link >> PROVE Joined(p, q, k)'
      <3>1. UNCHANGED << ids, link >>
        BY <2>2 DEF tables
      <3> QED BY <1>1, <2>1, <3>1, JoinedStays
    <2>3. ASSUME \/ \E r \in Service :
                      \/ NSRefuse(r) \/ NSResend(r) \/ NSAck(r) \/ NSDisconnect(r)
                      \/ NoticeNS(r) \/ Connect(r) \/ Connected(r) \/ Reconnect(r)
                 \/ NSUpdate \/ NSTimeout \/ NSCrash \/ NSRestart
                 \/ UNCHANGED vars
          PROVE  Joined(p, q, k)'
      <3>1. UNCHANGED << tables, link >>
        BY <2>3 DEF NSRefuse, NSResend, NSAck, NSDisconnect, NoticeNS, Connect, Connected,
           Reconnect, NSUpdate, NSTimeout, NSCrash, NSRestart, vars
      <3> QED BY <2>2, <3>1
    <2>4. ASSUME NEW r \in Service, Registered(r) PROVE Joined(p, q, k)'
      <3>1. CASE Ends(r)
        <4>1. UNCHANGED sid
          <5>1. stage'[r] = "dead"
            BY <3>1, EndsDoes
          <5> QED BY <2>4, <5>1, RegisteredDoes
        <4> QED BY <1>3, <3>1, <4>1
      <3>2. CASE ~Ends(r)
        <4>1. /\ \A s \in Service : s # r => /\ stage'[s] = stage[s] /\ sid'[s] = sid[s]
                                             /\ known'[s] = known[s] /\ ids'[s] = ids[s]
              /\ \A i \in SId : ids'[r][i].conn = "empty"
              /\ \A i \in SId : ids[r][i].conn = "empty"
              /\ UNCHANGED link
          BY <2>4, <3>2, RegisteredDoes
        <4>2. \/ ids'[p][k] = ids[p][k]
              \/ ids[p][k].conn = "empty" /\ ids'[p][k].conn = "empty"
          BY <4>1
        <4> QED BY <1>1, <2>1, <4>1, <4>2, JoinedStays
      <3> QED BY <3>1, <3>2
    <2>5. ASSUME NEW r \in Service, Die(r) PROVE Joined(p, q, k)'
      BY <1>3, <2>5 DEF Die
    <2>6. ASSUME NEW r \in Service, RegisterBroadcast(r) PROVE Joined(p, q, k)'
      <3>1. /\ UNCHANGED link
            /\ \/ ids'[p][k] = ids[p][k]
               \/ ids[p][k].conn = "empty" /\ ids'[p][k].conn = "empty"
        BY <2>6, RegisterBroadcastDoes
      <3> QED BY <1>1, <2>1, <3>1, JoinedStays
    <2>7. ASSUME NEW r \in Service, UnregisterBroadcast(r) PROVE Joined(p, q, k)'
      BY <1>1, <2>1, <2>7, UnregisterBroadcastJoined
    <2>8. ASSUME NEW r \in Service, AddService(r) PROVE Joined(p, q, k)'
      BY <1>1, <2>1, <2>8, AddServiceJoined
    <2>9. ASSUME NEW r \in Service, NEW c \in Service, ServiceIdentification(r, c)
          PROVE  Joined(p, q, k)'
      BY <1>1, <2>1, <2>9, IdentificationJoined
    <2>10. ASSUME NEW s \in Service, NEW t \in Service, ServerLost(s, t) \/ ClientLost(s, t)
           PROVE  Joined(p, q, k)'
      <3>1. CASE ServerLost(s, t)
        BY <1>1, <2>1, <3>1, LostJoined
      <3>2. CASE ClientLost(s, t)
        BY <1>1, <2>1, <3>2, LostJoined
      <3> QED BY <2>10, <3>1, <3>2
    <2> QED BY <1>7, <2>3, <2>4, <2>5, <2>6, <2>7, <2>8, <2>9, <2>10 DEF Next, NS, Process
  <1> QED BY <1>6, <1>7

-----------------------------------------------------------------------------
(* What is left when nothing is under way.                                 *)

(* The invariant that says which services are connected, and how.          *)
ConnectInv ==
  /\ AwaitInv
  /\ LastInv
  /\ BareInv
  /\ StillInv
  /\ MeetInv
  /\ JoinedInv

(* No process runs at first.                                               *)
LEMMA InitConnect == Init => ConnectInv
PROOF
  <1> SUFFICES ASSUME Init PROVE ConnectInv
    OBVIOUS
  <1>1. /\ registry = << >>
        /\ fromNS = [p \in Service |-> << >>]
        /\ stage = [p \in Service |-> "off"]
    BY DEF Init
  <1>2. \A p \in Service : Mail(p) = {} /\ ~Alive(p) /\ stage[p] = "off"
    BY <1>1, EntriesEmpty DEF Mail, Entries, Alive
  <1>3. AwaitInv
    BY <1>1 DEF AwaitInv, Entries
  <1>4. LastInv /\ BareInv
    BY <1>2 DEF LastInv, BareInv
  <1>5. StillInv /\ MeetInv /\ JoinedInv
    BY <1>2 DEF StillInv, MeetInv, JoinedInv, Has
  <1> QED BY <1>3, <1>4, <1>5 DEF ConnectInv

(* The services that are connected stay connected.                         *)
LEMMA ConnectNext == AllInv /\ ConnectInv /\ [Next]_vars => ConnectInv'
PROOF
  <1> SUFFICES ASSUME AllInv, ConnectInv, [Next]_vars PROVE ConnectInv'
    OBVIOUS
  <1>1. Inv /\ OrderInv /\ LinksInv /\ Inv'
    BY NextInv DEF AllInv
  <1>2. AwaitInv'
    BY <1>1, AwaitNext DEF ConnectInv
  <1>3. LastInv'
    BY <1>1, LastNext DEF ConnectInv
  <1>4. BareInv'
    BY <1>1, BareNext DEF ConnectInv
  <1>5. StillInv'
    BY <1>1, StillNext DEF ConnectInv
  <1>6. MeetInv'
    BY <1>1, MeetNext DEF ConnectInv
  <1>7. JoinedInv'
    BY <1>1, JoinedNext DEF ConnectInv
  <1> QED BY <1>2, <1>3, <1>4, <1>5, <1>6, <1>7 DEF ConnectInv

(* What Quiet says of each process.                                        *)
LEMMA QuietState ==
  ASSUME Inv, Quiet
  PROVE  /\ \A p \in Service : Mail(p) = {} /\ Post(p) = {}
         /\ \A p \in Service : Alive(p) <=> p \in Running
         /\ \A p \in Running : /\ stage[p] = "running" /\ cnx[p] = "open"
                               /\ sid[p] \in SId /\ Has(p, sid[p])
         /\ \A p, q \in Service : link[p][q] \in {"none", "up", "closed"}
PROOF
  <1>1. \A p \in Service : Mail(p) = {} /\ Post(p) = {}
    BY EntriesEmpty DEF Quiet, Mail, Post, Entries
  <1>2. \A p \in Service : Alive(p) <=> p \in Running
    BY DEF Quiet, Running, Alive
  <1>3. ASSUME NEW p \in Running
        PROVE  /\ stage[p] = "running" /\ cnx[p] = "open"
               /\ sid[p] \in SId /\ Has(p, sid[p])
    <2>1. stage[p] = "running" /\ p \in Service
      BY DEF Running
    <2>2. Alive(p) /\ cnx[p] = "open"
      BY <1>2, <2>1 DEF Quiet
    <2>3. sid[p] # 0 /\ sid \in [Service -> SId \union {0}]
      BY <2>1, Vars DEF Inv, TypeInv, Identified
    <2> QED BY <2>1, <2>2, <2>3 DEF Has
  <1> QED BY <1>1, <1>2, <1>3 DEF Quiet

(* The services that run are those of the registry.                        *)
LEMMA QuietRegistry ==
  ASSUME Inv, AwaitInv, Quiet
  PROVE  {e.svc : e \in Entries(registry)} = Running
PROOF
  <1>1. registry \in Seq(Entry) /\ Entries(registry) \subseteq Entry
        /\ Available(registry) \subseteq Entry
    BY Vars, RegistryEntries DEF Inv
  <1>2. ASSUME NEW e \in Entries(registry), e.waiting PROVE FALSE
    <2>1. e.acks # {}
      <3>1. Entries(Purge(registry)) = {f \in Entries(registry) : f.waiting => f.acks # {}}
        BY <1>1, PurgeEntries
      <3>2. Purge(registry) = registry
        BY DEF Quiet
      <3> QED BY <1>2, <3>1, <3>2
    <2>2. PICK j \in e.acks : TRUE
      BY <2>1
    <2>3. PICK f \in Available(registry) : f.sid = j /\ Pending(f.svc, e.sid)
      BY <1>2, <2>2 DEF AwaitInv
    <2>4. f.svc \in Service
      BY <1>1, <2>3 DEF Entry
    <2>5. Mail(f.svc) = {} /\ Post(f.svc) = {}
      BY <2>4, QuietState
    <2> QED BY <2>3, <2>5 DEF Pending, Dropped, Acked, Posted
  <1>3. ASSUME NEW e \in Entries(registry) PROVE e.svc \in Running
    <2>1. e.svc \in Service
      BY <1>1 DEF Entry
    <2>2. Alive(e.svc) \/ Posted(e.svc, "closed")
      BY <1>2 DEF Inv, RegistryInv
    <2> QED BY <2>1, <2>2, QuietState DEF Posted
  <1>4. ASSUME NEW p \in Running PROVE \E e \in Entries(registry) : e.svc = p
    <2>1. /\ p \in Service /\ Alive(p) /\ cnx[p] = "open" /\ sid[p] \in SId
          /\ Post(p) = {}
      BY QuietState DEF Running
    <2>2. Knows(registry, p)
      BY <2>1, SIdNat DEF Inv, PostInv, Posted
    <2> QED BY <2>2 DEF Knows, Available
  <1> QED BY <1>3, <1>4

(* Any two of them have one connection, in the entry of each.              *)
LEMMA QuietPair ==
  ASSUME AllInv, MeetInv, JoinedInv, Quiet, NEW p \in Running, NEW q \in Running, p # q,
         Clean(p, sid[q]), NEW e, e = ids[p][sid[q]]
  PROVE  /\ e.name = NameOf[q] /\ e.peer = q
         /\ << q, sid[q] >> \in up[p]
         /\ << NameOf[q], sid[q] >> \in named[p]
         /\ link[p][q] = (IF e.conn = "client" THEN "up" ELSE "none")
         /\ link[q][p] = (IF e.conn = "server" THEN "up" ELSE "none")
PROOF
  <1>0. Inv /\ LinksInv /\ NamedInv
    BY DEF AllInv
  <1>1. /\ p \in Service /\ q \in Service
        /\ stage[p] = "running" /\ stage[q] = "running"
        /\ sid[p] \in SId /\ sid[q] \in SId /\ Has(p, sid[p]) /\ Has(q, sid[q])
    BY <1>0, QuietState DEF Running
  <1>2. link[p][q] \in {"none", "up", "closed"} /\ link[q][p] \in {"none", "up", "closed"}
    BY <1>0, <1>1, QuietState
  <1>3. PICK k \in SId : k = sid[q]
    BY <1>1
  <1>4. Alive(p) /\ Owner(q, k)
    BY <1>0, <1>1, <1>3, HasOwns
  <1>5. ~Prior(p, q, k) /\ ~Prior(q, p, sid[p])
    BY <1>0, <1>1, PriorMentions
  <1>6. link[p][q] # "none" \/ link[q][p] # "none"
    BY <1>1, <1>3, <1>5 DEF MeetInv
  <1>7. Joined(p, q, k)
    BY <1>1, <1>3, <1>4 DEF JoinedInv
  <1>8. \/ link[p][q] = "up" /\ link[q][p] = "none" /\ e.conn = "client" /\ e.peer = q
        \/ link[q][p] = "up" /\ link[p][q] = "none" /\ e.conn = "server" /\ e.peer = q
    <2>1. CASE link[p][q] # "none"
      <3>1. link[p][q] = "up" /\ e.conn = "client" /\ e.peer = q
        BY <1>2, <1>3, <1>7, <2>1 DEF Joined
      <3> QED BY <1>0, <1>1, <2>1, <3>1, Unlinked
    <2>2. CASE link[q][p] # "none"
      <3>1. link[q][p] = "up" /\ e.conn = "server" /\ e.peer = q
        BY <1>2, <1>3, <1>7, <2>2 DEF Joined
      <3> QED BY <1>0, <1>1, <2>2, <3>1, Unlinked
    <2> QED BY <1>6, <2>1, <2>2
  <1>9. e.name = NameOf[q]
    <2>1. Ready(ids[p][k])
      BY <1>1, <1>0, <1>3, <1>8 DEF Inv, TableInv
    <2> QED BY <1>0, <1>1, <1>3, <1>4, <2>1, OwnersOnly
  <1>10. << e.name, k >> \in named[p] /\ << e.peer, k >> \in up[p]
    <2>1. Valid(ids[p][k])
      BY <1>3, <1>8 DEF Valid
    <2>2. Agree(p, k)
      BY <1>0, <1>1, <1>3 DEF NamedInv
    <2> QED BY <1>3, <2>1, <2>2 DEF Agree
  <1>11. /\ link[p][q] = (IF e.conn = "client" THEN "up" ELSE "none")
         /\ link[q][p] = (IF e.conn = "server" THEN "up" ELSE "none")
    BY <1>8
  <1>12. e.peer = q
    BY <1>8
  <1> QED BY <1>3, <1>9, <1>10, <1>11, <1>12

(* The entries of the identifiers that nobody has are free.                *)
LEMMA QuietRest ==
  ASSUME Inv, AwaitInv, Quiet, NEW p \in Running,
         NEW k \in SId \ {sid[q] : q \in Running}, Clean(p, k)
  PROVE  ids[p][k] = NotUsed
PROOF
  <1>1. p \in Service
    BY DEF Running
  <1>2. ~Ready(ids[p][k])
    <2> SUFFICES ASSUME Ready(ids[p][k]) PROVE FALSE
      OBVIOUS
    <2>1. PICK q \in Service : Owner(q, k)
      BY <1>1, ReadyOwned
    <2>2. Mail(q) = {} /\ Post(q) = {} /\ (Alive(q) => q \in Running)
      BY QuietState
    <2>3. Entered(q, k)
      BY <2>1, <2>2 DEF Owner, Granting, Posted
    <2>4. PICK e \in Entries(registry) : e.svc = q /\ e.sid = k
      BY <2>3 DEF Entered
    <2>5. q \in Running
      BY <2>4, QuietRegistry
    <2>6. sid[q] # 0
      BY <2>5, QuietState, SIdNat
    <2>7. k = sid[q]
      BY <2>4, <2>6, KnownIdentifier
    <2> QED BY <2>5, <2>7
  <1>3. ids[p][k] \in IdEntry
    <2>1. ids \in [Service -> [SId -> IdEntry]]
      BY Vars DEF Inv
    <2> QED BY <1>1, <2>1
  <1>4. ids[p][k].conn = "empty" /\ ids[p][k].peer = None /\ ids[p][k].name = "DEAD"
    BY <1>1, <1>2 DEF Inv, TableInv, Ready
  <1> QED BY <1>3, <1>4 DEF IdEntry, NotUsed

(* When nothing is left to handle, the services that run are those of the  *)
(* registry, any two of them have one connection, by which each knows the  *)
(* other by its name and its identifier, and the other entries are free.   *)
THEOREM QuietIsConnected == Spec => []QuietMeansConnected
PROOF
  <1>1. Init => ConnectInv
    BY InitConnect
  <1>2. AllInv /\ ConnectInv /\ [Next]_vars => ConnectInv'
    BY ConnectNext
  <1>3. AllInv /\ ConnectInv => QuietMeansConnected
    <2> SUFFICES ASSUME AllInv, ConnectInv, Quiet
                 PROVE  /\ {e.svc : e \in Entries(registry)} = Running
                        /\ \A p, q \in Running : p # q /\ Clean(p, sid[q]) =>
                             LET e == ids[p][sid[q]]
                             IN  /\ e.name = NameOf[q] /\ e.peer = q
                                 /\ << q, sid[q] >> \in up[p]
                                 /\ << NameOf[q], sid[q] >> \in named[p]
                                 /\ link[p][q] = (IF e.conn = "client" THEN "up" ELSE "none")
                                 /\ link[q][p] = (IF e.conn = "server" THEN "up" ELSE "none")
                        /\ \A p \in Running, k \in SId \ {sid[q] : q \in Running} :
                             Clean(p, k) => ids[p][k] = NotUsed
      BY DEF QuietMeansConnected
    <2>1. Inv /\ AwaitInv /\ MeetInv /\ JoinedInv
      BY DEF AllInv, ConnectInv
    <2>2. {e.svc : e \in Entries(registry)} = Running
      BY <2>1, QuietRegistry
    <2>3. ASSUME NEW p \in Running, NEW q \in Running, p # q, Clean(p, sid[q])
          PROVE  LET e == ids[p][sid[q]]
                 IN  /\ e.name = NameOf[q] /\ e.peer = q
                     /\ << q, sid[q] >> \in up[p]
                     /\ << NameOf[q], sid[q] >> \in named[p]
                     /\ link[p][q] = (IF e.conn = "client" THEN "up" ELSE "none")
                     /\ link[q][p] = (IF e.conn = "server" THEN "up" ELSE "none")
      BY <2>1, <2>3, QuietPair
    <2>4. \A p \in Running, k \in SId \ {sid[q] : q \in Running} :
            Clean(p, k) => ids[p][k] = NotUsed
      BY <2>1, QuietRest
    <2> QED BY <2>2, <2>3, <2>4
  <1> QED BY <1>1, <1>2, <1>3, AllInvAlways, PTL DEF Spec
=============================================================================
