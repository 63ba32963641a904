--------------------------- MODULE NamingService ----------------------------
(***************************************************************************)
(* The list RegisteredServices of the naming service                       *)
(* (nelns/naming_service/naming_service.cpp) and what its handlers make of *)
(* it.  A registry is a sequence of entries, in the order of registration. *)
(*                                                                         *)
(* An entry whose service left waits for the other services to acknowledge *)
(* that they forgot it: until then its identifier is not given to another. *)
(* A service stands for its address and for its connection to the naming   *)
(* service: the SockId of an entry is that of svc until it waits, then     *)
(* NULL.  All services are on one sub network.                             *)
(***************************************************************************)
EXTENDS Naturals, Sequences, FiniteSets

CONSTANTS
  Service,   \* the processes, each one started at most once
  NameOf,    \* the name of each one
  MaxSId     \* identifiers are allocated from 1 to MaxSId

SId == 1 .. MaxSId

Entry == [svc : Service, sid : SId, waiting : BOOLEAN, acks : SUBSET SId]

(* The elements of s at the places I, in their order: SelectSeq, but with  *)
(* a definition that can be reasoned about.                                *)
Kept(s, I) ==
  LET nth(n) == CHOOSE i \in I : Cardinality({j \in I : j <= i}) = n
  IN  [n \in 1 .. Cardinality(I) |-> s[nth(n)]]

Entries(reg) == {reg[i] : i \in DOMAIN reg}
Available(reg) == {e \in Entries(reg) : ~e.waiting}
Accessible(reg) == Kept(reg, {i \in DOMAIN reg : ~reg[i].waiting})
Knows(reg, s) == \E e \in Available(reg) : e.svc = s

BadFreeSIds(reg) == SId \ {e.sid : e \in Available(reg)}

(* Those that no entry has, be it waiting.                                 *)
FreeSIds(reg) == SId \ {e.sid : e \in Entries(reg)}

(* queryStartService: one service of a restricted name.  As releaseService *)
(* is never reached, an identifier stays in _OnlineServices for ever: what *)
(* counts is the name of the entry that has it, which may be waiting.      *)
Granted(reg, restricted, s) ==
  NameOf[s] \in restricted => \A e \in Entries(reg) : NameOf[e.svc] # NameOf[s]

BadRegister(reg, s, k) ==
  Append(reg, [svc |-> s, sid |-> k - 1, waiting |-> FALSE, acks |-> {}])

Register(reg, s, k) == Append(reg, [svc |-> s, sid |-> k, waiting |-> FALSE, acks |-> {}])

(* doRemove: nobody waits for this service any more; it waits for those    *)
(* that are available, and leaves the list if there are none.              *)
Unregister(reg, s) ==
  LET gone(e) == e.svc = s /\ ~e.waiting
      freed == {e.sid : e \in {f \in Entries(reg) : gone(f)}}
      others == {e.sid : e \in {f \in Available(reg) : f.svc # s}}
      marked == [i \in DOMAIN reg |->
                   IF gone(reg[i]) THEN [reg[i] EXCEPT !.waiting = TRUE, !.acks = others]
                   ELSE [reg[i] EXCEPT !.acks = @ \ freed]]
      removed(e) == e.svc = s /\ e.waiting /\ e.acks = {}
  IN  Kept(marked, {i \in DOMAIN reg : ~removed(marked[i])})

(* checkWaitingUnregistrationServices, but for the time out.               *)
Purge(reg) == Kept(reg, {i \in DOMAIN reg : reg[i].waiting => reg[i].acks # {}})

(* cbACKUnregistration: the first entry that waits for this answer.        *)
BadAwaits(e, from, k) == e.sid = from /\ e.waiting /\ k \in e.acks

Awaits(e, from, k) == e.sid = k /\ e.waiting /\ from \in e.acks

Acknowledge(reg, from, k) ==
  LET found == {i \in DOMAIN reg : Awaits(reg[i], from, k)}
      first(i) == i \in found /\ \A j \in found : i <= j
  IN  IF found = {} THEN reg
      ELSE Purge([i \in DOMAIN reg |->
                    IF first(i) THEN [reg[i] EXCEPT !.acks = @ \ {from}] ELSE reg[i]])

Removed(reg, e) == Kept(reg, {i \in DOMAIN reg : reg[i] # e})
=============================================================================
