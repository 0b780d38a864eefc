---------------------------- MODULE Certificates ----------------------------
(***************************************************************************)
(* Certificates outlive generations: gatel-tls's CertificateStore, the     *)
(* deltas a candidate prepares (CertificateUpdates, server.rs) and the     *)
(* ACME worker that orders and renews in the background (acme/manager.rs). *)
(*                                                                         *)
(* A candidate claims every TLS site for a source identity, reads what it  *)
(* would serve and stages it; publication applies the delta under the      *)
(* generation lock.  An order captures the ownership token of its site and *)
(* may install its certificate only under that very token:                 *)
(*   idle - waiting - locked - ordering - issued - saving - saved - idle   *)
(***************************************************************************)
EXTENDS Integers, FiniteSets

CONSTANTS Sites,       \* sites of the configuration
          Accounts,    \* ACME configurations: the identities that order
          Files,       \* manual certificates: the identities read from files
          Internal,    \* the identity of tls internal
          None,        \* no identity: a site without TLS
          Candidates,  \* preparations in flight
          Tokens,      \* addresses of Ownership tokens
          MaxGen,      \* bound on publications
          MaxSerial    \* bound on certificates issued per site and identity

Identities == Accounts \cup Files \cup {Internal}

ASSUME CertificatesAssumption ==
  /\ Accounts \cap Files = {}
  /\ Internal \notin Accounts \cup Files
  /\ None \notin Identities
  /\ MaxGen \in Nat
  /\ MaxSerial \in Nat \ {0}
  /\ Cardinality(Tokens) > Cardinality(Sites) + 1
  /\ 0 \notin Tokens

VARIABLES entries,     \* CertificateStore.entries
          owners,      \* CertificateStore.owners
          managed,     \* CertificateStore.managed
          generation,  \* number of publications
          plan,        \* the TLS source of each site in the published plan
          wanted,      \* what the running ACME worker was reconciled to
          cand,        \* each candidate: its plan, its base, its delta
          order,       \* the worker's current order
          disk,        \* newest material of each site and identity on disk
          due          \* identities whose material should be renewed

store == <<entries, owners, managed>>
vars == <<store, generation, plan, wanted, cand, order, disk, due>>

NoCert == [by |-> None, serial |-> 0]
Cert == [by : Identities, serial : 1..MaxSerial] \cup {NoCert}
NoOwner == [identity |-> None, token |-> 0]
NoUpdate == [cert |-> NoCert, missing |-> TRUE, owner |-> None]
NoOrder == [pc |-> "idle", site |-> None, by |-> None, token |-> 0,
            serial |-> 0, lapsed |-> FALSE]
Plans == [Sites -> Identities \cup {None}]
NoCand == [pc |-> "idle", plan |-> [s \in Sites |-> None], base |-> 0,
           read |-> [s \in Sites |-> NoCert], todo |-> {},
           pending |-> [s \in Sites |-> NoUpdate]]

Init ==
  /\ entries = [s \in Sites |-> NoCert]
  /\ owners = [s \in Sites |-> NoOwner]
  /\ managed = FALSE
  /\ generation = 0
  /\ plan = [s \in Sites |-> None]
  /\ wanted = {}
  /\ cand = [c \in Candidates |-> NoCand]
  /\ order = NoOrder
  \* a manual file and an earlier process's material may be there already
  /\ disk \in [Sites -> [Identities -> 0..1]]
  /\ \A s \in Sites, f \in Files : disk[s][f] = 1
  /\ \A s \in Sites : disk[s][Internal] = 0
  /\ due = {}

-----------------------------------------------------------------------------
(* Ownership.                                                               *)

\* issuance: authority to install one certificate, the owner's token.
Issuance(s, identity) ==
  /\ owners[s].identity \in {identity, None}
  /\ owners[s] = NoOwner => ~managed

\* issuance_matches: Arc::ptr_eq of the tokens.
MatchesIdentity(s, identity, token) ==  \* mutant: the identity is compared
  IF owners[s] # NoOwner THEN owners[s].identity = identity
  ELSE token = 0 /\ ~managed

Matches(s, identity, token) ==
  IF owners[s] # NoOwner THEN owners[s].token = token
  ELSE token = 0 /\ ~managed

OrderCurrent == Matches(order.site, order.by, order.token)

-----------------------------------------------------------------------------
(* Preparation of a candidate: load_certificate for every TLS site.         *)

TlsSites(p) == {s \in Sites : p[s] # None}

\* CertificateUpdates::new, and claim for each site.
Claim(c, p) ==
  /\ cand[c].pc = "idle"
  /\ cand' = [cand EXCEPT ![c] =
       [NoCand EXCEPT !.pc = "load", !.plan = p, !.base = generation,
                      !.todo = TlsSites(p),
                      !.pending = [s \in Sites |-> [NoUpdate EXCEPT !.owner = p[s]]]]]
  /\ UNCHANGED <<store, generation, plan, wanted, order, disk, due>>

\* get_pending: what this candidate would serve, were it published now.
Get(c, s) ==
  LET update == cand[c].pending[s]
  IN IF update.cert # NoCert THEN update.cert
     ELSE IF owners[s].identity # update.owner THEN NoCert
     ELSE entries[s]

\* Manual material is always read; internal is issued, and cached ACME
\* material read, only when nothing is there.  The store moves on meanwhile.
Reads(c, s) ==
  LET identity == cand[c].plan[s]
      newest == [by |-> identity, serial |-> disk[s][identity]]
  IN CASE identity \in Files -> newest
       [] Get(c, s) # NoCert -> NoCert
       [] identity = Internal -> [by |-> Internal, serial |-> 1]
       [] disk[s][identity] = 0 -> NoCert
       [] OTHER -> newest

Load(c, s) ==
  /\ cand[c].pc = "load"
  /\ s \in cand[c].todo
  /\ cand[c].read[s] = NoCert
  /\ cand' = [cand EXCEPT ![c].read[s] = Reads(c, s),
                          ![c].todo = IF Reads(c, s) = NoCert THEN @ \ {s} ELSE @]
  /\ UNCHANGED <<store, generation, plan, wanted, order, disk, due>>

\* put: only manual material replaces what is there by now.
Put(c, s) ==
  LET missing == cand[c].plan[s] \notin Files
  IN /\ cand[c].pc = "load"
     /\ cand[c].read[s] # NoCert
     /\ cand' = [cand EXCEPT
          ![c].todo = @ \ {s},
          ![c].read[s] = NoCert,
          ![c].pending[s] = IF missing /\ Get(c, s) # NoCert THEN @
                            ELSE [@ EXCEPT !.cert = cand[c].read[s], !.missing = missing]]
     /\ UNCHANGED <<store, generation, plan, wanted, order, disk, due>>

\* An unreadable file, or any other part of the candidate: the delta is dropped.
Discard(c) ==
  /\ cand[c].pc = "load"
  /\ cand' = [cand EXCEPT ![c] = NoCand]
  /\ UNCHANGED <<store, generation, plan, wanted, order, disk, due>>

-----------------------------------------------------------------------------
(* Publication, under the generation lock, after the stale checks.          *)

Loaded(c) == cand[c].pc = "load" /\ cand[c].todo = {}

\* Sites whose Ownership the publication creates; fresh gives the addresses
\* the allocator returns for their tokens.
ClaimedNew(c) ==  \* mutant: only a site without any owner gets one
  {s \in TlsSites(cand[c].plan) : owners[s] = NoOwner}

Claimed(c) == {s \in TlsSites(cand[c].plan) : owners[s].identity # cand[c].plan[s]}

InUse(c) ==
  {owners[s].token : s \in TlsSites(cand[c].plan)} \cup {order.token}

OwnersAfter(c, fresh) ==
  [s \in Sites |->
     IF cand[c].plan[s] = None THEN NoOwner
     ELSE IF s \in Claimed(c) THEN [identity |-> cand[c].plan[s], token |-> fresh[s]]
     ELSE owners[s]]

EntryKept(c, s) ==  \* mutant: a new owner inherits its predecessor's certificate
  IF cand[c].plan[s] = None THEN NoCert ELSE entries[s]

Entry(c, s) ==
  IF cand[c].plan[s] = None \/ s \in Claimed(c) THEN NoCert ELSE entries[s]

\* The check is repeated under the locks, so a renewal that landed since wins.
EntryReplaced(c, s) ==  \* mutant: the delta overwrites it
  IF cand[c].pending[s].cert = NoCert THEN Entry(c, s) ELSE cand[c].pending[s].cert

EntryAfter(c, s) ==
  LET update == cand[c].pending[s]
  IN IF update.cert = NoCert \/ (update.missing /\ Entry(c, s) # NoCert)
     THEN Entry(c, s)
     ELSE update.cert

\* History: the order's site changed hands.
Lapses(c) ==
  /\ order.pc # "idle"
  /\ cand[c].plan[order.site] = None \/ order.site \in Claimed(c)

Publish(c) ==
  /\ Loaded(c)
  /\ cand[c].base = generation
  /\ generation < MaxGen
  /\ \E fresh \in [Claimed(c) -> Tokens \ InUse(c)] :
       /\ \A s, t \in Claimed(c) : fresh[s] = fresh[t] => s = t
       /\ owners' = OwnersAfter(c, fresh)
  /\ entries' = [s \in Sites |-> EntryAfter(c, s)]
  /\ managed' = TRUE
  /\ generation' = generation + 1
  /\ plan' = cand[c].plan
  /\ order' = [order EXCEPT !.lapsed = @ \/ Lapses(c)]
  /\ cand' = [cand EXCEPT ![c] = NoCand]
  /\ UNCHANGED <<wanted, disk, due>>

\* Another candidate was published meanwhile.
Stale(c) ==
  /\ Loaded(c)
  /\ cand[c].base # generation
  /\ cand' = [cand EXCEPT ![c] = NoCand]
  /\ UNCHANGED <<store, generation, plan, wanted, order, disk, due>>

-----------------------------------------------------------------------------
(* Activation: Acme::reconcile (and shutdown of the previous account).      *)

AcmeSites(p) == {<<s, p[s]>> : s \in {t \in Sites : p[t] \in Accounts}}

\* The same wanted list keeps its worker; any other stops it, which aborts
\* the order at the await it has reached.
Reconcile ==
  /\ wanted # AcmeSites(plan)
  /\ wanted' = AcmeSites(plan)
  /\ order' = NoOrder
  /\ UNCHANGED <<store, generation, plan, cand, disk, due>>

-----------------------------------------------------------------------------
(* The worker: sweep and obtain, one site after another.                    *)

DueOnDisk(s, a) ==  \* mutant: only the cache is looked at
  disk[s][a] = 0 \/ <<s, a>> \in due

Due(s, a) == entries[s] = NoCert \/ disk[s][a] = 0 \/ <<s, a>> \in due

Ends == order' = NoOrder
OrderGoes(label) == order' = [order EXCEPT !.pc = label]

\* sweep: issuance and due, then obtain's own issuance, which keeps the token.
Begin(s, a) ==
  /\ order.pc = "idle"
  /\ <<s, a>> \in wanted
  /\ Issuance(s, a)
  /\ Due(s, a)
  /\ order' = [NoOrder EXCEPT !.pc = "waiting", !.site = s, !.by = a,
                              !.token = owners[s].token]
  /\ UNCHANGED <<store, generation, plan, wanted, cand, disk, due>>

\* The order gate and the account lock are ours.
Lock ==
  /\ order.pc = "waiting"
  /\ IF OrderCurrent THEN OrderGoes("locked") ELSE Ends
  /\ UNCHANGED <<store, generation, plan, wanted, cand, disk, due>>

PutIssued(serial) ==
  IF OrderCurrent
  THEN entries' = [entries EXCEPT ![order.site] = [by |-> order.by, serial |-> serial]]
  ELSE UNCHANGED entries

\* Another process renewed while this one waited: adopt the shared cache.
AdoptCached ==
  /\ order.pc = "locked"
  /\ disk[order.site][order.by] > 0
  /\ <<order.site, order.by>> \notin due
  /\ PutIssued(disk[order.site][order.by])
  /\ Ends
  /\ UNCHANGED <<owners, managed, generation, plan, wanted, cand, disk, due>>

\* Still due: ask the authority, which answers or refuses.
Order ==
  /\ order.pc = "locked"
  /\ disk[order.site][order.by] = 0 \/ <<order.site, order.by>> \in due
  /\ OrderGoes("ordering")
  /\ UNCHANGED <<store, generation, plan, wanted, cand, disk, due>>

Issued ==
  /\ order.pc = "ordering"
  /\ disk[order.site][order.by] < MaxSerial
  /\ order' = [order EXCEPT !.pc = "issued", !.serial = disk[order.site][order.by] + 1]
  /\ UNCHANGED <<store, generation, plan, wanted, cand, disk, due>>

Refused ==
  /\ order.pc = "ordering"
  /\ Ends
  /\ UNCHANGED <<store, generation, plan, wanted, cand, disk, due>>

\* persist_issued: check, then write.
Persist ==
  /\ order.pc = "issued"
  /\ IF OrderCurrent THEN OrderGoes("saving") ELSE Ends
  /\ UNCHANGED <<store, generation, plan, wanted, cand, disk, due>>

Save ==
  /\ order.pc = "saving"
  /\ OrderGoes("saved")
  /\ disk' = [disk EXCEPT ![order.site][order.by] = order.serial]
  /\ due' = due \ {<<order.site, order.by>>}
  /\ UNCHANGED <<store, generation, plan, wanted, cand>>

\* A failed write is logged; the certificate is served all the same.
SaveFails ==
  /\ order.pc = "saving"
  /\ OrderGoes("saved")
  /\ UNCHANGED <<store, generation, plan, wanted, cand, disk, due>>

Install ==
  /\ order.pc = "saved"
  /\ PutIssued(order.serial)
  /\ Ends
  /\ UNCHANGED <<owners, managed, generation, plan, wanted, cand, disk, due>>

-----------------------------------------------------------------------------
(* The outside: time, another process on the same cache, the operator.      *)

Ages(s, a) ==
  /\ disk[s][a] > 0
  /\ disk[s][a] < MaxSerial
  /\ due' = due \cup {<<s, a>>}
  /\ UNCHANGED <<store, generation, plan, wanted, cand, order, disk>>

\* The account lock keeps the other process out while an order holds it.
RenewedElsewhere(s, a) ==
  /\ order.pc \in {"idle", "waiting"}
  /\ <<s, a>> \in due
  /\ disk[s][a] < MaxSerial
  /\ disk' = [disk EXCEPT ![s][a] = @ + 1]
  /\ due' = due \ {<<s, a>>}
  /\ UNCHANGED <<store, generation, plan, wanted, cand, order>>

FileReplaced(s, f) ==
  /\ disk[s][f] < MaxSerial
  /\ disk' = [disk EXCEPT ![s][f] = @ + 1]
  /\ UNCHANGED <<store, generation, plan, wanted, cand, order, due>>

-----------------------------------------------------------------------------
OrderStep ==
  \/ \E s \in Sites, a \in Accounts : Begin(s, a)
  \/ Lock \/ AdoptCached \/ Order \/ Persist \/ Save \/ Install

Next ==
  \/ \E c \in Candidates :
       \/ \E p \in Plans : Claim(c, p)
       \/ \E s \in Sites : Load(c, s) \/ Put(c, s)
       \/ Discard(c) \/ Publish(c) \/ Stale(c)
  \/ Reconcile
  \/ OrderStep \/ Issued \/ Refused \/ SaveFails
  \/ \E s \in Sites, a \in Accounts : Ages(s, a) \/ RenewedElsewhere(s, a)
  \/ \E s \in Sites, f \in Files : FileReplaced(s, f)

Spec == Init /\ [][Next]_vars

\* Activation follows every publication, the worker keeps sweeping, and an
\* authority asked again and again answers one day.
FairSpec ==
  /\ Spec
  /\ WF_vars(Reconcile)
  /\ WF_vars(OrderStep)
  /\ SF_vars(Issued)

-----------------------------------------------------------------------------
(* Properties.                                                              *)

\* The type of the certificate store, its candidates and its order.
TypeOK ==
  /\ entries \in [Sites -> Cert]
  /\ owners \in [Sites -> [identity : Identities, token : Tokens] \cup {NoOwner}]
  /\ managed \in BOOLEAN
  /\ generation \in 0..MaxGen
  /\ plan \in Plans
  /\ wanted \subseteq Sites \X Accounts
  /\ \A c \in Candidates :
       /\ cand[c].plan \in Plans
       /\ cand[c].base \in 0..MaxGen
       /\ cand[c].todo \subseteq Sites
       /\ cand[c].read \in [Sites -> Cert]
       /\ \A s \in Sites : cand[c].pending[s].cert \in Cert
  /\ order.site \in Sites \cup {None}
  /\ order.by \in Accounts \cup {None}
  /\ order.token \in Tokens \cup {0}
  /\ order.serial \in 0..MaxSerial
  /\ disk \in [Sites -> [Identities -> 0..MaxSerial]]
  /\ due \subseteq Sites \X Accounts

\* A site is owned exactly by the source the published plan gives it, no two
\* sites share an ownership token, and a handshake never gets material of
\* another source: whatever late orders, cached reads and publications did, a
\* served certificate is its owner's.
ServesOwnMaterial ==
  /\ \A s \in Sites : owners[s].identity = plan[s]
  /\ \A s, t \in Sites : owners[s].token = owners[t].token /\ owners[s] # NoOwner => s = t
  /\ \A s \in Sites : entries[s] # NoCert => entries[s].by = plan[s]

\* An order installs nothing once its site has changed hands, even if the
\* site has since been given back to the same account (A, then B, then A).
\* While a site keeps its owner its certificate never goes away and is never
\* replaced by an older one: a reload cannot undo a renewal.
NeverRegresses ==
  [][\A s \in Sites :
       /\ order.lapsed /\ entries'[s] # entries[s] => generation' # generation
       /\ owners'[s] = owners[s] /\ entries[s] # NoCert
            => entries'[s].serial >= entries[s].serial]_vars

\* A site left with an ACME account is served one day.
EventuallyServed ==
  \A s \in Sites, a \in Accounts :
    (plan[s] = a) ~> (entries[s] # NoCert \/ plan[s] # a)
=============================================================================
