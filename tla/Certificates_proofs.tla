------------------------ MODULE Certificates_proofs -------------------------
(***************************************************************************)
(* Proofs about Certificates, for every set of sites, sources, candidates  *)
(* and tokens.                                                             *)
(*                                                                         *)
(* What is served agrees with the plan because everything on its way to it *)
(* does: what a candidate has read or staged is its source's (Staged), and *)
(* an order whose token is still the owner's is the owner's order          *)
(* (Placed).  Nothing gets older because what is served is on disk, or one *)
(* ahead of it when writing it failed (Behind), an order in flight is as   *)
(* new (Holding), and what a candidate of the current generation read from *)
(* a file was read after what is served (Fits).                            *)
(***************************************************************************)
EXTENDS Certificates, TLAPS

OrderLabels == {"idle", "waiting", "locked", "ordering", "issued", "saving", "saved"}
OwnerStates == [identity : Identities, token : Tokens] \cup {NoOwner}
Updates == [cert : Cert, missing : BOOLEAN, owner : Identities \cup {None}]
CandStates ==
  [pc : {"idle", "load"}, plan : Plans, base : 0..MaxGen, read : [Sites -> Cert],
   todo : SUBSET Sites, pending : [Sites -> Updates]]
OrderStates ==
  [pc : OrderLabels, site : Sites \cup {None}, by : Accounts \cup {None}, token : Tokens \cup {0},
   serial : 0..MaxSerial, lapsed : BOOLEAN]
CertTypes ==
  /\ entries \in [Sites -> Cert]
  /\ owners \in [Sites -> OwnerStates]
  /\ managed \in BOOLEAN
  /\ generation \in 0..MaxGen
  /\ plan \in Plans
  /\ wanted \subseteq Sites \X Accounts
  /\ cand \in [Candidates -> CandStates]
  /\ order \in OrderStates
  /\ disk \in [Sites -> [Identities -> 0..MaxSerial]]
  /\ due \subseteq Sites \X Accounts

\* Before the first publication there is nothing to order for.
Unmanaged == ~managed => wanted = {} /\ \A s \in Sites : plan[s] = None

\* Material that is not there, or should be renewed.
Late(s, a) == disk[s][a] = 0 \/ <<s, a>> \in due

\* What is served is on disk, or one ahead of it because writing it failed.
Behind(s) ==
  LET cert == entries[s]
  IN cert # NoCert =>
       /\ cert.by \in Files => cert.serial <= disk[s][cert.by]
       /\ cert.by \in Accounts =>
            \/ cert.serial <= disk[s][cert.by]
            \/ cert.serial = disk[s][cert.by] + 1 /\ Late(s, cert.by)

\* What a candidate holds for a site: its source's, no newer than the disk, and
\* if nothing was published since, no older than what is served.
Fits(c, s, cert) ==
  cert # NoCert =>
    /\ cert.by = cand[c].plan[s]
    /\ cert.by \in Files \cup Accounts => cert.serial <= disk[s][cert.by]
    /\ cert.by \in Files /\ cand[c].base = generation /\ entries[s].by = cert.by =>
         entries[s].serial <= cert.serial
Staged(c) ==
  /\ cand[c].todo \subseteq TlsSites(cand[c].plan)
  /\ cand[c].base <= generation
  /\ \A s \in Sites :
       /\ Fits(c, s, cand[c].read[s])
       /\ Fits(c, s, cand[c].pending[s].cert)
       /\ cand[c].read[s] # NoCert => s \in cand[c].todo
       /\ cand[c].pending[s].cert # NoCert => (cand[c].pending[s].missing <=> cand[c].plan[s] \notin Files)

\* An order: the token it captured is its account's, and once the site changed
\* hands nobody's; what it got is one ahead of the disk until it is written.
Placed ==
  order.pc # "idle" =>
    /\ order.site \in Sites /\ order.by \in Accounts /\ order.token \in Tokens /\ managed
    /\ owners[order.site].token = order.token => owners[order.site].identity = order.by
Lapsed == order.lapsed => order.pc # "idle" /\ owners[order.site].token # order.token
Holding ==
  /\ order.pc \in {"ordering", "issued", "saving"} => Late(order.site, order.by)
  /\ order.pc \in {"issued", "saving"} => order.serial = disk[order.site][order.by] + 1
  /\ order.pc = "saved" =>
       \/ order.serial = disk[order.site][order.by] /\ order.serial > 0
       \/ order.serial = disk[order.site][order.by] + 1 /\ Late(order.site, order.by)
  /\ order.pc \in {"issued", "saving", "saved"} /\ entries[order.site].by = order.by =>
       entries[order.site].serial <= order.serial

CertInv ==
  /\ CertTypes /\ Unmanaged
  /\ \A s \in Sites, f \in Files : disk[s][f] >= 1
  /\ ServesOwnMaterial
  /\ \A s \in Sites : Behind(s)
  /\ \A c \in Candidates : Staged(c)
  /\ Placed /\ Lapsed /\ Holding

LEMMA NothingTyped ==
  /\ NoCert \in Cert /\ NoOwner \in OwnerStates /\ NoUpdate \in Updates /\ NoOrder \in OrderStates
  /\ NoCand \in CandStates
  /\ \A s \in Sites : NoCand.read[s] = NoCert /\ NoCand.pending[s].cert = NoCert
  /\ NoCand.todo = {} /\ NoCand.base = 0 /\ NoCand.pc = "idle"
  /\ NoOrder.pc = "idle" /\ NoOrder.lapsed = FALSE /\ NoOrder.site = None
<1>1. NoCert \in Cert /\ NoOwner \in OwnerStates
  BY DEF Cert, OwnerStates
<1>2. NoUpdate \in Updates /\ NoUpdate.cert = NoCert
  BY <1>1 DEF NoUpdate, Updates
<1>3. NoOrder \in OrderStates
  BY CertificatesAssumption DEF NoOrder, OrderStates, OrderLabels
<1>4. NoCand \in CandStates
  BY <1>1, <1>2, CertificatesAssumption DEF NoCand, CandStates, Plans
<1> QED
  BY <1>1, <1>2, <1>3, <1>4 DEF NoCand, NoOrder

\* A certificate has a source, which is an identity, and a serial.
LEMMA CertParts ==
  ASSUME NEW x \in Cert
  PROVE  /\ x = NoCert => x.by = None /\ x.serial = 0
         /\ x # NoCert => x.by \in Identities /\ x.by # None /\ x.serial \in 1..MaxSerial
  BY CertificatesAssumption DEF Cert, NoCert

LEMMA OwnerParts ==
  ASSUME NEW x \in OwnerStates
  PROVE  /\ x = NoOwner => x.identity = None /\ x.token = 0
         /\ x # NoOwner => x.identity \in Identities /\ x.identity # None /\ x.token \in Tokens
  BY CertificatesAssumption DEF OwnerStates, NoOwner

-----------------------------------------------------------------------------
\* A step of a candidate by itself.
LEMMA CandMoves ==
  ASSUME CertInv, UNCHANGED <<store, generation, plan, wanted, order, disk, due>>,
         NEW c \in Candidates, NEW x \in CandStates, cand' = [cand EXCEPT ![c] = x], Staged(c)'
  PROVE  CertInv'
<1>1. UNCHANGED <<entries, owners, managed, generation, plan, wanted, order, disk, due>>
  BY DEF store
<1>2. CertTypes'
  BY <1>1 DEF CertInv, CertTypes
<1>3. \A d \in Candidates : d # c => cand'[d] = cand[d]
  BY DEF CertInv, CertTypes
<1>4. \A d \in Candidates : Staged(d)'
  <2> SUFFICES ASSUME NEW d \in Candidates, d # c PROVE Staged(d)'
    OBVIOUS
  <2>1. Staged(d)
    BY DEF CertInv
  <2> QED
    BY <1>1, <1>3, <2>1 DEF Staged, Fits
<1>5. /\ Unmanaged' /\ (\A s \in Sites, f \in Files : disk'[s][f] >= 1)
      /\ ServesOwnMaterial' /\ (\A s \in Sites : Behind(s)')
  BY <1>1 DEF CertInv, Unmanaged, ServesOwnMaterial, Behind, Late
<1>6. Placed' /\ Lapsed' /\ Holding'
  BY <1>1 DEF CertInv, Placed, Lapsed, Holding, Late
<1> QED
  BY <1>2, <1>4, <1>5, <1>6 DEF CertInv

\* The same for a preparation that goes on: what it has read and staged fits.
LEMMA Prepares ==
  ASSUME CertInv, UNCHANGED <<store, generation, plan, wanted, order, disk, due>>,
         NEW c \in Candidates, NEW x \in CandStates, cand' = [cand EXCEPT ![c] = x],
         x.plan = cand[c].plan, x.base = cand[c].base, x.todo \subseteq cand[c].todo,
         \A r \in Sites :
           /\ Fits(c, r, x.read[r]) /\ Fits(c, r, x.pending[r].cert)
           /\ x.read[r] # NoCert => r \in x.todo
           /\ x.pending[r].cert # NoCert => (x.pending[r].missing <=> x.plan[r] \notin Files)
  PROVE  CertInv'
<1>1. cand'[c] = x /\ Staged(c)
  BY DEF CertInv, CertTypes
<1>2. UNCHANGED <<entries, generation, disk>>
  BY DEF store
<1>3. \A r \in Sites : Fits(c, r, cand[c].read[r])' /\ Fits(c, r, cand[c].pending[r].cert)'
  BY <1>1, <1>2 DEF Fits
<1>4. cand'[c].todo \subseteq TlsSites(cand'[c].plan)
  BY <1>1 DEF Staged
<1>5. Staged(c)'
  BY <1>1, <1>2, <1>3, <1>4 DEF Staged, TlsSites
<1> QED
  BY <1>5, CandMoves

LEMMA DropStep == ASSUME CertInv, NEW c \in Candidates, Discard(c) \/ Stale(c) PROVE CertInv'
<1>1. UNCHANGED <<store, generation, plan, wanted, order, disk, due>> /\ cand' = [cand EXCEPT ![c] = NoCand]
  BY DEF Discard, Stale
<1>2. cand'[c] = NoCand /\ generation' = generation /\ generation \in Nat
  BY <1>1, CertificatesAssumption DEF CertInv, CertTypes
<1>3. Staged(c)'
  BY <1>2, NothingTyped DEF Staged, Fits
<1> QED
  BY <1>1, <1>3, NothingTyped, CandMoves

LEMMA ClaimStep == ASSUME CertInv, NEW c \in Candidates, NEW p \in Plans, Claim(c, p) PROVE CertInv'
<1> DEFINE x == [NoCand EXCEPT !.pc = "load", !.plan = p, !.base = generation,
                      !.todo = TlsSites(p),
                      !.pending = [s \in Sites |-> [NoUpdate EXCEPT !.owner = p[s]]]]
<1>1. UNCHANGED <<store, generation, plan, wanted, order, disk, due>> /\ cand' = [cand EXCEPT ![c] = x]
  BY DEF Claim
<1>2. \A s \in Sites : [NoUpdate EXCEPT !.owner = p[s]] \in Updates /\ [NoUpdate EXCEPT !.owner = p[s]].cert = NoCert
  BY NothingTyped DEF NoUpdate, Updates, Plans
<1>3. x \in CandStates
  BY <1>2, NothingTyped DEF CandStates, CertInv, CertTypes, TlsSites
<1>4. /\ x.todo = TlsSites(p) /\ x.plan = p /\ x.base = generation
      /\ \A s \in Sites : x.read[s] = NoCert /\ x.pending[s].cert = NoCert
  BY <1>2, NothingTyped DEF CandStates
<1>5. cand'[c] = x /\ generation' = generation /\ generation \in Nat
  BY <1>1, CertificatesAssumption DEF CertInv, CertTypes
<1> HIDE DEF x
<1>6. Staged(c)'
  BY <1>4, <1>5 DEF Staged, Fits, TlsSites
<1> QED
  BY <1>1, <1>3, <1>6, CandMoves

\* What a candidate reads is its source's newest material.
LEMMA ReadsFit ==
  ASSUME CertInv, NEW c \in Candidates, NEW s \in Sites, s \in cand[c].todo
  PROVE  Reads(c, s) \in Cert /\ Fits(c, s, Reads(c, s))
<1> DEFINE identity == cand[c].plan[s]
<1>1. cand[c] \in CandStates /\ Staged(c) /\ entries[s] \in Cert /\ Behind(s)
  BY DEF CertInv, CertTypes
<1>2. identity \in Identities /\ disk[s][identity] \in 0..MaxSerial /\ MaxSerial \in Nat \ {0}
  BY <1>1, CertificatesAssumption DEF CertInv, CertTypes, Staged, TlsSites, CandStates, Plans
<1>3. identity \in Files => disk[s][identity] >= 1
  BY DEF CertInv
<1>4. Internal \notin Files \cup Accounts
  BY CertificatesAssumption
<1> DEFINE newest == [by |-> identity, serial |-> disk[s][identity]]
<1>5. newest.by = identity /\ newest.serial = disk[s][identity] /\ (disk[s][identity] > 0 => newest \in Cert)
  BY <1>2 DEF Cert
<1>6. entries[s].by = identity /\ identity \in Files => entries[s].serial <= disk[s][identity]
  BY <1>1, <1>2, <1>3, CertParts DEF Behind
<1> DEFINE own == [by |-> Internal, serial |-> 1]
<1>7. own \in Cert /\ own.by = Internal
  BY CertificatesAssumption DEF Cert, Identities
<1>8. Fits(c, s, NoCert) /\ NoCert \in Cert
  BY NothingTyped DEF Fits
<1>9. disk[s][identity] > 0 => Fits(c, s, newest)
  BY <1>2, <1>5, <1>6 DEF Fits
<1>10. identity = Internal => Fits(c, s, own)
  BY <1>4, <1>7 DEF Fits
<1>11. Reads(c, s) = CASE identity \in Files -> newest
       [] Get(c, s) # NoCert -> NoCert
       [] identity = Internal -> own
       [] disk[s][identity] = 0 -> NoCert
       [] OTHER -> newest
  BY DEF Reads
<1> HIDE DEF newest, own, identity
<1>12. \/ Reads(c, s) = newest /\ disk[s][identity] > 0
       \/ Reads(c, s) = NoCert
       \/ Reads(c, s) = own /\ identity = Internal
  <2>1. CASE identity \in Files
    BY <1>2, <1>3, <1>11, <2>1
  <2>2. CASE identity \notin Files /\ Get(c, s) # NoCert
    BY <1>11, <2>2, <1>4
  <2>3. CASE identity \notin Files /\ Get(c, s) = NoCert
    BY <1>2, <1>4, <1>11, <2>3
  <2> QED
    BY <2>1, <2>2, <2>3
<1> QED
  BY <1>5, <1>7, <1>8, <1>9, <1>10, <1>12

LEMMA LoadStep == ASSUME CertInv, NEW c \in Candidates, NEW s \in Sites, Load(c, s) PROVE CertInv'
<1> DEFINE todo == IF Reads(c, s) = NoCert THEN cand[c].todo \ {s} ELSE cand[c].todo
           x == [cand[c] EXCEPT !.read = [cand[c].read EXCEPT ![s] = Reads(c, s)], !.todo = todo]
<1>1. /\ cand[c].pc = "load" /\ s \in cand[c].todo
      /\ UNCHANGED <<store, generation, plan, wanted, order, disk, due>>
  BY DEF Load
<1>2. cand[c] \in CandStates /\ cand \in [Candidates -> CandStates] /\ Staged(c)
  BY DEF CertInv, CertTypes
<1>3. cand' = [cand EXCEPT ![c] = x]
  <2>1. cand' = [cand EXCEPT ![c].read[s] = Reads(c, s),
                          ![c].todo = IF Reads(c, s) = NoCert THEN @ \ {s} ELSE @]
    BY DEF Load
  <2> QED
    BY <1>2, <2>1 DEF CandStates
<1>4. Reads(c, s) \in Cert /\ Fits(c, s, Reads(c, s))
  BY <1>1, ReadsFit
<1>5. x \in CandStates
  BY <1>2, <1>4 DEF CandStates
<1>6. /\ x.plan = cand[c].plan /\ x.base = cand[c].base /\ x.todo = todo /\ x.pending = cand[c].pending
      /\ x.read[s] = Reads(c, s) /\ \A r \in Sites : r # s => x.read[r] = cand[c].read[r]
  BY <1>2 DEF CandStates
<1>7. cand'[c] = x
  BY <1>2, <1>3
<1> HIDE DEF x
<1>8. ASSUME NEW r \in Sites
      PROVE  /\ Fits(c, r, x.read[r]) /\ Fits(c, r, x.pending[r].cert)
             /\ x.read[r] # NoCert => r \in x.todo
             /\ x.pending[r].cert # NoCert => (x.pending[r].missing <=> x.plan[r] \notin Files)
  <2>1. Fits(c, r, x.read[r]) /\ Fits(c, r, x.pending[r].cert)
    BY <1>2, <1>4, <1>6 DEF Staged
  <2>2. x.read[r] # NoCert => r \in x.todo
    BY <1>1, <1>2, <1>6 DEF Staged
  <2> QED
    BY <1>2, <1>6, <2>1, <2>2 DEF Staged
<1> QED
  BY <1>1, <1>3, <1>5, <1>6, <1>8, Prepares

LEMMA PutStep == ASSUME CertInv, NEW c \in Candidates, NEW s \in Sites, Put(c, s) PROVE CertInv'
<1> DEFINE missing == cand[c].plan[s] \notin Files
           old == cand[c].pending[s]
           new == IF missing /\ Get(c, s) # NoCert THEN old
                  ELSE [old EXCEPT !.cert = cand[c].read[s], !.missing = missing]
           x == [cand[c] EXCEPT !.todo = cand[c].todo \ {s}, !.read = [cand[c].read EXCEPT ![s] = NoCert],
                                !.pending = [cand[c].pending EXCEPT ![s] = new]]
<1>1. /\ cand[c].pc = "load" /\ cand[c].read[s] # NoCert
      /\ UNCHANGED <<store, generation, plan, wanted, order, disk, due>>
  BY DEF Put
<1>2. cand[c] \in CandStates /\ cand \in [Candidates -> CandStates] /\ Staged(c)
  BY DEF CertInv, CertTypes
<1>3. cand' = [cand EXCEPT ![c] = x]
  <2>1. cand' = [cand EXCEPT
          ![c].todo = @ \ {s},
          ![c].read[s] = NoCert,
          ![c].pending[s] = IF missing /\ Get(c, s) # NoCert THEN @
                            ELSE [@ EXCEPT !.cert = cand[c].read[s], !.missing = missing]]
    BY DEF Put
  <2> QED
    BY <1>2, <2>1 DEF CandStates
<1>4. cand[c].read[s] \in Cert /\ old \in Updates /\ missing \in BOOLEAN /\ NoCert \in Cert
  BY <1>2, NothingTyped DEF CandStates
<1>5. /\ new \in Updates
      /\ new = old \/ (new.cert = cand[c].read[s] /\ (new.missing <=> missing))
  <2>1. CASE missing /\ Get(c, s) # NoCert
    BY <1>4, <2>1
  <2>2. CASE ~(missing /\ Get(c, s) # NoCert)
    <3>1. new = [old EXCEPT !.cert = cand[c].read[s], !.missing = missing]
      BY <2>2
    <3> HIDE DEF old, missing
    <3> QED
      BY <1>4, <3>1 DEF Updates
  <2> QED
    BY <2>1, <2>2
<1>6. x \in CandStates
  <2> HIDE DEF new
  <2> QED
    BY <1>2, <1>4, <1>5 DEF CandStates
<1>7. /\ x.plan = cand[c].plan /\ x.base = cand[c].base /\ x.todo = cand[c].todo \ {s}
      /\ x.pending[s] = new /\ x.read[s] = NoCert
      /\ \A r \in Sites : r # s => x.read[r] = cand[c].read[r] /\ x.pending[r] = cand[c].pending[r]
  <2> HIDE DEF new
  <2> QED
    BY <1>2 DEF CandStates
<1>8. cand'[c] = x
  BY <1>2, <1>3
<1> HIDE DEF x
<1>9. /\ Fits(c, s, new.cert)
      /\ new.cert # NoCert => (new.missing <=> cand[c].plan[s] \notin Files)
  <2> HIDE DEF new
  <2> QED
    BY <1>2, <1>5 DEF Staged
<1> HIDE DEF new
<1>10. ASSUME NEW r \in Sites
       PROVE  /\ Fits(c, r, x.read[r]) /\ Fits(c, r, x.pending[r].cert)
              /\ x.read[r] # NoCert => r \in x.todo
              /\ x.pending[r].cert # NoCert => (x.pending[r].missing <=> x.plan[r] \notin Files)
  <2>1. Fits(c, r, NoCert)
    BY DEF Fits
  <2>2. Fits(c, r, x.read[r]) /\ Fits(c, r, x.pending[r].cert)
    <3>1. CASE r = s
      <4>1. x.read[r] = NoCert /\ x.pending[r].cert = new.cert
        BY <1>7, <3>1
      <4>2. Fits(c, r, new.cert)
        BY <1>9, <3>1
      <4> QED
        BY <2>1, <4>1, <4>2
    <3>2. CASE r # s
      BY <1>2, <1>7, <3>2 DEF Staged
    <3> QED
      BY <3>1, <3>2
  <2>3. x.read[r] # NoCert => r \in x.todo
    BY <1>1, <1>2, <1>7 DEF Staged
  <2> QED
    BY <1>2, <1>7, <1>9, <2>2, <2>3 DEF Staged
<1> QED
  BY <1>1, <1>3, <1>6, <1>7, <1>10, Prepares

-----------------------------------------------------------------------------
\* A step of the worker's order by itself.
LEMMA OrderMoves ==
  ASSUME CertInv, UNCHANGED <<store, generation, plan, wanted, cand, disk, due>>,
         order' \in OrderStates, Placed', Lapsed', Holding'
  PROVE  CertInv'
<1>1. UNCHANGED <<entries, owners, managed, generation, plan, wanted, cand, disk, due>>
  BY DEF store
<1>2. CertTypes'
  BY <1>1 DEF CertInv, CertTypes
<1>3. /\ Unmanaged' /\ (\A s \in Sites, f \in Files : disk'[s][f] >= 1)
      /\ ServesOwnMaterial' /\ (\A s \in Sites : Behind(s)')
  BY <1>1 DEF CertInv, Unmanaged, ServesOwnMaterial, Behind, Late
<1>4. \A c \in Candidates : Staged(c)'
  BY <1>1 DEF CertInv, Staged, Fits
<1> QED
  BY <1>2, <1>3, <1>4 DEF CertInv

LEMMA Idle == ASSUME order' = NoOrder PROVE order' \in OrderStates /\ Placed' /\ Lapsed' /\ Holding'
<1>1. order'.pc = "idle" /\ order'.lapsed = FALSE /\ order' \in OrderStates
  BY NothingTyped
<1> QED
  BY <1>1 DEF Placed, Lapsed, Holding

\* Moving an order on without anything else.
LEMMA Relabelled ==
  ASSUME order \in OrderStates, NEW x \in OrderLabels, order' = [order EXCEPT !.pc = x]
  PROVE  /\ order' \in OrderStates /\ order'.pc = x /\ order'.site = order.site /\ order'.by = order.by
         /\ order'.token = order.token /\ order'.serial = order.serial /\ order'.lapsed = order.lapsed
  BY DEF OrderStates

LEMMA BeginStep == ASSUME CertInv, NEW s \in Sites, NEW a \in Accounts, Begin(s, a) PROVE CertInv'
<1>1. /\ order' = [NoOrder EXCEPT !.pc = "waiting", !.site = s, !.by = a, !.token = owners[s].token]
      /\ <<s, a>> \in wanted /\ Issuance(s, a)
      /\ UNCHANGED <<store, generation, plan, wanted, cand, disk, due>>
  BY DEF Begin
<1>2. owners[s] \in OwnerStates /\ owners' = owners /\ managed' = managed
  BY <1>1 DEF CertInv, CertTypes, store
<1>3. managed
  BY <1>1 DEF CertInv, Unmanaged
<1>4. owners[s] # NoOwner /\ owners[s].identity = a /\ owners[s].token \in Tokens
  BY <1>1, <1>2, <1>3, OwnerParts DEF Issuance
<1>5. /\ order' \in OrderStates /\ order'.pc = "waiting" /\ order'.site = s /\ order'.by = a
      /\ order'.token = owners[s].token /\ order'.lapsed = FALSE
  BY <1>1, <1>4, NothingTyped DEF NoOrder, OrderStates, OrderLabels
<1>6. Placed' /\ Lapsed' /\ Holding'
  BY <1>2, <1>3, <1>4, <1>5 DEF Placed, Lapsed, Holding
<1> QED
  BY <1>1, <1>5, <1>6, OrderMoves

\* The steps between the awaits that write nothing.
LEMMA QuietSteps ==
  ASSUME CertInv, Lock \/ Order \/ Issued \/ Refused \/ Persist \/ SaveFails
  PROVE  CertInv'
<1>1. UNCHANGED <<store, generation, plan, wanted, cand, disk, due>>
  BY DEF Lock, Order, Issued, Refused, Persist, SaveFails
<1>2. UNCHANGED <<entries, owners, managed, disk, due>>
  BY <1>1 DEF store
<1>3. order \in OrderStates /\ Placed /\ Lapsed /\ Holding
  BY DEF CertInv, CertTypes
<1>4. CASE order' = NoOrder
  BY <1>1, <1>4, Idle, OrderMoves
<1>5. CASE Lock /\ order' # NoOrder
  <2>1. order.pc = "waiting" /\ order' = [order EXCEPT !.pc = "locked"]
    BY <1>5 DEF Lock, OrderGoes, Ends
  <2>2. /\ order' \in OrderStates /\ order'.pc = "locked" /\ order'.site = order.site /\ order'.by = order.by
        /\ order'.token = order.token /\ order'.lapsed = order.lapsed
    BY <1>3, <2>1, Relabelled DEF OrderLabels
  <2>3. Placed' /\ Lapsed' /\ Holding'
    BY <1>2, <1>3, <2>1, <2>2 DEF Placed, Lapsed, Holding
  <2> QED
    BY <1>1, <2>2, <2>3, OrderMoves
<1>6. CASE Order
  <2>1. /\ order.pc = "locked" /\ order' = [order EXCEPT !.pc = "ordering"]
        /\ Late(order.site, order.by)
    BY <1>6 DEF Order, OrderGoes, Late
  <2>2. /\ order' \in OrderStates /\ order'.pc = "ordering" /\ order'.site = order.site /\ order'.by = order.by
        /\ order'.token = order.token /\ order'.lapsed = order.lapsed
    BY <1>3, <2>1, Relabelled DEF OrderLabels
  <2>3. Placed' /\ Lapsed' /\ Holding'
    BY <1>2, <1>3, <2>1, <2>2 DEF Placed, Lapsed, Holding, Late
  <2> QED
    BY <1>1, <2>2, <2>3, OrderMoves
<1>7. CASE Issued
  <2>1. /\ order.pc = "ordering" /\ disk[order.site][order.by] < MaxSerial
        /\ order' = [order EXCEPT !.pc = "issued", !.serial = disk[order.site][order.by] + 1]
    BY <1>7 DEF Issued
  <2>2. order.site \in Sites /\ order.by \in Accounts /\ Late(order.site, order.by)
    BY <1>3, <2>1 DEF Placed, Holding
  <2>3. disk[order.site][order.by] \in 0..MaxSerial /\ MaxSerial \in Nat
    BY <2>2, CertificatesAssumption DEF CertInv, CertTypes, Identities
  <2>4. /\ order' \in OrderStates /\ order'.pc = "issued" /\ order'.site = order.site /\ order'.by = order.by
        /\ order'.token = order.token /\ order'.lapsed = order.lapsed
        /\ order'.serial = disk[order.site][order.by] + 1
    <3>1. PICK n \in 0..MaxSerial : n = disk[order.site][order.by] + 1
      BY <2>1, <2>3
    <3>2. order' = [order EXCEPT !.pc = "issued", !.serial = n]
      BY <2>1, <3>1
    <3> QED
      BY <1>3, <3>1, <3>2 DEF OrderStates, OrderLabels
  <2>5. entries[order.site].by = order.by => entries[order.site].serial <= disk[order.site][order.by] + 1
    <3>1. entries[order.site] \in Cert /\ Behind(order.site)
      BY <2>2 DEF CertInv, CertTypes
    <3>2. SUFFICES ASSUME entries[order.site].by = order.by
                   PROVE  entries[order.site].serial <= disk[order.site][order.by] + 1
      OBVIOUS
    <3>3. entries[order.site] # NoCert /\ entries[order.site].serial \in Nat
      BY <2>2, <3>1, <3>2, CertParts, CertificatesAssumption DEF Identities
    <3> QED
      BY <2>2, <2>3, <3>1, <3>2, <3>3 DEF Behind
  <2>6. Placed' /\ Lapsed'
    BY <1>2, <1>3, <2>1, <2>4 DEF Placed, Lapsed
  <2>7. Holding'
    BY <1>2, <1>3, <2>1, <2>2, <2>4, <2>5 DEF Holding, Late
  <2> QED
    BY <1>1, <2>4, <2>6, <2>7, OrderMoves
<1>8. CASE (Persist \/ SaveFails) /\ order' # NoOrder
  <2>1. \/ order.pc = "issued" /\ order' = [order EXCEPT !.pc = "saving"]
        \/ order.pc = "saving" /\ order' = [order EXCEPT !.pc = "saved"]
    BY <1>8 DEF Persist, SaveFails, OrderGoes, Ends
  <2>2. /\ order' \in OrderStates /\ order'.pc \in {"saving", "saved"}
        /\ order'.site = order.site /\ order'.by = order.by
        /\ order'.token = order.token /\ order'.lapsed = order.lapsed /\ order'.serial = order.serial
    BY <1>3, <2>1, Relabelled DEF OrderLabels
  <2>3. Placed' /\ Lapsed' /\ Holding'
    BY <1>2, <1>3, <2>1, <2>2 DEF Placed, Lapsed, Holding, Late
  <2> QED
    BY <1>1, <2>2, <2>3, OrderMoves
<1> QED
  BY <1>4, <1>5, <1>6, <1>7, <1>8 DEF Refused, Ends

\* Neither certificate nor candidate minds a disk that only gets newer, as long
\* as what is no longer late has caught up.
LEMMA Newer ==
  ASSUME CertInv, UNCHANGED <<store, generation, plan, wanted, cand>>,
         NEW s \in Sites, NEW i \in Files \cup Accounts, NEW n \in 0..MaxSerial, n >= disk[s][i],
         disk' = [disk EXCEPT ![s][i] = n], due' \subseteq Sites \X Accounts,
         i \in Accounts /\ entries[s].by = i => entries[s].serial <= n,
         \A r \in Sites, a \in Accounts : <<r, a>> # <<s, i>> => (<<r, a>> \in due' <=> <<r, a>> \in due),
         order' \in OrderStates, Placed', Lapsed', Holding'
  PROVE  CertInv'
<1>1. UNCHANGED <<entries, owners, managed, generation, plan, wanted, cand>>
  BY DEF store
<1>2. disk \in [Sites -> [Identities -> 0..MaxSerial]] /\ i \in Identities
  BY DEF CertInv, CertTypes, Identities
<1>3. /\ disk' \in [Sites -> [Identities -> 0..MaxSerial]] /\ disk'[s][i] = n
      /\ \A r \in Sites, j \in Identities : <<r, j>> # <<s, i>> => disk'[r][j] = disk[r][j]
  BY <1>2
<1>4. \A r \in Sites, j \in Identities :
        disk[r][j] \in 0..MaxSerial /\ disk'[r][j] \in 0..MaxSerial /\ disk'[r][j] >= disk[r][j]
  <2> SUFFICES ASSUME NEW r \in Sites, NEW j \in Identities PROVE disk'[r][j] >= disk[r][j]
    BY <1>2, <1>3
  <2>1. CASE r = s /\ j = i
    BY <1>3, <2>1
  <2>2. CASE <<r, j>> # <<s, i>>
    BY <1>2, <1>3, <2>2, CertificatesAssumption
  <2> QED
    BY <2>1, <2>2
<1>5. CertTypes'
  BY <1>1, <1>3 DEF CertInv, CertTypes
<1>6. Unmanaged' /\ ServesOwnMaterial'
  BY <1>1 DEF CertInv, Unmanaged, ServesOwnMaterial
<1>7. \A r \in Sites, f \in Files : disk'[r][f] >= 1
  <2> SUFFICES ASSUME NEW r \in Sites, NEW f \in Files PROVE disk'[r][f] >= 1
    OBVIOUS
  <2>1. disk[r][f] >= 1 /\ f \in Identities
    BY DEF CertInv, Identities
  <2> QED
    BY <1>4, <2>1, CertificatesAssumption
<1>8. ASSUME NEW r \in Sites PROVE Behind(r)'
  <2>1. Behind(r) /\ entries[r] \in Cert /\ entries'[r] = entries[r]
    BY <1>1 DEF CertInv, CertTypes
  <2> SUFFICES ASSUME entries[r] # NoCert PROVE Behind(r)'
    BY <2>1 DEF Behind
  <2> DEFINE b == entries[r].by
  <2>2. b \in Identities /\ entries[r].serial \in 1..MaxSerial
    BY <2>1, CertParts
  <2>3. disk[r][b] \in Nat /\ disk'[r][b] \in Nat /\ disk'[r][b] >= disk[r][b] /\ entries[r].serial \in Nat
    BY <1>4, <2>2, CertificatesAssumption
  <2>4. b \in Files => entries[r].serial <= disk'[r][b]
    BY <2>1, <2>3 DEF Behind
  <2>5. ASSUME b \in Accounts
        PROVE  entries[r].serial <= disk'[r][b] \/ (entries[r].serial = disk'[r][b] + 1 /\ Late(r, b)')
    <3>1. CASE <<r, b>> = <<s, i>>
      BY <1>3, <2>5, <3>1
    <3>2. CASE <<r, b>> # <<s, i>>
      <4>1. disk'[r][b] = disk[r][b] /\ (<<r, b>> \in due' <=> <<r, b>> \in due)
        BY <1>3, <2>2, <2>5, <3>2
      <4> QED
        BY <2>1, <2>3, <2>5, <4>1 DEF Behind, Late
    <3> QED
      BY <3>1, <3>2
  <2> QED
    BY <2>1, <2>4, <2>5 DEF Behind
<1>9. ASSUME NEW c \in Candidates PROVE Staged(c)'
  <2>1. Staged(c) /\ cand[c] \in CandStates
    BY DEF CertInv, CertTypes
  <2>2. ASSUME NEW r \in Sites, NEW x \in Cert, Fits(c, r, x) PROVE Fits(c, r, x)'
    <3> SUFFICES ASSUME x # NoCert PROVE Fits(c, r, x)'
      BY DEF Fits
    <3>1. x.by \in Identities /\ x.serial \in 1..MaxSerial
      BY CertParts
    <3>2. x.by \in Files \cup Accounts => x.serial <= disk'[r][x.by]
      BY <1>4, <2>2, <3>1, CertificatesAssumption DEF Fits
    <3> QED
      BY <1>1, <2>2, <3>2 DEF Fits
  <2>3. \A r \in Sites : cand[c].read[r] \in Cert /\ cand[c].pending[r].cert \in Cert
    BY <2>1 DEF CandStates, Updates
  <2>4. \A r \in Sites : Fits(c, r, cand[c].read[r])' /\ Fits(c, r, cand[c].pending[r].cert)'
    <3> SUFFICES ASSUME NEW r \in Sites
                 PROVE  Fits(c, r, cand[c].read[r])' /\ Fits(c, r, cand[c].pending[r].cert)'
      OBVIOUS
    <3>2. PICK x \in Cert, y \in Cert : x = cand[c].read[r] /\ y = cand[c].pending[r].cert
      BY <2>3
    <3>3. Fits(c, r, x) /\ Fits(c, r, y)
      BY <2>1, <3>2 DEF Staged
    <3>4. Fits(c, r, x)' /\ Fits(c, r, y)'
      BY <2>2, <3>3
    <3>5. cand'[c].read[r] = x /\ cand'[c].pending[r].cert = y
      BY <1>1, <3>2
    <3> QED
      BY <3>4, <3>5 DEF Fits
  <2> QED
    BY <1>1, <2>1, <2>4 DEF Staged
<1> QED
  BY <1>5, <1>6, <1>7, <1>8, <1>9 DEF CertInv

\* Save, and what happens outside the process.
LEMMA DiskSteps ==
  ASSUME CertInv, Save \/ (\E s \in Sites, a \in Accounts : RenewedElsewhere(s, a))
                       \/ (\E s \in Sites, f \in Files : FileReplaced(s, f))
  PROVE  CertInv'
<1>1. /\ order \in OrderStates /\ Placed /\ Lapsed /\ Holding
      /\ disk \in [Sites -> [Identities -> 0..MaxSerial]] /\ due \subseteq Sites \X Accounts
      /\ MaxSerial \in Nat
  BY CertificatesAssumption DEF CertInv, CertTypes
<1>2. UNCHANGED <<store, generation, plan, wanted, cand>>
  BY DEF Save, RenewedElsewhere, FileReplaced
<1>3. UNCHANGED <<entries, owners, managed>>
  BY <1>2 DEF store
<1>4. CASE Save
  <2>1. /\ order.pc = "saving" /\ order' = [order EXCEPT !.pc = "saved"]
        /\ disk' = [disk EXCEPT ![order.site][order.by] = order.serial]
        /\ due' = due \ {<<order.site, order.by>>}
    BY <1>4 DEF Save, OrderGoes
  <2>2. PICK s \in Sites, a \in Accounts, n \in 0..MaxSerial : s = order.site /\ a = order.by /\ n = order.serial
    BY <1>1, <2>1 DEF Placed, OrderStates
  <2>3. disk[s][a] \in Nat /\ n = disk[s][a] + 1 /\ (entries[s].by = a => entries[s].serial <= n)
    BY <1>1, <2>1, <2>2 DEF Holding, Identities
  <2>4. disk' = [disk EXCEPT ![s][a] = n] /\ due' = due \ {<<s, a>>}
    BY <2>1, <2>2
  <2>5. /\ order' \in OrderStates /\ order'.pc = "saved" /\ order'.site = s /\ order'.by = a
        /\ order'.token = order.token /\ order'.serial = n /\ order'.lapsed = order.lapsed
    BY <1>1, <2>1, <2>2, Relabelled DEF OrderLabels
  <2>6. disk'[s][a] = n
    BY <1>1, <2>4 DEF Identities
  <2>7. Placed' /\ Lapsed'
    BY <1>1, <1>3, <2>1, <2>2, <2>5 DEF Placed, Lapsed
  <2>8. Holding'
    BY <1>3, <2>3, <2>5, <2>6 DEF Holding
  <2> QED
    <3>1. n >= disk[s][a] /\ due' \subseteq Sites \X Accounts
      BY <1>1, <2>3, <2>4
    <3>2. a \in Accounts /\ entries[s].by = a => entries[s].serial <= n
      BY <2>3, <2>4
    <3>3. \A r \in Sites, b \in Accounts : <<r, b>> # <<s, a>> => (<<r, b>> \in due' <=> <<r, b>> \in due)
      BY <2>3, <2>4
    <3> QED
      <4>1. order' \in OrderStates /\ disk' = [disk EXCEPT ![s][a] = n]
        BY <2>4, <2>5
      <4> QED
        BY <1>2, <2>7, <2>8, <3>1, <3>2, <3>3, <4>1, Newer
<1>5. ASSUME NEW s \in Sites, NEW a \in Accounts, RenewedElsewhere(s, a) PROVE CertInv'
  <2>1. /\ order.pc \in {"idle", "waiting"} /\ <<s, a>> \in due /\ order' = order
        /\ disk[s][a] < MaxSerial /\ disk' = [disk EXCEPT ![s][a] = @ + 1] /\ due' = due \ {<<s, a>>}
    BY <1>5 DEF RenewedElsewhere
  <2>2. disk[s][a] \in Nat
    BY <1>1 DEF Identities
  <2>3. PICK n \in 0..MaxSerial : n = disk[s][a] + 1
    BY <1>1, <2>1, <2>2
  <2>4. disk' = [disk EXCEPT ![s][a] = n]
    BY <1>1, <2>1, <2>3 DEF Identities
  <2>5. entries[s].by = a => entries[s].serial <= n
    <3>1. entries[s] \in Cert /\ Behind(s)
      BY DEF CertInv, CertTypes
    <3> SUFFICES ASSUME entries[s].by = a PROVE entries[s].serial <= n
      OBVIOUS
    <3>2. entries[s] # NoCert /\ entries[s].serial \in 1..MaxSerial
      BY <3>1, CertParts, CertificatesAssumption DEF Identities
    <3> QED
      BY <1>1, <2>2, <2>3, <3>1, <3>2 DEF Behind
  <2>6. Placed' /\ Lapsed' /\ Holding'
    BY <1>1, <1>3, <2>1 DEF Placed, Lapsed, Holding
  <2> QED
    <3>1. n >= disk[s][a] /\ due' \subseteq Sites \X Accounts
      BY <1>1, <2>1, <2>2, <2>3, <2>5
    <3>2. a \in Accounts /\ entries[s].by = a => entries[s].serial <= n
      BY <2>1, <2>2, <2>3, <2>5
    <3>3. \A r \in Sites, b \in Accounts : <<r, b>> # <<s, a>> => (<<r, b>> \in due' <=> <<r, b>> \in due)
      BY <2>1, <2>2, <2>3, <2>5
    <3> QED
      BY <1>1, <1>2, <2>1, <2>4, <2>6, <3>1, <3>2, <3>3, Newer
<1>6. ASSUME NEW s \in Sites, NEW f \in Files, FileReplaced(s, f) PROVE CertInv'
  <2>1. /\ order' = order /\ due' = due
        /\ disk[s][f] < MaxSerial /\ disk' = [disk EXCEPT ![s][f] = @ + 1]
    BY <1>6 DEF FileReplaced
  <2>2. disk[s][f] \in Nat /\ f \notin Accounts
    BY <1>1, CertificatesAssumption DEF Identities
  <2>3. PICK n \in 0..MaxSerial : n = disk[s][f] + 1
    BY <1>1, <2>1, <2>2
  <2>4. disk' = [disk EXCEPT ![s][f] = n]
    BY <1>1, <2>1, <2>3 DEF Identities
  <2>5. Placed' /\ Lapsed'
    BY <1>1, <1>3, <2>1 DEF Placed, Lapsed
  <2>6. order.pc # "idle" => disk'[order.site][order.by] = disk[order.site][order.by]
    BY <1>1, <2>2, <2>4 DEF Placed, Identities
  <2>7. Holding'
    BY <1>1, <1>3, <2>1, <2>6 DEF Holding, Late
  <2> QED
    <3>1. n >= disk[s][f] /\ due' \subseteq Sites \X Accounts
      BY <1>1, <2>1, <2>2, <2>3
    <3>2. f \in Accounts /\ entries[s].by = f => entries[s].serial <= n
      BY <2>1, <2>2, <2>3
    <3>3. \A r \in Sites, b \in Accounts : <<r, b>> # <<s, f>> => (<<r, b>> \in due' <=> <<r, b>> \in due)
      BY <2>1, <2>2, <2>3
    <3> QED
      BY <1>1, <1>2, <2>1, <2>4, <2>5, <2>7, <3>1, <3>2, <3>3, Newer
<1> QED
  BY <1>4, <1>5, <1>6

LEMMA AgesStep == ASSUME CertInv, NEW s \in Sites, NEW a \in Accounts, Ages(s, a) PROVE CertInv'
<1>1. /\ due' = due \cup {<<s, a>>} /\ disk[s][a] < MaxSerial
      /\ UNCHANGED <<store, generation, plan, wanted, cand, order, disk>>
  BY DEF Ages
<1>2. UNCHANGED <<entries, owners, managed, generation, plan, wanted, cand, order, disk>>
  BY <1>1 DEF store
<1>3. CertTypes'
  BY <1>1, <1>2 DEF CertInv, CertTypes
<1>4. Unmanaged' /\ ServesOwnMaterial' /\ (\A r \in Sites, f \in Files : disk'[r][f] >= 1)
  BY <1>2 DEF CertInv, Unmanaged, ServesOwnMaterial
<1>5. \A r, b : Late(r, b) => Late(r, b)'
  BY <1>1, <1>2 DEF Late
<1>6. \A r \in Sites : Behind(r)'
  BY <1>2, <1>5 DEF CertInv, Behind
<1>7. \A c \in Candidates : Staged(c)'
  BY <1>2 DEF CertInv, Staged, Fits
<1>8. Placed' /\ Lapsed' /\ Holding'
  <2>1. Late(order.site, order.by) => Late(order.site, order.by)'
    BY <1>1, <1>2 DEF Late
  <2> QED
    BY <1>2, <2>1 DEF CertInv, Placed, Lapsed, Holding
<1> QED
  BY <1>3, <1>4, <1>6, <1>7, <1>8 DEF CertInv

LEMMA ReconcileStep == ASSUME CertInv, Reconcile PROVE CertInv'
<1>1. wanted' = AcmeSites(plan) /\ order' = NoOrder /\ UNCHANGED <<store, generation, plan, cand, disk, due>>
  BY DEF Reconcile
<1>2. UNCHANGED <<entries, owners, managed, generation, plan, cand, disk, due>>
  BY <1>1 DEF store
<1>3. /\ order' \in OrderStates /\ Placed' /\ Lapsed' /\ Holding'
  BY <1>1, Idle
<1>4. wanted' \subseteq Sites \X Accounts
  BY <1>1 DEF AcmeSites
<1>5. CertTypes'
  BY <1>2, <1>3, <1>4 DEF CertInv, CertTypes
<1>6. Unmanaged'
  BY <1>1, <1>2, CertificatesAssumption DEF CertInv, Unmanaged, AcmeSites, Identities
<1>7. /\ ServesOwnMaterial' /\ (\A r \in Sites, f \in Files : disk'[r][f] >= 1)
      /\ \A s \in Sites : Behind(s)'
  BY <1>2 DEF CertInv, ServesOwnMaterial, Behind, Late
<1>8. \A c \in Candidates : Staged(c)'
  BY <1>2 DEF CertInv, Staged, Fits
<1> QED
  BY <1>3, <1>5, <1>6, <1>7, <1>8 DEF CertInv

-----------------------------------------------------------------------------
\* An order that may still install: its site has its account's owner.
LEMMA CurrentOwner ==
  ASSUME CertInv, order.pc # "idle", OrderCurrent
  PROVE  /\ order.site \in Sites /\ order.by \in Accounts /\ order.token \in Tokens
         /\ plan[order.site] = order.by /\ ~order.lapsed
<1>1. Placed /\ Lapsed /\ ServesOwnMaterial
  BY DEF CertInv
<1>2. owners[order.site].token = order.token
  BY <1>1 DEF OrderCurrent, Matches, Placed
<1> QED
  BY <1>1, <1>2 DEF Placed, Lapsed, ServesOwnMaterial

\* Installing a certificate of the account that owns the site.
LEMMA Installs ==
  ASSUME CertInv, NEW s \in Sites, NEW a \in Accounts, NEW n \in 1..MaxSerial, plan[s] = a,
         entries' = [entries EXCEPT ![s] = [by |-> a, serial |-> n]], order' = NoOrder,
         \/ n <= disk[s][a]
         \/ n = disk[s][a] + 1 /\ Late(s, a),
         UNCHANGED <<owners, managed, generation, plan, wanted, cand, disk, due>>
  PROVE  CertInv'
<1> DEFINE new == [by |-> a, serial |-> n]
<1>1. new \in Cert /\ new.by = a /\ new.serial = n /\ new # NoCert
  BY CertificatesAssumption DEF Cert, NoCert, Identities
<1>2. entries \in [Sites -> Cert]
  BY DEF CertInv, CertTypes
<1> HIDE DEF new
<1>3. entries' \in [Sites -> Cert] /\ entries'[s] = new /\ \A r \in Sites : r # s => entries'[r] = entries[r]
  BY <1>1, <1>2 DEF new
<1>4. /\ order' \in OrderStates /\ Placed' /\ Lapsed' /\ Holding'
  BY Idle
<1>5. CertTypes'
  BY <1>3, <1>4 DEF CertInv, CertTypes
<1>6. Unmanaged' /\ (\A r \in Sites, f \in Files : disk'[r][f] >= 1)
  BY DEF CertInv, Unmanaged
<1>7. ServesOwnMaterial'
  BY <1>1, <1>3 DEF CertInv, ServesOwnMaterial
<1>8. \A r \in Sites : Behind(r)'
  <2> SUFFICES ASSUME NEW r \in Sites PROVE Behind(r)'
    OBVIOUS
  <2>1. CASE r = s
    BY <1>1, <1>3, <2>1, CertificatesAssumption DEF Behind, Late
  <2>2. CASE r # s
    BY <1>3, <2>2 DEF CertInv, Behind, Late
  <2> QED
    BY <2>1, <2>2
<1>9. ASSUME NEW c \in Candidates PROVE Staged(c)'
  <2>1. Staged(c) /\ a \notin Files
    BY CertificatesAssumption DEF CertInv
  <2>2. \A r \in Sites, f \in Files : entries'[r].by = f => entries'[r] = entries[r]
    BY <1>1, <1>3, <2>1
  <2> QED
    BY <2>1, <2>2 DEF Staged, Fits
<1> QED
  BY <1>4, <1>5, <1>6, <1>7, <1>8, <1>9 DEF CertInv

LEMMA InstallSteps == ASSUME CertInv, AdoptCached \/ Install PROVE CertInv'
<1>1. /\ order \in OrderStates /\ Placed /\ Lapsed /\ Holding /\ MaxSerial \in Nat
      /\ disk \in [Sites -> [Identities -> 0..MaxSerial]]
  BY CertificatesAssumption DEF CertInv, CertTypes
<1>2. /\ order.pc \in {"locked", "saved"} /\ order' = NoOrder
      /\ UNCHANGED <<owners, managed, generation, plan, wanted, cand, disk, due>>
  BY DEF AdoptCached, Install, Ends
<1>3. CASE ~OrderCurrent
  <2>1. entries' = entries
    BY <1>3 DEF AdoptCached, Install, PutIssued
  <2> QED
    BY <1>2, <2>1, Idle, OrderMoves DEF store
<1>4. CASE OrderCurrent
  <2>1. PICK s \in Sites, a \in Accounts : s = order.site /\ a = order.by /\ plan[s] = a
    BY <1>2, <1>4, CurrentOwner
  <2>2. disk[s][a] \in 0..MaxSerial
    BY <1>1 DEF Identities
  <2>3. CASE AdoptCached
    <3>1. /\ disk[s][a] > 0
          /\ entries' = [entries EXCEPT ![s] = [by |-> a, serial |-> disk[s][a]]]
      BY <1>4, <2>1, <2>3 DEF AdoptCached, PutIssued
    <3>2. PICK n \in 1..MaxSerial : n = disk[s][a]
      BY <1>1, <2>2, <3>1
    <3> QED
      <4>1. entries' = [entries EXCEPT ![s] = [by |-> a, serial |-> n]] /\ n <= disk[s][a]
        BY <3>1, <3>2
      <4> QED
        BY <1>2, <2>1, <4>1, Installs
  <2>4. CASE Install
    <3>1. order.pc = "saved" /\ entries' = [entries EXCEPT ![s] = [by |-> a, serial |-> order.serial]]
      BY <1>4, <2>1, <2>4 DEF Install, PutIssued
    <3>2. order.serial \in 0..MaxSerial
      BY <1>1 DEF OrderStates
    <3>3. /\ order.serial > 0
          /\ order.serial <= disk[s][a] \/ (order.serial = disk[s][a] + 1 /\ Late(s, a))
      BY <1>1, <2>1, <2>2, <3>1, <3>2 DEF Holding
    <3>4. PICK n \in 1..MaxSerial : n = order.serial
      BY <1>1, <3>2, <3>3
    <3> QED
      <4>1. entries' = [entries EXCEPT ![s] = [by |-> a, serial |-> n]]
        BY <3>1, <3>4
      <4>2. n <= disk[s][a] \/ (n = disk[s][a] + 1 /\ Late(s, a))
        BY <3>3, <3>4
      <4> QED
        BY <1>2, <2>1, <4>1, <4>2, Installs
  <2> QED
    BY <2>3, <2>4
<1> QED
  BY <1>3, <1>4

-----------------------------------------------------------------------------
\* What a publication does to the owner of a site: the owner stays, or the site
\* gets a token nobody has, the order in flight included.
LEMMA PublishOwners ==
  ASSUME CertInv, NEW c \in Candidates, Publish(c)
  PROVE  /\ owners' \in [Sites -> OwnerStates]
         /\ \A s \in Sites : owners'[s].identity = cand[c].plan[s]
         /\ \A s \in Sites : cand[c].plan[s] # None =>
              \/ owners'[s] = owners[s]
              \/ owners[s].identity # cand[c].plan[s] /\ owners'[s].token \notin InUse(c)
         /\ \A s \in Sites : owners[s].identity # cand[c].plan[s] => owners'[s] # owners[s]
         /\ \A s, t \in Sites : owners'[s].token = owners'[t].token /\ owners'[s] # NoOwner => s = t
<1>1. PICK fresh \in [Claimed(c) -> Tokens \ InUse(c)] :
        (\A s, t \in Claimed(c) : fresh[s] = fresh[t] => s = t) /\ owners' = OwnersAfter(c, fresh)
  BY DEF Publish
<1>2. PICK p \in Plans : p = cand[c].plan
  BY DEF CertInv, CertTypes, CandStates
<1>3. owners \in [Sites -> OwnerStates] /\ ServesOwnMaterial
  BY DEF CertInv, CertTypes
<1>4. Claimed(c) = {s \in Sites : p[s] # None /\ owners[s].identity # p[s]}
  BY <1>2 DEF Claimed, TlsSites
<1>5. ASSUME NEW s \in Sites
      PROVE  /\ owners'[s] \in OwnerStates /\ owners'[s].identity = p[s]
             /\ p[s] = None => owners'[s] = NoOwner
             /\ p[s] # None /\ s \notin Claimed(c) => owners'[s] = owners[s]
             /\ s \in Claimed(c) => owners'[s].token = fresh[s] /\ fresh[s] \in Tokens \ InUse(c)
             /\ owners[s].identity # p[s] => owners'[s] # owners[s]
  <2>1. owners'[s] = IF p[s] = None THEN NoOwner
                     ELSE IF s \in Claimed(c) THEN [identity |-> p[s], token |-> fresh[s]] ELSE owners[s]
    BY <1>1, <1>2 DEF OwnersAfter
  <2>2. CASE p[s] = None
    <3>1. s \notin Claimed(c) /\ owners'[s] = NoOwner
      BY <1>4, <2>1, <2>2
    <3> QED
      BY <2>2, <3>1, NothingTyped DEF NoOwner
  <2>3. CASE s \in Claimed(c)
    <3>1. fresh[s] \in Tokens \ InUse(c) /\ p[s] # None /\ p[s] \in Identities /\ owners[s].identity # p[s]
      BY <1>1, <1>2, <1>4, <2>3 DEF Plans
    <3>2. owners'[s] = [identity |-> p[s], token |-> fresh[s]]
      BY <2>1, <2>3, <3>1
    <3>3. owners'[s] \in OwnerStates /\ owners'[s].identity = p[s] /\ owners'[s].token = fresh[s]
      BY <3>1, <3>2 DEF OwnerStates
    <3> QED
      BY <2>3, <3>1, <3>3
  <2>4. CASE p[s] # None /\ s \notin Claimed(c)
    BY <1>3, <1>4, <2>1, <2>4
  <2> QED
    BY <2>2, <2>3, <2>4
<1>6. owners' \in [Sites -> OwnerStates]
  <2>1. DOMAIN owners' = Sites /\ owners' = [s \in DOMAIN owners' |-> owners'[s]]
    BY <1>1 DEF OwnersAfter
  <2> QED
    BY <1>5, <2>1
<1>7. ASSUME NEW s \in Sites, NEW t \in Sites, owners'[s].token = owners'[t].token, owners'[s] # NoOwner
      PROVE  s = t
  <2>1. owners'[s].token \in Tokens /\ owners'[t] # NoOwner
    BY <1>5, <1>7, OwnerParts, CertificatesAssumption
  <2>2. p[s] # None /\ p[t] # None
    BY <1>5, <1>7, <2>1
  <2>3. CASE s \in Claimed(c) /\ t \in Claimed(c)
    BY <1>1, <1>5, <1>7, <2>3
  <2>4. CASE s \notin Claimed(c) /\ t \notin Claimed(c)
    BY <1>3, <1>5, <1>7, <2>2, <2>4 DEF ServesOwnMaterial
  <2>5. \A r \in Sites : p[r] # None => owners[r].token \in InUse(c)
    BY <1>2 DEF InUse, TlsSites
  <2>6. CASE ~(s \in Claimed(c) <=> t \in Claimed(c))
    BY <1>5, <1>7, <2>2, <2>5, <2>6
  <2> QED
    BY <2>3, <2>4, <2>6
<1> QED
  BY <1>2, <1>4, <1>5, <1>6, <1>7

\* What it does to the certificate of a site.
LEMMA PublishEntries ==
  ASSUME CertInv, NEW c \in Candidates, Publish(c), NEW s \in Sites
  PROVE  /\ entries'[s] \in Cert
         /\ \/ entries'[s] = NoCert /\ (entries[s] = NoCert \/ owners[s].identity # cand[c].plan[s])
            \/ entries'[s] = entries[s] /\ owners[s].identity = cand[c].plan[s]
            \/ /\ entries'[s] = cand[c].pending[s].cert /\ entries'[s] # NoCert
               /\ \/ cand[c].plan[s] \in Files
                  \/ entries[s] = NoCert
                  \/ owners[s].identity # cand[c].plan[s]
<1>1. entries'[s] = EntryAfter(c, s)
  BY DEF Publish
<1>2. PICK update \in Updates : update = cand[c].pending[s]
  BY DEF CertInv, CertTypes, CandStates
<1>3. entries[s] \in Cert /\ NoCert \in Cert /\ update.cert \in Cert
  BY <1>2, NothingTyped DEF CertInv, CertTypes, Updates
<1>4. update.cert # NoCert => (update.missing <=> cand[c].plan[s] \notin Files)
  BY <1>2 DEF CertInv, Staged
<1>5. /\ entries'[s] = Entry(c, s) \/ entries'[s] = update.cert
      /\ entries'[s] # Entry(c, s) => update.cert # NoCert /\ (~update.missing \/ Entry(c, s) = NoCert)
  BY <1>1, <1>2 DEF EntryAfter
<1>6. cand[c].plan[s] = None => entries[s] = NoCert \/ owners[s].identity # cand[c].plan[s]
  BY <1>3, CertParts DEF CertInv, ServesOwnMaterial
<1>7. \/ Entry(c, s) = NoCert /\ (entries[s] = NoCert \/ owners[s].identity # cand[c].plan[s])
      \/ Entry(c, s) = entries[s] /\ owners[s].identity = cand[c].plan[s]
  BY <1>6 DEF Entry, Claimed, TlsSites
<1> QED
  BY <1>2, <1>3, <1>4, <1>5, <1>7

LEMMA PublishStep == ASSUME CertInv, NEW c \in Candidates, Publish(c) PROVE CertInv'
<1>1. /\ cand[c].base = generation /\ generation < MaxGen
      /\ entries' = [s \in Sites |-> EntryAfter(c, s)] /\ managed' = TRUE
      /\ generation' = generation + 1 /\ plan' = cand[c].plan
      /\ cand' = [cand EXCEPT ![c] = NoCand] /\ UNCHANGED <<wanted, disk, due>>
  BY DEF Publish
<1>2. CertTypes /\ Staged(c) /\ ServesOwnMaterial /\ MaxGen \in Nat /\ MaxSerial \in Nat
  BY CertificatesAssumption DEF CertInv
<1>3. PICK p \in Plans : p = cand[c].plan
  BY <1>2 DEF CertTypes, CandStates
<1>4. /\ owners' \in [Sites -> OwnerStates]
      /\ \A s \in Sites : owners'[s].identity = p[s]
      /\ \A s \in Sites : p[s] # None =>
           \/ owners'[s] = owners[s]
           \/ owners[s].identity # p[s] /\ owners'[s].token # order.token
      /\ \A s, t \in Sites : owners'[s].token = owners'[t].token /\ owners'[s] # NoOwner => s = t
  BY <1>3, PublishOwners DEF InUse
<1>5. \A s \in Sites : entries'[s] \in Cert
  BY PublishEntries
<1>6. /\ order' \in OrderStates /\ order'.pc = order.pc /\ order'.site = order.site /\ order'.by = order.by
      /\ order'.token = order.token /\ order'.serial = order.serial
      /\ order'.lapsed => order.lapsed \/ Lapses(c)
  <2>1. order' = [order EXCEPT !.lapsed = @ \/ Lapses(c)]
    BY DEF Publish
  <2>2. order \in OrderStates /\ order.lapsed \in BOOLEAN
    BY <1>2 DEF CertTypes, OrderStates
  <2>3. PICK l \in BOOLEAN : l <=> order.lapsed \/ Lapses(c)
    OBVIOUS
  <2>4. order' = [order EXCEPT !.lapsed = l]
    BY <2>1, <2>2, <2>3, Zenon
  <2> QED
    BY <2>2, <2>3, <2>4 DEF OrderStates
<1>7. CertTypes'
  <2>1. cand' \in [Candidates -> CandStates]
    BY <1>1, <1>2, NothingTyped DEF CertTypes
  <2>2. entries' \in [Sites -> Cert]
    BY <1>1, <1>5
  <2>3. generation' \in 0..MaxGen
    BY <1>1, <1>2 DEF CertTypes
  <2> QED
    BY <1>1, <1>2, <1>3, <1>4, <1>6, <2>1, <2>2, <2>3 DEF CertTypes
<1>8. Unmanaged' /\ \A r \in Sites, f \in Files : disk'[r][f] >= 1
  BY <1>1 DEF CertInv, Unmanaged
\* a served certificate is its source's, and on disk
<1>9. ASSUME NEW s \in Sites, entries'[s] # NoCert
      PROVE  /\ entries'[s].by = p[s]
             /\ p[s] \in Files => entries'[s].serial <= disk[s][p[s]]
             /\ \/ entries'[s] = entries[s]
                \/ p[s] \in Accounts => entries'[s].serial <= disk[s][p[s]]
  <2>1. CASE entries'[s] = entries[s] /\ owners[s].identity = p[s]
    BY <1>2, <1>9, <2>1 DEF ServesOwnMaterial, CertInv, Behind
  <2>2. CASE entries'[s] = cand[c].pending[s].cert
    <3>1. Fits(c, s, cand[c].pending[s].cert)
      BY <1>2 DEF Staged
    <3> QED
      BY <1>3, <1>9, <2>2, <3>1 DEF Fits
  <2> QED
    BY <1>3, <1>9, <2>1, <2>2, PublishEntries
<1>10. ServesOwnMaterial'
  BY <1>1, <1>3, <1>4, <1>9 DEF ServesOwnMaterial
<1>11. \A s \in Sites : Behind(s)'
  BY <1>1, <1>9 DEF CertInv, Behind, Late
<1>12. ASSUME NEW d \in Candidates PROVE Staged(d)'
  <2>1. CASE d = c
    <3>1. cand'[d] = NoCand /\ generation' \in Nat
      BY <1>1, <1>2, <2>1 DEF CertTypes
    <3> QED
      BY <3>1, NothingTyped DEF Staged, Fits
  <2>2. CASE d # c
    <3>1. cand'[d] = cand[d] /\ Staged(d) /\ cand[d].base \in Nat /\ generation \in Nat
      BY <1>1, <1>2, <2>2 DEF CertTypes, CandStates, CertInv
    <3>2. cand[d].base # generation' /\ cand[d].base <= generation'
      BY <1>1, <3>1 DEF Staged
    <3> QED
      BY <1>1, <3>1, <3>2 DEF Staged, Fits
  <2> QED
    BY <2>1, <2>2
<1>13. Placed'
  <2> SUFFICES ASSUME order.pc # "idle" PROVE Placed'
    BY <1>6 DEF Placed
  <2>1. PICK s \in Sites : s = order.site /\ order.by \in Accounts /\ order.token \in Tokens
    BY DEF CertInv, Placed
  <2>2. ASSUME owners'[s].token = order.token PROVE owners'[s].identity = order.by
    <3>1. p[s] # None
      <4> SUFFICES ASSUME p[s] = None PROVE FALSE
        OBVIOUS
      <4> QED
        BY <1>4, <2>1, <2>2, OwnerParts, CertificatesAssumption
    <3>2. owners'[s] = owners[s]
      BY <1>4, <2>2, <3>1
    <3> QED
      BY <2>1, <2>2, <3>2 DEF CertInv, Placed
  <2> QED
    BY <1>1, <1>6, <2>1, <2>2 DEF Placed
<1>14. Lapsed'
  <2> SUFFICES ASSUME order'.lapsed PROVE order.pc # "idle" /\ owners'[order.site].token # order.token
    BY <1>6 DEF Lapsed
  <2>1. order.pc # "idle"
    BY <1>6 DEF CertInv, Lapsed, Lapses
  <2>2. PICK s \in Sites : s = order.site /\ order.token \in Tokens
    BY <2>1 DEF CertInv, Placed
  <2>3. CASE p[s] = None
    BY <1>4, <2>1, <2>2, <2>3, OwnerParts, CertificatesAssumption
  <2>4. CASE p[s] # None /\ owners'[s] = owners[s]
    <3>1. ~Lapses(c)
      <4>1. owners[s].identity = p[s]
        BY <1>4, <2>4
      <4> QED
        BY <1>3, <2>2, <2>4, <4>1 DEF Lapses, Claimed
    <3> QED
      BY <1>6, <2>1, <2>2, <2>4, <3>1 DEF CertInv, Lapsed
  <2> QED
    BY <1>4, <2>1, <2>2, <2>3, <2>4
<1>15. Holding'
  <2> SUFFICES ASSUME order.pc # "idle" PROVE Holding'
    BY <1>6 DEF Holding
  <2>1. PICK s \in Sites, a \in Accounts : s = order.site /\ a = order.by
    BY DEF CertInv, Placed
  <2>2. disk[s][a] \in Nat /\ order.serial \in Nat
    BY <1>2 DEF CertTypes, OrderStates, Identities
  <2>3. ASSUME order.pc \in {"issued", "saving", "saved"}, entries'[s].by = a
        PROVE  entries'[s].serial <= order.serial
    <3>1. disk[s][a] <= order.serial /\ (entries[s].by = a => entries[s].serial <= order.serial)
      BY <2>1, <2>2, <2>3 DEF CertInv, Holding
    <3>2. entries'[s] # NoCert /\ entries'[s].serial \in Nat
      BY <1>2, <1>5, <2>3, CertParts, CertificatesAssumption DEF Identities
    <3> QED
      BY <1>9, <2>2, <2>3, <3>1, <3>2
  <2> QED
    BY <1>1, <1>6, <2>1, <2>3 DEF CertInv, Holding, Late
<1> QED
  BY <1>7, <1>8, <1>10, <1>11, <1>12, <1>13, <1>14, <1>15 DEF CertInv

LEMMA CertStart == Init => CertInv
<1> SUFFICES ASSUME Init PROVE CertInv
  OBVIOUS
<1>1. /\ \A s \in Sites : entries[s] = NoCert /\ owners[s] = NoOwner /\ plan[s] = None
      /\ \A c \in Candidates : cand[c] = NoCand
      /\ order = NoOrder /\ generation = 0 /\ managed = FALSE /\ wanted = {}
  BY DEF Init
<1>2. CertTypes
  <2>1. disk \in [Sites -> [Identities -> 0..MaxSerial]]
    <3>1. disk \in [Sites -> [Identities -> 0..1]] /\ 0..1 \subseteq 0..MaxSerial
      BY CertificatesAssumption DEF Init
    <3> QED
      BY <3>1
  <2>2. entries \in [Sites -> Cert] /\ owners \in [Sites -> OwnerStates] /\ cand \in [Candidates -> CandStates]
    BY NothingTyped DEF Init
  <2> QED
    <3>1. plan \in Plans /\ generation \in 0..MaxGen
      BY CertificatesAssumption DEF Init, Plans
    <3>2. order \in OrderStates /\ managed \in BOOLEAN /\ wanted = {} /\ due = {}
      BY NothingTyped DEF Init
    <3> QED
      BY <2>1, <2>2, <3>1, <3>2 DEF CertTypes
<1>3. Unmanaged /\ Placed /\ Lapsed /\ Holding
  BY <1>1, NothingTyped DEF Unmanaged, Placed, Lapsed, Holding
<1>4. \A s \in Sites, f \in Files : disk[s][f] >= 1
  BY DEF Init
<1>5. ServesOwnMaterial /\ \A s \in Sites : Behind(s)
  BY <1>1 DEF ServesOwnMaterial, Behind, NoOwner
<1>6. \A c \in Candidates : Staged(c)
  BY <1>1, NothingTyped DEF Staged, Fits
<1> QED
  BY <1>2, <1>3, <1>4, <1>5, <1>6 DEF CertInv

LEMMA CertKept == CertInv /\ [Next]_vars => CertInv'
<1> SUFFICES ASSUME CertInv, [Next]_vars PROVE CertInv'
  OBVIOUS
<1>1. CASE UNCHANGED vars
  <2>1. /\ UNCHANGED <<store, generation, plan, wanted, cand, disk, due>> /\ order' = order
        /\ UNCHANGED <<entries, owners, managed, generation, plan, wanted, cand, disk, due>>
    BY <1>1 DEF vars, store
  <2>2. order' \in OrderStates /\ Placed' /\ Lapsed' /\ Holding'
    BY <2>1 DEF CertInv, CertTypes, Placed, Lapsed, Holding, Late
  <2> QED
    BY <2>1, <2>2, OrderMoves
<1>2. CASE Next
  BY <1>2, ClaimStep, LoadStep, PutStep, DropStep, PublishStep, ReconcileStep, BeginStep, QuietSteps,
     InstallSteps, DiskSteps, AgesStep DEF Next, OrderStep
<1> QED
  BY <1>1, <1>2

LEMMA CertAlways == Spec => []CertInv
  BY CertStart, CertKept, PTL DEF Spec

\* A handshake gets material of the source the published plan names, and nothing
\* else (store.rs, server.rs, acme/manager.rs), whatever candidates, orders, other
\* processes and operators do meanwhile.
THEOREM OwnMaterial == Spec => []ServesOwnMaterial
<1>1. CertInv => ServesOwnMaterial
  BY DEF CertInv
<1> QED
  BY <1>1, CertAlways, PTL

\* An order whose site changed hands installs nothing (issuance_matches compares
\* tokens), and neither a reload nor a late order replaces a certificate by an
\* older one while its owner stays.
THEOREM Renewals == Spec => NeverRegresses
<1> DEFINE A == \A s \in Sites :
       /\ order.lapsed /\ entries'[s] # entries[s] => generation' # generation
       /\ owners'[s] = owners[s] /\ entries[s] # NoCert
            => entries'[s].serial >= entries[s].serial
<1>1. ASSUME CertInv, Next PROVE A
  <2>1. /\ \A s \in Sites : entries[s] \in Cert /\ entries[s].serial \in Nat
        /\ generation \in Nat /\ MaxSerial \in Nat
    <3>1. MaxGen \in Nat /\ MaxSerial \in Nat /\ entries \in [Sites -> Cert] /\ generation \in 0..MaxGen
      BY <1>1, CertificatesAssumption DEF CertInv, CertTypes
    <3> QED
      BY <3>1, CertParts
  <2>2. CASE entries' = entries
    BY <2>1, <2>2
  <2>3. ASSUME NEW c \in Candidates, Publish(c) PROVE A
    <3>1. generation' = generation + 1
      BY <2>3 DEF Publish
    <3> SUFFICES ASSUME NEW s \in Sites, owners'[s] = owners[s], entries[s] # NoCert
                 PROVE  entries'[s].serial >= entries[s].serial
      BY <2>1, <3>1
    <3>2. owners[s].identity = cand[c].plan[s]
      BY <1>1, <2>3, PublishOwners
    <3>3. CASE entries'[s] = entries[s]
      BY <2>1, <3>3
    <3>4. CASE entries'[s] = cand[c].pending[s].cert /\ entries'[s] # NoCert /\ cand[c].plan[s] \in Files
      <4>1. Fits(c, s, cand[c].pending[s].cert) /\ entries[s].by = plan[s] /\ owners[s].identity = plan[s]
        BY <1>1 DEF CertInv, Staged, ServesOwnMaterial
      <4>2. cand[c].base = generation
        BY <2>3 DEF Publish
      <4>3. entries[s].serial <= entries'[s].serial
        BY <3>2, <3>4, <4>1, <4>2 DEF Fits
      <4>4. entries'[s].serial \in Nat
        BY <1>1, <2>1, <2>3, PublishEntries, CertParts
      <4> QED
        BY <2>1, <4>3, <4>4
    <3> QED
      BY <1>1, <2>3, <3>2, <3>3, <3>4, PublishEntries
  <2>4. CASE (AdoptCached \/ Install) /\ OrderCurrent
    <3>1. order.pc # "idle" /\ owners' = owners
      BY <2>4 DEF AdoptCached, Install
    <3>2. PICK s \in Sites, a \in Accounts : s = order.site /\ a = order.by /\ plan[s] = a /\ ~order.lapsed
      BY <1>1, <2>4, <3>1, CurrentOwner
    <3>3. PICK n : entries' = [entries EXCEPT ![s] = [by |-> a, serial |-> n]]
                   /\ n = IF AdoptCached THEN disk[s][a] ELSE order.serial
      BY <2>4, <3>2 DEF AdoptCached, Install, PutIssued
    <3>4. disk[s][a] \in 0..MaxSerial /\ order.serial \in 0..MaxSerial /\ Behind(s) /\ Holding
      BY <1>1 DEF CertInv, CertTypes, OrderStates, Identities
    <3>5. n \in Nat
      BY <2>1, <3>3, <3>4
    <3>6. entries[s] # NoCert => entries[s].serial <= n
      <4> SUFFICES ASSUME entries[s] # NoCert PROVE entries[s].serial <= n
        OBVIOUS
      <4>1. entries[s].by = a
        BY <1>1, <3>2 DEF CertInv, ServesOwnMaterial
      <4>2. CASE AdoptCached
        <5>1. disk[s][a] > 0 /\ <<s, a>> \notin due
          BY <3>2, <4>2 DEF AdoptCached
        <5> QED
          BY <2>1, <3>3, <3>4, <4>1, <4>2, <5>1 DEF Behind, Late
      <4>3. CASE ~AdoptCached
        <5>1. order.pc = "saved"
          BY <2>4, <4>3 DEF Install
        <5> QED
          BY <3>2, <3>3, <3>4, <4>1, <4>3, <5>1 DEF Holding
      <4> QED
        BY <4>2, <4>3
    <3>7. entries \in [Sites -> Cert]
      BY <1>1 DEF CertInv, CertTypes
    <3>8. \A r \in Sites : r # s => entries'[r] = entries[r]
      BY <3>3, <3>7
    <3>9. entries'[s].serial = n
      BY <3>3, <3>7
    <3> QED
      BY <2>1, <3>2, <3>5, <3>6, <3>8, <3>9
  <2>5. CASE (AdoptCached \/ Install) /\ ~OrderCurrent
    BY <2>2, <2>5 DEF AdoptCached, Install, PutIssued
  <2>6. CASE ~(AdoptCached \/ Install) /\ ~(\E c \in Candidates : Publish(c))
    <3>1. UNCHANGED store
      BY <1>1, <2>6 DEF Next, OrderStep, Claim, Load, Put, Discard, Stale, Reconcile, Begin, Lock, Order,
         Issued, Refused, Persist, Save, SaveFails, Ages, RenewedElsewhere, FileReplaced
    <3> QED
      BY <2>2, <3>1 DEF store
  <2> QED
    BY <2>3, <2>4, <2>5, <2>6
<1>2. CertInv /\ [Next]_vars => [A]_vars
  BY <1>1
<1> QED
  BY <1>2, CertAlways, PTL DEF Spec, NeverRegresses

=============================================================================
