-------------------------- MODULE Content_proofs --------------------------
(***************************************************************************)
(* Proofs about the response cache (Cache), for every set of requests,     *)
(* targets, answers and limits, about the CGI terminal (Cgi), and about    *)
(* the chain of handlers (Middleware).                                     *)
(*                                                                         *)
(* The inductive invariant of the cache says of the shelf what no request  *)
(* can see (every copy has the signature of what it varies on, and is of a *)
(* version at least the one that was settled), and of each request that    *)
(* what it fetched is as new as what was settled for as long as the store  *)
(* is at the revision that was read before the origin was.                 *)
(*                                                                         *)
(* That of the CGI terminal (Cgi, for every set of requests, generations,  *)
(* configurations and scripts) accounts for each byte the backend wrote:   *)
(* it is with the client, in the channel, with the sink, or the one byte   *)
(* that is kept back until the end of the answer has been found right.  So *)
(* an exchange that stops anywhere leaves an answer that is whole, or one  *)
(* the client can see to be cut short.  It joins to that who owns a permit,*)
(* that the lines of the supervisors hold exactly the queued jobs, once    *)
(* each, and that in a pool that is not closed every process has a permit. *)
(*                                                                         *)
(* That of the chain (Middleware, for every set of requests, chains,       *)
(* answers and files) says of a request on its way in that nothing has     *)
(* been decided and that the limits it passed are on record, of one on its *)
(* way out what its answer may still be, and of both that every log that   *)
(* was passed waits, is with a body, or has written its line.              *)
(***************************************************************************)
EXTENDS Middleware, Cache, Cgi, SequenceTheorems

-----------------------------------------------------------------------------
(* The response cache: shelves.                                            *)

CopyKeys == Targets \X {"r1", "r2"}
Signs == {"none", "x", "y"}
Copies ==
  [id : Int, key : CopyKeys, sign : Signs, ver : Nat, weight : Nat, fresh : BOOLEAN, validator : BOOLEAN,
   header : Signs, varies : BOOLEAN, shared : {TRUE}]
Varying == [key : CopyKeys, on : {"header", "none"}]
Shelves == [copies : Seq(Copies), vary : SUBSET Varying, revision : Nat, bytes : Int]

On(d) == IF d.varies THEN "header" ELSE "none"

\* A shelf whose bytes are the weight of its copies, of which a key has one per
\* signature, all of them under the one thing the key is known to vary on.
OnceEach(s) ==
  \A i, j \in DOMAIN s.copies :
    s.copies[i].key = s.copies[j].key /\ s.copies[i].sign = s.copies[j].sign => i = j
ShelfOk(s) ==
  /\ s \in Shelves
  /\ OnceEach(s)
  /\ s.bytes = WeightOf(CopiesOf(s))
  /\ \A d \in CopiesOf(s) : d.sign = SignatureOf(d, d.varies)
  /\ \A d \in CopiesOf(s) : [key |-> d.key, on |-> On(d)] \in s.vary
  /\ \A v, w \in s.vary : v.key = w.key => v = w
  /\ \A v \in s.vary : \E d \in CopiesOf(s) : d.key = v.key

-----------------------------------------------------------------------------
(* Weights.                                                                *)

\* The weight of a set is a sum over it.
LEMMA WeightIs ==
  ASSUME NEW S
  PROVE  WeightOf(S) = SumFunctionOnSet([c \in S |-> c.weight], S)
<1> DEFINE f == [c \in S |-> c.weight]
<1>1. DOMAIN f = S
  OBVIOUS
<1> QED
  BY <1>1 DEF WeightOf, SumFunction

\* Weights are natural.
LEMMA WeightTyped ==
  ASSUME NEW S, IsFiniteSet(S), \A c \in S : c.weight \in Nat
  PROVE  WeightOf(S) \in Nat
<1> DEFINE f == [c \in S |-> c.weight]
<1>1. \A c \in S : f[c] \in Nat
  OBVIOUS
<1>2. SumFunctionOnSet(f, S) \in Nat
  <2> HIDE DEF f
  <2> QED
    BY <1>1, SumNatural
<1> QED
  BY <1>2, WeightIs

\* Sets that are apart weigh what each weighs.
LEMMA WeightApart ==
  ASSUME NEW S, NEW T, IsFiniteSet(S), IsFiniteSet(T), S \cap T = {}, \A c \in S \cup T : c.weight \in Nat
  PROVE  WeightOf(S \cup T) = WeightOf(S) + WeightOf(T)
<1> DEFINE f == [c \in S |-> c.weight]
           g == [c \in T |-> c.weight]
           h == [c \in S \cup T |-> c.weight]
<1>1. (\A c \in S : f[c] = h[c]) /\ (\A c \in T : g[c] = h[c]) /\ \A c \in S \cup T : h[c] \in Int
  OBVIOUS
<1>2. SumFunctionOnSet(h, S \cup T) = SumFunctionOnSet(f, S) + SumFunctionOnSet(g, T)
  <2> HIDE DEF f, g, h
  <2>1. SumFunctionOnSet(h, S \cup T) = SumFunctionOnSet(h, S) + SumFunctionOnSet(h, T)
    BY <1>1, SumApart
  <2>2. SumFunctionOnSet(f, S) = SumFunctionOnSet(h, S)
    BY <1>1, SumSame
  <2>3. SumFunctionOnSet(g, T) = SumFunctionOnSet(h, T)
    BY <1>1, SumSame
  <2> QED
    BY <2>1, <2>2, <2>3
<1> QED
  BY <1>2, WeightIs

\* A copy weighs its weight.
LEMMA WeightOfOne ==
  ASSUME NEW c, c.weight \in Nat
  PROVE  WeightOf({c}) = c.weight
<1> DEFINE f == [d \in {c} |-> d.weight]
<1>1. f[c] = c.weight
  OBVIOUS
<1>2. SumFunctionOnSet(f, {c}) = SumFunctionOnSet(f, {c} \ {c}) + f[c]
  <2> HIDE DEF f
  <2>1. IsFiniteSet({c})
    BY FS_Singleton
  <2>2. c \in {c} /\ \A d \in {c} : f[d] \in Int
    BY <1>1
  <2> QED
    BY <2>1, <2>2, SumTakes
<1>3. {c} \ {c} = {}
  OBVIOUS
<1>4. SumFunctionOnSet(f, {c}) = c.weight
  <2> HIDE DEF f
  <2> QED
    BY <1>1, <1>2, <1>3, SumOfNone
<1> QED
  BY <1>4, WeightIs

-----------------------------------------------------------------------------
(* Shelves.                                                                *)

\* The parts of a shelf.
LEMMA ShelfTyped ==
  ASSUME NEW s, s \in Shelves
  PROVE  /\ s.copies \in Seq(Copies) /\ s.vary \in SUBSET Varying /\ s.revision \in Nat /\ s.bytes \in Int
         /\ DOMAIN s.copies = 1..Len(s.copies) /\ Len(s.copies) \in Nat
         /\ \A i \in DOMAIN s.copies : s.copies[i] \in Copies
         /\ CopiesOf(s) \in SUBSET Copies
<1>1. s.copies \in Seq(Copies) /\ s.vary \in SUBSET Varying /\ s.revision \in Nat /\ s.bytes \in Int
  BY DEF Shelves
<1>2. DOMAIN s.copies = 1..Len(s.copies) /\ Len(s.copies) \in Nat /\ \A i \in DOMAIN s.copies : s.copies[i] \in Copies
  BY <1>1
<1> QED
  BY <1>1, <1>2 DEF CopiesOf

\* A copy has a weight.
LEMMA CopyWeights ==
  ASSUME NEW S \in SUBSET Copies
  PROVE  \A c \in S : c.weight \in Nat
  BY DEF Copies

\* What is on a shelf is finite, and as many as there are places.
LEMMA ShelfFinite ==
  ASSUME NEW s, s \in Shelves
  PROVE  /\ IsFiniteSet(CopiesOf(s))
         /\ OnceEach(s) => Cardinality(CopiesOf(s)) = Len(s.copies)
<1>1. /\ DOMAIN s.copies = 1..Len(s.copies) /\ Len(s.copies) \in Nat
      /\ \A i \in DOMAIN s.copies : s.copies[i] \in Copies
  BY ShelfTyped
<1>2. IsFiniteSet(1..Len(s.copies)) /\ Cardinality(1..Len(s.copies)) = Len(s.copies)
  <2>1. \A n \in Nat : IsFiniteSet(1..n) /\ Cardinality(1..n) = n
    BY FS_Interval
  <2> QED
    BY <1>1, <2>1
<1>3. CopiesOf(s) = {s.copies[i] : i \in 1..Len(s.copies)}
  BY <1>1 DEF CopiesOf
<1>4. OnceEach(s) => \A i, j \in 1..Len(s.copies) : s.copies[i] = s.copies[j] => i = j
  BY <1>1 DEF OnceEach
<1> QED
  BY <1>1, <1>2, <1>3, <1>4, ImageFinite

\* Copies leave with their weight, and with the last of a key what it varies on.
LEMMA WithoutOk ==
  ASSUME NEW s, ShelfOk(s), NEW gone \in SUBSET CopiesOf(s)
  PROVE  /\ ShelfOk(Without(s, gone))
         /\ CopiesOf(Without(s, gone)) = CopiesOf(s) \ gone
         /\ Without(s, gone).revision = s.revision
         /\ Without(s, gone).bytes = s.bytes - WeightOf(gone)
         /\ WeightOf(gone) \in Nat /\ s.bytes \in Nat
<1>1. /\ s \in Shelves /\ s.copies \in Seq(Copies) /\ s.vary \in SUBSET Varying /\ s.revision \in Nat /\ s.bytes \in Int
      /\ CopiesOf(s) \in SUBSET Copies /\ IsFiniteSet(CopiesOf(s))
  BY ShelfTyped, ShelfFinite DEF ShelfOk
<1> DEFINE keep == {i \in DOMAIN s.copies : s.copies[i] \notin gone}
           left == Retain(s.copies, keep)
           vary == {v \in s.vary : \E i \in DOMAIN left : left[i].key = v.key}
           t == Without(s, gone)
<1>2. keep \in SUBSET DOMAIN s.copies
  OBVIOUS
<1>3. /\ left \in Seq(Copies)
      /\ \A k \in DOMAIN left : \E i \in keep : left[k] = s.copies[i]
      /\ \A i \in keep : \E k \in DOMAIN left : left[k] = s.copies[i]
  <2> HIDE DEF keep
  <2> QED
    BY <1>1, <1>2, Retained
<1>4. \A k, l \in DOMAIN left : left[k] = left[l] => k = l
  <2>1. \A i, j \in DOMAIN s.copies : s.copies[i] = s.copies[j] => i = j
    BY DEF ShelfOk, OnceEach
  <2> HIDE DEF keep
  <2> QED
    BY <1>1, <1>2, <2>1, RetainedOnce
<1>5. /\ WeightOf(gone) \in Nat /\ WeightOf(CopiesOf(s) \ gone) \in Nat
      /\ WeightOf(CopiesOf(s)) = WeightOf(CopiesOf(s) \ gone) + WeightOf(gone)
  <2>1. /\ IsFiniteSet(gone) /\ IsFiniteSet(CopiesOf(s) \ gone) /\ (CopiesOf(s) \ gone) \cap gone = {}
        /\ (CopiesOf(s) \ gone) \cup gone = CopiesOf(s)
    BY <1>1, FS_Subset
  <2>2. \A c \in CopiesOf(s) : c.weight \in Nat
    BY <1>1, CopyWeights
  <2>3. WeightOf((CopiesOf(s) \ gone) \cup gone) = WeightOf(CopiesOf(s) \ gone) + WeightOf(gone)
    BY <2>1, <2>2, WeightApart
  <2>4. WeightOf(gone) \in Nat /\ WeightOf(CopiesOf(s) \ gone) \in Nat
    BY <2>1, <2>2, WeightTyped
  <2> QED
    BY <2>1, <2>3, <2>4
<1>6. s.bytes = WeightOf(CopiesOf(s))
  BY DEF ShelfOk
<1>7. PICK n \in Int : n = s.bytes - WeightOf(gone)
  BY <1>1, <1>5
<1>8. t = [s EXCEPT !.copies = left, !.bytes = n, !.vary = vary]
  BY <1>7 DEF Without
<1>9. vary \in SUBSET Varying
  BY <1>1
<1> HIDE DEF keep, left, vary, t
<1>10. t \in Shelves
  BY <1>1, <1>3, <1>7, <1>8, <1>9 DEF Shelves
<1>11. t.copies = left /\ t.bytes = n /\ t.vary = vary /\ t.revision = s.revision
  BY <1>1, <1>8 DEF Shelves
<1>12. CopiesOf(t) = CopiesOf(s) \ gone
  BY <1>3, <1>11 DEF CopiesOf, keep
<1>13. t.bytes = WeightOf(CopiesOf(t))
  BY <1>5, <1>6, <1>7, <1>11, <1>12
<1>14. OnceEach(t)
  <2> SUFFICES ASSUME NEW k \in DOMAIN left, NEW l \in DOMAIN left,
                      left[k].key = left[l].key, left[k].sign = left[l].sign
               PROVE  k = l
    BY <1>11 DEF OnceEach
  <2>1. PICK i \in keep, j \in keep : left[k] = s.copies[i] /\ left[l] = s.copies[j]
    BY <1>3
  <2>2. i = j
    BY <2>1 DEF ShelfOk, OnceEach, keep
  <2> QED
    BY <1>4, <2>1, <2>2
<1>15. \A d \in CopiesOf(t) : d.sign = SignatureOf(d, d.varies) /\ [key |-> d.key, on |-> On(d)] \in t.vary
  <2> SUFFICES ASSUME NEW d \in CopiesOf(t)
               PROVE  d.sign = SignatureOf(d, d.varies) /\ [key |-> d.key, on |-> On(d)] \in vary
    BY <1>11
  <2>1. d \in CopiesOf(s) /\ [key |-> d.key, on |-> On(d)] \in s.vary /\ d.sign = SignatureOf(d, d.varies)
    BY <1>12 DEF ShelfOk
  <2>2. PICK k \in DOMAIN left : left[k] = d
    BY <1>11 DEF CopiesOf
  <2> QED
    BY <2>1, <2>2 DEF vary
<1>16. \A v \in t.vary : v \in s.vary /\ \E d \in CopiesOf(t) : d.key = v.key
  BY <1>11 DEF vary, CopiesOf
<1>17. \A v, w \in t.vary : v.key = w.key => v = w
  BY <1>16 DEF ShelfOk
<1>18. ShelfOk(t)
  BY <1>10, <1>13, <1>14, <1>15, <1>16, <1>17 DEF ShelfOk
<1>19. s.bytes \in Nat
  BY <1>5, <1>6
<1> QED
  BY <1>5, <1>7, <1>11, <1>12, <1>18, <1>19 DEF t

\* A copy that replaces nothing and varies as its key does is put last.
Added(s, new) ==
  [s EXCEPT !.copies = Append(@, new), !.bytes = @ + new.weight,
            !.vary = {v \in @ : v.key # new.key} \cup {[key |-> new.key, on |-> On(new)]}]

\* It finds the shelf sound and leaves it so.
LEMMA AddedOk ==
  ASSUME NEW s, ShelfOk(s), NEW new \in Copies, new.sign = SignatureOf(new, new.varies),
         \A d \in CopiesOf(s) : d.key = new.key => d.sign # new.sign /\ d.varies = new.varies
  PROVE  /\ ShelfOk(Added(s, new))
         /\ CopiesOf(Added(s, new)) = CopiesOf(s) \cup {new}
         /\ Added(s, new).revision = s.revision
<1>1. /\ s \in Shelves /\ s.copies \in Seq(Copies) /\ s.vary \in SUBSET Varying /\ s.revision \in Nat /\ s.bytes \in Int
      /\ CopiesOf(s) \in SUBSET Copies /\ IsFiniteSet(CopiesOf(s))
      /\ DOMAIN s.copies = 1..Len(s.copies) /\ Len(s.copies) \in Nat
  BY ShelfTyped, ShelfFinite DEF ShelfOk
<1> DEFINE more == Append(s.copies, new)
           mark == [key |-> new.key, on |-> On(new)]
           vary == {v \in s.vary : v.key # new.key} \cup {mark}
           t == Added(s, new)
<1>2. /\ more \in Seq(Copies) /\ DOMAIN more = 1..(Len(s.copies) + 1)
      /\ \A i \in DOMAIN s.copies : more[i] = s.copies[i]
      /\ more[Len(s.copies) + 1] = new
  BY <1>1
<1>3. new.weight \in Nat /\ new.key \in CopyKeys /\ mark \in Varying
  BY DEF Copies, Varying, On
<1>4. PICK n \in Int : n = s.bytes + new.weight
  BY <1>1, <1>3
<1>5. t = [s EXCEPT !.copies = more, !.bytes = n, !.vary = vary]
  BY <1>4 DEF Added
<1>6. vary \in SUBSET Varying
  BY <1>1, <1>3
<1> HIDE DEF more, vary, t
<1>7. t \in Shelves
  BY <1>1, <1>2, <1>4, <1>5, <1>6 DEF Shelves
<1>8. t.copies = more /\ t.bytes = n /\ t.vary = vary /\ t.revision = s.revision
  BY <1>1, <1>5 DEF Shelves
<1>9. CopiesOf(t) = CopiesOf(s) \cup {new}
  <2>1. DOMAIN more = DOMAIN s.copies \cup {Len(s.copies) + 1}
    BY <1>1, <1>2
  <2>2. CopiesOf(t) = {more[i] : i \in DOMAIN more}
    BY <1>8 DEF CopiesOf
  <2>3. CopiesOf(s) = {more[i] : i \in DOMAIN s.copies}
    BY <1>2 DEF CopiesOf
  <2> QED
    BY <1>2, <2>1, <2>2, <2>3
<1>10. new \notin CopiesOf(s)
  OBVIOUS
<1>11. t.bytes = WeightOf(CopiesOf(t))
  <2>1. /\ IsFiniteSet({new}) /\ CopiesOf(s) \cap {new} = {}
        /\ \A c \in CopiesOf(s) \cup {new} : c.weight \in Nat
    BY <1>1, <1>3, <1>10, FS_Singleton, CopyWeights
  <2>2. WeightOf(CopiesOf(s) \cup {new}) = WeightOf(CopiesOf(s)) + WeightOf({new})
    BY <1>1, <2>1, WeightApart
  <2>3. WeightOf({new}) = new.weight
    BY <1>3, WeightOfOne
  <2> QED
    BY <1>4, <1>8, <1>9, <2>2, <2>3 DEF ShelfOk
<1>12. OnceEach(t)
  <2> SUFFICES ASSUME NEW i \in DOMAIN more, NEW j \in DOMAIN more, i < j,
                      more[i].key = more[j].key, more[i].sign = more[j].sign
               PROVE  FALSE
    <3>1. \A i, j \in DOMAIN more : i = j \/ i < j \/ j < i
      BY <1>1, <1>2
    <3> QED
      BY <1>8, <3>1 DEF OnceEach
  <2>1. i \in DOMAIN s.copies /\ more[i] = s.copies[i]
    BY <1>1, <1>2
  <2>2. CASE j \in DOMAIN s.copies
    <3>1. i = j
      BY <1>2, <2>1, <2>2 DEF ShelfOk, OnceEach
    <3> QED
      BY <1>1, <1>2, <3>1
  <2>3. CASE j \notin DOMAIN s.copies
    <3>1. j = Len(s.copies) + 1
      BY <1>1, <1>2, <2>3
    <3> QED
      BY <1>2, <2>1, <3>1 DEF CopiesOf
  <2> QED
    BY <2>2, <2>3
<1>13. \A d \in CopiesOf(t) : d.sign = SignatureOf(d, d.varies) /\ [key |-> d.key, on |-> On(d)] \in t.vary
  <2> SUFFICES ASSUME NEW d \in CopiesOf(t)
               PROVE  d.sign = SignatureOf(d, d.varies) /\ [key |-> d.key, on |-> On(d)] \in vary
    BY <1>8
  <2>1. CASE d = new
    BY <2>1 DEF vary
  <2>2. CASE d \in CopiesOf(s) /\ d.key = new.key
    <3>1. On(d) = On(new) /\ d.sign = SignatureOf(d, d.varies)
      BY <2>2 DEF On, ShelfOk
    <3> QED
      BY <2>2, <3>1 DEF vary
  <2>3. CASE d \in CopiesOf(s) /\ d.key # new.key
    <3>1. [key |-> d.key, on |-> On(d)] \in s.vary /\ d.sign = SignatureOf(d, d.varies)
      BY <2>3 DEF ShelfOk
    <3> QED
      BY <2>3, <3>1 DEF vary
  <2> QED
    BY <1>9, <2>1, <2>2, <2>3
<1>14. \A v \in t.vary : \E d \in CopiesOf(t) : d.key = v.key
  <2> SUFFICES ASSUME NEW v \in vary PROVE \E d \in CopiesOf(s) \cup {new} : d.key = v.key
    BY <1>8, <1>9
  <2>1. CASE v = mark
    BY <2>1
  <2>2. CASE v \in s.vary
    BY <2>2 DEF ShelfOk
  <2> QED
    BY <2>1, <2>2 DEF vary
<1>15. \A v, w \in t.vary : v.key = w.key => v = w
  BY <1>8 DEF vary, ShelfOk
<1>16. ShelfOk(t)
  BY <1>7, <1>11, <1>12, <1>13, <1>14, <1>15 DEF ShelfOk
<1> QED
  BY <1>8, <1>9, <1>16 DEF t

\* Whoever evicts finds enough to evict.
LEMMA EvictedOk ==
  ASSUME NEW s, ShelfOk(s)
  PROVE  /\ ShelfOk(Evicted(s)) /\ Evicted(s).bytes <= MaxBytes /\ Evicted(s).revision = s.revision
         /\ CopiesOf(Evicted(s)) \subseteq CopiesOf(s)
<1> DEFINE needed == s.bytes - MaxBytes
           first(n) == {s.copies[i] : i \in 1..n}
           Enough == {n \in DOMAIN s.copies : WeightOf(first(n)) >= needed}
<1>1. /\ DOMAIN s.copies = 1..Len(s.copies) /\ Len(s.copies) \in Nat /\ CopiesOf(s) \in SUBSET Copies
      /\ IsFiniteSet(CopiesOf(s)) /\ s.bytes \in Int /\ MaxBytes \in Nat /\ needed \in Int
  BY ShelfTyped, ShelfFinite, CacheAssumption DEF ShelfOk, Decoded
<1>2. \A n \in DOMAIN s.copies : first(n) \in SUBSET CopiesOf(s) /\ WeightOf(first(n)) \in Nat
  <2>1. \A n \in DOMAIN s.copies : first(n) \in SUBSET CopiesOf(s)
    BY <1>1 DEF CopiesOf
  <2>2. \A S \in SUBSET CopiesOf(s) : IsFiniteSet(S) /\ (\A c \in S : c.weight \in Nat)
    BY <1>1, FS_Subset, CopyWeights
  <2> HIDE DEF first
  <2> QED
    BY <2>1, <2>2, WeightTyped
<1>3. ASSUME NEW gone \in SUBSET CopiesOf(s), Victims(s) = gone, WeightOf(gone) >= needed
      PROVE  /\ ShelfOk(Evicted(s)) /\ Evicted(s).bytes <= MaxBytes /\ Evicted(s).revision = s.revision
             /\ CopiesOf(Evicted(s)) \subseteq CopiesOf(s)
  <2>1. /\ ShelfOk(Without(s, gone)) /\ CopiesOf(Without(s, gone)) = CopiesOf(s) \ gone
        /\ Without(s, gone).revision = s.revision
        /\ Without(s, gone).bytes = s.bytes - WeightOf(gone) /\ WeightOf(gone) \in Nat
    BY <1>3, WithoutOk
  <2>2. Without(s, gone).bytes <= MaxBytes
    BY <1>1, <1>3, <2>1
  <2> QED
    BY <1>3, <2>1, <2>2 DEF Evicted
<1>4. CASE needed <= 0
  <2>1. Victims(s) = {} /\ {} \in SUBSET CopiesOf(s)
    BY <1>4 DEF Victims
  <2>2. WeightOf({}) \in Nat
    BY WithoutOk, <2>1
  <2> QED
    BY <1>1, <1>3, <1>4, <2>1, <2>2
<1>5. CASE ~(needed <= 0)
  <2>1. Len(s.copies) \in Enough
    <3>1. CopiesOf(s) # {}
      <4>1. ASSUME CopiesOf(s) = {} PROVE FALSE
        <5>1. s.bytes = WeightOf({})
          BY <4>1 DEF ShelfOk
        <5>2. WeightOf({}) = 0
          <6>1. SumFunctionOnSet([c \in {} |-> c.weight], {}) = 0
            BY SumOfNone
          <6> QED
            BY <6>1, WeightIs
        <5> QED
          BY <1>1, <1>5, <5>1, <5>2
      <4> QED
        BY <4>1
    <3>2. Len(s.copies) \in DOMAIN s.copies
      BY <1>1, <3>1 DEF CopiesOf
    <3>3. first(Len(s.copies)) = CopiesOf(s)
      BY <1>1 DEF CopiesOf
    <3>4. WeightOf(first(Len(s.copies))) >= needed
      <4> HIDE DEF first
      <4> QED
        BY <1>1, <3>3 DEF ShelfOk
    <3> QED
      BY <3>2, <3>4
  <2>2. Enough \subseteq Nat
    BY <1>1
  <2>3. \E n \in Enough : \A k \in Enough : n <= k
    <3> HIDE DEF Enough
    <3> QED
      BY <2>1, <2>2, Smallest
  <2>4. PICK n \in Enough : \A k \in Enough : n <= k
    BY <2>3
  <2>5. n = 1 \/ WeightOf(first(n - 1)) < needed
    <3>1. ASSUME n # 1 PROVE WeightOf(first(n - 1)) < needed
      <4>1. n \in DOMAIN s.copies
        BY <2>4
      <4>2. n - 1 \in DOMAIN s.copies /\ n - 1 < n
        BY <1>1, <3>1, <4>1
      <4>3. n - 1 \notin Enough
        <5> HIDE DEF Enough
        <5> QED
          BY <2>2, <2>4
      <4> HIDE DEF first
      <4> QED
        BY <1>1, <1>2, <4>2, <4>3
    <3> QED
      BY <3>1
  <2> DEFINE JustEnough(m) == WeightOf(first(m)) >= needed /\ (m = 1 \/ WeightOf(first(m - 1)) < needed)
             k == CHOOSE m \in DOMAIN s.copies : JustEnough(m)
  <2>6. n \in DOMAIN s.copies /\ JustEnough(n)
    BY <2>4, <2>5
  <2>7. k \in DOMAIN s.copies /\ JustEnough(k)
    <3> HIDE DEF JustEnough
    <3> QED
      BY <2>6
  <2>8. Victims(s) = first(k)
    BY <1>5 DEF Victims
  <2>9. first(k) \in SUBSET CopiesOf(s) /\ WeightOf(first(k)) >= needed
    BY <1>2, <2>7
  <2> HIDE DEF k, first
  <2> QED
    BY <1>3, <2>8, <2>9
<1> QED
  BY <1>4, <1>5

\* A copy that is used goes to the end.
LEMMA TouchedOk ==
  ASSUME NEW s, ShelfOk(s), NEW c \in CopiesOf(s)
  PROVE  /\ ShelfOk(Touched(s, c)) /\ CopiesOf(Touched(s, c)) = CopiesOf(s)
         /\ Touched(s, c).revision = s.revision /\ Touched(s, c).bytes = s.bytes
<1>1. /\ s \in Shelves /\ s.copies \in Seq(Copies) /\ s.vary \in SUBSET Varying /\ s.revision \in Nat /\ s.bytes \in Int
      /\ CopiesOf(s) \in SUBSET Copies
  BY ShelfTyped DEF ShelfOk
<1> DEFINE keep == {i \in DOMAIN s.copies : s.copies[i] # c}
           left == Retain(s.copies, keep)
           more == Append(left, c)
           t == Touched(s, c)
<1>2. keep \in SUBSET DOMAIN s.copies
  OBVIOUS
<1>3. /\ left \in Seq(Copies)
      /\ \A k \in DOMAIN left : \E i \in keep : left[k] = s.copies[i]
      /\ \A i \in keep : \E k \in DOMAIN left : left[k] = s.copies[i]
  <2> HIDE DEF keep
  <2> QED
    BY <1>1, <1>2, Retained
<1>4. \A k, l \in DOMAIN left : left[k] = left[l] => k = l
  <2>1. \A i, j \in DOMAIN s.copies : s.copies[i] = s.copies[j] => i = j
    BY DEF ShelfOk, OnceEach
  <2> HIDE DEF keep
  <2> QED
    BY <1>1, <1>2, <2>1, RetainedOnce
<1>5. t = [s EXCEPT !.copies = more]
  BY DEF Touched
<1> HIDE DEF left
<1>6. /\ more \in Seq(Copies) /\ DOMAIN left = 1..Len(left) /\ Len(left) \in Nat /\ DOMAIN more = 1..(Len(left) + 1)
      /\ \A i \in DOMAIN left : more[i] = left[i]
      /\ more[Len(left) + 1] = c
  BY <1>1, <1>3
<1> HIDE DEF more, t
<1>7. t \in Shelves
  BY <1>1, <1>5, <1>6 DEF Shelves
<1>8. t.copies = more /\ t.bytes = s.bytes /\ t.vary = s.vary /\ t.revision = s.revision
  BY <1>1, <1>5 DEF Shelves
<1>9. \A k \in DOMAIN left : left[k] # c /\ left[k] \in CopiesOf(s)
  BY <1>3 DEF CopiesOf, keep
<1>10. CopiesOf(t) = CopiesOf(s)
  <2>1. DOMAIN more = DOMAIN left \cup {Len(left) + 1}
    BY <1>6
  <2>2. CopiesOf(t) = {more[i] : i \in DOMAIN more}
    BY <1>8 DEF CopiesOf
  <2>3. CopiesOf(t) = {left[i] : i \in DOMAIN left} \cup {c}
    BY <1>6, <2>1, <2>2
  <2>4. ASSUME NEW d \in CopiesOf(s), d # c PROVE d \in {left[i] : i \in DOMAIN left}
    <3>1. PICK i \in DOMAIN s.copies : s.copies[i] = d
      BY DEF CopiesOf
    <3>2. i \in keep
      BY <2>4, <3>1
    <3> QED
      BY <1>3, <3>1, <3>2
  <2> QED
    BY <1>9, <2>3, <2>4
<1>11. OnceEach(t)
  <2> SUFFICES ASSUME NEW i \in DOMAIN more, NEW j \in DOMAIN more, i < j,
                      more[i].key = more[j].key, more[i].sign = more[j].sign
               PROVE  FALSE
    <3>1. \A i, j \in DOMAIN more : i = j \/ i < j \/ j < i
      BY <1>6
    <3> QED
      BY <1>8, <3>1 DEF OnceEach
  <2>1. i \in DOMAIN left /\ more[i] = left[i]
    BY <1>6
  <2>2. \A d, e \in CopiesOf(s) : d.key = e.key /\ d.sign = e.sign => d = e
    BY DEF CopiesOf, ShelfOk, OnceEach
  <2>3. CASE j \in DOMAIN left
    <3>1. left[i] = left[j]
      BY <1>6, <1>9, <2>1, <2>2, <2>3
    <3>2. i = j
      BY <1>4, <2>1, <2>3, <3>1
    <3> QED
      BY <1>6, <3>2
  <2>4. CASE j \notin DOMAIN left
    <3>1. j = Len(left) + 1
      BY <1>6, <2>4
    <3> QED
      BY <1>6, <1>9, <2>1, <2>2, <3>1
  <2> QED
    BY <2>3, <2>4
<1>12. ShelfOk(t)
  BY <1>7, <1>8, <1>10, <1>11 DEF ShelfOk
<1> QED
  BY <1>8, <1>10, <1>12 DEF t

\* A copy whose lifetime is over stays where it is.
LEMMA ExpiredOk ==
  ASSUME NEW s, ShelfOk(s), NEW i \in DOMAIN s.copies, NEW t, s.copies[i].fresh,
         t = [s EXCEPT !.copies[i].fresh = FALSE]
  PROVE  /\ ShelfOk(t) /\ t.revision = s.revision /\ t.bytes = s.bytes
         /\ \A d \in CopiesOf(t) : \E e \in CopiesOf(s) : d.key = e.key /\ d.ver = e.ver
<1>1. /\ s \in Shelves /\ s.copies \in Seq(Copies) /\ s.vary \in SUBSET Varying /\ s.revision \in Nat /\ s.bytes \in Int
      /\ CopiesOf(s) \in SUBSET Copies /\ IsFiniteSet(CopiesOf(s)) /\ s.copies[i] \in Copies
  BY ShelfTyped, ShelfFinite DEF ShelfOk
<1> DEFINE old == s.copies[i]
           new == [old EXCEPT !.fresh = FALSE]
           more == [s.copies EXCEPT ![i] = new]
           rest == CopiesOf(s) \ {old}
<1>2. /\ new \in Copies /\ new.key = old.key /\ new.sign = old.sign /\ new.ver = old.ver /\ new.weight = old.weight
      /\ new.varies = old.varies /\ new.header = old.header /\ ~new.fresh /\ old.weight \in Nat
  BY <1>1 DEF Copies
<1>3. t = [s EXCEPT !.copies = more]
  BY <1>1 DEF Shelves
<1> HIDE DEF new
<1>4. /\ more \in Seq(Copies) /\ DOMAIN more = DOMAIN s.copies /\ more[i] = new
      /\ \A j \in DOMAIN s.copies : j # i => more[j] = s.copies[j]
  BY <1>1, <1>2
<1> HIDE DEF more
<1>5. t \in Shelves /\ t.copies = more /\ t.bytes = s.bytes /\ t.vary = s.vary /\ t.revision = s.revision
  BY <1>1, <1>3, <1>4 DEF Shelves
<1>6. /\ \A j \in DOMAIN s.copies : j # i => s.copies[j] # old
      /\ old \in CopiesOf(s)
  BY DEF ShelfOk, OnceEach, CopiesOf
<1>7. CopiesOf(t) = rest \cup {new}
  <2>1. CopiesOf(t) = {more[j] : j \in DOMAIN s.copies}
    BY <1>4, <1>5 DEF CopiesOf
  <2>2. rest = {s.copies[j] : j \in DOMAIN s.copies \ {i}}
    BY <1>6 DEF CopiesOf
  <2> QED
    BY <1>4, <2>1, <2>2
<1>8. new \notin rest
  <2>1. \A d \in CopiesOf(s) : d.key = old.key /\ d.sign = old.sign => d = old
    BY DEF CopiesOf, ShelfOk, OnceEach
  <2> QED
    BY <1>2, <2>1
<1>9. WeightOf(CopiesOf(t)) = WeightOf(CopiesOf(s))
  <2>0. IsFiniteSet(rest) /\ IsFiniteSet({new}) /\ IsFiniteSet({old})
    <3>1. rest \in SUBSET CopiesOf(s)
      OBVIOUS
    <3> HIDE DEF rest, old
    <3>2. IsFiniteSet(rest)
      BY <1>1, <3>1, FS_Subset
    <3>3. \A x : IsFiniteSet({x})
      BY FS_Singleton
    <3> QED
      BY <3>2, <3>3
  <2>1. /\ IsFiniteSet(rest) /\ IsFiniteSet({new}) /\ IsFiniteSet({old}) /\ rest \cap {new} = {} /\ rest \cap {old} = {}
        /\ rest \cup {old} = CopiesOf(s)
    <3> HIDE DEF old
    <3> QED
      BY <1>6, <1>8, <2>0
  <2>2. /\ \A c \in rest \cup {new} : c.weight \in Nat
        /\ \A c \in rest \cup {old} : c.weight \in Nat
    BY <1>1, <1>2, CopyWeights
  <2> HIDE DEF rest, old
  <2>3. WeightOf(rest \cup {new}) = WeightOf(rest) + WeightOf({new})
    BY <2>1, <2>2, WeightApart
  <2>4. WeightOf(rest \cup {old}) = WeightOf(rest) + WeightOf({old})
    BY <2>1, <2>2, WeightApart
  <2>5. WeightOf({new}) = new.weight /\ WeightOf({old}) = old.weight
    BY <1>2, WeightOfOne
  <2> QED
    BY <1>2, <1>7, <2>1, <2>3, <2>4, <2>5
<1>10. \A j \in DOMAIN s.copies : more[j].key = s.copies[j].key /\ more[j].sign = s.copies[j].sign
  BY <1>2, <1>4
<1>11. OnceEach(t)
  BY <1>4, <1>5, <1>10 DEF ShelfOk, OnceEach
<1>12. \A d \in CopiesOf(t) : \E e \in CopiesOf(s) :
         /\ d.key = e.key /\ d.ver = e.ver /\ d.sign = e.sign /\ d.varies = e.varies /\ d.header = e.header
  BY <1>2, <1>6, <1>7
<1>13. \A e \in CopiesOf(s) : \E d \in CopiesOf(t) : d.key = e.key
  BY <1>2, <1>7
<1>14. ASSUME NEW d \in CopiesOf(t)
       PROVE  d.sign = SignatureOf(d, d.varies) /\ [key |-> d.key, on |-> On(d)] \in t.vary
  <2>1. PICK e \in CopiesOf(s) : d.key = e.key /\ d.sign = e.sign /\ d.varies = e.varies /\ d.header = e.header
    BY <1>12
  <2>2. e.sign = SignatureOf(e, e.varies) /\ [key |-> e.key, on |-> On(e)] \in s.vary
    BY DEF ShelfOk
  <2>3. SignatureOf(d, d.varies) = SignatureOf(e, e.varies) /\ On(d) = On(e)
    BY <2>1 DEF SignatureOf, On
  <2> QED
    BY <1>5, <2>1, <2>2, <2>3
<1>15. ShelfOk(t)
  <2>1. t.bytes = WeightOf(CopiesOf(t))
    BY <1>5, <1>9 DEF ShelfOk
  <2>2. /\ \A v, w \in t.vary : v.key = w.key => v = w
        /\ \A v \in t.vary : \E d \in CopiesOf(t) : d.key = v.key
    <3>1. /\ \A v, w \in s.vary : v.key = w.key => v = w
          /\ \A v \in s.vary : \E d \in CopiesOf(s) : d.key = v.key
      BY DEF ShelfOk
    <3>2. t.vary = s.vary
      BY <1>5
    <3>3. ASSUME NEW v \in t.vary PROVE \E d \in CopiesOf(t) : d.key = v.key
      <4>1. PICK e \in CopiesOf(s) : e.key = v.key
        BY <3>1, <3>2, <3>3
      <4>2. PICK d \in CopiesOf(t) : d.key = e.key
        BY <1>13
      <4> QED
        BY <4>1, <4>2
    <3> QED
      BY <3>1, <3>2, <3>3
  <2> QED
    BY <1>5, <1>11, <1>14, <2>1, <2>2 DEF ShelfOk
<1> QED
  BY <1>5, <1>12, <1>15

-----------------------------------------------------------------------------
(* The invariant.                                                          *)

FetchPCs == {"none", "pass", "stale", "lookup", "hit", "revision", "observe", "forward", "answer", "collect",
             "leave", "replay", "written", "associated", "done"}
FetchStates ==
  [pc : FetchPCs, q : Ask, rev : Nat, stale : Copies \cup {NoCopy}, seen : Int, retire : BOOLEAN, ver : Nat,
   got : Copies \cup {NoCopy}, same : BOOLEAN]

\* What a request may rely on, given the bytes it reserved, the store's revision,
\* what was settled and the origin.  What it fetched is as new as what was settled
\* as long as no copy was invalidated since it read the revision.
FetchOk(f, n, revision, done, source) ==
  /\ f.pc = "none" => f.seen = 0
  /\ n > 0 => f.pc \in {"collect", "leave", "replay"}
  /\ f.rev <= revision
  /\ f.pc \in {"answer", "collect"} /\ f.rev = revision => f.ver >= done[f.q.target]
  /\ f.pc = "written" => f.ver <= source[f.q.target]
  /\ f.pc = "collect" =>
       /\ f.got \in Copies /\ f.got.ver = f.ver /\ f.got.key = CopyKey(f.q)
       /\ f.got.sign = SignatureOf(f.got, f.got.varies)
  /\ f.pc = "hit" =>
       /\ f.got \in Copies /\ f.got.key = CopyKey(f.q)
       /\ f.got.varies => f.got.header = f.q.header

Fetching == {c \in Clients : fetch[c].pc # "none"}

CacheInv ==
  /\ ShelfOk(shelf) /\ shelf.bytes <= MaxBytes
  /\ fill \in [Clients -> Nat] /\ fetch \in [Clients -> FetchStates]
  /\ origin \in [Targets -> Nat] /\ settled \in [Targets -> Nat]
  /\ \A t \in Targets : settled[t] <= origin[t]
  /\ \A d \in CopySet : d.ver >= settled[d.key[1]]
  /\ \A c \in Clients : FetchOk(fetch[c], fill[c], shelf.revision, settled, origin)
  /\ IsFiniteSet(Fetching)
  /\ FillBytes <= MaxBytes /\ Cardinality(FillsHeld) <= MaxFills

\* The state a shelf is left in.
ShelfKept ==
  /\ ShelfOk(shelf') /\ shelf'.bytes <= MaxBytes /\ shelf'.revision >= shelf.revision
  /\ \A d \in CopiesOf(shelf') : d.ver >= settled'[d.key[1]]

\* Only finitely many requests ever hold bytes.
LEMMA HeldFinite ==
  ASSUME CacheInv
  PROVE  /\ IsFiniteSet(FillsHeld) /\ Cardinality(FillsHeld) \in Nat /\ FillBytes \in Int
         /\ \A c \in FillsHeld : fill[c] \in Nat
<1>1. FillsHeld \in SUBSET Fetching
  BY DEF CacheInv, FillsHeld, Fetching, FetchOk
<1>2. IsFiniteSet(FillsHeld)
  BY <1>1, FS_Subset DEF CacheInv
<1>3. \A c \in FillsHeld : fill[c] \in Nat
  BY DEF CacheInv, FillsHeld
<1>4. FillBytes \in Int
  BY <1>2, <1>3, SumTyped DEF FillBytes
<1> QED
  BY <1>2, <1>3, <1>4, FS_CardinalityType

\* One request takes or gives back what it reserved.
LEMMA FillMoves ==
  ASSUME CacheInv, NEW c \in Clients, NEW n \in Nat, fill' = [fill EXCEPT ![c] = n],
         n = fill[c] \/ n = 0 \/ (fill[c] = 0 /\ CanReserve(n))
  PROVE  FillBytes' <= MaxBytes /\ Cardinality(FillsHeld') <= MaxFills
<1>0. fill \in [Clients -> Nat] /\ FillBytes <= MaxBytes /\ Cardinality(FillsHeld) <= MaxFills
  BY DEF CacheInv
<1>1. /\ IsFiniteSet(FillsHeld) /\ Cardinality(FillsHeld) \in Nat /\ FillBytes \in Int
      /\ \A b \in FillsHeld : fill[b] \in Nat
      /\ MaxBytes \in Nat /\ MaxFills \in Nat
  BY HeldFinite, CacheAssumption DEF Decoded
<1>2. fill' \in [Clients -> Nat] /\ fill'[c] = n /\ \A b \in Clients : b # c => fill'[b] = fill[b]
  BY <1>0
<1>3. CASE n = fill[c]
  <2>1. fill' = fill
    BY <1>0, <1>3
  <2> QED
    BY <1>0, <2>1 DEF FillBytes, FillsHeld
<1>4. CASE n = 0
  <2>1. CASE c \notin FillsHeld
    <3>1. fill[c] = 0
      BY <1>0, <2>1 DEF FillsHeld
    <3> QED
      BY <1>3, <1>4, <3>1
  <2>2. CASE c \in FillsHeld
    <3>1. FillsHeld' = FillsHeld \ {c} /\ \A b \in FillsHeld \ {c} : fill'[b] = fill[b]
      BY <1>2, <1>4 DEF FillsHeld
    <3>2. IsFiniteSet(FillsHeld \ {c}) /\ Cardinality(FillsHeld \ {c}) = Cardinality(FillsHeld) - 1
      BY <1>1, <2>2, FS_RemoveElement
    <3>3. SumFunctionOnSet(fill', FillsHeld \ {c}) = SumFunctionOnSet(fill, FillsHeld \ {c})
      <4> DEFINE R == FillsHeld \ {c}
      <4>1. IsFiniteSet(R) /\ \A b \in R : fill'[b] = fill[b]
        BY <3>1, <3>2
      <4> HIDE DEF R
      <4>2. SumFunctionOnSet(fill', R) = SumFunctionOnSet(fill, R)
        BY <4>1, SumSame
      <4> QED
        BY <4>2 DEF R
    <3>4. SumFunctionOnSet(fill, FillsHeld) = SumFunctionOnSet(fill, FillsHeld \ {c}) + fill[c]
      <4>1. \A b \in FillsHeld : fill[b] \in Int
        BY <1>1
      <4> QED
        BY <1>1, <2>2, <4>1, SumTakes
    <3>5. SumFunctionOnSet(fill, FillsHeld \ {c}) \in Int
      <4>1. \A b \in FillsHeld \ {c} : fill[b] \in Int
        BY <1>1
      <4> QED
        BY <3>2, <4>1, SumTyped
    <3>6. FillBytes' = SumFunctionOnSet(fill', FillsHeld \ {c}) /\ FillBytes = SumFunctionOnSet(fill, FillsHeld)
      BY <3>1 DEF FillBytes
    <3>7. fill[c] \in Nat
      BY <1>0
    <3>8. FillBytes' <= MaxBytes
      BY <1>0, <1>1, <3>3, <3>4, <3>5, <3>6, <3>7
    <3> QED
      BY <1>0, <1>1, <3>1, <3>2, <3>8
  <2> QED
    BY <2>1, <2>2
<1>5. CASE fill[c] = 0 /\ CanReserve(n) /\ n # 0
  <2>1. c \notin FillsHeld
    BY <1>5 DEF FillsHeld
  <2>2. FillsHeld' = FillsHeld \cup {c} /\ \A b \in FillsHeld : fill'[b] = fill[b]
    BY <1>2, <1>5, <2>1 DEF FillsHeld
  <2>3. IsFiniteSet(FillsHeld \cup {c}) /\ Cardinality(FillsHeld \cup {c}) = Cardinality(FillsHeld) + 1
    BY <1>1, <2>1, FS_AddElement
  <2>4. SumFunctionOnSet(fill', FillsHeld) = SumFunctionOnSet(fill, FillsHeld)
    <3> DEFINE g == fill'
               R == FillsHeld
    <3>1. IsFiniteSet(R) /\ \A b \in R : g[b] = fill[b]
      BY <1>1, <2>2
    <3> HIDE DEF g, R
    <3>2. SumFunctionOnSet(g, R) = SumFunctionOnSet(fill, R)
      BY <3>1, SumSame
    <3> QED
      BY <3>2 DEF g, R
  <2>5. SumFunctionOnSet(fill', FillsHeld \cup {c}) = SumFunctionOnSet(fill', FillsHeld) + fill'[c]
    <3>1. fill'[c] \in Int /\ \A b \in FillsHeld : fill'[b] \in Int
      BY <1>1, <1>2, <2>2
    <3> QED
      BY <1>1, <2>1, <3>1, SumAdds
  <2>6. FillBytes' = SumFunctionOnSet(fill', FillsHeld \cup {c}) /\ FillBytes = SumFunctionOnSet(fill, FillsHeld)
    BY <2>2 DEF FillBytes
  <2>7. FillBytes' = FillBytes + n
    BY <1>2, <2>4, <2>5, <2>6
  <2>8. Cardinality(FillsHeld) < MaxFills /\ n <= MaxBytes - FillBytes
    BY <1>5 DEF CanReserve
  <2> QED
    BY <1>1, <2>2, <2>3, <2>7, <2>8
<1> QED
  BY <1>3, <1>4, <1>5

\* One request moves on.
LEMMA ClientMoves ==
  ASSUME CacheInv, NEW c \in Clients, NEW new \in FetchStates, new.pc # "none", NEW n \in Nat,
         fetch' = [fetch EXCEPT ![c] = new], fill' = [fill EXCEPT ![c] = n],
         n = fill[c] \/ n = 0 \/ (fill[c] = 0 /\ CanReserve(n)),
         ShelfKept,
         origin' \in [Targets -> Nat], settled' \in [Targets -> Nat],
         \A t \in Targets : origin[t] <= origin'[t] /\ settled'[t] <= origin'[t],
         settled' = settled \/ shelf'.revision > shelf.revision,
         FetchOk(new, n, shelf'.revision, settled', origin')
  PROVE  CacheInv'
<1>0. /\ fill \in [Clients -> Nat] /\ fetch \in [Clients -> FetchStates] /\ origin \in [Targets -> Nat]
      /\ shelf.revision \in Nat /\ shelf'.revision \in Nat /\ shelf'.revision >= shelf.revision
  BY ShelfTyped DEF CacheInv, ShelfKept, ShelfOk
<1>1. /\ fetch' \in [Clients -> FetchStates] /\ fetch'[c] = new /\ \A b \in Clients : b # c => fetch'[b] = fetch[b]
      /\ fill' \in [Clients -> Nat] /\ fill'[c] = n /\ \A b \in Clients : b # c => fill'[b] = fill[b]
  BY <1>0
<1>2. ASSUME NEW b \in Clients
      PROVE  FetchOk(fetch'[b], fill'[b], shelf'.revision, settled', origin')
  <2>1. CASE b = c
    BY <1>1, <2>1
  <2>2. CASE b # c
    <3>1. FetchOk(fetch[b], fill[b], shelf.revision, settled, origin)
      BY DEF CacheInv
    <3>2. fetch'[b] = fetch[b] /\ fill'[b] = fill[b]
      BY <1>1, <2>2
    <3>3. /\ fetch[b].rev \in Nat /\ fetch[b].ver \in Nat /\ fetch[b].q.target \in Targets
      BY <1>0 DEF FetchStates, Ask
    <3>4. fetch[b].rev <= shelf'.revision /\ (fetch[b].rev = shelf'.revision => fetch[b].rev = shelf.revision /\ settled' = settled)
      BY <1>0, <3>1, <3>3 DEF FetchOk
    <3>5. fetch[b].pc = "written" => fetch[b].ver <= origin'[fetch[b].q.target]
      <4>1. /\ origin[fetch[b].q.target] \in Nat /\ origin'[fetch[b].q.target] \in Nat
            /\ origin[fetch[b].q.target] <= origin'[fetch[b].q.target]
        BY <1>0, <3>3
      <4> QED
        BY <3>1, <3>3, <4>1 DEF FetchOk
    <3> QED
      BY <3>1, <3>2, <3>4, <3>5 DEF FetchOk
  <2> QED
    BY <2>1, <2>2
<1>3. IsFiniteSet(Fetching')
  <2>1. Fetching' = Fetching \cup {c}
    BY <1>1 DEF Fetching
  <2> QED
    BY <2>1, FS_AddElement DEF CacheInv
<1>4. FillBytes' <= MaxBytes /\ Cardinality(FillsHeld') <= MaxFills
  BY FillMoves
<1>5. CopySet' = CopiesOf(shelf')
  BY DEF CopySet, CopiesOf
<1> QED
  BY <1>1, <1>2, <1>3, <1>4, <1>5 DEF CacheInv, ShelfKept

\* The shelf as it is, or with less on it.
LEMMA ShelfLess ==
  ASSUME CacheInv, ShelfOk(shelf'), CopiesOf(shelf') \subseteq CopySet, settled' = settled,
         shelf'.bytes <= MaxBytes, shelf'.revision >= shelf.revision
  PROVE  ShelfKept
  BY DEF CacheInv, ShelfKept

\* A request moves on; what it reserved, the origin and what is settled stay.
LEMMA FetchMoves ==
  ASSUME CacheInv, NEW c \in Clients, NEW new \in FetchStates, new.pc # "none",
         fetch' = [fetch EXCEPT ![c] = new], Kept, ShelfKept,
         FetchOk(new, fill[c], shelf'.revision, settled, origin)
  PROVE  CacheInv'
<1>1. /\ fill[c] \in Nat /\ fill' = [fill EXCEPT ![c] = fill[c]] /\ origin \in [Targets -> Nat]
      /\ settled \in [Targets -> Nat]
      /\ \A t \in Targets : origin[t] <= origin[t] /\ settled[t] <= origin[t]
  BY DEF CacheInv, Kept
<1>2. origin' = origin /\ settled' = settled
  BY DEF Kept
<1> QED
  BY <1>1, <1>2, ClientMoves

\* A request moves on and the shelf stays.
LEMMA FetchOnly ==
  ASSUME CacheInv, NEW c \in Clients, NEW new \in FetchStates, new.pc # "none",
         fetch' = [fetch EXCEPT ![c] = new], Kept, UNCHANGED shelf,
         FetchOk(new, fill[c], shelf.revision, settled, origin)
  PROVE  CacheInv'
<1>1. ShelfKept
  <2>1. shelf.revision \in Nat
    BY ShelfTyped DEF CacheInv, ShelfOk
  <2>2. \A d \in CopiesOf(shelf) : d.ver >= settled[d.key[1]]
    BY DEF CacheInv, CopySet
  <2> QED
    BY <2>1, <2>2 DEF CacheInv, ShelfKept, Kept
<1> QED
  BY <1>1, FetchMoves

\* What is known of one request.
LEMMA AtFetch ==
  ASSUME CacheInv, NEW c \in Clients
  PROVE  /\ fetch[c] \in FetchStates /\ FetchOk(fetch[c], fill[c], shelf.revision, settled, origin)
         /\ fill[c] \in Nat /\ ShelfOk(shelf) /\ shelf.revision \in Nat
         /\ fetch[c].rev \in Nat /\ fetch[c].ver \in Nat /\ fetch[c].q \in Ask
         /\ origin \in [Targets -> Nat] /\ settled \in [Targets -> Nat]
<1>1. fetch[c] \in FetchStates
  BY DEF CacheInv
<1>2. fetch[c].rev \in Nat /\ fetch[c].ver \in Nat /\ fetch[c].q \in Ask
  BY <1>1 DEF FetchStates
<1>3. shelf.revision \in Nat
  BY ShelfTyped DEF CacheInv, ShelfOk
<1> QED
  BY <1>1, <1>2, <1>3 DEF CacheInv

\* Before a request, and after it.
LEMMA NoFetchTyped ==
  /\ NoFetch \in FetchStates /\ NoFetch.rev = 0 /\ NoFetch.pc = "none"
  /\ FetchEnded \in FetchStates /\ FetchEnded.rev = 0 /\ FetchEnded.pc = "done"
<1>1. PICK z \in Nat, i \in Int : z = 0 /\ i = 0
  OBVIOUS
<1>2. (CHOOSE q \in Fetches : TRUE) \in Ask
  BY CacheAssumption
<1>3. NoFetch = [pc |-> "none", q |-> CHOOSE q \in Fetches : TRUE, rev |-> z, stale |-> NoCopy, seen |-> i,
                 retire |-> FALSE, ver |-> z, got |-> NoCopy, same |-> FALSE]
  BY <1>1 DEF NoFetch
<1> HIDE DEF NoCopy
<1>4. NoFetch \in FetchStates /\ NoFetch.rev = 0 /\ NoFetch.pc = "none"
  BY <1>1, <1>2, <1>3 DEF FetchStates, FetchPCs
<1>5. FetchEnded \in FetchStates /\ FetchEnded.rev = 0 /\ FetchEnded.pc = "done"
  BY <1>4 DEF FetchEnded, FetchStates, FetchPCs
<1> QED
  BY <1>4, <1>5

\* A request that is over relies on nothing.
LEMMA EndedOk ==
  ASSUME CacheInv, NEW revision \in Nat, NEW n \in Nat, n = 0, NEW done, NEW source
  PROVE  FetchOk(FetchEnded, n, revision, done, source)
  BY NoFetchTyped DEF FetchOk

\* A request that holds no bytes and goes where nothing is relied on but its revision.
LEMMA PlainOk ==
  ASSUME NEW f \in FetchStates, NEW n \in Nat, n > 0 => f.pc \in {"collect", "leave", "replay"},
         NEW revision \in Nat, f.rev <= revision, NEW done, NEW source,
         f.pc \notin {"answer", "collect", "written", "hit", "none"}
  PROVE  FetchOk(f, n, revision, done, source)
  BY DEF FetchOk

\* handle decides whether the cache is asked at all.
LEMMA EnterKeeps ==
  ASSUME CacheInv, NEW c \in Clients, NEW q \in Fetches, Enter(c, q)
  PROVE  CacheInv'
<1>1. PICK pc \in {"done", "pass", "stale", "lookup"} :
        fetch' = [fetch EXCEPT ![c] = [NoFetch EXCEPT !.q = q, !.pc = pc]]
  BY DEF Enter, Moves
<1> DEFINE new == [NoFetch EXCEPT !.q = q, !.pc = pc]
<1>2. q \in Ask
  BY CacheAssumption
<1>3. new \in FetchStates /\ new.pc = pc /\ new.rev = 0
  BY <1>1, <1>2, NoFetchTyped DEF FetchStates, FetchPCs
<1> HIDE DEF new
<1>4. fill[c] = 0 /\ fill[c] \in Nat /\ shelf.revision \in Nat
  BY AtFetch DEF Enter, FetchOk
<1>5. FetchOk(new, fill[c], shelf.revision, settled, origin)
  BY <1>1, <1>3, <1>4, PlainOk
<1>6. new.pc # "none" /\ UNCHANGED shelf /\ Kept /\ fetch' = [fetch EXCEPT ![c] = new]
  BY <1>1, <1>3 DEF Enter, new
<1> QED
  BY <1>3, <1>5, <1>6, FetchOnly

\* take_stale takes the copy and the revision under one lock.
LEMMA TakeStaleKeeps ==
  ASSUME CacheInv, NEW c \in Clients, TakeStale(c)
  PROVE  CacheInv'
<1> DEFINE f == fetch[c]
           stale == {d \in CopySet : d.key = CopyKey(f.q) /\ d.sign = Signature(f.q) /\ ~d.fresh}
           one == CHOOSE d \in stale : TRUE
           new == [f EXCEPT !.pc = "lookup",
                     !.stale = IF stale # {} /\ one.validator THEN one ELSE NoCopy,
                     !.rev = IF stale # {} /\ one.validator THEN shelf.revision ELSE 0]
<1>1. /\ f \in FetchStates /\ FetchOk(f, fill[c], shelf.revision, settled, origin) /\ fill[c] \in Nat
      /\ ShelfOk(shelf) /\ shelf.revision \in Nat
  BY AtFetch
<1>2. f.pc = "stale" /\ shelf' = Without(shelf, stale) /\ fetch' = [fetch EXCEPT ![c] = new] /\ Kept
  BY DEF TakeStale, Moves
<1>3. stale \in SUBSET CopySet /\ CopySet \in SUBSET Copies
  BY <1>1, ShelfTyped DEF ShelfOk, CopySet
<1>3a. stale # {} => one \in Copies
  BY <1>3
<1> HIDE DEF stale, one
<1>4. PICK copy \in Copies \cup {NoCopy}, rev \in Nat :
        /\ copy = IF stale # {} /\ one.validator THEN one ELSE NoCopy
        /\ rev = IF stale # {} /\ one.validator THEN shelf.revision ELSE 0
        /\ rev <= shelf.revision
  <2>1. CASE stale # {} /\ one.validator
    <3>1. one \in Copies \cup {NoCopy} /\ shelf.revision <= shelf.revision
      BY <1>1, <1>3a, <2>1
    <3> QED
      BY <1>1, <2>1, <3>1
  <2>2. CASE ~(stale # {} /\ one.validator)
    <3>1. NoCopy \in Copies \cup {NoCopy} /\ 0 \in Nat /\ 0 <= shelf.revision
      BY <1>1
    <3> QED
      BY <2>2, <3>1
  <2> QED
    BY <2>1, <2>2
<1>5. new = [f EXCEPT !.pc = "lookup", !.stale = copy, !.rev = rev]
  BY <1>4
<1> HIDE DEF new
<1>6. new \in FetchStates /\ new.pc = "lookup" /\ new.rev = rev
  BY <1>1, <1>4, <1>5 DEF FetchStates, FetchPCs
<1>7. /\ ShelfOk(shelf') /\ CopiesOf(shelf') \subseteq CopySet /\ shelf'.revision = shelf.revision
      /\ shelf'.bytes <= MaxBytes
  <2>1. /\ ShelfOk(shelf') /\ CopiesOf(shelf') = CopySet \ stale /\ shelf'.revision = shelf.revision
        /\ shelf'.bytes = shelf.bytes - WeightOf(stale) /\ WeightOf(stale) \in Nat /\ shelf.bytes \in Nat
    BY <1>1, <1>2, <1>3, WithoutOk DEF CopySet
  <2>2. MaxBytes \in Nat /\ shelf.bytes <= MaxBytes
    BY CacheAssumption DEF CacheInv, Decoded
  <2> QED
    BY <2>1, <2>2
<1>8. ShelfKept
  BY <1>1, <1>2, <1>7, ShelfLess DEF Kept
<1>9. fill[c] = 0
  BY <1>1, <1>2 DEF FetchOk
<1>10. FetchOk(new, fill[c], shelf'.revision, settled, origin)
  BY <1>1, <1>4, <1>6, <1>7, <1>9, PlainOk
<1> QED
  BY <1>2, <1>6, <1>8, <1>10, FetchMoves

\* lookup drops what is not fresh.
LEMMA PurgedOk ==
  ASSUME CacheInv, NEW key
  PROVE  /\ ShelfOk(Purged(key)) /\ CopiesOf(Purged(key)) \subseteq CopySet
         /\ \A d \in CopySet : d.fresh => d \in CopiesOf(Purged(key))
         /\ Purged(key).revision = shelf.revision /\ Purged(key).bytes <= MaxBytes
<1> DEFINE gone == {c \in CopySet : c.key = key /\ ~c.fresh}
<1>1. ShelfOk(shelf) /\ gone \in SUBSET CopiesOf(shelf) /\ Purged(key) = Without(shelf, gone)
  BY DEF CacheInv, CopySet, Purged
<1>2. \A d \in CopySet : d.fresh => d \notin gone
  OBVIOUS
<1> HIDE DEF gone
<1>3. /\ ShelfOk(Purged(key)) /\ CopiesOf(Purged(key)) = CopySet \ gone /\ Purged(key).revision = shelf.revision
      /\ Purged(key).bytes = shelf.bytes - WeightOf(gone) /\ WeightOf(gone) \in Nat /\ shelf.bytes \in Nat
  BY <1>1, WithoutOk DEF CopySet
<1>4. MaxBytes \in Nat /\ shelf.bytes <= MaxBytes
  BY CacheAssumption DEF CacheInv, Decoded
<1> QED
  BY <1>2, <1>3, <1>4

\* What is found under a key and a signature varies as the request does.
LEMMA FoundFits ==
  ASSUME CacheInv, NEW q \in Ask, NEW d \in Found(q)
  PROVE  /\ d \in CopySet /\ d \in Copies /\ d.key = CopyKey(q) /\ d.fresh
         /\ d.varies => d.header = q.header
<1>1. d \in CopySet /\ d.key = CopyKey(q) /\ d.fresh /\ d.sign = SignatureOf(q, Varies(CopyKey(q)))
  BY DEF Found, Signature
<1>2. ShelfOk(shelf) /\ CopySet \in SUBSET Copies /\ shelf.vary \in SUBSET Varying
  BY ShelfTyped DEF CacheInv, ShelfOk, CopySet
<1>3. d.sign = SignatureOf(d, d.varies) /\ [key |-> d.key, on |-> On(d)] \in shelf.vary
  BY <1>1, <1>2 DEF ShelfOk, CopySet
<1>4. d.varies => Varies(CopyKey(q))
  BY <1>1, <1>3 DEF Varies, On
<1> QED
  BY <1>1, <1>2, <1>3, <1>4 DEF SignatureOf

\* lookup, hit or not.
LEMMA LookupKeeps ==
  ASSUME CacheInv, NEW c \in Clients, Hit(c) \/ Miss(c)
  PROVE  CacheInv'
<1> DEFINE f == fetch[c]
           q == fetch[c].q
<1>1. /\ f \in FetchStates /\ FetchOk(f, fill[c], shelf.revision, settled, origin) /\ fill[c] \in Nat
      /\ ShelfOk(shelf) /\ shelf.revision \in Nat /\ q \in Ask /\ f.rev \in Nat
  BY AtFetch
<1>2. f.pc = "lookup" /\ Kept
  BY DEF Hit, Miss
<1>3. fill[c] = 0 /\ f.rev <= shelf.revision
  BY <1>1, <1>2 DEF FetchOk
<1>4. CASE Hit(c)
  <2> DEFINE d == CHOOSE d \in Found(q) : TRUE
  <2>1. d \in Found(q) /\ shelf' = Touched(Purged(CopyKey(q)), d)
        /\ fetch' = [fetch EXCEPT ![c] = [FetchEnded EXCEPT !.pc = "hit", !.q = q, !.got = d]]
    BY <1>4 DEF Hit, Moves
  <2> HIDE DEF d
  <2>2. /\ d \in CopySet /\ d \in Copies /\ d.key = CopyKey(q) /\ d.fresh
        /\ d.varies => d.header = q.header
    BY <1>1, <2>1, FoundFits
  <2>3. /\ ShelfOk(Purged(CopyKey(q))) /\ CopiesOf(Purged(CopyKey(q))) \subseteq CopySet
        /\ d \in CopiesOf(Purged(CopyKey(q)))
        /\ Purged(CopyKey(q)).revision = shelf.revision /\ Purged(CopyKey(q)).bytes <= MaxBytes
    BY <2>2, PurgedOk
  <2>4. /\ ShelfOk(shelf') /\ CopiesOf(shelf') \subseteq CopySet /\ shelf'.revision = shelf.revision
        /\ shelf'.bytes <= MaxBytes
    BY <2>1, <2>3, TouchedOk
  <2>5. ShelfKept
    BY <1>1, <1>2, <2>4, ShelfLess DEF Kept
  <2> DEFINE new == [FetchEnded EXCEPT !.pc = "hit", !.q = q, !.got = d]
  <2>6. new \in FetchStates /\ new.pc = "hit" /\ new.q = q /\ new.got = d /\ new.rev = 0
    BY <1>1, <2>2, NoFetchTyped DEF FetchStates, FetchPCs
  <2>7. fetch' = [fetch EXCEPT ![c] = new]
    BY <2>1
  <2> HIDE DEF new
  <2>8. FetchOk(new, fill[c], shelf'.revision, settled, origin)
    BY <1>1, <1>3, <2>2, <2>4, <2>6 DEF FetchOk
  <2> QED
    BY <1>2, <2>5, <2>6, <2>7, <2>8, FetchMoves
<1>5. CASE Miss(c)
  <2>1. shelf' = shelf \/ shelf' = Purged(CopyKey(q))
    BY <1>5 DEF Miss
  <2>2. /\ ShelfOk(shelf') /\ CopiesOf(shelf') \subseteq CopySet /\ shelf'.revision = shelf.revision
        /\ shelf'.bytes <= MaxBytes
    <3>1. /\ ShelfOk(Purged(CopyKey(q))) /\ CopiesOf(Purged(CopyKey(q))) \subseteq CopySet
          /\ Purged(CopyKey(q)).revision = shelf.revision /\ Purged(CopyKey(q)).bytes <= MaxBytes
      BY PurgedOk
    <3>2. shelf.bytes <= MaxBytes
      BY DEF CacheInv
    <3> QED
      BY <1>1, <2>1, <3>1, <3>2 DEF CopySet
  <2>3. ShelfKept
    BY <1>1, <1>2, <2>2, ShelfLess DEF Kept
  <2>4. PICK new \in {FetchEnded, [f EXCEPT !.pc = "revision"]} : fetch' = [fetch EXCEPT ![c] = new]
    BY <1>5 DEF Miss, Moves
  <2>5. /\ [f EXCEPT !.pc = "revision"] \in FetchStates /\ [f EXCEPT !.pc = "revision"].pc = "revision"
        /\ [f EXCEPT !.pc = "revision"].rev = f.rev
    BY <1>1 DEF FetchStates, FetchPCs
  <2>6. new \in FetchStates /\ new.pc \in {"done", "revision"} /\ new.rev <= shelf.revision
    <3>1. CASE new = FetchEnded
      BY <1>1, <3>1, NoFetchTyped
    <3>2. CASE new = [f EXCEPT !.pc = "revision"]
      BY <1>3, <2>5, <3>2
    <3> QED
      BY <2>4, <3>1, <3>2
  <2>7. FetchOk(new, fill[c], shelf'.revision, settled, origin)
    BY <1>1, <1>3, <2>2, <2>6, PlainOk
  <2> QED
    BY <1>2, <2>3, <2>4, <2>6, <2>7, FetchMoves
<1> QED
  BY <1>4, <1>5

\* The revision is read before the origin is.
LEMMA ReadRevisionKeeps ==
  ASSUME CacheInv, NEW c \in Clients, ReadRevision(c)
  PROVE  CacheInv'
<1> DEFINE f == fetch[c]
<1>1. /\ f \in FetchStates /\ FetchOk(f, fill[c], shelf.revision, settled, origin) /\ fill[c] \in Nat
      /\ shelf.revision \in Nat /\ f.rev \in Nat
  BY AtFetch
<1>2. f.pc = "revision" /\ UNCHANGED shelf /\ Kept
  BY DEF ReadRevision
<1>3. fill[c] = 0 /\ f.rev <= shelf.revision
  BY <1>1, <1>2 DEF FetchOk
<1>4. PICK rev \in {shelf.revision, f.rev} : fetch' = [fetch EXCEPT ![c] = [f EXCEPT !.pc = "observe", !.rev = rev]]
  BY DEF ReadRevision, Moves
<1> DEFINE new == [f EXCEPT !.pc = "observe", !.rev = rev]
<1>5. rev \in Nat /\ rev <= shelf.revision
  BY <1>1, <1>3
<1>6. new \in FetchStates /\ new.pc = "observe" /\ new.rev = rev
  BY <1>1, <1>5 DEF FetchStates, FetchPCs
<1>7. fetch' = [fetch EXCEPT ![c] = new]
  BY <1>4
<1> HIDE DEF new
<1>8. FetchOk(new, fill[c], shelf.revision, settled, origin)
  BY <1>1, <1>3, <1>5, <1>6, PlainOk
<1> QED
  BY <1>2, <1>6, <1>7, <1>8, FetchOnly

\* observe remembers the identity of the copy that is there.
LEMMA ObservesKeeps ==
  ASSUME CacheInv, NEW c \in Clients, Observes(c)
  PROVE  CacheInv'
<1> DEFINE f == fetch[c]
           there == {d \in CopySet : d.key = CopyKey(f.q) /\ d.sign = Signature(f.q)}
           one == CHOOSE d \in there : TRUE
<1>1. /\ f \in FetchStates /\ FetchOk(f, fill[c], shelf.revision, settled, origin) /\ fill[c] \in Nat
      /\ ShelfOk(shelf) /\ shelf.revision \in Nat
  BY AtFetch
<1>2. f.pc = "observe" /\ UNCHANGED shelf /\ Kept
      /\ fetch' = [fetch EXCEPT ![c] = [f EXCEPT !.pc = "forward", !.seen = IF there = {} THEN 0 ELSE one.id]]
  BY DEF Observes, Moves
<1>3. there # {} => one.id \in Int
  <2>1. CopySet \in SUBSET Copies
    BY <1>1, ShelfTyped DEF ShelfOk, CopySet
  <2>2. there # {} => one \in Copies
    BY <2>1
  <2> QED
    BY <2>2 DEF Copies
<1> HIDE DEF there, one
<1>4. PICK n \in Int : n = IF there = {} THEN 0 ELSE one.id
  <2>1. CASE there = {}
    BY <2>1
  <2>2. CASE there # {}
    BY <1>3, <2>2
  <2> QED
    BY <2>1, <2>2
<1> DEFINE new == [f EXCEPT !.pc = "forward", !.seen = n]
<1>5. new \in FetchStates /\ new.pc = "forward" /\ new.rev = f.rev
  BY <1>1, <1>4 DEF FetchStates, FetchPCs
<1>6. fetch' = [fetch EXCEPT ![c] = new]
  BY <1>2, <1>4
<1>7. fill[c] = 0 /\ f.rev <= shelf.revision
  BY <1>1, <1>2 DEF FetchOk
<1> HIDE DEF new
<1>8. FetchOk(new, fill[c], shelf.revision, settled, origin)
  BY <1>1, <1>5, <1>7, PlainOk
<1> QED
  BY <1>2, <1>5, <1>6, <1>8, FetchOnly

\* The origin reads what is at least as new as what was acknowledged.
LEMMA OriginReadsKeeps ==
  ASSUME CacheInv, NEW c \in Clients, OriginReads(c)
  PROVE  CacheInv'
<1> DEFINE f == fetch[c]
<1>1. /\ f \in FetchStates /\ FetchOk(f, fill[c], shelf.revision, settled, origin) /\ fill[c] \in Nat
      /\ shelf.revision \in Nat /\ f.q \in Ask
  BY AtFetch
<1>2. f.pc = "forward" /\ UNCHANGED shelf /\ Kept
  BY DEF OriginReads
<1>3. f.q.target \in Targets
  BY <1>1 DEF Ask
<1>4. PICK n \in Nat : n = origin[f.q.target] /\ n >= settled[f.q.target]
  BY <1>3 DEF CacheInv
<1> DEFINE new == [f EXCEPT !.pc = "answer", !.ver = n]
<1>5. new \in FetchStates /\ new.pc = "answer" /\ new.rev = f.rev /\ new.ver = n /\ new.q = f.q
  BY <1>1, <1>4 DEF FetchStates, FetchPCs
<1>6. fetch' = [fetch EXCEPT ![c] = new]
  BY <1>4 DEF OriginReads, Moves
<1>7. fill[c] = 0 /\ f.rev <= shelf.revision
  BY <1>1, <1>2 DEF FetchOk
<1> HIDE DEF new
<1>8. FetchOk(new, fill[c], shelf.revision, settled, origin)
  BY <1>1, <1>4, <1>5, <1>7 DEF FetchOk
<1> QED
  BY <1>2, <1>5, <1>6, <1>8, FetchOnly

\* There always is an identity that neither a copy has nor a request has seen.
LEMMA FreshTyped ==
  ASSUME CacheInv
  PROVE  FreshId \in Int
<1> DEFINE ids == {d.id : d \in CopySet}
           seen == {fetch[c].seen : c \in Clients}
           now == {fetch[c].seen : c \in Fetching}
           used == ids \cup seen
           N == Cardinality(used) + 1
<1>1. IsFiniteSet(CopySet) /\ IsFiniteSet(Fetching)
  BY ShelfFinite DEF CacheInv, ShelfOk, CopySet
<1>2. IsFiniteSet(ids)
  <2> DEFINE g == [d \in CopySet |-> d.id]
  <2>1. DOMAIN g = CopySet /\ ids = {g[d] : d \in CopySet}
    OBVIOUS
  <2> HIDE DEF g, ids
  <2> QED
    BY <1>1, <2>1, ImageFinite
<1>3. IsFiniteSet(now)
  <2> DEFINE g == [c \in Fetching |-> fetch[c].seen]
  <2>1. DOMAIN g = Fetching /\ now = {g[c] : c \in Fetching}
    OBVIOUS
  <2> HIDE DEF g, now
  <2> QED
    BY <1>1, <2>1, ImageFinite
<1>4. seen \in SUBSET (now \cup {0})
  BY DEF CacheInv, Fetching, FetchOk
<1> HIDE DEF ids, now, seen
<1>5. IsFiniteSet(used) /\ Cardinality(used) \in Nat
  <2>1. IsFiniteSet(now \cup {0})
    BY <1>3, FS_AddElement
  <2>2. IsFiniteSet(seen)
    BY <1>4, <2>1, FS_Subset
  <2>3. IsFiniteSet(used)
    BY <1>2, <2>2, FS_Union
  <2> QED
    BY <2>3, FS_CardinalityType
<1>6. FreshId = CHOOSE i \in 1..N : i \notin used
  BY DEF FreshId, ids, seen
<1> HIDE DEF used
<1>7. \E i \in 1..N : i \notin used
  <2> SUFFICES ASSUME 1..N \subseteq used PROVE FALSE
    OBVIOUS
  <2>1. Cardinality(1..N) <= Cardinality(used)
    BY <1>5, FS_Subset
  <2>2. Cardinality(1..N) = N
    BY <1>5, FS_Interval
  <2> QED
    BY <1>5, <2>1, <2>2
<1> QED
  BY <1>5, <1>6, <1>7

\* What the origin may send: an offer, or the stale body again.
Bodies ==
  [says : {"fresh", "public", "private", "cookie", "vary star", "bad age", "stale"},
   size : Nat, declared : BOOLEAN, vary : {"none", "header"}, validator : BOOLEAN]

\* What a fill would store has the signature of what it varies on, and may be shared.
LEMMA NewCopyOk ==
  ASSUME CacheInv, NEW q \in Ask, NEW b \in Bodies, NEW ver \in Nat, Storable(q, b), NEW new, new = NewCopy(q, b, ver)
  PROVE  /\ new \in Copies /\ new.ver = ver /\ new.key = CopyKey(q)
         /\ new.sign = SignatureOf(new, new.varies)
<1> DEFINE varies == b.vary = "header"
           shared == ~q.authorized \/ b.says = "public"
           sign == SignatureOf(q, varies)
<1>1. /\ b.size \in Nat /\ b.validator \in BOOLEAN /\ varies \in BOOLEAN /\ q.header \in Signs
      /\ CopyKey(q) \in CopyKeys /\ sign \in Signs
  BY DEF Bodies, Ask, CopyKey, CopyKeys, Signs, SignatureOf
<1>2. shared = TRUE
  BY DEF Storable, Ask
<1>3. FreshId \in Int
  BY FreshTyped
<1>4. new = [id |-> FreshId, key |-> CopyKey(q), sign |-> sign, ver |-> ver,
             weight |-> b.size, fresh |-> TRUE, validator |-> b.validator, header |-> q.header,
             varies |-> varies, shared |-> shared]
  BY DEF NewCopy
<1> HIDE DEF varies, shared, sign
<1>5. new \in Copies
  BY <1>1, <1>2, <1>3, <1>4 DEF Copies
<1>6. new.ver = ver /\ new.key = CopyKey(q) /\ new.sign = sign /\ new.varies = varies /\ new.header = q.header
  BY <1>4
<1> QED
  BY <1>5, <1>6 DEF SignatureOf, sign

\* A fill reserves what it may take, or is not made.
LEMMA OriginAnswersKeeps ==
  ASSUME CacheInv, NEW c \in Clients, NEW offer \in Offers, OriginAnswers(c, offer)
  PROVE  CacheInv'
<1> DEFINE f == fetch[c]
           same == f.stale # NoCopy /\ f.stale.ver = f.ver
           body == IF same THEN [offer EXCEPT !.size = f.stale.weight, !.declared = TRUE] ELSE offer
           stores == /\ Storable(f.q, body)
                     /\ ~(body.declared /\ body.size > MaxEntry)
                     /\ CanReserve(Reserve(body))
           got == IF stores THEN NewCopy(f.q, body, f.ver) ELSE NoCopy
           pc == IF stores THEN "collect" ELSE "leave"
           n == IF stores THEN Reserve(body) ELSE fill[c]
           had == f.stale # NoCopy
           renew == ~same
           new == [f EXCEPT !.pc = pc, !.retire = renew, !.same = had, !.stale = NoCopy, !.got = got]
<1>1. /\ f \in FetchStates /\ FetchOk(f, fill[c], shelf.revision, settled, origin) /\ fill[c] \in Nat
      /\ ShelfOk(shelf) /\ shelf.revision \in Nat /\ f.q \in Ask /\ f.ver \in Nat
  BY AtFetch
<1>2. f.pc = "answer" /\ UNCHANGED <<shelf, origin, settled>> /\ fetch' = [fetch EXCEPT ![c] = new]
      /\ fill' = IF stores THEN [fill EXCEPT ![c] = Reserve(body)] ELSE fill
  BY DEF OriginAnswers, Moves
<1>3. fill[c] = 0 /\ f.rev <= shelf.revision /\ (f.rev = shelf.revision => f.ver >= settled[f.q.target])
  BY <1>1, <1>2 DEF FetchOk
<1>4. body \in Bodies
  <2>1. offer \in Offer
    BY CacheAssumption
  <2>2. offer \in Bodies
    <3>1. 1..3 \subseteq Nat
      OBVIOUS
    <3> DEFINE sizes == 1..3
    <3>2. offer \in [says : {"fresh", "public", "private", "cookie", "vary star", "bad age", "stale"},
                    size : sizes, declared : BOOLEAN, vary : {"none", "header"}, validator : BOOLEAN]
      BY <2>1 DEF Offer
    <3>3. sizes \subseteq Nat
      BY <3>1
    <3> HIDE DEF sizes
    <3> QED
      BY <3>2, <3>3 DEF Bodies
  <2>3. CASE same
    <3>1. f.stale.weight \in Nat
      <4>1. f.stale \in Copies
        BY <1>1, <2>3 DEF FetchStates
      <4> QED
        BY <4>1 DEF Copies
    <3>2. PICK w \in Nat : w = f.stale.weight
      BY <3>1
    <3>3. [offer EXCEPT !.size = w, !.declared = TRUE] \in Bodies
      BY <2>2 DEF Bodies
    <3> QED
      BY <2>3, <3>2, <3>3
  <2> QED
    BY <2>2, <2>3
<1>5. Reserve(body) \in Nat
  <2>1. body.size \in Nat /\ MaxEntry \in Nat
    BY <1>4, CacheAssumption DEF Bodies
  <2> HIDE DEF body
  <2> QED
    BY <2>1 DEF Reserve, Small
<1> HIDE DEF body
<1>6. /\ got \in Copies \cup {NoCopy}
      /\ stores => got \in Copies /\ got.ver = f.ver /\ got.key = CopyKey(f.q) /\ got.sign = SignatureOf(got, got.varies)
  <2>1. CASE stores
    <3>1. got = NewCopy(f.q, body, f.ver) /\ Storable(f.q, body)
      BY <2>1
    <3> HIDE DEF got
    <3> QED
      BY <1>1, <1>4, <3>1, NewCopyOk
  <2>2. CASE ~stores
    BY <2>2
  <2> QED
    BY <2>1, <2>2
<1>7. n \in Nat /\ fill' = [fill EXCEPT ![c] = n] /\ (n = fill[c] \/ (fill[c] = 0 /\ CanReserve(n)))
  <2>1. fill \in [Clients -> Nat]
    BY DEF CacheInv
  <2>2. CASE stores
    BY <1>2, <1>3, <1>5, <2>2
  <2>3. CASE ~stores
    <3>1. n = fill[c] /\ fill' = fill
      BY <1>2, <2>3
    <3>2. fill = [fill EXCEPT ![c] = fill[c]]
      BY <2>1
    <3> QED
      BY <1>1, <3>1, <3>2
  <2> QED
    BY <2>2, <2>3
<1>8. pc \in {"collect", "leave"} /\ (pc = "collect" => stores) /\ had \in BOOLEAN /\ renew \in BOOLEAN
  OBVIOUS
<1> HIDE DEF stores, got, pc, n, had, renew, same
<1>9. new \in FetchStates
  BY <1>1, <1>6, <1>8 DEF FetchStates, FetchPCs
<1>10. new.pc = pc /\ new.q = f.q /\ new.rev = f.rev /\ new.ver = f.ver /\ new.got = got
  BY <1>1 DEF FetchStates
<1> HIDE DEF new
<1>11. FetchOk(new, n, shelf.revision, settled, origin)
  BY <1>3, <1>6, <1>8, <1>10 DEF FetchOk
<1>12. ShelfKept
  <2>1. CopiesOf(shelf') \subseteq CopySet /\ shelf'.bytes <= MaxBytes /\ shelf'.revision >= shelf.revision
    BY <1>1, <1>2 DEF CopySet, CacheInv
  <2> QED
    BY <1>1, <1>2, <2>1, ShelfLess
<1>13. /\ origin' \in [Targets -> Nat] /\ settled' \in [Targets -> Nat]
       /\ \A t \in Targets : origin[t] <= origin'[t] /\ settled'[t] <= origin'[t]
       /\ settled' = settled /\ origin' = origin
  BY <1>2 DEF CacheInv
<1>14. FetchOk(new, n, shelf'.revision, settled', origin')
  BY <1>2, <1>11
<1>15. new.pc # "none"
  BY <1>8, <1>10
<1> QED
  BY <1>2, <1>7, <1>9, <1>12, <1>13, <1>14, <1>15, ClientMoves

\* A request without a reservation is over.
LEMMA EndsKeeps ==
  ASSUME CacheInv, NEW c \in Clients, fill[c] = 0, fetch' = [fetch EXCEPT ![c] = FetchEnded], UNCHANGED shelf, Kept
  PROVE  CacheInv'
<1>1. fill[c] \in Nat /\ shelf.revision \in Nat
  BY AtFetch
<1>2. FetchOk(FetchEnded, fill[c], shelf.revision, settled, origin)
  BY <1>1, EndedOk
<1>3. FetchEnded \in FetchStates /\ FetchEnded.pc # "none"
  BY NoFetchTyped
<1> HIDE DEF FetchEnded
<1> QED
  BY <1>2, <1>3, FetchOnly

\* A fill that will not be stored.
LEMMA GivesUpKeeps ==
  ASSUME CacheInv, NEW c \in Clients, fetch[c].pc = "collect", ShelfKept, Kept, shelf'.revision = shelf.revision,
         fetch' = [fetch EXCEPT ![c] = [fetch[c] EXCEPT !.pc = "leave", !.got = NoCopy]]
  PROVE  CacheInv'
<1> DEFINE f == fetch[c]
           new == [f EXCEPT !.pc = "leave", !.got = NoCopy]
<1>1. /\ f \in FetchStates /\ FetchOk(f, fill[c], shelf.revision, settled, origin) /\ fill[c] \in Nat
      /\ shelf.revision \in Nat
  BY AtFetch
<1>2. new \in FetchStates /\ new.pc = "leave" /\ new.rev = f.rev
  BY <1>1 DEF FetchStates, FetchPCs
<1>3. f.rev <= shelf.revision
  BY <1>1 DEF FetchOk
<1>4. fetch' = [fetch EXCEPT ![c] = new]
  OBVIOUS
<1> HIDE DEF new
<1>5. FetchOk(new, fill[c], shelf'.revision, settled, origin)
  BY <1>1, <1>2, <1>3, PlainOk
<1> QED
  BY <1>2, <1>4, <1>5, FetchMoves

\* A shelf that is left alone is sound.
LEMMA ShelfStays ==
  ASSUME CacheInv, UNCHANGED <<shelf, settled>>
  PROVE  ShelfKept /\ shelf'.revision = shelf.revision
<1>1. shelf.revision \in Nat
  BY ShelfTyped DEF CacheInv, ShelfOk
<1> QED
  BY <1>1 DEF CacheInv, CopySet, ShelfKept

\* The ways in which a fetch is given up.
LEMMA AbandonsKeeps ==
  ASSUME CacheInv, NEW c \in Clients, BadAnswer(c) \/ Spills(c) \/ Cancels(c) \/ WriteFails(c)
  PROVE  CacheInv'
<1>1. UNCHANGED shelf /\ Kept
  BY DEF BadAnswer, Spills, Cancels, WriteFails
<1>2. CASE fetch[c].pc = "collect"
  <2>1. fetch' = [fetch EXCEPT ![c] = [fetch[c] EXCEPT !.pc = "leave", !.got = NoCopy]]
    BY <1>2 DEF BadAnswer, Spills, Cancels, WriteFails, Moves
  <2>2. ShelfKept /\ shelf'.revision = shelf.revision
    BY <1>1, ShelfStays DEF Kept
  <2> QED
    BY <1>1, <1>2, <2>1, <2>2, GivesUpKeeps
<1>3. CASE fetch[c].pc # "collect"
  <2>1. fetch' = [fetch EXCEPT ![c] = FetchEnded] /\ fetch[c].pc \in {"forward", "answer", "written"}
    BY <1>3 DEF BadAnswer, Spills, Cancels, WriteFails, Moves
  <2>2. fill[c] = 0
    BY <2>1, AtFetch DEF FetchOk
  <2> QED
    BY <1>1, <2>1, <2>2, EndsKeeps
<1> QED
  BY <1>2, <1>3

\* A copy varies on what its key is known to vary on.
LEMMA VariesAsKnown ==
  ASSUME CacheInv, NEW d \in CopySet
  PROVE  d.varies = Varies(d.key) /\ Known(d.key)
<1>1. ShelfOk(shelf) /\ d \in Copies
  BY ShelfTyped DEF CacheInv, CopySet, ShelfOk
<1>2. d.varies \in BOOLEAN /\ Varies(d.key) \in BOOLEAN
  BY <1>1 DEF Copies, Varies
<1>3. [key |-> d.key, on |-> On(d)] \in shelf.vary /\ \A v, w \in shelf.vary : v.key = w.key => v = w
  BY <1>1 DEF ShelfOk, CopySet
<1>4. d.varies => Varies(d.key)
  BY <1>3 DEF On, Varies
<1>5. ASSUME ~d.varies PROVE ~Varies(d.key)
  <2>1. [key |-> d.key, on |-> "none"] \in shelf.vary
    BY <1>3, <1>5 DEF On
  <2>2. /\ [key |-> d.key, on |-> "none"].on # [key |-> d.key, on |-> "header"].on
        /\ [key |-> d.key, on |-> "none"].key = [key |-> d.key, on |-> "header"].key
    OBVIOUS
  <2> QED
    BY <1>3, <2>1, <2>2 DEF Varies
<1> QED
  BY <1>2, <1>3, <1>4, <1>5 DEF Known

\* What replaces a copy takes its place, whatever it varies on.
LEMMA PutOk ==
  ASSUME CacheInv, NEW new \in Copies, new.sign = SignatureOf(new, new.varies)
  PROVE  /\ ShelfOk(Put(new)) /\ Put(new).bytes <= MaxBytes /\ Put(new).revision = shelf.revision
         /\ CopiesOf(Put(new)) \subseteq CopySet \cup {new}
<1> DEFINE gone == {d \in CopySet : d.key = new.key /\ (d.sign = new.sign \/ Varies(new.key) # new.varies)}
           s == Without(shelf, gone)
<1>1. ShelfOk(shelf) /\ gone \in SUBSET CopiesOf(shelf) /\ CopySet \in SUBSET Copies
  BY ShelfTyped DEF CacheInv, CopySet, ShelfOk
<1>2. Put(new) = Evicted(Added(s, new))
  BY DEF Put, Added, On
<1>3. \A d \in CopySet : d.varies = Varies(d.key)
  BY VariesAsKnown
<1>4. \A d \in CopySet \ gone : d.key = new.key => d.sign # new.sign /\ d.varies = new.varies
  BY <1>3
<1> HIDE DEF gone
<1>5. ShelfOk(s) /\ CopiesOf(s) = CopySet \ gone /\ s.revision = shelf.revision
  BY <1>1, WithoutOk DEF CopySet
<1> HIDE DEF s
<1>6. ShelfOk(Added(s, new)) /\ CopiesOf(Added(s, new)) = CopiesOf(s) \cup {new} /\ Added(s, new).revision = s.revision
  BY <1>4, <1>5, AddedOk
<1>7. /\ ShelfOk(Put(new)) /\ Put(new).bytes <= MaxBytes /\ Put(new).revision = s.revision
      /\ CopiesOf(Put(new)) \subseteq CopiesOf(Added(s, new))
  BY <1>2, <1>6, EvictedOk
<1> QED
  BY <1>5, <1>6, <1>7

\* What is stored is as new as what is settled: nothing was invalidated since the
\* revision was read, which was before the origin was.
LEMMA StoresKeeps ==
  ASSUME CacheInv, NEW c \in Clients, Stores(c)
  PROVE  CacheInv'
<1> DEFINE f == fetch[c]
<1>1. /\ f \in FetchStates /\ FetchOk(f, fill[c], shelf.revision, settled, origin)
      /\ ShelfOk(shelf) /\ shelf.revision \in Nat
  BY AtFetch
<1>2. f.pc = "collect" /\ Kept
      /\ fetch' = [fetch EXCEPT ![c] = [f EXCEPT !.pc = "leave", !.got = NoCopy]]
      /\ shelf' = IF PutRefused(c, f.same) THEN shelf ELSE Put(f.got)
  BY DEF Stores, Moves, Kept
<1>3. ShelfKept /\ shelf'.revision = shelf.revision
  <2>1. CASE PutRefused(c, f.same)
    BY <1>2, <2>1, ShelfStays DEF Kept
  <2>2. CASE ~PutRefused(c, f.same)
    <3>1. shelf' = Put(f.got) /\ f.rev = shelf.revision
      BY <1>2, <2>2 DEF PutRefused
    <3>2. /\ f.got \in Copies /\ f.got.sign = SignatureOf(f.got, f.got.varies)
          /\ f.got.ver >= settled[f.q.target] /\ f.got.key = CopyKey(f.q)
      BY <1>1, <1>2, <3>1 DEF FetchOk
    <3>3. /\ ShelfOk(shelf') /\ shelf'.bytes <= MaxBytes /\ shelf'.revision = shelf.revision
          /\ CopiesOf(shelf') \subseteq CopySet \cup {f.got}
      BY <3>1, <3>2, PutOk
    <3>4. f.got.key[1] = f.q.target
      BY <3>2 DEF CopyKey
    <3>5. \A d \in CopySet : d.ver >= settled[d.key[1]]
      BY DEF CacheInv
    <3>6. \A d \in CopiesOf(shelf') : d.ver >= settled'[d.key[1]]
      BY <1>2, <3>2, <3>3, <3>4, <3>5 DEF Kept
    <3> QED
      BY <1>1, <3>3, <3>6 DEF ShelfKept
  <2> QED
    BY <2>1, <2>2
<1> QED
  BY <1>2, <1>3, GivesUpKeeps

\* An invalidation also says that there was one.
LEMMA FencedOk ==
  ASSUME NEW s, ShelfOk(s), NEW t, t = [s EXCEPT !.revision = @ + 1]
  PROVE  ShelfOk(t) /\ CopiesOf(t) = CopiesOf(s) /\ t.revision = s.revision + 1 /\ t.bytes = s.bytes
<1>1. s \in Shelves /\ s.revision \in Nat
  BY ShelfTyped DEF ShelfOk
<1>2. PICK n \in Nat : n = s.revision + 1
  BY <1>1
<1>3. t = [s EXCEPT !.revision = n]
  BY <1>2
<1>4. t \in Shelves
  BY <1>1, <1>3 DEF Shelves
<1>5. t.copies = s.copies /\ t.vary = s.vary /\ t.bytes = s.bytes /\ t.revision = n
  BY <1>1, <1>3 DEF Shelves
<1>6. CopiesOf(t) = CopiesOf(s)
  BY <1>5 DEF CopiesOf
<1> QED
  BY <1>2, <1>4, <1>5, <1>6 DEF ShelfOk, OnceEach

\* invalidate and discard_observed remove copies and advance the revision.
LEMMA InvalidatedOk ==
  ASSUME CacheInv, NEW gone \in SUBSET CopySet, shelf' = [Without(shelf, gone) EXCEPT !.revision = @ + 1]
  PROVE  /\ ShelfOk(shelf') /\ CopiesOf(shelf') = CopySet \ gone /\ shelf'.revision = shelf.revision + 1
         /\ shelf.revision \in Nat /\ shelf'.bytes <= MaxBytes
<1>1. ShelfOk(shelf) /\ shelf.revision \in Nat /\ shelf.bytes <= MaxBytes /\ MaxBytes \in Nat
  BY ShelfTyped, CacheAssumption DEF CacheInv, ShelfOk, Decoded
<1>2. /\ ShelfOk(Without(shelf, gone)) /\ CopiesOf(Without(shelf, gone)) = CopySet \ gone
      /\ Without(shelf, gone).revision = shelf.revision
      /\ Without(shelf, gone).bytes = shelf.bytes - WeightOf(gone) /\ WeightOf(gone) \in Nat /\ shelf.bytes \in Nat
  BY <1>1, WithoutOk DEF CopySet
<1>3. /\ ShelfOk(shelf') /\ CopiesOf(shelf') = CopiesOf(Without(shelf, gone))
      /\ shelf'.revision = Without(shelf, gone).revision + 1 /\ shelf'.bytes = Without(shelf, gone).bytes
  BY <1>2, FencedOk
<1> QED
  BY <1>1, <1>2, <1>3

\* The Retirement's drop removes the copy that was observed, unless it was replaced.
LEMMA LeavesKeeps ==
  ASSUME CacheInv, NEW c \in Clients, Leaves(c)
  PROVE  CacheInv'
<1>1. /\ fill[c] \in Nat /\ shelf.revision \in Nat /\ Kept
  BY AtFetch DEF Leaves
<1>2. ShelfKept
  <2> DEFINE there == {d \in CopySet : d.id = fetch[c].seen}
  <2>1. shelf' = shelf \/ shelf' = [Without(shelf, there) EXCEPT !.revision = @ + 1]
    BY DEF Leaves, Discard
  <2>2. CASE shelf' = shelf
    BY <1>1, <2>2, ShelfStays DEF Kept
  <2>3. CASE shelf' = [Without(shelf, there) EXCEPT !.revision = @ + 1]
    <3>1. there \in SUBSET CopySet
      OBVIOUS
    <3> HIDE DEF there
    <3>2. /\ ShelfOk(shelf') /\ CopiesOf(shelf') = CopySet \ there /\ shelf'.revision = shelf.revision + 1
          /\ shelf'.bytes <= MaxBytes
      BY <2>3, <3>1, InvalidatedOk
    <3>3. CopiesOf(shelf') \subseteq CopySet /\ shelf'.revision >= shelf.revision
      BY <1>1, <3>2
    <3> QED
      BY <1>1, <3>2, <3>3, ShelfLess DEF Kept
  <2> QED
    BY <2>1, <2>2, <2>3
<1>3. PICK new \in {FetchEnded, [FetchEnded EXCEPT !.pc = "replay"]} :
        fetch' = [fetch EXCEPT ![c] = new] /\ (fill[c] > 0 => new = [FetchEnded EXCEPT !.pc = "replay"])
  BY DEF Leaves, Moves
<1>4. /\ [FetchEnded EXCEPT !.pc = "replay"] \in FetchStates /\ [FetchEnded EXCEPT !.pc = "replay"].pc = "replay"
      /\ [FetchEnded EXCEPT !.pc = "replay"].rev = 0
  BY NoFetchTyped DEF FetchStates, FetchPCs
<1>5. new \in FetchStates /\ new.pc \in {"done", "replay"} /\ new.rev = 0 /\ (fill[c] > 0 => new.pc = "replay")
  BY <1>3, <1>4, NoFetchTyped
<1>6. shelf'.revision \in Nat /\ new.rev <= shelf'.revision
  <2>1. shelf'.revision \in Nat
    BY <1>2, ShelfTyped DEF ShelfKept, ShelfOk
  <2> QED
    BY <1>5, <2>1
<1>7. FetchOk(new, fill[c], shelf'.revision, settled, origin)
  BY <1>1, <1>5, <1>6, PlainOk
<1> QED
  BY <1>1, <1>2, <1>3, <1>5, <1>7, FetchMoves

\* A reservation is returned once.
LEMMA ReleasesFillKeeps ==
  ASSUME CacheInv, NEW c \in Clients, ReleasesFill(c)
  PROVE  CacheInv'
<1>1. fill' = [fill EXCEPT ![c] = 0] /\ fetch' = [fetch EXCEPT ![c] = FetchEnded] /\ UNCHANGED <<shelf, origin, settled>>
  BY DEF ReleasesFill, Moves
<1>2. /\ shelf.revision \in Nat /\ 0 \in Nat
  BY AtFetch
<1>3. ShelfKept
  BY <1>1, ShelfStays
<1>4. FetchOk(FetchEnded, 0, shelf.revision, settled, origin)
  BY <1>2, EndedOk
<1>5. FetchOk(FetchEnded, 0, shelf'.revision, settled', origin')
  BY <1>1, <1>4
<1>6. /\ origin' \in [Targets -> Nat] /\ settled' \in [Targets -> Nat]
      /\ \A t \in Targets : origin[t] <= origin'[t] /\ settled'[t] <= origin'[t]
      /\ settled' = settled
  BY <1>1 DEF CacheInv
<1>7. FetchEnded \in FetchStates /\ FetchEnded.pc # "none"
  BY NoFetchTyped
<1> HIDE DEF FetchEnded
<1> QED
  BY <1>1, <1>2, <1>3, <1>5, <1>6, <1>7, ClientMoves

\* A write is made before it is acknowledged.
LEMMA OriginWritesKeeps ==
  ASSUME CacheInv, NEW c \in Clients, OriginWrites(c)
  PROVE  CacheInv'
<1> DEFINE f == fetch[c]
<1>1. /\ f \in FetchStates /\ FetchOk(f, fill[c], shelf.revision, settled, origin) /\ fill[c] \in Nat
      /\ shelf.revision \in Nat /\ f.q \in Ask
  BY AtFetch
<1>2. f.pc = "pass" /\ UNCHANGED <<shelf, fill, settled>>
  BY DEF OriginWrites
<1>3. fill[c] = 0 /\ f.rev <= shelf.revision
  BY <1>1, <1>2 DEF FetchOk
<1>4. CASE f.q.method = "unsafe"
  <2>1. f.q.target \in Targets
    BY <1>1 DEF Ask
  <2>2. PICK n \in Nat : n = origin[f.q.target] + 1
    BY <2>1 DEF CacheInv
  <2>3. origin' = [origin EXCEPT ![f.q.target] = n]
    BY <1>4, <2>2 DEF OriginWrites
  <2>4. /\ origin' \in [Targets -> Nat] /\ settled' \in [Targets -> Nat] /\ origin'[f.q.target] = n
        /\ \A t \in Targets : origin[t] <= origin'[t] /\ settled'[t] <= origin'[t]
    <3>1. origin \in [Targets -> Nat] /\ settled \in [Targets -> Nat] /\ \A t \in Targets : settled[t] <= origin[t]
      BY DEF CacheInv
    <3>2. origin' \in [Targets -> Nat] /\ origin'[f.q.target] = n
          /\ \A t \in Targets : t # f.q.target => origin'[t] = origin[t]
      BY <2>1, <2>3, <3>1
    <3> QED
      BY <1>2, <2>1, <2>2, <3>1, <3>2
  <2> DEFINE new == [f EXCEPT !.pc = "written", !.ver = n]
  <2>5. new \in FetchStates /\ new.pc = "written" /\ new.rev = f.rev /\ new.ver = n /\ new.q = f.q
    BY <1>1, <2>2 DEF FetchStates, FetchPCs
  <2>6. fetch' = [fetch EXCEPT ![c] = new]
    BY <1>4, <2>4 DEF OriginWrites, Moves
  <2> HIDE DEF new
  <2>7. FetchOk(new, fill[c], shelf'.revision, settled', origin')
    BY <1>2, <1>3, <2>4, <2>5 DEF FetchOk
  <2>8. ShelfKept /\ fill' = [fill EXCEPT ![c] = fill[c]] /\ settled' = settled
    BY <1>2, ShelfStays DEF CacheInv
  <2> QED
    BY <1>1, <2>4, <2>5, <2>6, <2>7, <2>8, ClientMoves
<1>5. CASE f.q.method # "unsafe"
  <2>1. fetch' = [fetch EXCEPT ![c] = FetchEnded] /\ UNCHANGED shelf /\ Kept
    BY <1>5 DEF OriginWrites, Moves, Kept
  <2> QED
    BY <1>3, <2>1, EndsKeeps
<1> QED
  BY <1>4, <1>5

\* A write is acknowledged after what it overwrote is gone.
LEMMA WriteReturnsKeeps ==
  ASSUME CacheInv, NEW c \in Clients, WriteReturns(c)
  PROVE  CacheInv'
<1> DEFINE f == fetch[c]
           t == f.q.target
           gone == {d \in CopySet : d.key[1] = t}
<1>1. /\ f \in FetchStates /\ FetchOk(f, fill[c], shelf.revision, settled, origin) /\ fill[c] \in Nat
      /\ ShelfOk(shelf) /\ shelf.revision \in Nat /\ f.q \in Ask /\ f.rev \in Nat /\ f.ver \in Nat
      /\ origin \in [Targets -> Nat] /\ settled \in [Targets -> Nat]
  BY AtFetch
<1>2. f.pc = "written" /\ UNCHANGED <<fill, origin>>
      /\ shelf' = [Without(shelf, gone) EXCEPT !.revision = @ + 1]
      /\ settled' = [settled EXCEPT ![t] = IF @ < f.ver THEN f.ver ELSE @]
  BY DEF WriteReturns, Invalidate
<1>3. fill[c] = 0 /\ f.rev <= shelf.revision /\ f.ver <= origin[t] /\ t \in Targets
  BY <1>1, <1>2 DEF FetchOk, Ask
<1>4. gone \in SUBSET CopySet /\ \A d \in CopySet \ gone : d.key[1] # t
  OBVIOUS
<1> HIDE DEF gone
<1>5. /\ ShelfOk(shelf') /\ CopiesOf(shelf') = CopySet \ gone /\ shelf'.revision = shelf.revision + 1
      /\ shelf'.bytes <= MaxBytes
  BY <1>2, <1>4, InvalidatedOk
<1>6. /\ settled' \in [Targets -> Nat] /\ \A u \in Targets : u # t => settled'[u] = settled[u]
      /\ settled'[t] = IF settled[t] < f.ver THEN f.ver ELSE settled[t]
  BY <1>1, <1>2, <1>3
<1>7. \A u \in Targets : settled[u] <= origin[u]
  BY DEF CacheInv
<1>8. /\ origin' \in [Targets -> Nat]
      /\ \A u \in Targets : origin[u] <= origin'[u] /\ settled'[u] <= origin'[u]
  BY <1>1, <1>2, <1>3, <1>6, <1>7
<1>9. \A d \in CopiesOf(shelf') : d.ver >= settled'[d.key[1]]
  <2> SUFFICES ASSUME NEW d \in CopySet, d.key[1] # t PROVE d.ver >= settled'[d.key[1]]
    BY <1>4, <1>5
  <2>1. d.key[1] \in Targets
    <3>1. d \in Copies
      BY <1>1, ShelfTyped DEF ShelfOk, CopySet
    <3> QED
      BY <3>1 DEF Copies, CopyKeys
  <2>2. d.ver >= settled[d.key[1]]
    BY DEF CacheInv
  <2> QED
    BY <1>6, <2>1, <2>2
<1>10. ShelfKept /\ shelf'.revision > shelf.revision
  BY <1>1, <1>5, <1>9 DEF ShelfKept
<1>11. PICK u \in Targets : fetch' = [fetch EXCEPT ![c] = IF u = t THEN FetchEnded
                                                          ELSE [f EXCEPT !.pc = "associated", !.q.target = u]]
  BY DEF WriteReturns, Moves
<1> DEFINE ask == [f.q EXCEPT !.target = u]
           more == [f EXCEPT !.pc = "associated", !.q = ask]
<1>12. ask \in Ask
  BY <1>1 DEF Ask
<1>13. [f EXCEPT !.pc = "associated", !.q.target = u] = more
  BY <1>1 DEF FetchStates
<1> HIDE DEF ask
<1>14. more \in FetchStates /\ more.pc = "associated" /\ more.rev = f.rev
  BY <1>1, <1>12 DEF FetchStates, FetchPCs
<1> HIDE DEF more
<1>15. PICK new \in {FetchEnded, more} : fetch' = [fetch EXCEPT ![c] = new]
  BY <1>11, <1>13
<1>16. new \in FetchStates /\ new.pc \in {"done", "associated"} /\ new.rev <= shelf'.revision /\ shelf'.revision \in Nat
  <2>1. shelf'.revision \in Nat /\ 0 <= shelf'.revision /\ f.rev <= shelf'.revision
    BY <1>1, <1>3, <1>5
  <2> QED
    BY <1>14, <1>15, <2>1, NoFetchTyped
<1>17. FetchOk(new, fill[c], shelf'.revision, settled', origin')
  BY <1>1, <1>3, <1>16, PlainOk
<1>18. fill' = [fill EXCEPT ![c] = fill[c]]
  BY <1>2 DEF CacheInv
<1> QED
  BY <1>1, <1>6, <1>8, <1>10, <1>15, <1>16, <1>17, <1>18, ClientMoves

\* So are the targets that the answer names.
LEMMA InvalidatesAssociatedKeeps ==
  ASSUME CacheInv, NEW c \in Clients, InvalidatesAssociated(c)
  PROVE  CacheInv'
<1> DEFINE gone == {d \in CopySet : d.key[1] = fetch[c].q.target}
<1>1. /\ fetch[c].pc = "associated" /\ Kept /\ fetch' = [fetch EXCEPT ![c] = FetchEnded]
      /\ shelf' = [Without(shelf, gone) EXCEPT !.revision = @ + 1]
  BY DEF InvalidatesAssociated, Moves, Invalidate
<1>2. fill[c] = 0 /\ fill[c] \in Nat /\ shelf.revision \in Nat
  BY <1>1, AtFetch DEF FetchOk
<1>3. gone \in SUBSET CopySet
  OBVIOUS
<1> HIDE DEF gone
<1>4. /\ ShelfOk(shelf') /\ CopiesOf(shelf') = CopySet \ gone /\ shelf'.revision = shelf.revision + 1
      /\ shelf'.bytes <= MaxBytes
  BY <1>1, <1>3, InvalidatedOk
<1>5. CopiesOf(shelf') \subseteq CopySet /\ shelf'.revision >= shelf.revision /\ shelf'.revision \in Nat
  BY <1>2, <1>4
<1>6. ShelfKept
  BY <1>1, <1>4, <1>5, ShelfLess DEF Kept
<1>7. FetchOk(FetchEnded, fill[c], shelf'.revision, settled, origin)
  BY <1>2, <1>5, EndedOk
<1>8. FetchEnded \in FetchStates /\ FetchEnded.pc # "none"
  BY NoFetchTyped
<1> HIDE DEF FetchEnded
<1> QED
  BY <1>1, <1>6, <1>7, <1>8, FetchMoves

\* A copy ages in its place.
LEMMA ExpireKeeps ==
  ASSUME CacheInv, NEW i \in DOMAIN shelf.copies, Expire(i)
  PROVE  CacheInv'
<1>1. ShelfOk(shelf) /\ shelf.copies[i].fresh /\ shelf' = [shelf EXCEPT !.copies[i].fresh = FALSE]
      /\ UNCHANGED fetch /\ UNCHANGED <<fill, origin, settled>>
  BY DEF CacheInv, Expire, Kept
<1>2. /\ ShelfOk(shelf') /\ shelf'.revision = shelf.revision /\ shelf'.bytes = shelf.bytes
      /\ \A d \in CopiesOf(shelf') : \E e \in CopySet : d.key = e.key /\ d.ver = e.ver
  BY <1>1, ExpiredOk DEF CopySet
<1>3. \A d \in CopiesOf(shelf') : d.ver >= settled[d.key[1]]
  BY <1>2 DEF CacheInv
<1>4. CopySet' = CopiesOf(shelf')
  BY DEF CopySet, CopiesOf
<1>5. Fetching' = Fetching /\ FillBytes' = FillBytes /\ FillsHeld' = FillsHeld
  BY <1>1 DEF Fetching, FillBytes, FillsHeld
<1> QED
  BY <1>1, <1>2, <1>3, <1>4, <1>5 DEF CacheInv

\* The empty cache.
LEMMA CacheStarts ==
  ASSUME CacheInit
  PROVE  CacheInv
<1> DEFINE none == [copies |-> <<>>, vary |-> {}, revision |-> 0, bytes |-> 0]
<1>1. none \in Shelves /\ none.copies = <<>> /\ none.vary = {} /\ none.revision = 0 /\ none.bytes = 0
  <2>1. PICK z \in Nat, y \in Int : z = 0 /\ y = 0
    OBVIOUS
  <2>2. none = [copies |-> <<>>, vary |-> {}, revision |-> z, bytes |-> y]
    BY <2>1
  <2>3. <<>> \in Seq(Copies)
    OBVIOUS
  <2>4. none \in Shelves
    BY <2>1, <2>2, <2>3 DEF Shelves
  <2> QED
    BY <2>4
<1>2. shelf = none
  BY DEF CacheInit
<1> HIDE DEF none
<1>3. CopySet = {} /\ CopiesOf(shelf) = {}
  BY <1>1, <1>2 DEF CopySet, CopiesOf
<1>4. WeightOf({}) = 0
  <2>1. SumFunctionOnSet([d \in {} |-> d.weight], {}) = 0
    BY SumOfNone
  <2> QED
    BY <2>1, WeightIs
<1>5. ShelfOk(shelf)
  BY <1>1, <1>2, <1>3, <1>4 DEF ShelfOk, OnceEach
<1>6. /\ fill = [c \in Clients |-> 0] /\ fetch = [c \in Clients |-> NoFetch]
      /\ origin = [t \in Targets |-> 0] /\ settled = [t \in Targets |-> 0]
  BY DEF CacheInit
<1>7. FillsHeld = {} /\ Fetching = {}
  BY <1>6, NoFetchTyped DEF FillsHeld, Fetching
<1>8. FillBytes = 0 /\ IsFiniteSet({}) /\ Cardinality({}) = 0
  BY <1>7, SumOfNone, FS_EmptySet DEF FillBytes
<1>9. FetchOk(NoFetch, 0, 0, settled, origin)
  <2>1. NoFetch.seen = 0
    BY DEF NoFetch
  <2> QED
    BY <2>1, NoFetchTyped DEF FetchOk
<1>10. \A c \in Clients : FetchOk(fetch[c], fill[c], shelf.revision, settled, origin)
  BY <1>1, <1>2, <1>6, <1>9
<1>11. MaxBytes \in Nat /\ MaxFills \in Nat
  BY CacheAssumption DEF Decoded
<1>12. fill \in [Clients -> Nat] /\ fetch \in [Clients -> FetchStates]
  BY <1>6, NoFetchTyped
<1>13. origin \in [Targets -> Nat] /\ settled \in [Targets -> Nat] /\ \A t \in Targets : settled[t] <= origin[t]
  BY <1>6
<1> QED
  BY <1>1, <1>2, <1>3, <1>5, <1>7, <1>8, <1>10, <1>11, <1>12, <1>13 DEF CacheInv

\* Every step.
LEMMA CacheStep ==
  ASSUME CacheInv, [CacheNext]_cacheVars
  PROVE  CacheInv'
<1>1. CASE UNCHANGED cacheVars
  <2>1. UNCHANGED <<shelf, fill, fetch, origin, settled>>
    BY <1>1 DEF cacheVars
  <2>2. CopySet' = CopySet /\ Fetching' = Fetching /\ FillBytes' = FillBytes /\ FillsHeld' = FillsHeld
    BY <2>1 DEF CopySet, CopiesOf, Fetching, FillBytes, FillsHeld
  <2> QED
    BY <2>1, <2>2 DEF CacheInv
<1>2. CASE \E i \in DOMAIN shelf.copies : Expire(i)
  BY <1>2, ExpireKeeps
<1>3. ASSUME NEW c \in Clients, NEW q \in Fetches, Enter(c, q) PROVE CacheInv'
  BY <1>3, EnterKeeps
<1>4. ASSUME NEW c \in Clients, NEW offer \in Offers, OriginAnswers(c, offer) PROVE CacheInv'
  BY <1>4, OriginAnswersKeeps
<1>5. ASSUME NEW c \in Clients,
             TakeStale(c) \/ Hit(c) \/ Miss(c) \/ ReadRevision(c) \/ Observes(c) \/ OriginReads(c)
      PROVE  CacheInv'
  BY <1>5, TakeStaleKeeps, LookupKeeps, ReadRevisionKeeps, ObservesKeeps, OriginReadsKeeps
<1>6. ASSUME NEW c \in Clients,
             BadAnswer(c) \/ Spills(c) \/ Cancels(c) \/ WriteFails(c) \/ Stores(c) \/ Leaves(c) \/ ReleasesFill(c)
      PROVE  CacheInv'
  BY <1>6, AbandonsKeeps, StoresKeeps, LeavesKeeps, ReleasesFillKeeps
<1>7. ASSUME NEW c \in Clients, OriginWrites(c) \/ WriteReturns(c) \/ InvalidatesAssociated(c)
      PROVE  CacheInv'
  BY <1>7, OriginWritesKeeps, WriteReturnsKeeps, InvalidatesAssociatedKeeps
<1> QED
  BY <1>1, <1>2, <1>3, <1>4, <1>5, <1>6, <1>7 DEF CacheNext

\* The invariant of the store and of handle.
LEMMA CacheInductive == CacheSpec => []CacheInv
  BY CacheStarts, CacheStep, PTL DEF CacheSpec

\* Through every interleaving of lookups, fills, revalidations, writes and drops,
\* Store.bytes is the weight of the copies held and within max_bytes, no key has two
\* copies of one signature, fills stay within their own budget, and handle answers a
\* hit only from the copy of its own route and variant.
THEOREM CacheCounted == CacheSpec => []CacheSound
<1>1. CacheInv => CacheSound
  <2> SUFFICES ASSUME CacheInv PROVE CacheAccounts /\ ServesOwnVariant
    BY DEF CacheSound
  <2>1. ShelfOk(shelf) /\ CopySet = CopiesOf(shelf) /\ CopySet \in SUBSET Copies
    BY ShelfTyped DEF CacheInv, ShelfOk, CopySet
  <2>2. shelf.bytes = WeightOf(CopySet) /\ shelf.bytes <= MaxBytes
    BY <2>1 DEF CacheInv, ShelfOk
  <2>3. Cardinality(CopySet) = Len(shelf.copies)
    BY <2>1, ShelfFinite DEF ShelfOk
  <2>4. \A c, d \in CopySet : c.key = d.key /\ c.sign = d.sign => c = d
    BY <2>1 DEF ShelfOk, OnceEach, CopiesOf
  <2>5. \A c \in CopySet : Known(c.key) /\ c.varies = Varies(c.key)
    BY <2>1, VariesAsKnown DEF ShelfOk, Known
  <2>6. \A v \in shelf.vary : \E c \in CopySet : c.key = v.key
    BY <2>1 DEF ShelfOk
  <2>7. /\ FillBytes <= MaxBytes /\ Cardinality(FillsHeld) <= MaxFills
        /\ \A c \in Clients : fill[c] > 0 => fetch[c].pc \in {"collect", "leave", "replay"}
    BY DEF CacheInv, FetchOk
  <2>8. CacheAccounts
    BY <2>2, <2>3, <2>4, <2>5, <2>6, <2>7 DEF CacheAccounts
  <2>9. ServesOwnVariant
    BY DEF CacheInv, FetchOk, ServesOwnVariant, Copies
  <2> QED
    BY <2>8, <2>9
<1> QED
  BY <1>1, CacheInductive, PTL

\* Only lookup makes a hit, and what it hits is on the shelf.
LEMMA HitOnly ==
  ASSUME CacheInv, CacheNext, NEW c \in Clients, fetch[c].pc = "lookup", fetch'[c].pc = "hit"
  PROVE  Hit(c)
<1>0. fetch \in [Clients -> FetchStates]
  BY DEF CacheInv
<1>1. ASSUME NEW b \in Clients, NEW new, fetch' = [fetch EXCEPT ![b] = new]
      PROVE  b = c /\ new.pc = "hit"
  BY <1>0, <1>1
<1>2. CASE \E i \in DOMAIN shelf.copies : Expire(i)
  BY <1>2 DEF Expire
<1>3. PICK b \in Clients :
       \/ \E q \in Fetches : Enter(b, q)
       \/ TakeStale(b) \/ Hit(b) \/ Miss(b) \/ ReadRevision(b) \/ Observes(b)
       \/ OriginReads(b) \/ BadAnswer(b) \/ Spills(b) \/ Stores(b)
       \/ \E offer \in Offers : OriginAnswers(b, offer)
       \/ Leaves(b) \/ ReleasesFill(b) \/ Cancels(b)
       \/ OriginWrites(b) \/ WriteReturns(b) \/ InvalidatesAssociated(b) \/ WriteFails(b)
  BY <1>2 DEF CacheNext
<1>4. \E new : fetch' = [fetch EXCEPT ![b] = new]
  BY <1>3 DEF Enter, TakeStale, Hit, Miss, ReadRevision, Observes, OriginReads, BadAnswer, Spills, Stores,
              OriginAnswers, Leaves, ReleasesFill, Cancels, OriginWrites, WriteReturns, InvalidatesAssociated,
              WriteFails, Moves
<1>5. b = c
  BY <1>1, <1>4
<1>6. Hit(c) \/ TakeStale(c) \/ Miss(c)
  BY <1>3, <1>5 DEF Enter, ReadRevision, Observes, OriginReads, BadAnswer, Spills, Stores,
              OriginAnswers, Leaves, ReleasesFill, Cancels, OriginWrites, WriteReturns, InvalidatesAssociated,
              WriteFails
<1>7. [fetch[c] EXCEPT !.pc = "revision"].pc = "revision" /\ FetchEnded.pc = "done"
  BY <1>0, NoFetchTyped DEF FetchStates
<1>8. CASE Miss(c)
  <2>1. PICK new \in {FetchEnded, [fetch[c] EXCEPT !.pc = "revision"]} : fetch' = [fetch EXCEPT ![c] = new]
    BY <1>8 DEF Miss, Moves
  <2>2. new.pc = "hit"
    BY <1>1, <2>1
  <2> QED
    BY <1>7, <2>1, <2>2
<1>9. CASE TakeStale(c)
  <2>1. PICK copy, rev : fetch' = [fetch EXCEPT ![c] = [fetch[c] EXCEPT !.pc = "lookup", !.stale = copy, !.rev = rev]]
    BY <1>9 DEF TakeStale, Moves
  <2>2. [fetch[c] EXCEPT !.pc = "lookup", !.stale = copy, !.rev = rev].pc = "lookup"
    BY <1>0 DEF FetchStates
  <2> QED
    BY <1>1, <2>1, <2>2
<1> QED
  BY <1>6, <1>8, <1>9

\* What is hit is as new as what was acknowledged.
LEMMA HitNew ==
  ASSUME CacheInv, NEW c \in Clients, Hit(c)
  PROVE  fetch'[c].got.ver >= settled[fetch[c].q.target]
<1> DEFINE q == fetch[c].q
           d == CHOOSE d \in Found(q) : TRUE
           new == [FetchEnded EXCEPT !.pc = "hit", !.q = q, !.got = d]
<1>1. d \in Found(q) /\ fetch' = [fetch EXCEPT ![c] = new] /\ q \in Ask
  BY AtFetch DEF Hit, Moves
<1> HIDE DEF d
<1>2. new.got = d
  BY NoFetchTyped DEF FetchStates
<1>3. fetch'[c] = new
  BY <1>1 DEF CacheInv
<1>4. d \in CopySet /\ d.key = CopyKey(q)
  BY <1>1 DEF Found
<1>5. d.ver >= settled[d.key[1]] /\ d.key[1] = q.target
  BY <1>4 DEF CacheInv, CopyKey
<1> QED
  BY <1>2, <1>3, <1>5

\* After handle has acknowledged a write no lookup hits what was read before it: the
\* copies are gone, and put_guarded refuses a fill whose revision an invalidation left behind.
THEOREM NoOverwrittenServed == CacheSpec => ServesNoOverwritten
<1> DEFINE Newest ==
      \A c \in Clients :
        fetch[c].pc = "lookup" /\ fetch'[c].pc = "hit" => fetch'[c].got.ver >= settled[fetch[c].q.target]
<1>1. ASSUME CacheInv, [CacheNext]_cacheVars PROVE [Newest]_cacheVars
  <2>1. CASE UNCHANGED cacheVars
    BY <2>1
  <2>2. CASE CacheNext
    <3> SUFFICES ASSUME NEW c \in Clients, fetch[c].pc = "lookup", fetch'[c].pc = "hit"
                 PROVE  fetch'[c].got.ver >= settled[fetch[c].q.target]
      OBVIOUS
    <3>1. Hit(c)
      BY <1>1, <2>2, HitOnly
    <3> QED
      BY <1>1, <3>1, HitNew
  <2> QED
    BY <1>1, <2>1, <2>2
<1> QED
  BY <1>1, CacheInductive, PTL DEF CacheSpec, ServesNoOverwritten

-----------------------------------------------------------------------------
(* The CGI terminal: the inductive invariant.                              *)

CgiAccepted == {c \in CgiConfigs : ~CgiRefused(c) /\ ~ScriptMissing(c)}
CgiHeads == UNION {Scripts[c.script].heads : c \in CgiAccepted}

VisitStages == {"idle", "buffering", "waiting", "settling", "streaming", "over"}
Runs == {"none", "done", "dialing", "exchanging", "checking", "acquiring", "queueing", "awaiting"}
Results == {"none", "ok", "timeout", "failed", "unavailable"}
Showings == {"none", "open", "complete", "broken", "refused"}
JobStages == {"none", "queued", "running", "cleaning", "finished"}
Stages == {"prepared", "running", "fenced", "stopping", "ended"}
Messages == [what : {"head", "body", "finish"}, n : Nat]

VisitRecords ==
  [at : VisitStages, gen : Generations, slot : BOOLEAN, running : Runs, result : Results, got : Nat,
   shown : Showings, status : Nat]
TransferRecords ==
  [live : BOOLEAN, ask : SUBSET CgiAsks, length : Nat, head : SUBSET CgiHeads, seen : Nat, tail : 0..1,
   out : Seq(Messages), queue : Seq(Messages), completion : {"head", "body", "poisoned", "finished"},
   eof : BOOLEAN, exited : BOOLEAN]
ScriptRecords == [sent : Nat, end : {"no", "good", "bad"}]
JobRecords ==
  [at : JobStages, gen : Generations, permit : BOOLEAN, process : {"none", "alive", "gone"}, result : Results,
   clean : BOOLEAN]

\* Where a request is in its terminal, and the slot it holds.
Waits(x) == x.at \in {"waiting", "settling", "streaming"}
PhaseOk(p, x) ==
  /\ x.at \in {"idle", "buffering"} => x.running = "none"
  /\ Waits(x) => x.running # "none"
  /\ x.at = "over" => x.running \in {"none", "done"}
  /\ x.slot <=> x.at = "buffering" \/ x.running \notin {"none", "done"}
  /\ x.running \in {"dialing", "exchanging"} => ~p
  /\ x.running \in {"checking", "acquiring", "queueing", "awaiting"} => p
  /\ x.shown = "open" <=> x.at = "streaming"
  /\ x.shown = "complete" => x.at = "over"

\* What is in a channel of one message, what the sink has still to give, and
\* the byte that is kept from it.
Queued(q) == IF q = <<>> THEN 0 ELSE q[1].n
Pending(o) == IF o = <<>> THEN 0 ELSE IF Len(o) = 1 THEN o[1].n ELSE o[1].n + o[2].n
Ending(o) == o # <<>> /\ o[Len(o)].what = "finish"
Withholds(t) == IF Ending(t.out) THEN 0 ELSE t.tail
DueOf(t) == Expected(CHOOSE a \in t.ask : TRUE, CHOOSE h \in t.head : TRUE)

ShapeOk(o) ==
  /\ Len(o) =< 2
  /\ Len(o) = 2 => o[1].what # "finish"
  /\ Len(o) = 2 /\ o[2].what = "finish" => o[1].n > 0
  /\ \A i \in DOMAIN o : o[i].what \in {"head", "finish"} => o[i].n = 0

\* A request whose exchange has not begun.
FreshOk(x, t, s) ==
  /\ ~t.live /\ t.head = {} /\ t.seen = 0 /\ t.tail = 0 /\ t.out = <<>> /\ t.queue = <<>>
  /\ t.completion = "head" /\ ~t.eof /\ ~t.exited
  /\ x.got = 0 /\ s = NoScript

\* Every byte the backend wrote is with the client, in the channel, with the
\* sink or kept back; and a byte is kept back until the answer is known good.
LiveOk(x, t, s) ==
  /\ ShapeOk(t.out)
  /\ x.got + Queued(t.queue) + Pending(t.out) + Withholds(t) = t.seen
  /\ t.seen = s.sent
  /\ t.seen > 0 => t.tail = 1
  /\ t.tail = 1 => t.seen > 0
  /\ t.head = {} => t.seen = 0 /\ t.out = <<>> /\ t.queue = <<>>
  /\ t.head # {} => \A due \in DueOf(t) : t.seen =< due
  /\ t.eof => t.head # {} /\ \A due \in DueOf(t) : t.seen = due
  /\ t.eof /\ ~t.exited => t.out = <<>>
  /\ t.exited => s.end = "good"
  /\ Ending(t.out) => t.head # {} /\ s.end = "good" /\ \A due \in DueOf(t) : t.seen = due
  /\ t.completion # "finished"

\* The whole answer has been given.
WholeGiven(x, t, s) ==
  t.head # {} /\ s.end = "good" /\ x.got + Queued(t.queue) = s.sent /\ \A due \in DueOf(t) : s.sent = due

\* Something of the answer is missing.
CutShort(x, t) == t.head # {} => \A due \in DueOf(t) : due > 0 => x.got + Queued(t.queue) < due

RestOk(x, t, s) ==
  /\ x.got + Queued(t.queue) =< s.sent
  /\ t.head = {} => t.queue = <<>>
  /\ WholeGiven(x, t, s) \/ CutShort(x, t)
  /\ t.completion = "finished" => WholeGiven(x, t, s)

\* What has come to the client when.
ChannelOk(x, t, s) ==
  /\ t.head = {} \/ \E h \in t.head : t.head = {h}
  /\ Len(t.queue) =< 1
  /\ x.at = "buffering" => t.ask # {}
  /\ x.at = "waiting" => x.got = 0 /\ (t.queue # <<>> => t.queue = <<Output("head", 0)>>)
  /\ x.at = "waiting" /\ t.live /\ t.queue = <<>> => (t.head = {} \/ t.out = <<Output("head", 0)>>)
  /\ x.at = "settling" => t.head # {} /\ DueOf(t) = {0}
  /\ x.at = "streaming" => t.head # {} /\ DueOf(t) # {0}
  /\ x.result = "ok" => ~t.live /\ t.completion = "finished"
  /\ x.shown = "complete" => x.got = s.sent /\ s.end = "good" /\ t.head # {} /\ \A due \in DueOf(t) : s.sent = due

\* A request, its exchange and its job.
JoinOk(p, x, t, s, j) ==
  /\ t.live => Waits(x)
  /\ t.live /\ p => j.at = "running" /\ j.process # "none"
  /\ t.live /\ p /\ Ending(t.out) => t.exited
  /\ t.live /\ ~p => x.running = "exchanging"
  /\ x.at \in {"idle", "buffering"} \/ x.running \in {"dialing", "checking", "acquiring", "queueing"}
     => FreshOk(x, t, s)
  /\ Waits(x) /\ j.at \in {"queued", "running"} /\ j.process = "none" => FreshOk(x, t, s)

JobOk(p, x, j) ==
  /\ j.permit <=> x.running = "queueing" \/ j.at \in {"queued", "running", "cleaning"}
  /\ x.running = "queueing" => j.gen = x.gen
  /\ x.at \in {"idle", "buffering"} \/ x.running \in {"checking", "acquiring", "queueing"}
     => j.at = "none" /\ j.process = "none"
  /\ j.at = "queued" => j.process = "none"
  /\ j.at \in {"none", "finished"} => j.process # "gone"
  /\ x.running = "awaiting" => j.at \in {"queued", "running", "cleaning"}
  /\ ~p => j.at = "none"

VisitOk(p, x, t, s, j) ==
  /\ PhaseOk(p, x) /\ ChannelOk(x, t, s) /\ JoinOk(p, x, t, s, j) /\ JobOk(p, x, j)
  /\ t.live => LiveOk(x, t, s)
  /\ ~t.live => RestOk(x, t, s)

\* The lines of the supervisors hold exactly the queued jobs, once each, and
\* a supervisor that has started a job has not ended.
LinesOk(sup, jobs) ==
  /\ sup \in [Generations -> [stage : Stages, line : Seq(Visits)]]
  /\ \A g \in Generations :
       /\ \A i, k \in DOMAIN sup[g].line : sup[g].line[i] = sup[g].line[k] => i = k
       /\ sup[g].stage \in {"stopping", "ended"} => sup[g].line = <<>>
       /\ \A v \in Visits : v \in Range(sup[g].line) <=> jobs[v].at = "queued" /\ jobs[v].gen = g
  /\ \A v \in Visits :
       jobs[v].at \in {"running", "cleaning", "finished"} => sup[jobs[v].gen].stage \in {"running", "fenced", "stopping"}

\* Who counts against the processes: the holders of permits and the processes
\* nobody could clean up, of which there are none in a pool that is intact.
Counted(jobs) == {v \in Visits : jobs[v].permit \/ jobs[v].process = "alive"}
ProcessesOk(d, intact, jobs) ==
  /\ Cardinality(Counted(jobs)) =< d.concurrency
  /\ intact => \A v \in Visits : jobs[v].process = "alive" => jobs[v].permit

CgiInv ==
  /\ directive \in CgiAccepted /\ poisoned \in BOOLEAN
  /\ visitor \in [Visits -> VisitRecords] /\ transfer \in [Visits -> TransferRecords]
  /\ script \in [Visits -> ScriptRecords] /\ job \in [Visits -> JobRecords]
  /\ \A v \in Visits : VisitOk(Process, visitor[v], transfer[v], script[v], job[v])
  /\ LinesOk(supervisor, job)
  /\ ProcessesOk(directive, ~poisoned, job)

-----------------------------------------------------------------------------
(* Facts about answers.                                                    *)

\* The length an answer promises is a number, and that of its head unless the
\* answer has no body.
LEMMA DueIs ==
  ASSUME NEW t \in TransferRecords, t.head # {}
  PROVE  /\ DueOf(t) \subseteq Nat
         /\ \A h : t.head = {h} /\ DueOf(t) # {0} => DueOf(t) = h.length
<1> DEFINE a == CHOOSE a \in t.ask : TRUE
           h == CHOOSE h \in t.head : TRUE
<1>1. h \in t.head
  OBVIOUS
<1>2. h \in CgiHeads
  BY <1>1 DEF TransferRecords
<1>3. h.length \subseteq Nat
  BY <1>2, ScriptAssumption DEF CgiHeads, CgiAccepted
<1>4. DueOf(t) = Expected(a, h)
  BY DEF DueOf
<1>5. Expected(a, h) = {0} \/ Expected(a, h) = h.length
  BY DEF Expected
<1>6. \A g : t.head = {g} => h = g
  BY <1>1
<1> HIDE DEF a, h
<1> QED
  BY <1>3, <1>4, <1>5, <1>6

\* The length depends on the request and the head alone.
LEMMA DueSame ==
  ASSUME NEW t, NEW u, t.ask = u.ask, t.head = u.head
  PROVE  DueOf(t) = DueOf(u)
BY DEF DueOf

\* Small lengths.
LEMMA UpToTwo == \A n \in Nat : n =< 2 => n = 0 \/ n = 1 \/ n = 2
OBVIOUS

\* Sequences of messages.
LEMMA MessagesIn ==
  ASSUME NEW q \in Seq(Messages)
  PROVE  /\ Len(q) \in Nat /\ (Len(q) = 0 <=> q = <<>>) /\ DOMAIN q = 1..Len(q)
         /\ Len(q) >= 1 => q[1] \in Messages
         /\ Len(q) >= 2 => q[2] \in Messages
OBVIOUS

\* What is given is counted.
LEMMA Counts ==
  /\ \A q \in Seq(Messages) : Queued(q) \in Nat
  /\ \A o \in Seq(Messages) : ShapeOk(o) => Pending(o) \in Nat
<1>1. ASSUME NEW q \in Seq(Messages) PROVE Queued(q) \in Nat
  <2>1. CASE q = <<>>
    BY <2>1 DEF Queued
  <2>2. CASE q # <<>>
    <3>1. q[1] \in Messages
      BY <2>2
    <3> QED
      BY <2>2, <3>1 DEF Queued, Messages
  <2> QED  BY <2>1, <2>2
<1>2. ASSUME NEW o \in Seq(Messages), ShapeOk(o) PROVE Pending(o) \in Nat
  <2>1. CASE o = <<>>
    BY <2>1 DEF Pending
  <2>2. CASE Len(o) = 1
    <3>1. o[1] \in Messages /\ o # <<>>
      BY <2>2
    <3> QED
      BY <2>2, <3>1 DEF Pending, Messages
  <2>3. CASE Len(o) = 2
    <3>1. o[1] \in Messages /\ o[2] \in Messages /\ o # <<>>
      BY <2>3, MessagesIn
    <3> QED
      BY <2>3, <3>1 DEF Pending, Messages
  <2>4. Len(o) \in Nat /\ Len(o) =< 2
    BY <1>2, MessagesIn DEF ShapeOk
  <2>5. Len(o) = 0 \/ Len(o) = 1 \/ Len(o) = 2
    BY <2>4, UpToTwo
  <2> QED
    BY <2>1, <2>2, <2>3, <2>5, MessagesIn
<1> QED
  BY <1>1, <1>2

\* The sink has been given nothing.
LEMMA ShapeNone == <<>> \in Seq(Messages) /\ ShapeOk(<<>>) /\ ~Ending(<<>>) /\ Pending(<<>>) = 0
BY DEF ShapeOk, Ending, Pending

\* An exchange that stops, however it does, leaves an answer that is whole or
\* visibly cut short.
LEMMA Stops ==
  ASSUME NEW x \in VisitRecords, NEW t \in TransferRecords, NEW s \in ScriptRecords, LiveOk(x, t, s),
         NEW y, NEW u \in TransferRecords, NEW r \in ScriptRecords,
         y.got = x.got, u.ask = t.ask, u.head = t.head, u.queue = t.queue,
         r.sent >= s.sent, r = s \/ ~Ending(t.out),
         u.completion = "finished" => r = s /\ Len(t.out) = 1 /\ Ending(t.out)
  PROVE  RestOk(y, u, r)
<1>1. /\ x.got \in Nat /\ t.seen \in Nat /\ t.tail \in 0..1 /\ s.sent \in Nat /\ r.sent \in Nat
      /\ t.out \in Seq(Messages) /\ t.queue \in Seq(Messages)
  BY DEF VisitRecords, TransferRecords, ScriptRecords
<1>2. PICK q \in Nat : q = Queued(t.queue)
  BY <1>1, Counts
<1>3. PICK p \in Nat : p = Pending(t.out)
  BY <1>1, Counts DEF LiveOk
<1>4. x.got + q + p + Withholds(t) = t.seen /\ t.seen = s.sent
  BY <1>2, <1>3 DEF LiveOk
<1>5. Withholds(t) \in {0, 1}
  BY <1>1 DEF Withholds
<1>6. t.head = {} => t.queue = <<>>
  BY DEF LiveOk
<1>7. t.head # {} => DueOf(t) \subseteq Nat /\ \A due \in DueOf(t) : t.seen =< due
  BY DueIs DEF LiveOk
<1>8. DueOf(u) = DueOf(t)
  BY DueSame
<1>9. CASE ~Ending(t.out)
  <2>1. t.seen > 0 => x.got + q < t.seen
    BY <1>1, <1>2, <1>3, <1>4, <1>9 DEF LiveOk, Withholds
  <2>2. \A due \in Nat : t.seen =< due /\ due > 0 => x.got + q < due
    BY <2>1, <1>1, <1>2, <1>3, <1>4, <1>5
  <2>3. CutShort(y, u)
    BY <2>2, <1>2, <1>7, <1>8 DEF CutShort
  <2>4. y.got + Queued(u.queue) =< r.sent
    BY <1>1, <1>2, <1>3, <1>4, <1>5
  <2>5. u.completion # "finished"
    BY <1>9
  <2> QED
    BY <2>3, <2>4, <2>5, <1>6 DEF RestOk
<1>10. CASE Ending(t.out)
  <2>0. r = s
    BY <1>10 DEF Ending
  <2>1. t.head # {} /\ s.end = "good" /\ \A due \in DueOf(t) : t.seen = due
    BY <1>10 DEF LiveOk
  <2>2. Withholds(t) = 0
    BY <1>10 DEF Withholds
  <2>3. CASE Len(t.out) = 1
    <3>1. p = 0
      BY <2>3, <1>1, <1>3, <1>10 DEF Pending, Ending, LiveOk, ShapeOk
    <3>2. x.got + q = s.sent
      BY <3>1, <2>2, <1>1, <1>2, <1>4
    <3>3. WholeGiven(y, u, r)
      BY <3>2, <2>0, <2>1, <1>2, <1>4, <1>8 DEF WholeGiven
    <3> QED
      BY <3>2, <3>3, <2>0, <2>1, <1>1, <1>2 DEF RestOk
  <2>4. CASE Len(t.out) = 2
    <3>1. t.out[1] \in Messages /\ t.out[2] \in Messages
      BY <2>4, <1>1
    <3>2. p > 0
      BY <2>4, <3>1, <1>1, <1>3, <1>10 DEF Pending, Ending, LiveOk, ShapeOk, Messages
    <3>3. x.got + q < t.seen /\ x.got + q =< s.sent
      BY <3>2, <2>2, <1>1, <1>2, <1>4
    <3>4. CutShort(y, u)
      BY <3>3, <2>1, <1>2, <1>8 DEF CutShort
    <3>5. u.completion # "finished"
      BY <2>4
    <3> QED
      BY <3>3, <3>4, <3>5, <2>0, <2>1, <1>1, <1>2 DEF RestOk
  <2>5. Len(t.out) = 1 \/ Len(t.out) = 2
    <3>1. Len(t.out) =< 2 /\ t.out # <<>>
      BY <1>10 DEF Ending, LiveOk, ShapeOk
    <3>2. Len(t.out) \in Nat /\ Len(t.out) # 0
      BY <3>1, <1>1, MessagesIn
    <3> QED
      BY <3>1, <3>2, UpToTwo
  <2> QED
    BY <2>3, <2>4, <2>5
<1> QED
  BY <1>9, <1>10

-----------------------------------------------------------------------------
(* Steps that concern one request.                                         *)

\* Facts about one request.
LEMMA OfVisit ==
  ASSUME CgiInv, NEW v \in Visits
  PROVE  /\ visitor[v] \in VisitRecords /\ transfer[v] \in TransferRecords
         /\ script[v] \in ScriptRecords /\ job[v] \in JobRecords
         /\ VisitOk(Process, visitor[v], transfer[v], script[v], job[v])
BY DEF CgiInv

\* A request moves on: what is known of the others stays.
LEMMA VisitsStep ==
  ASSUME CgiInv, NEW v \in Visits,
         NEW x \in VisitRecords, NEW t \in TransferRecords, NEW s \in ScriptRecords, NEW j \in JobRecords,
         visitor' = [visitor EXCEPT ![v] = x], transfer' = [transfer EXCEPT ![v] = t],
         script' = [script EXCEPT ![v] = s], job' = [job EXCEPT ![v] = j],
         directive' = directive, poisoned' \in BOOLEAN,
         VisitOk(Process, x, t, s, j), LinesOk(supervisor', job'), ProcessesOk(directive, ~poisoned', job')
  PROVE  CgiInv'
<1>1. /\ visitor \in [Visits -> VisitRecords] /\ transfer \in [Visits -> TransferRecords]
      /\ script \in [Visits -> ScriptRecords] /\ job \in [Visits -> JobRecords]
  BY DEF CgiInv
<1>2. /\ visitor' \in [Visits -> VisitRecords] /\ transfer' \in [Visits -> TransferRecords]
      /\ script' \in [Visits -> ScriptRecords] /\ job' \in [Visits -> JobRecords]
  BY <1>1
<1>3. ASSUME NEW w \in Visits
      PROVE  VisitOk(Process, visitor'[w], transfer'[w], script'[w], job'[w])
  <2>1. CASE w = v
    BY <2>1, <1>1
  <2>2. CASE w # v
    <3>1. /\ visitor'[w] = visitor[w] /\ transfer'[w] = transfer[w]
          /\ script'[w] = script[w] /\ job'[w] = job[w]
      BY <2>2, <1>1
    <3> QED
      BY <3>1, OfVisit
  <2> QED  BY <2>1, <2>2
<1>4. Process' = Process
  BY DEF Process
<1> QED
  BY <1>2, <1>3, <1>4 DEF CgiInv

\* A job that stays in line, or out of it, and with its supervisor.
KeepsPlace(old, new) ==
  /\ new.at = "queued" <=> old.at = "queued"
  /\ new.at \in {"running", "cleaning", "finished"} => old.at \in {"running", "cleaning", "finished"}
  /\ new.at # "none" => new.gen = old.gen

\* A job that takes no part of the pool it did not have.
KeepsShare(old, new) ==
  /\ new.permit \/ new.process = "alive" => old.permit \/ old.process = "alive"
  /\ new.process = "alive" /\ ~new.permit => old.process = "alive" /\ ~old.permit

\* Then the lines and stages of the supervisors fit the jobs as before.
LEMMA LinesKept ==
  ASSUME CgiInv, NEW v \in Visits, NEW j \in JobRecords, KeepsPlace(job[v], j)
  PROVE  LinesOk(supervisor, [job EXCEPT ![v] = j])
<1> DEFINE k == [job EXCEPT ![v] = j]
<1>1. job \in [Visits -> JobRecords] /\ LinesOk(supervisor, job)
  BY DEF CgiInv
<1>2. ASSUME NEW w \in Visits PROVE KeepsPlace(job[w], k[w]) /\ k[w] \in JobRecords
  <2>1. CASE w = v
    BY <2>1, <1>1
  <2>2. CASE w # v
    BY <2>2, <1>1 DEF KeepsPlace
  <2> QED  BY <2>1, <2>2
<1>3. ASSUME NEW w \in Visits
      PROVE  /\ k[w].at = "queued" <=> job[w].at = "queued"
             /\ k[w].at = "queued" => k[w].gen = job[w].gen
             /\ k[w].at \in {"running", "cleaning", "finished"} =>
                  job[w].at \in {"running", "cleaning", "finished"} /\ k[w].gen = job[w].gen
  BY <1>2, <1>3 DEF KeepsPlace
<1> HIDE DEF k
<1>4. ASSUME NEW g \in Generations, NEW w \in Visits
      PROVE  w \in Range(supervisor[g].line) <=> k[w].at = "queued" /\ k[w].gen = g
  <2>1. w \in Range(supervisor[g].line) <=> job[w].at = "queued" /\ job[w].gen = g
    BY <1>1 DEF LinesOk
  <2> QED
    BY <2>1, <1>3
<1>5. ASSUME NEW w \in Visits, k[w].at \in {"running", "cleaning", "finished"}
      PROVE  supervisor[k[w].gen].stage \in {"running", "fenced", "stopping"}
  BY <1>1, <1>3, <1>5 DEF LinesOk
<1>6. LinesOk(supervisor, k)
  BY <1>1, <1>4, <1>5 DEF LinesOk
<1> QED
  BY <1>6 DEF k

\* Those that count against the processes are finitely many.
LEMMA CountedFinite ==
  ASSUME NEW jobs
  PROVE  IsFiniteSet(Counted(jobs)) /\ Cardinality(Counted(jobs)) \in Nat
<1>1. Counted(jobs) \subseteq Visits /\ IsFiniteSet(Visits)
  BY CgiAssumption DEF Counted
<1> QED
  BY <1>1, FS_Subset, FS_CardinalityType

\* A directive that is accepted allows a number of processes.
LEMMA ConcurrencyNat ==
  ASSUME NEW d \in CgiAccepted
  PROVE  d.concurrency \in Nat
<1>1. d.concurrency \in 1..MaxConcurrency
  BY DEF CgiAccepted, CgiRefused
<1>2. MaxConcurrency \in Nat
  BY DEF MaxConcurrency
<1> QED
  BY <1>1, <1>2

\* Then the pool is used no more than before.
LEMMA SharesKept ==
  ASSUME NEW d \in CgiAccepted, NEW intact \in BOOLEAN, NEW still \in BOOLEAN, still => intact,
         NEW jobs \in [Visits -> JobRecords], ProcessesOk(d, intact, jobs),
         NEW k, \A w \in Visits : KeepsShare(jobs[w], k[w])
  PROVE  ProcessesOk(d, still, k)
<1>1. Counted(k) \subseteq Counted(jobs)
  BY DEF Counted, KeepsShare
<1>2. d.concurrency \in Nat
  BY ConcurrencyNat
<1>3. Cardinality(Counted(k)) =< Cardinality(Counted(jobs))
  BY <1>1, CountedFinite, FS_Subset
<1>4. Cardinality(Counted(k)) =< d.concurrency
  BY <1>2, <1>3, CountedFinite DEF ProcessesOk
<1>5. ASSUME still, NEW w \in Visits, k[w].process = "alive" PROVE k[w].permit
  BY <1>5 DEF ProcessesOk, KeepsShare
<1> QED
  BY <1>4, <1>5 DEF ProcessesOk

\* The same when one job changes.
LEMMA SharesKeptOne ==
  ASSUME CgiInv, NEW v \in Visits, NEW j \in JobRecords, KeepsShare(job[v], j)
  PROVE  ProcessesOk(directive, ~poisoned, [job EXCEPT ![v] = j])
<1> DEFINE k == [job EXCEPT ![v] = j]
<1>1. job \in [Visits -> JobRecords] /\ directive \in CgiAccepted /\ (~poisoned) \in BOOLEAN
      /\ ProcessesOk(directive, ~poisoned, job)
  BY DEF CgiInv
<1>2. ASSUME NEW w \in Visits PROVE KeepsShare(job[w], k[w])
  <2>1. CASE w = v
    BY <2>1, <1>1
  <2>2. CASE w # v
    BY <2>2, <1>1 DEF KeepsShare
  <2> QED  BY <2>1, <2>2
<1> HIDE DEF k
<1>3. ProcessesOk(directive, ~poisoned, k)
  BY <1>1, <1>2, SharesKept
<1> QED
  BY <1>3 DEF k

\* The step of one request that leaves the supervisors and the pool alone.
LEMMA OneVisit ==
  ASSUME CgiInv, NEW v \in Visits,
         NEW x \in VisitRecords, NEW t \in TransferRecords, NEW s \in ScriptRecords, NEW j \in JobRecords,
         visitor' = [visitor EXCEPT ![v] = x], transfer' = [transfer EXCEPT ![v] = t],
         script' = [script EXCEPT ![v] = s], job' = [job EXCEPT ![v] = j],
         UNCHANGED <<directive, supervisor, poisoned>>,
         VisitOk(Process, x, t, s, j), KeepsPlace(job[v], j), KeepsShare(job[v], j)
  PROVE  CgiInv'
<1>1. LinesOk(supervisor', job')
  BY LinesKept
<1>2. ProcessesOk(directive, ~poisoned', job')
  BY SharesKeptOne
<1>3. poisoned' \in BOOLEAN /\ directive' = directive
  BY DEF CgiInv
<1> QED
  BY <1>1, <1>2, <1>3, VisitsStep

\* What a step leaves alone.
LEMMA Untouched ==
  ASSUME CgiInv, NEW v \in Visits
  PROVE  /\ visitor = [visitor EXCEPT ![v] = visitor[v]]
         /\ transfer = [transfer EXCEPT ![v] = transfer[v]]
         /\ script = [script EXCEPT ![v] = script[v]]
         /\ job = [job EXCEPT ![v] = job[v]]
         /\ KeepsPlace(job[v], job[v]) /\ KeepsShare(job[v], job[v])
BY DEF CgiInv, KeepsPlace, KeepsShare

\* The records the steps put together.
LEMMA NoRecords ==
  /\ NoVisit \in VisitRecords /\ NoTransfer \in TransferRecords
  /\ NoScript \in ScriptRecords /\ NoJob \in JobRecords
<1>1. 1 \in Generations
  BY CgiAssumption DEF Generations
<1>2. NoVisit \in VisitRecords
  BY <1>1 DEF NoVisit, VisitRecords, VisitStages, Runs, Results, Showings
<1>3. NoTransfer \in TransferRecords
  BY DEF NoTransfer, TransferRecords
<1>4. NoScript \in ScriptRecords
  BY DEF NoScript, ScriptRecords
<1>5. NoJob \in JobRecords
  BY <1>1 DEF NoJob, JobRecords, JobStages, Results
<1> QED
  BY <1>2, <1>3, <1>4, <1>5

\* What an exchange that stopped leaves.
LEMMA StoppedIs ==
  ASSUME NEW t \in TransferRecords
  PROVE  /\ Stopped(t) \in TransferRecords
         /\ ~Stopped(t).live /\ Stopped(t).ask = t.ask /\ Stopped(t).head = t.head
         /\ Stopped(t).queue = t.queue /\ Stopped(t).completion = t.completion
         /\ Stopped(t).seen = 0 /\ Stopped(t).tail = 0 /\ Stopped(t).out = <<>>
         /\ ~Stopped(t).eof /\ ~Stopped(t).exited
<1>1. /\ t.ask \in SUBSET CgiAsks /\ t.head \in SUBSET CgiHeads /\ t.queue \in Seq(Messages)
      /\ t.completion \in {"head", "body", "poisoned", "finished"}
  BY DEF TransferRecords
<1>2. Stopped(t) \in TransferRecords
  BY <1>1, NoRecords DEF Stopped, TransferRecords
<1>3. /\ Stopped(t).ask = t.ask /\ Stopped(t).head = t.head
      /\ Stopped(t).queue = t.queue /\ Stopped(t).completion = t.completion
      /\ Stopped(t).live = NoTransfer.live /\ Stopped(t).seen = NoTransfer.seen /\ Stopped(t).tail = NoTransfer.tail
      /\ Stopped(t).out = NoTransfer.out /\ Stopped(t).eof = NoTransfer.eof /\ Stopped(t).exited = NoTransfer.exited
  BY NoRecords DEF Stopped, TransferRecords
<1>4. /\ ~NoTransfer.live /\ NoTransfer.seen = 0 /\ NoTransfer.tail = 0 /\ NoTransfer.out = <<>>
      /\ ~NoTransfer.eof /\ ~NoTransfer.exited
  BY DEF NoTransfer
<1> QED
  BY <1>2, <1>3, <1>4

\* What the end of the polled future leaves of a request.
LEMMA FinishedIs ==
  ASSUME NEW x \in VisitRecords, NEW r \in Results
  PROVE  /\ Finished(x, r) \in VisitRecords
         /\ Finished(x, r).running = "done" /\ Finished(x, r).result = r /\ ~Finished(x, r).slot
         /\ Finished(x, r).at = x.at /\ Finished(x, r).gen = x.gen /\ Finished(x, r).got = x.got
         /\ Finished(x, r).shown = x.shown
BY DEF Finished, VisitRecords, Runs

\* A request that is over, and was not answered by the backend.
Gone(x) ==
  /\ x.at = "over" /\ x.running = "none" /\ x.result = "none" /\ ~x.slot /\ x.got = 0
  /\ x.shown \in {"none", "broken", "refused"}

\* Refusals, broken answers and clients that left are such requests.
LEMMA GoneIs ==
  /\ \A status \in Nat : Refused(status) \in VisitRecords /\ Gone(Refused(status))
  /\ LET x == [NoVisit EXCEPT !.at = "over", !.shown = "broken"] IN x \in VisitRecords /\ Gone(x)
  /\ LET x == [NoVisit EXCEPT !.at = "over"] IN x \in VisitRecords /\ Gone(x)
BY NoRecords DEF Refused, NoVisit, VisitRecords, VisitStages, Runs, Results, Showings, Gone

\* Its exchange is empty.
Emptied(t) ==
  /\ ~t.live /\ t.head = {} /\ t.seen = 0 /\ t.tail = 0 /\ t.out = <<>> /\ t.queue = <<>>
  /\ t.completion = "head" /\ ~t.eof /\ ~t.exited

\* Nothing more is asked of it.
LEMMA GoneOk ==
  ASSUME NEW p \in BOOLEAN, NEW x \in VisitRecords, Gone(x), NEW t \in TransferRecords, Emptied(t), NEW j
  PROVE  PhaseOk(p, x) /\ ChannelOk(x, t, NoScript) /\ JoinOk(p, x, t, NoScript, j) /\ RestOk(x, t, NoScript)
<1>1. PhaseOk(p, x)
  BY DEF PhaseOk, Gone, Waits
<1>2. ChannelOk(x, t, NoScript)
  BY DEF ChannelOk, Gone, Emptied
<1>3. JoinOk(p, x, t, NoScript, j)
  BY DEF JoinOk, Gone, Emptied, Waits
<1>4. RestOk(x, t, NoScript)
  BY DEF RestOk, Gone, Emptied, CutShort, Queued, NoScript
<1> QED
  BY <1>1, <1>2, <1>3, <1>4

\* A request that goes leaves its job behind, and takes back the permit it had
\* not yet given to one.
LEMMA Departs ==
  ASSUME CgiInv, NEW v \in Visits, NEW x \in VisitRecords, Gone(x), NEW t \in TransferRecords, Emptied(t),
         NEW j \in JobRecords, j.permit <=> job[v].permit /\ visitor[v].running # "queueing",
         j.at = job[v].at, j.gen = job[v].gen, j.process = job[v].process,
         visitor' = [visitor EXCEPT ![v] = x], transfer' = [transfer EXCEPT ![v] = t],
         script' = [script EXCEPT ![v] = NoScript], job' = [job EXCEPT ![v] = j],
         UNCHANGED <<directive, supervisor, poisoned>>
  PROVE  CgiInv'
<1>1. VisitOk(Process, visitor[v], transfer[v], script[v], job[v]) /\ Process \in BOOLEAN
  BY OfVisit DEF Process
<1>2. PhaseOk(Process, x) /\ ChannelOk(x, t, NoScript) /\ JoinOk(Process, x, t, NoScript, j) /\ RestOk(x, t, NoScript)
  BY <1>1, GoneOk
<1>3. JobOk(Process, visitor[v], job[v])
  BY <1>1 DEF VisitOk
<1>4. JobOk(Process, x, j)
  BY <1>3 DEF JobOk, Gone
<1>5. VisitOk(Process, x, t, NoScript, j)
  BY <1>2, <1>4 DEF VisitOk, Emptied
<1>6. KeepsPlace(job[v], j)
  BY DEF KeepsPlace
<1>7. KeepsShare(job[v], j)
  BY <1>3 DEF KeepsShare, JobOk
<1> QED
  BY <1>5, <1>6, <1>7, NoRecords, OneVisit

\* Nothing is left of a dropped exchange.
LEMMA NothingLeft == NoTransfer \in TransferRecords /\ Emptied(NoTransfer)
BY NoRecords DEF Emptied, NoTransfer

\* A request that is given up with its exchange.
LEMMA DropsAll ==
  ASSUME CgiInv, NEW v \in Visits, visitor[v].running # "queueing", NEW x \in VisitRecords, Gone(x),
         visitor' = [visitor EXCEPT ![v] = x], Dropped(v), UNCHANGED <<directive, supervisor, poisoned, job>>
  PROVE  CgiInv'
<1>1. transfer' = [transfer EXCEPT ![v] = NoTransfer] /\ script' = [script EXCEPT ![v] = NoScript]
  BY DEF Dropped
<1>2. job' = [job EXCEPT ![v] = job[v]] /\ job[v] \in JobRecords
  BY Untouched, OfVisit
<1> QED
  BY <1>1, <1>2, NothingLeft, Departs

\* Statuses are numbers.
LEMMA StatusNat == \A r : StatusOf(r) \in Nat
<1> SUFFICES ASSUME NEW r PROVE StatusOf(r) \in Nat
  OBVIOUS
<1>1. CASE r = "timeout"
  BY <1>1 DEF StatusOf
<1>2. CASE r = "unavailable"
  BY <1>2 DEF StatusOf
<1>3. CASE r # "timeout" /\ r # "unavailable"
  BY <1>3 DEF StatusOf
<1> QED
  BY <1>1, <1>2, <1>3

\* The body did not come in time.
LEMMA CgiBufferTimesOut ==
  ASSUME CgiInv, NEW v \in Visits, BufferTimesOut(v)
  PROVE  CgiInv'
<1>1. visitor[v].running # "queueing"
  BY OfVisit DEF BufferTimesOut, VisitOk, PhaseOk
<1>2. Refused(408) \in VisitRecords /\ Gone(Refused(408))
  BY GoneIs
<1> QED
  BY <1>1, <1>2, DropsAll DEF BufferTimesOut

\* The exchange failed before there was a head.
LEMMA CgiGiveUp ==
  ASSUME CgiInv, NEW v \in Visits, GiveUp(v)
  PROVE  CgiInv'
<1>1. visitor[v].running # "queueing"
  BY DEF GiveUp
<1>2. Refused(StatusOf(visitor[v].result)) \in VisitRecords /\ Gone(Refused(StatusOf(visitor[v].result)))
  BY GoneIs, StatusNat
<1>3. visitor' = [visitor EXCEPT ![v] = Refused(StatusOf(visitor[v].result))]
  BY DEF GiveUp
<1> QED
  BY <1>1, <1>2, <1>3, DropsAll DEF GiveUp

\* The client has the whole of an answer that ended well.
LEMMA Completes ==
  ASSUME CgiInv, NEW v \in Visits, visitor[v].at \in {"settling", "streaming"}, visitor[v].running = "done",
         visitor[v].result = "ok", visitor[v].at = "streaming" => transfer[v].queue = <<>>,
         visitor' = [visitor EXCEPT ![v].at = "over", ![v].shown = "complete"],
         UNCHANGED <<directive, supervisor, poisoned, transfer, script, job>>
  PROVE  CgiInv'
<1> DEFINE x == [visitor[v] EXCEPT !.at = "over", !.shown = "complete"]
           t == transfer[v]
           s == script[v]
           j == job[v]
<1>1. /\ visitor[v] \in VisitRecords /\ t \in TransferRecords /\ s \in ScriptRecords /\ j \in JobRecords
      /\ VisitOk(Process, visitor[v], t, s, j)
  BY OfVisit
<1>2. x \in VisitRecords
  BY <1>1 DEF VisitRecords, VisitStages, Showings
<1>3. /\ x.at = "over" /\ x.shown = "complete" /\ x.running = "done" /\ x.result = "ok" /\ x.slot = visitor[v].slot
      /\ x.got = visitor[v].got /\ x.gen = visitor[v].gen
  BY <1>1 DEF VisitRecords
<1>4. visitor' = [visitor EXCEPT ![v] = x]
  BY DEF CgiInv
<1>5. ~t.live /\ t.completion = "finished" /\ RestOk(visitor[v], t, s)
  BY <1>1 DEF VisitOk, ChannelOk
<1>6. WholeGiven(visitor[v], t, s)
  BY <1>5 DEF RestOk
<1>7. visitor[v].got = s.sent
  <2>1. visitor[v].got \in Nat /\ s.sent \in Nat /\ Queued(t.queue) \in Nat
    BY <1>1, Counts DEF VisitRecords, ScriptRecords, TransferRecords
  <2>2. visitor[v].got + Queued(t.queue) = s.sent
    BY <1>6 DEF WholeGiven
  <2>3. CASE visitor[v].at = "streaming"
    BY <2>1, <2>2, <2>3 DEF Queued
  <2>4. CASE visitor[v].at = "settling"
    <3>1. s.sent = 0
      BY <1>1, <1>6, <2>4 DEF WholeGiven, VisitOk, ChannelOk
    <3> QED
      BY <2>1, <2>2, <3>1
  <2> QED
    BY <2>3, <2>4
<1> HIDE DEF x, t, s, j
<1>8. PhaseOk(Process, x)
  BY <1>1, <1>3 DEF VisitOk, PhaseOk, Waits
<1>9. ChannelOk(x, t, s)
  BY <1>1, <1>3, <1>5, <1>6, <1>7 DEF VisitOk, ChannelOk, WholeGiven
<1>10. JoinOk(Process, x, t, s, j)
  BY <1>3, <1>5 DEF JoinOk, Waits
<1>11. JobOk(Process, x, j)
  BY <1>1, <1>3 DEF VisitOk, JobOk
<1>12. RestOk(x, t, s)
  BY <1>3, <1>5 DEF RestOk, WholeGiven, CutShort
<1>13. VisitOk(Process, x, t, s, j)
  BY <1>5, <1>8, <1>9, <1>10, <1>11, <1>12 DEF VisitOk
<1>14. /\ transfer' = [transfer EXCEPT ![v] = t] /\ script' = [script EXCEPT ![v] = s] /\ job' = [job EXCEPT ![v] = j]
       /\ KeepsPlace(job[v], j) /\ KeepsShare(job[v], j)
  BY Untouched DEF t, s, j
<1> QED
  BY <1>1, <1>2, <1>4, <1>13, <1>14, OneVisit

\* An answer without a body is given once the exchange has ended.
LEMMA CgiSettleAnswer ==
  ASSUME CgiInv, NEW v \in Visits, SettleAnswer(v)
  PROVE  CgiInv'
<1>1. CASE visitor[v].result = "ok"
  BY <1>1, Completes DEF SettleAnswer
<1>2. CASE visitor[v].result # "ok"
  <2>1. visitor[v].running # "queueing"
    BY DEF SettleAnswer
  <2>2. Refused(StatusOf(visitor[v].result)) \in VisitRecords /\ Gone(Refused(StatusOf(visitor[v].result)))
    BY GoneIs, StatusNat
  <2>3. visitor' = [visitor EXCEPT ![v] = Refused(StatusOf(visitor[v].result))] /\ Dropped(v)
        /\ UNCHANGED <<directive, supervisor, poisoned, job>>
    BY <1>2 DEF SettleAnswer
  <2> QED
    BY <2>1, <2>2, <2>3, DropsAll
<1> QED
  BY <1>1, <1>2

\* The stream ends with the exchange.
LEMMA CgiStreamEnds ==
  ASSUME CgiInv, NEW v \in Visits, StreamEnds(v)
  PROVE  CgiInv'
<1>1. CASE visitor[v].result = "ok"
  BY <1>1, Completes DEF StreamEnds
<1>2. CASE visitor[v].result # "ok"
  <2> DEFINE x == [NoVisit EXCEPT !.at = "over", !.shown = "broken"]
  <2>1. visitor[v].running # "queueing"
    BY DEF StreamEnds
  <2>2. x \in VisitRecords /\ Gone(x)
    BY GoneIs
  <2>3. visitor' = [visitor EXCEPT ![v] = x] /\ Dropped(v) /\ UNCHANGED <<directive, supervisor, poisoned, job>>
    BY <1>2 DEF StreamEnds
  <2> HIDE DEF x
  <2> QED
    BY <2>1, <2>2, <2>3, DropsAll
<1> QED
  BY <1>1, <1>2

\* The client goes away.
LEMMA CgiLeave ==
  ASSUME CgiInv, NEW v \in Visits, Leave(v)
  PROVE  CgiInv'
<1> DEFINE x == [NoVisit EXCEPT !.at = "over"]
           j == [job[v] EXCEPT !.permit = job[v].permit /\ visitor[v].running # "queueing"]
<1>1. job[v] \in JobRecords /\ job \in [Visits -> JobRecords]
  BY OfVisit DEF CgiInv
<1>2. j \in JobRecords
  BY <1>1 DEF JobRecords
<1>3. /\ j.permit <=> job[v].permit /\ visitor[v].running # "queueing"
      /\ j.at = job[v].at /\ j.gen = job[v].gen /\ j.process = job[v].process
  BY <1>1 DEF JobRecords
<1>4. job' = [job EXCEPT ![v] = j]
  BY <1>1 DEF Leave
<1>5. x \in VisitRecords /\ Gone(x)
  BY GoneIs
<1>6. /\ visitor' = [visitor EXCEPT ![v] = x] /\ transfer' = [transfer EXCEPT ![v] = NoTransfer]
      /\ script' = [script EXCEPT ![v] = NoScript] /\ UNCHANGED <<directive, supervisor, poisoned>>
  BY DEF Leave, Dropped
<1> HIDE DEF x, j
<1> QED
  BY <1>2, <1>3, <1>4, <1>5, <1>6, NothingLeft, Departs

\* A request that is let in, before anything of its exchange runs.
LetIn(p, x) ==
  /\ x.slot /\ x.got = 0 /\ x.shown \notin {"open", "complete"} /\ x.result # "ok"
  /\ \/ x.at = "buffering" /\ x.running = "none"
     \/ x.at = "waiting" /\ x.running = (IF p THEN "checking" ELSE "dialing")

\* A request that is let in has an exchange that has not begun.
LEMMA LetInOk ==
  ASSUME NEW p \in BOOLEAN, NEW x \in VisitRecords, LetIn(p, x), NEW t \in TransferRecords, Emptied(t),
         x.at = "buffering" => t.ask # {}, NEW j \in JobRecords, j.at = "none", j.process = "none", ~j.permit
  PROVE  VisitOk(p, x, t, NoScript, j)
<1>1. PhaseOk(p, x)
  BY DEF PhaseOk, LetIn, Waits
<1>2. ChannelOk(x, t, NoScript)
  BY DEF ChannelOk, LetIn, Emptied
<1>3. JoinOk(p, x, t, NoScript, j)
  BY DEF JoinOk, LetIn, Emptied, Waits, FreshOk
<1>4. RestOk(x, t, NoScript)
  BY DEF RestOk, LetIn, Emptied, CutShort, Queued, NoScript
<1>5. JobOk(p, x, j)
  BY DEF JobOk, LetIn
<1> QED
  BY <1>1, <1>2, <1>3, <1>4, <1>5 DEF VisitOk, Emptied

\* What is known of a request that has not begun.
LEMMA NotBegun ==
  ASSUME CgiInv, NEW v \in Visits, visitor[v].at \in {"idle", "buffering"}
  PROVE  /\ visitor[v].running = "none" /\ visitor[v].got = 0 /\ visitor[v].result # "ok"
         /\ visitor[v].shown \notin {"open", "complete"}
         /\ Emptied(transfer[v]) /\ script[v] = NoScript
         /\ job[v].at = "none" /\ job[v].process = "none" /\ ~job[v].permit
<1>1. VisitOk(Process, visitor[v], transfer[v], script[v], job[v])
  BY OfVisit
<1>2. FreshOk(visitor[v], transfer[v], script[v])
  BY <1>1 DEF VisitOk, JoinOk
<1>3. visitor[v].running = "none" /\ visitor[v].shown \notin {"open", "complete"}
  BY <1>1 DEF VisitOk, PhaseOk
<1>4. visitor[v].result # "ok"
  BY <1>1, <1>2 DEF VisitOk, ChannelOk, FreshOk
<1>5. job[v].at = "none" /\ job[v].process = "none" /\ ~job[v].permit
  BY <1>1, <1>3 DEF VisitOk, JobOk
<1> QED
  BY <1>2, <1>3, <1>4, <1>5 DEF FreshOk, Emptied

\* A request that is refused before its exchange begins.
LEMMA TurnsAway ==
  ASSUME CgiInv, NEW v \in Visits, visitor[v].at \in {"idle", "buffering"}, NEW status \in Nat,
         visitor' = [visitor EXCEPT ![v] = Refused(status)],
         NEW t \in TransferRecords, Emptied(t), transfer' = [transfer EXCEPT ![v] = t],
         UNCHANGED <<directive, supervisor, poisoned, script, job>>
  PROVE  CgiInv'
<1>1. Refused(status) \in VisitRecords /\ Gone(Refused(status))
  BY GoneIs
<1>2. visitor[v].running # "queueing" /\ script[v] = NoScript
  BY NotBegun
<1>3. script' = [script EXCEPT ![v] = NoScript]
  BY <1>2, Untouched
<1>4. job' = [job EXCEPT ![v] = job[v]] /\ job[v] \in JobRecords
  BY Untouched, OfVisit
<1> QED
  BY <1>1, <1>2, <1>3, <1>4, Departs

\* One that is let in.
LEMMA LetsIn ==
  ASSUME CgiInv, NEW v \in Visits, visitor[v].at \in {"idle", "buffering"},
         NEW x \in VisitRecords, LetIn(Process, x), visitor' = [visitor EXCEPT ![v] = x],
         NEW t \in TransferRecords, Emptied(t), x.at = "buffering" => t.ask # {}, transfer' = [transfer EXCEPT ![v] = t],
         UNCHANGED <<directive, supervisor, poisoned, script, job>>
  PROVE  CgiInv'
<1>1. job[v] \in JobRecords /\ job[v].at = "none" /\ job[v].process = "none" /\ ~job[v].permit /\ script[v] = NoScript
  BY NotBegun, OfVisit
<1>2. VisitOk(Process, x, t, NoScript, job[v])
  BY <1>1, LetInOk DEF Process
<1>3. /\ script' = [script EXCEPT ![v] = NoScript] /\ job' = [job EXCEPT ![v] = job[v]]
      /\ KeepsPlace(job[v], job[v]) /\ KeepsShare(job[v], job[v])
  BY <1>1, Untouched
<1> QED
  BY <1>1, <1>2, <1>3, NoRecords, OneVisit

\* Refusals have a status.
LEMMA RefusedWithNat == \A a : RefusedWith(a) \in Nat
BY DEF RefusedWith

\* The exchange is made but not polled.
LEMMA BegunIs ==
  ASSUME NEW x \in VisitRecords
  PROVE  /\ Begun(x) \in VisitRecords
         /\ Begun(x).at = "waiting" /\ Begun(x).running = (IF Process THEN "checking" ELSE "dialing")
         /\ Begun(x).slot = x.slot /\ Begun(x).got = x.got /\ Begun(x).shown = x.shown /\ Begun(x).result = x.result
BY DEF Begun, VisitRecords, VisitStages, Runs

\* A request arrives and is refused or let in.
LEMMA CgiArrive ==
  ASSUME CgiInv, NEW v \in Visits, NEW a \in CgiAsks, NEW g \in Generations, Arrive(v, a, g)
  PROVE  CgiInv'
<1>1. /\ visitor[v].at = "idle" /\ visitor[v] \in VisitRecords /\ transfer[v] \in TransferRecords
      /\ transfer \in [Visits -> TransferRecords] /\ Emptied(transfer[v])
  BY OfVisit, NotBegun DEF Arrive, CgiInv
<1>2. CASE RefusedWith(a) # 0
  <2>1. visitor' = [visitor EXCEPT ![v] = Refused(RefusedWith(a))]
        /\ UNCHANGED <<directive, supervisor, poisoned, transfer, script, job>>
    BY <1>2 DEF Arrive
  <2>2. transfer' = [transfer EXCEPT ![v] = transfer[v]]
    BY <2>1, Untouched
  <2> QED
    BY <1>1, <2>1, <2>2, RefusedWithNat, TurnsAway
<1>3. CASE RefusedWith(a) = 0
  <2> DEFINE z == [visitor[v] EXCEPT !.gen = g, !.slot = TRUE]
             n == IF a.declared = {} THEN 0 ELSE CHOOSE n \in a.declared : TRUE
             x == IF a.declared = {} /\ a.streamed THEN [z EXCEPT !.at = "buffering"] ELSE Begun(z)
             t == [transfer[v] EXCEPT !.ask = {a}, !.length = n]
  <2>1. z \in VisitRecords /\ z.slot /\ z.got = visitor[v].got /\ z.shown = visitor[v].shown
        /\ z.result = visitor[v].result /\ z.running = visitor[v].running
    BY <1>1 DEF VisitRecords
  <2>2. n \in Nat
    BY CgiAssumption
  <2>3. visitor' = [visitor EXCEPT ![v] = x] /\ UNCHANGED <<directive, supervisor, poisoned, script, job>>
    BY <1>3 DEF Arrive
  <2>4. transfer' = [transfer EXCEPT ![v].ask = {a}, ![v].length = n]
    BY <1>3 DEF Arrive
  <2> HIDE DEF z, n
  <2>5. transfer' = [transfer EXCEPT ![v] = t]
    BY <1>1, <2>4
  <2>6. t \in TransferRecords
    BY <1>1, <2>2 DEF TransferRecords
  <2>7. Emptied(t)
    BY <1>1 DEF Emptied, TransferRecords
  <2>8. x \in VisitRecords /\ LetIn(Process, x)
    <3>1. CASE a.declared = {} /\ a.streamed
      BY <3>1, <2>1, <1>1, NotBegun DEF VisitRecords, VisitStages, LetIn
    <3>2. CASE ~(a.declared = {} /\ a.streamed)
      BY <3>2, <2>1, <1>1, NotBegun, BegunIs DEF LetIn
    <3> QED  BY <3>1, <3>2
  <2>9. t.ask # {}
    BY <1>1 DEF TransferRecords
  <2> HIDE DEF x, t
  <2> QED
    BY <1>1, <2>3, <2>5, <2>6, <2>7, <2>8, <2>9, LetsIn
<1> QED
  BY <1>2, <1>3

\* A body of unknown length is read up to the cap.
LEMMA CgiBuffer ==
  ASSUME CgiInv, NEW v \in Visits, Buffer(v)
  PROVE  CgiInv'
<1> DEFINE a == AskOf(v)
           t == [transfer[v] EXCEPT !.length = a.body]
<1>1. /\ visitor[v].at = "buffering" /\ visitor[v] \in VisitRecords /\ transfer[v] \in TransferRecords
      /\ transfer \in [Visits -> TransferRecords] /\ Emptied(transfer[v])
  BY OfVisit, NotBegun DEF Buffer, CgiInv
<1>2. transfer' = [transfer EXCEPT ![v] = t]
  BY <1>1 DEF Buffer
<1>0. a.body \in Nat /\ 413 \in Nat /\ 400 \in Nat
  <2>1. transfer[v].ask # {}
    BY <1>1, OfVisit DEF VisitOk, ChannelOk
  <2>2. a \in CgiAsks
    BY <1>1, <2>1 DEF AskOf, TransferRecords
  <2> QED
    BY <2>2, CgiAssumption
<1>3. t \in TransferRecords
  BY <1>0, <1>1 DEF TransferRecords
<1>4. Emptied(t)
  BY <1>1 DEF Emptied, TransferRecords
<1> HIDE DEF t
<1>5. UNCHANGED <<directive, supervisor, poisoned, script, job>>
  BY DEF Buffer
<1>6. CASE a.body > BufferCap \/ a.ends = "limit"
  <2>1. visitor' = [visitor EXCEPT ![v] = Refused(413)]
    BY <1>6 DEF Buffer
  <2> QED
    BY <2>1, <1>0, <1>1, <1>2, <1>3, <1>4, <1>5, TurnsAway
<1>7. CASE ~(a.body > BufferCap \/ a.ends = "limit") /\ a.ends = "error"
  <2>1. visitor' = [visitor EXCEPT ![v] = Refused(400)]
    BY <1>7 DEF Buffer
  <2> QED
    BY <2>1, <1>0, <1>1, <1>2, <1>3, <1>4, <1>5, TurnsAway
<1>8. CASE ~(a.body > BufferCap \/ a.ends = "limit") /\ a.ends # "error"
  <2>1. visitor' = [visitor EXCEPT ![v] = Begun(visitor[v])]
    BY <1>8 DEF Buffer
  <2>2. visitor[v].slot
    BY <1>1, OfVisit DEF VisitOk, PhaseOk
  <2>3. Begun(visitor[v]) \in VisitRecords /\ LetIn(Process, Begun(visitor[v]))
    BY <1>1, <2>2, NotBegun, BegunIs DEF LetIn
  <2> QED
    BY <2>1, <2>3, <1>1, <1>2, <1>3, <1>4, <1>5, BegunIs, LetsIn
<1> QED
  BY <1>6, <1>7, <1>8

\* The name of a request that is over is used again.
LEMMA CgiAgain ==
  ASSUME CgiInv, NEW v \in Visits, Again(v)
  PROVE  CgiInv'
<1>1. VisitOk(Process, visitor[v], transfer[v], script[v], job[v]) /\ job[v] \in JobRecords
  BY OfVisit
<1>2. job[v].at = "none" /\ visitor[v].running \in {"none", "done"}
  BY <1>1 DEF Again, VisitOk, PhaseOk
<1>3. job[v].process = "none" /\ ~job[v].permit
  BY <1>1, <1>2 DEF Again, VisitOk, JobOk, JobRecords
<1>4. PhaseOk(Process, NoVisit)
  BY DEF PhaseOk, NoVisit, Waits
<1>5. ChannelOk(NoVisit, NoTransfer, NoScript)
  BY DEF ChannelOk, NoVisit, NoTransfer
<1>6. JoinOk(Process, NoVisit, NoTransfer, NoScript, job[v])
  BY DEF JoinOk, NoVisit, NoTransfer, Waits, FreshOk
<1>7. JobOk(Process, NoVisit, job[v])
  BY <1>2, <1>3 DEF JobOk, NoVisit
<1>8. RestOk(NoVisit, NoTransfer, NoScript)
  BY DEF RestOk, NoVisit, NoTransfer, NoScript, Queued, CutShort
<1>9. VisitOk(Process, NoVisit, NoTransfer, NoScript, job[v])
  BY <1>4, <1>5, <1>6, <1>7, <1>8 DEF VisitOk, NoTransfer
<1>10. job' = [job EXCEPT ![v] = job[v]] /\ KeepsPlace(job[v], job[v]) /\ KeepsShare(job[v], job[v])
  BY Untouched DEF Again
<1> QED
  BY <1>1, <1>9, <1>10, NoRecords, OneVisit DEF Again

\* Bytes that move from the channel to the client are still counted once.
LEMMA LiveSame ==
  ASSUME NEW x, NEW t, NEW s, LiveOk(x, t, s), NEW y, NEW u,
         y.got + Queued(u.queue) = x.got + Queued(t.queue), u.queue = t.queue \/ u.queue = <<>>,
         u.ask = t.ask, u.head = t.head, u.seen = t.seen, u.tail = t.tail, u.out = t.out,
         u.completion = t.completion, u.eof = t.eof, u.exited = t.exited
  PROVE  LiveOk(y, u, s)
<1>1. DueOf(u) = DueOf(t)
  BY DueSame
<1>2. Withholds(u) = Withholds(t)
  BY DEF Withholds
<1> QED
  BY <1>1, <1>2 DEF LiveOk

\* What is known of an exchange that rests depends on what was given.
LEMMA RestSame ==
  ASSUME NEW x, NEW t, NEW s, RestOk(x, t, s), NEW y, NEW u,
         y.got + Queued(u.queue) = x.got + Queued(t.queue), u.queue = t.queue \/ u.queue = <<>>,
         u.ask = t.ask, u.head = t.head, u.completion = t.completion
  PROVE  RestOk(y, u, s)
<1>1. DueOf(u) = DueOf(t)
  BY DueSame
<1> QED
  BY <1>1 DEF RestOk, WholeGiven, CutShort

\* A step of the client's side that empties the channel.
LEMMA Reads ==
  ASSUME CgiInv, NEW v \in Visits, transfer[v].queue # <<>>,
         NEW x \in VisitRecords, visitor' = [visitor EXCEPT ![v] = x],
         transfer' = [transfer EXCEPT ![v].queue = <<>>],
         UNCHANGED <<directive, supervisor, poisoned, script, job>>,
         visitor[v].at \in {"waiting", "streaming"},
         x.gen = visitor[v].gen, x.slot = visitor[v].slot, x.running = visitor[v].running,
         x.result = visitor[v].result, x.got = visitor[v].got + Queued(transfer[v].queue),
         \/ x.at = "settling" /\ x.shown = "none" /\ DueOf(transfer[v]) = {0}
         \/ x.at = "streaming" /\ x.shown = "open" /\ DueOf(transfer[v]) # {0}
  PROVE  CgiInv'
<1> DEFINE t == transfer[v]
           u == [t EXCEPT !.queue = <<>>]
           s == script[v]
           j == job[v]
<1>1. /\ visitor[v] \in VisitRecords /\ t \in TransferRecords /\ s \in ScriptRecords /\ j \in JobRecords
      /\ VisitOk(Process, visitor[v], t, s, j) /\ transfer \in [Visits -> TransferRecords]
  BY OfVisit DEF CgiInv
<1>2. u \in TransferRecords
  <2>1. <<>> \in Seq(Messages)
    OBVIOUS
  <2>2. \A r \in TransferRecords, q \in Seq(Messages) : [r EXCEPT !.queue = q] \in TransferRecords
    BY DEF TransferRecords
  <2> QED
    BY <1>1, <2>1, <2>2
<1>3. /\ u.queue = <<>> /\ u.live = t.live /\ u.ask = t.ask /\ u.head = t.head /\ u.seen = t.seen /\ u.tail = t.tail
      /\ u.out = t.out /\ u.completion = t.completion /\ u.eof = t.eof /\ u.exited = t.exited
  BY <1>1 DEF TransferRecords
<1>4. transfer' = [transfer EXCEPT ![v] = u]
  BY <1>1
<1>5. /\ script' = [script EXCEPT ![v] = s] /\ job' = [job EXCEPT ![v] = j]
      /\ KeepsPlace(job[v], j) /\ KeepsShare(job[v], j)
  BY Untouched
<1>6. t.queue # <<>> /\ DueOf(u) = DueOf(t)
  BY <1>3, DueSame
<1>7. x.got + Queued(u.queue) = visitor[v].got + Queued(t.queue)
  <2>1. visitor[v].got \in Nat /\ Queued(t.queue) \in Nat
    BY <1>1, Counts DEF VisitRecords, TransferRecords
  <2> QED
    BY <2>1, <1>3 DEF Queued
<1> HIDE DEF t, u, s, j
<1>8. t.head # {}
  BY <1>1, <1>6 DEF VisitOk, LiveOk, RestOk
<1>9. PhaseOk(Process, x)
  BY <1>1 DEF VisitOk, PhaseOk, Waits
<1>10. ChannelOk(x, u, s)
  <2>1. x.shown # "complete" /\ x.at # "waiting" /\ x.at # "buffering"
    OBVIOUS
  <2>2. x.at \in {"settling", "streaming"} =>
          u.head # {} /\ (x.at = "settling" => DueOf(u) = {0}) /\ (x.at = "streaming" => DueOf(u) # {0})
    BY <1>3, <1>6, <1>8 DEF t
  <2>3. x.result = "ok" => ~u.live /\ u.completion = "finished"
    BY <1>1, <1>3 DEF VisitOk, ChannelOk
  <2>4. (u.head = {} \/ \E h \in u.head : u.head = {h}) /\ Len(u.queue) =< 1
    BY <1>1, <1>3 DEF VisitOk, ChannelOk
  <2> QED
    BY <2>1, <2>2, <2>3, <2>4 DEF ChannelOk
<1>11. JoinOk(Process, x, u, s, j)
  <2>1. ~FreshOk(visitor[v], t, s)
    BY <1>6 DEF FreshOk
  <2>2. Waits(visitor[v]) /\ Waits(x) /\ x.at \notin {"idle", "buffering"}
    BY DEF Waits
  <2> QED
    BY <1>1, <1>3, <2>1, <2>2 DEF VisitOk, JoinOk
<1>12. JobOk(Process, x, j)
  BY <1>1 DEF VisitOk, JobOk
<1>13. u.live => LiveOk(x, u, s)
  BY <1>1, <1>3, <1>7, LiveSame DEF VisitOk
<1>14. ~u.live => RestOk(x, u, s)
  BY <1>1, <1>3, <1>7, RestSame DEF VisitOk
<1>15. VisitOk(Process, x, u, s, j)
  BY <1>9, <1>10, <1>11, <1>12, <1>13, <1>14 DEF VisitOk
<1> QED
  BY <1>1, <1>2, <1>4, <1>5, <1>15, OneVisit

\* The head is taken from the channel.
LEMMA CgiTakeHead ==
  ASSUME CgiInv, NEW v \in Visits, TakeHead(v)
  PROVE  CgiInv'
<1> DEFINE settles == Due(v) = {0}
           x == [visitor[v] EXCEPT !.at = IF settles THEN "settling" ELSE "streaming",
                                   !.shown = IF settles THEN "none" ELSE "open"]
<1>1. /\ visitor[v] \in VisitRecords /\ transfer[v] \in TransferRecords /\ visitor \in [Visits -> VisitRecords]
      /\ VisitOk(Process, visitor[v], transfer[v], script[v], job[v])
  BY OfVisit DEF CgiInv
<1>2. visitor[v].got \in Nat /\ Queued(transfer[v].queue) = 0
  BY <1>1 DEF VisitRecords, TakeHead, VisitOk, ChannelOk, Queued, Output
<1>3. x \in VisitRecords
  BY <1>1 DEF VisitRecords, VisitStages, Showings
<1>4. /\ x.gen = visitor[v].gen /\ x.slot = visitor[v].slot /\ x.running = visitor[v].running
      /\ x.result = visitor[v].result /\ x.got = visitor[v].got
      /\ x.at = (IF settles THEN "settling" ELSE "streaming") /\ x.shown = (IF settles THEN "none" ELSE "open")
  BY <1>1 DEF VisitRecords
<1>5. visitor' = [visitor EXCEPT ![v] = x]
  BY <1>1 DEF TakeHead
<1>6. settles <=> DueOf(transfer[v]) = {0}
  BY DEF Due, DueOf, AskOf
<1>7. /\ visitor[v].at = "waiting" /\ transfer[v].queue # <<>> /\ transfer' = [transfer EXCEPT ![v].queue = <<>>]
      /\ UNCHANGED <<directive, supervisor, poisoned, script, job>>
  BY DEF TakeHead
<1>8. x.got = visitor[v].got + Queued(transfer[v].queue)
  BY <1>2, <1>4
<1> HIDE DEF x, settles
<1>9. \/ x.at = "settling" /\ x.shown = "none" /\ DueOf(transfer[v]) = {0}
      \/ x.at = "streaming" /\ x.shown = "open" /\ DueOf(transfer[v]) # {0}
  BY <1>4, <1>6
<1> QED
  BY <1>3, <1>4, <1>5, <1>7, <1>8, <1>9, Reads

\* Bytes are taken from the channel.
LEMMA CgiReadBody ==
  ASSUME CgiInv, NEW v \in Visits, ReadBody(v)
  PROVE  CgiInv'
<1>1. /\ visitor[v] \in VisitRecords /\ transfer[v] \in TransferRecords /\ visitor \in [Visits -> VisitRecords]
      /\ VisitOk(Process, visitor[v], transfer[v], script[v], job[v])
  BY OfVisit DEF CgiInv
<1>2. /\ visitor[v].at = "streaming" /\ transfer[v].queue # <<>> /\ transfer' = [transfer EXCEPT ![v].queue = <<>>]
      /\ UNCHANGED <<directive, supervisor, poisoned, script, job>>
  BY DEF ReadBody
<1>3. PICK n \in Nat : n = visitor[v].got + Queued(transfer[v].queue)
  <2>1. visitor[v].got \in Nat /\ Queued(transfer[v].queue) \in Nat
    BY <1>1, Counts DEF VisitRecords, TransferRecords
  <2> QED
    BY <2>1
<1>4. Head(transfer[v].queue).n = Queued(transfer[v].queue)
  BY <1>1, <1>2 DEF Queued, TransferRecords
<1> DEFINE x == [visitor[v] EXCEPT !.got = n]
<1>5. visitor' = [visitor EXCEPT ![v] = x]
  <2>1. visitor' = [visitor EXCEPT ![v].got = visitor[v].got + Queued(transfer[v].queue)]
    BY <1>1, <1>4 DEF ReadBody
  <2> QED
    BY <2>1, <1>1, <1>3
<1>6. x \in VisitRecords
  BY <1>1 DEF VisitRecords
<1>7. /\ x.gen = visitor[v].gen /\ x.slot = visitor[v].slot /\ x.running = visitor[v].running
      /\ x.result = visitor[v].result /\ x.got = n /\ x.at = visitor[v].at /\ x.shown = visitor[v].shown
  BY <1>1 DEF VisitRecords
<1> HIDE DEF x
<1>8. x.at = "streaming" /\ x.shown = "open" /\ DueOf(transfer[v]) # {0}
  BY <1>1, <1>2, <1>7 DEF VisitOk, PhaseOk, ChannelOk
<1> QED
  BY <1>2, <1>3, <1>5, <1>6, <1>7, <1>8, Reads

-----------------------------------------------------------------------------
(* Exchanges that go on, end, or are given up.                             *)

\* A request whose exchange runs is waited for.
LEMMA RunningWaits ==
  ASSUME NEW p, NEW x \in VisitRecords, PhaseOk(p, x), x.running \notin {"none", "done"}
  PROVE  Waits(x)
BY DEF VisitRecords, VisitStages, PhaseOk, Waits

\* What the terminal polls has ended.
LEMMA FinishedOk ==
  ASSUME NEW p \in BOOLEAN, NEW x \in VisitRecords, NEW t \in TransferRecords, NEW s \in ScriptRecords,
         NEW j \in JobRecords, VisitOk(p, x, t, s, j), x.running \notin {"none", "done"},
         NEW r \in Results, NEW u \in TransferRecords, NEW z \in ScriptRecords, NEW k \in JobRecords,
         \/ u = t /\ z = s /\ (t.live => p)
         \/ ~p /\ ~u.live /\ u.ask = t.ask /\ u.head = t.head /\ u.queue = t.queue /\ RestOk(x, u, z),
         r = "ok" => ~u.live /\ u.completion = "finished",
         JobOk(p, Finished(x, r), k), u.live => k.at = "running" /\ k.process # "none",
         k.at \in {"queued", "running"} => k.at = j.at /\ k.process = j.process
  PROVE  VisitOk(p, Finished(x, r), u, z, k)
<1> DEFINE y == Finished(x, r)
<1>1. /\ y \in VisitRecords /\ y.running = "done" /\ y.result = r /\ ~y.slot
      /\ y.at = x.at /\ y.gen = x.gen /\ y.got = x.got /\ y.shown = x.shown
  BY FinishedIs
<1>2. PhaseOk(p, x) /\ ChannelOk(x, t, s) /\ JoinOk(p, x, t, s, j)
  BY DEF VisitOk
<1>3. Waits(x)
  BY <1>2, RunningWaits
<1>4. JobOk(p, y, k)
  OBVIOUS
<1> HIDE DEF y
<1>5. PhaseOk(p, y)
  BY <1>1, <1>2, <1>3 DEF PhaseOk, Waits
<1>6. u.ask = t.ask /\ u.head = t.head /\ u.queue = t.queue /\ (u.live => u = t)
  OBVIOUS
<1>7. ChannelOk(y, u, z)
  <2>1. DueOf(u) = DueOf(t)
    BY <1>6, DueSame
  <2>2. y.shown # "complete" /\ y.at # "buffering"
    BY <1>1, <1>2, <1>3 DEF PhaseOk, Waits
  <2>3. y.result = "ok" => ~u.live /\ u.completion = "finished"
    BY <1>1
  <2> QED
    BY <1>1, <1>2, <1>6, <2>1, <2>2, <2>3 DEF ChannelOk
<1>8. JoinOk(p, y, u, z, k)
  <2>1. Waits(y)
    BY <1>1, <1>3 DEF Waits
  <2>2. y.at \notin {"idle", "buffering"}
    BY <2>1 DEF Waits
  <2>3. (u.live => p) /\ (u.live /\ Ending(u.out) => u.exited)
    BY <1>2, <1>6 DEF JoinOk
  <2>4. ASSUME k.at \in {"queued", "running"}, k.process = "none"
        PROVE  FreshOk(y, u, z)
    <3>1. FreshOk(x, t, s)
      BY <2>4, <1>2, <1>3 DEF JoinOk
    <3>2. p
      BY <2>4, <1>4 DEF JobOk
    <3> QED
      BY <3>1, <3>2, <1>1 DEF FreshOk
  <2> QED
    BY <1>1, <2>1, <2>2, <2>3, <2>4 DEF JoinOk
<1>9. u.live => LiveOk(y, u, z)
  <2>1. ASSUME u.live PROVE LiveOk(y, u, z)
    <3>1. LiveOk(x, t, s) /\ u = t /\ z = s
      BY <2>1 DEF VisitOk
    <3> QED
      BY <3>1, <1>1, LiveSame
  <2> QED  BY <2>1
<1>10. ~u.live => RestOk(y, u, z)
  <2>1. ASSUME ~u.live PROVE RestOk(y, u, z)
    <3>1. RestOk(x, u, z)
      BY <2>1 DEF VisitOk
    <3> QED
      BY <3>1, <1>1, RestSame
  <2> QED  BY <2>1
<1>11. VisitOk(p, y, u, z, k)
  BY <1>4, <1>5, <1>7, <1>8, <1>9, <1>10 DEF VisitOk
<1> QED
  BY <1>11 DEF y

\* A job gives up its process and cleans up.
LEMMA Cleans ==
  ASSUME CgiInv, NEW v \in Visits, job[v].at = "running",
         NEW u \in TransferRecords, ~u.live, u.ask = transfer[v].ask, u.head = transfer[v].head,
         u.queue = transfer[v].queue, NEW s \in ScriptRecords, RestOk(visitor[v], u, s),
         transfer[v].live \/ (s = script[v] /\ u.completion = transfer[v].completion),
         NEW j \in JobRecords, j.at = "cleaning", j.permit = job[v].permit, j.gen = job[v].gen,
         j.process = "alive" => job[v].process = "alive",
         transfer' = [transfer EXCEPT ![v] = u], script' = [script EXCEPT ![v] = s],
         job' = [job EXCEPT ![v] = j], UNCHANGED <<directive, supervisor, poisoned, visitor>>
  PROVE  CgiInv'
<1> DEFINE x == visitor[v]
           t == transfer[v]
<1>1. /\ x \in VisitRecords /\ t \in TransferRecords /\ job[v] \in JobRecords
      /\ VisitOk(Process, x, t, script[v], job[v])
  BY OfVisit
<1>2. visitor' = [visitor EXCEPT ![v] = x]
  BY Untouched
<1>3. u.ask = t.ask /\ u.head = t.head /\ u.queue = t.queue /\ RestOk(x, u, s)
      /\ (t.live \/ (s = script[v] /\ u.completion = t.completion))
  OBVIOUS
<1> HIDE DEF x, t
<1>4. x.at \notin {"idle", "buffering"} /\ x.running \notin {"dialing", "checking", "acquiring", "queueing"}
  BY <1>1 DEF VisitOk, JobOk, PhaseOk
<1>5. DueOf(u) = DueOf(t)
  BY <1>3, DueSame
<1>6. ChannelOk(x, u, s)
  <2>1. CASE t.live
    <3>1. x.result # "ok" /\ x.shown # "complete"
      BY <1>1, <2>1 DEF VisitOk, ChannelOk, JoinOk, PhaseOk, Waits
    <3> QED
      BY <1>1, <1>3, <1>4, <1>5, <3>1 DEF VisitOk, ChannelOk
  <2>2. CASE ~t.live
    BY <1>1, <1>3, <1>4, <1>5, <2>2 DEF VisitOk, ChannelOk
  <2> QED  BY <2>1, <2>2
<1>7. JoinOk(Process, x, u, s, j)
  BY <1>4 DEF JoinOk
<1>8. JobOk(Process, x, j)
  BY <1>1, <1>4 DEF VisitOk, JobOk
<1>9. VisitOk(Process, x, u, s, j)
  BY <1>1, <1>3, <1>6, <1>7, <1>8 DEF VisitOk
<1>10. KeepsPlace(job[v], j) /\ KeepsShare(job[v], j)
  BY <1>1 DEF KeepsPlace, KeepsShare, VisitOk, JobOk
<1> QED
  BY <1>1, <1>2, <1>9, <1>10, OneVisit

\* The exchange ends: over the network with the future of the terminal, with
\* a process in its job.
LEMMA EndsOk ==
  ASSUME CgiInv, NEW v \in Visits, transfer[v].live,
         NEW w \in TransferRecords, w.ask = transfer[v].ask, w.head = transfer[v].head, w.queue = transfer[v].queue,
         NEW s \in ScriptRecords, script' = [script EXCEPT ![v] = s],
         s.sent >= script[v].sent, s = script[v] \/ transfer[v].out = <<>>,
         w.completion = "finished" => s = script[v] /\ Len(transfer[v].out) = 1 /\ Ending(transfer[v].out),
         NEW outcome \in {"ok", "failed", "timeout"}, outcome = "ok" => w.completion = "finished",
         Ends(v, outcome, w), UNCHANGED <<directive, supervisor, poisoned>>
  PROVE  CgiInv'
<1> DEFINE x == visitor[v]
           t == transfer[v]
           u == Stopped(w)
<1>1. /\ x \in VisitRecords /\ t \in TransferRecords /\ script[v] \in ScriptRecords /\ job[v] \in JobRecords
      /\ VisitOk(Process, x, t, script[v], job[v]) /\ job \in [Visits -> JobRecords]
  BY OfVisit DEF CgiInv
<1>2. /\ u \in TransferRecords /\ ~u.live /\ u.ask = t.ask /\ u.head = t.head /\ u.queue = t.queue
      /\ u.completion = w.completion
  BY StoppedIs
<1>3. LiveOk(x, t, script[v])
  BY <1>1 DEF VisitOk
<1>4. transfer' = [transfer EXCEPT ![v] = u]
  BY DEF Ends
<1> HIDE DEF u
<1>5. RestOk(x, u, s)
  <2>1. s = script[v] \/ ~Ending(t.out)
    BY ShapeNone
  <2> QED
    BY <1>1, <1>2, <1>3, <2>1, Stops
<1>6. CASE Process
  <2> DEFINE j == [job[v] EXCEPT !.at = "cleaning", !.result = outcome]
  <2>1. visitor' = visitor /\ job' = [job EXCEPT ![v].at = "cleaning", ![v].result = outcome]
    BY <1>6 DEF Ends
  <2>2. job' = [job EXCEPT ![v] = j]
    BY <1>1, <2>1
  <2>3. j \in JobRecords
    BY <1>1 DEF JobRecords, JobStages, Results
  <2>4. j.at = "cleaning" /\ j.permit = job[v].permit /\ j.gen = job[v].gen /\ j.process = job[v].process
    BY <1>1 DEF JobRecords
  <2>5. job[v].at = "running"
    BY <1>1, <1>6 DEF VisitOk, JoinOk
  <2>6. j.process = "alive" => job[v].process = "alive"
    BY <2>4
  <2>7. UNCHANGED <<directive, supervisor, poisoned, visitor>>
    BY <2>1
  <2> HIDE DEF j
  <2> QED
    BY <1>2, <1>4, <1>5, <2>2, <2>3, <2>4, <2>5, <2>6, <2>7, Cleans
<1>7. CASE ~Process
  <2>1. visitor' = [visitor EXCEPT ![v] = Finished(x, outcome)] /\ job' = job
    BY <1>7 DEF Ends
  <2>2. x.running = "exchanging" /\ job[v].at = "none" /\ ~job[v].permit
    BY <1>1, <1>7 DEF VisitOk, JoinOk, JobOk
  <2>3. outcome \in Results
    BY DEF Results
  <2>4. /\ Finished(x, outcome) \in VisitRecords /\ Finished(x, outcome).running = "done"
        /\ Finished(x, outcome).at = x.at /\ Finished(x, outcome).gen = x.gen
    BY <1>1, <2>3, FinishedIs
  <2>5. x.at \notin {"idle", "buffering"}
    BY <1>1, <2>2 DEF VisitOk, PhaseOk
  <2>6. JobOk(Process, Finished(x, outcome), job[v])
    BY <1>1, <2>2, <2>4, <2>5 DEF VisitOk, JobOk
  <2>7. VisitOk(Process, Finished(x, outcome), u, s, job[v])
    <3>1. outcome = "ok" => ~u.live /\ u.completion = "finished"
      BY <1>2
    <3>2. x.running \notin {"none", "done"} /\ job[v].at \notin {"queued", "running"}
      BY <2>2
    <3> HIDE DEF x, t
    <3> QED
      BY <1>1, <1>2, <1>5, <1>7, <2>3, <2>6, <3>1, <3>2, FinishedOk DEF Process
  <2>8. job' = [job EXCEPT ![v] = job[v]] /\ KeepsPlace(job[v], job[v]) /\ KeepsShare(job[v], job[v])
    BY <2>1, Untouched
  <2> QED
    BY <1>1, <1>2, <1>4, <2>1, <2>4, <2>7, <2>8, OneVisit
<1> QED
  BY <1>6, <1>7

\* The exchange goes on.
LEMMA GoesOn ==
  ASSUME CgiInv, NEW v \in Visits, transfer[v].live,
         NEW u \in TransferRecords, u.live, transfer' = [transfer EXCEPT ![v] = u],
         u.ask = transfer[v].ask, u.head = {} \/ \E h \in u.head : u.head = {h}, Len(u.queue) =< 1,
         visitor[v].at = "waiting" => /\ u.queue # <<>> => u.queue = <<Output("head", 0)>>
                                      /\ u.queue = <<>> => u.head = {} \/ u.out = <<Output("head", 0)>>,
         visitor[v].at # "waiting" => u.head = transfer[v].head, Process /\ Ending(u.out) => u.exited,
         NEW s \in ScriptRecords, script' = [script EXCEPT ![v] = s], LiveOk(visitor[v], u, s),
         NEW j \in JobRecords, job' = [job EXCEPT ![v] = j], j.at = job[v].at, j.gen = job[v].gen,
         j.permit = job[v].permit, j.process = job[v].process \/ (j.process = "gone" /\ Process),
         UNCHANGED <<directive, supervisor, poisoned, visitor>>
  PROVE  CgiInv'
<1> DEFINE x == visitor[v]
           t == transfer[v]
<1>1. /\ x \in VisitRecords /\ t \in TransferRecords /\ job[v] \in JobRecords
      /\ VisitOk(Process, x, t, script[v], job[v])
  BY OfVisit
<1>2. visitor' = [visitor EXCEPT ![v] = x]
  BY Untouched
<1>3. t.live /\ u.ask = t.ask /\ (x.at # "waiting" => u.head = t.head) /\ LiveOk(x, u, s)
      /\ (x.at = "waiting" => /\ u.queue # <<>> => u.queue = <<Output("head", 0)>>
                              /\ u.queue = <<>> => u.head = {} \/ u.out = <<Output("head", 0)>>)
  OBVIOUS
<1> HIDE DEF x, t
<1>4. Waits(x) /\ x.result # "ok" /\ x.shown # "complete" /\ ~FreshOk(x, t, script[v])
  BY <1>1, <1>3 DEF VisitOk, ChannelOk, JoinOk, PhaseOk, Waits, FreshOk
<1>5. x.at # "waiting" => DueOf(u) = DueOf(t)
  BY <1>3, DueSame
<1>6. ChannelOk(x, u, s)
  <2>1. x.at # "buffering"
    BY <1>4 DEF Waits
  <2> QED
    BY <1>1, <1>3, <1>4, <1>5, <2>1 DEF VisitOk, ChannelOk
<1>7. JoinOk(Process, x, u, s, j)
  <2>1. Process => job[v].at = "running" /\ job[v].process # "none"
    BY <1>1, <1>3 DEF VisitOk, JoinOk
  <2>2. ~Process => x.running = "exchanging" /\ job[v].at = "none"
    BY <1>1, <1>3 DEF VisitOk, JoinOk, JobOk
  <2>3. x.at \notin {"idle", "buffering"} /\ x.running \notin {"dialing", "checking", "acquiring", "queueing"}
    BY <1>1, <1>4 DEF VisitOk, JoinOk, Waits
  <2> QED
    BY <1>4, <2>1, <2>2, <2>3 DEF JoinOk
<1>8. JobOk(Process, x, j)
  <2>1. x.at \notin {"idle", "buffering"} /\ x.running \notin {"dialing", "checking", "acquiring", "queueing"}
    BY <1>1, <1>4 DEF VisitOk, JoinOk, Waits
  <2>2. Process => job[v].at = "running"
    BY <1>1, <1>3 DEF VisitOk, JoinOk
  <2>4. JobOk(Process, x, job[v])
    BY <1>1 DEF VisitOk
  <2> QED
    BY <2>1, <2>2, <2>4 DEF JobOk
<1>9. VisitOk(Process, x, u, s, j)
  BY <1>1, <1>3, <1>6, <1>7, <1>8 DEF VisitOk
<1>10. KeepsPlace(job[v], j) /\ KeepsShare(job[v], j)
  BY <1>1 DEF KeepsPlace, KeepsShare
<1> QED
  BY <1>1, <1>2, <1>9, <1>10, OneVisit

\* The same when the job is left alone.
LEMMA GoesAlone ==
  ASSUME CgiInv, NEW v \in Visits, transfer[v].live,
         NEW u \in TransferRecords, u.live, transfer' = [transfer EXCEPT ![v] = u],
         u.ask = transfer[v].ask, u.head = {} \/ \E h \in u.head : u.head = {h}, Len(u.queue) =< 1,
         visitor[v].at = "waiting" => /\ u.queue # <<>> => u.queue = <<Output("head", 0)>>
                                      /\ u.queue = <<>> => u.head = {} \/ u.out = <<Output("head", 0)>>,
         visitor[v].at # "waiting" => u.head = transfer[v].head, Process /\ Ending(u.out) => u.exited,
         NEW s \in ScriptRecords, script' = [script EXCEPT ![v] = s], LiveOk(visitor[v], u, s),
         UNCHANGED <<directive, supervisor, poisoned, visitor, job>>
  PROVE  CgiInv'
<1>1. job' = [job EXCEPT ![v] = job[v]] /\ job[v] \in JobRecords
  BY Untouched, OfVisit
<1>2. PICK j \in JobRecords : j = job[v]
  BY <1>1
<1>3. job' = [job EXCEPT ![v] = j] /\ j.at = job[v].at /\ j.gen = job[v].gen /\ j.permit = job[v].permit
      /\ (j.process = job[v].process \/ (j.process = "gone" /\ Process))
  BY <1>1, <1>2
<1> QED
  BY <1>3, GoesOn

-----------------------------------------------------------------------------
(* What the sink is given.                                                 *)

\* Messages.
LEMMA OutputIs ==
  \A w \in {"head", "body", "finish"}, n \in Nat :
    Output(w, n) \in Messages /\ Output(w, n).what = w /\ Output(w, n).n = n
BY DEF Output, Messages

\* One message.
LEMMA ShapeOne ==
  ASSUME NEW o \in Seq(Messages), Len(o) = 1, o[1].what \in {"head", "finish"} => o[1].n = 0
  PROVE  ShapeOk(o) /\ Pending(o) = o[1].n /\ (Ending(o) <=> o[1].what = "finish")
<1>1. o # <<>> /\ DOMAIN o = {1}
  OBVIOUS
<1> QED
  BY <1>1 DEF ShapeOk, Pending, Ending

\* Bytes and another message.
LEMMA ShapeTwo ==
  ASSUME NEW o \in Seq(Messages), Len(o) = 2, o[1].what = "body", o[1].n > 0,
         o[2].what \in {"head", "finish"} => o[2].n = 0
  PROVE  ShapeOk(o) /\ Pending(o) = o[1].n + o[2].n /\ (Ending(o) <=> o[2].what = "finish")
<1>1. o # <<>> /\ \A i \in DOMAIN o : i = 1 \/ i = 2
  OBVIOUS
<1> QED
  BY <1>1 DEF ShapeOk, Pending, Ending

\* Sequences of one message,
LEMMA OneMessage ==
  ASSUME NEW a \in Messages
  PROVE  /\ <<a>> \in Seq(Messages) /\ Len(<<a>>) = 1 /\ <<a>>[1] = a
         /\ <<>> \o <<a>> = <<a>> /\ <<a>> \o <<>> = <<a>>
<1>1. <<a>> \in Seq(Messages) /\ Len(<<a>>) = 1 /\ <<a>>[1] = a
  OBVIOUS
<1> DEFINE o == <<a>>
<1>2. o \in Seq(Messages)
  BY <1>1
<1> HIDE DEF o
<1>3. <<>> \o o = o /\ o \o <<>> = o
  BY <1>2, ConcatEmptySeq
<1> QED
  BY <1>1, <1>3 DEF o

\* and of two.
LEMMA TwoMessages ==
  ASSUME NEW a \in Messages, NEW b \in Messages
  PROVE  LET o == <<a>> \o <<b>> IN o \in Seq(Messages) /\ Len(o) = 2 /\ o[1] = a /\ o[2] = b
<1> DEFINE s == <<a>>
           t == <<b>>
<1>1. s \in Seq(Messages) /\ t \in Seq(Messages) /\ Len(s) = 1 /\ Len(t) = 1 /\ s[1] = a /\ t[1] = b
  BY OneMessage
<1> HIDE DEF s, t
<1>2. /\ s \o t \in Seq(Messages) /\ Len(s \o t) = Len(s) + Len(t)
      /\ \A i \in 1..(Len(s) + Len(t)) : (s \o t)[i] = IF i <= Len(s) THEN s[i] ELSE t[i - Len(s)]
  BY <1>1, ConcatProperties
<1>3. (s \o t)[1] = s[1] /\ (s \o t)[2] = t[1]
  BY <1>1, <1>2
<1> QED
  BY <1>1, <1>2, <1>3 DEF s, t

\* Of n new bytes the sink gets all but one, after the one that was kept.
LEMMA WithheldIs ==
  ASSUME NEW t, t.tail \in 0..1, NEW n \in Nat, n > 0
  PROVE  LET o == Withheld(t, n).out
         IN  /\ Withheld(t, n).tail = 1 /\ o \in Seq(Messages) /\ ShapeOk(o) /\ ~Ending(o)
             /\ Pending(o) = t.tail + (n - 1)
<1> DEFINE o == Withheld(t, n).out
<1>1. o = KeptByte(t) \o (IF n > 1 THEN <<Output("body", n - 1)>> ELSE <<>>) /\ Withheld(t, n).tail = 1
  BY DEF Withheld
<1>2. PICK m \in Nat : m = n - 1
  OBVIOUS
<1>3. Output("body", m) \in Messages /\ Output("body", m).what = "body" /\ Output("body", m).n = m
      /\ Output("body", 1) \in Messages /\ Output("body", 1).what = "body" /\ Output("body", 1).n = 1
  BY OutputIs
<1> HIDE DEF o
<1>4. CASE t.tail = 0 /\ ~(n > 1)
  <2>1. o = <<>>
    BY <1>1, <1>4, EmptySeq, ConcatEmptySeq DEF KeptByte
  <2>2. t.tail + (n - 1) = 0
    BY <1>4
  <2> QED
    BY <1>1, <2>1, <2>2, ShapeNone DEF o
<1>5. CASE t.tail = 0 /\ n > 1
  <2>1. o = <<Output("body", m)>>
    BY <1>1, <1>2, <1>3, <1>5, OneMessage DEF KeptByte
  <2>2. o \in Seq(Messages) /\ Len(o) = 1 /\ o[1] = Output("body", m)
    BY <2>1, <1>3, OneMessage
  <2>3. ShapeOk(o) /\ Pending(o) = m /\ ~Ending(o)
    BY <2>2, <1>3, ShapeOne
  <2>4. t.tail + (n - 1) = m
    BY <1>2, <1>5
  <2> QED
    BY <1>1, <2>2, <2>3, <2>4 DEF o
<1>6. CASE t.tail = 1 /\ ~(n > 1)
  <2>1. o = <<Output("body", 1)>>
    BY <1>1, <1>3, <1>6, OneMessage DEF KeptByte
  <2>2. o \in Seq(Messages) /\ Len(o) = 1 /\ o[1] = Output("body", 1)
    BY <2>1, <1>3, OneMessage
  <2>3. ShapeOk(o) /\ Pending(o) = 1 /\ ~Ending(o)
    BY <2>2, <1>3, ShapeOne
  <2>4. t.tail + (n - 1) = 1
    BY <1>6
  <2> QED
    BY <1>1, <2>2, <2>3, <2>4 DEF o
<1>7. CASE t.tail = 1 /\ n > 1
  <2>1. o = <<Output("body", 1)>> \o <<Output("body", m)>>
    BY <1>1, <1>2, <1>7 DEF KeptByte
  <2>2. o \in Seq(Messages) /\ Len(o) = 2 /\ o[1] = Output("body", 1) /\ o[2] = Output("body", m)
    BY <2>1, <1>3, TwoMessages
  <2>3. ShapeOk(o) /\ Pending(o) = 1 + m /\ ~Ending(o)
    BY <2>2, <1>3, ShapeTwo
  <2>4. t.tail + (n - 1) = 1 + m
    BY <1>2, <1>7
  <2> QED
    BY <1>1, <2>2, <2>3, <2>4 DEF o
<1>8. t.tail = 0 \/ t.tail = 1
  OBVIOUS
<1> QED
  BY <1>4, <1>5, <1>6, <1>7, <1>8

\* The last it gets is the kept byte and the end.
LEMMA LastIs ==
  ASSUME NEW t, t.tail \in 0..1
  PROVE  LET o == LastOutput(t)
         IN  o \in Seq(Messages) /\ ShapeOk(o) /\ Ending(o) /\ Pending(o) = t.tail
<1> DEFINE o == LastOutput(t)
<1>1. o = KeptByte(t) \o <<Output("finish", 0)>>
  BY DEF LastOutput
<1>2. Output("finish", 0) \in Messages /\ Output("finish", 0).what = "finish" /\ Output("finish", 0).n = 0
      /\ Output("body", 1) \in Messages /\ Output("body", 1).what = "body" /\ Output("body", 1).n = 1
  BY OutputIs
<1> HIDE DEF o
<1>3. CASE t.tail = 0
  <2>1. o = <<Output("finish", 0)>>
    BY <1>1, <1>2, <1>3, OneMessage DEF KeptByte
  <2>2. o \in Seq(Messages) /\ Len(o) = 1 /\ o[1] = Output("finish", 0)
    BY <2>1, <1>2, OneMessage
  <2>3. ShapeOk(o) /\ Pending(o) = 0 /\ Ending(o)
    BY <2>2, <1>2, ShapeOne
  <2> QED
    BY <1>3, <2>2, <2>3 DEF o
<1>4. CASE t.tail = 1
  <2>1. o = <<Output("body", 1)>> \o <<Output("finish", 0)>>
    BY <1>1, <1>4 DEF KeptByte
  <2>2. o \in Seq(Messages) /\ Len(o) = 2 /\ o[1] = Output("body", 1) /\ o[2] = Output("finish", 0)
    BY <2>1, <1>2, TwoMessages
  <2>3. ShapeOk(o) /\ Pending(o) = 1 /\ Ending(o)
    BY <2>2, <1>2, ShapeTwo
  <2> QED
    BY <1>4, <2>2, <2>3 DEF o
<1>5. t.tail = 0 \/ t.tail = 1
  OBVIOUS
<1> QED
  BY <1>3, <1>4, <1>5

\* What is given in order is taken in order.
LEMMA TakesFirst ==
  ASSUME NEW o \in Seq(Messages), ShapeOk(o), o # <<>>, Head(o).what # "finish"
  PROVE  /\ Tail(o) \in Seq(Messages) /\ Head(o) \in Messages /\ ShapeOk(Tail(o))
         /\ Ending(Tail(o)) <=> Ending(o)
         /\ Pending(o) = Head(o).n + Pending(Tail(o))
         /\ Pending(Tail(o)) \in Nat
<1>1. Len(o) \in Nat /\ Len(o) # 0 /\ Len(o) =< 2
  BY MessagesIn DEF ShapeOk
<1>2. Len(o) = 1 \/ Len(o) = 2
  BY <1>1, UpToTwo
<1>3. Head(o) = o[1] /\ o[1] \in Messages
  BY <1>1, MessagesIn, HeadTailProperties
<1>4. PICK q \in Seq(Messages) : /\ q = Tail(o) /\ Len(q) = Len(o) - 1
                                 /\ \A i \in 1..Len(q) : q[i] = o[i + 1]
  BY <1>1, HeadTailProperties
<1>5. CASE Len(o) = 1
  <2>1. Len(q) = 0
    BY <1>4, <1>5
  <2>2. q = <<>>
    BY <2>1, MessagesIn
  <2>3. Pending(o) = o[1].n /\ ~Ending(o) /\ o[1].n \in Nat
    BY <1>3, <1>5 DEF Pending, Ending, Messages
  <2>4. ShapeOk(q) /\ ~Ending(q) /\ Pending(q) = 0
    BY <2>2, ShapeNone
  <2>5. Pending(o) = o[1].n + Pending(q)
    BY <2>3, <2>4
  <2> QED
    BY <1>3, <1>4, <2>3, <2>4, <2>5
<1>6. CASE Len(o) = 2
  <2>1. o[2] \in Messages
    BY <1>6, MessagesIn
  <2>2. Len(q) = 1
    BY <1>4, <1>6
  <2>3. q[1] = o[2]
    BY <1>4, <2>2
  <2>4. o[2].what \in {"head", "finish"} => o[2].n = 0
    BY <1>6 DEF ShapeOk
  <2>5. Pending(o) = o[1].n + o[2].n /\ (Ending(o) <=> o[2].what = "finish") /\ o[1].n \in Nat /\ o[2].n \in Nat
    BY <1>3, <1>6, <2>1 DEF Pending, Ending, Messages
  <2>6. ShapeOk(q) /\ Pending(q) = o[2].n /\ (Ending(q) <=> o[2].what = "finish")
    BY <2>2, <2>3, <2>4, ShapeOne
  <2> QED
    BY <1>3, <1>4, <2>5, <2>6
<1> QED
  BY <1>2, <1>5, <1>6

-----------------------------------------------------------------------------
(* The steps of an exchange.                                               *)

\* An exchange that fails or stalls where it is.
LEMMA Failing ==
  ASSUME CgiInv, NEW v \in Visits, transfer[v].live, NEW outcome \in {"failed", "timeout"},
         Ends(v, outcome, transfer[v]), UNCHANGED <<directive, supervisor, poisoned, script>>
  PROVE  CgiInv'
<1>1. /\ transfer[v] \in TransferRecords /\ script[v] \in ScriptRecords
      /\ VisitOk(Process, visitor[v], transfer[v], script[v], job[v])
  BY OfVisit
<1>2. transfer[v].completion # "finished"
  BY <1>1 DEF VisitOk, LiveOk
<1>3. script' = [script EXCEPT ![v] = script[v]]
  BY Untouched
<1>4. script[v].sent >= script[v].sent
  BY <1>1 DEF ScriptRecords
<1>5. outcome \in {"ok", "failed", "timeout"} /\ outcome # "ok"
  OBVIOUS
<1> QED
  BY <1>1, <1>2, <1>3, <1>4, <1>5, EndsOk

\* The body of the request is not what was announced.
LEMMA CgiUploadFails ==
  ASSUME CgiInv, NEW v \in Visits, UploadFails(v)
  PROVE  CgiInv'
BY Failing DEF UploadFails

\* A read, a write or the protocol fails.
LEMMA CgiBreaks ==
  ASSUME CgiInv, NEW v \in Visits, Breaks(v)
  PROVE  CgiInv'
BY Failing DEF Breaks

\* A deadline of the exchange passes.
LEMMA CgiStalls ==
  ASSUME CgiInv, NEW v \in Visits, Stalls(v)
  PROVE  CgiInv'
BY Failing DEF Stalls

\* While the client waits, nothing but the head has been given to it.
LEMMA WaitingHead ==
  ASSUME CgiInv, NEW v \in Visits, transfer[v].live, visitor[v].at = "waiting", transfer[v].head # {}
  PROVE  \/ transfer[v].queue = <<Output("head", 0)>>
         \/ transfer[v].queue = <<>> /\ transfer[v].out = <<Output("head", 0)>>
BY OfVisit DEF VisitOk, ChannelOk

\* The head that was read is the first the sink is given.
LEMMA CgiReceiveHead ==
  ASSUME CgiInv, NEW v \in Visits, NEW h \in Scripts[directive.script].heads, ReceiveHead(v, h)
  PROVE  CgiInv'
<1>1. CASE HeadRefused(h)
  <2>1. transfer[v].live /\ Ends(v, "failed", transfer[v]) /\ UNCHANGED <<directive, supervisor, poisoned, script>>
    BY <1>1 DEF ReceiveHead, Reading
  <2> QED
    BY <2>1, Failing
<1>2. CASE ~HeadRefused(h)
  <2> DEFINE x == visitor[v]
             t == transfer[v]
             s == script[v]
             j == job[v]
             o == <<Output("head", 0)>>
             u == [t EXCEPT !.head = {h}, !.out = o]
  <2>1. /\ x \in VisitRecords /\ t \in TransferRecords /\ s \in ScriptRecords /\ j \in JobRecords
        /\ VisitOk(Process, x, t, s, j)
    BY OfVisit
  <2>2. /\ transfer' = [transfer EXCEPT ![v] = u] /\ t.live /\ t.out = <<>> /\ ~t.eof /\ t.head = {}
        /\ UNCHANGED <<directive, supervisor, poisoned, script, visitor, job>>
    BY <1>2 DEF ReceiveHead, Reading, Goes
  <2>3. h \in CgiHeads
    BY DEF CgiInv, CgiHeads
  <2>4. Output("head", 0) \in Messages /\ Output("head", 0).what = "head" /\ Output("head", 0).n = 0
    BY OutputIs
  <2>5. o \in Seq(Messages) /\ Len(o) = 1 /\ o[1] = Output("head", 0)
    BY <2>4, OneMessage
  <2>6. o = <<Output("head", 0)>>
    OBVIOUS
  <2>7. /\ script' = [script EXCEPT ![v] = s] /\ job' = [job EXCEPT ![v] = j]
    BY <2>2, Untouched
  <2> HIDE DEF o
  <2>8. u \in TransferRecords
    BY <2>1, <2>3, <2>5 DEF TransferRecords
  <2>9. /\ u.live = t.live /\ u.ask = t.ask /\ u.head = {h} /\ u.seen = t.seen /\ u.tail = t.tail
        /\ u.out = o /\ u.queue = t.queue /\ u.completion = t.completion /\ u.eof = t.eof /\ u.exited = t.exited
    BY <2>1 DEF TransferRecords
  <2>10. x.at = "waiting"
    BY <2>1, <2>2 DEF VisitOk, JoinOk, ChannelOk, Waits
  <2> HIDE DEF u, t, s, j, x
  <2>11. ShapeOk(o) /\ Pending(o) = 0 /\ ~Ending(o)
    BY <2>4, <2>5, ShapeOne
  <2>12. LiveOk(x, t, s)
    BY <2>1, <2>2 DEF VisitOk
  <2>13. t.seen = 0 /\ t.queue = <<>> /\ t.tail = 0 /\ s.sent = 0 /\ t.completion # "finished"
    <3>1. t.tail \in 0..1
      BY <2>1 DEF TransferRecords
    <3> QED
      BY <3>1, <2>2, <2>12 DEF LiveOk
  <2>14. x.got = 0
    BY <2>1, <2>10 DEF VisitOk, ChannelOk
  <2>15. x.got + Queued(u.queue) + Pending(u.out) + Withholds(u) = u.seen
    BY <2>9, <2>11, <2>13, <2>14 DEF Queued, Withholds
  <2>16. \A due \in DueOf(u) : u.seen =< due
    <3>1. DueOf(u) \subseteq Nat
      BY <2>8, <2>9, DueIs
    <3> QED
      BY <3>1, <2>9, <2>13
  <2>17. LiveOk(x, u, s)
    BY <2>2, <2>9, <2>11, <2>12, <2>13, <2>15, <2>16 DEF LiveOk
  <2>18. Len(u.queue) =< 1 /\ u.queue = <<>>
    BY <2>9, <2>13
  <2>19. u.head = {} \/ \E g \in u.head : u.head = {g}
    BY <2>9
  <2>20. u.out = <<Output("head", 0)>>
    BY <2>6, <2>9
  <2>21. ~Ending(u.out)
    BY <2>9, <2>11
  <2> QED
    <3>1. /\ transfer[v].live /\ u.live /\ u.ask = transfer[v].ask /\ visitor[v].at = "waiting"
          /\ LiveOk(visitor[v], u, s)
      BY <2>2, <2>9, <2>10, <2>17 DEF x, t
    <3> QED
      BY <2>1, <2>2, <2>7, <2>8, <2>18, <2>19, <2>20, <2>21, <3>1, GoesAlone
<1> QED
  BY <1>1, <1>2

\* Bytes are counted before any of them goes on; those beyond the announced
\* length end the exchange.
LEMMA CgiReceiveBody ==
  ASSUME CgiInv, NEW v \in Visits, NEW n \in Nat, n > 0, ReceiveBody(v, n)
  PROVE  CgiInv'
<1> DEFINE x == visitor[v]
           t == transfer[v]
<1>1. /\ x \in VisitRecords /\ t \in TransferRecords /\ script[v] \in ScriptRecords
      /\ VisitOk(Process, x, t, script[v], job[v])
  BY OfVisit
<1>2. /\ t.live /\ t.out = <<>> /\ ~t.eof /\ t.head # {} /\ LiveOk(x, t, script[v])
      /\ UNCHANGED <<directive, supervisor, poisoned>>
  BY <1>1 DEF ReceiveBody, Reading, VisitOk
<1>3. /\ t.seen \in Nat /\ t.tail \in 0..1 /\ script[v].sent \in Nat /\ x.got \in Nat
      /\ t.queue \in Seq(Messages)
  BY <1>1 DEF TransferRecords, ScriptRecords, VisitRecords
<1>4. PICK m \in Nat : m = script[v].sent + n
  BY <1>3
<1>5. PICK k \in Nat : k = t.seen + n
  BY <1>3
<1> DEFINE s == [script[v] EXCEPT !.sent = m]
<1>6. s \in ScriptRecords /\ s.sent = m /\ s.end = script[v].end
  BY <1>1 DEF ScriptRecords
<1>7. script' = [script EXCEPT ![v] = s]
  BY <1>4 DEF ReceiveBody, CgiInv
<1>8. m >= script[v].sent
  BY <1>3, <1>4
<1> HIDE DEF s
<1>9. Due(v) = DueOf(t)
  BY DEF Due, DueOf, AskOf
<1>10. CASE \E due \in DueOf(t) : t.seen + n > due
  <2>1. Ends(v, "failed", t)
    BY <1>9, <1>10 DEF ReceiveBody
  <2>2. t.completion # "finished"
    BY <1>2 DEF LiveOk
  <2>3. "failed" \in {"ok", "failed", "timeout"} /\ s.sent >= script[v].sent
    BY <1>6, <1>8
  <2> QED
    BY <1>1, <1>2, <1>6, <1>7, <2>1, <2>2, <2>3, EndsOk
<1>11. CASE ~\E due \in DueOf(t) : t.seen + n > due
  <2> DEFINE o == Withheld(t, n).out
             u == [t EXCEPT !.out = o, !.tail = 1, !.seen = k]
  <2>1. /\ Withheld(t, n).tail = 1 /\ o \in Seq(Messages) /\ ShapeOk(o) /\ ~Ending(o)
        /\ Pending(o) = t.tail + (n - 1)
    BY <1>3, WithheldIs
  <2>2. /\ transfer' = [transfer EXCEPT ![v] = u] /\ UNCHANGED <<visitor, job>>
    BY <1>5, <1>9, <1>11, <2>1 DEF ReceiveBody, Goes
  <2> HIDE DEF o
  <2>3. u \in TransferRecords
    <3>1. k \in Nat /\ 1 \in 0..1 /\ o \in Seq(Messages) /\ t \in TransferRecords
      BY <1>1, <1>5, <2>1
    <3> HIDE DEF t
    <3> QED
      BY <3>1 DEF TransferRecords
  <2>4. /\ u.live = t.live /\ u.ask = t.ask /\ u.head = t.head /\ u.seen = k /\ u.tail = 1
        /\ u.out = o /\ u.queue = t.queue /\ u.completion = t.completion /\ u.eof = t.eof /\ u.exited = t.exited
    BY <1>1 DEF TransferRecords
  <2> HIDE DEF u, t, x
  <2>5. x.got + Queued(t.queue) + t.tail = t.seen /\ t.seen = script[v].sent
    <3>1. x.got + Queued(t.queue) + Pending(t.out) + Withholds(t) = t.seen
      BY <1>2 DEF LiveOk
    <3>2. Pending(t.out) = 0 /\ Withholds(t) = t.tail /\ Queued(t.queue) \in Nat
      BY <1>2, <1>3, ShapeNone, Counts DEF Withholds
    <3> QED
      BY <3>1, <3>2, <1>2, <1>3 DEF LiveOk
  <2>6. PICK q \in Nat : q = Queued(t.queue)
    BY <1>3, Counts
  <2>7. x.got + Queued(u.queue) + Pending(u.out) + Withholds(u) = u.seen
    <3>1. Withholds(u) = 1
      BY <2>1, <2>4 DEF Withholds
    <3>2. x.got + q + (t.tail + (n - 1)) + 1 = k
      <4>1. t.tail \in Nat /\ x.got \in Nat /\ t.seen \in Nat
        BY <1>3
      <4>2. \A b, c, d, e \in Nat : b + q + c = d /\ e = d + n => b + q + (c + (n - 1)) + 1 = e
        OBVIOUS
      <4>3. x.got + q + t.tail = t.seen /\ k = t.seen + n
        BY <1>5, <2>5, <2>6
      <4> QED
        BY <4>1, <4>2, <4>3
    <3> QED
      BY <3>1, <3>2, <2>1, <2>4, <2>6
  <2>8. DueOf(u) = DueOf(t) /\ DueOf(t) \subseteq Nat
    BY <1>1, <1>2, <2>4, DueSame, DueIs
  <2>9. \A due \in DueOf(u) : u.seen =< due
    BY <1>3, <1>5, <1>11, <2>4, <2>8
  <2>10. u.seen = s.sent /\ u.seen > 0
    BY <1>3, <1>4, <1>5, <1>6, <2>4, <2>5
  <2>11. LiveOk(x, u, s)
    BY <1>2, <1>6, <2>1, <2>4, <2>7, <2>9, <2>10 DEF LiveOk
  <2>12. x.at = "waiting" => t.queue = <<Output("head", 0)>> /\ t.queue # <<>>
    <3>1. x.at = "waiting" => t.queue = <<Output("head", 0)>> \/ t.out = <<Output("head", 0)>>
      BY <1>2, WaitingHead DEF x, t
    <3>2. <<Output("head", 0)>> # <<>>
      OBVIOUS
    <3> QED
      BY <3>1, <3>2, <1>2
  <2>13. Len(u.queue) =< 1 /\ (u.head = {} \/ \E h \in u.head : u.head = {h})
    BY <1>1, <2>4 DEF VisitOk, ChannelOk
  <2>14. /\ transfer[v].live /\ u.live /\ u.ask = transfer[v].ask /\ u.head = transfer[v].head
         /\ LiveOk(visitor[v], u, s)
         /\ visitor[v].at = "waiting" => u.queue = <<Output("head", 0)>> /\ u.queue # <<>>
    BY <1>2, <2>4, <2>11, <2>12 DEF x, t
  <2>15. UNCHANGED <<directive, supervisor, poisoned, visitor, job>>
    BY <1>2, <2>2
  <2>16. ~Ending(u.out)
    BY <2>1, <2>4
  <2> QED
    BY <1>6, <1>7, <2>2, <2>3, <2>13, <2>14, <2>15, <2>16, GoesAlone
<1> QED
  BY <1>10, <1>11

\* The end of an answer is found right: what was kept may go.
LEMMA Settles ==
  ASSUME CgiInv, NEW v \in Visits, transfer[v].live, NEW u \in TransferRecords, u.live,
         u.ask = transfer[v].ask, u.head = transfer[v].head, u.seen = transfer[v].seen, u.tail = transfer[v].tail,
         u.queue = transfer[v].queue, u.completion = transfer[v].completion,
         NEW s \in ScriptRecords, s.sent = script[v].sent, s.end = script[v].end \/ s.end = "good",
         \/ u.out = transfer[v].out
         \/ /\ transfer[v].out = <<>> /\ u.out = LastOutput(u)
            /\ u.head # {} /\ s.end = "good" /\ \A due \in DueOf(u) : u.seen = due,
         u.eof => u.head # {} /\ \A due \in DueOf(u) : u.seen = due,
         u.eof /\ ~u.exited => u.out = <<>>, u.exited => s.end = "good", Process /\ Ending(u.out) => u.exited,
         transfer' = [transfer EXCEPT ![v] = u], script' = [script EXCEPT ![v] = s],
         NEW j \in JobRecords, job' = [job EXCEPT ![v] = j], j.at = job[v].at, j.gen = job[v].gen,
         j.permit = job[v].permit, j.process = job[v].process \/ (j.process = "gone" /\ Process),
         UNCHANGED <<directive, supervisor, poisoned, visitor>>
  PROVE  CgiInv'
<1> DEFINE x == visitor[v]
           t == transfer[v]
<1>1. /\ x \in VisitRecords /\ t \in TransferRecords /\ script[v] \in ScriptRecords
      /\ VisitOk(Process, x, t, script[v], job[v]) /\ LiveOk(x, t, script[v])
  BY OfVisit DEF VisitOk
<1>2. DueOf(u) = DueOf(t)
  BY DueSame
<1>3. Len(u.queue) =< 1 /\ (u.head = {} \/ \E h \in u.head : u.head = {h})
  BY <1>1 DEF VisitOk, ChannelOk
<1>4. CASE u.out = t.out
  <2>1. Withholds(u) = Withholds(t)
    BY <1>4 DEF Withholds
  <2>2. LiveOk(x, u, s)
    BY <1>1, <1>2, <1>4, <2>1 DEF LiveOk
  <2>3. visitor[v].at = "waiting" => /\ u.queue # <<>> => u.queue = <<Output("head", 0)>>
                                     /\ u.queue = <<>> => u.head = {} \/ u.out = <<Output("head", 0)>>
    BY <1>1, <1>4 DEF VisitOk, ChannelOk
  <2> QED
    BY <1>3, <2>2, <2>3, GoesOn
<1>5. CASE t.out = <<>> /\ u.out = LastOutput(u) /\ u.head # {} /\ s.end = "good" /\ \A due \in DueOf(u) : u.seen = due
  <2>1. u.tail \in 0..1 /\ t.tail = u.tail /\ t.queue \in Seq(Messages) /\ x.got \in Nat
    BY <1>1 DEF TransferRecords, VisitRecords
  <2>2. ShapeOk(u.out) /\ Ending(u.out) /\ Pending(u.out) = u.tail
    BY <1>5, <2>1, LastIs
  <2>3. x.got + Queued(t.queue) + u.tail = t.seen
    <3>1. x.got + Queued(t.queue) + Pending(t.out) + Withholds(t) = t.seen
      BY <1>1 DEF LiveOk
    <3>2. Pending(t.out) = 0 /\ Withholds(t) = u.tail /\ Queued(t.queue) \in Nat
      BY <1>5, <2>1, ShapeNone, Counts DEF Withholds
    <3> QED
      BY <3>1, <3>2, <2>1
  <2>4. x.got + Queued(u.queue) + Pending(u.out) + Withholds(u) = u.seen
    <3>1. Withholds(u) = 0 /\ Queued(t.queue) \in Nat
      BY <2>1, <2>2, Counts DEF Withholds
    <3> QED
      BY <3>1, <2>1, <2>2, <2>3
  <2>5. LiveOk(x, u, s)
    BY <1>1, <1>2, <1>5, <2>2, <2>4 DEF LiveOk
  <2>6. visitor[v].at = "waiting" => u.queue = <<Output("head", 0)>> /\ u.queue # <<>>
    <3>1. visitor[v].at = "waiting" => t.queue = <<Output("head", 0)>> \/ t.out = <<Output("head", 0)>>
      BY <1>5, WaitingHead
    <3>2. <<Output("head", 0)>> # <<>>
      OBVIOUS
    <3> QED
      BY <3>1, <3>2, <1>5
  <2>7. LiveOk(visitor[v], u, s)
    BY <2>5
  <2> HIDE DEF x, t
  <2> QED
    BY <1>3, <2>6, <2>7, GoesOn
<1> QED
  BY <1>4, <1>5

\* The backend ends its answer.
LEMMA CgiBackendEnds ==
  ASSUME CgiInv, NEW v \in Visits, NEW good \in BOOLEAN, BackendEnds(v, good)
  PROVE  CgiInv'
<1> DEFINE t == transfer[v]
           s == [script[v] EXCEPT !.end = IF good THEN "good" ELSE "bad"]
<1>1. /\ t \in TransferRecords /\ script[v] \in ScriptRecords /\ job[v] \in JobRecords
      /\ VisitOk(Process, visitor[v], t, script[v], job[v])
  BY OfVisit
<1>2. /\ t.live /\ t.out = <<>> /\ ~t.eof /\ UNCHANGED <<directive, supervisor, poisoned>>
  BY DEF BackendEnds, Reading
<1>3. t.completion # "finished"
  BY <1>1, <1>2 DEF VisitOk, LiveOk
<1>4. script' = [script EXCEPT ![v] = s]
  BY DEF BackendEnds, CgiInv
<1>5. s \in ScriptRecords /\ s.sent = script[v].sent /\ (good => s.end = "good")
  BY <1>1 DEF ScriptRecords
<1>6. s.sent >= script[v].sent
  BY <1>1, <1>5 DEF ScriptRecords
<1> HIDE DEF s
<1>7. CASE WholeAnswer(v) /\ good
  <2> DEFINE o == LastOutput(t)
             u == [t EXCEPT !.out = o]
  <2>1. transfer' = [transfer EXCEPT ![v] = u] /\ UNCHANGED <<visitor, job>>
    BY <1>7 DEF BackendEnds, Goes
  <2>2. o \in Seq(Messages)
    BY <1>1, LastIs DEF TransferRecords
  <2>3. o = LastOutput(t)
    OBVIOUS
  <2> HIDE DEF o
  <2>4. u \in TransferRecords
    BY <1>1, <2>2 DEF TransferRecords
  <2>5. /\ u.live = t.live /\ u.ask = t.ask /\ u.head = t.head /\ u.seen = t.seen /\ u.tail = t.tail
        /\ u.out = o /\ u.queue = t.queue /\ u.completion = t.completion /\ u.eof = t.eof /\ u.exited = t.exited
    BY <1>1 DEF TransferRecords
  <2> HIDE DEF u
  <2>6. t.head # {} /\ \A due \in DueOf(t) : t.seen = due
    BY <1>7 DEF WholeAnswer, Due, DueOf, AskOf
  <2>7. \A due \in DueOf(u) : u.seen = due
    BY <2>5, <2>6, DueSame
  <2>8. LastOutput(u) = LastOutput(t)
    BY <2>5 DEF LastOutput, KeptByte
  <2>9. /\ u.live /\ u.head # {} /\ u.out = LastOutput(u) /\ ~u.eof /\ s.end = "good"
    BY <1>2, <1>5, <1>7, <2>3, <2>5, <2>6, <2>8
  <2>10. job' = [job EXCEPT ![v] = job[v]]
    BY <2>1, Untouched
  <2>11. (u.exited => s.end = "good") /\ (Process /\ Ending(u.out) => u.exited)
    BY <2>9 DEF BackendEnds
  <2>12. UNCHANGED <<directive, supervisor, poisoned, visitor>>
    BY <1>2, <2>1
  <2> QED
    BY <1>1, <1>2, <1>4, <1>5, <2>1, <2>4, <2>5, <2>7, <2>9, <2>10, <2>11, <2>12, Settles
<1>8. CASE ~(WholeAnswer(v) /\ good)
  <2>1. Ends(v, "failed", t)
    BY <1>8 DEF BackendEnds
  <2>2. "failed" \in {"ok", "failed", "timeout"}
    OBVIOUS
  <2> QED
    BY <1>1, <1>2, <1>3, <1>4, <1>5, <1>6, <2>1, <2>2, EndsOk
<1> QED
  BY <1>7, <1>8

\* The answer of a process is joined with its exit.
LEMMA JoinedIs ==
  ASSUME NEW w \in TransferRecords
  PROVE  LET u == Joined(w)
         IN  /\ u \in TransferRecords /\ u.live = w.live /\ u.ask = w.ask /\ u.head = w.head /\ u.seen = w.seen
             /\ u.tail = w.tail /\ u.queue = w.queue /\ u.completion = w.completion /\ u.eof = w.eof
             /\ u.exited = w.exited
             /\ \/ u.eof /\ u.exited /\ u.out = LastOutput(u)
                \/ ~(u.eof /\ u.exited) /\ u.out = w.out
<1>1. CASE w.eof /\ w.exited
  <2> DEFINE o == LastOutput(w)
             u == [w EXCEPT !.out = o]
  <2>1. o \in Seq(Messages)
    BY LastIs DEF TransferRecords
  <2>2. Joined(w) = u /\ o = LastOutput(w)
    BY <1>1 DEF Joined
  <2> HIDE DEF o
  <2>3. u \in TransferRecords
    BY <2>1 DEF TransferRecords
  <2>4. /\ u.live = w.live /\ u.ask = w.ask /\ u.head = w.head /\ u.seen = w.seen
        /\ u.tail = w.tail /\ u.queue = w.queue /\ u.completion = w.completion /\ u.eof = w.eof
        /\ u.exited = w.exited /\ u.out = o
    BY DEF TransferRecords
  <2> HIDE DEF u
  <2>5. LastOutput(u) = LastOutput(w)
    BY <2>4 DEF LastOutput, KeptByte
  <2> QED
    BY <1>1, <2>2, <2>3, <2>4, <2>5
<1>2. CASE ~(w.eof /\ w.exited)
  <2>1. Joined(w) = w
    BY <1>2 DEF Joined
  <2> QED
    BY <1>2, <2>1
<1> QED
  BY <1>1, <1>2

\* The output of a process ends.
LEMMA CgiStdoutEnds ==
  ASSUME CgiInv, NEW v \in Visits, StdoutEnds(v)
  PROVE  CgiInv'
<1> DEFINE t == transfer[v]
           s == script[v]
<1>1. /\ t \in TransferRecords /\ s \in ScriptRecords /\ job[v] \in JobRecords
      /\ VisitOk(Process, visitor[v], t, s, job[v])
  BY OfVisit
<1>2. /\ t.live /\ t.out = <<>> /\ ~t.eof /\ UNCHANGED <<directive, supervisor, poisoned, script>>
  BY DEF StdoutEnds, Reading
<1>3. CASE WholeAnswer(v)
  <2> DEFINE w == [t EXCEPT !.eof = TRUE]
             u == Joined(w)
  <2>1. transfer' = [transfer EXCEPT ![v] = u] /\ UNCHANGED <<visitor, job>>
    BY <1>3 DEF StdoutEnds, Goes
  <2>2. w \in TransferRecords
    BY <1>1 DEF TransferRecords
  <2>3. /\ w.live = t.live /\ w.ask = t.ask /\ w.head = t.head /\ w.seen = t.seen /\ w.tail = t.tail
        /\ w.out = t.out /\ w.queue = t.queue /\ w.completion = t.completion /\ w.eof /\ w.exited = t.exited
    BY <1>1 DEF TransferRecords
  <2> HIDE DEF w
  <2>4. /\ u \in TransferRecords /\ u.live = t.live /\ u.ask = t.ask /\ u.head = t.head /\ u.seen = t.seen
        /\ u.tail = t.tail /\ u.queue = t.queue /\ u.completion = t.completion /\ u.eof /\ u.exited = t.exited
        /\ \/ u.exited /\ u.out = LastOutput(u)
           \/ ~u.exited /\ u.out = t.out
    BY <2>2, <2>3, JoinedIs
  <2> HIDE DEF u
  <2>5. t.head # {} /\ \A due \in DueOf(t) : t.seen = due
    BY <1>3 DEF WholeAnswer, Due, DueOf, AskOf
  <2>6. u.head # {} /\ \A due \in DueOf(u) : u.seen = due
    BY <2>4, <2>5, DueSame
  <2>7. t.exited => s.end = "good"
    BY <1>1, <1>2 DEF VisitOk, LiveOk
  <2>8. \/ u.out = t.out
        \/ /\ t.out = <<>> /\ u.out = LastOutput(u)
           /\ u.head # {} /\ s.end = "good" /\ \A due \in DueOf(u) : u.seen = due
    BY <1>2, <2>4, <2>6, <2>7
  <2>9. /\ (u.eof /\ ~u.exited => u.out = <<>>) /\ (u.exited => s.end = "good") /\ u.live
        /\ Process /\ Ending(u.out) => u.exited
    BY <1>2, <2>4, <2>7, ShapeNone
  <2>10. job' = [job EXCEPT ![v] = job[v]] /\ script' = [script EXCEPT ![v] = s]
    BY <1>2, <2>1, Untouched
  <2>12. UNCHANGED <<directive, supervisor, poisoned, visitor>>
    BY <1>2, <2>1
  <2> QED
    BY <1>1, <1>2, <2>1, <2>4, <2>6, <2>8, <2>9, <2>10, <2>12, Settles
<1>4. CASE ~WholeAnswer(v)
  <2>1. Ends(v, "failed", t)
    BY <1>4 DEF StdoutEnds
  <2> QED
    BY <1>2, <2>1, Failing
<1> QED
  BY <1>3, <1>4

\* A process exits; a bad status ends the exchange whatever was given.
LEMMA CgiProcessExits ==
  ASSUME CgiInv, NEW v \in Visits, NEW good \in BOOLEAN, ProcessExits(v, good)
  PROVE  CgiInv'
<1> DEFINE x == visitor[v]
           t == transfer[v]
           s == [script[v] EXCEPT !.end = IF good THEN "good" ELSE "bad"]
<1>1. /\ x \in VisitRecords /\ t \in TransferRecords /\ script[v] \in ScriptRecords /\ job[v] \in JobRecords
      /\ VisitOk(Process, x, t, script[v], job[v]) /\ job \in [Visits -> JobRecords]
  BY OfVisit DEF CgiInv
<1>2. /\ t.live /\ Process /\ ~t.exited /\ UNCHANGED <<directive, supervisor, poisoned, visitor>>
  BY DEF ProcessExits
<1>3. job[v].at = "running" /\ LiveOk(x, t, script[v]) /\ ~Ending(t.out)
  BY <1>1, <1>2 DEF VisitOk, JoinOk
<1>4. script' = [script EXCEPT ![v] = s]
  BY DEF ProcessExits, CgiInv
<1>5. s \in ScriptRecords /\ s.sent = script[v].sent /\ (good => s.end = "good")
  BY <1>1 DEF ScriptRecords
<1>6. s.sent >= script[v].sent
  BY <1>1, <1>5 DEF ScriptRecords
<1> HIDE DEF s
<1>7. CASE good
  <2> DEFINE w == [t EXCEPT !.exited = TRUE]
             u == Joined(w)
             j == [job[v] EXCEPT !.process = "gone"]
  <2>1. transfer' = [transfer EXCEPT ![v] = u] /\ job' = [job EXCEPT ![v] = j]
    BY <1>1, <1>7 DEF ProcessExits
  <2>2. j \in JobRecords
    BY <1>1 DEF JobRecords
  <2>3. j.at = job[v].at /\ j.gen = job[v].gen /\ j.permit = job[v].permit /\ j.process = "gone"
    BY <1>1 DEF JobRecords
  <2> HIDE DEF j
  <2>4. w \in TransferRecords
    BY <1>1 DEF TransferRecords
  <2>5. /\ w.live = t.live /\ w.ask = t.ask /\ w.head = t.head /\ w.seen = t.seen /\ w.tail = t.tail
        /\ w.out = t.out /\ w.queue = t.queue /\ w.completion = t.completion /\ w.eof = t.eof /\ w.exited
    BY <1>1 DEF TransferRecords
  <2> HIDE DEF w
  <2>6. /\ u \in TransferRecords /\ u.live = t.live /\ u.ask = t.ask /\ u.head = t.head /\ u.seen = t.seen
        /\ u.tail = t.tail /\ u.queue = t.queue /\ u.completion = t.completion /\ u.eof = t.eof /\ u.exited
        /\ \/ u.eof /\ u.out = LastOutput(u)
           \/ ~u.eof /\ u.out = t.out
    BY <2>4, <2>5, JoinedIs
  <2> HIDE DEF u
  <2>7. t.eof => t.out = <<>> /\ t.head # {} /\ \A due \in DueOf(t) : t.seen = due
    BY <1>2, <1>3 DEF LiveOk
  <2>8. DueOf(u) = DueOf(t)
    BY <2>6, DueSame
  <2>9. u.eof => u.head # {} /\ \A due \in DueOf(u) : u.seen = due
    BY <2>6, <2>7, <2>8
  <2>10. s.end = "good" /\ u.live
    BY <1>2, <1>5, <1>7, <2>6
  <2>11. \/ u.out = t.out
         \/ /\ t.out = <<>> /\ u.out = LastOutput(u)
            /\ u.head # {} /\ s.end = "good" /\ \A due \in DueOf(u) : u.seen = due
    BY <2>6, <2>7, <2>9, <2>10
  <2> QED
    BY <1>1, <1>2, <1>4, <1>5, <2>1, <2>2, <2>3, <2>6, <2>9, <2>10, <2>11, Settles
<1>8. CASE ~good
  <2> DEFINE u == Stopped(t)
             j == [job[v] EXCEPT !.process = "gone", !.at = "cleaning", !.result = "failed"]
  <2>1. transfer' = [transfer EXCEPT ![v] = u] /\ job' = [job EXCEPT ![v] = j]
    BY <1>1, <1>8 DEF ProcessExits
  <2>2. j \in JobRecords
    BY <1>1 DEF JobRecords, JobStages, Results
  <2>3. j.at = "cleaning" /\ j.gen = job[v].gen /\ j.permit = job[v].permit /\ j.process = "gone"
    BY <1>1 DEF JobRecords
  <2> HIDE DEF j
  <2>4. /\ u \in TransferRecords /\ ~u.live /\ u.ask = t.ask /\ u.head = t.head /\ u.queue = t.queue
        /\ u.completion = t.completion
    BY <1>1, StoppedIs
  <2> HIDE DEF u
  <2>5. u.completion # "finished"
    BY <1>3, <2>4 DEF LiveOk
  <2>6. RestOk(x, u, s)
    BY <1>1, <1>3, <1>5, <1>6, <2>4, <2>5, Stops
  <2>7. RestOk(visitor[v], u, s) /\ transfer[v].live /\ u.ask = transfer[v].ask /\ u.head = transfer[v].head
        /\ u.queue = transfer[v].queue /\ j.process # "alive"
    BY <1>2, <2>3, <2>4, <2>6
  <2> HIDE DEF x, t
  <2> QED
    BY <1>2, <1>3, <1>4, <1>5, <2>1, <2>2, <2>3, <2>4, <2>7, Cleans
<1> QED
  BY <1>7, <1>8

\* A message passes from the sink to the channel, or waits for it.
LEMMA CgiEmit ==
  ASSUME CgiInv, NEW v \in Visits, Emit(v)
  PROVE  CgiInv'
<1> DEFINE x == visitor[v]
           t == transfer[v]
           s == script[v]
<1>1. /\ x \in VisitRecords /\ t \in TransferRecords /\ s \in ScriptRecords
      /\ VisitOk(Process, x, t, s, job[v])
  BY OfVisit
<1>2. /\ t.live /\ t.out # <<>> /\ Head(t.out).what # "finish"
      /\ UNCHANGED <<directive, supervisor, poisoned, script>>
  BY DEF Emit
<1>3. LiveOk(x, t, s) /\ t.head # {} /\ ~(t.eof /\ ~t.exited) /\ t.out \in Seq(Messages) /\ ShapeOk(t.out)
  BY <1>1, <1>2 DEF VisitOk, LiveOk, TransferRecords
<1>4. Process /\ Ending(t.out) => t.exited
  BY <1>1, <1>2 DEF VisitOk, JoinOk
<1>5. script' = [script EXCEPT ![v] = s]
  BY <1>2, Untouched
<1>6. (t.head = {} \/ \E h \in t.head : t.head = {h}) /\ Len(t.queue) =< 1
  BY <1>1 DEF VisitOk, ChannelOk
<1>7. CASE t.queue = <<>> /\ Goes(v, [t EXCEPT !.queue = <<Head(t.out)>>, !.out = Tail(@), !.completion = "body"])
  <2> DEFINE m == Head(t.out)
             q == <<m>>
             o == Tail(t.out)
             u == [t EXCEPT !.queue = q, !.out = o, !.completion = "body"]
  <2>1. transfer' = [transfer EXCEPT ![v] = u] /\ UNCHANGED <<visitor, job>>
    BY <1>7 DEF Goes
  <2>2. /\ o \in Seq(Messages) /\ m \in Messages /\ ShapeOk(o) /\ (Ending(o) <=> Ending(t.out))
        /\ Pending(t.out) = m.n + Pending(o) /\ Pending(o) \in Nat
    BY <1>2, <1>3, TakesFirst
  <2>3. q \in Seq(Messages) /\ Len(q) = 1 /\ q[1] = m /\ q # <<>>
    BY <2>2, OneMessage
  <2>4. x.at = "waiting" => q = <<Output("head", 0)>>
    <3>1. x.at = "waiting" => t.out = <<Output("head", 0)>>
      <4>1. <<Output("head", 0)>> # <<>>
        OBVIOUS
      <4> QED
        BY <4>1, <1>2, <1>3, <1>7, WaitingHead
    <3>2. Head(<<Output("head", 0)>>) = Output("head", 0)
      OBVIOUS
    <3> QED
      BY <3>1, <3>2
  <2>5. m.n \in Nat
    BY <2>2 DEF Messages
  <2> HIDE DEF m, q, o
  <2>6. u \in TransferRecords
    BY <1>1, <2>2, <2>3 DEF TransferRecords
  <2>7. /\ u.live = t.live /\ u.ask = t.ask /\ u.head = t.head /\ u.seen = t.seen /\ u.tail = t.tail
        /\ u.out = o /\ u.queue = q /\ u.completion = "body" /\ u.eof = t.eof /\ u.exited = t.exited
    BY <1>1 DEF TransferRecords
  <2> HIDE DEF u, x, t, s
  <2>8. DueOf(u) = DueOf(t)
    BY <2>7, DueSame
  <2>9. x.got + Queued(u.queue) + Pending(u.out) + Withholds(u) = u.seen
    <3>1. Withholds(u) = Withholds(t) /\ Withholds(t) \in Nat
      BY <1>1, <2>2, <2>7 DEF Withholds, TransferRecords
    <3>2. Queued(t.queue) = 0 /\ Queued(u.queue) = m.n
      BY <1>7, <2>3, <2>7 DEF Queued
    <3>3. x.got \in Nat
      BY <1>1 DEF VisitRecords
    <3>4. x.got + Queued(t.queue) + Pending(t.out) + Withholds(t) = t.seen
      BY <1>3 DEF LiveOk
    <3>5. \A a, b, c, d \in Nat : a + 0 + (b + c) + d = a + b + c + d
      OBVIOUS
    <3> QED
      BY <3>1, <3>2, <3>3, <3>4, <3>5, <2>2, <2>5, <2>7
  <2>10. LiveOk(x, u, s)
    BY <1>3, <2>2, <2>7, <2>8, <2>9 DEF LiveOk
  <2>11. /\ transfer[v].live /\ u.live /\ u.ask = transfer[v].ask /\ u.head = transfer[v].head
         /\ LiveOk(visitor[v], u, s) /\ (u.head = {} \/ \E h \in u.head : u.head = {h})
         /\ visitor[v].at = "waiting" => u.queue = <<Output("head", 0)>>
    BY <1>2, <1>6, <2>4, <2>7, <2>10 DEF x, t
  <2>12. Len(u.queue) =< 1 /\ (Process /\ Ending(u.out) => u.exited) /\ u.queue # <<>>
    <3>1. Len(u.queue) = 1 /\ u.queue # <<>>
      BY <2>3, <2>7
    <3>2. Process /\ Ending(u.out) => u.exited
      BY <1>4, <2>2, <2>7, Zenon
    <3> QED
      BY <3>1, <3>2
  <2>13. UNCHANGED <<directive, supervisor, poisoned, visitor, job>>
    BY <1>2, <2>1
  <2> QED
    BY <1>1, <1>5, <2>1, <2>6, <2>11, <2>12, <2>13, GoesAlone
<1>8. CASE t.queue # <<>> /\ Goes(v, [t EXCEPT !.completion = "poisoned"])
  <2> DEFINE u == [t EXCEPT !.completion = "poisoned"]
  <2>1. transfer' = [transfer EXCEPT ![v] = u] /\ UNCHANGED <<visitor, job>>
    BY <1>8 DEF Goes
  <2>2. u \in TransferRecords
    BY <1>1 DEF TransferRecords
  <2>3. /\ u.live = t.live /\ u.ask = t.ask /\ u.head = t.head /\ u.seen = t.seen /\ u.tail = t.tail
        /\ u.out = t.out /\ u.queue = t.queue /\ u.completion = "poisoned" /\ u.eof = t.eof /\ u.exited = t.exited
    BY <1>1 DEF TransferRecords
  <2>4. visitor[v].at = "waiting" => u.queue = <<Output("head", 0)>>
    BY <1>2, <1>3, <1>8, <2>3, WaitingHead
  <2> HIDE DEF u
  <2>5. DueOf(u) = DueOf(t) /\ Withholds(u) = Withholds(t)
    BY <2>3, DueSame DEF Withholds
  <2>6. LiveOk(x, u, s)
    BY <1>3, <2>3, <2>5 DEF LiveOk
  <2>7. UNCHANGED <<directive, supervisor, poisoned, visitor, job>> /\ u.queue # <<>>
    BY <1>2, <1>8, <2>1, <2>3
  <2>8. /\ transfer[v].live /\ u.live /\ u.ask = transfer[v].ask /\ u.head = transfer[v].head
        /\ LiveOk(visitor[v], u, s) /\ (u.head = {} \/ \E h \in u.head : u.head = {h})
        /\ Len(u.queue) =< 1 /\ (Process /\ Ending(u.out) => u.exited)
    BY <1>2, <1>4, <1>6, <2>3, <2>6
  <2> QED
    BY <1>1, <1>5, <2>1, <2>2, <2>4, <2>7, <2>8, GoesAlone
<1> QED
  BY <1>7, <1>8 DEF Emit

\* The sink is told that the answer is over, and believes it when nothing it
\* was given is still with it.
LEMMA CgiFinish ==
  ASSUME CgiInv, NEW v \in Visits, Finish(v)
  PROVE  CgiInv'
<1> DEFINE t == transfer[v]
           o == <<Output("finish", 0)>>
           w == [t EXCEPT !.out = <<>>, !.completion = IF t.completion = "body" THEN "finished" ELSE "poisoned"]
           outcome == IF t.completion = "body" THEN "ok" ELSE "failed"
<1>1. t \in TransferRecords /\ script[v] \in ScriptRecords
  BY OfVisit
<1>2. t.live /\ t.out = o /\ Ends(v, outcome, w) /\ UNCHANGED <<directive, supervisor, poisoned, script>>
  BY DEF Finish
<1>3. w \in TransferRecords
  BY <1>1, ShapeNone DEF TransferRecords
<1>4. w.ask = t.ask /\ w.head = t.head /\ w.queue = t.queue
      /\ w.completion = (IF t.completion = "body" THEN "finished" ELSE "poisoned")
  BY <1>1 DEF TransferRecords
<1>5. Output("finish", 0) \in Messages /\ Output("finish", 0).what = "finish" /\ Output("finish", 0).n = 0
  BY OutputIs
<1>6. o \in Seq(Messages) /\ Len(o) = 1 /\ o[1] = Output("finish", 0)
  BY <1>5, OneMessage
<1>7. Ending(o)
  BY <1>5, <1>6, ShapeOne
<1>8. outcome \in {"ok", "failed", "timeout"} /\ (outcome = "ok" => w.completion = "finished")
  BY <1>4
<1>9. script' = [script EXCEPT ![v] = script[v]] /\ script[v].sent >= script[v].sent
  BY <1>1, <1>2, Untouched DEF ScriptRecords
<1> HIDE DEF o, w, outcome
<1>10. Len(t.out) = 1 /\ Ending(t.out)
  BY <1>2, <1>6, <1>7
<1> QED
  BY <1>1, <1>2, <1>3, <1>4, <1>8, <1>9, <1>10, EndsOk

\* An exchange that begins has carried nothing.
LEMMA StartsLive ==
  ASSUME NEW x, NEW t, NEW s, FreshOk(x, t, s),
         NEW u, u.head = t.head, u.seen = t.seen, u.tail = t.tail, u.out = t.out, u.queue = t.queue,
         u.completion = t.completion, u.eof = t.eof, u.exited = t.exited
  PROVE  LiveOk(x, u, s)
<1>1. /\ u.head = {} /\ u.seen = 0 /\ u.tail = 0 /\ u.out = <<>> /\ u.queue = <<>> /\ u.completion = "head"
      /\ ~u.eof /\ ~u.exited /\ x.got = 0 /\ s.sent = 0
  BY DEF FreshOk, NoScript
<1>2. x.got + Queued(u.queue) + Pending(u.out) + Withholds(u) = u.seen
  BY <1>1, ShapeNone DEF Queued, Withholds
<1> QED
  BY <1>1, <1>2, ShapeNone DEF LiveOk

-----------------------------------------------------------------------------
(* What the terminal polls ends without an answer.                         *)

\* It gives back a permit it has not given to a job, and leaves a job alone.
LEMMA Concludes ==
  ASSUME CgiInv, NEW v \in Visits, visitor[v].running \notin {"none", "done"}, NEW r \in Results, r # "ok",
         transfer[v].live => Process, visitor' = [visitor EXCEPT ![v] = Finished(visitor[v], r)],
         NEW k \in JobRecords, job' = [job EXCEPT ![v] = k], k.at = job[v].at, k.process = job[v].process,
         k.at # "none" => k.gen = job[v].gen, k.permit <=> k.at \in {"queued", "running", "cleaning"},
         UNCHANGED <<directive, supervisor, poisoned, transfer, script>>
  PROVE  CgiInv'
<1> DEFINE x == visitor[v]
           t == transfer[v]
           s == script[v]
           j == job[v]
           y == Finished(x, r)
<1>1. /\ x \in VisitRecords /\ t \in TransferRecords /\ s \in ScriptRecords /\ j \in JobRecords
      /\ VisitOk(Process, x, t, s, j) /\ Process \in BOOLEAN
  BY OfVisit DEF Process
<1>2. y \in VisitRecords /\ y.running = "done" /\ y.at = x.at
  BY <1>1, FinishedIs
<1>3. JobOk(Process, x, j) /\ x.at \notin {"idle", "buffering"}
  BY <1>1 DEF VisitOk, PhaseOk
<1>4. JobOk(Process, y, k)
  <2> HIDE DEF y, x, j
  <2>1. k.at = j.at /\ k.process = j.process
    BY DEF j
  <2> QED
    BY <1>2, <1>3, <2>1 DEF JobOk
<1>5. t.live => k.at = "running" /\ k.process # "none"
  BY <1>1 DEF VisitOk, JoinOk
<1>6. k.at \in {"queued", "running"} => k.at = j.at /\ k.process = j.process
  OBVIOUS
<1>7. VisitOk(Process, y, t, s, k)
  <2>1. x.running \notin {"none", "done"} /\ (t.live => Process) /\ r # "ok"
    OBVIOUS
  <2> HIDE DEF x, t, s, j
  <2> QED
    BY <1>1, <1>4, <1>5, <1>6, <2>1, FinishedOk
<1>8. KeepsPlace(job[v], k)
  BY DEF KeepsPlace
<1>9. KeepsShare(job[v], k)
  BY <1>3 DEF KeepsShare, JobOk
<1>10. transfer' = [transfer EXCEPT ![v] = t] /\ script' = [script EXCEPT ![v] = s]
  BY Untouched
<1> QED
  BY <1>1, <1>2, <1>7, <1>8, <1>9, <1>10, OneVisit

\* The same, when there is no permit to give back.
LEMMA ConcludesAlone ==
  ASSUME CgiInv, NEW v \in Visits, visitor[v].running \in {"dialing", "checking", "acquiring"},
         NEW r \in Results, r # "ok", visitor' = [visitor EXCEPT ![v] = Finished(visitor[v], r)],
         UNCHANGED <<directive, supervisor, poisoned, transfer, script, job>>
  PROVE  CgiInv'
<1>1. VisitOk(Process, visitor[v], transfer[v], script[v], job[v]) /\ job[v] \in JobRecords
  BY OfVisit
<1>2. ~transfer[v].live
  BY <1>1 DEF VisitOk, JoinOk, FreshOk
<1>3. job[v].permit <=> job[v].at \in {"queued", "running", "cleaning"}
  BY <1>1 DEF VisitOk, JobOk
<1>4. job' = [job EXCEPT ![v] = job[v]]
  BY Untouched
<1>5. visitor[v].running \notin {"none", "done"}
  OBVIOUS
<1> QED
  BY <1>1, <1>2, <1>3, <1>4, <1>5, Concludes

\* The backend is dialled.
LEMMA CgiDial ==
  ASSUME CgiInv, NEW v \in Visits, NEW outcome \in {"ok", "timeout", "failed"}, Dial(v, outcome)
  PROVE  CgiInv'
<1>1. CASE outcome # "ok"
  <2>1. /\ visitor[v].running = "dialing" /\ visitor' = [visitor EXCEPT ![v] = Finished(visitor[v], outcome)]
        /\ UNCHANGED <<directive, supervisor, poisoned, transfer, script, job>>
    BY <1>1 DEF Dial
  <2>2. outcome \in Results
    BY DEF Results
  <2> QED
    BY <1>1, <2>1, <2>2, ConcludesAlone
<1>2. CASE outcome = "ok"
  <2> DEFINE x == visitor[v]
             t == transfer[v]
             s == script[v]
             j == job[v]
             y == [x EXCEPT !.running = "exchanging"]
             u == [t EXCEPT !.live = TRUE]
  <2>1. /\ x \in VisitRecords /\ t \in TransferRecords /\ s \in ScriptRecords /\ j \in JobRecords
        /\ VisitOk(Process, x, t, s, j)
    BY OfVisit
  <2>2. /\ x.running = "dialing" /\ visitor' = [visitor EXCEPT ![v] = y] /\ transfer' = [transfer EXCEPT ![v] = u]
        /\ UNCHANGED <<directive, supervisor, poisoned, script, job>>
    BY <1>2 DEF Dial, CgiInv
  <2>3. y \in VisitRecords
    BY <2>1 DEF VisitRecords, Runs
  <2>4. /\ y.at = x.at /\ y.gen = x.gen /\ y.slot = x.slot /\ y.running = "exchanging" /\ y.result = x.result
        /\ y.got = x.got /\ y.shown = x.shown
    BY <2>1 DEF VisitRecords
  <2>5. u \in TransferRecords
    BY <2>1 DEF TransferRecords
  <2>6. /\ u.live /\ u.ask = t.ask /\ u.head = t.head /\ u.seen = t.seen /\ u.tail = t.tail /\ u.out = t.out
        /\ u.queue = t.queue /\ u.completion = t.completion /\ u.eof = t.eof /\ u.exited = t.exited
    BY <2>1 DEF TransferRecords
  <2>7. /\ script' = [script EXCEPT ![v] = s] /\ job' = [job EXCEPT ![v] = j]
        /\ KeepsPlace(job[v], j) /\ KeepsShare(job[v], j)
    BY <2>2, Untouched
  <2> HIDE DEF x, t, s, j, y, u
  <2>8. FreshOk(x, t, s) /\ ~Process
    BY <2>1, <2>2 DEF VisitOk, JoinOk, PhaseOk
  <2>9. Waits(x)
    BY <2>1, <2>2, RunningWaits DEF VisitOk
  <2>10. PhaseOk(Process, y)
    BY <2>1, <2>2, <2>4, <2>8, <2>9 DEF VisitOk, PhaseOk, Waits
  <2>11. ChannelOk(y, u, s)
    <3>1. u.head = {} /\ u.queue = <<>> /\ y.got = 0 /\ Len(u.queue) =< 1
      BY <2>4, <2>6, <2>8 DEF FreshOk
    <3>2. y.at = "waiting" /\ y.shown # "complete" /\ y.result # "ok"
      BY <2>1, <2>2, <2>4, <2>8, <2>9 DEF VisitOk, ChannelOk, FreshOk, PhaseOk, Waits
    <3> QED
      BY <3>1, <3>2 DEF ChannelOk
  <2>12. JoinOk(Process, y, u, s, j)
    <3>1. j.at = "none" /\ y.at \notin {"idle", "buffering"} /\ Waits(y)
      BY <2>1, <2>4, <2>8, <2>9 DEF VisitOk, JobOk, Waits
    <3> QED
      BY <3>1, <2>4, <2>8 DEF JoinOk
  <2>13. JobOk(Process, y, j)
    BY <2>1, <2>2, <2>4 DEF VisitOk, JobOk
  <2>14. LiveOk(y, u, s)
    <3>1. FreshOk(y, t, s)
      BY <2>4, <2>8 DEF FreshOk
    <3> QED
      BY <3>1, <2>6, StartsLive
  <2>15. VisitOk(Process, y, u, s, j)
    BY <2>6, <2>10, <2>11, <2>12, <2>13, <2>14 DEF VisitOk
  <2> QED
    BY <2>1, <2>2, <2>3, <2>5, <2>7, <2>15, OneVisit
<1> QED
  BY <1>1, <1>2

-----------------------------------------------------------------------------
(* The client of the supervisor.                                           *)

\* What the client does before its job has a process changes no answer.
LEMMA FreshMoves ==
  ASSUME NEW p \in BOOLEAN, NEW x, NEW t, NEW s, NEW j, VisitOk(p, x, t, s, j),
         x.running \in {"checking", "acquiring", "queueing"},
         NEW y, y.running \in {"acquiring", "queueing", "awaiting"}, y.at = x.at, y.slot = x.slot,
         y.result = x.result, y.got = x.got, y.shown = x.shown, NEW k, JobOk(p, y, k)
  PROVE  VisitOk(p, y, t, s, k)
<1>1. PhaseOk(p, y)
  BY DEF VisitOk, PhaseOk, Waits
<1>2. ChannelOk(y, t, s)
  BY DEF VisitOk, ChannelOk
<1>3. FreshOk(x, t, s)
  BY DEF VisitOk, JoinOk
<1>4. FreshOk(y, t, s) /\ ~t.live
  BY <1>3 DEF FreshOk
<1>5. JoinOk(p, y, t, s, k)
  BY <1>4 DEF JoinOk
<1>6. RestOk(y, t, s)
  BY <1>4 DEF VisitOk, RestOk, WholeGiven, CutShort
<1> QED
  BY <1>1, <1>2, <1>4, <1>5, <1>6 DEF VisitOk

\* The client looks whether its supervisor is closed.
LEMMA CgiCheckClosed ==
  ASSUME CgiInv, NEW v \in Visits, CheckClosed(v)
  PROVE  CgiInv'
<1>1. CASE Closed(visitor[v].gen)
  <2>1. /\ visitor[v].running = "checking" /\ visitor' = [visitor EXCEPT ![v] = Finished(visitor[v], "unavailable")]
        /\ UNCHANGED <<directive, supervisor, poisoned, transfer, script, job>>
    BY <1>1 DEF CheckClosed
  <2>2. "unavailable" \in Results
    BY DEF Results
  <2> QED
    BY <2>1, <2>2, ConcludesAlone
<1>2. CASE ~Closed(visitor[v].gen)
  <2> DEFINE x == visitor[v]
             t == transfer[v]
             s == script[v]
             j == job[v]
             y == [x EXCEPT !.running = "acquiring"]
  <2>1. /\ x \in VisitRecords /\ t \in TransferRecords /\ s \in ScriptRecords /\ j \in JobRecords
        /\ VisitOk(Process, x, t, s, j)
    BY OfVisit
  <2>2. /\ x.running = "checking" /\ visitor' = [visitor EXCEPT ![v] = y]
        /\ UNCHANGED <<directive, supervisor, poisoned, transfer, script, job>>
    BY <1>2 DEF CheckClosed
  <2>3. y \in VisitRecords
    BY <2>1 DEF VisitRecords, Runs
  <2>4. /\ y.at = x.at /\ y.gen = x.gen /\ y.slot = x.slot /\ y.running = "acquiring" /\ y.result = x.result
        /\ y.got = x.got /\ y.shown = x.shown
    BY <2>1 DEF VisitRecords
  <2>5. /\ transfer' = [transfer EXCEPT ![v] = t] /\ script' = [script EXCEPT ![v] = s] /\ job' = [job EXCEPT ![v] = j]
        /\ KeepsPlace(job[v], j) /\ KeepsShare(job[v], j)
    BY <2>2, Untouched
  <2> HIDE DEF x, t, s, j, y
  <2>6. JobOk(Process, y, j)
    BY <2>1, <2>2, <2>4 DEF VisitOk, JobOk
  <2>7. VisitOk(Process, y, t, s, j)
    <3>1. Process \in BOOLEAN
      BY DEF Process
    <3> QED
      BY <2>1, <2>2, <2>4, <2>6, <3>1, FreshMoves
  <2> QED
    BY <2>1, <2>2, <2>3, <2>5, <2>7, OneVisit
<1> QED
  BY <1>1, <1>2

\* An exchange that is dropped leaves an answer that is whole or visibly cut
\* short.
LEMMA StoppedRest ==
  ASSUME NEW p, NEW x \in VisitRecords, NEW t \in TransferRecords, NEW s \in ScriptRecords, NEW j,
         VisitOk(p, x, t, s, j)
  PROVE  RestOk(x, Stopped(t), s)
<1> DEFINE u == Stopped(t)
<1>1. /\ u \in TransferRecords /\ ~u.live /\ u.ask = t.ask /\ u.head = t.head /\ u.queue = t.queue
      /\ u.completion = t.completion
  BY StoppedIs
<1> HIDE DEF u
<1>2. CASE t.live
  <2>1. LiveOk(x, t, s)
    BY <1>2 DEF VisitOk
  <2>2. u.completion # "finished"
    BY <1>1, <2>1 DEF LiveOk
  <2>3. s.sent >= s.sent
    BY DEF ScriptRecords
  <2>4. RestOk(x, u, s)
    BY <1>1, <2>1, <2>2, <2>3, Stops
  <2> QED
    BY <2>4 DEF u
<1>3. CASE ~t.live
  <2>1. RestOk(x, t, s)
    BY <1>3 DEF VisitOk
  <2>2. RestOk(x, u, s)
    BY <1>1, <2>1, RestSame
  <2> QED
    BY <2>2 DEF u
<1> QED
  BY <1>2, <1>3

\* The deadline takes away what the terminal polls; a job stays.
LEMMA CgiDeadline ==
  ASSUME CgiInv, NEW v \in Visits, Deadline(v)
  PROVE  CgiInv'
<1> DEFINE x == visitor[v]
           t == transfer[v]
           s == script[v]
           j == job[v]
           k == [j EXCEPT !.permit = @ /\ x.running # "queueing"]
<1>1. /\ x \in VisitRecords /\ t \in TransferRecords /\ s \in ScriptRecords /\ j \in JobRecords
      /\ VisitOk(Process, x, t, s, j) /\ Process \in BOOLEAN /\ transfer \in [Visits -> TransferRecords]
  BY OfVisit DEF Process, CgiInv
<1>2. /\ x.running \notin {"none", "done"} /\ visitor' = [visitor EXCEPT ![v] = Finished(x, "timeout")]
      /\ transfer' = [transfer EXCEPT ![v] = IF Process THEN t ELSE Stopped(t)]
      /\ job' = [job EXCEPT ![v] = k] /\ UNCHANGED <<directive, supervisor, poisoned, script>>
  BY DEF Deadline, CgiInv
<1>3. k \in JobRecords
  BY <1>1 DEF JobRecords
<1>4. k.at = j.at /\ k.gen = j.gen /\ k.process = j.process /\ (k.permit <=> j.permit /\ x.running # "queueing")
  BY <1>1 DEF JobRecords
<1>5. "timeout" \in Results
  BY DEF Results
<1> HIDE DEF k
<1>6. k.permit <=> k.at \in {"queued", "running", "cleaning"}
  BY <1>1, <1>4 DEF VisitOk, JobOk
<1>7. CASE Process
  <2>1. transfer' = transfer
    BY <1>1, <1>2, <1>7, Untouched
  <2>2. UNCHANGED <<directive, supervisor, poisoned, transfer, script>>
    BY <1>2, <2>1
  <2> QED
    BY <1>2, <1>3, <1>4, <1>5, <1>6, <1>7, <2>2, Concludes
<1>8. CASE ~Process
  <2> DEFINE u == Stopped(t)
             y == Finished(x, "timeout")
  <2>1. /\ u \in TransferRecords /\ ~u.live /\ u.ask = t.ask /\ u.head = t.head /\ u.queue = t.queue
        /\ u.completion = t.completion
    BY <1>1, StoppedIs
  <2>2. transfer' = [transfer EXCEPT ![v] = u] /\ script' = [script EXCEPT ![v] = s]
    BY <1>2, <1>8, Untouched
  <2>3. RestOk(x, u, s)
    BY <1>1, StoppedRest
  <2> HIDE DEF u
  <2>4. y \in VisitRecords /\ y.running = "done" /\ y.at = x.at
    BY <1>1, <1>5, FinishedIs
  <2>5. j.at = "none" /\ j.process # "gone" /\ x.at \notin {"idle", "buffering"}
    BY <1>1, <1>2, <1>8 DEF VisitOk, JobOk, PhaseOk
  <2>6. JobOk(Process, y, k)
    <3> HIDE DEF y
    <3> QED
      BY <1>4, <1>6, <1>8, <2>4, <2>5 DEF JobOk
  <2>7. VisitOk(Process, y, u, s, k)
    <3>1. k.at \notin {"queued", "running"}
      BY <1>4, <2>5
    <3> HIDE DEF x, t, s, j
    <3> QED
      BY <1>1, <1>2, <1>3, <1>5, <1>8, <2>1, <2>3, <2>6, <3>1, FinishedOk
  <2>8. KeepsPlace(job[v], k) /\ KeepsShare(job[v], k)
    <3>1. ~j.permit \/ x.running = "queueing"
      BY <1>4, <1>6, <2>5
    <3>2. x.running = "queueing" => Process
      BY <1>1 DEF VisitOk, PhaseOk
    <3> QED
      BY <1>4, <1>8, <3>1, <3>2 DEF KeepsPlace, KeepsShare
  <2> HIDE DEF y, x, t, s
  <2>9. visitor' = [visitor EXCEPT ![v] = y]
    BY <1>2 DEF y
  <2> QED
    BY <1>1, <1>2, <1>3, <2>1, <2>2, <2>4, <2>7, <2>8, <2>9, OneVisit
<1> QED
  BY <1>7, <1>8

\* A client takes a permit of a pool that is intact only if one is free.
LEMMA CgiAcquirePermit ==
  ASSUME CgiInv, NEW v \in Visits, AcquirePermit(v)
  PROVE  CgiInv'
<1>1. CASE poisoned \/ ~PermitFree
  <2>1. /\ visitor[v].running = "acquiring" /\ visitor' = [visitor EXCEPT ![v] = Finished(visitor[v], "unavailable")]
        /\ UNCHANGED <<directive, supervisor, poisoned, transfer, script, job>>
    BY <1>1 DEF AcquirePermit
  <2>2. "unavailable" \in Results
    BY DEF Results
  <2> QED
    BY <2>1, <2>2, ConcludesAlone
<1>2. CASE ~poisoned /\ PermitFree
  <2> DEFINE x == visitor[v]
             j == job[v]
             g == x.gen
             y == [x EXCEPT !.running = "queueing"]
             k == [j EXCEPT !.permit = TRUE, !.gen = g]
  <2>1. /\ x \in VisitRecords /\ transfer[v] \in TransferRecords /\ script[v] \in ScriptRecords /\ j \in JobRecords
        /\ VisitOk(Process, x, transfer[v], script[v], j) /\ job \in [Visits -> JobRecords] /\ Process \in BOOLEAN
    BY OfVisit DEF CgiInv, Process
  <2>2. /\ x.running = "acquiring" /\ visitor' = [visitor EXCEPT ![v] = y] /\ job' = [job EXCEPT ![v] = k]
        /\ UNCHANGED <<directive, supervisor, poisoned, transfer, script>>
    BY <1>2 DEF AcquirePermit, CgiInv
  <2>3. y \in VisitRecords /\ g \in Generations
    BY <2>1 DEF VisitRecords, Runs
  <2>4. /\ y.at = x.at /\ y.gen = g /\ y.slot = x.slot /\ y.running = "queueing" /\ y.result = x.result
        /\ y.got = x.got /\ y.shown = x.shown
    BY <2>1 DEF VisitRecords
  <2> HIDE DEF g, y
  <2>5. k \in JobRecords
    BY <2>1, <2>3 DEF JobRecords
  <2>6. k.at = j.at /\ k.gen = g /\ k.process = j.process /\ k.permit
    BY <2>1 DEF JobRecords
  <2> HIDE DEF k
  <2>7. j.at = "none" /\ j.process = "none" /\ ~j.permit
    BY <2>1, <2>2 DEF VisitOk, JobOk
  <2>8. Process
    BY <2>1, <2>2 DEF VisitOk, PhaseOk
  <2>9. JobOk(Process, y, k)
    BY <2>4, <2>6, <2>7, <2>8 DEF JobOk
  <2>10. VisitOk(Process, y, transfer[v], script[v], k)
    BY <2>1, <2>2, <2>4, <2>9, FreshMoves
  <2>11. LinesOk(supervisor', job')
    <3>1. KeepsPlace(job[v], k)
      BY <2>6, <2>7 DEF KeepsPlace
    <3> QED
      BY <2>2, <2>5, <3>1, LinesKept
  <2>12. ProcessesOk(directive, ~poisoned', job')
    <3> DEFINE Held == {w \in Visits : job[w].permit}
    <3>1. Counted(job) = Held
      BY <1>2 DEF CgiInv, ProcessesOk, Counted
    <3>2. Cardinality(Held) < directive.concurrency
      BY <1>2 DEF PermitFree
    <3>3. Counted(job') = Counted(job) \cup {v}
      <4>1. ASSUME NEW w \in Visits PROVE w \in Counted(job') <=> w \in Counted(job) \/ w = v
        <5>1. CASE w = v
          BY <2>1, <2>2, <2>6, <5>1 DEF Counted
        <5>2. CASE w # v
          BY <2>1, <2>2, <5>2 DEF Counted
        <5> QED  BY <5>1, <5>2
      <4> QED
        BY <4>1 DEF Counted
    <3>4. /\ IsFiniteSet(Counted(job)) /\ Cardinality(Counted(job)) \in Nat /\ directive.concurrency \in Nat
      BY CountedFinite, ConcurrencyNat DEF CgiInv
    <3>5. v \notin Counted(job)
      BY <2>7 DEF Counted
    <3>6. Cardinality(Counted(job')) = Cardinality(Counted(job)) + 1
      BY <3>3, <3>4, <3>5, FS_AddElement
    <3>7. Cardinality(Counted(job')) =< directive.concurrency
      BY <3>1, <3>2, <3>4, <3>6
    <3>8. ASSUME NEW w \in Visits, job'[w].process = "alive" PROVE job'[w].permit
      <4>1. CASE w = v
        BY <2>1, <2>2, <2>6, <4>1
      <4>2. CASE w # v
        BY <1>2, <2>1, <2>2, <3>8, <4>2 DEF CgiInv, ProcessesOk
      <4> QED  BY <4>1, <4>2
    <3> QED
      BY <3>7, <3>8 DEF ProcessesOk
  <2>13. /\ transfer' = [transfer EXCEPT ![v] = transfer[v]] /\ script' = [script EXCEPT ![v] = script[v]]
    BY <2>2, Untouched
  <2>14. poisoned' \in BOOLEAN /\ directive' = directive
    BY <2>2 DEF CgiInv
  <2> QED
    BY <2>1, <2>2, <2>3, <2>5, <2>10, <2>11, <2>12, <2>13, <2>14, VisitsStep
<1> QED
  BY <1>1, <1>2

\* A job that takes its place at the end of a line.
LEMMA JoinsLine ==
  ASSUME NEW sup, NEW jobs \in [Visits -> JobRecords], LinesOk(sup, jobs), NEW v \in Visits, jobs[v].at = "none",
         NEW g \in Generations, sup[g].stage \notin {"stopping", "ended"},
         NEW j \in JobRecords, j.at = "queued", j.gen = g
  PROVE  LinesOk([sup EXCEPT ![g].line = Append(@, v)], [jobs EXCEPT ![v] = j])
<1> DEFINE line == Append(sup[g].line, v)
           after == [sup EXCEPT ![g].line = line]
           k == [jobs EXCEPT ![v] = j]
<1>1. sup \in [Generations -> [stage : Stages, line : Seq(Visits)]]
  BY DEF LinesOk
<1>2. /\ line \in Seq(Visits) /\ Len(line) = Len(sup[g].line) + 1 /\ Len(sup[g].line) \in Nat
      /\ \A i \in 1..Len(sup[g].line) : line[i] = sup[g].line[i]
      /\ line[Len(sup[g].line) + 1] = v /\ DOMAIN line = 1..(Len(sup[g].line) + 1)
      /\ DOMAIN sup[g].line = 1..Len(sup[g].line)
  BY <1>1
<1>3. \A w : w \in Range(line) <=> w \in Range(sup[g].line) \/ w = v
  BY <1>2 DEF Range
<1>4. v \notin Range(sup[g].line)
  BY DEF LinesOk
<1>5. \A i, n \in DOMAIN line : line[i] = line[n] => i = n
  <2>1. \A i, n \in DOMAIN sup[g].line : sup[g].line[i] = sup[g].line[n] => i = n
    BY DEF LinesOk
  <2>2. \A i \in DOMAIN sup[g].line : sup[g].line[i] # v
    BY <1>4 DEF Range
  <2>3. PICK l \in Nat : l = Len(sup[g].line)
    BY <1>2
  <2> HIDE DEF line
  <2>4. \A i \in DOMAIN line : i \in 1..l \/ i = l + 1
    BY <1>2, <2>3
  <2>5. \A i \in 1..l : i \in DOMAIN sup[g].line /\ line[i] = sup[g].line[i]
    BY <1>2, <2>3
  <2>6. line[l + 1] = v
    BY <1>2, <2>3
  <2>7. ASSUME NEW i \in DOMAIN line, NEW n \in DOMAIN line, line[i] = line[n] PROVE i = n
    <3>1. CASE i \in 1..l /\ n \in 1..l
      BY <2>1, <2>5, <2>7, <3>1
    <3>2. CASE i = l + 1 /\ n \in 1..l
      BY <2>2, <2>5, <2>6, <2>7, <3>2
    <3>3. CASE i \in 1..l /\ n = l + 1
      BY <2>2, <2>5, <2>6, <2>7, <3>3
    <3> QED
      BY <2>4, <3>1, <3>2, <3>3
  <2> QED
    BY <2>7
<1> HIDE DEF line
<1>6. /\ after \in [Generations -> [stage : Stages, line : Seq(Visits)]]
      /\ \A h \in Generations : after[h].stage = sup[h].stage /\ (h # g => after[h].line = sup[h].line)
      /\ after[g].line = line
  BY <1>1, <1>2
<1>7. k[v] = j /\ \A w \in Visits : w # v => k[w] = jobs[w]
  OBVIOUS
<1> HIDE DEF after, k
<1>8. ASSUME NEW h \in Generations
      PROVE  /\ \A i, n \in DOMAIN after[h].line : after[h].line[i] = after[h].line[n] => i = n
             /\ after[h].stage \in {"stopping", "ended"} => after[h].line = <<>>
  <2>1. CASE h = g
    BY <1>5, <1>6, <2>1
  <2>2. CASE h # g
    BY <1>6, <2>2 DEF LinesOk
  <2> QED  BY <2>1, <2>2
<1>9. ASSUME NEW h \in Generations, NEW w \in Visits
      PROVE  w \in Range(after[h].line) <=> k[w].at = "queued" /\ k[w].gen = h
  <2>1. w \in Range(sup[h].line) <=> jobs[w].at = "queued" /\ jobs[w].gen = h
    BY DEF LinesOk
  <2>2. CASE w = v
    <3>1. w \in Range(after[h].line) <=> h = g
      BY <1>3, <1>6, <2>1, <2>2
    <3> QED
      BY <1>7, <2>2, <3>1
  <2>3. CASE w # v
    <3>1. w \in Range(after[h].line) <=> w \in Range(sup[h].line)
      BY <1>3, <1>6, <2>3
    <3> QED
      BY <1>7, <2>1, <2>3, <3>1
  <2> QED  BY <2>2, <2>3
<1>10. ASSUME NEW w \in Visits, k[w].at \in {"running", "cleaning", "finished"}
       PROVE  after[k[w].gen].stage \in {"running", "fenced", "stopping"}
  <2>1. w # v
    BY <1>7, <1>10
  <2>2. k[w] = jobs[w] /\ jobs[w].gen \in Generations
    BY <1>7, <2>1 DEF JobRecords
  <2> QED
    BY <1>6, <1>10, <2>2 DEF LinesOk
<1>11. LinesOk(after, k)
  BY <1>6, <1>8, <1>9, <1>10 DEF LinesOk
<1> QED
  BY <1>11 DEF after, k, line

\* The client queues its job, or finds the channel closed or full.
LEMMA CgiEnqueue ==
  ASSUME CgiInv, NEW v \in Visits, Enqueue(v)
  PROVE  CgiInv'
<1> DEFINE x == visitor[v]
           j == job[v]
           g == x.gen
<1>1. /\ x \in VisitRecords /\ transfer[v] \in TransferRecords /\ script[v] \in ScriptRecords /\ j \in JobRecords
      /\ VisitOk(Process, x, transfer[v], script[v], j) /\ job \in [Visits -> JobRecords] /\ Process \in BOOLEAN
  BY OfVisit DEF CgiInv, Process
<1>2. x.running = "queueing" /\ UNCHANGED <<directive, poisoned, transfer, script>>
  BY DEF Enqueue
<1>3. Process /\ j.at = "none" /\ j.process = "none" /\ j.permit /\ j.gen = g /\ g \in Generations
  BY <1>1, <1>2 DEF VisitOk, PhaseOk, JobOk, VisitRecords
<1>4. CASE Deaf(g) \/ Len(supervisor[g].line) = directive.concurrency
  <2>1. /\ visitor' = [visitor EXCEPT ![v] = Finished(visitor[v], "unavailable")]
        /\ job' = [job EXCEPT ![v] = NoJob] /\ supervisor' = supervisor
    BY <1>4 DEF Enqueue
  <2>2. NoJob \in JobRecords /\ NoJob.at = "none" /\ NoJob.process = "none" /\ ~NoJob.permit
    BY NoRecords DEF NoJob
  <2>3. "unavailable" \in Results
    BY DEF Results
  <2>4. UNCHANGED <<directive, supervisor, poisoned, transfer, script>>
    BY <1>2, <2>1
  <2>5. visitor[v].running \notin {"none", "done"} /\ (transfer[v].live => Process)
        /\ NoJob.at = job[v].at /\ NoJob.process = job[v].process
    BY <1>2, <1>3, <2>2
  <2>6. NoJob.permit <=> NoJob.at \in {"queued", "running", "cleaning"}
    BY <2>2
  <2> QED
    BY <2>1, <2>2, <2>3, <2>4, <2>5, <2>6, Concludes
<1>5. CASE ~(Deaf(g) \/ Len(supervisor[g].line) = directive.concurrency)
  <2> DEFINE y == [x EXCEPT !.running = "awaiting"]
             k == [j EXCEPT !.at = "queued"]
  <2>1. /\ visitor' = [visitor EXCEPT ![v] = y] /\ job' = [job EXCEPT ![v] = k]
        /\ supervisor' = [supervisor EXCEPT ![g].line = Append(@, v)]
    BY <1>5 DEF Enqueue, CgiInv
  <2>2. y \in VisitRecords
    BY <1>1 DEF VisitRecords, Runs
  <2>3. /\ y.at = x.at /\ y.gen = g /\ y.slot = x.slot /\ y.running = "awaiting" /\ y.result = x.result
        /\ y.got = x.got /\ y.shown = x.shown
    BY <1>1 DEF VisitRecords
  <2>4. k \in JobRecords
    BY <1>1 DEF JobRecords, JobStages
  <2>5. k.at = "queued" /\ k.gen = j.gen /\ k.process = j.process /\ k.permit = j.permit
    BY <1>1 DEF JobRecords
  <2> HIDE DEF k, y
  <2>6. x.at \notin {"idle", "buffering"}
    BY <1>1, <1>2 DEF VisitOk, PhaseOk
  <2>7. JobOk(Process, y, k)
    BY <1>3, <2>3, <2>5, <2>6 DEF JobOk
  <2>8. VisitOk(Process, y, transfer[v], script[v], k)
    BY <1>1, <1>2, <2>3, <2>7, FreshMoves
  <2>9. LinesOk(supervisor', job')
    <3>1. supervisor[g].stage \notin {"stopping", "ended"}
      BY <1>5 DEF Deaf
    <3>2. LinesOk(supervisor, job) /\ job[v].at = "none" /\ k.gen = g
      BY <1>3, <2>5 DEF CgiInv
    <3> QED
      BY <1>1, <1>3, <2>1, <2>4, <2>5, <3>1, <3>2, JoinsLine
  <2>10. ProcessesOk(directive, ~poisoned', job')
    <3>1. KeepsShare(job[v], k)
      BY <2>5 DEF KeepsShare
    <3> QED
      BY <1>2, <2>1, <2>4, <3>1, SharesKeptOne
  <2>11. /\ transfer' = [transfer EXCEPT ![v] = transfer[v]] /\ script' = [script EXCEPT ![v] = script[v]]
    BY <1>2, Untouched
  <2>12. poisoned' \in BOOLEAN /\ directive' = directive
    BY <1>2 DEF CgiInv
  <2> QED
    BY <1>1, <2>1, <2>2, <2>4, <2>8, <2>9, <2>10, <2>11, <2>12, VisitsStep
<1> QED
  BY <1>4, <1>5

-----------------------------------------------------------------------------
(* The job.                                                                *)

\* A job is told to stop, or sees that its caller has gone.
LEMMA CgiCancelJob ==
  ASSUME CgiInv, NEW v \in Visits, CancelJob(v)
  PROVE  CgiInv'
<1> DEFINE x == visitor[v]
           t == transfer[v]
           s == script[v]
           u == Stopped(t)
           j == [job[v] EXCEPT !.at = "cleaning", !.result = "unavailable"]
<1>1. /\ x \in VisitRecords /\ t \in TransferRecords /\ s \in ScriptRecords /\ job[v] \in JobRecords
      /\ VisitOk(Process, x, t, s, job[v])
  BY OfVisit
<1>2. /\ job[v].at = "running" /\ job' = [job EXCEPT ![v] = j] /\ transfer' = [transfer EXCEPT ![v] = u]
      /\ UNCHANGED <<directive, supervisor, poisoned, visitor, script>>
  BY DEF CancelJob, CgiInv
<1>3. j \in JobRecords
  BY <1>1 DEF JobRecords, JobStages, Results
<1>4. j.at = "cleaning" /\ j.gen = job[v].gen /\ j.permit = job[v].permit /\ j.process = job[v].process
  BY <1>1 DEF JobRecords
<1>5. /\ u \in TransferRecords /\ ~u.live /\ u.ask = t.ask /\ u.head = t.head /\ u.queue = t.queue
      /\ u.completion = t.completion
  BY <1>1, StoppedIs
<1>6. RestOk(x, u, s)
  BY <1>1, StoppedRest
<1> HIDE DEF u, j
<1>7. script' = [script EXCEPT ![v] = s]
  BY <1>2, Untouched
<1>8. j.process = "alive" => job[v].process = "alive"
  BY <1>4
<1> QED
  BY <1>1, <1>2, <1>3, <1>4, <1>5, <1>6, <1>7, <1>8, Cleans

\* A process that is started talks to whoever still listens.
LEMMA CgiSpawn ==
  ASSUME CgiInv, NEW v \in Visits, NEW outcome \in {"ok", "timeout", "failed"}, Spawn(v, outcome)
  PROVE  CgiInv'
<1> DEFINE x == visitor[v]
           t == transfer[v]
           s == script[v]
           j == job[v]
<1>1. /\ x \in VisitRecords /\ t \in TransferRecords /\ s \in ScriptRecords /\ j \in JobRecords
      /\ VisitOk(Process, x, t, s, j) /\ transfer \in [Visits -> TransferRecords]
  BY OfVisit DEF CgiInv
<1>2. /\ j.at = "running" /\ j.process = "none" /\ ~t.live
      /\ UNCHANGED <<directive, supervisor, poisoned, visitor, script>>
  BY DEF Spawn
<1>3. visitor' = [visitor EXCEPT ![v] = x] /\ script' = [script EXCEPT ![v] = s] /\ RestOk(x, t, s)
  BY <1>1, <1>2, Untouched DEF VisitOk
<1>4. CASE outcome # "ok"
  <2> DEFINE k == [j EXCEPT !.at = "cleaning", !.result = outcome]
  <2>1. job' = [job EXCEPT ![v] = k] /\ transfer' = [transfer EXCEPT ![v] = t]
    BY <1>4, Untouched DEF Spawn, CgiInv
  <2>2. k \in JobRecords
    BY <1>1 DEF JobRecords, JobStages, Results
  <2>3. k.at = "cleaning" /\ k.gen = job[v].gen /\ k.permit = job[v].permit /\ k.process = job[v].process
    BY <1>1 DEF JobRecords
  <2>4. k.process = "alive" => job[v].process = "alive"
    BY <2>3
  <2> HIDE DEF k
  <2> QED
    BY <1>1, <1>2, <1>3, <2>1, <2>2, <2>3, <2>4, Cleans
<1>5. CASE outcome = "ok"
  <2> DEFINE k == [j EXCEPT !.process = "alive"]
             u == [t EXCEPT !.live = Listening(v)]
  <2>1. job' = [job EXCEPT ![v] = k] /\ transfer' = [transfer EXCEPT ![v] = u]
    BY <1>5 DEF Spawn, CgiInv
  <2>2. k \in JobRecords
    BY <1>1 DEF JobRecords
  <2>3. k.at = j.at /\ k.gen = j.gen /\ k.permit = j.permit /\ k.process = "alive"
    BY <1>1 DEF JobRecords
  <2>4. Listening(v) = Waits(x)
    BY DEF Listening, Waits
  <2>5. u \in TransferRecords
    <3>1. Listening(v) \in BOOLEAN
      BY DEF Listening
    <3>2. PICK b \in BOOLEAN : b = Listening(v)
      BY <3>1
    <3>3. [t EXCEPT !.live = b] \in TransferRecords
      BY <1>1 DEF TransferRecords
    <3> QED
      BY <3>2, <3>3
  <2>6. /\ u.live = Waits(x) /\ u.ask = t.ask /\ u.head = t.head /\ u.seen = t.seen /\ u.tail = t.tail /\ u.out = t.out
        /\ u.queue = t.queue /\ u.completion = t.completion /\ u.eof = t.eof /\ u.exited = t.exited
    BY <1>1, <2>4 DEF TransferRecords
  <2>7. KeepsPlace(job[v], k) /\ KeepsShare(job[v], k)
    <3>1. j.permit
      BY <1>1, <1>2 DEF VisitOk, JobOk
    <3> QED
      BY <2>3, <3>1 DEF KeepsPlace, KeepsShare
  <2> HIDE DEF x, t, s, j, k, u
  <2>8. /\ Process /\ x.at \notin {"idle", "buffering"}
        /\ x.running \notin {"dialing", "checking", "acquiring", "queueing"}
    BY <1>1, <1>2 DEF VisitOk, JobOk, PhaseOk
  <2>9. JobOk(Process, x, k)
    BY <1>1, <1>2, <2>3, <2>8 DEF VisitOk, JobOk
  <2>10. CASE Waits(x)
    <3>1. FreshOk(x, t, s)
      BY <1>1, <1>2, <2>10 DEF VisitOk, JoinOk
    <3>2. LiveOk(x, u, s) /\ u.live
      BY <2>6, <2>10, <3>1, StartsLive
    <3>3. ChannelOk(x, u, s)
      <4>1. u.head = {} /\ u.queue = <<>> /\ x.got = 0 /\ Len(u.queue) =< 1
        BY <2>6, <3>1 DEF FreshOk
      <4>2. x.at = "waiting" /\ x.shown # "complete" /\ x.result # "ok"
        BY <1>1, <2>10, <3>1 DEF VisitOk, ChannelOk, FreshOk, PhaseOk, Waits
      <4> QED
        BY <4>1, <4>2 DEF ChannelOk
    <3>4. JoinOk(Process, x, u, s, k)
      <4>1. ~Ending(u.out)
        BY <2>6, <3>1, ShapeNone DEF FreshOk
      <4> QED
        BY <1>2, <2>3, <2>8, <2>10, <4>1 DEF JoinOk
    <3>5. VisitOk(Process, x, u, s, k)
      BY <1>1, <2>9, <3>2, <3>3, <3>4 DEF VisitOk
    <3> QED
      BY <1>1, <1>2, <1>3, <2>1, <2>2, <2>5, <2>7, <3>5, OneVisit
  <2>11. CASE ~Waits(x)
    <3>1. ~u.live /\ DueOf(u) = DueOf(t)
      BY <2>6, <2>11, DueSame
    <3>2. RestOk(x, u, s)
      BY <1>3, <2>6, <3>1 DEF RestOk, WholeGiven, CutShort
    <3>3. ChannelOk(x, u, s)
      BY <1>1, <1>2, <2>6, <3>1 DEF VisitOk, ChannelOk
    <3>4. JoinOk(Process, x, u, s, k)
      BY <2>8, <2>11, <3>1 DEF JoinOk
    <3>5. VisitOk(Process, x, u, s, k)
      BY <1>1, <2>9, <3>1, <3>2, <3>3, <3>4 DEF VisitOk
    <3> QED
      BY <1>1, <1>2, <1>3, <2>1, <2>2, <2>5, <2>7, <3>5, OneVisit
  <2> QED  BY <2>10, <2>11
<1> QED
  BY <1>4, <1>5

\* A caller that waits for its job is told how it ended, and one that does not
\* wait is left alone.
LEMMA ToldOk ==
  ASSUME NEW p \in BOOLEAN, NEW x \in VisitRecords, NEW t \in TransferRecords, NEW s \in ScriptRecords,
         NEW j \in JobRecords, VisitOk(p, x, t, s, j), p, x.running \notin {"queueing"},
         NEW r \in Results, NEW u \in TransferRecords, ~u.live, u.ask = t.ask, u.head = t.head, u.queue = t.queue,
         u.completion = t.completion \/ (t.live /\ u.completion # "finished"), RestOk(x, u, s),
         r = "ok" => u.completion = "finished",
         NEW k \in JobRecords, ~k.permit, k.at \in {"none", "finished"}, k.process # "gone",
         x.at \in {"idle", "buffering"} \/ x.running \in {"checking", "acquiring"}
           => k.at = "none" /\ k.process = "none" /\ u = t
  PROVE  LET y == IF x.running = "awaiting" THEN Finished(x, r) ELSE x
         IN  y \in VisitRecords /\ VisitOk(p, y, u, s, k)
<1>1. PhaseOk(p, x) /\ ChannelOk(x, t, s) /\ JoinOk(p, x, t, s, j) /\ JobOk(p, x, j)
  BY DEF VisitOk
<1>2. DueOf(u) = DueOf(t)
  BY DueSame
<1>3. CASE x.running = "awaiting"
  <2> DEFINE y == Finished(x, r)
  <2>1. /\ y \in VisitRecords /\ y.running = "done" /\ y.result = r /\ ~y.slot
        /\ y.at = x.at /\ y.gen = x.gen /\ y.got = x.got /\ y.shown = x.shown
    BY FinishedIs
  <2> HIDE DEF y
  <2>2. Waits(x)
    BY <1>1, <1>3, RunningWaits
  <2>3. PhaseOk(p, y)
    BY <1>1, <2>1, <2>2 DEF PhaseOk, Waits
  <2>4. ChannelOk(y, u, s)
    <3>1. y.shown # "complete" /\ y.at # "buffering"
      BY <1>1, <2>1, <2>2 DEF PhaseOk, Waits
    <3> QED
      BY <1>1, <1>2, <2>1, <3>1 DEF ChannelOk
  <2>5. JoinOk(p, y, u, s, k)
    BY <2>1, <2>2 DEF JoinOk, Waits
  <2>6. JobOk(p, y, k)
    BY <2>1, <2>2 DEF JobOk, Waits
  <2>7. RestOk(y, u, s)
    BY <2>1, RestSame
  <2>8. VisitOk(p, y, u, s, k)
    BY <2>3, <2>4, <2>5, <2>6, <2>7 DEF VisitOk
  <2> QED
    BY <1>3, <2>1, <2>8 DEF y
<1>4. CASE x.running # "awaiting"
  <2>1. ChannelOk(x, u, s)
    <3>1. t.live => x.shown # "complete" /\ x.result # "ok"
      BY <1>1 DEF ChannelOk, JoinOk, PhaseOk, Waits
    <3> QED
      BY <1>1, <1>2, <3>1 DEF ChannelOk
  <2>2. JoinOk(p, x, u, s, k)
    <3>1. x.running # "dialing"
      BY <1>1 DEF PhaseOk
    <3> QED
      BY <1>1, <3>1 DEF JoinOk
  <2>3. JobOk(p, x, k)
    BY <1>1, <1>4 DEF JobOk
  <2>4. VisitOk(p, x, u, s, k)
    BY <1>1, <2>1, <2>2, <2>3 DEF VisitOk
  <2> QED
    BY <1>4, <2>4
<1> QED
  BY <1>3, <1>4

\* A pool that is closed may hold processes nobody has a permit for.
LEMMA SharesShrink ==
  ASSUME NEW d \in CgiAccepted, NEW intact, NEW jobs, ProcessesOk(d, intact, jobs), NEW k,
         \A w \in Visits : k[w].permit \/ k[w].process = "alive" => jobs[w].permit \/ jobs[w].process = "alive"
  PROVE  ProcessesOk(d, FALSE, k)
<1>1. Counted(k) \subseteq Counted(jobs)
  BY DEF Counted
<1>2. d.concurrency \in Nat
  BY ConcurrencyNat
<1>3. Cardinality(Counted(k)) =< Cardinality(Counted(jobs))
  BY <1>1, CountedFinite, FS_Subset
<1> QED
  BY <1>2, <1>3, CountedFinite DEF ProcessesOk

\* The permit goes back when the process is gone, or to a pool that is closed.
LEMMA CgiCleanup ==
  ASSUME CgiInv, NEW v \in Visits, NEW ok \in BOOLEAN, Cleanup(v, ok)
  PROVE  CgiInv'
<1> DEFINE x == visitor[v]
           t == transfer[v]
           s == script[v]
           j == job[v]
           r == IF ok THEN Checked(v, j.result) ELSE "failed"
           y == IF x.running = "awaiting" THEN Finished(x, r) ELSE x
           k == [NoJob EXCEPT !.at = "finished", !.gen = j.gen, !.clean = ok, !.process = Remains(v, ok)]
<1>1. /\ x \in VisitRecords /\ t \in TransferRecords /\ s \in ScriptRecords /\ j \in JobRecords
      /\ VisitOk(Process, x, t, s, j) /\ Process \in BOOLEAN /\ job \in [Visits -> JobRecords]
      /\ directive \in CgiAccepted /\ poisoned \in BOOLEAN /\ ProcessesOk(directive, ~poisoned, job)
  BY OfVisit DEF CgiInv, Process
<1>2. /\ j.at = "cleaning" /\ poisoned' = (poisoned \/ ~ok) /\ job' = [job EXCEPT ![v] = k]
      /\ visitor' = [visitor EXCEPT ![v] = y] /\ UNCHANGED <<directive, supervisor, transfer, script>>
  BY DEF Cleanup, Replied
<1>3. r \in Results /\ (r = "ok" => t.completion = "finished")
  <2>1. j.result \in Results
    BY <1>1 DEF JobRecords
  <2> QED
    BY <2>1 DEF Checked, Results
<1>4. Remains(v, ok) \in {"none", "alive"} /\ (Remains(v, ok) = "alive" => j.process = "alive" /\ ~ok)
  BY DEF Remains
<1>5. j.gen \in Generations /\ NoJob \in JobRecords
  BY <1>1, NoRecords DEF JobRecords
<1>6. k \in JobRecords
  BY <1>4, <1>5 DEF JobRecords, JobStages
<1>7. k.at = "finished" /\ k.gen = j.gen /\ k.process = Remains(v, ok) /\ k.permit = NoJob.permit
  BY <1>5 DEF JobRecords
<1>8. ~NoJob.permit
  BY DEF NoJob
<1> HIDE DEF k, r
<1>9. Process /\ ~t.live /\ x.at \notin {"idle", "buffering"} /\ x.running \notin {"checking", "acquiring", "queueing"}
  BY <1>1, <1>2 DEF VisitOk, JoinOk, JobOk
<1>10. RestOk(x, t, s)
  BY <1>1, <1>9 DEF VisitOk
<1>11. y \in VisitRecords /\ VisitOk(Process, y, t, s, k)
  <2>1. ~k.permit /\ k.at \in {"none", "finished"} /\ k.process # "gone"
    BY <1>4, <1>7, <1>8
  <2> HIDE DEF x, t, s, j
  <2> QED
    BY <1>1, <1>3, <1>6, <1>9, <1>10, <2>1, ToldOk
<1> HIDE DEF y
<1>12. LinesOk(supervisor', job')
  <2>1. KeepsPlace(job[v], k)
    BY <1>2, <1>7 DEF KeepsPlace
  <2> QED
    BY <1>2, <1>6, <2>1, LinesKept
<1>13. ProcessesOk(directive, ~poisoned', job')
  <2>1. CASE ok
    <3>1. KeepsShare(job[v], k)
      BY <1>4, <1>7, <1>8, <2>1 DEF KeepsShare
    <3>2. ProcessesOk(directive, ~poisoned, job')
      BY <1>2, <1>6, <3>1, SharesKeptOne
    <3> QED
      BY <1>2, <2>1, <3>2
  <2>2. CASE ~ok
    <3>1. ASSUME NEW w \in Visits, job'[w].permit \/ job'[w].process = "alive"
          PROVE  job[w].permit \/ job[w].process = "alive"
      <4>1. CASE w = v
        BY <1>1, <1>2, <1>4, <1>7, <1>8, <3>1, <4>1
      <4>2. CASE w # v
        BY <1>1, <1>2, <3>1, <4>2
      <4> QED  BY <4>1, <4>2
    <3>2. ProcessesOk(directive, FALSE, job')
      BY <1>1, <3>1, SharesShrink
    <3> QED
      BY <1>2, <2>2, <3>2
  <2> QED  BY <2>1, <2>2
<1>14. transfer' = [transfer EXCEPT ![v] = t] /\ script' = [script EXCEPT ![v] = s]
  BY <1>2, Untouched
<1>15. poisoned' \in BOOLEAN /\ directive' = directive
  BY <1>1, <1>2
<1> QED
  BY <1>1, <1>2, <1>6, <1>11, <1>12, <1>13, <1>14, <1>15, VisitsStep

-----------------------------------------------------------------------------
(* The supervisor.                                                         *)

\* A supervisor changes its stage; it ends without jobs.
LEMMA StageMoves ==
  ASSUME NEW sup, NEW jobs \in [Visits -> JobRecords], LinesOk(sup, jobs), NEW g \in Generations, NEW stage \in Stages,
         stage \in {"stopping", "ended"} => sup[g].line = <<>>,
         \/ stage \in {"running", "fenced", "stopping"}
         \/ \A v \in Visits : ~(jobs[v].gen = g /\ jobs[v].at \in {"running", "cleaning", "finished"})
  PROVE  LinesOk([sup EXCEPT ![g].stage = stage], jobs)
<1> DEFINE after == [sup EXCEPT ![g].stage = stage]
<1>1. sup \in [Generations -> [stage : Stages, line : Seq(Visits)]]
  BY DEF LinesOk
<1>2. /\ after \in [Generations -> [stage : Stages, line : Seq(Visits)]]
      /\ \A h \in Generations : after[h].line = sup[h].line /\ (h # g => after[h].stage = sup[h].stage)
      /\ after[g].stage = stage
  BY <1>1
<1> HIDE DEF after
<1>3. ASSUME NEW h \in Generations
      PROVE  /\ \A i, n \in DOMAIN after[h].line : after[h].line[i] = after[h].line[n] => i = n
             /\ after[h].stage \in {"stopping", "ended"} => after[h].line = <<>>
             /\ \A v \in Visits : v \in Range(after[h].line) <=> jobs[v].at = "queued" /\ jobs[v].gen = h
  <2>1. /\ \A i, n \in DOMAIN sup[h].line : sup[h].line[i] = sup[h].line[n] => i = n
        /\ sup[h].stage \in {"stopping", "ended"} => sup[h].line = <<>>
        /\ \A v \in Visits : v \in Range(sup[h].line) <=> jobs[v].at = "queued" /\ jobs[v].gen = h
    BY DEF LinesOk
  <2>2. after[h].line = sup[h].line
    BY <1>2
  <2>3. after[h].stage \in {"stopping", "ended"} => sup[h].line = <<>>
    BY <1>2, <2>1
  <2> QED
    BY <2>1, <2>2, <2>3
<1>4. ASSUME NEW v \in Visits, jobs[v].at \in {"running", "cleaning", "finished"}
      PROVE  after[jobs[v].gen].stage \in {"running", "fenced", "stopping"}
  <2>1. jobs[v].gen \in Generations
    BY DEF JobRecords
  <2> QED
    BY <1>2, <1>4, <2>1 DEF LinesOk
<1>5. LinesOk(after, jobs)
  BY <1>2, <1>3, <1>4 DEF LinesOk
<1> QED
  BY <1>5 DEF after

\* A step of a supervisor that touches no request.
LEMMA SupervisorsOnly ==
  ASSUME CgiInv, LinesOk(supervisor', job), UNCHANGED <<directive, poisoned, visitor, transfer, script, job>>
  PROVE  CgiInv'
BY DEF CgiInv, Process

\* A supervisor starts to look at its line.
LEMMA CgiActivate ==
  ASSUME CgiInv, NEW g \in Generations, Activate(g)
  PROVE  CgiInv'
<1>1. "running" \in Stages /\ LinesOk(supervisor, job) /\ job \in [Visits -> JobRecords]
  BY DEF Stages, CgiInv
<1>2. LinesOk(supervisor', job)
  BY <1>1, StageMoves DEF Activate
<1> QED
  BY <1>2, SupervisorsOnly DEF Activate

\* It leaves its loop.
LEMMA CgiFence ==
  ASSUME CgiInv, NEW g \in Generations, Fence(g)
  PROVE  CgiInv'
<1>1. "fenced" \in Stages /\ LinesOk(supervisor, job) /\ job \in [Visits -> JobRecords]
  BY DEF Stages, CgiInv
<1>2. LinesOk(supervisor', job)
  BY <1>1, StageMoves DEF Fence
<1> QED
  BY <1>2, SupervisorsOnly DEF Fence

\* It ends once its jobs have.
LEMMA CgiConclude ==
  ASSUME CgiInv, NEW g \in Generations, Conclude(g)
  PROVE  CgiInv'
<1>1. "ended" \in Stages /\ LinesOk(supervisor, job) /\ job \in [Visits -> JobRecords]
  BY DEF Stages, CgiInv
<1>2. supervisor[g].line = <<>>
  BY <1>1 DEF Conclude, LinesOk
<1>3. \A v \in Visits : ~(job[v].gen = g /\ job[v].at \in {"running", "cleaning", "finished"})
  BY DEF Conclude, JobsOf
<1>4. LinesOk(supervisor', job)
  BY <1>1, <1>2, <1>3, StageMoves DEF Conclude
<1> QED
  BY <1>4, SupervisorsOnly DEF Conclude

\* It collects a job that has ended.
LEMMA CgiCollect ==
  ASSUME CgiInv, NEW v \in Visits, Collect(v)
  PROVE  CgiInv'
<1> DEFINE x == visitor[v]
           t == transfer[v]
           s == script[v]
           j == job[v]
           g == j.gen
           k == [NoJob EXCEPT !.process = j.process]
           stage == IF supervisor[g].stage = "running" /\ ~j.clean THEN "fenced" ELSE supervisor[g].stage
<1>1. /\ x \in VisitRecords /\ t \in TransferRecords /\ s \in ScriptRecords /\ j \in JobRecords
      /\ VisitOk(Process, x, t, s, j) /\ Process \in BOOLEAN /\ job \in [Visits -> JobRecords]
      /\ supervisor \in [Generations -> [stage : Stages, line : Seq(Visits)]] /\ poisoned \in BOOLEAN
  BY OfVisit DEF CgiInv, Process, LinesOk
<1>2. /\ j.at = "finished" /\ supervisor[g].stage \in {"running", "stopping"} /\ job' = [job EXCEPT ![v] = k]
      /\ UNCHANGED <<directive, poisoned, visitor, transfer, script>>
  BY DEF Collect
<1>3. supervisor' = [supervisor EXCEPT ![g].stage = stage]
  BY DEF Collect, CgiInv, LinesOk
<1>4. g \in Generations /\ j.process \in {"none", "alive", "gone"} /\ NoJob \in JobRecords
  BY <1>1, NoRecords DEF JobRecords
<1>5. k \in JobRecords
  BY <1>4 DEF JobRecords
<1>6. k.process = j.process /\ k.at = NoJob.at /\ k.permit = NoJob.permit
  BY <1>4 DEF JobRecords
<1>7. NoJob.at = "none" /\ ~NoJob.permit
  BY DEF NoJob
<1> HIDE DEF k
<1>8. /\ Process /\ ~t.live /\ x.at \notin {"idle", "buffering"} /\ j.process # "gone" /\ ~j.permit
      /\ x.running \notin {"checking", "acquiring", "queueing", "awaiting"}
  BY <1>1, <1>2 DEF VisitOk, JoinOk, JobOk
<1>9. RestOk(x, t, s)
  BY <1>1, <1>8 DEF VisitOk
<1>10. VisitOk(Process, x, t, s, k)
  <2>1. ~k.permit /\ k.at \in {"none", "finished"} /\ k.process # "gone"
    BY <1>6, <1>7, <1>8
  <2>2. "failed" \in Results
    BY DEF Results
  <2> HIDE DEF x, t, s, j
  <2>3. VisitOk(Process, IF x.running = "awaiting" THEN Finished(x, "failed") ELSE x, t, s, k)
    BY <1>1, <1>5, <1>8, <1>9, <2>1, <2>2, ToldOk
  <2> QED
    BY <1>8, <2>3
<1>11. LinesOk(supervisor', job')
  <2>1. KeepsPlace(job[v], k)
    BY <1>2, <1>6, <1>7 DEF KeepsPlace
  <2>2. LinesOk(supervisor, job') /\ job' \in [Visits -> JobRecords]
    BY <1>1, <1>2, <1>5, <2>1, LinesKept
  <2>3. stage \in {"running", "fenced", "stopping"} /\ stage \in Stages
    BY <1>2 DEF Stages
  <2>4. stage = "stopping" => supervisor[g].line = <<>>
    BY <1>4, <2>2 DEF LinesOk
  <2> HIDE DEF stage, g
  <2> QED
    BY <1>3, <1>4, <2>2, <2>3, <2>4, StageMoves
<1>12. ProcessesOk(directive, ~poisoned', job')
  <2>1. KeepsShare(job[v], k)
    BY <1>6, <1>7, <1>8 DEF KeepsShare
  <2> QED
    BY <1>2, <1>5, <2>1, SharesKeptOne
<1>13. /\ visitor' = [visitor EXCEPT ![v] = x] /\ transfer' = [transfer EXCEPT ![v] = t]
       /\ script' = [script EXCEPT ![v] = s]
  BY <1>2, Untouched
<1>14. poisoned' \in BOOLEAN /\ directive' = directive
  BY <1>1, <1>2
<1> QED
  BY <1>1, <1>2, <1>5, <1>10, <1>11, <1>12, <1>13, <1>14, VisitsStep

\* The first of a line leaves it.
LEMMA LeavesLine ==
  ASSUME NEW sup, NEW jobs \in [Visits -> JobRecords], LinesOk(sup, jobs), NEW g \in Generations,
         sup[g].stage = "running", sup[g].line # <<>>,
         NEW j \in JobRecords, j.at = "none" \/ (j.at = "running" /\ j.gen = g)
  PROVE  LET v == Head(sup[g].line)
         IN  /\ v \in Visits /\ jobs[v].at = "queued" /\ jobs[v].gen = g
             /\ LinesOk([sup EXCEPT ![g].line = Tail(@)], [jobs EXCEPT ![v] = j])
<1> DEFINE line == sup[g].line
           v == Head(line)
           rest == Tail(line)
           after == [sup EXCEPT ![g].line = rest]
           k == [jobs EXCEPT ![v] = j]
<1>1. sup \in [Generations -> [stage : Stages, line : Seq(Visits)]]
  BY DEF LinesOk
<1>2. line \in Seq(Visits) /\ line # <<>>
  BY <1>1
<1>3. /\ \A i, n \in DOMAIN line : line[i] = line[n] => i = n
      /\ \A w \in Visits : w \in Range(line) <=> jobs[w].at = "queued" /\ jobs[w].gen = g
  BY DEF LinesOk
<1>4. PICK l \in Nat : l = Len(line) /\ l # 0 /\ DOMAIN line = 1..l
  <2> HIDE DEF line
  <2> QED
    BY <1>2
<1>5. /\ rest \in Seq(Visits) /\ Len(rest) = l - 1 /\ DOMAIN rest = 1..(l - 1)
      /\ v = line[1] /\ v \in Visits
      /\ \A i \in 1..(l - 1) : rest[i] = line[i + 1]
  <2> HIDE DEF line
  <2>1. /\ Head(line) = line[1] /\ Head(line) \in Visits /\ Tail(line) \in Seq(Visits)
        /\ Len(Tail(line)) = Len(line) - 1 /\ \A i \in 1..Len(Tail(line)) : Tail(line)[i] = line[i + 1]
    BY <1>2, HeadTailProperties
  <2>2. DOMAIN rest = 1..Len(rest)
    BY <2>1
  <2> QED
    BY <1>4, <2>1, <2>2
<1>6. v \in Range(line)
  BY <1>4, <1>5 DEF Range
<1>7. jobs[v].at = "queued" /\ jobs[v].gen = g
  BY <1>3, <1>5, <1>6
<1> HIDE DEF line, v, rest
<1>8. \A w : w \in Range(rest) <=> w \in Range(line) /\ w # v
  <2>1. ASSUME NEW w, w \in Range(rest) PROVE w \in Range(line) /\ w # v
    <3>1. PICK i \in 1..(l - 1) : w = rest[i]
      BY <1>5, <2>1 DEF Range
    <3>2. i + 1 \in 1..l /\ i + 1 # 1 /\ 1 \in 1..l
      BY <1>4
    <3>3. w = line[i + 1]
      BY <1>5, <3>1
    <3> QED
      BY <1>3, <1>4, <1>5, <3>2, <3>3 DEF Range
  <2>2. ASSUME NEW w, w \in Range(line), w # v PROVE w \in Range(rest)
    <3>1. PICK i \in 1..l : w = line[i]
      BY <1>4, <2>2 DEF Range
    <3>2. i # 1
      BY <1>5, <2>2, <3>1
    <3>3. PICK n \in 1..(l - 1) : i = n + 1
      <4>1. i - 1 \in 1..(l - 1) /\ i = (i - 1) + 1
        BY <1>4, <3>2
      <4> QED
        BY <4>1
    <3>4. w = rest[n]
      BY <1>5, <3>1, <3>3
    <3> QED
      BY <1>5, <3>4 DEF Range
  <2> QED
    BY <2>1, <2>2
<1>9. \A i, n \in DOMAIN rest : rest[i] = rest[n] => i = n
  <2>1. ASSUME NEW i \in 1..(l - 1), NEW n \in 1..(l - 1), rest[i] = rest[n] PROVE i = n
    <3>1. i + 1 \in 1..l /\ n + 1 \in 1..l
      BY <1>4
    <3>2. line[i + 1] = line[n + 1]
      BY <1>5, <2>1
    <3>3. i + 1 = n + 1
      BY <1>3, <1>4, <3>1, <3>2
    <3> QED
      BY <3>3
  <2> QED
    BY <1>5, <2>1
<1>10. /\ after \in [Generations -> [stage : Stages, line : Seq(Visits)]]
       /\ \A h \in Generations : after[h].stage = sup[h].stage /\ (h # g => after[h].line = sup[h].line)
       /\ after[g].line = rest
  BY <1>1, <1>5
<1>11. k[v] = j /\ \A w \in Visits : w # v => k[w] = jobs[w]
  BY <1>5
<1> HIDE DEF after, k
<1>12. ASSUME NEW h \in Generations
       PROVE  /\ \A i, n \in DOMAIN after[h].line : after[h].line[i] = after[h].line[n] => i = n
              /\ after[h].stage \in {"stopping", "ended"} => after[h].line = <<>>
  <2>1. CASE h = g
    BY <1>9, <1>10, <2>1
  <2>2. CASE h # g
    BY <1>10, <2>2 DEF LinesOk
  <2> QED  BY <2>1, <2>2
<1>13. ASSUME NEW h \in Generations, NEW w \in Visits
       PROVE  w \in Range(after[h].line) <=> k[w].at = "queued" /\ k[w].gen = h
  <2>1. w \in Range(sup[h].line) <=> jobs[w].at = "queued" /\ jobs[w].gen = h
    BY DEF LinesOk
  <2>2. CASE w = v
    <3>1. w \notin Range(after[h].line)
      BY <1>7, <1>8, <1>10, <2>1, <2>2
    <3> QED
      BY <1>11, <2>2, <3>1
  <2>3. CASE w # v
    <3>1. w \in Range(after[h].line) <=> w \in Range(sup[h].line)
      BY <1>8, <1>10, <2>3 DEF line
    <3> QED
      BY <1>11, <2>1, <2>3, <3>1
  <2> QED  BY <2>2, <2>3
<1>14. ASSUME NEW w \in Visits, k[w].at \in {"running", "cleaning", "finished"}
       PROVE  after[k[w].gen].stage \in {"running", "fenced", "stopping"}
  <2>1. CASE w = v
    <3>1. k[w].gen = g
      BY <1>11, <1>14, <2>1
    <3> QED
      BY <1>10, <3>1
  <2>2. CASE w # v
    <3>1. k[w] = jobs[w] /\ jobs[w].gen \in Generations
      BY <1>11, <2>2 DEF JobRecords
    <3> QED
      BY <1>10, <1>14, <3>1 DEF LinesOk
  <2> QED  BY <2>1, <2>2
<1>15. LinesOk(after, k)
  BY <1>10, <1>12, <1>13, <1>14 DEF LinesOk
<1>16. after = [sup EXCEPT ![g].line = Tail(@)] /\ v = Head(sup[g].line)
  BY DEF after, rest, line, v
<1> QED
  BY <1>5, <1>7, <1>15, <1>16 DEF k

\* It takes the first of its line, and drops one whose caller has gone.
LEMMA CgiTake ==
  ASSUME CgiInv, NEW g \in Generations, Take(g)
  PROVE  CgiInv'
<1>1. PICK v : v = Head(supervisor[g].line)
  OBVIOUS
<1> DEFINE x == visitor[v]
           t == transfer[v]
           s == script[v]
           j == job[v]
           k == IF x.running = "awaiting" THEN [j EXCEPT !.at = "running"] ELSE NoJob
<1>2. /\ supervisor[g].stage = "running" /\ supervisor[g].line # <<>> /\ job' = [job EXCEPT ![v] = k]
      /\ supervisor' = [supervisor EXCEPT ![g].line = Tail(@)]
      /\ UNCHANGED <<directive, poisoned, visitor, transfer, script>>
  BY <1>1 DEF Take
<1>3. NoJob \in JobRecords /\ NoJob.at = "none" /\ ~NoJob.permit /\ NoJob.process = "none"
  BY NoRecords DEF NoJob
<1>4. LinesOk(supervisor, job) /\ job \in [Visits -> JobRecords]
  BY DEF CgiInv
<1>5. v \in Visits /\ j.at = "queued" /\ j.gen = g
  BY <1>1, <1>2, <1>3, <1>4, LeavesLine
<1>6. /\ x \in VisitRecords /\ t \in TransferRecords /\ s \in ScriptRecords /\ j \in JobRecords
      /\ VisitOk(Process, x, t, s, j) /\ Process \in BOOLEAN /\ poisoned \in BOOLEAN
  BY <1>5, OfVisit DEF Process, CgiInv
<1>7. /\ Process /\ ~t.live /\ x.at \notin {"idle", "buffering"} /\ j.process = "none" /\ j.permit
      /\ x.running \notin {"checking", "acquiring", "queueing"}
  BY <1>5, <1>6 DEF VisitOk, JoinOk, JobOk
<1>8. RestOk(x, t, s)
  BY <1>6, <1>7 DEF VisitOk
<1>9. k \in JobRecords /\ VisitOk(Process, x, t, s, k) /\ KeepsShare(job[v], k)
      /\ (k.at = "none" \/ (k.at = "running" /\ k.gen = g))
  <2>1. CASE x.running = "awaiting"
    <3> DEFINE m == [j EXCEPT !.at = "running"]
    <3>1. m \in JobRecords
      BY <1>6 DEF JobRecords, JobStages
    <3>2. m.at = "running" /\ m.gen = j.gen /\ m.process = j.process /\ m.permit = j.permit
      BY <1>6 DEF JobRecords
    <3>3. k = m
      BY <2>1
    <3> HIDE DEF m, k
    <3>4. JoinOk(Process, x, t, s, m)
      BY <1>5, <1>6, <1>7, <3>2 DEF VisitOk, JoinOk
    <3>5. JobOk(Process, x, m)
      BY <1>6, <1>7, <3>2 DEF VisitOk, JobOk
    <3>6. VisitOk(Process, x, t, s, m)
      BY <1>6, <3>4, <3>5 DEF VisitOk
    <3>7. KeepsShare(job[v], m)
      BY <3>2 DEF KeepsShare
    <3> QED
      BY <1>5, <3>1, <3>2, <3>3, <3>6, <3>7
  <2>2. CASE x.running # "awaiting"
    <3>1. k = NoJob
      BY <2>2
    <3>2. "failed" \in Results
      BY DEF Results
    <3>3. VisitOk(Process, IF x.running = "awaiting" THEN Finished(x, "failed") ELSE x, t, s, NoJob)
      <4> HIDE DEF x, t, s, j, k
      <4> QED
        BY <1>3, <1>6, <1>7, <1>8, <3>2, ToldOk
    <3>4. VisitOk(Process, x, t, s, NoJob)
      BY <2>2, <3>3
    <3>5. KeepsShare(job[v], NoJob)
      BY <1>3 DEF KeepsShare
    <3> HIDE DEF k
    <3> QED
      BY <1>3, <3>1, <3>4, <3>5
  <2> QED  BY <2>1, <2>2
<1> HIDE DEF k
<1>10. LinesOk(supervisor', job')
  BY <1>1, <1>2, <1>4, <1>9, LeavesLine
<1>11. ProcessesOk(directive, ~poisoned', job')
  BY <1>2, <1>5, <1>9, SharesKeptOne
<1>12. /\ visitor' = [visitor EXCEPT ![v] = x] /\ transfer' = [transfer EXCEPT ![v] = t]
       /\ script' = [script EXCEPT ![v] = s]
  BY <1>2, <1>5, Untouched
<1>13. poisoned' \in BOOLEAN /\ directive' = directive
  BY <1>2, <1>6
<1> QED
  BY <1>2, <1>5, <1>6, <1>9, <1>10, <1>11, <1>12, <1>13, VisitsStep

\* Who goes when a supervisor empties its line to stop, or ends.
LeavesWith(stage, g, j) == j.at # "none" /\ j.gen = g /\ (stage = "ended" \/ j.at = "queued")

\* Nobody is left in the line of a supervisor that emptied it.
LEMMA EmptiesLine ==
  ASSUME NEW sup, NEW jobs \in [Visits -> JobRecords], LinesOk(sup, jobs), NEW g \in Generations, NEW stage \in Stages,
         NEW k, \A v \in Visits : \/ k[v].at = "none"
                                  \/ k[v] = jobs[v] /\ ~LeavesWith(stage, g, jobs[v]),
         \A v \in Visits : ~LeavesWith(stage, g, jobs[v]) => k[v] = jobs[v],
         stage \in {"stopping", "ended"}, NEW after, after = [sup EXCEPT ![g] = [stage |-> stage, line |-> <<>>]]
  PROVE  LinesOk(after, k)
<1>1. sup \in [Generations -> [stage : Stages, line : Seq(Visits)]]
  BY DEF LinesOk
<1>2. /\ after \in [Generations -> [stage : Stages, line : Seq(Visits)]]
      /\ \A h \in Generations : h # g => after[h] = sup[h]
      /\ after[g].stage = stage /\ after[g].line = <<>>
  BY <1>1
<1>3. ASSUME NEW h \in Generations
      PROVE  /\ \A i, n \in DOMAIN after[h].line : after[h].line[i] = after[h].line[n] => i = n
             /\ after[h].stage \in {"stopping", "ended"} => after[h].line = <<>>
  <2>1. CASE h = g
    BY <1>2, <2>1
  <2>2. CASE h # g
    BY <1>2, <2>2 DEF LinesOk
  <2> QED  BY <2>1, <2>2
<1>4. ASSUME NEW h \in Generations, NEW v \in Visits
      PROVE  v \in Range(after[h].line) <=> k[v].at = "queued" /\ k[v].gen = h
  <2>1. v \in Range(sup[h].line) <=> jobs[v].at = "queued" /\ jobs[v].gen = h
    BY DEF LinesOk
  <2>2. CASE h = g
    <3>1. v \notin Range(after[h].line)
      BY <1>2, <2>2 DEF Range
    <3>2. ~(k[v].at = "queued" /\ k[v].gen = h)
      BY <2>2 DEF LeavesWith
    <3> QED
      BY <3>1, <3>2
  <2>3. CASE h # g
    <3>1. after[h].line = sup[h].line
      BY <1>2, <2>3
    <3>2. (k[v].at = "queued" /\ k[v].gen = h) <=> (jobs[v].at = "queued" /\ jobs[v].gen = h)
      BY <2>3 DEF LeavesWith
    <3> QED
      BY <2>1, <3>1, <3>2
  <2> QED  BY <2>2, <2>3
<1>5. ASSUME NEW v \in Visits, k[v].at \in {"running", "cleaning", "finished"}
      PROVE  after[k[v].gen].stage \in {"running", "fenced", "stopping"}
  <2>1. k[v] = jobs[v] /\ jobs[v].gen \in Generations
    BY <1>5 DEF JobRecords
  <2>2. sup[jobs[v].gen].stage \in {"running", "fenced", "stopping"}
    BY <1>5, <2>1 DEF LinesOk
  <2>3. jobs[v].gen = g => stage = "stopping"
    BY <1>5, <2>1 DEF LeavesWith
  <2> QED
    BY <1>2, <2>1, <2>2, <2>3
<1> QED
  BY <1>2, <1>3, <1>4, <1>5 DEF LinesOk

\* The caller of a job gets this result if it still waits for it.
AnsweredVisit(v, result) == IF visitor[v].running = "awaiting" THEN Finished(visitor[v], result) ELSE visitor[v]

\* That is what a reply does.
LEMMA RepliedIs ==
  ASSUME CgiInv, NEW v \in Visits, NEW result
  PROVE  Replied(visitor, v, result)[v] = AnsweredVisit(v, result)
BY DEF Replied, AnsweredVisit, CgiInv

\* One in line is told, and its permit goes back.
LEMMA Relieved ==
  ASSUME CgiInv, NEW v \in Visits, job[v].at = "queued"
  PROVE  /\ AnsweredVisit(v, "unavailable") \in VisitRecords
         /\ VisitOk(Process, AnsweredVisit(v, "unavailable"), transfer[v], script[v], NoJob)
         /\ KeepsShare(job[v], NoJob)
<1> DEFINE x == visitor[v]
           t == transfer[v]
           s == script[v]
           j == job[v]
<1>1. /\ x \in VisitRecords /\ t \in TransferRecords /\ s \in ScriptRecords /\ j \in JobRecords
      /\ VisitOk(Process, x, t, s, j) /\ Process \in BOOLEAN
  BY OfVisit DEF Process
<1>2. /\ Process /\ ~t.live /\ x.at \notin {"idle", "buffering"}
      /\ x.running \notin {"checking", "acquiring", "queueing"}
  BY <1>1 DEF VisitOk, JoinOk, JobOk
<1>3. RestOk(x, t, s)
  BY <1>1, <1>2 DEF VisitOk
<1>4. NoJob \in JobRecords /\ NoJob.at = "none" /\ ~NoJob.permit /\ NoJob.process = "none"
  BY NoRecords DEF NoJob
<1>5. "unavailable" \in Results /\ AnsweredVisit(v, "unavailable") = IF x.running = "awaiting" THEN Finished(x, "unavailable") ELSE x
  BY DEF Results, AnsweredVisit
<1>6. KeepsShare(job[v], NoJob)
  BY <1>4 DEF KeepsShare
<1> HIDE DEF x, t, s, j
<1>7. AnsweredVisit(v, "unavailable") \in VisitRecords /\ VisitOk(Process, AnsweredVisit(v, "unavailable"), t, s, NoJob)
  <2>1. LET y == IF x.running = "awaiting" THEN Finished(x, "unavailable") ELSE x
        IN  y \in VisitRecords /\ VisitOk(Process, y, t, s, NoJob)
    BY <1>1, <1>2, <1>3, <1>4, <1>5, ToldOk
  <2> QED
    BY <1>5, <2>1
<1> QED
  BY <1>6, <1>7 DEF t, s

\* Everyone in the line of a supervisor has a job that is queued there.
LEMMA InLine ==
  ASSUME CgiInv, NEW g \in Generations, NEW v \in Visits
  PROVE  v \in Range(supervisor[g].line) <=> job[v].at = "queued" /\ job[v].gen = g
BY DEF CgiInv, LinesOk

\* A supervisor closes its channel and turns everyone in line away.
LEMMA CgiDrain ==
  ASSUME CgiInv, NEW g \in Generations, Drain(g)
  PROVE  CgiInv'
<1> DEFINE InIt(v) == job[v].at = "queued" /\ job[v].gen = g
<1>1. /\ job \in [Visits -> JobRecords] /\ visitor \in [Visits -> VisitRecords] /\ LinesOk(supervisor, job)
      /\ directive \in CgiAccepted /\ poisoned \in BOOLEAN /\ ProcessesOk(directive, ~poisoned, job)
      /\ transfer \in [Visits -> TransferRecords] /\ script \in [Visits -> ScriptRecords]
  BY DEF CgiInv
<1>2. /\ supervisor' = [supervisor EXCEPT ![g] = [stage |-> "stopping", line |-> <<>>]]
      /\ UNCHANGED <<directive, poisoned, transfer, script>>
  BY DEF Drain
<1>3. job' = [v \in Visits |-> IF InIt(v) THEN NoJob ELSE job[v]]
  BY InLine DEF Drain, Turned
<1>4. visitor' = [v \in Visits |-> IF InIt(v) THEN AnsweredVisit(v, "unavailable") ELSE visitor[v]]
  BY InLine, RepliedIs DEF Drain, Told
<1>5. ASSUME NEW v \in Visits
      PROVE  /\ visitor'[v] \in VisitRecords /\ job'[v] \in JobRecords
             /\ VisitOk(Process, visitor'[v], transfer[v], script[v], job'[v])
             /\ KeepsShare(job[v], job'[v])
  <2>1. CASE InIt(v)
    BY <1>3, <1>4, <2>1, Relieved, NoRecords
  <2>2. CASE ~InIt(v)
    <3>1. visitor'[v] = visitor[v] /\ job'[v] = job[v]
      BY <1>3, <1>4, <2>2
    <3> QED
      BY <3>1, OfVisit, Untouched
  <2> QED  BY <2>1, <2>2
<1>6. visitor' \in [Visits -> VisitRecords] /\ job' \in [Visits -> JobRecords]
  <2>1. visitor' = [v \in Visits |-> visitor'[v]] /\ job' = [v \in Visits |-> job'[v]]
    BY <1>3, <1>4
  <2> QED
    BY <1>5, <2>1
<1>7. LinesOk(supervisor', job')
  <2>1. PICK stage \in Stages : stage = "stopping"
    BY DEF Stages
  <2>2. /\ \A v \in Visits : job'[v].at = "none" \/ (job'[v] = job[v] /\ ~LeavesWith(stage, g, job[v]))
        /\ \A v \in Visits : ~LeavesWith(stage, g, job[v]) => job'[v] = job[v]
    <3>1. NoJob.at = "none"
      BY DEF NoJob
    <3> QED
      BY <1>3, <2>1, <3>1 DEF LeavesWith
  <2>3. supervisor' = [supervisor EXCEPT ![g] = [stage |-> stage, line |-> <<>>]] /\ stage \in {"stopping", "ended"}
    BY <1>2, <2>1
  <2> QED
    BY <1>1, <2>2, <2>3, EmptiesLine
<1>8. ProcessesOk(directive, ~poisoned', job')
  <2>1. (~poisoned) \in BOOLEAN
    OBVIOUS
  <2>2. ProcessesOk(directive, ~poisoned, job')
    BY <1>1, <1>5, <2>1, SharesKept
  <2> QED
    BY <1>2, <2>2
<1>9. Process' = Process
  BY <1>2 DEF Process
<1> QED
  BY <1>1, <1>2, <1>5, <1>6, <1>7, <1>8, <1>9 DEF CgiInv

\* What is left of a job that is aborted.
Relic(v) == [NoJob EXCEPT !.process = Remains(v, FALSE)]

\* It holds no permit, and its process if that was not gone.
LEMMA RelicIs ==
  ASSUME CgiInv, NEW v \in Visits
  PROVE  /\ Relic(v) \in JobRecords /\ Relic(v).at = "none" /\ ~Relic(v).permit
         /\ Relic(v).process \in {"none", "alive"} /\ (Relic(v).process = "alive" <=> job[v].process = "alive")
<1>1. NoJob \in JobRecords /\ NoJob.at = "none" /\ ~NoJob.permit
  BY NoRecords DEF NoJob
<1>2. Remains(v, FALSE) \in {"none", "alive"} /\ (Remains(v, FALSE) = "alive" <=> job[v].process = "alive")
  BY DEF Remains
<1>3. PICK r \in {"none", "alive"} : r = Remains(v, FALSE)
  BY <1>2
<1>4. [NoJob EXCEPT !.process = r] \in JobRecords
  BY <1>1 DEF JobRecords
<1>5. LET k == [NoJob EXCEPT !.process = r] IN k.at = NoJob.at /\ k.permit = NoJob.permit /\ k.process = r
  BY <1>1 DEF JobRecords
<1> QED
  BY <1>1, <1>2, <1>3, <1>4, <1>5 DEF Relic

\* A job that is aborted answers its caller and leaves its exchange.
LEMMA Aborted ==
  ASSUME CgiInv, NEW v \in Visits, job[v].at \in {"running", "cleaning", "finished"}
  PROVE  /\ AnsweredVisit(v, "unavailable") \in VisitRecords /\ Stopped(transfer[v]) \in TransferRecords
         /\ VisitOk(Process, AnsweredVisit(v, "unavailable"), Stopped(transfer[v]), script[v], Relic(v))
         /\ job[v].at = "finished" => /\ VisitOk(Process, visitor[v], transfer[v], script[v], Relic(v))
                                      /\ KeepsShare(job[v], Relic(v))
         /\ Process
<1> DEFINE x == visitor[v]
           t == transfer[v]
           s == script[v]
           j == job[v]
           k == Relic(v)
           u == Stopped(t)
<1>1. /\ x \in VisitRecords /\ t \in TransferRecords /\ s \in ScriptRecords /\ j \in JobRecords
      /\ VisitOk(Process, x, t, s, j) /\ Process \in BOOLEAN
  BY OfVisit DEF Process
<1>2. /\ Process /\ x.at \notin {"idle", "buffering"} /\ x.running \notin {"checking", "acquiring", "queueing"}
      /\ (j.at = "finished" => ~t.live /\ x.running # "awaiting" /\ ~j.permit)
  BY <1>1 DEF VisitOk, JoinOk, JobOk
<1>3. /\ u \in TransferRecords /\ ~u.live /\ u.ask = t.ask /\ u.head = t.head /\ u.queue = t.queue
      /\ u.completion = t.completion /\ RestOk(x, u, s)
  BY <1>1, StoppedIs, StoppedRest
<1>4. k \in JobRecords /\ k.at = "none" /\ ~k.permit /\ k.process # "gone"
  BY RelicIs
<1>5. "unavailable" \in Results /\ AnsweredVisit(v, "unavailable") = IF x.running = "awaiting" THEN Finished(x, "unavailable") ELSE x
  BY DEF Results, AnsweredVisit
<1>6. j.at = "finished" => KeepsShare(job[v], k)
  BY <1>2, <1>4, RelicIs DEF KeepsShare
<1>7. j.at = "finished" => RestOk(x, t, s)
  BY <1>1, <1>2 DEF VisitOk
<1> HIDE DEF x, t, s, j, k, u
<1>8. AnsweredVisit(v, "unavailable") \in VisitRecords /\ VisitOk(Process, AnsweredVisit(v, "unavailable"), u, s, k)
  <2>1. LET y == IF x.running = "awaiting" THEN Finished(x, "unavailable") ELSE x
        IN  y \in VisitRecords /\ VisitOk(Process, y, u, s, k)
    BY <1>1, <1>2, <1>3, <1>4, <1>5, ToldOk
  <2> QED
    BY <1>5, <2>1
<1>9. ASSUME j.at = "finished" PROVE VisitOk(Process, x, t, s, k)
  <2>1. VisitOk(Process, IF x.running = "awaiting" THEN Finished(x, "unavailable") ELSE x, t, s, k)
    BY <1>1, <1>2, <1>4, <1>5, <1>7, <1>9, ToldOk
  <2> QED
    BY <1>2, <1>9, <2>1
<1> QED
  BY <1>2, <1>3, <1>6, <1>8, <1>9 DEF x, t, s, j, k, u

\* A supervisor is aborted with the jobs it owns.
LEMMA CgiAbort ==
  ASSUME CgiInv, NEW g \in Generations, Abort(g)
  PROVE  CgiInv'
<1> DEFINE InIt(v) == job[v].at = "queued" /\ job[v].gen = g
           Owned(v) == job[v].at \in {"running", "cleaning"} /\ job[v].gen = g
           HasEnded(v) == job[v].at = "finished" /\ job[v].gen = g
<1>1. /\ job \in [Visits -> JobRecords] /\ visitor \in [Visits -> VisitRecords] /\ LinesOk(supervisor, job)
      /\ directive \in CgiAccepted /\ poisoned \in BOOLEAN /\ ProcessesOk(directive, ~poisoned, job)
      /\ transfer \in [Visits -> TransferRecords] /\ script \in [Visits -> ScriptRecords]
  BY DEF CgiInv
<1>2. /\ supervisor' = [supervisor EXCEPT ![g] = [stage |-> "ended", line |-> <<>>]]
      /\ UNCHANGED <<directive, script>>
  BY DEF Abort
<1>3. \A v \in Visits : /\ v \in {w \in JobsOf(g) : job[w].at # "finished"} <=> Owned(v)
                        /\ v \in JobsOf(g) <=> Owned(v) \/ HasEnded(v)
                        /\ v \in Range(supervisor[g].line) <=> InIt(v)
  BY InLine DEF JobsOf
<1>4. poisoned' \in BOOLEAN /\ (~poisoned' => ~poisoned /\ \A v \in Visits : ~Owned(v))
  BY <1>1, <1>3 DEF Abort
<1>5. job' = [v \in Visits |-> IF Owned(v) \/ HasEnded(v) THEN Relic(v) ELSE IF InIt(v) THEN NoJob ELSE job[v]]
  BY <1>3 DEF Abort, Turned, Relic
<1>6. visitor' = [v \in Visits |-> IF Owned(v) \/ InIt(v) THEN AnsweredVisit(v, "unavailable") ELSE visitor[v]]
  BY <1>3, RepliedIs DEF Abort, Told
<1>7. transfer' = [v \in Visits |-> IF Owned(v) THEN Stopped(transfer[v]) ELSE transfer[v]]
  BY <1>3 DEF Abort
<1>8. ASSUME NEW v \in Visits
      PROVE  /\ visitor'[v] \in VisitRecords /\ job'[v] \in JobRecords /\ transfer'[v] \in TransferRecords
             /\ VisitOk(Process, visitor'[v], transfer'[v], script[v], job'[v])
             /\ ~Owned(v) => KeepsShare(job[v], job'[v])
             /\ job'[v].permit \/ job'[v].process = "alive" => job[v].permit \/ job[v].process = "alive"
  <2>1. CASE Owned(v)
    <3>1. visitor'[v] = AnsweredVisit(v, "unavailable") /\ job'[v] = Relic(v) /\ transfer'[v] = Stopped(transfer[v])
      BY <1>5, <1>6, <1>7, <2>1
    <3> QED
      BY <2>1, <3>1, Aborted, RelicIs
  <2>2. CASE HasEnded(v)
    <3>1. visitor'[v] = visitor[v] /\ job'[v] = Relic(v) /\ transfer'[v] = transfer[v]
      BY <1>5, <1>6, <1>7, <2>2
    <3>2. VisitOk(Process, visitor[v], transfer[v], script[v], Relic(v)) /\ KeepsShare(job[v], Relic(v))
      BY <2>2, Aborted
    <3> QED
      BY <1>1, <3>1, <3>2, RelicIs
  <2>3. CASE InIt(v)
    <3>1. visitor'[v] = AnsweredVisit(v, "unavailable") /\ job'[v] = NoJob /\ transfer'[v] = transfer[v]
      BY <1>5, <1>6, <1>7, <2>3
    <3>2. /\ AnsweredVisit(v, "unavailable") \in VisitRecords
          /\ VisitOk(Process, AnsweredVisit(v, "unavailable"), transfer[v], script[v], NoJob)
          /\ KeepsShare(job[v], NoJob)
      BY <2>3, Relieved
    <3> QED
      BY <1>1, <3>1, <3>2, NoRecords DEF KeepsShare
  <2>4. CASE ~Owned(v) /\ ~HasEnded(v) /\ ~InIt(v)
    <3>1. visitor'[v] = visitor[v] /\ job'[v] = job[v] /\ transfer'[v] = transfer[v]
      BY <1>5, <1>6, <1>7, <2>4
    <3> QED
      BY <3>1, OfVisit, Untouched
  <2> QED
    BY <2>1, <2>2, <2>3, <2>4
<1>9. /\ visitor' \in [Visits -> VisitRecords] /\ job' \in [Visits -> JobRecords]
      /\ transfer' \in [Visits -> TransferRecords]
  <2>1. /\ visitor' = [v \in Visits |-> visitor'[v]] /\ job' = [v \in Visits |-> job'[v]]
        /\ transfer' = [v \in Visits |-> transfer'[v]]
    BY <1>5, <1>6, <1>7
  <2> QED
    BY <1>8, <2>1
<1>10. LinesOk(supervisor', job')
  <2>1. PICK stage \in Stages : stage = "ended"
    BY DEF Stages
  <2>2. NoJob.at = "none" /\ \A v \in Visits : Relic(v).at = "none"
    BY RelicIs DEF NoJob
  <2>3. ASSUME NEW v \in Visits
        PROVE  /\ job'[v].at = "none" \/ (job'[v] = job[v] /\ ~LeavesWith(stage, g, job[v]))
               /\ ~LeavesWith(stage, g, job[v]) => job'[v] = job[v]
    <3>1. job[v].at \in JobStages
      BY <1>1 DEF JobRecords
    <3>2. LeavesWith(stage, g, job[v]) <=> Owned(v) \/ HasEnded(v) \/ InIt(v)
      BY <2>1, <3>1 DEF LeavesWith, JobStages
    <3>3. Owned(v) \/ HasEnded(v) \/ InIt(v) => job'[v].at = "none"
      BY <1>5, <2>2
    <3>4. ~(Owned(v) \/ HasEnded(v) \/ InIt(v)) => job'[v] = job[v]
      BY <1>5
    <3> QED
      BY <3>2, <3>3, <3>4
  <2>4. supervisor' = [supervisor EXCEPT ![g] = [stage |-> stage, line |-> <<>>]] /\ stage \in {"stopping", "ended"}
    BY <1>2, <2>1
  <2> QED
    BY <1>1, <2>3, <2>4, EmptiesLine
<1>11. ProcessesOk(directive, ~poisoned', job')
  <2>1. CASE poisoned'
    <3>1. ProcessesOk(directive, FALSE, job')
      BY <1>1, <1>8, SharesShrink
    <3> QED
      BY <2>1, <3>1
  <2>2. CASE ~poisoned'
    <3>1. \A v \in Visits : KeepsShare(job[v], job'[v])
      BY <1>4, <1>8, <2>2
    <3>2. (~poisoned) \in BOOLEAN /\ (~poisoned') \in BOOLEAN /\ (~poisoned' => ~poisoned)
      BY <1>4
    <3> QED
      BY <1>1, <3>1, <3>2, SharesKept
  <2> QED  BY <2>1, <2>2
<1>12. Process' = Process
  BY <1>2 DEF Process
<1> QED
  BY <1>1, <1>2, <1>4, <1>8, <1>9, <1>10, <1>11, <1>12 DEF CgiInv

-----------------------------------------------------------------------------
(* The specification.                                                      *)

\* The invariant holds at the start,
LEMMA CgiStarts ==
  ASSUME CgiInit
  PROVE  CgiInv
<1>1. /\ directive \in CgiAccepted /\ poisoned \in BOOLEAN
      /\ visitor \in [Visits -> VisitRecords] /\ transfer \in [Visits -> TransferRecords]
      /\ script \in [Visits -> ScriptRecords] /\ job \in [Visits -> JobRecords]
  BY NoRecords DEF CgiInit, CgiAccepted
<1>2. ASSUME NEW v \in Visits
      PROVE  VisitOk(Process, visitor[v], transfer[v], script[v], job[v])
  <2>1. visitor[v] = NoVisit /\ transfer[v] = NoTransfer /\ script[v] = NoScript /\ job[v] = NoJob
    BY DEF CgiInit
  <2>2. PhaseOk(Process, NoVisit)
    BY DEF PhaseOk, NoVisit, Waits
  <2>3. ChannelOk(NoVisit, NoTransfer, NoScript)
    BY DEF ChannelOk, NoVisit, NoTransfer
  <2>4. FreshOk(NoVisit, NoTransfer, NoScript) /\ ~NoTransfer.live
    BY DEF FreshOk, NoVisit, NoTransfer
  <2>5. JoinOk(Process, NoVisit, NoTransfer, NoScript, NoJob)
    BY <2>4 DEF JoinOk
  <2>6. JobOk(Process, NoVisit, NoJob)
    BY DEF JobOk, NoVisit, NoJob
  <2>7. RestOk(NoVisit, NoTransfer, NoScript)
    BY DEF RestOk, CutShort, Queued, NoVisit, NoTransfer, NoScript
  <2> QED
    BY <2>1, <2>2, <2>3, <2>4, <2>5, <2>6, <2>7 DEF VisitOk
<1>3. LinesOk(supervisor, job)
  <2>1. \A v \in Visits : job[v].at = "none"
    BY DEF CgiInit, NoJob
  <2>2. \A g \in Generations : supervisor[g].line = <<>> /\ supervisor[g].stage = "prepared"
    BY DEF CgiInit
  <2>3. supervisor \in [Generations -> [stage : Stages, line : Seq(Visits)]]
    BY DEF CgiInit, Stages
  <2> QED
    BY <2>1, <2>2, <2>3 DEF LinesOk, Range
<1>4. ProcessesOk(directive, ~poisoned, job)
  <2>1. \A v \in Visits : ~job[v].permit /\ job[v].process # "alive"
    BY DEF CgiInit, NoJob
  <2>2. Counted(job) = {}
    BY <2>1 DEF Counted
  <2>3. Cardinality(Counted(job)) = 0 /\ directive.concurrency \in Nat
    BY <1>1, <2>2, FS_EmptySet, ConcurrencyNat
  <2> QED
    BY <2>1, <2>3 DEF ProcessesOk
<1> QED
  BY <1>1, <1>2, <1>3, <1>4 DEF CgiInv

\* and every step keeps it.
LEMMA CgiSteps ==
  ASSUME CgiInv, [CgiNext]_cgiVars
  PROVE  CgiInv'
<1>1. CASE UNCHANGED cgiVars
  BY <1>1 DEF cgiVars, CgiInv, Process
<1>2. CASE \E v \in Visits : \E n \in 1 .. Scripts[directive.script].bytes - script[v].sent : ReceiveBody(v, n)
  <2>0. PICK v \in Visits : \E n \in 1 .. Scripts[directive.script].bytes - script[v].sent : ReceiveBody(v, n)
    BY <1>2
  <2>1. PICK n \in 1 .. Scripts[directive.script].bytes - script[v].sent : ReceiveBody(v, n)
    BY <2>0
  <2>2. Scripts[directive.script].bytes \in Nat /\ script[v].sent \in Nat
    BY ScriptAssumption, OfVisit DEF CgiInv, CgiAccepted, ScriptRecords
  <2>3. n \in Nat /\ n > 0
    BY <2>2
  <2> QED
    BY <2>1, <2>3, CgiReceiveBody
<1>3. CASE \E v \in Visits, a \in CgiAsks, g \in IF Process THEN Generations ELSE {1} : Arrive(v, a, g)
  <2>1. PICK v \in Visits, a \in CgiAsks, g \in Generations : Arrive(v, a, g)
    BY <1>3, CgiAssumption DEF Generations
  <2> QED
    BY <2>1, CgiArrive
<1>4. CASE \E v \in Visits, outcome \in {"ok", "timeout", "failed"} : Dial(v, outcome)
  BY <1>4, CgiDial
<1>5. CASE \E v \in Visits, h \in Scripts[directive.script].heads : ReceiveHead(v, h)
  BY <1>5, CgiReceiveHead
<1>6. CASE \E v \in Visits, good \in BOOLEAN : BackendEnds(v, good)
  BY <1>6, CgiBackendEnds
<1>7. CASE \E v \in Visits, good \in BOOLEAN : ProcessExits(v, good)
  BY <1>7, CgiProcessExits
<1>8. CASE \E v \in Visits, outcome \in {"ok", "timeout", "failed"} : Spawn(v, outcome)
  BY <1>8, CgiSpawn
<1>9. CASE \E v \in Visits, ok \in BOOLEAN : Cleanup(v, ok)
  BY <1>9, CgiCleanup
<1>10. CASE \E v \in Visits : \/ Buffer(v) \/ BufferTimesOut(v) \/ TakeHead(v) \/ GiveUp(v) \/ SettleAnswer(v)
                             \/ ReadBody(v) \/ StreamEnds(v) \/ Deadline(v) \/ Leave(v) \/ Again(v)
  BY <1>10, CgiBuffer, CgiBufferTimesOut, CgiTakeHead, CgiGiveUp, CgiSettleAnswer, CgiReadBody, CgiStreamEnds,
     CgiDeadline, CgiLeave, CgiAgain
<1>11. CASE \E v \in Visits : \/ StdoutEnds(v) \/ UploadFails(v) \/ Breaks(v) \/ Stalls(v) \/ Emit(v) \/ Finish(v)
  BY <1>11, CgiStdoutEnds, CgiUploadFails, CgiBreaks, CgiStalls, CgiEmit, CgiFinish
<1>12. CASE \E v \in Visits : CheckClosed(v) \/ AcquirePermit(v) \/ Enqueue(v) \/ Collect(v) \/ CancelJob(v)
  BY <1>12, CgiCheckClosed, CgiAcquirePermit, CgiEnqueue, CgiCollect, CgiCancelJob
<1>13. CASE \E g \in Generations : Activate(g) \/ Take(g) \/ Fence(g) \/ Drain(g) \/ Conclude(g) \/ Abort(g)
  BY <1>13, CgiActivate, CgiTake, CgiFence, CgiDrain, CgiConclude, CgiAbort
<1>14. CgiNext \/ UNCHANGED cgiVars
  OBVIOUS
<1> QED
  BY <1>1, <1>2, <1>3, <1>4, <1>5, <1>6, <1>7, <1>8, <1>9, <1>10, <1>11, <1>12, <1>13, <1>14 DEF CgiNext

\* What is complete for the client ended well, and is what the backend wrote.
LEMMA CompleteHolds ==
  ASSUME CgiInv
  PROVE  CompleteIsTrue
<1> SUFFICES ASSUME NEW v \in Visits, Satisfied(v)
             PROVE  /\ script[v].end = "good" /\ visitor[v].got = script[v].sent
                    /\ \A n \in Due(v) : script[v].sent = n
  BY DEF CompleteIsTrue
<1> DEFINE x == visitor[v]
           t == transfer[v]
           s == script[v]
<1>1. /\ x \in VisitRecords /\ t \in TransferRecords /\ s \in ScriptRecords
      /\ VisitOk(Process, x, t, s, job[v])
  BY OfVisit
<1>2. Due(v) = DueOf(t)
  BY DEF Due, DueOf, AskOf
<1>3. CASE x.shown = "complete"
  BY <1>1, <1>2, <1>3 DEF VisitOk, ChannelOk
<1>4. CASE x.shown = "open" /\ \E h \in t.head : \E n \in h.length : n > 0 /\ x.got = n
  <2>0. PICK h \in t.head : \E n \in h.length : n > 0 /\ x.got = n
    BY <1>4
  <2>1. PICK n \in h.length : n > 0 /\ x.got = n
    BY <2>0
  <2>2. t.head # {} /\ DueOf(t) # {0} /\ (t.head = {} \/ \E e \in t.head : t.head = {e})
    BY <1>1, <1>4 DEF VisitOk, PhaseOk, ChannelOk
  <2>3. t.head = {h}
    BY <2>1, <2>2
  <2>4. n \in DueOf(t) /\ DueOf(t) \subseteq Nat
    BY <1>1, <2>1, <2>2, <2>3, DueIs
  <2>5. n \in Nat /\ x.got \in Nat /\ s.sent \in Nat /\ t.seen \in Nat /\ t.queue \in Seq(Messages)
        /\ t.out \in Seq(Messages) /\ t.tail \in 0..1
    BY <1>1, <2>4 DEF VisitRecords, ScriptRecords, TransferRecords
  <2>6. PICK q \in Nat : q = Queued(t.queue)
    BY <2>5, Counts
  <2> HIDE DEF x, t, s
  <2>7. CASE t.live
    <3>1. LiveOk(x, t, s)
      BY <1>1, <2>7 DEF VisitOk
    <3>2. PICK p \in Nat : p = Pending(t.out)
      BY <2>5, <3>1, Counts DEF LiveOk
    <3>3. PICK w \in Nat : w = Withholds(t)
      BY <2>5 DEF Withholds
    <3>4. x.got + q + p + w = t.seen /\ t.seen =< n /\ t.seen = s.sent
      BY <2>2, <2>4, <2>6, <3>1, <3>2, <3>3 DEF LiveOk
    <3>5. w = 0 /\ x.got = t.seen /\ t.seen > 0
      BY <2>1, <2>5, <3>4
    <3>6. t.tail = 1
      BY <3>1, <3>5 DEF LiveOk
    <3>7. Ending(t.out)
      BY <3>3, <3>5, <3>6 DEF Withholds
    <3>8. s.end = "good" /\ \A due \in DueOf(t) : t.seen = due
      BY <3>1, <3>7 DEF LiveOk
    <3> QED
      BY <1>2, <3>4, <3>5, <3>8 DEF x, s
  <2>8. CASE ~t.live
    <3>1. RestOk(x, t, s)
      BY <1>1, <2>8 DEF VisitOk
    <3>2. ~CutShort(x, t)
      <4>1. ~(x.got + q < n)
        BY <2>1, <2>5, <2>6
      <4> QED
        BY <2>1, <2>2, <2>4, <2>6, <4>1 DEF CutShort
    <3>3. WholeGiven(x, t, s)
      BY <3>1, <3>2 DEF RestOk
    <3>4. s.end = "good" /\ \A due \in DueOf(t) : s.sent = due
      BY <3>3 DEF WholeGiven
    <3>5. x.got = s.sent
      BY <2>1, <2>4, <3>4
    <3> QED
      BY <1>2, <3>4, <3>5 DEF x, s
  <2> QED
    BY <2>7, <2>8
<1> QED
  BY <1>3, <1>4 DEF Satisfied

\* The client has no byte the backend did not write.
LEMMA NothingInventedHolds ==
  ASSUME CgiInv
  PROVE  NothingInvented
<1> SUFFICES ASSUME NEW v \in Visits PROVE visitor[v].got =< script[v].sent
  BY DEF NothingInvented
<1> DEFINE x == visitor[v]
           t == transfer[v]
           s == script[v]
<1>1. /\ x \in VisitRecords /\ t \in TransferRecords /\ s \in ScriptRecords
      /\ VisitOk(Process, x, t, s, job[v])
  BY OfVisit
<1>2. x.got \in Nat /\ s.sent \in Nat /\ t.queue \in Seq(Messages) /\ t.out \in Seq(Messages) /\ t.tail \in 0..1
  BY <1>1 DEF VisitRecords, ScriptRecords, TransferRecords
<1>3. PICK q \in Nat : q = Queued(t.queue)
  BY <1>2, Counts
<1> HIDE DEF x, t, s
<1>4. CASE t.live
  <2>1. LiveOk(x, t, s)
    BY <1>1, <1>4 DEF VisitOk
  <2>2. PICK p \in Nat : p = Pending(t.out)
    BY <1>2, <2>1, Counts DEF LiveOk
  <2>3. PICK w \in Nat : w = Withholds(t)
    BY <1>2 DEF Withholds
  <2>4. x.got + q + p + w = s.sent
    BY <1>3, <2>1, <2>2, <2>3 DEF LiveOk
  <2> QED
    BY <1>2, <2>4 DEF x, s
<1>5. CASE ~t.live
  <2>1. x.got + q =< s.sent
    BY <1>1, <1>3, <1>5 DEF VisitOk, RestOk
  <2> QED
    BY <1>2, <2>1 DEF x, s
<1> QED
  BY <1>4, <1>5

\* Processes are among those that count.
LEMMA ProcessesHold ==
  ASSUME CgiInv
  PROVE  ProcessesBounded
<1> DEFINE Alive == {v \in Visits : job[v].process = "alive"}
<1>1. Alive \subseteq Counted(job)
  BY DEF Counted
<1>2. IsFiniteSet(Counted(job)) /\ Cardinality(Counted(job)) \in Nat
  BY CountedFinite
<1>3. IsFiniteSet(Alive) /\ Cardinality(Alive) =< Cardinality(Counted(job)) /\ Cardinality(Alive) \in Nat
  BY <1>1, <1>2, FS_Subset, FS_CardinalityType
<1>4. Cardinality(Counted(job)) =< directive.concurrency /\ directive.concurrency \in Nat
  BY ConcurrencyNat DEF CgiInv, ProcessesOk
<1> QED
  BY <1>2, <1>3, <1>4 DEF ProcessesBounded

\* Permits, slots and replies.
LEMMA OwnersHold ==
  ASSUME CgiInv
  PROVE  CapacityOwned /\ ReplyOwed
<1>1. ASSUME NEW v \in Visits
      PROVE  /\ job[v].permit => visitor[v].running = "queueing" \/ job[v].at \in {"queued", "running", "cleaning"}
             /\ visitor[v].slot <=> visitor[v].at = "buffering" \/ visitor[v].running \notin {"none", "done"}
  BY OfVisit DEF VisitOk, PhaseOk, JobOk
<1>2. ASSUME NEW v \in Visits, visitor[v].running = "awaiting"
      PROVE  LET g == job[v].gen IN
             \/ job[v].at = "queued" /\ v \in Range(supervisor[g].line) /\ ~Deaf(g)
             \/ job[v].at \in {"running", "cleaning"} /\ supervisor[g].stage # "ended"
  <2>1. job[v].at \in {"queued", "running", "cleaning"} /\ job[v].gen \in Generations
    BY <1>2, OfVisit DEF VisitOk, JobOk, JobRecords
  <2>2. CASE job[v].at = "queued"
    <3>1. v \in Range(supervisor[job[v].gen].line)
      BY <2>1, <2>2, InLine
    <3>2. supervisor[job[v].gen].line # <<>>
      BY <3>1 DEF Range
    <3>3. ~Deaf(job[v].gen)
      BY <2>1, <3>2 DEF CgiInv, LinesOk, Deaf
    <3> QED
      BY <2>2, <3>1, <3>3
  <2>3. CASE job[v].at \in {"running", "cleaning"}
    <3>1. supervisor[job[v].gen].stage \in {"running", "fenced", "stopping"}
      BY <2>3 DEF CgiInv, LinesOk
    <3> QED
      BY <2>3, <3>1
  <2> QED
    BY <2>1, <2>2, <2>3
<1> QED
  BY <1>1, <1>2 DEF CapacityOwned, ReplyOwed

\* What a client takes for a complete answer is exactly what the backend wrote
\* and ended with success; no more processes exist than the directive allows;
\* permits and slots are owned, and whoever waits for a reply is owed one.
THEOREM CgiIsSound == CgiSpec => []CgiSound
<1>1. CgiInit => CgiInv
  BY CgiStarts
<1>2. CgiInv /\ [CgiNext]_cgiVars => CgiInv'
  BY CgiSteps
<1>3. CgiInv => CgiSound
  BY CompleteHolds, NothingInventedHolds, ProcessesHold, OwnersHold DEF CgiSound
<1> QED
  BY <1>1, <1>2, <1>3, PTL DEF CgiSpec

-----------------------------------------------------------------------------
(* The chain of handlers: what is true of a request on its way.            *)

Listed(s) == s \in Seq(Elements(s))
Chains == {Built[config] : config \in DOMAIN Built}

RunFields == {"pc", "chain", "quota", "at", "stack", "q", "depot", "res", "file", "refused", "timedOut",
              "received", "from", "started", "pending", "lines"}
\* What every record of a request has, whatever is in its headers.
Shaped(r) ==
  /\ DOMAIN r = RunFields
  /\ DOMAIN r.depot = {"generated", "selected", "offers", "layers", "limits"}
  /\ DOMAIN r.res = {"status", "headers", "body"}
  /\ DOMAIN r.file = {"path", "source", "coding", "transform", "opened", "want"}
  /\ "of" \in DOMAIN r.res.body
  /\ {"frames", "headers", "path"} \subseteq DOMAIN r.q
  /\ r.q.frames \in Seq(Nat)
  /\ r.chain \in Chains

\* The handlers that wait for the rest of the chain, first to last.
Waiting(r) == {r.stack[k].at : k \in DOMAIN r.stack}
StackOk(r) ==
  /\ Listed(r.stack)
  /\ \A k \in DOMAIN r.stack : r.stack[k].at \in 1..(r.at - 1)
  /\ \A j, k \in DOMAIN r.stack : j < k => r.stack[j].at < r.stack[k].at

\* Every log that was passed waits for the answer or, once, for its body, or
\* has written its line.
LogOk(r, waiting) ==
  /\ r.lines \in Seq(Nat)
  /\ \A i, j \in DOMAIN r.lines : r.lines[i] = r.lines[j] => i = j
  /\ r.pending \in SUBSET DOMAIN r.chain
  /\ Elements(r.lines) \cap r.pending = {}
  /\ (Elements(r.lines) \cup r.pending) \cap waiting = {}
  /\ r.started = {i \in waiting : r.chain[i].name = "access-log"} \cup r.pending \cup Elements(r.lines)

\* Files are those of the server at the end of the chain.
PublicOk(r) ==
  r.file.path # <<>> =>
    LET root == r.chain[Len(r.chain)].config.root IN PublicTarget(root, r.file.path) /\ PublicTarget(root, r.file.source)

\* On the way in: nothing has been decided, and the limits that were passed
\* are on record.
Going(r) ==
  /\ Shaped(r) /\ StackOk(r) /\ LogOk(r, Waiting(r)) /\ PublicOk(r)
  /\ r.at \in DOMAIN r.chain
  /\ r.refused = 0 /\ r.from = "none" /\ r.timedOut = FALSE
  /\ r.lines = <<>> /\ r.pending = {}
  /\ r.depot.limits \in SUBSET Nat
  /\ \A i \in 1..(r.at - 1) : r.chain[i].name = "body-limit" => r.chain[i].config.max \in r.depot.limits

\* On the way out.
WithinLimits(r) == \A i \in DOMAIN r.chain : r.chain[i].name = "body-limit" => r.received <= r.chain[i].config.max
Faithful(r) ==
  /\ r.refused # 0 => r.from = "none" /\ r.received = -1 /\ r.file.path = <<>> /\ r.res.status = r.refused
  /\ r.from = "backend" =>
       /\ r.depot.generated = FALSE
       /\ \/ r.res.body.of = "backend"
          \/ \E i \in DOMAIN r.chain : r.chain[i].name = "error-pages" /\ r.chain[i].config.all
Over(r, waiting) ==
  /\ Shaped(r) /\ StackOk(r) /\ LogOk(r, waiting) /\ PublicOk(r)
  /\ r.at = Len(r.chain) + 1
  /\ WithinLimits(r) /\ Faithful(r)

Inward == {"down"} \cup Awaiting
Terminal == [pc \in {"list", "open", "reopen", "read", "backend"} |-> IF pc = "backend" THEN "proxy" ELSE "file-server"]
\* Where a request stands says what it may have done.
InPlace(r) ==
  /\ r.depot.generated = FALSE /\ r.received = -1
  /\ r.pc \in {"down", "verify", "ask", "backend"} => r.file.path = <<>>
  /\ r.pc = "verify" => r.chain[r.at].name = "basic-auth"
  /\ r.pc = "ask" => r.chain[r.at].name = "forward-auth"
  /\ r.pc \in DOMAIN Terminal => r.at = Len(r.chain) /\ r.chain[r.at].name = Terminal[r.pc]
Active(r) ==
  \/ r.pc \in Inward /\ Going(r) /\ InPlace(r)
  \/ r.pc = "up" /\ Over(r, Waiting(r)) /\ r.stack # <<>>
  \/ r.pc = "answered" /\ Over(r, Waiting(r)) /\ r.stack = <<>>
Resting(r) ==
  /\ r.pc \in {"idle", "done", "gone"}
  /\ r.refused = 0 /\ r.chain = <<>> /\ r.file.path = <<>>
  /\ \A i, j \in DOMAIN r.lines : r.lines[i] = r.lines[j] => i = j
  /\ r.pc = "done" => Elements(r.lines) = r.started

MidInv ==
  /\ serving.chain \in Chains /\ DOMAIN serving = {"chain", "quota", "reloads"}
  /\ DOMAIN run = Callers
  /\ \A c \in Callers : Active(run[c]) \/ Resting(run[c])

-----------------------------------------------------------------------------
(* Lists.                                                                  *)

\* A sequence of anything is a list.
LEMMA IsListed ==
  ASSUME NEW A, NEW s \in Seq(A)
  PROVE  Listed(s)
<1>1. Len(s) \in Nat /\ DOMAIN s = 1..Len(s) /\ s = [i \in 1..Len(s) |-> s[i]]
  OBVIOUS
<1>2. \A i \in 1..Len(s) : s[i] \in Elements(s)
  BY <1>1 DEF Elements
<1>3. s \in [1..Len(s) -> Elements(s)]
  BY <1>1, <1>2
<1> QED
  BY <1>1, <1>3 DEF Listed

LEMMA ListedLen ==
  ASSUME NEW s, Listed(s)
  PROVE  Len(s) \in Nat /\ DOMAIN s = 1..Len(s) /\ (s = <<>> <=> Len(s) = 0)
  BY DEF Listed

LEMMA ListedAppend ==
  ASSUME NEW s, Listed(s), NEW x
  PROVE  /\ Listed(Append(s, x)) /\ Len(Append(s, x)) = Len(s) + 1 /\ Append(s, x) # <<>>
         /\ \A i \in DOMAIN s : Append(s, x)[i] = s[i]
         /\ Append(s, x)[Len(s) + 1] = x
<1>1. s \in Seq(Elements(s) \cup {x}) /\ x \in Elements(s) \cup {x}
  BY DEF Listed
<1>2. /\ Append(s, x) \in Seq(Elements(s) \cup {x}) /\ Len(Append(s, x)) = Len(s) + 1 /\ Append(s, x) # <<>>
      /\ \A i \in DOMAIN s : Append(s, x)[i] = s[i]
      /\ Append(s, x)[Len(s) + 1] = x
  BY <1>1
<1> QED
  BY <1>2, IsListed

LEMMA ListedPrefix ==
  ASSUME NEW s, Listed(s), NEW k \in 0..Len(s)
  PROVE  /\ Listed(SubSeq(s, 1, k)) /\ Len(SubSeq(s, 1, k)) = k
         /\ \A i \in 1..k : SubSeq(s, 1, k)[i] = s[i]
<1>1. /\ SubSeq(s, 1, k) \in Seq(Elements(s)) /\ Len(SubSeq(s, 1, k)) = k
      /\ \A i \in 1..k : SubSeq(s, 1, k)[i] = s[i]
  BY DEF Listed
<1> QED
  BY <1>1, IsListed

\* Chains are lists that are not empty.
LEMMA ChainIs ==
  ASSUME NEW chain \in Chains
  PROVE  /\ Listed(chain) /\ Len(chain) \in Nat \ {0} /\ DOMAIN chain = 1..Len(chain)
         /\ \A i \in DOMAIN chain : chain[i].name = "body-limit" => chain[i].config.max \in Nat
<1>1. PICK config \in DOMAIN Built : chain = Built[config]
  BY DEF Chains
<1>2. chain # <<>> /\ Listed(chain)
  BY <1>1, MiddlewareSizes DEF Listed
<1>3. \A d \in Elements(chain) : d.name = "body-limit" => d.config.max \in Nat
  BY <1>1, MiddlewareSizes
<1>4. \A i \in DOMAIN chain : chain[i] \in Elements(chain)
  BY DEF Elements
<1> QED
  BY <1>2, <1>3, <1>4, ListedLen
-----------------------------------------------------------------------------
(* What leaves the rest of a request alone.                                *)

\* Another answer's headers, or another path: whatever the invariant looks at
\* is the same.
Kin(r, s) ==
  /\ Shaped(s)
  /\ s.chain = r.chain /\ s.at = r.at /\ s.stack = r.stack /\ s.file = r.file
  /\ s.refused = r.refused /\ s.timedOut = r.timedOut /\ s.received = r.received /\ s.from = r.from
  /\ s.started = r.started /\ s.pending = r.pending /\ s.lines = r.lines
  /\ s.depot.generated = r.depot.generated /\ s.depot.limits = r.depot.limits
  /\ s.res.status = r.res.status /\ s.res.body.of = r.res.body.of
Like(r, s) == Kin(r, s) /\ s.pc = r.pc

LEMMA LikeItself == ASSUME NEW r, Shaped(r) PROVE Like(r, r)
  BY DEF Like, Kin

LEMMA LikeTrans == ASSUME NEW r, NEW s, NEW t, Like(r, s), Like(s, t) PROVE Like(r, t)
  BY DEF Like, Kin

LEMMA LikeHeaders ==
  ASSUME NEW r, Shaped(r), NEW h
  PROVE  Like(r, [r EXCEPT !.res.headers = h])
<1> DEFINE s == [r EXCEPT !.res.headers = h]
<1>1. /\ DOMAIN s = RunFields /\ s.pc = r.pc /\ s.chain = r.chain /\ s.at = r.at /\ s.stack = r.stack /\ s.file = r.file
      /\ s.refused = r.refused /\ s.timedOut = r.timedOut /\ s.received = r.received /\ s.from = r.from
      /\ s.started = r.started /\ s.pending = r.pending /\ s.lines = r.lines /\ s.depot = r.depot /\ s.q = r.q
      /\ s.res = [r.res EXCEPT !.headers = h]
  BY DEF Shaped, RunFields
<1>2. DOMAIN s.res = DOMAIN r.res /\ s.res.status = r.res.status /\ s.res.body = r.res.body
  BY <1>1 DEF Shaped
<1> HIDE DEF s
<1> QED
  BY <1>1, <1>2 DEF Shaped, Like, Kin

LEMMA LikeWithHeader ==
  ASSUME NEW r, Shaped(r), NEW n, NEW v
  PROVE  Like(r, WithHeader(r, n, v))
<1> DEFINE h == InsertHeader(r.res.headers, n, v)
<1>1. WithHeader(r, n, v) = [r EXCEPT !.res.headers = h]
  BY DEF WithHeader
<1> HIDE DEF h
<1> QED
  BY <1>1, LikeHeaders

LEMMA LikeVaried ==
  ASSUME NEW r, Shaped(r), NEW n
  PROVE  Like(r, Varied(r, n))
<1> DEFINE names == HeaderOf(r.res.headers, "vary")
           h == [k \in DOMAIN r.res.headers \cup {"vary"} |->
                   IF k # "vary" THEN r.res.headers[k] ELSE IF "*" \in names THEN {"*"} ELSE names \cup {n}]
<1>1. Varied(r, n) = [r EXCEPT !.res.headers = h]
  BY DEF Varied
<1> HIDE DEF h
<1> QED
  BY <1>1, LikeHeaders

LEMMA LikeOptional ==
  ASSUME NEW r, Shaped(r), NEW n, NEW values
  PROVE  Like(r, WithOptional(r, n, values))
  BY LikeWithHeader, LikeItself DEF WithOptional

\* Headers one after the other.
LEMMA LikeAgain ==
  ASSUME NEW r, NEW s, Like(r, s), NEW n, NEW v
  PROVE  Like(r, WithHeader(s, n, v)) /\ Like(r, Varied(s, n)) /\ Like(r, WithOptional(s, n, v))
<1>1. Shaped(s)
  BY DEF Like, Kin
<1>2. Like(s, WithHeader(s, n, v)) /\ Like(s, Varied(s, n)) /\ Like(s, WithOptional(s, n, v))
  BY <1>1, LikeWithHeader, LikeVaried, LikeOptional
<1> QED
  BY <1>2, LikeTrans

LEMMA LikeAllowOrigin ==
  ASSUME NEW r, NEW s, Like(r, s), NEW q, NEW c
  PROVE  Like(r, AllowOrigin(s, q, c))
<1> DEFINE o == Origins(c, q)
           allow == IF c.any /\ ~c.credentials THEN "*" ELSE Read(o)
           said == WithHeader(s, "access-control-allow-origin", allow)
           more == WithHeader(said, "access-control-allow-credentials", "true")
<1>1. AllowOrigin(s, q, c) = (CASE o = {} -> s [] o # {} /\ c.credentials -> more [] OTHER -> said)
  BY DEF AllowOrigin
<1>2. Like(r, said)
  BY LikeAgain
<1>3. Like(r, more)
  BY <1>2, LikeAgain
<1> HIDE DEF said, more, o
<1>4. AllowOrigin(s, q, c) \in {s, more, said}
  BY <1>1
<1> QED
  BY <1>2, <1>3, <1>4
LEMMA LikePreflight ==
  ASSUME NEW r, NEW s, Like(r, s), NEW c
  PROVE  Like(r, Preflight(s, c))
<1> DEFINE one == Varied(s, "access-control-request-method")
           asked == Varied(one, "access-control-request-headers")
           allowed == AllowOrigin(asked, s.q, c)
           methods == WithHeader(allowed, "access-control-allow-methods", OrElse(c.methods, "default"))
           headers == WithOptional(methods, "access-control-allow-headers", c.headers)
           age == WithOptional(headers, "access-control-max-age", c.max)
<1>1. Preflight(s, c) = IF Origins(c, s.q) = {} THEN asked ELSE age
  BY DEF Preflight
<1>2. Like(r, one)
  BY LikeAgain
<1>3. Like(r, asked)
  BY <1>2, LikeAgain
<1>4. Like(r, allowed)
  BY <1>3, LikeAllowOrigin
<1>5. Like(r, methods)
  BY <1>4, LikeAgain
<1>6. Like(r, headers)
  BY <1>5, LikeAgain
<1>7. Like(r, age)
  BY <1>6, LikeAgain
<1> QED
  BY <1>1, <1>3, <1>7

LEMMA LikeRate ==
  ASSUME NEW r, NEW s, Like(r, s), NEW c, NEW n
  PROVE  Like(r, RateHeaders(s, c, n))
<1>1. Like(r, WithHeader(s, "x-ratelimit-limit", c.max))
  BY LikeAgain
<1> QED
  BY <1>1, LikeAgain DEF RateHeaders

LEMMA LikeNoStore ==
  ASSUME NEW r, NEW s, Like(r, s)
  PROVE  Like(r, NoStore(s))
<1>1. Like(r, WithHeader(s, "cache-control", "no-store"))
  BY LikeAgain
<1> QED
  BY <1>1, LikeAgain DEF NoStore

\* The invariant looks at nothing else.
LEMMA KinGoing ==
  ASSUME NEW r, NEW s, Going(r), Kin(r, s)
  PROVE  Going(s)
<1>1. StackOk(s) /\ Waiting(s) = Waiting(r) /\ PublicOk(s)
  BY DEF Going, Kin, StackOk, Waiting, PublicOk
<1>2. LogOk(s, Waiting(s))
  BY <1>1 DEF Going, Kin, LogOk
<1> QED
  BY <1>1, <1>2 DEF Going, Kin

LEMMA KinOver ==
  ASSUME NEW r, NEW s, NEW waiting, Over(r, waiting), Kin(r, s)
  PROVE  Over(s, waiting) /\ Waiting(s) = Waiting(r)
<1>1. StackOk(s) /\ Waiting(s) = Waiting(r) /\ PublicOk(s)
  BY DEF Over, Kin, StackOk, Waiting, PublicOk
<1>2. LogOk(s, waiting)
  BY <1>1 DEF Over, Kin, LogOk
<1>3. WithinLimits(s) /\ Faithful(s)
  BY DEF Over, Kin, WithinLimits, Faithful
<1> QED
  BY <1>1, <1>2, <1>3 DEF Over, Kin

LEMMA KinPc ==
  ASSUME NEW r, Shaped(r), NEW pc
  PROVE  Kin(r, [r EXCEPT !.pc = pc]) /\ [r EXCEPT !.pc = pc].pc = pc
  BY DEF Kin, Shaped, RunFields

-----------------------------------------------------------------------------
(* The ways a handler ends.                                                *)

LEMMA ReturnsOver ==
  ASSUME NEW r, Over(r, Waiting(r))
  PROVE  Active(Returns(r))
<1> DEFINE pc == IF r.stack # <<>> THEN "up" ELSE "answered"
           s == [r EXCEPT !.pc = pc]
<1>1. Shaped(r) /\ r.at = Len(r.chain) + 1
  BY DEF Over
<1>2. Len(r.chain) \in Nat
  BY <1>1, ChainIs DEF Shaped
<1>3. ~(r.at <= Len(r.chain))
  BY <1>1, <1>2
<1>4. Returns(r) = s
  BY <1>3 DEF Returns
<1>5. Kin(r, s) /\ s.pc = pc
  BY <1>1, KinPc
<1> HIDE DEF s
<1>6. Over(s, Waiting(s)) /\ s.stack = r.stack
  BY <1>5, KinOver DEF Kin
<1> QED
  BY <1>4, <1>5, <1>6 DEF Active

\* What is decided on the way in is over.
LEMMA GoingOver ==
  ASSUME NEW r, NEW s, Going(r), Shaped(s), s.chain = r.chain, s.stack = r.stack, s.file = r.file,
         s.lines = r.lines, s.pending = r.pending, s.started = r.started, s.at = Len(r.chain) + 1,
         WithinLimits(s), Faithful(s)
  PROVE  Active(Returns(s))
<1>1. Len(r.chain) \in Nat /\ r.at \in 1..Len(r.chain)
  BY ChainIs DEF Going, Shaped
<1>2. StackOk(s) /\ Waiting(s) = Waiting(r) /\ PublicOk(s)
  BY <1>1 DEF Going, StackOk, Waiting, PublicOk
<1>3. LogOk(s, Waiting(s))
  BY <1>2 DEF Going, LogOk
<1>4. Over(s, Waiting(s))
  BY <1>2, <1>3 DEF Over
<1> QED
  BY <1>4, ReturnsOver

\* Nothing was sent to a backend.
LEMMA NothingSent ==
  ASSUME NEW r, Shaped(r), r.received = -1
  PROVE  WithinLimits(r)
  BY ChainIs DEF WithinLimits, Shaped

LEMMA RefusesOk ==
  ASSUME NEW r, Going(r), r.received = -1, r.file.path = <<>>, NEW status
  PROVE  Active(Refuses(r, status))
<1> DEFINE g == Generated(r)
           s == [g EXCEPT !.at = Ended(r), !.res.status = status, !.res.body = TextBody("refusal", 4), !.refused = status]
<1>1. Shaped(r)
  BY DEF Going
<1>2. /\ DOMAIN g = RunFields /\ g.res = r.res /\ g.depot = [r.depot EXCEPT !.generated = TRUE]
      /\ \A f \in RunFields \ {"depot"} : g[f] = r[f]
  BY <1>1 DEF Generated, Shaped, RunFields
<1>3. DOMAIN g.depot = DOMAIN r.depot
  BY <1>1, <1>2 DEF Shaped
<1>4. Refuses(r, status) = Returns(s)
  BY DEF Refuses
<1> HIDE DEF g
<1>5. /\ DOMAIN s = RunFields /\ s.at = Ended(r) /\ s.refused = status /\ s.depot = g.depot
      /\ s.res = [r.res EXCEPT !.status = status, !.body = TextBody("refusal", 4)]
      /\ s.chain = r.chain /\ s.stack = r.stack /\ s.file = r.file /\ s.q = r.q
      /\ s.lines = r.lines /\ s.pending = r.pending /\ s.started = r.started
      /\ s.received = r.received /\ s.from = r.from
  BY <1>1, <1>2 DEF Shaped, RunFields
<1>6. DOMAIN s.res = DOMAIN r.res /\ s.res.status = status /\ s.res.body = TextBody("refusal", 4)
  BY <1>1, <1>5 DEF Shaped
<1> HIDE DEF s
<1>7. Shaped(s)
  BY <1>1, <1>3, <1>5, <1>6 DEF Shaped, TextBody
<1>8. WithinLimits(s)
  BY <1>5, <1>7, NothingSent
<1>9. Faithful(s)
  BY <1>5, <1>6 DEF Faithful, Going
<1> QED
  BY <1>4, <1>5, <1>7, <1>8, <1>9, GoingOver DEF Ended

LEMMA DivertsOk ==
  ASSUME NEW r, Going(r), r.received = -1, r.file.path = <<>>, NEW status
  PROVE  Active(Diverts(r, status))
<1> DEFINE s == [r EXCEPT !.at = Ended(r), !.res.status = status, !.refused = status]
<1>1. Shaped(r)
  BY DEF Going
<1>4. Diverts(r, status) = Returns(s)
  BY DEF Diverts
<1>5. /\ DOMAIN s = RunFields /\ s.at = Ended(r) /\ s.refused = status /\ s.depot = r.depot
      /\ s.res = [r.res EXCEPT !.status = status]
      /\ s.chain = r.chain /\ s.stack = r.stack /\ s.file = r.file /\ s.q = r.q
      /\ s.lines = r.lines /\ s.pending = r.pending /\ s.started = r.started
      /\ s.received = r.received /\ s.from = r.from
  BY <1>1 DEF Shaped, RunFields
<1>6. DOMAIN s.res = DOMAIN r.res /\ s.res.status = status /\ s.res.body = r.res.body
  BY <1>1, <1>5 DEF Shaped
<1> HIDE DEF s
<1>7. Shaped(s)
  BY <1>1, <1>5, <1>6 DEF Shaped
<1>8. WithinLimits(s)
  BY <1>5, <1>7, NothingSent
<1>9. Faithful(s)
  BY <1>5, <1>6 DEF Faithful, Going
<1> QED
  BY <1>4, <1>5, <1>7, <1>8, <1>9, GoingOver DEF Ended

LEMMA FinishesOk ==
  ASSUME NEW r, Going(r), WithinLimits(r), NEW status, NEW of, of # "backend", NEW len
  PROVE  Active(Finishes(r, status, of, len))
<1> DEFINE s == [r EXCEPT !.at = Ended(r), !.res.status = status, !.res.body = TextBody(of, len), !.from = of]
<1>1. Shaped(r)
  BY DEF Going
<1>4. Finishes(r, status, of, len) = Returns(s)
  BY DEF Finishes
<1>5. /\ DOMAIN s = RunFields /\ s.at = Ended(r) /\ s.refused = r.refused /\ s.depot = r.depot
      /\ s.res = [r.res EXCEPT !.status = status, !.body = TextBody(of, len)]
      /\ s.chain = r.chain /\ s.stack = r.stack /\ s.file = r.file /\ s.q = r.q
      /\ s.lines = r.lines /\ s.pending = r.pending /\ s.started = r.started
      /\ s.received = r.received /\ s.from = of
  BY <1>1 DEF Shaped, RunFields
<1>6. DOMAIN s.res = DOMAIN r.res /\ s.res.status = status /\ s.res.body = TextBody(of, len)
  BY <1>1, <1>5 DEF Shaped
<1> HIDE DEF s
<1>7. Shaped(s)
  BY <1>1, <1>5, <1>6 DEF Shaped, TextBody
<1>8. WithinLimits(s)
  BY <1>5 DEF WithinLimits
<1>9. Faithful(s)
  BY <1>5 DEF Faithful, Going
<1> QED
  BY <1>4, <1>5, <1>7, <1>8, <1>9, GoingOver DEF Ended

\* Whose answer it is makes no difference on the way in.
LEMMA GoingGenerated ==
  ASSUME NEW r, Going(r)
  PROVE  /\ Going(Generated(r)) /\ Generated(r).received = r.received /\ Generated(r).chain = r.chain
         /\ Generated(r).file = r.file
<1> DEFINE s == Generated(r)
<1>1. Shaped(r)
  BY DEF Going
<1>2. /\ DOMAIN s = RunFields /\ s.depot = [r.depot EXCEPT !.generated = TRUE]
      /\ s.chain = r.chain /\ s.at = r.at /\ s.stack = r.stack /\ s.file = r.file /\ s.q = r.q /\ s.res = r.res
      /\ s.refused = r.refused /\ s.timedOut = r.timedOut /\ s.received = r.received /\ s.from = r.from
      /\ s.started = r.started /\ s.pending = r.pending /\ s.lines = r.lines
  BY <1>1 DEF Generated, Shaped, RunFields
<1>3. DOMAIN s.depot = DOMAIN r.depot /\ s.depot.limits = r.depot.limits
  BY <1>1, <1>2 DEF Shaped
<1> HIDE DEF s
<1>4. Shaped(s)
  BY <1>1, <1>2, <1>3 DEF Shaped
<1>5. StackOk(s) /\ Waiting(s) = Waiting(r) /\ PublicOk(s)
  BY <1>2 DEF Going, StackOk, Waiting, PublicOk
<1>6. LogOk(s, Waiting(s))
  BY <1>2, <1>5 DEF Going, LogOk
<1>7. Going(s)
  BY <1>2, <1>3, <1>4, <1>5, <1>6 DEF Going
<1> QED
  BY <1>2, <1>7 DEF s

LEMMA FailsOk ==
  ASSUME NEW r, Going(r), WithinLimits(r), NEW status
  PROVE  Active(Fails(r, status))
<1>1. Going(Generated(r)) /\ WithinLimits(Generated(r))
  BY GoingGenerated DEF WithinLimits
<1> QED
  BY <1>1, FinishesOk DEF Fails
\* A handler that is about to call the next one: what it has to remember is
\* on record.
Ready(r) ==
  /\ Shaped(r) /\ StackOk(r)
  /\ r.at \in DOMAIN r.chain
  /\ r.refused = 0 /\ r.from = "none" /\ r.timedOut = FALSE
  /\ r.lines = <<>> /\ r.pending = {}
  /\ r.depot.limits \in SUBSET Nat
  /\ \A i \in 1..r.at : r.chain[i].name = "body-limit" => r.chain[i].config.max \in r.depot.limits
  /\ r.started = {i \in Waiting(r) \cup {r.at} : r.chain[i].name = "access-log"}
  /\ r.depot.generated = FALSE /\ r.received = -1 /\ r.file.path = <<>>

LEMMA GoingReady ==
  ASSUME NEW r, Going(r), r.depot.generated = FALSE, r.received = -1, r.file.path = <<>>,
         r.chain[r.at].name \notin {"access-log", "body-limit"}
  PROVE  Ready(r)
<1>1. Len(r.chain) \in Nat /\ DOMAIN r.chain = 1..Len(r.chain)
  BY ChainIs DEF Going, Shaped
<1>2. \A i \in 1..r.at : i = r.at \/ i \in 1..(r.at - 1)
  BY <1>1 DEF Going
<1>3. \A i \in 1..r.at : r.chain[i].name = "body-limit" => r.chain[i].config.max \in r.depot.limits
  BY <1>2 DEF Going
<1>4. Elements(r.lines) = {}
  BY DEF Going, Elements
<1>5. r.started = {i \in Waiting(r) \cup {r.at} : r.chain[i].name = "access-log"}
  BY <1>4 DEF Going, LogOk
<1> QED
  BY <1>3, <1>5 DEF Going, Ready

LEMMA KinReady ==
  ASSUME NEW r, NEW s, Ready(r), Kin(r, s)
  PROVE  Ready(s)
<1>1. StackOk(s) /\ Waiting(s) = Waiting(r)
  BY DEF Ready, Kin, StackOk, Waiting
<1> QED
  BY <1>1 DEF Ready, Kin

LEMMA CallsNext ==
  ASSUME NEW r, Ready(r), NEW frame, frame.at = r.at
  PROVE  Active(CallNext(frame, r))
<1> DEFINE s == [r EXCEPT !.stack = Append(@, frame), !.at = @ + 1]
           n == Len(r.chain)
<1>1. Shaped(r) /\ n \in Nat \ {0} /\ DOMAIN r.chain = 1..n /\ r.at \in 1..n
  BY ChainIs DEF Ready, Shaped
<1>2. /\ DOMAIN s = RunFields /\ s.stack = Append(r.stack, frame) /\ s.at = r.at + 1 /\ s.depot = r.depot
      /\ s.chain = r.chain /\ s.file = r.file /\ s.q = r.q /\ s.res = r.res
      /\ s.refused = r.refused /\ s.timedOut = r.timedOut /\ s.received = r.received /\ s.from = r.from
      /\ s.started = r.started /\ s.pending = r.pending /\ s.lines = r.lines
  BY <1>1 DEF Shaped, RunFields
<1>3. CallNext(frame, r) = Returns(s)
  BY DEF CallNext
<1> HIDE DEF s
<1>4. Shaped(s)
  BY <1>1, <1>2 DEF Shaped
<1>5. /\ Listed(s.stack) /\ Len(s.stack) = Len(r.stack) + 1 /\ s.stack # <<>>
      /\ \A k \in DOMAIN r.stack : s.stack[k] = r.stack[k]
      /\ s.stack[Len(r.stack) + 1] = frame
  BY <1>2, ListedAppend DEF Ready, StackOk
<1>6. /\ Len(r.stack) \in Nat /\ DOMAIN r.stack = 1..Len(r.stack) /\ DOMAIN s.stack = 1..(Len(r.stack) + 1)
  BY <1>5, ListedLen DEF Ready, StackOk
<1>7. \A k \in DOMAIN s.stack : k \in DOMAIN r.stack \/ k = Len(r.stack) + 1
  BY <1>6
<1>8. StackOk(s)
  <2>1. \A k \in DOMAIN r.stack : r.stack[k].at \in 1..(r.at - 1)
    BY DEF Ready, StackOk
  <2>2. \A k \in DOMAIN s.stack : s.stack[k].at \in 1..(s.at - 1)
    BY <1>1, <1>2, <1>5, <1>7, <2>1
  <2>3. ASSUME NEW j \in DOMAIN s.stack, NEW k \in DOMAIN s.stack, j < k
        PROVE  s.stack[j].at < s.stack[k].at
    <3>1. j \in DOMAIN r.stack
      BY <1>6, <2>3
    <3>2. CASE k \in DOMAIN r.stack
      BY <1>5, <2>3, <3>1, <3>2 DEF Ready, StackOk
    <3>3. CASE k = Len(r.stack) + 1
      BY <1>1, <1>5, <2>1, <3>1, <3>3
    <3> QED
      BY <1>7, <3>2, <3>3
  <2> QED
    BY <1>5, <2>2, <2>3 DEF StackOk
<1>9. Waiting(s) = Waiting(r) \cup {r.at}
  <2>1. \A x \in Waiting(s) : x \in Waiting(r) \cup {r.at}
    BY <1>5, <1>7 DEF Waiting
  <2>2. \A x \in Waiting(r) : x \in Waiting(s)
    <3> SUFFICES ASSUME NEW k \in DOMAIN r.stack PROVE r.stack[k].at \in Waiting(s)
      BY DEF Waiting
    <3>1. k \in DOMAIN s.stack /\ s.stack[k] = r.stack[k]
      BY <1>5, <1>6
    <3> QED
      BY <3>1 DEF Waiting
  <2>3. r.at \in Waiting(s)
    <3>1. Len(r.stack) + 1 \in DOMAIN s.stack
      BY <1>6
    <3> QED
      BY <1>5, <3>1 DEF Waiting
  <2> QED
    BY <2>1, <2>2, <2>3
<1>10. Elements(s.lines) = {} /\ s.lines \in Seq(Nat) /\ \A i, j \in DOMAIN s.lines : s.lines[i] = s.lines[j] => i = j
  BY <1>2 DEF Ready, Elements
<1>11. LogOk(s, Waiting(s))
  BY <1>2, <1>9, <1>10 DEF Ready, LogOk
<1>12. PublicOk(s)
  BY <1>2 DEF PublicOk, Ready
<1>13. CASE s.at <= Len(s.chain)
  <2> DEFINE t == [s EXCEPT !.pc = "down"]
  <2>1. Returns(s) = t
    BY <1>13 DEF Returns
  <2>2. Going(s)
    <3>1. s.at \in DOMAIN s.chain
      BY <1>1, <1>2, <1>13
    <3>2. \A i \in 1..(s.at - 1) : s.chain[i].name = "body-limit" => s.chain[i].config.max \in s.depot.limits
      BY <1>1, <1>2 DEF Ready
    <3> QED
      BY <1>2, <1>4, <1>8, <1>11, <1>12, <3>1, <3>2 DEF Ready, Going
  <2>3. Kin(s, t) /\ t.pc = "down"
    BY <1>4, KinPc
  <2> HIDE DEF t
  <2>4. Going(t) /\ InPlace(t)
    BY <1>2, <2>2, <2>3, KinGoing DEF InPlace, Kin, Ready, Terminal
  <2> QED
    BY <1>3, <2>1, <2>3, <2>4 DEF Active, Inward
<1>14. CASE ~(s.at <= Len(s.chain))
  <2>1. s.at = Len(s.chain) + 1
    BY <1>1, <1>2, <1>14
  <2>2. WithinLimits(s) /\ Faithful(s)
    BY <1>2, <1>4, NothingSent DEF Ready, Faithful
  <2>3. Over(s, Waiting(s))
    BY <1>4, <1>8, <1>11, <1>12, <2>1, <2>2 DEF Over
  <2> QED
    BY <1>3, <2>3, ReturnsOver
<1> QED
  BY <1>13, <1>14

LEMMA PassesOk ==
  ASSUME NEW r, Ready(r)
  PROVE  Active(Passes(r))
  BY CallsNext DEF Passes, Frame
\* The request's own headers and path, and what the depot keeps for the answer.
LEMMA LikeAsked ==
  ASSUME NEW r, Shaped(r), NEW h
  PROVE  Like(r, [r EXCEPT !.q.headers = h])
<1> DEFINE s == [r EXCEPT !.q.headers = h]
<1>1. /\ DOMAIN s = RunFields /\ s.pc = r.pc /\ s.chain = r.chain /\ s.at = r.at /\ s.stack = r.stack /\ s.file = r.file
      /\ s.refused = r.refused /\ s.timedOut = r.timedOut /\ s.received = r.received /\ s.from = r.from
      /\ s.started = r.started /\ s.pending = r.pending /\ s.lines = r.lines /\ s.depot = r.depot /\ s.res = r.res
      /\ s.q = [r.q EXCEPT !.headers = h]
  BY DEF Shaped, RunFields
<1>2. DOMAIN s.q = DOMAIN r.q /\ s.q.frames = r.q.frames
  BY <1>1 DEF Shaped
<1> HIDE DEF s
<1> QED
  BY <1>1, <1>2 DEF Shaped, Like, Kin

LEMMA LikePath ==
  ASSUME NEW r, Shaped(r), NEW path
  PROVE  Like(r, [r EXCEPT !.q.path = path])
<1> DEFINE s == [r EXCEPT !.q.path = path]
<1>1. /\ DOMAIN s = RunFields /\ s.pc = r.pc /\ s.chain = r.chain /\ s.at = r.at /\ s.stack = r.stack /\ s.file = r.file
      /\ s.refused = r.refused /\ s.timedOut = r.timedOut /\ s.received = r.received /\ s.from = r.from
      /\ s.started = r.started /\ s.pending = r.pending /\ s.lines = r.lines /\ s.depot = r.depot /\ s.res = r.res
      /\ s.q = [r.q EXCEPT !.path = path]
  BY DEF Shaped, RunFields
<1>2. DOMAIN s.q = DOMAIN r.q /\ s.q.frames = r.q.frames
  BY <1>1 DEF Shaped
<1> HIDE DEF s
<1> QED
  BY <1>1, <1>2 DEF Shaped, Like, Kin

LEMMA LikeLayers ==
  ASSUME NEW r, Shaped(r), NEW layers
  PROVE  Like(r, [r EXCEPT !.depot.layers = layers])
<1> DEFINE s == [r EXCEPT !.depot.layers = layers]
<1>1. /\ DOMAIN s = RunFields /\ s.pc = r.pc /\ s.chain = r.chain /\ s.at = r.at /\ s.stack = r.stack /\ s.file = r.file
      /\ s.refused = r.refused /\ s.timedOut = r.timedOut /\ s.received = r.received /\ s.from = r.from
      /\ s.started = r.started /\ s.pending = r.pending /\ s.lines = r.lines /\ s.q = r.q /\ s.res = r.res
      /\ s.depot = [r.depot EXCEPT !.layers = layers]
  BY DEF Shaped, RunFields
<1>2. DOMAIN s.depot = DOMAIN r.depot /\ s.depot.generated = r.depot.generated /\ s.depot.limits = r.depot.limits
  BY <1>1 DEF Shaped
<1> HIDE DEF s
<1> QED
  BY <1>1, <1>2 DEF Shaped, Like, Kin

LEMMA LikeOffers ==
  ASSUME NEW r, Shaped(r), NEW offers
  PROVE  Like(r, [r EXCEPT !.depot.offers = offers])
<1> DEFINE s == [r EXCEPT !.depot.offers = offers]
<1>1. /\ DOMAIN s = RunFields /\ s.pc = r.pc /\ s.chain = r.chain /\ s.at = r.at /\ s.stack = r.stack /\ s.file = r.file
      /\ s.refused = r.refused /\ s.timedOut = r.timedOut /\ s.received = r.received /\ s.from = r.from
      /\ s.started = r.started /\ s.pending = r.pending /\ s.lines = r.lines /\ s.q = r.q /\ s.res = r.res
      /\ s.depot = [r.depot EXCEPT !.offers = offers]
  BY DEF Shaped, RunFields
<1>2. DOMAIN s.depot = DOMAIN r.depot /\ s.depot.generated = r.depot.generated /\ s.depot.limits = r.depot.limits
  BY <1>1 DEF Shaped
<1> HIDE DEF s
<1> QED
  BY <1>1, <1>2 DEF Shaped, Like, Kin

-----------------------------------------------------------------------------
(* On the way in.                                                          *)

\* A request on its way in that no terminal has seen.
Early(r) == Going(r) /\ r.depot.generated = FALSE /\ r.received = -1 /\ r.file.path = <<>>

LEMMA LikeEarly == ASSUME NEW r, NEW s, Early(r), Like(r, s) PROVE Early(s)
  BY KinGoing DEF Early, Like, Kin
LEMMA EarlyShaped == ASSUME NEW r, Early(r) PROVE Shaped(r)
  BY DEF Early, Going
LEMMA EarlyRefuses == ASSUME NEW r, Early(r), NEW status PROVE Active(Refuses(r, status)) /\ Active(Diverts(r, status))
  BY RefusesOk, DivertsOk DEF Early
LEMMA EarlyReady ==
  ASSUME NEW r, Early(r), r.chain[r.at].name \notin {"access-log", "body-limit"}
  PROVE  Ready(r) /\ Active(Passes(r))
  BY GoingReady, PassesOk DEF Early

LEMMA IpFilterOk ==
  ASSUME NEW r, Early(r), r.chain[r.at].name = "ip-filter", NEW c
  PROVE  Active(IpFilterDown(r, c))
  BY EarlyReady, EarlyRefuses DEF IpFilterDown

LEMMA TrailingSlashOk ==
  ASSUME NEW r, Early(r), r.chain[r.at].name = "trailing-slash", NEW c
  PROVE  Active(TrailingSlashDown(r, c))
<1>1. \A v : Early(WithHeader(r, "location", v))
  BY EarlyShaped, LikeWithHeader, LikeEarly
<1> QED
  BY <1>1, EarlyReady, EarlyRefuses DEF TrailingSlashDown

LEMMA ForceHttpsOk ==
  ASSUME NEW r, Early(r), r.chain[r.at].name = "force-https", NEW c
  PROVE  Active(ForceHttpsDown(r, c))
<1>1. Early(WithHeader(r, "location", HttpsLocation(c, r.q)))
  BY EarlyShaped, LikeWithHeader, LikeEarly
<1>2. ForceHttpsDown(r, c) \in {Passes(r), Refuses(r, 400), Diverts(WithHeader(r, "location", HttpsLocation(c, r.q)), c.status)}
  BY DEF ForceHttpsDown
<1>3. Active(Passes(r)) /\ Active(Refuses(r, 400)) /\ Active(Diverts(WithHeader(r, "location", HttpsLocation(c, r.q)), c.status))
  BY <1>1, EarlyReady, EarlyRefuses
<1> QED
  BY <1>2, <1>3

LEMMA CorsOk ==
  ASSUME NEW r, Early(r), r.chain[r.at].name = "cors", NEW c
  PROVE  Active(CorsDown(r, c))
<1> DEFINE varied == Varied(r, "origin")
<1>1. Like(r, varied)
  BY EarlyShaped, LikeVaried
<1> HIDE DEF varied
<1>2. Early(varied) /\ Early(Preflight(varied, c)) /\ varied.chain = r.chain /\ varied.at = r.at
  BY <1>1, LikePreflight, LikeEarly DEF Like, Kin
<1>3. Active(Passes(varied)) /\ Active(Diverts(Preflight(varied, c), 204))
  BY <1>2, EarlyReady, EarlyRefuses
<1> QED
  BY <1>3 DEF CorsDown, varied

LEMMA RequestIdOk ==
  ASSUME NEW r, Early(r), r.chain[r.at].name = "request-id", NEW c
  PROVE  Active(RequestIdDown(r, c))
<1> DEFINE theirs == IF c.trust THEN HeaderOf(r.q.headers, c.header) \ {"junk"} ELSE {}
           id == OrElse(theirs, "ours")
           w == WithHeader(r, c.header, id)
           h == InsertHeader(w.q.headers, c.header, id)
           s == [w EXCEPT !.q.headers = h]
<1>1. RequestIdDown(r, c) = Passes(s)
  BY DEF RequestIdDown
<1>2. Like(r, w)
  BY EarlyShaped, LikeWithHeader
<1> HIDE DEF w, h
<1>3. Like(w, s)
  BY <1>2, LikeAsked DEF Like, Kin
<1>4. Like(r, s)
  BY <1>2, <1>3, LikeTrans
<1> HIDE DEF s
<1>5. Early(s) /\ s.chain = r.chain /\ s.at = r.at
  BY <1>4, LikeEarly DEF Like, Kin
<1> QED
  BY <1>1, <1>5, EarlyReady

LEMMA RewriteOk ==
  ASSUME NEW r, Early(r), r.chain[r.at].name = "rewrite", NEW c
  PROVE  Active(RewriteDown(r, c))
<1> DEFINE path == RewritePath(c, r.q.path)
           s == [r EXCEPT !.q.path = path]
<1>1. RewriteDown(r, c) = Passes(s)
  BY DEF RewriteDown
<1> HIDE DEF path
<1>2. Like(r, s)
  BY EarlyShaped, LikePath
<1> HIDE DEF s
<1>3. Early(s) /\ s.chain = r.chain /\ s.at = r.at
  BY <1>2, LikeEarly DEF Like, Kin
<1> QED
  BY <1>1, <1>3, EarlyReady

\* The frame of a handler says where it stood.
LEMMA FrameIs == ASSUME NEW r, NEW n PROVE Frame(r).at = r.at /\ [Frame(r) EXCEPT !.remaining = n].at = r.at
  BY DEF Frame

LEMMA HeadersOk ==
  ASSUME NEW r, Early(r), r.chain[r.at].name = "headers", NEW c
  PROVE  Active(HeadersDown(r, c))
<1> DEFINE h == ApplyOps(c.request, r.q.headers)
           w == [r EXCEPT !.q.headers = h]
           layers == Append(r.depot.layers, c.response)
           s == [w EXCEPT !.depot.layers = layers]
<1>1. HeadersDown(r, c) = CallNext(Frame(r), s)
  <2>1. s = [r EXCEPT !.q.headers = h, !.depot.layers = layers]
    BY EarlyShaped DEF Shaped, RunFields
  <2> QED
    BY <2>1 DEF HeadersDown
<1> HIDE DEF h, layers
<1>2. Like(r, w)
  BY EarlyShaped, LikeAsked
<1> HIDE DEF w
<1>3. Like(w, s)
  BY <1>2, LikeLayers DEF Like, Kin
<1>4. Like(r, s)
  BY <1>2, <1>3, LikeTrans
<1> HIDE DEF s
<1>5. Early(s) /\ s.chain = r.chain /\ s.at = r.at
  BY <1>4, LikeEarly DEF Like, Kin
<1>6. Ready(s) /\ Frame(r).at = s.at
  BY <1>5, EarlyReady, FrameIs
<1> QED
  BY <1>1, <1>6, CallsNext

LEMMA EncodeOk ==
  ASSUME NEW r, Early(r), r.chain[r.at].name = "encode", NEW c
  PROVE  Active(EncodeDown(r, c))
<1> DEFINE offers == [i \in DOMAIN c.codings |-> [coding |-> c.codings[i], min |-> c.min]] \o r.depot.offers
           s == [r EXCEPT !.depot.offers = offers]
<1>1. EncodeDown(r, c) = CallNext(Frame(r), s)
  BY DEF EncodeDown
<1> HIDE DEF offers
<1>2. Like(r, s)
  BY EarlyShaped, LikeOffers
<1> HIDE DEF s
<1>3. Early(s) /\ s.chain = r.chain /\ s.at = r.at
  BY <1>2, LikeEarly DEF Like, Kin
<1>4. Ready(s) /\ Frame(r).at = s.at
  BY <1>3, EarlyReady, FrameIs
<1> QED
  BY <1>1, <1>4, CallsNext
LEMMA BodyLimitOk ==
  ASSUME NEW r, Early(r), r.chain[r.at].name = "body-limit"
  PROVE  Active(BodyLimitDown(r, r.chain[r.at].config))
<1> DEFINE max == r.chain[r.at].config.max
           limits == r.depot.limits \cup {max}
           s == [r EXCEPT !.depot.limits = limits]
<1>1. Shaped(r) /\ Going(r) /\ Len(r.chain) \in Nat /\ DOMAIN r.chain = 1..Len(r.chain) /\ r.at \in 1..Len(r.chain) /\ max \in Nat
  BY ChainIs DEF Early, Going, Shaped
<1>2. BodyLimitDown(r, r.chain[r.at].config) \in {Refuses(s, 413), Passes(s)}
  BY DEF BodyLimitDown
<1> HIDE DEF max
<1>3. /\ DOMAIN s = RunFields /\ s.chain = r.chain /\ s.at = r.at /\ s.stack = r.stack /\ s.file = r.file
      /\ s.refused = r.refused /\ s.timedOut = r.timedOut /\ s.received = r.received /\ s.from = r.from
      /\ s.started = r.started /\ s.pending = r.pending /\ s.lines = r.lines /\ s.q = r.q /\ s.res = r.res
      /\ s.depot = [r.depot EXCEPT !.limits = limits]
  BY <1>1 DEF Shaped, RunFields
<1>4. DOMAIN s.depot = DOMAIN r.depot /\ s.depot.generated = r.depot.generated /\ s.depot.limits = limits
  BY <1>1, <1>3 DEF Shaped
<1> HIDE DEF s
<1>5. Shaped(s)
  BY <1>1, <1>3, <1>4 DEF Shaped
<1>6. StackOk(s) /\ Waiting(s) = Waiting(r) /\ PublicOk(s)
  BY <1>1, <1>3 DEF Going, StackOk, Waiting, PublicOk
<1>7. LogOk(s, Waiting(s))
  BY <1>1, <1>3, <1>6 DEF Going, LogOk
<1>8. s.depot.limits \in SUBSET Nat
  BY <1>1, <1>4 DEF Going
<1>9. \A i \in 1..(r.at - 1) : s.chain[i].name = "body-limit" => s.chain[i].config.max \in s.depot.limits
  BY <1>1, <1>3, <1>4 DEF Going
<1>10. Early(s)
  BY <1>1, <1>3, <1>4, <1>5, <1>6, <1>7, <1>8, <1>9 DEF Going, Early
<1>11. \A i \in 1..s.at : s.chain[i].name = "body-limit" => s.chain[i].config.max \in s.depot.limits
  <2> SUFFICES ASSUME NEW i \in 1..s.at, s.chain[i].name = "body-limit" PROVE s.chain[i].config.max \in s.depot.limits
    OBVIOUS
  <2>1. CASE i = r.at
    BY <1>3, <1>4, <2>1 DEF max
  <2>2. CASE i \in 1..(r.at - 1)
    BY <1>3, <1>9, <2>2
  <2> QED
    BY <1>1, <1>3, <2>1, <2>2
<1>12. Elements(s.lines) = {}
  BY <1>1, <1>3 DEF Going, Elements
<1>13. s.started = {i \in Waiting(s) \cup {s.at} : s.chain[i].name = "access-log"}
  BY <1>3, <1>7, <1>10, <1>12 DEF Early, Going, LogOk
<1>14. Ready(s)
  BY <1>5, <1>6, <1>8, <1>10, <1>11, <1>13 DEF Early, Going, Ready
<1> QED
  BY <1>2, <1>10, <1>14, EarlyRefuses, PassesOk

LEMMA AccessLogOk ==
  ASSUME NEW r, Early(r), r.chain[r.at].name = "access-log"
  PROVE  Active(AccessLogDown(r))
<1> DEFINE started == r.started \cup {r.at}
           s == [r EXCEPT !.started = started]
<1>1. Shaped(r) /\ Going(r) /\ Len(r.chain) \in Nat /\ DOMAIN r.chain = 1..Len(r.chain) /\ r.at \in 1..Len(r.chain)
  BY ChainIs DEF Early, Going, Shaped
<1>2. AccessLogDown(r) = Passes(s)
  BY DEF AccessLogDown
<1>3. /\ DOMAIN s = RunFields /\ s.chain = r.chain /\ s.at = r.at /\ s.stack = r.stack /\ s.file = r.file
      /\ s.refused = r.refused /\ s.timedOut = r.timedOut /\ s.received = r.received /\ s.from = r.from
      /\ s.started = started /\ s.pending = r.pending /\ s.lines = r.lines /\ s.q = r.q /\ s.res = r.res
      /\ s.depot = r.depot
  BY <1>1 DEF Shaped, RunFields
<1> HIDE DEF s
<1>4. Shaped(s)
  BY <1>1, <1>3 DEF Shaped
<1>5. StackOk(s) /\ Waiting(s) = Waiting(r)
  BY <1>1, <1>3 DEF Going, StackOk, Waiting
<1>6. Elements(r.lines) = {}
  BY <1>1 DEF Going, Elements
<1>7. r.started = {i \in Waiting(r) : r.chain[i].name = "access-log"}
  BY <1>1, <1>6 DEF Going, LogOk
<1>8. s.started = {i \in Waiting(s) \cup {s.at} : s.chain[i].name = "access-log"}
  BY <1>3, <1>5, <1>7
<1>9. \A i \in 1..s.at : i = r.at \/ i \in 1..(r.at - 1)
  BY <1>1, <1>3
<1>10. \A i \in 1..s.at : s.chain[i].name = "body-limit" => s.chain[i].config.max \in s.depot.limits
  BY <1>1, <1>3, <1>9 DEF Going
<1>11. Ready(s)
  BY <1>1, <1>3, <1>4, <1>5, <1>8, <1>10 DEF Going, Early, Ready
<1> QED
  BY <1>2, <1>11, PassesOk

\* Waiting for a decision.
LEMMA WaitsOk ==
  ASSUME NEW r, Early(r), NEW pc,
         \/ pc = "verify" /\ r.chain[r.at].name = "basic-auth"
         \/ pc = "ask" /\ r.chain[r.at].name = "forward-auth"
         \/ pc = "backend" /\ r.chain[r.at].name = "proxy" /\ r.at = Len(r.chain)
  PROVE  Active([r EXCEPT !.pc = pc])
<1> DEFINE s == [r EXCEPT !.pc = pc]
<1>1. Kin(r, s) /\ s.pc = pc
  BY EarlyShaped, KinPc
<1> HIDE DEF s
<1>2. Going(s)
  BY <1>1, KinGoing DEF Early
<1>3. InPlace(s)
  BY <1>1 DEF Early, InPlace, Kin, Terminal
<1>4. s.pc \in Inward
  BY <1>1 DEF Inward, Awaiting
<1> QED
  BY <1>2, <1>3, <1>4 DEF Active, s

LEMMA BasicAuthOk ==
  ASSUME NEW r, Early(r), r.chain[r.at].name = "basic-auth"
  PROVE  Active(BasicAuthDown(r))
<1>1. Early(WithHeader(r, "www-authenticate", "basic"))
  BY EarlyShaped, LikeWithHeader, LikeEarly
<1> QED
  BY <1>1, WaitsOk, EarlyRefuses DEF BasicAuthDown

LEMMA DownOk ==
  ASSUME NEW r, Early(r)
  PROVE  Active(DownOf(r))
<1> DEFINE d == r.chain[r.at]
<1>1. CASE d.name = "access-log"
  BY <1>1, AccessLogOk DEF DownOf
<1>2. CASE d.name = "request-id"
  BY <1>2, RequestIdOk DEF DownOf
<1>3. CASE d.name = "ip-filter"
  BY <1>3, IpFilterOk DEF DownOf
<1>4. CASE d.name = "body-limit"
  BY <1>4, BodyLimitOk DEF DownOf
<1>5. CASE d.name = "trailing-slash"
  BY <1>5, TrailingSlashOk DEF DownOf
<1>6. CASE d.name = "force-https"
  BY <1>6, ForceHttpsOk DEF DownOf
<1>7. CASE d.name = "cors"
  BY <1>7, CorsOk DEF DownOf
<1>8. CASE d.name = "basic-auth"
  BY <1>8, BasicAuthOk DEF DownOf
<1>9. CASE d.name = "forward-auth"
  BY <1>9, WaitsOk DEF DownOf
<1>10. CASE d.name = "rewrite"
  BY <1>10, RewriteOk DEF DownOf
<1>11. CASE d.name = "headers"
  BY <1>11, HeadersOk DEF DownOf
<1>12. CASE d.name = "encode"
  BY <1>12, EncodeOk DEF DownOf
<1>13. CASE d.name \notin {"access-log", "request-id", "ip-filter", "body-limit", "trailing-slash", "force-https", "cors",
                           "basic-auth", "forward-auth", "rewrite", "headers", "encode"}
  BY <1>13, EarlyReady DEF DownOf
<1> QED
  BY <1>1, <1>2, <1>3, <1>4, <1>5, <1>6, <1>7, <1>8, <1>9, <1>10, <1>11, <1>12, <1>13

\* What happens to one request leaves the others as they are.
LEMMA OneChanges ==
  ASSUME MidInv, NEW c \in Callers, NEW r, Active(r) \/ Resting(r), Sets(c, r), serving' = serving
  PROVE  MidInv'
<1>1. run' = [run EXCEPT ![c] = r] /\ DOMAIN run = Callers
  BY DEF Sets, MidInv
<1>2. DOMAIN run' = Callers /\ run'[c] = r /\ \A d \in Callers \ {c} : run'[d] = run[d]
  BY <1>1
<1>3. \A d \in Callers : Active(run'[d]) \/ Resting(run'[d])
  BY <1>2 DEF MidInv
<1>4. serving'.chain \in Chains /\ DOMAIN serving' = {"chain", "quota", "reloads"}
  BY DEF MidInv
<1>5. MidInv' <=> /\ serving'.chain \in Chains /\ DOMAIN serving' = {"chain", "quota", "reloads"}
                  /\ DOMAIN run' = Callers
                  /\ \A d \in Callers : Active(run'[d]) \/ Resting(run'[d])
  BY DEF MidInv, Active, Resting, Chains
<1> QED
  BY <1>2, <1>3, <1>4, <1>5

LEMMA StandsEarly ==
  ASSUME MidInv, NEW c \in Callers, run[c].pc \in {"down", "verify", "ask", "backend"}
  PROVE  Early(run[c])
  BY DEF MidInv, Active, Resting, Inward, Awaiting, InPlace, Early

LEMMA DescendsKeeps == ASSUME MidInv, NEW c \in Callers, Descends(c) PROVE MidInv'
<1>1. Early(run[c])
  BY StandsEarly DEF Descends
<1>2. Sets(c, DownOf(run[c])) /\ serving' = serving
  BY DEF Descends
<1> QED
  BY <1>1, <1>2, DownOk, OneChanges
LEMMA RateLimitsKeeps == ASSUME MidInv, NEW c \in Callers, RateLimits(c) PROVE MidInv'
<1> DEFINE r == run[c]
           limit == r.chain[r.at].config
           keys == KeyOf(limit.key, r.q)
           took == Takes(quotas[r.quota], Read(keys), limit)
           seconds == took.wait \div 1000
           retry == WithHeader(r, "retry-after", IF seconds > 1 THEN seconds ELSE 1)
           told == RateHeaders(retry, limit, 0)
           frame == [Frame(r) EXCEPT !.remaining = took.remaining]
<1>1. Early(r) /\ r.chain[r.at].name = "rate-limit"
  BY StandsEarly DEF RateLimits
<1>2. \/ Sets(c, Refuses(r, 400))
      \/ Sets(c, IF took.granted THEN CallNext(frame, r) ELSE Refuses(told, 429))
  BY DEF RateLimits
<1>3. serving' = serving
  BY DEF RateLimits
<1>4. Like(r, retry)
  BY <1>1, EarlyShaped, LikeWithHeader
<1> HIDE DEF retry
<1>5. Early(told)
  BY <1>1, <1>4, LikeRate, LikeEarly
<1> HIDE DEF told
<1>6. frame.at = r.at
  BY FrameIs
<1> HIDE DEF frame
<1>7. Active(CallNext(frame, r)) /\ Active(Refuses(told, 429)) /\ Active(Refuses(r, 400))
  BY <1>1, <1>5, <1>6, EarlyReady, EarlyRefuses, CallsNext
<1> HIDE DEF took
<1> QED
  BY <1>2, <1>3, <1>7, OneChanges

LEMMA VerifiedKeeps == ASSUME MidInv, NEW c \in Callers, Verified(c) PROVE MidInv'
<1> DEFINE r == run[c]
<1>1. Early(r) /\ r.chain[r.at].name = "basic-auth"
  BY StandsEarly DEF Verified, MidInv, Active, Resting, InPlace
<1>2. \/ Sets(c, Passes(r)) \/ Sets(c, Refuses(WithHeader(r, "www-authenticate", "basic"), 401)) \/ Sets(c, Refuses(r, 503))
  BY DEF Verified
<1>3. serving' = serving
  BY DEF Verified
<1>4. Early(WithHeader(r, "www-authenticate", "basic"))
  BY <1>1, EarlyShaped, LikeWithHeader, LikeEarly
<1>5. /\ Active(Passes(r)) /\ Active(Refuses(WithHeader(r, "www-authenticate", "basic"), 401)) /\ Active(Refuses(r, 503))
  BY <1>1, <1>4, EarlyReady, EarlyRefuses
<1> QED
  BY <1>2, <1>3, <1>5, OneChanges

LEMMA AgreesOk ==
  ASSUME NEW r, Early(r), r.chain[r.at].name = "forward-auth", NEW v
  PROVE  Active(AgreesTo(r, v))
<1> DEFINE copy == r.chain[r.at].config.copy
           clean == DropHeaders(r.q.headers, copy)
           taken == copy \cap DOMAIN v.headers
           h == [k \in DOMAIN clean \cup taken |-> IF k \in taken THEN v.headers[k] ELSE clean[k]]
           s == [r EXCEPT !.q.headers = h]
<1>1. AgreesTo(r, v) = Passes(s)
  BY DEF AgreesTo
<1> HIDE DEF h
<1>2. Like(r, s)
  BY EarlyShaped, LikeAsked
<1> HIDE DEF s
<1>3. Early(s) /\ s.chain = r.chain /\ s.at = r.at
  BY <1>2, LikeEarly DEF Like, Kin
<1> QED
  BY <1>1, <1>3, EarlyReady

LEMMA RelayOk ==
  ASSUME NEW r, Early(r), NEW v
  PROVE  Active(Relay(r, v))
<1> DEFINE shown == DOMAIN v.headers \ NeverCopy
           h == [k \in DOMAIN r.res.headers \cup shown |->
                   HeaderOf(r.res.headers, k) \cup (IF k \in shown THEN v.headers[k] ELSE {})]
           s == [r EXCEPT !.res.headers = h]
           t == WithOptional(s, "content-type", HeaderOf(v.headers, "content-type"))
<1>1. Relay(r, v) = Refuses(t, v.status)
  BY DEF Relay
<1> HIDE DEF h
<1>2. Like(r, s)
  BY EarlyShaped, LikeHeaders
<1> HIDE DEF s
<1>3. Early(t)
  BY <1>2, LikeAgain, LikeEarly
<1> QED
  BY <1>1, <1>3, EarlyRefuses

LEMMA AnsweredKeeps == ASSUME MidInv, NEW c \in Callers, Answered(c) PROVE MidInv'
<1> DEFINE r == run[c]
<1>1. Early(r) /\ r.chain[r.at].name = "forward-auth"
  BY StandsEarly DEF Answered, MidInv, Active, Resting, InPlace
<1>2. (\E v \in Verdicts : Sets(c, AgreesTo(r, v)) \/ Sets(c, Relay(r, v))) \/ Sets(c, Refuses(r, 503))
  BY DEF Answered
<1>3. serving' = serving
  BY DEF Answered
<1>4. Active(Refuses(r, 503)) /\ \A v : Active(AgreesTo(r, v)) /\ Active(Relay(r, v))
  BY <1>1, AgreesOk, RelayOk, EarlyRefuses
<1> QED
  BY <1>2, <1>3, <1>4, OneChanges

\* A request that starts holds the chain in force.
LEMMA StartKeeps == ASSUME MidInv, NEW c \in Callers, NEW q \in Questions, Start(c, q) PROVE MidInv'
<1> DEFINE s == [NoRun EXCEPT !.pc = "down", !.chain = serving.chain, !.quota = serving.quota, !.q = q]
<1>1. Sets(c, s) /\ serving' = serving
  BY DEF Start
<1>2. serving.chain \in Chains /\ Len(serving.chain) \in Nat \ {0} /\ DOMAIN serving.chain = 1..Len(serving.chain)
  BY ChainIs DEF MidInv
<1>3. {"frames", "headers", "path"} \subseteq DOMAIN q /\ q.frames \in Seq(Nat)
  BY MiddlewareSizes
<1>4. /\ DOMAIN s = RunFields /\ s.pc = "down" /\ s.chain = serving.chain /\ s.at = 1 /\ s.stack = <<>> /\ s.q = q
      /\ s.depot = [generated |-> FALSE, selected |-> FALSE, offers |-> <<>>, layers |-> <<>>, limits |-> {}]
      /\ s.res = [status |-> 200, headers |-> NoHeaders, body |-> NoBody]
      /\ DOMAIN s.file = {"path", "source", "coding", "transform", "opened", "want"} /\ s.file.path = <<>>
      /\ s.refused = 0 /\ s.timedOut = FALSE /\ s.received = -1 /\ s.from = "none"
      /\ s.started = {} /\ s.pending = {} /\ s.lines = <<>>
  BY DEF NoRun, RunFields
<1> HIDE DEF s
<1>5. Shaped(s)
  BY <1>2, <1>3, <1>4 DEF Shaped, NoBody
<1>6. StackOk(s) /\ Waiting(s) = {}
  <2>1. <<>> \in Seq(Nat) /\ DOMAIN <<>> = {}
    OBVIOUS
  <2>2. Listed(s.stack) /\ DOMAIN s.stack = {}
    BY <1>4, <2>1, IsListed
  <2> QED
    BY <2>2 DEF StackOk, Waiting
<1>7. LogOk(s, Waiting(s)) /\ PublicOk(s)
  BY <1>4, <1>6 DEF LogOk, Elements, PublicOk
<1>8. Going(s)
  BY <1>2, <1>4, <1>5, <1>6, <1>7 DEF Going
<1>9. InPlace(s)
  BY <1>4 DEF InPlace, Terminal
<1>10. Active(s)
  BY <1>4, <1>8, <1>9 DEF Active, Inward
<1> QED
  BY <1>1, <1>10, OneChanges
-----------------------------------------------------------------------------
(* The terminals.                                                          *)

LEMMA ContainedIs ==
  ASSUME NEW tree, NEW files, NEW root, NEW candidate, NEW v \in ContainedFile(tree, files, root, candidate)
  PROVE  PublicTarget(root, v)
  BY DEF ContainedFile

\* What a request is answered with lies under the root, by names that are
\* public, unless it is not a file at all.
LEMMA ResolvesPublic ==
  ASSUME NEW c, NEW tree, NEW files, NEW path
  PROVE  LET target == ResolveFile(c, tree, files, path) IN
         target.to \notin {"nothing", "redirect"} => PublicTarget(c.root, target.path)
<1> DEFINE relative == SafeRelative(path)
           resolved == Canonical(tree, c.root \o Read(relative))
           index == ContainedFile(tree, files, c.root, Append(resolved, <<c.index>>))
           target == ResolveFile(c, tree, files, path)
           again == [to |-> "redirect", path |-> Append(path, "/")]
           listing == [to |-> "listing", path |-> resolved]
           refused == relative = {} \/ ~Exists(tree, files, resolved) \/ ~PublicTarget(c.root, resolved)
           inside == IF c.index # "" /\ Given(index) THEN ToFile(Read(index))
                     ELSE IF c.browse THEN listing ELSE Nowhere
<1>1. target = IF refused THEN Nowhere ELSE IF IsFile(files, resolved) THEN ToFile(resolved)
               ELSE CASE ~IsDir(tree, resolved) -> Nowhere
                      [] IsDir(tree, resolved) /\ path[Len(path)] # "/" -> again
                      [] IsDir(tree, resolved) /\ path[Len(path)] = "/" -> inside
  BY DEF ResolveFile
<1>2. target = Nowhere \/ target = again \/ (~refused /\ target = ToFile(resolved)) \/ (~refused /\ target = inside)
  <2> HIDE DEF target, inside, again, refused, resolved
  <2>1. CASE refused
    BY <1>1, <2>1
  <2>2. CASE ~refused /\ IsFile(files, resolved)
    BY <1>1, <2>2
  <2>3. CASE ~refused /\ ~IsFile(files, resolved) /\ ~IsDir(tree, resolved)
    BY <1>1, <2>3
  <2>4. CASE ~refused /\ ~IsFile(files, resolved) /\ IsDir(tree, resolved) /\ path[Len(path)] # "/"
    BY <1>1, <2>4
  <2>5. CASE ~refused /\ ~IsFile(files, resolved) /\ IsDir(tree, resolved) /\ path[Len(path)] = "/"
    BY <1>1, <2>5
  <2> QED
    BY <2>1, <2>2, <2>3, <2>4, <2>5
<1>3. Given(index) => PublicTarget(c.root, Read(index))
  <2>1. Given(index) => Read(index) \in index
    BY DEF Given, Read
  <2> QED
    BY <2>1, ContainedIs
<1>4. inside = Nowhere \/ (inside.to \notin {"nothing", "redirect"} /\ (~refused => PublicTarget(c.root, inside.path)))
  <2> HIDE DEF index, resolved, relative
  <2> QED
    BY <1>3 DEF ToFile
<1>5. /\ ToFile(resolved).path = resolved /\ Nowhere.to = "nothing" /\ again.to = "redirect"
      /\ ~refused => PublicTarget(c.root, resolved)
  BY DEF Nowhere, ToFile
<1>6. target.to \notin {"nothing", "redirect"} => PublicTarget(c.root, target.path)
  <2> HIDE DEF target, inside, again, refused, resolved
  <2> QED
    BY <1>2, <1>4, <1>5
<1> QED
  BY <1>6

LEMMA ServesPublic ==
  ASSUME NEW c, NEW tree, NEW files, NEW path
  PROVE  LET target == ServeFile(c, tree, files, path) IN
         target.to \notin {"nothing", "redirect"} => PublicTarget(c.root, target.path)
<1> DEFINE target == ResolveFile(c, tree, files, path)
           instead == {ResolveFile(c, tree, files, f) : f \in c.fallback}
           fit == {t \in instead : t.to = "file"}
           other == OrElse(fit, Nowhere)
<1>1. ServeFile(c, tree, files, path) \in {target, other}
  BY DEF ServeFile
<1>2. other \in fit \/ other = Nowhere
  BY DEF OrElse, Given, Read
<1>3. \A t \in fit : PublicTarget(c.root, t.path)
  BY ResolvesPublic
<1>4. target.to \notin {"nothing", "redirect"} => PublicTarget(c.root, target.path)
  BY ResolvesPublic
<1> HIDE DEF target, fit, other
<1> QED
  BY <1>1, <1>2, <1>3, <1>4 DEF Nowhere

LEMMA EarlyEnds ==
  ASSUME NEW r, Early(r), NEW status, NEW of, of # "backend", NEW len
  PROVE  Active(Finishes(r, status, of, len)) /\ Active(Fails(r, status))
<1>1. Going(r) /\ WithinLimits(r)
  BY NothingSent DEF Early, Going
<1> QED
  BY <1>1, FinishesOk, FailsOk

\* A file server looks at the file it was led to.
LEMMA LooksOk ==
  ASSUME NEW r, Early(r), r.at = Len(r.chain), r.chain[r.at].name = "file-server",
         NEW pc \in {"list", "open"}, NEW path, PublicTarget(r.chain[r.at].config.root, path)
  PROVE  Active([r EXCEPT !.pc = pc, !.file.path = path, !.file.source = path])
<1> DEFINE s == [r EXCEPT !.pc = pc, !.file.path = path, !.file.source = path]
<1>1. Shaped(r) /\ Going(r)
  BY DEF Early, Going
<1>2. /\ DOMAIN s = RunFields /\ s.pc = pc /\ s.chain = r.chain /\ s.at = r.at /\ s.stack = r.stack
      /\ s.refused = r.refused /\ s.timedOut = r.timedOut /\ s.received = r.received /\ s.from = r.from
      /\ s.started = r.started /\ s.pending = r.pending /\ s.lines = r.lines /\ s.q = r.q /\ s.res = r.res
      /\ s.depot = r.depot /\ s.file = [r.file EXCEPT !.path = path, !.source = path]
  BY <1>1 DEF Shaped, RunFields
<1> HIDE DEF s
<1>3. DOMAIN s.file = DOMAIN r.file /\ s.file.path = path /\ s.file.source = path
  BY <1>1, <1>2 DEF Shaped
<1>4. Shaped(s)
  BY <1>1, <1>2, <1>3 DEF Shaped
<1>5. StackOk(s) /\ Waiting(s) = Waiting(r) /\ PublicOk(s)
  BY <1>1, <1>2, <1>3 DEF Going, StackOk, Waiting, PublicOk
<1>6. LogOk(s, Waiting(s))
  BY <1>1, <1>2, <1>5 DEF Going, LogOk
<1>7. Going(s)
  BY <1>1, <1>2, <1>4, <1>5, <1>6 DEF Going
<1>8. InPlace(s) /\ s.pc \in Inward
  BY <1>2 DEF Early, InPlace, Terminal, Inward, Awaiting
<1> QED
  BY <1>7, <1>8 DEF Active, s

LEMMA FileServerOk ==
  ASSUME NEW r, Early(r), r.at = Len(r.chain), r.chain[r.at].name = "file-server"
  PROVE  Active(FileServer(r, r.chain[r.at].config))
<1> DEFINE c == r.chain[r.at].config
           target == ServeFile(c, Tree, disk, r.q.path)
           moved == WithHeader(r, "location", LocalLocation(target.path))
           allow == WithHeader(r, "allow", "GET, HEAD")
<1>1. Early(moved) /\ Early(NoStore(allow))
  <2>1. Like(r, moved) /\ Like(r, allow)
    BY EarlyShaped, LikeWithHeader
  <2> HIDE DEF allow, moved
  <2> QED
    BY <2>1, LikeNoStore, LikeEarly
<1>2. target.to \notin {"nothing", "redirect"} => PublicTarget(c.root, target.path)
  BY ServesPublic
<1> HIDE DEF target, allow
<1>3. Active(GoesTo(r, c, target))
  <2>1. CASE target.to = "nothing"
    BY <2>1, EarlyEnds DEF GoesTo
  <2>2. CASE target.to = "redirect"
    <3>1. GoesTo(r, c, target) = Finishes(moved, 301, "redirect", 0)
      BY <2>2 DEF GoesTo
    <3> HIDE DEF moved
    <3> QED
      BY <1>1, <3>1, EarlyEnds
  <2>3. CASE target.to = "listing"
    BY <1>2, <2>3, LooksOk DEF GoesTo
  <2>4. CASE target.to \notin {"nothing", "redirect", "listing"}
    BY <1>2, <2>4, LooksOk DEF GoesTo
  <2> QED
    BY <2>1, <2>2, <2>3, <2>4
<1>4. Active(Fails(NoStore(allow), 405))
  BY <1>1, EarlyEnds
<1> QED
  BY <1>3, <1>4 DEF FileServer, target, allow

LEMMA ArrivesKeeps == ASSUME MidInv, NEW c \in Callers, Arrives(c) PROVE MidInv'
<1> DEFINE r == run[c]
           d == r.chain[r.at]
<1>1. Early(r) /\ r.at = Len(r.chain) /\ serving' = serving
  BY StandsEarly DEF Arrives
<1>2. \A n, v : Like(r, WithHeader(r, n, v)) /\ Early(WithHeader(r, n, v))
  BY <1>1, EarlyShaped, LikeWithHeader, LikeEarly
<1>3. Active(RespondHandler(r, d.config))
  BY <1>2, EarlyEnds DEF RespondHandler
<1>4. Active(RedirectHandler(r, d.config))
  BY <1>2, EarlyEnds DEF RedirectHandler
<1>5. Active(MetricsHandler(r))
  BY <1>2, EarlyEnds DEF MetricsHandler
<1>6. \A alive \in BOOLEAN : Active(HealthHandler(r, d.config, alive))
  <2>1. Like(r, NoStore(r))
    BY <1>1, EarlyShaped, LikeItself, LikeNoStore
  <2>2. Early(WithHeader(NoStore(r), "x-gatel-health", d.config.probe))
    BY <1>1, <2>1, LikeAgain, LikeEarly
  <2> QED
    BY <2>2, EarlyEnds DEF HealthHandler
<1>7. d.name = "file-server" => Active(FileServer(r, d.config))
  BY <1>1, FileServerOk
<1>8. d.name = "proxy" => Active([r EXCEPT !.pc = "backend"])
  BY <1>1, WaitsOk
<1>9. \E s : Active(s) /\ Sets(c, s)
  <2> HIDE DEF r
  <2> QED
    BY <1>3, <1>4, <1>5, <1>6, <1>7, <1>8 DEF Arrives, r
<1> QED
  BY <1>1, <1>9, OneChanges
-----------------------------------------------------------------------------
(* What a backend is sent.                                                 *)

\* More frames are more bytes.
LEMMA SizeGrows ==
  ASSUME NEW frames \in Seq(Nat), NEW n \in 0..Len(frames), NEW m \in 0..n
  PROVE  Size(frames, m) \in Nat /\ Size(frames, n) \in Nat /\ Size(frames, m) <= Size(frames, n)
<1> DEFINE M == 1..m
           R == (m + 1)..n
<1>1. /\ IsFiniteSet(M) /\ IsFiniteSet(R) /\ M \cap R = {} /\ M \cup R = 1..n
      /\ \A i \in M \cup R : frames[i] \in Nat
  <2>1. m \in Nat /\ n \in Nat /\ m + 1 \in Int /\ 1 \in Int
    OBVIOUS
  <2>2. IsFiniteSet(M) /\ IsFiniteSet(R)
    BY <2>1, FS_Interval
  <2> QED
    BY <2>1, <2>2
<1>2. SumFunctionOnSet(frames, M) \in Nat /\ SumFunctionOnSet(frames, R) \in Nat
  <2> HIDE DEF M, R
  <2> QED
    BY <1>1, SumNatural
<1>3. SumFunctionOnSet(frames, 1..n) = SumFunctionOnSet(frames, M) + SumFunctionOnSet(frames, R)
  <2>1. \A i \in M \cup R : frames[i] \in Int
    BY <1>1
  <2> HIDE DEF M, R
  <2> QED
    BY <1>1, <2>1, SumApart
<1> QED
  BY <1>2, <1>3 DEF Size

LEMMA SizeOfNone == ASSUME NEW frames PROVE Size(frames, 0) = 0
<1>1. 1..0 = {}
  OBVIOUS
<1> QED
  BY <1>1, SumOfNone DEF Size

\* A limit stops at the last frame that fits.
LEMMA PrefixFits ==
  ASSUME NEW frames \in Seq(Nat), NEW max \in Nat
  PROVE  LimitedPrefix(frames, max) \in 0..Len(frames) /\ Size(frames, LimitedPrefix(frames, max)) <= max
<1> DEFINE len == Len(frames)
           S == {n \in 0..len : n = len \/ Size(frames, n + 1) > max}
<1>1. len \in Nat /\ len \in S /\ S \in SUBSET Nat
  OBVIOUS
<1>2. PICK n \in S : \A k \in S : n <= k
  <2> HIDE DEF S
  <2> QED
    BY <1>1, Smallest
<1>3. n \in 0..len /\ (n = len \/ Size(frames, n + 1) > max)
  BY <1>2
<1>4. Size(frames, n) <= max
  <2>1. CASE n = 0
    BY <2>1, SizeOfNone
  <2>2. CASE n # 0
    <3>1. n - 1 \in 0..len /\ n - 1 # len /\ ~(n <= n - 1) /\ (n - 1) + 1 = n
      BY <1>1, <1>3, <2>2
    <3>2. n - 1 \notin S
      BY <1>2, <3>1
    <3>3. ~(Size(frames, n) > max)
      BY <3>1, <3>2
    <3>4. Size(frames, n) \in Nat
      BY <1>3, SizeGrows
    <3> QED
      BY <3>3, <3>4
  <2> QED
    BY <2>1, <2>2
<1>5. \E k \in 0..Len(frames) : Size(frames, k) <= max /\ (k = Len(frames) \/ Size(frames, k + 1) > max)
  BY <1>3, <1>4
<1> QED
  BY <1>5 DEF LimitedPrefix

\* The smallest limit decides.
LEMMA SentFits ==
  ASSUME NEW frames \in Seq(Nat), NEW limits \in SUBSET Nat, NEW sent \in Nat,
         \A max \in limits : sent <= LimitedPrefix(frames, max)
  PROVE  \A max \in limits : Size(frames, sent) <= max
<1> SUFFICES ASSUME NEW max \in limits PROVE Size(frames, sent) <= max
  OBVIOUS
<1> DEFINE top == LimitedPrefix(frames, max)
<1>1. max \in Nat
  OBVIOUS
<1>2. top \in 0..Len(frames) /\ Size(frames, top) <= max /\ sent <= top
  BY <1>1, PrefixFits
<1> HIDE DEF top
<1>3. sent \in 0..top
  BY <1>2
<1>4. Size(frames, sent) \in Nat /\ Size(frames, top) \in Nat /\ Size(frames, sent) <= Size(frames, top)
  BY <1>2, <1>3, SizeGrows
<1> QED
  BY <1>1, <1>2, <1>4

LEMMA BackendKeeps == ASSUME MidInv, NEW c \in Callers, Backend(c) PROVE MidInv'
<1> DEFINE r == run[c]
           sums == {LimitedPrefix(r.q.frames, max) : max \in r.depot.limits} \cup {Len(r.q.frames)}
           sent == CHOOSE n \in sums : \A m \in sums : n <= m
           got == [r EXCEPT !.received = Size(r.q.frames, sent)]
           joined(h) == [k \in DOMAIN r.res.headers \cup DOMAIN h |->
                           HeaderOf(r.res.headers, k) \cup HeaderOf(h, k)]
           res(reply) == [status |-> reply.status, headers |-> joined(reply.headers), body |-> reply.body]
           done(reply) == [got EXCEPT !.at = Ended(r), !.res = res(reply), !.from = "backend"]
<1>1. Early(r) /\ Shaped(r) /\ Going(r) /\ r.at = Len(r.chain) /\ r.chain[r.at].name = "proxy" /\ serving' = serving
  BY StandsEarly DEF Backend, MidInv, Active, Resting, InPlace, Terminal, Early, Going
<1>2. \/ Sets(c, Fails(got, 413)) \/ Sets(c, Fails(r, 502)) \/ \E reply \in Replies : Sets(c, Returns(done(reply)))
  BY DEF Backend
<1>3. \A max \in r.depot.limits : Size(r.q.frames, sent) <= max
  <2>1. r.q.frames \in Seq(Nat) /\ r.depot.limits \in SUBSET Nat
    BY <1>1 DEF Going, Shaped
  <2>2. sums \in SUBSET Nat /\ sums # {}
    <3>1. Len(r.q.frames) \in Nat
      BY <2>1
    <3>2. \A max \in r.depot.limits : LimitedPrefix(r.q.frames, max) \in 0..Len(r.q.frames)
      BY <2>1, PrefixFits
    <3>3. \A max \in r.depot.limits : LimitedPrefix(r.q.frames, max) \in Nat
      BY <3>1, <3>2
    <3> HIDE DEF r
    <3> QED
      BY <3>1, <3>3
  <2>3. \A max \in r.depot.limits : LimitedPrefix(r.q.frames, max) \in sums
    OBVIOUS
  <2> HIDE DEF sums, r
  <2>4. \E n \in sums : \A m \in sums : n <= m
    BY <2>2, Smallest
  <2>5. sent \in sums /\ \A m \in sums : sent <= m
    BY <2>4
  <2> HIDE DEF sent
  <2>6. sent \in Nat /\ \A max \in r.depot.limits : sent <= LimitedPrefix(r.q.frames, max)
    BY <2>2, <2>3, <2>5
  <2> QED
    BY <2>1, <2>6, SentFits
<1> HIDE DEF sent
<1>4. /\ DOMAIN got = RunFields /\ got.chain = r.chain /\ got.at = r.at /\ got.stack = r.stack /\ got.file = r.file
      /\ got.refused = r.refused /\ got.timedOut = r.timedOut /\ got.received = Size(r.q.frames, sent) /\ got.from = r.from
      /\ got.started = r.started /\ got.pending = r.pending /\ got.lines = r.lines /\ got.q = r.q /\ got.res = r.res
      /\ got.depot = r.depot
  BY <1>1 DEF Shaped, RunFields
<1> HIDE DEF got
<1>5. \A i \in DOMAIN r.chain : r.chain[i].name = "body-limit" => r.chain[i].config.max \in r.depot.limits
  <2>1. Len(r.chain) \in Nat /\ DOMAIN r.chain = 1..Len(r.chain)
    BY <1>1, ChainIs DEF Shaped
  <2>2. \A i \in DOMAIN r.chain : i = r.at \/ i \in 1..(r.at - 1)
    BY <1>1, <2>1
  <2> QED
    BY <1>1, <2>2 DEF Going
<1>6. WithinLimits(got)
  BY <1>3, <1>4, <1>5 DEF WithinLimits
<1>7. Going(got)
  <2>1. Shaped(got)
    BY <1>1, <1>4 DEF Shaped
  <2>2. StackOk(got) /\ Waiting(got) = Waiting(r) /\ PublicOk(got)
    BY <1>1, <1>4 DEF Going, StackOk, Waiting, PublicOk
  <2>3. LogOk(got, Waiting(got))
    BY <1>1, <1>4, <2>2 DEF Going, LogOk
  <2> QED
    BY <1>1, <1>4, <2>1, <2>2, <2>3 DEF Going
<1>8. Active(Fails(got, 413)) /\ Active(Fails(r, 502))
  BY <1>1, <1>6, <1>7, FailsOk, EarlyEnds
<1>9. ASSUME NEW reply \in Replies PROVE Active(Returns(done(reply)))
  <2> DEFINE s == done(reply)
  <2>1. "of" \in DOMAIN reply.body /\ reply.body.of = "backend"
    BY MiddlewareSizes
  <2>2. /\ DOMAIN s = RunFields /\ s.at = Ended(r) /\ s.from = "backend" /\ s.res = res(reply) /\ s.chain = r.chain
        /\ s.stack = r.stack /\ s.file = r.file /\ s.q = r.q /\ s.depot = r.depot /\ s.received = got.received
        /\ s.lines = r.lines /\ s.pending = r.pending /\ s.started = r.started /\ s.refused = 0
    BY <1>1, <1>4 DEF RunFields, Going
  <2> HIDE DEF s
  <2>3. DOMAIN s.res = {"status", "headers", "body"} /\ s.res.body = reply.body
    BY <2>2
  <2>4. Shaped(s)
    BY <1>1, <2>1, <2>2, <2>3 DEF Shaped
  <2>5. WithinLimits(s) /\ Faithful(s)
    BY <1>1, <1>6, <1>4, <2>1, <2>2, <2>3 DEF WithinLimits, Faithful, Early
  <2>6. Active(Returns(s))
    BY <1>1, <2>2, <2>4, <2>5, GoingOver DEF Ended
  <2> QED
    BY <2>6 DEF s
<1> QED
  <2> HIDE DEF done, r
  <2> QED
    BY <1>1, <1>2, <1>8, <1>9, OneChanges
-----------------------------------------------------------------------------
(* A file on its way out.                                                  *)

PublicFor(r, path) == PublicTarget(r.chain[Len(r.chain)].config.root, path)
\* A file server that has not answered yet.
Opening(r) ==
  /\ Going(r) /\ r.depot.generated = FALSE /\ r.received = -1
  /\ r.at = Len(r.chain) /\ r.chain[r.at].name = "file-server"

LEMMA FetchingIs ==
  ASSUME NEW r, Opening(r), r.pc \in {"list", "open", "reopen", "read"}
  PROVE  Active(r)
  BY DEF Opening, Active, Inward, Awaiting, InPlace, Terminal

LEMMA StandsFetching ==
  ASSUME MidInv, NEW c \in Callers, run[c].pc \in {"list", "open", "reopen", "read"}
  PROVE  Opening(run[c])
  BY DEF MidInv, Active, Resting, Inward, Awaiting, InPlace, Terminal, Opening

LEMMA FetchingShaped == ASSUME NEW r, Opening(r) PROVE Shaped(r) /\ Going(r)
  BY DEF Opening, Going

LEMMA LikeFetching == ASSUME NEW r, NEW s, Opening(r), Like(r, s) PROVE Opening(s)
  BY KinGoing DEF Opening, Like, Kin

LEMMA FetchingEnds ==
  ASSUME NEW r, Opening(r), NEW status, NEW of, of # "backend", NEW len
  PROVE  Active(Finishes(r, status, of, len)) /\ Active(Fails(r, status))
<1>1. Going(r) /\ WithinLimits(r)
  BY NothingSent DEF Opening, Going
<1> QED
  BY <1>1, FinishesOk, FailsOk

\* A server goes on with the file it was led to, or with a variant of it that
\* is as public.
LEMMA FetchesOn ==
  ASSUME NEW r, NEW s, Opening(r), Shaped(s), s.chain = r.chain, s.at = r.at, s.stack = r.stack,
         s.file.path = r.file.path, s.file.source = r.file.source \/ PublicFor(r, s.file.source),
         s.refused = r.refused, s.timedOut = r.timedOut, s.received = r.received, s.from = r.from,
         s.started = r.started, s.pending = r.pending, s.lines = r.lines,
         s.depot.generated = r.depot.generated, s.depot.limits = r.depot.limits
  PROVE  Opening(s)
<1>1. StackOk(s) /\ Waiting(s) = Waiting(r)
  BY DEF Opening, Going, StackOk, Waiting
<1>2. PublicOk(s)
  BY DEF Opening, Going, PublicOk, PublicFor
<1>3. LogOk(s, Waiting(s))
  BY <1>1 DEF Opening, Going, LogOk
<1> QED
  BY <1>1, <1>2, <1>3 DEF Opening, Going

LEMMA UnreadableOk ==
  ASSUME NEW r, Opening(r)
  PROVE  Active(Unreadable(r))
<1> DEFINE h == DropHeaders(r.res.headers, {"content-length", "content-range", "content-encoding",
                                            "etag", "last-modified", "accept-ranges"})
           s == [r EXCEPT !.res.headers = h]
<1>1. Unreadable(r) = Fails(NoStore(s), 500)
  BY DEF Unreadable
<1> HIDE DEF h
<1>2. Like(r, s)
  BY FetchingShaped, LikeHeaders
<1> HIDE DEF s
<1>3. Opening(NoStore(s))
  BY <1>2, LikeNoStore, LikeFetching
<1> QED
  BY <1>1, <1>3, FetchingEnds

\* The part that was asked for is about to be read.
LEMMA ReadsPart ==
  ASSUME NEW r, Opening(r), NEW want, NEW status
  PROVE  Active([r EXCEPT !.pc = "read", !.file.want = want, !.res.status = status])
<1> DEFINE s == [r EXCEPT !.pc = "read", !.file.want = want, !.res.status = status]
<1>1. Shaped(r)
  BY FetchingShaped
<1>2. /\ DOMAIN s = RunFields /\ s.pc = "read" /\ s.chain = r.chain /\ s.at = r.at /\ s.stack = r.stack
      /\ s.refused = r.refused /\ s.timedOut = r.timedOut /\ s.received = r.received /\ s.from = r.from
      /\ s.started = r.started /\ s.pending = r.pending /\ s.lines = r.lines /\ s.q = r.q
      /\ s.res = [r.res EXCEPT !.status = status]
      /\ s.depot = r.depot /\ s.file = [r.file EXCEPT !.want = want]
  BY <1>1 DEF Shaped, RunFields
<1> HIDE DEF s
<1>3. DOMAIN s.file = DOMAIN r.file /\ s.file.path = r.file.path /\ s.file.source = r.file.source
  BY <1>1, <1>2 DEF Shaped
<1>4. DOMAIN s.res = DOMAIN r.res /\ s.res.body = r.res.body
  BY <1>1, <1>2 DEF Shaped
<1>5. Shaped(s)
  BY <1>1, <1>2, <1>3, <1>4 DEF Shaped
<1>6. Opening(s)
  BY <1>2, <1>3, <1>5, FetchesOn
<1> QED
  BY <1>2, <1>6, FetchingIs DEF s

LEMMA DescribesOk ==
  ASSUME NEW r0, Opening(r0)
  PROVE  Active(Describes(r0))
<1> DEFINE f == r0.file
           tag == EtagOf(f)
           one == WithHeader(r0, "etag", tag)
           two == WithHeader(one, "last-modified", f.opened.mtime)
           named == WithHeader(two, "content-type", ContentType(f.path))
           coded == WithHeader(named, "content-encoding", Read(f.coding))
           r == IF Given(f.coding) THEN coded ELSE named
           stop == Precondition(r.q, {tag}, {f.opened.mtime})
           h == DropHeaders(r.res.headers, {"content-encoding", "etag", "last-modified"})
           dropped == [r EXCEPT !.res.headers = h]
           bare == NoStore(dropped)
           want == IF Given(f.coding) THEN WholeFile ELSE WantedPart(r.q, f.opened.len, tag)
           sized(x, n) == WithHeader(WithHeader(x, "accept-ranges", "bytes"), "content-length", n)
           ranged == WithHeader(r, "content-range", <<want.start, want.end, f.opened.len>>)
           asked == stop = {} /\ r.q.method # "HEAD"
           base == IF want.part = "part" THEN ranged ELSE r
           status == IF want.part = "part" THEN 206 ELSE 200
           headed == IF f.transform THEN r ELSE sized(r, f.opened.len)
           unfit == WithHeader(ranged, "accept-ranges", "bytes")
           whole == sized(base, PartLength(want, f.opened.len))
           last == [whole EXCEPT !.pc = "read", !.file.want = want, !.res.status = status]
<1>1. Describes(r0) = CASE stop = {304} -> Finishes(r, 304, "file", 0)
                        [] stop # {} /\ stop # {304} -> Fails(bare, Read(stop))
                        [] stop = {} /\ r.q.method = "HEAD" -> Finishes(headed, 200, "file", 0)
                        [] asked /\ ~PartFits(want, f.opened.len) -> Unreadable(r)
                        [] asked /\ PartFits(want, f.opened.len) /\ want.part = "none" -> Finishes(unfit, 416, "file", 0)
                        [] OTHER -> last
  BY DEF Describes
<1>2. Like(r0, r)
  <2>1. Like(r0, one)
    BY FetchingShaped, LikeWithHeader
  <2> HIDE DEF one
  <2>2. Like(r0, two)
    BY <2>1, LikeAgain
  <2> HIDE DEF two
  <2>3. Like(r0, named)
    BY <2>2, LikeAgain
  <2> HIDE DEF named
  <2>4. Like(r0, coded)
    BY <2>3, LikeAgain
  <2> QED
    BY <2>3, <2>4
<1> HIDE DEF r
<1>3. Like(r0, bare)
  <2>1. Like(r, dropped)
    <3> HIDE DEF h
    <3> QED
      BY <1>2, LikeHeaders DEF Like, Kin
  <2> HIDE DEF dropped
  <2> QED
    BY <1>2, <2>1, LikeTrans, LikeNoStore
<1>4. Like(r0, ranged)
  BY <1>2, LikeAgain
<1>5. Like(r0, unfit) /\ Like(r0, base)
  <2> HIDE DEF ranged
  <2> QED
    BY <1>2, <1>4, LikeAgain
<1>6. \A x, n : Like(r0, x) => Like(r0, sized(x, n))
  <2> SUFFICES ASSUME NEW x, NEW n, Like(r0, x) PROVE Like(r0, sized(x, n))
    OBVIOUS
  <2>1. Like(r0, WithHeader(x, "accept-ranges", "bytes"))
    BY LikeAgain
  <2> QED
    BY <2>1, LikeAgain
<1>7. Like(r0, headed) /\ Like(r0, whole)
  <2> HIDE DEF sized, base
  <2> QED
    BY <1>2, <1>5, <1>6
<1> HIDE DEF ranged, unfit, bare, headed, whole
<1>8. Opening(r) /\ Opening(bare) /\ Opening(unfit) /\ Opening(headed) /\ Opening(whole)
  BY <1>2, <1>3, <1>5, <1>7, LikeFetching
<1>9. /\ Active(Finishes(r, 304, "file", 0)) /\ Active(Fails(bare, Read(stop))) /\ Active(Finishes(headed, 200, "file", 0))
      /\ Active(Unreadable(r)) /\ Active(Finishes(unfit, 416, "file", 0))
  BY <1>8, FetchingEnds, UnreadableOk
<1>10. Active(last)
  <2> HIDE DEF want, status
  <2> QED
    BY <1>8, ReadsPart
<1> HIDE DEF last, stop, asked, want
<1>11. Describes(r0) \in {Finishes(r, 304, "file", 0), Fails(bare, Read(stop)), Finishes(headed, 200, "file", 0),
                          Unreadable(r), Finishes(unfit, 416, "file", 0), last}
  BY <1>1
<1> QED
  BY <1>9, <1>10, <1>11
LEMMA FileListsKeeps == ASSUME MidInv, NEW c \in Callers, FileLists(c) PROVE MidInv'
<1> DEFINE r == run[c]
           shown == Finishes(WithHeader(r, "content-type", "text"), 200, "listing", 6)
<1>1. Opening(r) /\ serving' = serving
  BY StandsFetching DEF FileLists
<1>2. (\E status \in {404, 500, 503} : Sets(c, Fails(NoStore(r), status))) \/ Sets(c, shown)
  BY DEF FileLists
<1>3. Opening(NoStore(r)) /\ Opening(WithHeader(r, "content-type", "text"))
  BY <1>1, FetchingShaped, LikeItself, LikeNoStore, LikeWithHeader, LikeFetching
<1>4. Active(shown) /\ \A status : Active(Fails(NoStore(r), status))
  BY <1>3, FetchingEnds
<1> HIDE DEF shown, r
<1> QED
  BY <1>1, <1>2, <1>4, OneChanges

\* A variant that is offered is a file that is public.
LEMMA VariantsPublic ==
  ASSUME NEW c, NEW tree, NEW files, NEW path, NEW opened,
         NEW coding \in Elements(PrecompressedVariants(c, tree, files, path, opened))
  PROVE  PublicTarget(c.root, Read(ContainedFile(tree, files, c.root, Sidecar(path, coding))))
<1> DEFINE all == <<"br", "zstd", "gzip">>
           keep == {i \in DOMAIN all : \E v \in ContainedFile(tree, files, c.root, Sidecar(path, all[i])) :
                                          files[v].mtime >= opened.mtime}
           left == Retain(all, keep)
           variants == PrecompressedVariants(c, tree, files, path, opened)
<1>1. variants = IF ~c.precompressed THEN <<>> ELSE left
  BY DEF PrecompressedVariants
<1>2. PICK k \in DOMAIN variants : coding = variants[k]
  BY DEF Elements
<1>3. variants = left
  <2>1. DOMAIN <<>> = {}
    OBVIOUS
  <2> HIDE DEF left, variants
  <2> QED
    BY <1>1, <1>2, <2>1
<1>4. all \in Seq({"br", "zstd", "gzip"}) /\ keep \in SUBSET DOMAIN all
  OBVIOUS
<1>5. \E i \in keep : coding = all[i]
  <2> HIDE DEF all, keep, variants
  <2> QED
    BY <1>2, <1>3, <1>4, Retained
<1>6. ContainedFile(tree, files, c.root, Sidecar(path, coding)) # {}
  <2> HIDE DEF all
  <2> QED
    BY <1>5
<1>7. Read(ContainedFile(tree, files, c.root, Sidecar(path, coding))) \in ContainedFile(tree, files, c.root, Sidecar(path, coding))
  BY <1>6 DEF Read
<1> QED
  BY <1>7, ContainedIs

LEMMA ReopensOk ==
  ASSUME NEW r, Opening(r), NEW source, PublicFor(r, source)
  PROVE  Active([r EXCEPT !.pc = "reopen", !.file.source = source])
<1> DEFINE s == [r EXCEPT !.pc = "reopen", !.file.source = source]
<1>1. Shaped(r)
  BY FetchingShaped
<1>2. /\ DOMAIN s = RunFields /\ s.pc = "reopen" /\ s.chain = r.chain /\ s.at = r.at /\ s.stack = r.stack
      /\ s.refused = r.refused /\ s.timedOut = r.timedOut /\ s.received = r.received /\ s.from = r.from
      /\ s.started = r.started /\ s.pending = r.pending /\ s.lines = r.lines /\ s.q = r.q /\ s.res = r.res
      /\ s.depot = r.depot /\ s.file = [r.file EXCEPT !.source = source]
  BY <1>1 DEF Shaped, RunFields
<1> HIDE DEF s
<1>3. DOMAIN s.file = DOMAIN r.file /\ s.file.path = r.file.path /\ s.file.source = source
  BY <1>1, <1>2 DEF Shaped
<1>4. Shaped(s)
  BY <1>1, <1>2, <1>3 DEF Shaped
<1>5. Opening(s)
  BY <1>2, <1>3, <1>4, FetchesOn
<1> QED
  BY <1>2, <1>5, FetchingIs DEF s

LEMMA FileOpensKeeps == ASSUME MidInv, NEW c \in Callers, FileOpens(c) PROVE MidInv'
<1> DEFINE r == run[c]
           server == r.chain[r.at].config
           path == r.file.path
           opened == disk[path]
           shown == Previewed(r.depot.layers, [k \in {"content-type"} |-> {ContentType(path)}], ApplyOps)
           allowed == ~NoTransform(r.q.headers) /\ ~NoTransform(shown) /\ Compressible(shown)
           variants == PrecompressedVariants(server, Tree, disk, path, opened)
           dynamic == DynamicCodings(r.depot.offers, opened.len, allowed)
           selection == SelectCoding(r.q.accept, variants \o dynamic)
           coding == CodingOf(selection)
           side == coding # {} /\ Read(coding) \in Elements(variants)
           transform == Given(coding) /\ ~side
           chosen == [Varied(r, "accept-encoding") EXCEPT !.depot.selected = TRUE, !.file.opened = opened,
                        !.file.coding = coding, !.file.transform = transform]
           unlike == WithHeader(WithHeader(Generated(chosen), "cache-control", "no-store"), "content-length", 0)
           source == Read(ContainedFile(Tree, disk, server.root, Sidecar(path, Read(coding))))
           other == [chosen EXCEPT !.pc = "reopen", !.file.source = source]
<1>1. Opening(r) /\ serving' = serving
  BY StandsFetching DEF FileOpens
<1>2. \/ Sets(c, Unreadable(r)) \/ Sets(c, Finishes(unlike, 406, "error", 0))
      \/ (side /\ Sets(c, other)) \/ Sets(c, Describes(chosen))
  BY DEF FileOpens
<1>3. side => PublicTarget(server.root, source)
  <2> HIDE DEF r, opened
  <2> QED
    BY VariantsPublic
<1>4. Opening(chosen) /\ chosen.chain = r.chain
  <2> DEFINE w == Varied(r, "accept-encoding")
  <2>1. Opening(w) /\ Shaped(w) /\ w.chain = r.chain
    BY <1>1, FetchingShaped, LikeVaried, LikeFetching DEF Like, Kin
  <2> HIDE DEF coding, opened, transform, w
  <2>2. chosen = [w EXCEPT !.depot.selected = TRUE, !.file.opened = opened, !.file.coding = coding, !.file.transform = transform]
    BY DEF w
  <2> HIDE DEF r
  <2>3. /\ DOMAIN chosen = RunFields /\ chosen.pc = w.pc /\ chosen.chain = w.chain /\ chosen.at = w.at
        /\ chosen.stack = w.stack /\ chosen.refused = w.refused /\ chosen.timedOut = w.timedOut
        /\ chosen.received = w.received /\ chosen.from = w.from /\ chosen.started = w.started
        /\ chosen.pending = w.pending /\ chosen.lines = w.lines /\ chosen.q = w.q /\ chosen.res = w.res
        /\ chosen.depot = [w.depot EXCEPT !.selected = TRUE]
        /\ chosen.file = [w.file EXCEPT !.opened = opened, !.coding = coding, !.transform = transform]
    BY <2>1 DEF Shaped, RunFields, w
  <2> HIDE DEF chosen
  <2>4. DOMAIN chosen.file = DOMAIN w.file /\ chosen.file.path = w.file.path /\ chosen.file.source = w.file.source
    BY <2>1, <2>3 DEF Shaped
  <2>5. DOMAIN chosen.depot = DOMAIN w.depot /\ chosen.depot.generated = w.depot.generated /\ chosen.depot.limits = w.depot.limits
    BY <2>1, <2>3 DEF Shaped
  <2>6. Shaped(chosen)
    BY <2>1, <2>3, <2>4, <2>5 DEF Shaped
  <2> QED
    BY <2>1, <2>3, <2>4, <2>5, <2>6, FetchesOn
<1> HIDE DEF chosen, source, side
<1>5. Active(Unreadable(r)) /\ Active(Describes(chosen))
  BY <1>1, <1>4, UnreadableOk, DescribesOk
<1>6. side => Active(other)
  <2>1. side => PublicFor(chosen, source)
    BY <1>1, <1>3, <1>4 DEF PublicFor, Opening
  <2> QED
    BY <1>4, <2>1, ReopensOk
<1>7. Active(Finishes(unlike, 406, "error", 0))
  <2> DEFINE g == Generated(chosen)
             w == WithHeader(g, "cache-control", "no-store")
  <2>1. Going(g) /\ WithinLimits(g) /\ Shaped(g)
    BY <1>4, GoingGenerated, NothingSent DEF Opening, Going, WithinLimits
  <2> HIDE DEF g
  <2>2. Like(g, w)
    BY <2>1, LikeWithHeader
  <2> HIDE DEF w
  <2>3. Like(g, WithHeader(w, "content-length", 0))
    BY <2>2, LikeAgain
  <2>4. Like(g, unlike)
    BY <2>3 DEF g, w
  <2> HIDE DEF unlike
  <2>5. Going(unlike) /\ WithinLimits(unlike)
    BY <2>1, <2>4, KinGoing DEF Like, Kin, WithinLimits
  <2> QED
    BY <2>5, FinishesOk
<1> HIDE DEF other, unlike, r
<1> QED
  BY <1>1, <1>2, <1>5, <1>6, <1>7, OneChanges

LEMMA FileReopensKeeps == ASSUME MidInv, NEW c \in Callers, FileReopens(c) PROVE MidInv'
<1> DEFINE r == run[c]
           opened == disk[r.file.source]
           s == [r EXCEPT !.file.opened = opened]
<1>1. Opening(r) /\ serving' = serving
  BY StandsFetching DEF FileReopens
<1>2. Sets(c, Describes(s)) \/ Sets(c, Unreadable(r))
  BY DEF FileReopens
<1>3. Shaped(r)
  BY <1>1, FetchingShaped
<1> HIDE DEF opened
<1>4. /\ DOMAIN s = RunFields /\ s.pc = r.pc /\ s.chain = r.chain /\ s.at = r.at /\ s.stack = r.stack
      /\ s.refused = r.refused /\ s.timedOut = r.timedOut /\ s.received = r.received /\ s.from = r.from
      /\ s.started = r.started /\ s.pending = r.pending /\ s.lines = r.lines /\ s.q = r.q /\ s.res = r.res
      /\ s.depot = r.depot /\ s.file = [r.file EXCEPT !.opened = opened]
  BY <1>3 DEF Shaped, RunFields
<1> HIDE DEF s, r
<1>5. DOMAIN s.file = DOMAIN r.file /\ s.file.path = r.file.path /\ s.file.source = r.file.source
  BY <1>3, <1>4 DEF Shaped
<1>6. Shaped(s)
  BY <1>3, <1>4, <1>5 DEF Shaped
<1>7. Opening(s)
  BY <1>1, <1>4, <1>5, <1>6, FetchesOn
<1>8. Active(Describes(s)) /\ Active(Unreadable(r))
  BY <1>1, <1>7, DescribesOk, UnreadableOk
<1> QED
  BY <1>1, <1>2, <1>8, OneChanges

LEMMA FileReadsKeeps == ASSUME MidInv, NEW c \in Callers, FileReads(c) PROVE MidInv'
<1> DEFINE r == run[c]
           f == r.file
           length == PartLength(f.want, f.opened.len)
           body == [of |-> "file", coding |-> OrElse(f.coding, "identity"), len |-> IF f.transform THEN -1 ELSE length,
                    stream |-> f.transform \/ length > InlineLimit]
           h == IF f.transform THEN Transformed(r.res.headers) ELSE r.res.headers
           s == [r EXCEPT !.at = Ended(r), !.res.body = body, !.from = "file", !.res.headers = h]
<1>1. Opening(r) /\ serving' = serving
  BY StandsFetching DEF FileReads
<1>2. Shaped(r) /\ Going(r)
  BY <1>1, FetchingShaped
<1>3. Sets(c, Unreadable(r)) \/ Sets(c, Returns(s))
  <2>1. [r EXCEPT !.at = Ended(r), !.res.body = body, !.from = "file", !.res.headers = IF f.transform THEN Transformed(@) ELSE @] = s
    BY <1>2 DEF Shaped, RunFields
  <2> QED
    BY <2>1 DEF FileReads
<1>4. "of" \in DOMAIN body
  OBVIOUS
<1> HIDE DEF body, h
<1>5. /\ DOMAIN s = RunFields /\ s.at = Ended(r) /\ s.from = "file" /\ s.chain = r.chain
      /\ s.stack = r.stack /\ s.file = r.file /\ s.q = r.q /\ s.depot = r.depot /\ s.received = r.received
      /\ s.lines = r.lines /\ s.pending = r.pending /\ s.started = r.started /\ s.refused = 0
      /\ s.res = [r.res EXCEPT !.body = body, !.headers = h]
  BY <1>2 DEF RunFields, Going, Shaped
<1> HIDE DEF s
<1>6. DOMAIN s.res = DOMAIN r.res /\ s.res.body = body
  BY <1>2, <1>5 DEF Shaped
<1>7. Shaped(s)
  BY <1>2, <1>4, <1>5, <1>6 DEF Shaped
<1>8. WithinLimits(s) /\ Faithful(s)
  BY <1>1, <1>5, <1>7, NothingSent DEF Opening, Faithful
<1>9. Active(Returns(s)) /\ Active(Unreadable(r))
  BY <1>1, <1>2, <1>5, <1>7, <1>8, GoingOver, UnreadableOk DEF Ended
<1> QED
  <2> HIDE DEF r
  <2> QED
    BY <1>1, <1>3, <1>9, OneChanges
-----------------------------------------------------------------------------
(* On the way out.                                                         *)

\* The handler that waited last is the one whose turn it is.
LEMMA Popped ==
  ASSUME NEW r, Over(r, Waiting(r)), r.stack # <<>>
  PROVE  LET s == [r EXCEPT !.stack = Front(@)]
             i == Last(r.stack).at
         IN
         /\ Over(s, Waiting(r)) /\ s.chain = r.chain
         /\ i \in DOMAIN r.chain /\ i \notin Waiting(s) /\ Waiting(r) = Waiting(s) \cup {i}
<1> DEFINE n == Len(r.stack)
           i == Last(r.stack).at
           s == [r EXCEPT !.stack = Front(@)]
<1>1. Shaped(r) /\ StackOk(r) /\ Len(r.chain) \in Nat /\ DOMAIN r.chain = 1..Len(r.chain) /\ r.at = Len(r.chain) + 1
  BY ChainIs DEF Over, Shaped
<1>2. n \in Nat /\ n # 0 /\ DOMAIN r.stack = 1..n
  BY <1>1, ListedLen DEF StackOk
<1>3. /\ DOMAIN s = RunFields /\ s.stack = Front(r.stack) /\ s.pc = r.pc /\ s.chain = r.chain /\ s.at = r.at
      /\ s.file = r.file /\ s.q = r.q /\ s.res = r.res /\ s.depot = r.depot
      /\ s.refused = r.refused /\ s.timedOut = r.timedOut /\ s.received = r.received /\ s.from = r.from
      /\ s.started = r.started /\ s.pending = r.pending /\ s.lines = r.lines
  BY <1>1 DEF Shaped, RunFields
<1>4. /\ Listed(s.stack) /\ Len(s.stack) = n - 1 /\ DOMAIN s.stack = 1..(n - 1)
      /\ \A k \in 1..(n - 1) : s.stack[k] = r.stack[k]
  <2>1. n - 1 \in 0..n /\ Listed(r.stack)
    BY <1>1, <1>2 DEF StackOk
  <2>2. s.stack = SubSeq(r.stack, 1, n - 1)
    BY <1>3 DEF Front
  <2>3. /\ Listed(s.stack) /\ Len(s.stack) = n - 1
        /\ \A k \in 1..(n - 1) : s.stack[k] = r.stack[k]
    <3> HIDE DEF s
    <3> QED
      BY <2>1, <2>2, ListedPrefix
  <2> QED
    BY <2>3, ListedLen
<1> HIDE DEF s
<1>5. Last(r.stack) = r.stack[n] /\ n \in DOMAIN r.stack
  BY <1>2 DEF Last
<1>6. Shaped(s)
  BY <1>1, <1>3 DEF Shaped
<1>7. StackOk(s)
  <2>1. \A k \in DOMAIN s.stack : k \in DOMAIN r.stack /\ s.stack[k] = r.stack[k]
    BY <1>2, <1>4
  <2> QED
    BY <1>1, <1>3, <1>4, <2>1 DEF StackOk
<1>8. i \in DOMAIN r.chain
  BY <1>1, <1>5 DEF StackOk
<1>9. i \notin Waiting(s)
  <2> SUFFICES ASSUME NEW k \in 1..(n - 1), r.stack[k].at = i PROVE FALSE
    BY <1>4 DEF Waiting
  <2>1. k \in DOMAIN r.stack /\ k < n
    BY <1>2
  <2>2. r.stack[k].at < r.stack[n].at
    BY <1>1, <1>5, <2>1 DEF StackOk
  <2> QED
    BY <1>1, <1>5, <1>8, <2>2
<1>10. Waiting(r) = Waiting(s) \cup {i}
  <2>1. \A k \in DOMAIN r.stack : k = n \/ k \in 1..(n - 1)
    BY <1>2
  <2>2. \A k \in 1..(n - 1) : k \in DOMAIN r.stack
    BY <1>2
  <2>3. Waiting(r) \subseteq Waiting(s) \cup {i}
    BY <1>4, <1>5, <2>1 DEF Waiting
  <2>4. Waiting(s) \cup {i} \subseteq Waiting(r)
    BY <1>4, <1>5, <2>2 DEF Waiting
  <2> QED
    BY <2>3, <2>4
<1>11. Over(s, Waiting(r))
  <2>1. PublicOk(s) /\ WithinLimits(s) /\ Faithful(s)
    BY <1>3 DEF Over, PublicOk, WithinLimits, Faithful
  <2>2. LogOk(s, Waiting(r))
    BY <1>3 DEF Over, LogOk
  <2> QED
    BY <1>3, <1>6, <1>7, <2>1, <2>2 DEF Over
<1> QED
  BY <1>3, <1>8, <1>9, <1>10, <1>11 DEF s

\* A handler that is no log leaves nothing to be logged.
LEMMA NoLog ==
  ASSUME NEW r, NEW i, Over(r, Waiting(r) \cup {i}), r.chain[i].name # "access-log"
  PROVE  Over(r, Waiting(r))
<1>1. LogOk(r, Waiting(r))
  BY DEF Over, LogOk
<1> QED
  BY <1>1 DEF Over

LEMMA AccessLogUpOk ==
  ASSUME NEW r, NEW i \in DOMAIN r.chain, Over(r, Waiting(r) \cup {i}), i \notin Waiting(r), r.chain[i].name = "access-log"
  PROVE  LET s == AccessLogUp(r, i) IN Over(s, Waiting(s))
<1> DEFINE s == AccessLogUp(r, i)
           lines == IF r.res.body.stream THEN r.lines ELSE Append(r.lines, i)
           pending == IF r.res.body.stream THEN r.pending \cup {i} ELSE r.pending
<1>1. Shaped(r) /\ i \in Nat
  BY ChainIs DEF Over, Shaped
<1>2. /\ DOMAIN s = RunFields /\ s.stack = r.stack /\ s.pc = r.pc /\ s.chain = r.chain /\ s.at = r.at
      /\ s.file = r.file /\ s.q = r.q /\ s.res = r.res /\ s.depot = r.depot
      /\ s.refused = r.refused /\ s.timedOut = r.timedOut /\ s.received = r.received /\ s.from = r.from
      /\ s.started = r.started /\ s.pending = pending /\ s.lines = lines
  BY <1>1 DEF AccessLogUp, Shaped, RunFields
<1> HIDE DEF s
<1>3. Shaped(s) /\ StackOk(s) /\ Waiting(s) = Waiting(r) /\ PublicOk(s) /\ WithinLimits(s) /\ Faithful(s) /\ s.at = Len(s.chain) + 1
  <2>1. Shaped(s)
    BY <1>1, <1>2 DEF Shaped
  <2>2. StackOk(s) /\ Waiting(s) = Waiting(r) /\ PublicOk(s)
    BY <1>2 DEF Over, StackOk, Waiting, PublicOk
  <2> QED
    BY <1>2, <2>1, <2>2 DEF Over, WithinLimits, Faithful
<1>4. r.lines \in Seq(Nat) /\ i \notin Elements(r.lines) /\ i \notin r.pending
  BY DEF Over, LogOk
<1>5. /\ lines \in Seq(Nat) /\ \A j, k \in DOMAIN lines : lines[j] = lines[k] => j = k
      /\ pending \in SUBSET DOMAIN r.chain
      /\ Elements(lines) \cup pending = Elements(r.lines) \cup r.pending \cup {i}
      /\ Elements(lines) \cap pending = {}
  <2>1. CASE r.res.body.stream
    BY <1>4, <2>1 DEF Over, LogOk
  <2>2. CASE ~r.res.body.stream
    <3> DEFINE t == Append(r.lines, i)
               n == Len(r.lines)
    <3>1. /\ t \in Seq(Nat) /\ n \in Nat /\ DOMAIN r.lines = 1..n /\ DOMAIN t = 1..(n + 1)
          /\ t[n + 1] = i /\ \A k \in 1..n : t[k] = r.lines[k]
      BY <1>1, <1>4
    <3>2. \A k \in 1..n : r.lines[k] # i
      BY <1>4, <3>1 DEF Elements
    <3>3. \A j, k \in 1..n : r.lines[j] = r.lines[k] => j = k
      BY <3>1 DEF Over, LogOk
    <3> HIDE DEF t
    <3>4. \A j, k \in DOMAIN t : t[j] = t[k] => j = k
      <4>1. \A k \in DOMAIN t : k \in 1..n \/ k = n + 1
        BY <3>1
      <4> QED
        BY <3>1, <3>2, <3>3, <4>1
    <3>5. Elements(t) = Elements(r.lines) \cup {i}
      <4>1. \A k \in DOMAIN t : k \in 1..n \/ k = n + 1
        BY <3>1
      <4>2. Elements(t) \subseteq Elements(r.lines) \cup {i}
        BY <3>1, <4>1 DEF Elements
      <4>3. Elements(r.lines) \cup {i} \subseteq Elements(t)
        <5>1. n + 1 \in DOMAIN t /\ \A k \in 1..n : k \in DOMAIN t
          BY <3>1
        <5> QED
          BY <3>1, <5>1 DEF Elements
      <4> QED
        BY <4>2, <4>3
    <3>6. lines = t /\ pending = r.pending
      BY <2>2 DEF t
    <3> HIDE DEF lines, pending
    <3> QED
      BY <1>4, <3>1, <3>4, <3>5, <3>6 DEF Over, LogOk
  <2> QED
    BY <2>1, <2>2
<1> HIDE DEF lines, pending
<1>6. LogOk(s, Waiting(s))
  <2>1. (Elements(r.lines) \cup r.pending) \cap (Waiting(r) \cup {i}) = {}
    BY DEF Over, LogOk
  <2>2. r.started = {k \in Waiting(r) \cup {i} : r.chain[k].name = "access-log"} \cup r.pending \cup Elements(r.lines)
    BY DEF Over, LogOk
  <2>3. (Elements(lines) \cup pending) \cap Waiting(r) = {}
    BY <1>5, <2>1
  <2>4. r.started = {k \in Waiting(r) : r.chain[k].name = "access-log"} \cup pending \cup Elements(lines)
    BY <1>5, <2>2
  <2> QED
    BY <1>2, <1>3, <1>5, <2>3, <2>4 DEF LogOk
<1> QED
  BY <1>3, <1>6 DEF Over, s
\* Two lists without repetitions and with nothing in common make one.
LEMMA Gathered ==
  ASSUME NEW s \in Seq(Nat), NEW t \in Seq(Nat), Elements(s) \cap Elements(t) = {},
         \A i, j \in DOMAIN s : s[i] = s[j] => i = j, \A i, j \in DOMAIN t : t[i] = t[j] => i = j
  PROVE  /\ s \o t \in Seq(Nat) /\ Elements(s \o t) = Elements(s) \cup Elements(t)
         /\ \A i, j \in DOMAIN (s \o t) : (s \o t)[i] = (s \o t)[j] => i = j
<1> DEFINE u == s \o t
           m == Len(s)
           n == Len(t)
<1>1. m \in Nat /\ n \in Nat /\ DOMAIN s = 1..m /\ DOMAIN t = 1..n
  OBVIOUS
<1>2. u \in Seq(Nat) /\ Len(u) = m + n
  OBVIOUS
<1>3. \A k \in 1..m : u[k] = s[k]
  OBVIOUS
<1>4. \A k \in (m + 1)..(m + n) : u[k] = t[k - m]
  OBVIOUS
<1>5. DOMAIN u = 1..(m + n)
  BY <1>2
<1> HIDE DEF u, m, n
<1>6. ASSUME NEW k \in DOMAIN u
      PROVE  \/ k \in 1..m /\ u[k] = s[k]
             \/ k - m \in 1..n /\ u[k] = t[k - m] /\ k \in Int
  <2>1. k \in 1..m \/ (k \in (m + 1)..(m + n) /\ k - m \in 1..n /\ k \in Int)
    BY <1>1, <1>5
  <2> QED
    BY <1>3, <1>4, <2>1
<1>7. Elements(u) \subseteq Elements(s) \cup Elements(t)
  BY <1>1, <1>6 DEF Elements
<1>8. Elements(s) \subseteq Elements(u)
  <2> SUFFICES ASSUME NEW k \in 1..m PROVE s[k] \in Elements(u)
    BY <1>1 DEF Elements
  <2>1. k \in DOMAIN u /\ u[k] = s[k]
    BY <1>1, <1>3, <1>5
  <2> QED
    BY <2>1 DEF Elements
<1>9. Elements(t) \subseteq Elements(u)
  <2> SUFFICES ASSUME NEW k \in 1..n PROVE t[k] \in Elements(u)
    BY <1>1 DEF Elements
  <2>1. m + k \in (m + 1)..(m + n) /\ m + k \in 1..(m + n) /\ (m + k) - m = k
    BY <1>1
  <2>2. m + k \in DOMAIN u /\ u[m + k] = t[k]
    BY <1>4, <1>5, <2>1
  <2> QED
    BY <2>2 DEF Elements
<1>10. ASSUME NEW i \in 1..m, NEW j \in 1..n PROVE s[i] # t[j]
  <2>1. s[i] \in Elements(s) /\ t[j] \in Elements(t)
    BY <1>1 DEF Elements
  <2> QED
    BY <2>1
<1>11. ASSUME NEW i \in DOMAIN u, NEW j \in DOMAIN u, u[i] = u[j]
       PROVE  i = j
  <2>1. CASE i \in 1..m /\ u[i] = s[i] /\ j \in 1..m /\ u[j] = s[j]
    BY <1>1, <1>11, <2>1
  <2>2. CASE i - m \in 1..n /\ u[i] = t[i - m] /\ i \in Int /\ j - m \in 1..n /\ u[j] = t[j - m] /\ j \in Int
    <3>1. i - m = j - m
      BY <1>1, <1>11, <2>2
    <3> QED
      BY <1>1, <2>2, <3>1
  <2>3. CASE i \in 1..m /\ u[i] = s[i] /\ j - m \in 1..n /\ u[j] = t[j - m]
    BY <1>10, <1>11, <2>3
  <2>4. CASE j \in 1..m /\ u[j] = s[j] /\ i - m \in 1..n /\ u[i] = t[i - m]
    BY <1>10, <1>11, <2>4
  <2> QED
    BY <1>6, <2>1, <2>2, <2>3, <2>4
<1> QED
  BY <1>2, <1>7, <1>8, <1>9, <1>11 DEF u

\* A finite set of positions can be listed.
LEMMA Listing ==
  ASSUME NEW len \in Nat, NEW S \in SUBSET (1..len)
  PROVE  /\ SetToSeq(S) \in Seq(Nat) /\ Elements(SetToSeq(S)) = S
         /\ \A i, j \in DOMAIN SetToSeq(S) : SetToSeq(S)[i] = SetToSeq(S)[j] => i = j
<1> DEFINE t == SetToSeq(S)
           n == Cardinality(S)
<1>2. n \in Nat /\ \E f \in [1..n -> S] : IsInjective(f)
  BY Enumerates
<1>3. t \in [1..n -> S] /\ IsInjective(t)
  BY <1>2 DEF SetToSeq
<1>4. \A x \in S : \E i \in 1..n : t[i] = x
  <2> HIDE DEF t
  <2> QED
    BY <1>3, Enumerates
<1> HIDE DEF t, n
<1>5. DOMAIN t = 1..n /\ t \in [1..n -> Nat]
  <2>1. \A x \in S : x \in Nat
    OBVIOUS
  <2>2. DOMAIN t = 1..n /\ t = [i \in 1..n |-> t[i]] /\ \A i \in 1..n : t[i] \in S
    BY <1>3
  <2> QED
    BY <2>1, <2>2
<1>6. t \in Seq(Nat)
  BY <1>2, <1>5
<1>7. Elements(t) = S
  BY <1>3, <1>4, <1>5 DEF Elements
<1>8. \A i, j \in DOMAIN t : t[i] = t[j] => i = j
  BY <1>3 DEF IsInjective
<1> QED
  BY <1>6, <1>7, <1>8 DEF t

\* The lines that waited for a body are written, each once.
LEMMA Flushed ==
  ASSUME NEW r, NEW waiting, Shaped(r), LogOk(r, waiting)
  PROVE  LET lines == r.lines \o SetToSeq(r.pending) IN
         /\ lines \in Seq(Nat) /\ Elements(lines) = Elements(r.lines) \cup r.pending
         /\ \A i, j \in DOMAIN lines : lines[i] = lines[j] => i = j
<1> DEFINE t == SetToSeq(r.pending)
<1>1. Len(r.chain) \in Nat /\ r.pending \in SUBSET (1..Len(r.chain))
  BY ChainIs DEF Shaped, LogOk
<1>2. t \in Seq(Nat) /\ Elements(t) = r.pending /\ \A i, j \in DOMAIN t : t[i] = t[j] => i = j
  BY <1>1, Listing
<1> HIDE DEF t
<1>3. r.lines \in Seq(Nat) /\ Elements(r.lines) \cap Elements(t) = {} /\ \A i, j \in DOMAIN r.lines : r.lines[i] = r.lines[j] => i = j
  BY <1>2 DEF LogOk
<1>4. /\ r.lines \o t \in Seq(Nat) /\ Elements(r.lines \o t) = Elements(r.lines) \cup Elements(t)
      /\ \A i, j \in DOMAIN (r.lines \o t) : (r.lines \o t)[i] = (r.lines \o t)[j] => i = j
  BY <1>2, <1>3, Gathered
<1> QED
  BY <1>2, <1>4 DEF t

\* A page in place of the answer: the lines are written, and whose answer it
\* was is not forgotten.
LEMMA ErrorPagesUpOk ==
  ASSUME NEW r, Over(r, Waiting(r)), NEW i \in DOMAIN r.chain, r.chain[i].name = "error-pages"
  PROVE  LET s == ErrorPagesUp(r, r.chain[i].config) IN Over(s, Waiting(s))
<1> DEFINE c == r.chain[i].config
           body == TextBody("page", PageLength)
           lines == r.lines \o SetToSeq(r.pending)
           s == Replaces(r, body)
           h == PageHeaders(s.res.headers)
           one == [s EXCEPT !.res.headers = h]
           two == WithHeader(one, "content-type", "text")
           three == WithHeader(two, "content-length", PageLength)
<1>1. Shaped(r) /\ LogOk(r, Waiting(r))
  BY DEF Over
<1>2. \/ ErrorPagesUp(r, c) = r
      \/ (c.all \/ r.depot.generated) /\ ErrorPagesUp(r, c) = three
  BY DEF ErrorPagesUp
<1>3. /\ lines \in Seq(Nat) /\ Elements(lines) = Elements(r.lines) \cup r.pending
      /\ \A k, j \in DOMAIN lines : lines[k] = lines[j] => k = j
  BY <1>1, Flushed
<1>4. "of" \in DOMAIN body
  BY DEF TextBody
<1>5. s = [r EXCEPT !.res.body = body, !.lines = lines, !.pending = {}]
  BY DEF Replaces
<1> HIDE DEF lines, body
<1>6. /\ DOMAIN s = RunFields /\ s.stack = r.stack /\ s.pc = r.pc /\ s.chain = r.chain /\ s.at = r.at
      /\ s.file = r.file /\ s.q = r.q /\ s.res = [r.res EXCEPT !.body = body] /\ s.depot = r.depot
      /\ s.refused = r.refused /\ s.timedOut = r.timedOut /\ s.received = r.received /\ s.from = r.from
      /\ s.started = r.started /\ s.pending = {} /\ s.lines = lines
  <2> HIDE DEF s
  <2> QED
    BY <1>1, <1>5 DEF Shaped, RunFields
<1> HIDE DEF s
<1>7. DOMAIN s.res = DOMAIN r.res /\ s.res.body = body /\ s.res.status = r.res.status
  BY <1>1, <1>6 DEF Shaped
<1>8. Shaped(s)
  BY <1>1, <1>4, <1>6, <1>7 DEF Shaped
<1>9. StackOk(s) /\ Waiting(s) = Waiting(r) /\ PublicOk(s) /\ WithinLimits(s)
  BY <1>6 DEF Over, StackOk, Waiting, PublicOk, WithinLimits
<1>10. LogOk(s, Waiting(s))
  BY <1>1, <1>3, <1>6, <1>9 DEF LogOk
<1>11. c.all \/ r.depot.generated => Faithful(s)
  BY <1>6, <1>7 DEF Over, Faithful
<1>12. c.all \/ r.depot.generated => Over(s, Waiting(s))
  BY <1>6, <1>8, <1>9, <1>10, <1>11 DEF Over
<1>13. Like(s, three)
  <2>1. Like(s, one)
    <3> HIDE DEF h
    <3> QED
      BY <1>8, LikeHeaders
  <2> HIDE DEF one
  <2>2. Like(s, two)
    BY <2>1, LikeAgain
  <2> HIDE DEF two
  <2> QED
    BY <2>2, LikeAgain
<1> HIDE DEF three
<1>14. c.all \/ r.depot.generated => Over(three, Waiting(three))
  BY <1>12, <1>13, KinOver DEF Like
<1> QED
  BY <1>2, <1>14
LEMMA EncodeUpOk ==
  ASSUME NEW r0, Over(r0, Waiting(r0)), NEW frame, NEW c
  PROVE  LET s == EncodeUp(r0, frame, c) IN Over(s, Waiting(s))
<1> DEFINE offers == frame.depot.offers
           w == [r0 EXCEPT !.depot.offers = offers]
           r == Varied(w, "accept-encoding")
           chosen == CodingOf(SelectCoding(frame.q.accept, c.codings))
           h == InsertHeader(Transformed(r.res.headers), "content-encoding", Read(chosen))
           body == [r.res.body EXCEPT !.coding = Read(chosen), !.len = -1, !.stream = TRUE]
           one == [r EXCEPT !.res.headers = h]
           encoded == [r EXCEPT !.res.headers = h, !.res.body = body]
<1>1. Shaped(r0)
  BY DEF Over
<1>2. Like(r0, w)
  <2> HIDE DEF offers
  <2> QED
    BY <1>1, LikeOffers
<1>3. Like(r0, r) /\ Shaped(r)
  <2> HIDE DEF w
  <2> QED
    BY <1>2, LikeAgain DEF Like, Kin
<1>4. EncodeUp(r0, frame, c) \in {r, encoded}
  <2>1. encoded = [r EXCEPT !.res.headers = InsertHeader(Transformed(@), "content-encoding", Read(chosen)),
                            !.res.body = [@ EXCEPT !.coding = Read(chosen), !.len = -1, !.stream = TRUE]]
    <3> HIDE DEF r, chosen
    <3> QED
      BY <1>3 DEF Shaped, RunFields
  <2> QED
    BY <2>1 DEF EncodeUp
<1> HIDE DEF r, chosen
<1>5. DOMAIN body = DOMAIN r.res.body /\ body.of = r.res.body.of
  BY <1>3 DEF Shaped
<1> HIDE DEF body, h
<1>6. /\ DOMAIN encoded = RunFields /\ encoded.pc = r.pc /\ encoded.chain = r.chain /\ encoded.at = r.at
      /\ encoded.stack = r.stack /\ encoded.file = r.file /\ encoded.q = r.q /\ encoded.depot = r.depot
      /\ encoded.refused = r.refused /\ encoded.timedOut = r.timedOut /\ encoded.received = r.received
      /\ encoded.from = r.from /\ encoded.started = r.started /\ encoded.pending = r.pending
      /\ encoded.lines = r.lines /\ encoded.res = [r.res EXCEPT !.headers = h, !.body = body]
  BY <1>3 DEF Shaped, RunFields
<1> HIDE DEF encoded
<1>7. DOMAIN encoded.res = DOMAIN r.res /\ encoded.res.status = r.res.status /\ encoded.res.body = body
  BY <1>3, <1>6 DEF Shaped
<1>8. Like(r, encoded)
  BY <1>3, <1>5, <1>6, <1>7 DEF Shaped, Like, Kin
<1>9. Over(r, Waiting(r))
  BY <1>3, KinOver DEF Like
<1>10. Over(encoded, Waiting(encoded))
  BY <1>8, <1>9, KinOver DEF Like
<1> QED
  BY <1>4, <1>9, <1>10

LEMMA UpOk ==
  ASSUME NEW r, NEW frame, frame.at \in DOMAIN r.chain, frame.at \notin Waiting(r), Over(r, Waiting(r) \cup {frame.at})
  PROVE  LET s == UpOf(r, frame) IN Over(s, Waiting(s))
<1> DEFINE i == frame.at
           d == r.chain[i]
<1>1. d.name # "access-log" => Over(r, Waiting(r))
  BY NoLog
<1>2. Shaped(r)
  BY DEF Over
<1>3. \A s : d.name # "access-log" /\ Like(r, s) => Over(s, Waiting(s))
  BY <1>1, KinOver DEF Like
<1>4. CASE d.name = "access-log"
  BY <1>4, AccessLogUpOk DEF UpOf
<1>5. CASE d.name = "rate-limit"
  <2>1. Like(r, RateHeaders(r, d.config, frame.remaining))
    BY <1>2, LikeItself, LikeRate
  <2> QED
    BY <1>3, <1>5, <2>1 DEF UpOf
<1>6. CASE d.name = "cors"
  <2>1. Like(r, AllowOrigin(r, frame.q, d.config))
    BY <1>2, LikeItself, LikeAllowOrigin
  <2>2. Like(r, CorsUp(r, frame, d.config))
    BY <1>2, <2>1, LikeItself, LikeAgain DEF CorsUp
  <2> QED
    BY <1>3, <1>6, <2>2 DEF UpOf
<1>7. CASE d.name = "headers"
  <2> DEFINE layers == frame.depot.layers
             w == [r EXCEPT !.depot.layers = layers]
             h == ApplyOps(d.config.response, r.res.headers)
             s == [w EXCEPT !.res.headers = h]
  <2>1. HeadersUp(r, frame, d.config) = s
    <3>1. s = [r EXCEPT !.depot.layers = layers, !.res.headers = h]
      <4> HIDE DEF h, layers
      <4> QED
        BY <1>2 DEF Shaped, RunFields
    <3> QED
      BY <3>1 DEF HeadersUp
  <2> HIDE DEF h, layers
  <2>2. Like(r, w)
    BY <1>2, LikeLayers
  <2> HIDE DEF w
  <2>3. Like(w, s)
    BY <2>2, LikeHeaders DEF Like, Kin
  <2>4. Like(r, HeadersUp(r, frame, d.config))
    BY <2>1, <2>2, <2>3, LikeTrans
  <2> QED
    BY <1>3, <1>7, <2>4 DEF UpOf
<1>8. CASE d.name = "encode"
  BY <1>1, <1>8, EncodeUpOk DEF UpOf
<1>9. CASE d.name = "error-pages"
  BY <1>1, <1>9, ErrorPagesUpOk DEF UpOf
<1>10. CASE d.name \notin {"access-log", "rate-limit", "cors", "headers", "encode", "error-pages"}
  BY <1>1, <1>10 DEF UpOf
<1> QED
  BY <1>4, <1>5, <1>6, <1>7, <1>8, <1>9, <1>10

LEMMA AscendsKeeps == ASSUME MidInv, NEW c \in Callers, Ascends(c) PROVE MidInv'
<1> DEFINE r == run[c]
           s == [r EXCEPT !.stack = Front(@)]
           frame == Last(r.stack)
           t == UpOf(s, frame)
<1>1. Over(r, Waiting(r)) /\ r.stack # <<>>
  BY DEF Ascends, MidInv, Active, Resting, Inward, Awaiting
<1>2. Sets(c, Returns(t)) /\ serving' = serving
  BY DEF Ascends
<1> HIDE DEF r
<1>3. /\ Over(s, Waiting(r)) /\ s.chain = r.chain
      /\ frame.at \in DOMAIN r.chain /\ frame.at \notin Waiting(s) /\ Waiting(r) = Waiting(s) \cup {frame.at}
  BY <1>1, Popped
<1> HIDE DEF s, frame
<1>4. Over(t, Waiting(t))
  BY <1>3, UpOk
<1> HIDE DEF t
<1> QED
  BY <1>2, <1>4, ReturnsOver, OneChanges

\* The handlers inside a timeout are dropped where they wait: their logs
\* write nothing, the ones around it do.
LEMMA TimesOutKeeps == ASSUME MidInv, NEW c \in Callers, TimesOut(c) PROVE MidInv'
<1> DEFINE r == run[c]
<1>1. Going(r) /\ Shaped(r) /\ StackOk(r) /\ r.received = -1 /\ serving' = serving
  BY DEF TimesOut, MidInv, Active, Resting, Awaiting, InPlace, Going
<1>2. PICK k \in DOMAIN r.stack :
         Sets(c, Returns([Generated(r) EXCEPT !.stack = SubSeq(@, 1, k - 1), !.at = Ended(r),
                            !.res.status = r.chain[r.stack[k].at].config.status, !.res.body = TextBody("timeout", 4),
                            !.timedOut = TRUE, !.started = {i \in @ : i < r.stack[k].at}]))
  BY DEF TimesOut
<1> DEFINE i0 == r.stack[k].at
           status == r.chain[i0].config.status
           body == TextBody("timeout", 4)
           g == Generated(r)
           stack == SubSeq(g.stack, 1, k - 1)
           started == {i \in g.started : i < i0}
           s == [g EXCEPT !.stack = stack, !.at = Ended(r), !.res.status = status, !.res.body = body,
                          !.timedOut = TRUE, !.started = started]
<1>3. Sets(c, Returns(s))
  BY <1>2
<1>4. "of" \in DOMAIN body
  BY DEF TextBody
<1> HIDE DEF status, body, r
<1>5. /\ DOMAIN g = RunFields /\ g.depot = [r.depot EXCEPT !.generated = TRUE] /\ g.res = r.res
      /\ g.chain = r.chain /\ g.at = r.at /\ g.stack = r.stack /\ g.file = r.file /\ g.q = r.q
      /\ g.refused = r.refused /\ g.received = r.received /\ g.from = r.from
      /\ g.started = r.started /\ g.pending = r.pending /\ g.lines = r.lines
  BY <1>1 DEF Generated, Shaped, RunFields
<1> HIDE DEF g, stack, started
<1>6. /\ DOMAIN s = RunFields /\ s.stack = stack /\ s.at = Ended(r) /\ s.started = started
      /\ s.res = [g.res EXCEPT !.status = status, !.body = body]
      /\ s.chain = g.chain /\ s.file = g.file /\ s.q = g.q /\ s.depot = g.depot
      /\ s.refused = g.refused /\ s.received = g.received /\ s.from = g.from
      /\ s.pending = g.pending /\ s.lines = g.lines
  BY <1>1, <1>5 DEF Shaped, RunFields
<1> HIDE DEF s
<1>7. DOMAIN s.res = DOMAIN r.res /\ s.res.body = body /\ DOMAIN s.depot = DOMAIN r.depot
  BY <1>1, <1>5, <1>6 DEF Shaped
<1>8. Shaped(s)
  BY <1>1, <1>4, <1>5, <1>6, <1>7 DEF Shaped
<1>9. Len(r.chain) \in Nat /\ DOMAIN r.chain = 1..Len(r.chain) /\ r.at \in 1..Len(r.chain)
  BY <1>1, ChainIs DEF Going, Shaped
<1>10. Len(r.stack) \in Nat /\ DOMAIN r.stack = 1..Len(r.stack) /\ k \in 1..Len(r.stack)
  BY <1>1, ListedLen DEF StackOk
<1>11. /\ Listed(stack) /\ Len(stack) = k - 1 /\ DOMAIN stack = 1..(k - 1) /\ \A j \in 1..(k - 1) : stack[j] = r.stack[j]
  <2>1. k - 1 \in 0..Len(r.stack) /\ Listed(r.stack) /\ stack = SubSeq(r.stack, 1, k - 1)
    BY <1>1, <1>5, <1>10 DEF StackOk, stack
  <2>2. Listed(stack) /\ Len(stack) = k - 1 /\ \A j \in 1..(k - 1) : stack[j] = r.stack[j]
    BY <2>1, ListedPrefix
  <2> QED
    BY <2>2, ListedLen
<1>12. \A j \in DOMAIN stack : j \in DOMAIN r.stack /\ j < k /\ stack[j] = r.stack[j]
  BY <1>10, <1>11
<1>13. StackOk(s)
  <2>1. \A j \in DOMAIN stack : stack[j].at \in 1..(s.at - 1)
    BY <1>1, <1>6, <1>9, <1>12 DEF StackOk, Ended
  <2>2. \A j, l \in DOMAIN stack : j < l => stack[j].at < stack[l].at
    BY <1>1, <1>12 DEF StackOk
  <2> QED
    BY <1>6, <1>11, <2>1, <2>2 DEF StackOk
<1>14. \A x : x \in Waiting(s) <=> x \in Waiting(r) /\ x < i0
  <2> SUFFICES ASSUME NEW x PROVE x \in Waiting(s) <=> x \in Waiting(r) /\ x < i0
    OBVIOUS
  <2>1. ASSUME x \in Waiting(s) PROVE x \in Waiting(r) /\ x < i0
    <3>1. PICK j \in DOMAIN stack : x = stack[j].at
      BY <1>6, <2>1 DEF Waiting
    <3>2. j \in DOMAIN r.stack /\ x = r.stack[j].at /\ j < k
      BY <1>12, <3>1
    <3> QED
      BY <1>1, <3>2 DEF StackOk, Waiting
  <2>2. ASSUME x \in Waiting(r), x < i0 PROVE x \in Waiting(s)
    <3>1. PICK j \in DOMAIN r.stack : x = r.stack[j].at
      BY <2>2 DEF Waiting
    <3>2. x \in Int /\ i0 \in Int
      BY <1>1, <3>1 DEF StackOk
    <3>3. ~(k < j) /\ j # k
      BY <1>1, <2>2, <3>1, <3>2 DEF StackOk
    <3>4. j \in 1..(k - 1)
      BY <1>10, <3>3
    <3> QED
      BY <1>6, <1>11, <3>1, <3>4 DEF Waiting
  <2> QED
    BY <2>1, <2>2
<1>15. LogOk(s, Waiting(s))
  <2>1. r.lines = <<>> /\ r.pending = {} /\ Elements(r.lines) = {}
    BY <1>1 DEF Going, Elements
  <2>2. r.started = {i \in Waiting(r) : r.chain[i].name = "access-log"}
    BY <1>1, <2>1 DEF Going, LogOk
  <2>3. started = {i \in Waiting(s) : s.chain[i].name = "access-log"}
    BY <1>5, <1>6, <1>14, <2>2 DEF started
  <2> QED
    BY <1>1, <1>5, <1>6, <2>1, <2>3 DEF LogOk, Going
<1>16. PublicOk(s) /\ WithinLimits(s) /\ Faithful(s)
  BY <1>1, <1>5, <1>6, <1>8, NothingSent DEF Going, PublicOk, Faithful
<1>17. Over(s, Waiting(s))
  BY <1>5, <1>6, <1>8, <1>13, <1>15, <1>16 DEF Over, Ended
<1> QED
  BY <1>1, <1>3, <1>17, ReturnsOver, OneChanges
\* A request that is over, or was never there.
LEMMA RestsOk ==
  ASSUME NEW pc \in {"idle", "gone"}
  PROVE  Resting([NoRun EXCEPT !.pc = pc])
<1> DEFINE s == [NoRun EXCEPT !.pc = pc]
<1>1. s.pc = pc /\ s.refused = 0 /\ s.chain = <<>> /\ s.file.path = <<>> /\ s.lines = <<>>
  BY DEF NoRun
<1>2. DOMAIN <<>> = {}
  OBVIOUS
<1> HIDE DEF s
<1>3. Resting(s)
  BY <1>1, <1>2 DEF Resting
<1> QED
  BY <1>3 DEF s

LEMMA ClientLeavesKeeps == ASSUME MidInv, NEW c \in Callers, ClientLeaves(c) PROVE MidInv'
<1>1. Sets(c, [NoRun EXCEPT !.pc = "gone"]) /\ serving' = serving
  BY DEF ClientLeaves
<1>2. Resting([NoRun EXCEPT !.pc = "gone"])
  BY RestsOk
<1> QED
  BY <1>1, <1>2, OneChanges

LEMMA BodyEndsKeeps == ASSUME MidInv, NEW c \in Callers, BodyEnds(c) PROVE MidInv'
<1> DEFINE r == run[c]
           body == r.res.body
           over == Replaces(r, body)
           lines == r.lines \o SetToSeq(r.pending)
           s == [NoRun EXCEPT !.pc = "done", !.lines = over.lines, !.started = over.started]
<1>1. Sets(c, s) /\ serving' = serving
  BY DEF BodyEnds
<1>2. Over(r, Waiting(r)) /\ r.stack = <<>>
  BY DEF BodyEnds, MidInv, Active, Resting, Inward, Awaiting
<1>3. Shaped(r) /\ LogOk(r, Waiting(r)) /\ Waiting(r) = {}
  <2>1. DOMAIN <<>> = {}
    OBVIOUS
  <2> QED
    BY <1>2, <2>1 DEF Over, Waiting
<1> HIDE DEF r
<1>4. /\ Elements(lines) = Elements(r.lines) \cup r.pending
      /\ \A k, j \in DOMAIN lines : lines[k] = lines[j] => k = j
  BY <1>3, Flushed
<1>5. over.lines = lines /\ over.started = r.started
  <2> HIDE DEF body
  <2>1. over = [r EXCEPT !.res.body = body, !.lines = lines, !.pending = {}]
    BY DEF Replaces
  <2> HIDE DEF lines, over
  <2> QED
    BY <1>3, <2>1 DEF Shaped, RunFields
<1> HIDE DEF lines, over
<1>6. s.pc = "done" /\ s.refused = 0 /\ s.chain = <<>> /\ s.file.path = <<>> /\ s.lines = lines /\ s.started = r.started
  BY <1>5 DEF NoRun
<1> HIDE DEF s
<1>7. r.started = Elements(lines)
  BY <1>3, <1>4 DEF LogOk
<1>8. Resting(s)
  BY <1>4, <1>6, <1>7 DEF Resting
<1> QED
  BY <1>1, <1>8, OneChanges

\* The requests stay as they are.
LEMMA NobodyMoves ==
  ASSUME MidInv, run' = run, serving'.chain \in Chains, DOMAIN serving' = {"chain", "quota", "reloads"}
  PROVE  MidInv'
<1>1. MidInv' <=> /\ serving'.chain \in Chains /\ DOMAIN serving' = {"chain", "quota", "reloads"}
                  /\ DOMAIN run' = Callers
                  /\ \A d \in Callers : Active(run'[d]) \/ Resting(run'[d])
  BY DEF MidInv, Active, Resting, Chains
<1> QED
  BY <1>1 DEF MidInv

LEMMA ReloadKeeps == ASSUME MidInv, NEW config \in Configs, Reload(config) PROVE MidInv'
<1>1. run' = run
  BY DEF Reload
<1>2. CASE config \in DOMAIN Built /\ Installs(Built[config])
  <2> DEFINE chain == Built[config]
  <2>1. chain \in Chains
    BY <1>2 DEF Chains
  <2> HIDE DEF chain
  <2>2. Installs(chain)
    BY <1>2 DEF chain
  <2>3. serving'.chain = chain /\ DOMAIN serving' = {"chain", "quota", "reloads"}
    BY <2>2 DEF Installs
  <2> QED
    BY <1>1, <2>1, <2>3, NobodyMoves
<1>3. CASE serving' = [serving EXCEPT !.reloads = @ + 1]
  <2>1. serving'.chain = serving.chain /\ DOMAIN serving' = {"chain", "quota", "reloads"}
    BY <1>3 DEF MidInv
  <2>2. serving'.chain \in Chains
    BY <2>1 DEF MidInv
  <2> QED
    BY <1>1, <2>1, <2>2, NobodyMoves
<1> QED
  BY <1>2, <1>3 DEF Reload

LEMMA MidStarts == ASSUME MidInit PROVE MidInv
<1>1. serving.chain \in Chains /\ DOMAIN serving = {"chain", "quota", "reloads"}
  BY DEF MidInit, Chains
<1>2. Resting(NoRun)
  <2>1. [NoRun EXCEPT !.pc = "idle"] = NoRun
    BY DEF NoRun
  <2> QED
    BY <2>1, RestsOk
<1>3. DOMAIN run = Callers /\ \A c \in Callers : run[c] = NoRun
  BY DEF MidInit
<1> QED
  BY <1>1, <1>2, <1>3 DEF MidInv

LEMMA MidKeeps == ASSUME MidInv, [MidNext]_midVars PROVE MidInv'
<1>0. MidInv => serving.chain \in Chains /\ DOMAIN serving = {"chain", "quota", "reloads"}
  BY DEF MidInv
<1>1. CASE \E c \in Callers : \E q \in Questions : Start(c, q)
  BY <1>1, StartKeeps
<1>2. CASE \E c \in Callers : Descends(c)
  BY <1>2, DescendsKeeps
<1>3. CASE \E c \in Callers : RateLimits(c)
  BY <1>3, RateLimitsKeeps
<1>4. CASE \E c \in Callers : Verified(c)
  BY <1>4, VerifiedKeeps
<1>5. CASE \E c \in Callers : Answered(c)
  BY <1>5, AnsweredKeeps
<1>6. CASE \E c \in Callers : Arrives(c)
  BY <1>6, ArrivesKeeps
<1>7. CASE \E c \in Callers : Backend(c)
  BY <1>7, BackendKeeps
<1>8. CASE \E c \in Callers : FileLists(c)
  BY <1>8, FileListsKeeps
<1>9. CASE \E c \in Callers : FileOpens(c)
  BY <1>9, FileOpensKeeps
<1>10. CASE \E c \in Callers : FileReopens(c)
  BY <1>10, FileReopensKeeps
<1>11. CASE \E c \in Callers : FileReads(c)
  BY <1>11, FileReadsKeeps
<1>12. CASE \E c \in Callers : Ascends(c)
  BY <1>12, AscendsKeeps
<1>13. CASE \E c \in Callers : TimesOut(c)
  BY <1>13, TimesOutKeeps
<1>14. CASE \E c \in Callers : ClientLeaves(c)
  BY <1>14, ClientLeavesKeeps
<1>15. CASE \E c \in Callers : BodyEnds(c)
  BY <1>15, BodyEndsKeeps
<1>16. CASE \E config \in Configs : Reload(config)
  BY <1>16, ReloadKeeps
<1>17. CASE Tick
  BY <1>0, <1>17, NobodyMoves DEF Tick
<1>18. CASE \E path \in DOMAIN disk \cap Edited : FileChanges(path)
  BY <1>0, <1>18, NobodyMoves DEF FileChanges
<1>19. CASE UNCHANGED midVars
  BY <1>0, <1>19, NobodyMoves DEF midVars
<1> QED
  BY <1>1, <1>2, <1>3, <1>4, <1>5, <1>6, <1>7, <1>8, <1>9, <1>10, <1>11, <1>12, <1>13, <1>14, <1>15, <1>16, <1>17,
     <1>18, <1>19 DEF MidNext

\* A file that is public stays public while it goes out.
LEMMA PublicServes ==
  ASSUME \A c \in Callers : PublicOk(run[c])
  PROVE  ServesPublicFiles
<1> SUFFICES ASSUME NEW c \in Callers, run[c].file.path # <<>>, NEW path \in {run[c].file.path, run[c].file.source}
             PROVE  LET root == run[c].chain[Len(run[c].chain)].config.root IN
                    PublicTarget(root, path)
  BY DEF ServesPublicFiles, PublicTarget, PublicComponent
<1> QED
  BY DEF PublicOk

LEMMA MidSays == ASSUME MidInv PROVE HandlersSound
<1>1. \A c \in Callers : PublicOk(run[c])
  BY DEF MidInv, Active, Resting, Going, Over, PublicOk
<1>2. RefusalIsFinal
  <2> SUFFICES ASSUME NEW c \in Callers, NEW r, r = run[c]
               PROVE  /\ r.refused # 0 => r.from = "none" /\ r.received = -1 /\ r.file.path = <<>>
                      /\ AnswerOut(r) /\ r.refused # 0 => r.res.status = r.refused
                      /\ \A i \in DOMAIN r.chain : r.chain[i].name = "body-limit" => r.received <= r.chain[i].config.max
    BY DEF RefusalIsFinal
  <2>1. CASE r.pc \in Inward /\ Going(r) /\ InPlace(r)
    BY <2>1, NothingSent DEF Going, InPlace, WithinLimits, AnswerOut
  <2>2. CASE Over(r, Waiting(r))
    BY <2>2 DEF Over, Faithful, WithinLimits
  <2>3. CASE Resting(r)
    <3>1. DOMAIN <<>> = {}
      OBVIOUS
    <3> QED
      BY <2>3, <3>1 DEF Resting
  <2> QED
    BY <2>1, <2>2, <2>3 DEF MidInv, Active
<1>3. OwnErrorsOnly
  <2> SUFFICES ASSUME NEW c \in Callers, NEW r, r = run[c], AnswerOut(r), r.from = "backend",
                      ~(\E i \in DOMAIN r.chain : r.chain[i].name = "error-pages" /\ r.chain[i].config.all)
               PROVE  r.res.body.of = "backend"
    BY DEF OwnErrorsOnly
  <2>1. Over(r, Waiting(r))
    BY DEF MidInv, Active, Resting, AnswerOut, Inward, Awaiting
  <2> QED
    BY <2>1 DEF Over, Faithful
<1>4. LoggedOnce
  <2> SUFFICES ASSUME NEW c \in Callers, NEW r, r = run[c]
               PROVE  /\ \A i, j \in DOMAIN r.lines : r.lines[i] = r.lines[j] => i = j
                      /\ r.pc = "done" => Elements(r.lines) = r.started
    BY DEF LoggedOnce
  <2>1. CASE r.pc \in Inward /\ Going(r)
    BY <2>1 DEF Going, LogOk, Inward, Awaiting
  <2>2. CASE r.pc \in {"up", "answered"} /\ Over(r, Waiting(r))
    BY <2>2 DEF Over, LogOk
  <2>3. CASE Resting(r)
    BY <2>3 DEF Resting
  <2> QED
    BY <2>1, <2>2, <2>3 DEF MidInv, Active
<1> QED
  BY <1>1, <1>2, <1>3, <1>4, PublicServes DEF HandlersSound

\* For every set of requests, configurations, answers, files and links: a
\* guard that answered is the last to see the request and no backend gets more
\* than the smallest limit, an error a backend sent is replaced only where that
\* was asked for, every access log writes one line for a request, and only
\* public files go out (what the handlers of a chain promise each other,
\* gatel-bundle-std).
THEOREM HandlersKept == MidSpec => []HandlersSound
<1>1. MidInit => MidInv
  BY MidStarts
<1>2. MidInv /\ [MidNext]_midVars => MidInv'
  BY MidKeeps
<1>3. MidInv => HandlersSound
  BY MidSays
<1> QED
  BY <1>1, <1>2, <1>3, PTL DEF MidSpec

=============================================================================
