---------------------------- MODULE ConfigNodes ----------------------------
(***************************************************************************)
(* The format-neutral tree a configuration is read from, and the reader    *)
(* that turns a node into typed fields (gatel-model value.rs, decode.rs,   *)
(* secret.rs and the FromNode derive macro).                               *)
(*                                                                         *)
(* A node is [name, args, props, kids]; a scalar is [t, v].  A string is a *)
(* record whose `kind' says what it spells - a word, a duration, a size,   *)
(* an address, a network, a host, a path, a secret reference - so that     *)
(* parsing a string is deciding whether it spells the wanted thing and     *)
(* what it denotes; characters are left out.  An optional value is a set   *)
(* of at most one element.                                                 *)
(*                                                                         *)
(* Any error refuses the whole configuration, so the reader is two         *)
(* operators: what it reads, and whether it reports anything.              *)
(***************************************************************************)
EXTENDS Integers, Sequences

CONSTANTS MillisPer,    \* a duration unit |-> its length in milliseconds
          BytesPer,     \* a size unit |-> its length in bytes
          WordLimit,    \* the largest number an unsigned 64-bit word holds
          ShortLimit    \* the largest number an unsigned 32-bit word holds

ASSUME ConfigUnits ==
    /\ \A u \in DOMAIN MillisPer : MillisPer[u] \in Nat \ {0}
    /\ \A u \in DOMAIN BytesPer : BytesPer[u] \in Nat \ {0}
    /\ ShortLimit \in Nat /\ WordLimit \in Nat /\ ShortLimit <= WordLimit

Node(name, args, props, kids) == [name |-> name, args |-> args, props |-> props, kids |-> kids]
Text(v) == [t |-> "str", v |-> v]
Word(w) == Text([kind |-> "word", w |-> w])

Given(opt) == opt # {}
Read(opt) == CHOOSE x \in opt : TRUE
OrElse(opt, base) == IF Given(opt) THEN Read(opt) ELSE base

AsStr(s) == IF s.t = "str" THEN {s.v} ELSE {}
AsInt(s) == IF s.t = "int" THEN {s.v} ELSE {}
AsBool(s) == IF s.t = "bool" THEN {s.v} ELSE {}

\* Node::prop and Node::child return the first of the name.
FirstOf(seq) == IF seq = <<>> THEN {} ELSE {seq[1]}
Prop(n, key) ==
    LET hits == SelectSeq(n.props, LAMBDA p : p.name = key)
    IN  IF hits = <<>> THEN {} ELSE {hits[1].value}
ChildrenNamed(n, name) == SelectSeq(n.kids, LAMBDA k : k.name = name)
Child(n, name) == FirstOf(ChildrenNamed(n, name))
PropNames(n) == {n.props[i].name : i \in DOMAIN n.props}
KidNames(n) == {n.kids[i].name : i \in DOMAIN n.kids}
PropStr(n, key) == UNION {AsStr(s) : s \in Prop(n, key)}
ArgStr(n, i) == IF i \in DOMAIN n.args THEN AsStr(n.args[i]) ELSE {}

\* A product is refused where checked_mul refuses it, before it is formed.
Scaled(v, per) ==
    IF v.unit \in DOMAIN per /\ v.n <= WordLimit \div per[v.unit]
    THEN {v.n * per[v.unit]} ELSE {}
ParseDuration(v) == IF v.kind = "duration" THEN Scaled(v, MillisPer) ELSE {}
ParseSize(v) == IF v.kind = "size" THEN Scaled(v, BytesPer) ELSE {}
ParseSocketAddr(v) ==
    IF v.kind = "address" /\ v.numeric /\ v.port # 0 THEN {[ip |-> v.ip, port |-> v.port]} ELSE {}
\* A secret names where the material is; the material itself is refused.
ParseSecret(v) ==
    IF v.kind = "secret" /\ v.named /\ ~v.inline THEN {[from |-> v.from, name |-> v.name]} ELSE {}

FromValue(type, s) ==
    CASE type = "string"   -> AsStr(s)
      [] type = "bool"     -> AsBool(s)
      [] type = "u16"      -> AsInt(s) \cap 0..65535
      [] type = "u32"      -> AsInt(s) \cap 0..ShortLimit
      [] type = "i32"      -> AsInt(s) \cap (-ShortLimit \div 2 - 1)..(ShortLimit \div 2)
      [] type = "duration" -> UNION {ParseDuration(v) : v \in AsStr(s)}
      [] type = "size"     -> (AsInt(s) \cap 0..WordLimit) \cup UNION {ParseSize(v) : v \in AsStr(s)}
      [] type = "status"   -> AsStr(s) \cup {[kind |-> "number", n |-> i] : i \in AsInt(s)}

(***************************************************************************)
(* NodeReader.  A shape lists what a derived struct takes: `args' the      *)
(* types of its required arguments, `props' a type for every property,     *)
(* `needed' the ones without a default, `kids' its child nodes, and        *)
(* `passes' when the children are handled elsewhere.                       *)
(***************************************************************************)
Shape(args, props, needed) ==
    [args |-> args, props |-> props, needed |-> needed, kids |-> {}, passes |-> FALSE]

ReadProp(shape, n, key) ==
    IF key \in DOMAIN shape.props
    THEN UNION {FromValue(shape.props[key], s) : s \in Prop(n, key)} ELSE {}
ReadArg(shape, n, i) ==
    IF i \in DOMAIN n.args THEN FromValue(shape.args[i], n.args[i]) ELSE {}

\* finish: leftovers are counted against the last argument that was asked for.
\* A struct without arguments never asks, and its count is never checked.
ExtraArguments(shape, n) == shape.args # <<>> /\ Len(n.args) > Len(shape.args)
Leftovers(shape, n) ==
    \/ ExtraArguments(shape, n)
    \/ PropNames(n) \ DOMAIN shape.props # {}
    \/ ~shape.passes /\ KidNames(n) \ shape.kids # {}

\* from_node answers None exactly when something was reported.
Misread(shape, n) ==
    \/ \E i \in DOMAIN shape.args : ~Given(ReadArg(shape, n, i))
    \/ \E key \in DOMAIN shape.props :
          IF Given(Prop(n, key)) THEN ~Given(ReadProp(shape, n, key)) ELSE key \in shape.needed
    \/ \E k \in shape.kids : Len(ChildrenNamed(n, k)) > 1
    \/ Leftovers(shape, n)
=============================================================================
