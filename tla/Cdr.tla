-------------------------------- MODULE Cdr ---------------------------------
(***************************************************************************)
(* The CDR octet streams that both sides write and read their types with:  *)
(* Fast CDR in the Agent, Micro-CDR in the Client.  Neither library is     *)
(* part of this repository; they are modelled from the way the generated   *)
(* serializers call them.                                                  *)
(*                                                                         *)
(* A type is described by a layout, and every layout is written and read   *)
(* by the two recursive operators Put and Get.  A number is aligned to its *)
(* width, counted from the start of the buffer.  Both machines are little  *)
(* endian, as both libraries are by default.                               *)
(*                                                                         *)
(* A value is a number for a number, a tuple of octets for an array or a   *)
(* string, a tuple of values for a sequence, <<>> or <<v>> for an optional,*)
(* a record for a structure and <<discriminator, v>> for a union.          *)
(***************************************************************************)
EXTENDS Integers, Sequences

(* An octet nobody wrote: the gap an alignment leaves.                     *)
Pad == -1

(* No limit: the Agent's strings and vectors grow as they are read.        *)
Unlimited == 65535

(* The layouts. *)
Octets(n) == [kind |-> "octets", size |-> n]
UInt(width) == [kind |-> "uint", width |-> width]
String(max) == [kind |-> "string", max |-> max]
SeqOf(of, max) == [kind |-> "seq", of |-> of, max |-> max]
Opt(of) == [kind |-> "opt", of |-> of]
Struct(members, order) == [kind |-> "struct", members |-> members, order |-> order]
Union(width, members, cases) ==
    [kind |-> "union", width |-> width, members |-> members, cases |-> cases]

(* An optional member of which only the flag is read.                      *)
Flagged(of) == [kind |-> "flagged", of |-> of]

(* A vector of octets whose size the reader must know: all of them are     *)
(* written, and the n the reader made room for are read.                   *)
Raw(n) == [kind |-> "raw", size |-> n]

(* The elements of a sequence without their number: no stream has it, some *)
(* size functions count it.                                                *)
Elements(of) == [kind |-> "elements", of |-> of]

(* One case of a union: its discriminator and the member it selects.       *)
Case(d, member) == [x \in {d} |-> member]

-----------------------------------------------------------------------------
Align(at, width) == (width - (at % width)) % width

Padding(n) == [i \in 1..n |-> Pad]

(* Numbers of the model are below 2^24: further octets are zero.           *)
Digits(n, width) == [i \in 1..width |-> IF i <= 3 THEN (n \div 256 ^ (i - 1)) % 256 ELSE 0]

NumberOf(ds) ==
    LET digit(i) == IF i <= Len(ds) THEN ds[i] ELSE 0
    IN  IF \E i \in 4..Len(ds) : ds[i] # 0
        THEN 2 ^ 24
        ELSE digit(1) + 256 * digit(2) + 65536 * digit(3)

PutNumber(n, width, b) == b \o Padding(Align(Len(b), width)) \o Digits(n, width)

RECURSIVE Put(_, _, _), PutCase(_, _, _), PutMembers(_, _, _, _), PutEach(_, _, _)

(* The buffer b with the value v of layout L written at its end.           *)
Put(L, v, b) ==
    CASE L.kind \in {"octets", "raw"} -> b \o v
      [] L.kind = "uint"     -> PutNumber(v, L.width, b)
      [] L.kind = "string"   -> PutNumber(Len(v) + 1, 4, b) \o v \o <<0>>
      [] L.kind = "seq"      -> PutEach(L.of, v, PutNumber(Len(v), 4, b))
      [] L.kind = "elements" -> PutEach(L.of, v, b)
      [] L.kind \in {"opt", "flagged"} ->
                                IF v = <<>> THEN Append(b, 0) ELSE Put(L.of, v[1], Append(b, 1))
      [] L.kind = "struct"   -> PutMembers(L.members, L.order, v, b)
      [] L.kind = "union"    -> PutCase(L, v, PutNumber(v[1], L.width, b))

PutCase(L, v, b) ==
    IF v[1] \in DOMAIN L.cases THEN Put(L.members[L.cases[v[1]]], v[2], b) ELSE b

PutMembers(members, order, v, b) ==
    IF order = <<>> THEN b
    ELSE PutMembers(members, Tail(order), v, Put(members[Head(order)], v[Head(order)], b))

PutEach(of, vs, b) == IF vs = <<>> THEN b ELSE PutEach(of, Tail(vs), Put(of, Head(vs), b))

-----------------------------------------------------------------------------
(* What a read returns: whether it succeeded, the position after it and    *)
(* the value.  A position counts the octets before it.                     *)
Read(at, v) == [ok |-> TRUE, at |-> at, v |-> v]
Unread(b) == [ok |-> FALSE, at |-> Len(b), v |-> <<>>]

GetOctets(n, b, at) ==
    IF at + n <= Len(b) THEN Read(at + n, SubSeq(b, at + 1, at + n)) ELSE Unread(b)

AsNumber(r) == IF r.ok THEN Read(r.at, NumberOf(r.v)) ELSE r
GetNumber(width, b, at) == AsNumber(GetOctets(width, b, at + Align(at, width)))

(* A string without its last octet, one value of an optional, one case of  *)
(* a union: from what was read of them.                                    *)
AsString(r) == IF r.ok THEN Read(r.at, SubSeq(r.v, 1, Len(r.v) - 1)) ELSE r
AsSome(r) == IF r.ok THEN Read(r.at, <<r.v>>) ELSE r
AsCase(d, r) == IF r.ok THEN Read(r.at, <<d, r.v>>) ELSE r

RECURSIVE Get(_, _, _), GetSeq(_, _, _), GetOpt(_, _, _), GetCase(_, _, _),
          GetMembers(_, _, _, _, _), GetNext(_, _, _, _, _), GetEach(_, _, _, _, _),
          GetRest(_, _, _, _, _)

(* The value of layout L read from the buffer b at the position at.        *)
Get(L, b, at) ==
    CASE L.kind \in {"octets", "raw"} -> GetOctets(L.size, b, at)
      [] L.kind = "uint"    -> GetNumber(L.width, b, at)
      [] L.kind \in {"string", "seq"} -> GetSeq(L, b, GetNumber(4, b, at))
      [] L.kind = "opt"     -> GetOpt(L.of, b, GetOctets(1, b, at))
      [] L.kind = "flagged" -> [GetOctets(1, b, at) EXCEPT !.v = <<>>]
      [] L.kind = "struct"  -> GetMembers(L.members, L.order, b, at, <<>>)
      [] L.kind = "union"   -> GetCase(L, b, GetNumber(L.width, b, at))

(* The rest of it, behind the number n of its elements, the flag or the    *)
(* discriminator d.                                                        *)
GetSeq(L, b, n) ==
    IF ~n.ok \/ n.v > L.max THEN Unread(b)
    ELSE IF L.kind = "string" THEN AsString(GetOctets(n.v, b, n.at))
    ELSE GetEach(L.of, n.v, b, n.at, <<>>)

GetOpt(of, b, flag) ==
    IF flag.ok /\ flag.v # <<0>> THEN AsSome(Get(of, b, flag.at)) ELSE [flag EXCEPT !.v = <<>>]

GetCase(L, b, d) ==
    IF d.ok /\ d.v \in DOMAIN L.cases
    THEN AsCase(d.v, Get(L.members[L.cases[d.v]], b, d.at))
    ELSE AsCase(d.v, [d EXCEPT !.v = <<>>])

GetMembers(members, order, b, at, read) ==
    IF order = <<>> THEN Read(at, read)
    ELSE GetNext(members, order, b, read, Get(members[Head(order)], b, at))

GetNext(members, order, b, read, r) ==
    IF r.ok
    THEN GetMembers(members, Tail(order), b, r.at,
            [x \in DOMAIN read \cup {Head(order)} |-> IF x = Head(order) THEN r.v ELSE read[x]])
    ELSE r

GetEach(of, n, b, at, read) ==
    IF n = 0 THEN Read(at, read) ELSE GetRest(of, n, b, read, Get(of, b, at))

GetRest(of, n, b, read, r) ==
    IF r.ok THEN GetEach(of, n - 1, b, r.at, Append(read, r.v)) ELSE r

=============================================================================
