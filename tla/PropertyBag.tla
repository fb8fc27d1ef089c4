---------------------------- MODULE PropertyBag ----------------------------
(***************************************************************************)
(* extract_property of main/utils.c: the value of a key in a list          *)
(* "key=value;key=value", such as a connection string.  Offsets count from *)
(* 0, as in the code; a key has no separator in it.                        *)
(***************************************************************************)
EXTENDS Integers, Sequences

CONSTANTS
  Chars,       (* other than ";" and "="                                    *)
  MaxLen,      (* bound: length of a list                                   *)
  MaxKey       (* bound: length of a key                                    *)

Sep == ";"     \* between pairs

BagConstantsOK == Chars \cap {Sep, "="} = {} /\ MaxLen \in Nat /\ MaxKey \in Nat

VARIABLE call      (* the last call: bag, key and result, empty for NULL     *)

Bags == UNION {[1..n -> Chars \union {Sep, "="}] : n \in 0..MaxLen}
Keys == UNION {[1..n -> Chars] : n \in 0..MaxKey}

TypeOK == call.bag \in Bags /\ call.key \in Keys /\ call.result \subseteq Bags

Init == call = [bag |-> <<>>, key |-> <<>>, result |-> {}]

\* The bytes from offset a up to offset b, exclusive.
Slice(bag, a, b) == SubSeq(bag, a + 1, b)

EndOfPair(bag, ptr) ==
  CHOOSE n \in ptr..Len(bag) :
    /\ n = Len(bag) \/ bag[n + 1] = Sep
    /\ \A i \in ptr..(n - 1) : bag[i + 1] # Sep

\* Faulty variant: the search goes on at the next byte, in the middle of a pair.
Lookup_AnyByte(bag, key) ==
  LET klen == Len(key)
      From[ptr \in 0..Len(bag)] ==
        LET nextp == EndOfPair(bag, ptr)
        IN  IF ptr + klen >= Len(bag) THEN {}
            ELSE IF bag[ptr + klen + 1] = "=" /\ Slice(bag, ptr, ptr + klen) = key
            THEN {Slice(bag, ptr + klen + 1, nextp)}
            ELSE From[ptr + 1]
  IN  From[0]

Lookup(bag, key) ==
  LET klen == Len(key)
      From[ptr \in 0..Len(bag)] ==
        LET nextp == EndOfPair(bag, ptr)
        IN  IF ptr + klen >= Len(bag) THEN {}
            ELSE IF bag[ptr + klen + 1] = "=" /\ Slice(bag, ptr, ptr + klen) = key
            THEN {Slice(bag, ptr + klen + 1, nextp)}
            ELSE From[IF nextp < Len(bag) THEN nextp + 1 ELSE nextp]
  IN  From[0]

extract_property(bag, key) ==
  call' = [bag |-> bag, key |-> key, result |-> Lookup(bag, key)]

Next == call.bag = <<>> /\ \E bag \in Bags, key \in Keys : extract_property(bag, key)

-----------------------------------------------------------------------------
\* Whole pairs: between separators or the ends of the list.
IsPair(bag, a, b) ==
  /\ a = 0 \/ bag[a] = Sep
  /\ b = Len(bag) \/ bag[b + 1] = Sep
  /\ \A i \in (a + 1)..b : bag[i] # Sep

\* The result is what follows "key=" in the first pair that begins with it, even
\* when the key also occurs in a value or ends another key, and nothing is found
\* when there is no such pair (utils.c:6-25).
FindsFirst ==
  LET bag  == call.bag
      name == Append(call.key, "=")
      hits == {p \in (0..Len(bag)) \X (0..Len(bag)) :
                 /\ p[1] <= p[2] /\ IsPair(bag, p[1], p[2])
                 /\ p[1] + Len(name) <= p[2]
                 /\ Slice(bag, p[1], p[1] + Len(name)) = name}
      first == {p \in hits : \A q \in hits : p[1] <= q[1]}
  IN  call.result = {Slice(bag, p[1] + Len(name), p[2]) : p \in first}
=============================================================================
