---------------------------- MODULE SubnetFilter ----------------------------
(***************************************************************************)
(* security/SubnetFilter.cpp: the list of address ranges a peer must be in *)
(* to get as far as the TLS handshake.                                     *)
(*                                                                         *)
(* An address is a family and its bytes, a byte the sequence of its bits,  *)
(* the most significant first; `Unreadable` is a text InetPton does not    *)
(* accept.  An entry of the list is an address and what follows the slash. *)
(***************************************************************************)
EXTENDS Integers, Sequences

CONSTANTS
    ByteBits,   \* 8
    Families,   \* AF_INET, AF_INET6
    Bytes,      \* of each family, the bytes of an address: 4, 16
    Unreadable, \* not an address, or not a number
    NoSlash     \* an entry without a prefix length

ASSUME FilterAssumption ==
    /\ ByteBits \in Nat \ {0}
    /\ Bytes \in [Families -> Nat \ {0}]

Byte == [0 .. ByteBits - 1 -> {0, 1}]
Address(f) == [0 .. Bytes[f] - 1 -> Byte]
MaxPrefix(f) == ByteBits * Bytes[f]

\* What parseAddr reads, and an entry of the list with its number, if it has one.
Addresses == UNION {[family : {f}, bytes : Address(f)] : f \in Families}
FilterEntries == [addr : Addresses \cup {Unreadable}, bits : Nat \cup {NoSlash, Unreadable}]

ASSUME UnreadableAssumption == Unreadable \notin Addresses

\* A byte with its first `keep` bits kept: a & (0xFF << (8 - keep)).
Kept(byte, keep) == [j \in 0 .. ByteBits - 1 |-> IF j < keep THEN byte[j] ELSE 0]

\* maskInPlace(a, family, prefixBits)
Mask(f, a, prefixBits) ==
    [i \in 0 .. Bytes[f] - 1 |->
        IF i * ByteBits >= prefixBits THEN Kept(a[i], 0)
        ELSE IF (i + 1) * ByteBits > prefixBits THEN Kept(a[i], prefixBits - i * ByteBits)
        ELSE a[i]]

\* A mutant of matchPrefix: only whole bytes are compared.
MatchBytes(a, net, prefixBits) ==
    \A i \in 0 .. (prefixBits \div ByteBits) - 1 : a[i] = net[i]

\* matchPrefix(a, net, prefixBits)
MatchPrefix(a, net, prefixBits) ==
    LET fullBytes == prefixBits \div ByteBits
        remBits == prefixBits % ByteBits
    IN  /\ \A i \in 0 .. fullBytes - 1 : a[i] = net[i]
        /\ remBits # 0 => Kept(a[fullBytes], remBits) = Kept(net[fullBytes], remBits)

\* The prefix length of an entry; a bare address is a range of one.
Prefix(entry) == IF entry.bits = NoSlash THEN MaxPrefix(entry.addr.family) ELSE entry.bits

\* The entries addCidr accepts.
WellFormed(entry) ==
    /\ entry.bits # Unreadable
    /\ entry.addr # Unreadable
    /\ Prefix(entry) <= MaxPrefix(entry.addr.family)

Rule(entry) ==
    [family |-> entry.addr.family,
     net |-> Mask(entry.addr.family, entry.addr.bytes, Prefix(entry)),
     prefixBits |-> Prefix(entry)]

\* addCidr(cidr): the rules afterwards.
AddCidr(rules, entry) == IF WellFormed(entry) THEN Append(rules, Rule(entry)) ELSE rules

\* addList(list), its entries already cut: the rules afterwards.
AddList(entries) ==
    LET rules[n \in 0 .. Len(entries)] ==
            IF n = 0 THEN <<>> ELSE AddCidr(rules[n - 1], entries[n])
    IN  rules[Len(entries)]

\* isAllowed(ip); without a rule nobody is.
IsAllowed(rules, ip) ==
    /\ ip # Unreadable
    /\ \E n \in 1 .. Len(rules) :
          /\ rules[n].family = ip.family
          /\ MatchPrefix(ip.bytes, rules[n].net, rules[n].prefixBits)

\* What an entry means: the first bits of the peer are those of the address.
Covers(entry, ip) ==
    /\ entry.addr.family = ip.family
    /\ \A i \in 0 .. Bytes[ip.family] - 1, j \in 0 .. ByteBits - 1 :
          i * ByteBits + j < Prefix(entry) => ip.bytes[i][j] = entry.addr.bytes[i][j]
=============================================================================
