------------------------------- MODULE IpPrefix -------------------------------
(***************************************************************************)
(* IpPrefix (ipprefix.h, ipprefix.cpp): an address and the length of its   *)
(* mask.  An IPv4 address is kept as one word in network order, which a    *)
(* little-endian host reads with its bytes reversed; an IPv6 address is an *)
(* array of bytes.  Bytes and addresses are shorter than in the code.      *)
(***************************************************************************)
EXTENDS Integers, Sequences
LOCAL INSTANCE SequencesExt

CONSTANTS ByteBits, V4Bytes, V6Bytes

VARIABLES m_ip, m_mask,
          state,      \* "none", "made", "thrown" or "subnet"
          original    \* history: the prefix that getSubnet() was called on

vars == <<m_ip, m_mask, state, original>>

Byte == 0 .. 2^ByteBits - 1
V4Bits == V4Bytes * ByteBits
V6Bits == V6Bytes * ByteBits
V4Ones == 2^V4Bits - 1
Address == [family : {"AF_INET"}, addr : 0 .. V4Ones] \cup [family : {"AF_INET6"}, addr : [1..V6Bytes -> Byte]]
IpAddress(word) == [family |-> "AF_INET", addr |-> word]

\* Every variable has its type.
TypeOK ==
  /\ m_ip \in Address /\ m_mask \in 0 .. (IF m_ip.family = "AF_INET" THEN V4Bits ELSE V6Bits)
  /\ state \in {"none", "made", "thrown", "subnet"}
-------------------------------------------------------------------------------
\* A word by its bits that are one; & and | of the code.
Ones(x) == {i \in 0 .. V4Bits + ByteBits : (x \div 2^i) % 2 = 1}
Word(bits) == MapThenSumSet(LAMBDA i : 2^i, bits)
And(x, y) == Word(Ones(x) \cap Ones(y))
Or(x, y) == Word(Ones(x) \cup Ones(y))

Number(bytes) == FoldLeft(LAMBDA n, b : n * 2^ByteBits + b, 0, bytes)
htonl(word) == Number([i \in 1..V4Bytes |-> (word \div 2^(ByteBits * (i - 1))) % 2^ByteBits])

isValid(ip, mask) == mask >= 0 /\ mask <= IF ip.family = "AF_INET" THEN V4Bits ELSE V6Bits

\* Whole bytes of ones, the byte in which the ones end, and zeros.
getMask(ip, mask) ==
  LET mid == mask \div ByteBits
      bits == mask % ByteBits
      ones == 2^ByteBits - 1
  IN IF ip.family = "AF_INET" THEN IpAddress(htonl(And(V4Ones * 2^(V4Bits - mask), V4Ones)))
     ELSE [family |-> "AF_INET6",
           addr |-> [i \in 1..V6Bytes |-> CASE i <= mid -> ones
                                            [] i = mid + 1 -> And(ones * 2^(ByteBits - bits), ones)
                                            [] OTHER -> 0]]

getBroadcastIp(ip, mask) ==
  LET ones == getMask(ip, mask).addr
  IN IF ip.family = "AF_INET" THEN IpAddress(Or(ip.addr, V4Ones - ones))
     ELSE [ip EXCEPT !.addr = [i \in 1..V6Bytes |-> Or(@[i], 2^ByteBits - 1 - ones[i])]]

isAddressInSubnet(ip, mask, a) ==
  LET ones == getMask(ip, mask).addr
  IN /\ ip.family = a.family
     /\ IF ip.family = "AF_INET" THEN And(ip.addr, ones) = And(a.addr, ones)
        ELSE \A i \in 1..V6Bytes : And(ip.addr[i], ones[i]) = And(a.addr[i], ones[i])
-------------------------------------------------------------------------------
Init == m_ip = IpAddress(0) /\ m_mask = 0 /\ state = "none" /\ original = <<m_ip, m_mask>>

\* What every constructor ends with: an object, or an exception.
Made(ip, mask) ==
  IF isValid(ip, mask) THEN m_ip' = ip /\ m_mask' = mask /\ state' = "made" ELSE state' = "thrown" /\ UNCHANGED <<m_ip, m_mask>>

\* Of a text: no address is 0.0.0.0; without "/" the mask is full; what stoi() refuses throws.
FromString(ips, tail, mask) ==
  /\ state = "none"
  /\ LET ip == IF ips = {} THEN IpAddress(0) ELSE CHOOSE a \in ips : TRUE
     IN CASE tail = "absent" -> Made(ip, IF ip.family = "AF_INET" THEN V4Bits ELSE V6Bits)
          [] tail = "refused" -> state' = "thrown" /\ UNCHANGED <<m_ip, m_mask>>
          [] tail = "number" -> Made(ip, mask)
  /\ UNCHANGED original

FromIp(ip, mask) ==
  /\ state = "none" /\ Made(ip, mask) /\ UNCHANGED original

\* A new prefix, of an IPv4 word or of the text that inet_ntop() makes of the bytes.
getSubnet ==
  /\ state = "made" /\ state' = "subnet" /\ original' = <<m_ip, m_mask>>
  /\ LET ones == getMask(m_ip, m_mask).addr
     IN m_ip' = IF m_ip.family = "AF_INET" THEN IpAddress(And(m_ip.addr, ones))
                ELSE [m_ip EXCEPT !.addr = [i \in 1..V6Bytes |-> And(@[i], ones[i])]]
  /\ UNCHANGED m_mask

Next ==
  \/ \E ip \in Address, mask \in -1 .. V6Bits + 1 : FromIp(ip, mask)
  \/ \E ips \in {{}} \cup {{a} : a \in Address}, tail \in {"absent", "refused", "number"}, mask \in -1 .. V6Bits + 1 :
       FromString(ips, tail, mask)
  \/ getSubnet
-------------------------------------------------------------------------------
Value(a) == IF a.family = "AF_INET" THEN htonl(a.addr) ELSE Number(a.addr)

(***************************************************************************)
(* The addresses that isAddressInSubnet() accepts are those from the       *)
(* address of getSubnet() to getBroadcastIp(), 2^(bits - mask length) of   *)
(* them; a prefix and its subnet accept the same ones.  So the mask, which *)
(* is built by word for IPv4 and by byte for IPv6, ends at the right bit   *)
(* in both, at the ends of a byte and of the address as well.              *)
(***************************************************************************)
SubnetIsInterval ==
  state = "subnet" =>
    LET last == Value(getBroadcastIp(m_ip, m_mask))
        bits == IF m_ip.family = "AF_INET" THEN V4Bits ELSE V6Bits
    IN /\ last - Value(m_ip) + 1 = 2^(bits - m_mask)
       /\ \A a \in Address :
            LET within == a.family = m_ip.family /\ Value(m_ip) <= Value(a) /\ Value(a) <= last
            IN /\ isAddressInSubnet(m_ip, m_mask, a) = within
               /\ isAddressInSubnet(original[1], original[2], a) = within
===============================================================================
