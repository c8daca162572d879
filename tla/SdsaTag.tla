------------------------------ MODULE SdsaTag -------------------------------
(***************************************************************************)
(* The tag between the host and the switch (DSA/tag_asix.c): sdsa_xmit     *)
(* puts the port of a user device into a frame for the conduit, sdsa_rcv   *)
(* finds the user device of a frame from the conduit and takes the tag     *)
(* out.  Both work in place on the bytes of a socket buffer.               *)
(*                                                                         *)
(* A frame is sent by a user device, leaves the switch at a port, and a    *)
(* neighbour's frame comes back.  The switch is external: its side of the  *)
(* tag is written from the format the driver writes and reads.             *)
(***************************************************************************)
EXTENDS Naturals, Sequences

CONSTANTS
    UserPorts,      \* ports with a user device
    OtherPorts,     \* port numbers the switch may name that have none
    Payloads,       \* what follows the addresses of a frame
    SwitchIndex     \* ds->index

(* Every Ethernet frame is far longer than a tag, here six bytes suffice. *)
ASSUME TagAssumption ==
    /\ UserPorts \subseteq 0 .. 31 /\ OtherPorts \subseteq 0 .. 1023 /\ SwitchIndex \in Nat
    /\ Payloads \subseteq Seq(0 .. 255) /\ \A q \in Payloads : Len(q) >= 6

VARIABLES
    at,         \* where the frame is
    port,       \* the port it was sent to, or came from
    frame,      \* the frame as the user, or the neighbour, sent it
    skb,        \* the socket buffer: [buf, data], data being its offset
    users,      \* ports whose user device exists
    dsa,        \* the conduit's dsa_ptr is set
    out,        \* what came out at the other end: [port, frame], or dropped
    lost        \* memory ran out on the way

tagVars == <<at, port, frame, skb, users, dsa, out, lost>>

(* The two addresses of every frame, twelve different bytes. *)
Addresses == [k \in 1 .. 12 |-> 200 + k]
Frames == {Addresses \o p : p \in Payloads}
ETH_P_8021Q == <<129, 0>>
ETH_P_SDSA  == <<220, 220>>
IsVlan(f) == SubSeq(f, 13, 14) = ETH_P_8021Q
DSA_HLEN == 4
SDSA_HLEN == 8
ETH_HLEN == 14

Dropped == [port |-> 1024, frame |-> <<>>]
Buffer(f) == [buf |-> [k \in 1 .. 16 |-> 0] \o f, data |-> 16]

TagInit ==
    /\ at = "idle" /\ port = 0 /\ frame = <<>> /\ skb = Buffer(<<>>)
    /\ users = UserPorts /\ dsa = TRUE /\ out = Dropped /\ lost = FALSE

-----------------------------------------------------------------------------
(* Socket buffers: offsets count from the data pointer.                    *)

Data(s) == SubSeq(s.buf, s.data + 1, Len(s.buf))
ByteAt(s, o) == s.buf[s.data + o + 1]
skb_push(s, n) == [s EXCEPT !.data = @ - n]
skb_pull(s, n) == [s EXCEPT !.data = @ + n]
Put(s, o, bytes) ==
    [s EXCEPT !.buf = [k \in DOMAIN @ |->
        IF k - (s.data + o) \in DOMAIN bytes THEN bytes[k - (s.data + o)] ELSE @[k]]]
(* memmove of n bytes from offset "from" to offset "to", both of which may *)
(* lie before the data pointer: "back" is added to them.                   *)
memmove(s, to, from, back, n) ==
    LET base == [s EXCEPT !.data = @ - back]
    IN  [Put(base, to, [k \in 1 .. n |-> ByteAt(base, from + k - 1)]) EXCEPT !.data = s.data]

-----------------------------------------------------------------------------
(* sdsa_xmit                                                               *)

(* Ethertype, two null bytes, the type with the upper bits of the switch   *)
(* index, and the port.                                                    *)
Tag(type, p) ==
    ETH_P_SDSA \o <<0, 0, type + (SwitchIndex % 1024) \div 32, (p * 8) % 256>>

(* A VLAN tag is turned into a tagged FROM_CPU tag, whose last two bytes   *)
(* it provides; other frames get the whole tag.                            *)
sdsa_xmit(s, p) ==
    IF IsVlan(Data(s))
    THEN Put(memmove(skb_push(s, DSA_HLEN), 0, DSA_HLEN, 0, 12), 12, Tag(96, p))
    ELSE Put(memmove(skb_push(s, SDSA_HLEN), 0, SDSA_HLEN, 0, 12), 12, Tag(64, p) \o <<0, 0>>)

(* A user device transmits; the buffer may not be made writable. *)
dsa_user_xmit(p, f) ==
    /\ at = "idle" /\ p \in users
    /\ port' = p /\ frame' = f
    /\ \/ at' = "tagged" /\ skb' = sdsa_xmit(Buffer(f), p) /\ UNCHANGED <<out, lost>>
       \/ at' = "sent" /\ out' = Dropped /\ lost' = TRUE /\ UNCHANGED skb
    /\ UNCHANGED <<users, dsa>>

-----------------------------------------------------------------------------
(* The switch                                                              *)

(* A FROM_CPU frame leaves at the port in its tag. *)
SwitchEgress ==
    /\ at = "tagged" /\ at' = "sent"
    /\ LET f == Data(skb)
           fromCpu == SubSeq(f, 13, 14) = ETH_P_SDSA /\ f[17] \div 64 = 1
           vlan == (f[17] \div 32) % 2 = 1
       IN  out' = IF ~fromCpu THEN Dropped
                  ELSE [port |-> f[18] \div 8,
                        frame |-> SubSeq(f, 1, 12)
                                  \o (IF vlan THEN ETH_P_8021Q \o SubSeq(f, 19, Len(f))
                                              ELSE SubSeq(f, 21, Len(f)))]
    /\ UNCHANGED <<port, frame, skb, users, dsa, lost>>

(* Type of the tag (TO_CPU is 0), port and VLAN tag of a frame for the CPU *)
ToCpu(type, p, f) ==
    LET tag(v) == ETH_P_SDSA \o <<0, 0, type + (IF v THEN 32 ELSE 0) + p \div 32, (p % 32) * 8>>
    IN  SubSeq(f, 1, 12) \o (IF IsVlan(f) THEN tag(TRUE) \o SubSeq(f, 15, Len(f))
                             ELSE tag(FALSE) \o <<0, 0>> \o SubSeq(f, 13, Len(f)))

(* A frame reaches a port and is handed to the host, or the host gets a    *)
(* frame whose tag is of another type, or one cut off after its header;    *)
(* the network core has pulled the Ethernet header.                        *)
SwitchIngress(p, f, type) ==
    /\ at = "idle" /\ at' = "wire"
    /\ port' = (IF type = 0 THEN p ELSE 1024) /\ frame' = f
    /\ skb' = skb_pull(Buffer(ToCpu(type, p, f)), ETH_HLEN)
    /\ UNCHANGED <<users, dsa, out, lost>>

Runt ==
    /\ at = "idle" /\ at' = "wire" /\ port' = 1024 /\ frame' = Addresses
    /\ skb' = skb_pull(Buffer(Addresses \o ETH_P_SDSA \o <<0, 0>>), ETH_HLEN)
    /\ UNCHANGED <<users, dsa, out, lost>>

-----------------------------------------------------------------------------
(* sdsa_rcv                                                                *)

dsa_conduit_find_user(p) == IF p \in users THEN p ELSE 1024

SourcePort(s) == (ByteAt(s, 2) % 32) * 32 + ByteAt(s, 3) \div 8

(* Mutant: the VLAN ethertype goes before the two null bytes. *)
UntagShifted(s) ==
    LET vlan == (ByteAt(s, 2) \div 32) % 2 = 1
        vheader == Put(s, 0, ETH_P_8021Q \o <<ByteAt(s, 4), ByteAt(s, 5)>>)
    IN  IF vlan THEN memmove(skb_pull(vheader, DSA_HLEN), DSA_HLEN, 0, ETH_HLEN + DSA_HLEN, 12)
                ELSE memmove(skb_pull(s, SDSA_HLEN), SDSA_HLEN, 0, ETH_HLEN + SDSA_HLEN, 12)

(* The tag becomes a VLAN tag, or goes; the addresses move up to it. *)
Untag(s) ==
    LET vlan == (ByteAt(s, 2) \div 32) % 2 = 1
        vheader == Put(s, 2, ETH_P_8021Q \o <<ByteAt(s, 4), ByteAt(s, 5)>>)
    IN  IF vlan THEN memmove(skb_pull(vheader, DSA_HLEN), DSA_HLEN, 0, ETH_HLEN + DSA_HLEN, 12)
                ELSE memmove(skb_pull(s, SDSA_HLEN), SDSA_HLEN, 0, ETH_HLEN + SDSA_HLEN, 12)

(* Long enough, a TO_CPU tag, and a port with a user device. *)
sdsa_accepts(s) ==
    /\ Len(Data(s)) >= SDSA_HLEN
    /\ ByteAt(s, 2) \div 64 = 0
    /\ dsa_conduit_find_user(SourcePort(s)) # 1024

(* dsa_switch_rcv: the Ethernet header is pushed again for the user device. *)
dsa_switch_rcv ==
    /\ at = "wire" /\ at' = "received"
    /\ \/ /\ out' = IF dsa /\ sdsa_accepts(skb)
                    THEN [port |-> SourcePort(skb), frame |-> Data(skb_push(Untag(skb), ETH_HLEN))]
                    ELSE Dropped
          /\ UNCHANGED lost
       \/ dsa /\ out' = Dropped /\ lost' = TRUE
    /\ UNCHANGED <<port, frame, skb, users, dsa>>

-----------------------------------------------------------------------------
(* The tree is set up and torn down under the traffic: user devices come   *)
(* and go, and dsa_ptr with the conduit.                                   *)
UserDevice(p) ==
    /\ at \in {"idle", "wire"}
    /\ users' = IF p \in users THEN users \ {p} ELSE users \cup {p}
    /\ UNCHANGED <<at, port, frame, skb, dsa, out, lost>>
Conduit ==
    /\ at \in {"idle", "wire"} /\ dsa' = ~dsa
    /\ UNCHANGED <<at, port, frame, skb, users, out, lost>>

Again ==
    /\ at \in {"sent", "received"} /\ at' = "idle" /\ lost' = FALSE /\ out' = Dropped
    /\ port' = 0 /\ frame' = <<>> /\ skb' = Buffer(<<>>)
    /\ UNCHANGED <<users, dsa>>

TagNext ==
    \/ \E p \in UserPorts, f \in Frames : dsa_user_xmit(p, f)
    \/ \E p \in UserPorts \cup OtherPorts, f \in Frames, type \in {0, 64, 128} :
          SwitchIngress(p, f, type)
    \/ Runt \/ SwitchEgress \/ dsa_switch_rcv \/ Conduit \/ Again
    \/ \E p \in UserPorts : UserDevice(p)

TagSpec == TagInit /\ [][TagNext]_tagVars

-----------------------------------------------------------------------------
(* A frame leaves the switch at the port of the user device that sent it,  *)
(* as it was sent, VLAN tag included, unless memory ran out (sdsa_xmit).   *)
(* A user device gets only what arrived at its port, as it arrived, VLAN   *)
(* tag included, and nothing that is not tagged TO_CPU (sdsa_rcv); and a   *)
(* frame that arrives at a port whose user device exists, on a conduit     *)
(* with its tree, is delivered unless memory runs out (dsa_switch_rcv,     *)
(* dsa_conduit_find_user).                                                 *)
FramesIntact ==
    /\ at = "sent" /\ ~lost => out = [port |-> port, frame |-> frame]
    /\ at = "received" =>
        /\ out # Dropped => out = [port |-> port, frame |-> frame] /\ port \in users
        /\ ~lost /\ dsa /\ port \in users => out # Dropped
=============================================================================
