------------------------------- MODULE DsaUser -------------------------------
(***************************************************************************)
(* The receive filters of the user interfaces and of the conduit           *)
(* (DSA/user.c, DSA/conduit.c, ax_net_set_multicast in xdma_mod.c).  The   *)
(* switch filters no addresses, so what a user interface listens to is     *)
(* added, with reference counts, to the lists of the one conduit below it. *)
(*                                                                         *)
(* Every step holds the rtnl lock.  The tree comes and goes in phases:     *)
(* user interfaces are registered one by one, then the conduit gets its    *)
(* dsa_ptr, and on the way down the conduit loses it before the users go.  *)
(* The lists, counts and flags of an interface, and when they are synced,  *)
(* are the network core's; its memory allocations fail where the code      *)
(* looks at the result.                                                    *)
(***************************************************************************)
EXTENDS Naturals, FiniteSets

CONSTANTS
    Users,          \* the user ports
    Addrs,          \* station addresses
    Groups,         \* multicast addresses
    Extra,          \* what is put on a user's lists: groups, further addresses
    AX_MAX_MCAST,   \* groups the filter of the conduit takes
    MaxTrees,       \* bound: how often the tree is set up
    MaxAsks         \* bound: list entries and flags that are set at a time

ASSUME DsaUserAssumption ==
    /\ IsFiniteSet(Users)
    /\ Addrs # {} /\ Addrs \cap Groups = {} /\ Extra \subseteq Addrs \cup Groups
    /\ AX_MAX_MCAST \in Nat /\ MaxTrees \in Nat /\ MaxAsks \in Nat

VARIABLES
    tree,   \* [phase, count]: how far the tree is, and how many there were
    con,    \* the conduit
    user,   \* the user interface of every port
    left,   \* what destroyed users left behind on the conduit
    moved   \* history: the conduit's address changed below an open user

userVars == <<tree, con, user, left, moved>>

Listed == Addrs \cup Groups
Absent == [there |-> FALSE, up |-> FALSE, addr |-> CHOOSE a \in Addrs : TRUE, want |-> {},
           synced |-> {}, promisc |-> FALSE, ucp |-> FALSE, allmulti |-> FALSE]
Nothing == [refs |-> [x \in Listed |-> 0], promisc |-> 0, allmulti |-> 0]

Fresh(a) == [up |-> FALSE, addr |-> a, refs |-> Nothing.refs, promisc |-> 0, allmulti |-> 0,
             ucp |-> FALSE, dsa |-> FALSE, mode |-> "dir", filter |-> {}]

UserInit ==
    /\ tree = [phase |-> "none", count |-> 0]
    /\ con \in {Fresh(a) : a \in Addrs}
    /\ user = [u \in Users |-> Absent]
    /\ left = Nothing /\ moved = FALSE

-----------------------------------------------------------------------------
(* The conduit.  Operators take and return its record.                     *)

One(b) == IF b THEN 1 ELSE 0
Less(n, m) == IF n > m THEN n - m ELSE 0
Counted(S) == [x \in Listed |-> One(x \in S)]

(* Mutant: all groups are asked for before promiscuous mode is looked at. *)
MulticastFirst(c) ==
    LET groups == {g \in Groups : c.refs[g] > 0}
        mode == CASE c.allmulti > 0 \/ Cardinality(groups) > AX_MAX_MCAST -> "all groups"
                  [] c.promisc > 0 -> "all"
                  [] groups = {}   -> "dir"
                  [] OTHER         -> "groups"
    IN  [c EXCEPT !.mode = mode, !.filter = IF mode = "groups" THEN groups ELSE {}]

(* RX_CTRL and, when it is used, the hash filter of the groups, without    *)
(* the groups that share a hash.                                           *)
ax_net_set_multicast(c) ==
    LET groups == {g \in Groups : c.refs[g] > 0}
        mode == CASE c.promisc > 0 -> "all"
                  [] c.promisc = 0 /\ (c.allmulti > 0 \/ Cardinality(groups) > AX_MAX_MCAST)
                                   -> "all groups"
                  [] OTHER         -> IF groups = {} THEN "dir" ELSE "groups"
    IN  [c EXCEPT !.mode = mode, !.filter = IF mode = "groups" THEN groups ELSE {}]

(* __dev_set_rx_mode: an interface that cannot filter unicast addresses is *)
(* promiscuous while it has any on its list; nothing while it is down.     *)
SetRxMode(c) ==
    LET ucp == \E a \in Addrs : c.refs[a] > 0
    IN  IF ~c.up THEN c
        ELSE ax_net_set_multicast(
                [c EXCEPT !.ucp = ucp, !.promisc = Less(@ + One(ucp), One(c.ucp))])

(* dev_uc_add, dev_mc_add and their opposites, of several addresses at once *)
AddDel(c, add, del) ==
    SetRxMode([c EXCEPT !.refs = [x \in Listed |-> Less(@[x] + add[x], del[x])]])
dev_set_promiscuity(c, up, down) == SetRxMode([c EXCEPT !.promisc = Less(@ + up, down)])
dev_set_allmulti(c, up, down)    == SetRxMode([c EXCEPT !.allmulti = Less(@ + up, down)])
dev_open(c) == SetRxMode([c EXCEPT !.up = TRUE])

-----------------------------------------------------------------------------
(* A user interface v on conduit c.  Results are [con, user].              *)

IFF_PROMISC(v) == v.promisc \/ v.ucp

(* From flags of v to those of w. *)
dsa_user_change_rx_flags(c, v, w) ==
    LET all == IF v.allmulti = w.allmulti THEN c
               ELSE dev_set_allmulti(c, One(w.allmulti), One(v.allmulti))
    IN  IF IFF_PROMISC(v) = IFF_PROMISC(w) THEN all
        ELSE dev_set_promiscuity(all, One(IFF_PROMISC(w)), One(IFF_PROMISC(v)))

(* dsa_user_unsync_* of entries that are gone, dsa_user_sync_* of new ones *)
dsa_user_set_rx_mode(c, v) ==
    AddDel(c, Counted(v.want \ v.synced), Counted(v.synced \ v.want))

(* The core's part comes first, and counts entries that are about to go. *)
UserRxMode(c, v) ==
    LET w == [v EXCEPT !.ucp = (v.want \cup v.synced) \cap Addrs # {}]
    IN  IF ~v.up THEN [con |-> c, user |-> v]
        ELSE [con |-> dsa_user_set_rx_mode(dsa_user_change_rx_flags(c, v, w), w),
              user |-> [w EXCEPT !.synced = v.want]]

Becomes(u, r) == con' = r.con /\ user' = [user EXCEPT ![u] = r.user]

(* The address of v, unless the conduit has it anyway. *)
OwnEntry(c, v) == Counted({v.addr} \ {c.addr})

dsa_user_open(u) ==
    LET v == user[u]
        opened == IF con.up THEN con ELSE dev_open(con)
    IN  /\ v.there /\ ~v.up
        /\ \/ v.addr # con.addr /\ con' = opened /\ UNCHANGED user       \* dev_uc_add failed
           \/ Becomes(u, UserRxMode(AddDel(opened, OwnEntry(con, v), Counted({})),
                                    [v EXCEPT !.up = TRUE]))
        /\ UNCHANGED <<tree, left, moved>>

(* dsa_user_close of several users *)
Closed(c, us) ==
    AddDel(c, Counted({}),
           [x \in Listed |-> Cardinality({u \in us : user[u].up /\ OwnEntry(c, user[u])[x] = 1})])
Down(us) == [u \in Users |-> IF u \in us THEN [user[u] EXCEPT !.up = FALSE] ELSE user[u]]

dsa_user_close(u) ==
    /\ user[u].up
    /\ con' = Closed(con, {u}) /\ user' = Down({u})
    /\ UNCHANGED <<tree, left, moved>>

(* Mutant: the old address is looked at after it has been replaced. *)
SetMacForgetsOld(u, a) ==
    LET v == user[u]
        w == [v EXCEPT !.addr = a]
    IN  /\ v.there /\ a # v.addr
        /\ con' = IF v.up THEN AddDel(con, OwnEntry(con, w), OwnEntry(con, w)) ELSE con
        /\ user' = [user EXCEPT ![u] = w]
        /\ UNCHANGED <<tree, left, moved>>

(* Returns without effect when dev_uc_add fails. *)
dsa_user_set_mac_address(u, a) ==
    LET v == user[u]
        w == [v EXCEPT !.addr = a]
    IN  /\ v.there /\ a # v.addr
        /\ con' = IF v.up THEN AddDel(con, OwnEntry(con, w), OwnEntry(con, v)) ELSE con
        /\ user' = [user EXCEPT ![u] = w]
        /\ UNCHANGED <<tree, left, moved>>

(* List entries and flags, of all users *)
Asked ==
    Cardinality({u \in Users : user[u].promisc}) + Cardinality({u \in Users : user[u].allmulti})
    + Cardinality({p \in Users \X Extra : p[2] \in user[p[1]].want})

(* An address goes on, or off, the lists of a user. *)
ListChange(u, x) ==
    LET v == user[u]
    IN  /\ v.there /\ (x \in v.want \/ Asked < MaxAsks)
        /\ Becomes(u, UserRxMode(con, [v EXCEPT !.want = IF x \in @ THEN @ \ {x} ELSE @ \cup {x}]))
        /\ UNCHANGED <<tree, left, moved>>

(* IFF_PROMISC or IFF_ALLMULTI is set or cleared by an administrator. *)
FlagChange(u, promisc, allmulti) ==
    LET v == user[u]
        w == [v EXCEPT !.promisc = promisc, !.allmulti = allmulti]
    IN  /\ v.there /\ (promisc = v.promisc) # (allmulti = v.allmulti)
        /\ (v.promisc /\ ~promisc) \/ (v.allmulti /\ ~allmulti) \/ Asked < MaxAsks
        /\ Becomes(u, UserRxMode(dsa_user_change_rx_flags(con, v, w), w))
        /\ UNCHANGED <<tree, left, moved>>

-----------------------------------------------------------------------------
(* The conduit's own interface                                             *)

OpenConduit ==
    /\ ~con.up /\ con' = dev_open(con)
    /\ UNCHANGED <<tree, user, left, moved>>

(* NETDEV_GOING_DOWN closes the users first, if the conduit has a tree. *)
CloseConduit ==
    LET us == IF con.dsa THEN Users ELSE {}
    IN  /\ con.up
        /\ con' = [Closed(con, us) EXCEPT !.up = FALSE]
        /\ user' = Down(us)
        /\ UNCHANGED <<tree, left, moved>>

(* -EBUSY while the interface is up *)
ax_net_set_mac_addr(a) ==
    /\ ~con.up /\ a # con.addr
    /\ con' = [con EXCEPT !.addr = a]
    /\ moved' = (moved \/ \E u \in Users : user[u].up)
    /\ UNCHANGED <<tree, user, left>>

-----------------------------------------------------------------------------
(* The tree comes and goes.                                                *)

StartTree ==
    /\ tree.phase = "none" /\ tree.count < MaxTrees
    /\ tree' = [phase |-> "users", count |-> tree.count + 1]
    /\ UNCHANGED <<con, user, left, moved>>

(* The new interface has the conduit's address. *)
dsa_user_create(u) ==
    /\ tree.phase = "users" /\ ~user[u].there
    /\ user' = [user EXCEPT ![u] = [Absent EXCEPT !.there = TRUE, !.addr = con.addr]]
    /\ UNCHANGED <<tree, con, left, moved>>

(* dsa_ptr is set and the conduit becomes promiscuous; a port whose user   *)
(* could not be created does not stop it.                                  *)
dsa_conduit_setup ==
    /\ tree.phase = "users" /\ tree' = [tree EXCEPT !.phase = "up"]
    /\ con' = dev_set_promiscuity([con EXCEPT !.dsa = TRUE], 1, 0)
    /\ UNCHANGED <<user, left, moved>>

dsa_conduit_teardown ==
    /\ tree.phase = "up" /\ tree' = [tree EXCEPT !.phase = "gone"]
    /\ con' = [dev_set_promiscuity(con, 0, 1) EXCEPT !.dsa = FALSE]
    /\ UNCHANGED <<user, left, moved>>

(* unregister_netdevice closes the interface and flushes its lists and     *)
(* flags; what they put on the conduit stays there.                        *)
dsa_user_destroy(u) ==
    LET v == user[u]
    IN  /\ tree.phase = "gone" /\ v.there
        /\ con' = IF v.up THEN Closed(con, {u}) ELSE con
        /\ user' = [user EXCEPT ![u] = Absent]
        /\ left' = [refs |-> [x \in Listed |-> left.refs[x] + One(x \in v.synced)],
                    promisc |-> left.promisc + One(IFF_PROMISC(v)),
                    allmulti |-> left.allmulti + One(v.allmulti)]
        /\ UNCHANGED <<tree, moved>>

TreeGone ==
    /\ tree.phase = "gone" /\ \A u \in Users : ~user[u].there
    /\ tree' = [tree EXCEPT !.phase = "none"]
    /\ UNCHANGED <<con, user, left, moved>>

(* The card is removed and probed anew.  Nothing is claimed of a conduit   *)
(* that was moved, and nothing else is explored.                           *)
Reprobe ==
    /\ moved /\ moved' = FALSE
    /\ tree' = [phase |-> "none", count |-> 0] /\ con' = Fresh(con.addr)
    /\ user' = [u \in Users |-> Absent] /\ left' = Nothing

UserNext ==
    \/ Reprobe
    \/ /\ ~moved
       /\ \/ \E u \in Users :
                \/ dsa_user_create(u) \/ dsa_user_destroy(u)
                \/ dsa_user_open(u) \/ dsa_user_close(u)
                \/ \E a \in Addrs : dsa_user_set_mac_address(u, a)
                \/ \E x \in Extra : ListChange(u, x)
                \/ \E promisc, allmulti \in BOOLEAN : FlagChange(u, promisc, allmulti)
          \/ \E a \in Addrs : ax_net_set_mac_addr(a)
          \/ OpenConduit \/ CloseConduit
          \/ StartTree \/ dsa_conduit_setup \/ dsa_conduit_teardown \/ TreeGone

UserSpec == UserInit /\ [][UserNext]_userVars

-----------------------------------------------------------------------------
(* Properties                                                              *)

Asks(u, x) == One(user[u].up /\ OwnEntry(con, user[u])[x] = 1) + One(x \in user[u].synced)
Total(f) == Cardinality({p \in Users \X (1 .. 2) : p[2] <= f[p[1]]})

(* The conduit's lists and counts are exactly the sum of what its user     *)
(* interfaces have put there, of its own tree and of what destroyed users  *)
(* left: no address or count is added twice, or taken away from another    *)
(* user (dsa_user_open, _close, _set_mac_address, _sync_*, _unsync_*,      *)
(* _change_rx_flags, dsa_conduit_set_promiscuity).  Not so once the        *)
(* conduit's address changed below an open user, which a tree that is      *)
(* coming or going does not prevent.                                       *)
FiltersBalanced ==
    ~moved =>
        /\ \A x \in Listed :
              con.refs[x] = Total([u \in Users |-> Asks(u, x)]) + left.refs[x]
        /\ con.promisc = Total([u \in Users |-> One(IFF_PROMISC(user[u]))])
                         + One(con.dsa) + One(con.ucp) + left.promisc
        /\ con.allmulti = Total([u \in Users |-> One(user[u].allmulti)]) + left.allmulti

(* What the conduit's filter lets through *)
Passes(x) ==
    \/ con.mode = "all" \/ x = con.addr
    \/ x \in Groups /\ (con.mode = "all groups" \/ x \in con.filter)

(* While the conduit is up, frames for an open user interface get through  *)
(* its filter: those for its address, for what is on its lists, and all    *)
(* frames for the switch's tree, whose users then filter for themselves;   *)
(* and a conduit that nobody asks for anything is back to its own address  *)
(* (ax_net_set_multicast, dsa_user_set_rx_mode, dsa_conduit_setup).        *)
HearsItsUsers ==
    con.up =>
        /\ con.dsa => con.mode = "all"
        /\ \A u \in Users : user[u].up /\ ~moved =>
              /\ user[u].synced = user[u].want
              /\ \A x \in user[u].want \cup {user[u].addr} : Passes(x)
              /\ user[u].promisc => con.mode = "all"
              /\ user[u].allmulti => con.mode \in {"all", "all groups"}
        /\ left = Nothing /\ ~moved /\ tree.phase = "none" => con.mode = "dir"
=============================================================================
