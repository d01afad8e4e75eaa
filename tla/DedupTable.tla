------------------------------ MODULE DedupTable ------------------------------
(* The open-addressing table of src/src/dedup.h, which the -DFP build uses to *)
(* give two calls of thread_create with the same function and argument the    *)
(* same thread: operators on a table [ctrl, key, val], the arrays of the code *)
(* (swiss_key_func and swiss_key_arg are one).                                *)
(*                                                                            *)
(* A key stands for a pair (function, argument); its hash is its remainder    *)
(* by HashRange, of which the high part chooses a group and the low part is   *)
(* the tag.  A slot is <<group, index>>.                                      *)
EXTENDS Integers, FiniteSets, FiniteSetsExt

CONSTANTS
  Key,         \* the pairs the client creates threads for
  Thread,
  HashRange,   \* bound: hashes are below it, so that different keys collide
  TagRange,    \* 2^7 in the code
  Groups,      \* SWISS_GROUPS, a power of 2
  GroupSize    \* SWISS_GROUP_SIZE

ASSUME TableAssumption ==
  /\ Key \subseteq Nat /\ Thread \subseteq Nat \ {0}
  /\ HashRange \in Nat \ {0} /\ TagRange \in Nat \ {0}
  /\ GroupSize \in Nat \ {0} /\ Groups \in Nat \ {0}
  /\ \E n \in 0 .. 16 : Groups = 2 ^ n

NULL    == 0
EMPTY   == -128   \* CTRL_EMPTY and CTRL_DELETED: negative, as no tag is
DELETED == -2

Group == 0 .. Groups - 1
Slot  == Group \X (0 .. GroupSize - 1)

(* dedup_mem_init.                                                            *)
EmptyTable ==
  [ctrl |-> [s \in Slot |-> EMPTY], key |-> [s \in Slot |-> -1], val |-> [s \in Slot |-> NULL]]

-------------------------------------------------------------------------------
Hash(k) == k % HashRange
TagOf(k) == Hash(k) % TagRange
Home(k) == (Hash(k) \div TagRange) % Groups

(* swiss_probe_start and swiss_probe_next: the i-th group of the probe, at    *)
(* triangular distance.  With a power of two the first Groups of them are all *)
(* the groups.                                                                *)
Probe(k, i) == (Home(k) + (i * (i + 1)) \div 2) % Groups

InGroup(g) == {g} \X (0 .. GroupSize - 1)

(* swiss_match with the comparison of the keys, swiss_match_empty and         *)
(* swiss_match_empty_or_deleted.                                              *)
Match(T, k, g) == {s \in InGroup(g) : T.ctrl[s] = TagOf(k) /\ T.key[s] = k}
MatchEmpty(T, g) == {s \in InGroup(g) : T.ctrl[s] = EMPTY}
MatchFree(T, g) == {s \in InGroup(g) : T.ctrl[s] < 0}

(* __builtin_ctz: the slot of the set with the lowest index.                  *)
First(slots) == CHOOSE s \in slots : \A u \in slots : s[2] <= u[2]

(* The lengths at which a probe ends: those of dedup_lookup and dedup_remove  *)
(* at a match or at a group with an empty slot, that of dedup_insert at a     *)
(* group with a free one.  The loops of the code have no other bound: they    *)
(* never end if there is no such group.                                       *)
Stops(T, k) ==
  {i \in Group : Match(T, k, Probe(k, i)) # {} \/ MatchEmpty(T, Probe(k, i)) # {}}
Accepts(T, k) == {i \in Group : MatchFree(T, Probe(k, i)) # {}}

Found(T, k) == Match(T, k, Probe(k, Min(Stops(T, k))))

(* dedup_lookup.                                                              *)
Lookup(T, k) == IF Found(T, k) = {} THEN NULL ELSE T.val[First(Found(T, k))]

(* dedup_insert: it does not look whether the pair is there already.          *)
Inserted(T, k, t) ==
  LET s == First(MatchFree(T, Probe(k, Min(Accepts(T, k))))) IN
  [ctrl |-> [T.ctrl EXCEPT ![s] = TagOf(k)],
   key  |-> [T.key EXCEPT ![s] = k],
   val  |-> [T.val EXCEPT ![s] = t]]

(* dedup_remove: a slot may become empty again only if the group has another  *)
(* empty one, where every probe through the group stopped already.  The code  *)
(* leaves the key in the slot; nothing reads it while ctrl is negative.       *)
MutErased(T, s) == EMPTY  \* mutant: the probes through a full group are cut
Erased(T, s) == IF MatchEmpty(T, s[1]) # {} THEN EMPTY ELSE DELETED

Removed(T, k) ==
  IF Found(T, k) = {} THEN T
  ELSE LET s == First(Found(T, k)) IN
       [T EXCEPT !.ctrl[s] = Erased(T, s), !.key[s] = -1, !.val[s] = NULL]
=============================================================================
