----------------------------- MODULE Lifecycle -----------------------------
(* The lifecycle of memory nodes: one Learner's passes (Sweep, then Merge; the  *)
(* promotion pass is off, as by default) and the clients that change the same  *)
(* nodes meanwhile (Restore, SkillUsed, ApproveSkill, and everything that      *)
(* records a node afresh).  A node is always written whole,    *)
(* from a copy its writer read earlier; only single calls to the memory are    *)
(* atomic.  Any call may fail, and the process may stop between two calls.     *)
(*                                                                           *)
(* The memory and the Merger are not part of this repository: the memory is a   *)
(* map from keys to nodes and a set of links, the Merger proposes any umbrella.*)
EXTENDS Integers, FiniteSets

CONSTANTS
  Keys,        \* keys of the nodes that exist from the start
  Umbrellas,   \* keys the Merger may choose for a new node
  Clients,     \* goroutines and processes that restore, use or record nodes
  None,        \* no umbrella, no client operation
  StaleAfter, ArchiveAfter,   \* staleness windows in clock units, <= 0 disables
  MergeMin,    \* mergeMin, <= 0 disables Merge
  MergeMax,    \* mergeMax, the cap on a group
  MergeStates, \* states mergeTarget lets into a merge
  MaxClock,    \* bound: the clock stops here
  MaxOps,      \* bound: operations of the clients
  MaxSearches  \* bound: Searches of the memory that succeed

AllKeys == Keys \cup Umbrellas
States == {"active", "stale", "archived"}

ASSUME KeyAssumption == /\ Keys \cap Umbrellas = {}
                        /\ None \notin AllKeys
ASSUME WindowAssumption == {StaleAfter, ArchiveAfter, MergeMin, MergeMax} \subseteq Int
ASSUME TargetAssumption == MergeStates \subseteq {"active", "stale"}
ASSUME LifecycleBounds == /\ MaxClock \in Nat \ {0}
                          /\ {MaxOps, MaxSearches} \subseteq Nat

VARIABLES
  now,
  store,     \* the memory's nodes
  links,     \* the memory's merged-into links
  pc,        \* where the pass is
  snap,      \* the nodes the pass read in its last Search
  sweepNow,  \* the time its Sweep read
  group,     \* keys sent to the Merger
  existing,  \* keys an umbrella may not take
  todo,      \* keys the current loop has still to write
  umbrella,  \* the umbrella being applied
  client,    \* each client's operation in progress, with the copy it will write
  folded,    \* history: the originals each stored umbrella was fused from
  degraded,  \* history: has a merge started without knowing all taken keys?
  untouched, \* history: keys nobody else wrote and no write failed on, in a Sweep
  restored,  \* history: keys last written by a Restore, since the Sweep began
  ops, searches  \* counters for the bounds

passVars == <<pc, snap, sweepNow, group, existing, todo, umbrella>>
vars == <<now, store, links, passVars, client, folded, degraded, untouched,
          restored, ops, searches>>

\* An absent MetaState is "active" everywhere in the code, so it is not modelled
\* apart; lastSeen 0 stands for a node without a readable stamp.
Node == [state : States, lastSeen : 0..MaxClock, mergedInto : AllKeys \cup {None}]
Absent == [state |-> "absent", lastSeen |-> 0, mergedInto |-> None]

Fresh(stamp) == [state |-> "active", lastSeen |-> stamp, mergedInto |-> None]

NoNodes == [k \in AllKeys |-> Absent]

Stored(nodes) == {k \in AllKeys : nodes[k] # Absent}

Init == /\ now = 1
        /\ store = [k \in AllKeys |-> IF k \in Keys THEN Fresh(1) ELSE Absent]
        /\ links = {}
        /\ pc = "idle" /\ snap = NoNodes /\ sweepNow = 0
        /\ group = {} /\ existing = {} /\ todo = {} /\ umbrella = None
        /\ client = [c \in Clients |-> None]
        /\ folded = [u \in AllKeys |-> {}]
        /\ degraded = FALSE /\ untouched = {} /\ restored = {}
        /\ ops = 0 /\ searches = 0

Tick == /\ now < MaxClock
        /\ now' = now + 1
        /\ UNCHANGED <<store, links, passVars, client, folded, degraded, untouched,
                       restored, ops, searches>>

\* The process stops or the pass is given up: what has been written stays.
PassOver == /\ pc' = "idle" /\ snap' = NoNodes /\ sweepNow' = 0
            /\ group' = {} /\ existing' = {} /\ todo' = {} /\ umbrella' = None

Forget == untouched' = {} /\ restored' = {}

Abort == /\ pc # "idle"
         /\ PassOver /\ Forget
         /\ UNCHANGED <<now, store, links, client, folded, degraded, ops, searches>>

\* Bound only: a Search that would pass the bound fails instead.
Search == searches < MaxSearches /\ searches' = searches + 1

Record(k, node) == store' = [store EXCEPT ![k] = node]

-----------------------------------------------------------------------------
(* Sweep. *)

NextState(lastSeen, t) ==
  IF ArchiveAfter > 0 /\ t - lastSeen >= ArchiveAfter THEN "archived"
  ELSE IF StaleAfter > 0 /\ t - lastSeen >= StaleAfter THEN "stale"
  ELSE "active"

SweepStart == /\ pc = "idle"
              /\ sweepNow' = now
              /\ \/ /\ pc' = "sweep"
                    /\ Search
                    /\ snap' = store
                    /\ todo' = Stored(store) /\ untouched' = Stored(store)
                 \/ /\ pc' = "merge"               \* the Search failed
                    /\ UNCHANGED <<snap, todo, untouched, searches>>
              /\ UNCHANGED <<now, store, links, group, existing, umbrella, client,
                             folded, degraded, restored, ops>>

SkipsOnlyUnstamped(node) == node.lastSeen = 0
SweepSkips(node) == node.mergedInto # None \/ node.lastSeen = 0

SweepWrites(k) == /\ ~SweepSkips(snap[k])
                  /\ NextState(snap[k].lastSeen, sweepNow) # snap[k].state

GiveUpOnError(k, ok) == IF ok THEN todo \ {k} ELSE {}
SweepRest(k, ok) == todo \ {k}

\* Each node is written from the copy the Search returned.
SweepNode(k) ==
  /\ pc = "sweep" /\ k \in todo
  /\ \/ /\ ~SweepWrites(k)
        /\ todo' = SweepRest(k, TRUE)
        /\ UNCHANGED <<store, untouched>>
     \/ /\ SweepWrites(k)
        /\ Record(k, [snap[k] EXCEPT !.state = NextState(snap[k].lastSeen, sweepNow)])
        /\ todo' = SweepRest(k, TRUE)
        /\ UNCHANGED untouched
     \/ /\ SweepWrites(k)                         \* the write failed
        /\ untouched' = untouched \ {k}
        /\ todo' = SweepRest(k, FALSE)
        /\ UNCHANGED store
  /\ UNCHANGED <<now, links, pc, snap, sweepNow, group, existing, umbrella, client,
                 folded, degraded, restored, ops, searches>>

SweepEnd == /\ pc = "sweep" /\ todo = {}
            /\ pc' = "merge" /\ snap' = NoNodes
            /\ UNCHANGED <<now, store, links, sweepNow, group, existing, todo,
                           umbrella, client, folded, degraded, untouched, restored,
                           ops, searches>>

-----------------------------------------------------------------------------
(* Merge, over the nodes of one domain. *)

Live(nodes) == {k \in Stored(nodes) : nodes[k].state # "archived"}

Eligible == {k \in Live(store) : /\ store[k].state \in MergeStates
                                /\ store[k].mergedInto = None}

\* Too few nodes, Merge disabled, or no answer from the memory or the Merger.
MergeNothing == /\ pc = "merge"
                /\ PassOver /\ Forget
                /\ UNCHANGED <<now, store, links, client, folded, degraded, ops, searches>>

\* A group over the cap is cut to it, in the order of the Search.
MergeStart == /\ pc = "merge" /\ MergeMin > 0
              /\ Search
              /\ Cardinality(Eligible) >= MergeMin
              /\ group' \in IF Cardinality(Eligible) <= MergeMax THEN {Eligible}
                            ELSE {g \in SUBSET Eligible : Cardinality(g) = MergeMax}
              /\ snap' = store
              /\ pc' = "keys" /\ sweepNow' = 0 /\ Forget
              /\ UNCHANGED <<now, store, links, existing, todo, umbrella, client,
                             folded, degraded, ops>>

\* The keys already taken come from a second Search; when it fails, from the first,
\* which returned the live nodes only.
ExistingKeys ==
  /\ pc = "keys" /\ pc' = "fold"
  /\ \/ /\ existing' = Stored(store)
        /\ UNCHANGED degraded
     \/ /\ existing' = Live(snap)
        /\ degraded' = (degraded \/ existing' # Stored(store))
  /\ UNCHANGED <<now, store, links, snap, sweepNow, group, todo, umbrella, client,
                 folded, untouched, restored, ops, searches>>

AcceptAnyKey(u, merged) == merged \subseteq group /\ Cardinality(merged) >= 2
ValidUmbrella(u, merged) == /\ u \notin existing
                            /\ merged \subseteq group
                            /\ Cardinality(merged) >= 2

ArchiveRegardless(ok) == TRUE
ArchivesAfter(ok) == ok

\* The umbrella is recorded before any original is archived.  Two umbrellas of one
\* answer may share originals.
Fold(u, merged, ok) ==
  /\ pc = "fold"
  /\ ValidUmbrella(u, merged)
  /\ IF ok THEN /\ \E stamp \in 0..now : Record(u, Fresh(stamp))
                /\ existing' = existing \cup {u}
                /\ folded' = [folded EXCEPT ![u] = merged]
           ELSE UNCHANGED <<store, existing, folded>>
  /\ IF ArchivesAfter(ok) THEN pc' = "archive" /\ todo' = merged /\ umbrella' = u
                          ELSE UNCHANGED <<pc, todo, umbrella>>
  /\ UNCHANGED <<now, links, snap, sweepNow, group, client, degraded, untouched,
                 restored, ops, searches>>

\* The copy from the Search is marked, shared with later umbrellas of the same
\* answer even when the write fails; the link is added only after the write.
ArchiveOriginal(k, ok) ==
  /\ pc = "archive" /\ k \in todo
  /\ todo' = todo \ {k}
  /\ snap' = [snap EXCEPT ![k].state = "archived", ![k].mergedInto = umbrella]
  /\ IF ok THEN Record(k, snap'[k]) ELSE UNCHANGED store
  /\ links' \in IF ok THEN {links, links \cup {<<k, umbrella>>}} ELSE {links}
  /\ UNCHANGED <<now, pc, sweepNow, group, existing, umbrella, client, folded, degraded,
                 untouched, restored, ops, searches>>

UmbrellaDone == /\ pc = "archive" /\ todo = {}
                /\ pc' = "fold" /\ umbrella' = None
                /\ UNCHANGED <<now, store, links, snap, sweepNow, group, existing, todo,
                               client, folded, degraded, untouched, restored, ops, searches>>

MergeEnd == /\ pc = "fold"
            /\ PassOver
            /\ UNCHANGED <<now, store, links, client, folded, degraded, untouched,
                           restored, ops, searches>>

-----------------------------------------------------------------------------
(* The clients: each reads a node, then writes the whole node back. *)

\* History only: k is written by a client, by Restore or otherwise.
Touch(k, byRestore) ==
  IF pc \notin {"sweep", "merge"} THEN UNCHANGED <<untouched, restored>>
  ELSE /\ untouched' = untouched \ {k}
       /\ restored' = IF byRestore THEN restored \cup {k} ELSE restored \ {k}

CanStart(c, k) == client[c] = None /\ ops < MaxOps /\ store[k] # Absent

\* The copy is changed as soon as it has been read, and written later.
Hold(c, op, k, node, detached) ==
  /\ client' = [client EXCEPT ![c] = [op |-> op, key |-> k, node |-> node,
                                      detached |-> detached]]
  /\ ops' = ops + 1

Release(c) == client' = [client EXCEPT ![c] = None]

Holds(c, op) == client[c] # None /\ client[c].op = op

RestoreKeepsMark(node) == [node EXCEPT !.state = "active", !.lastSeen = now]
RestoredNode(node) == [node EXCEPT !.state = "active", !.lastSeen = now,
                                   !.mergedInto = None]

\* Restore refuses a merged original unless forced.
RestoreRecall(c, k, force) ==
  /\ CanStart(c, k)
  /\ force \/ store[k].mergedInto = None
  /\ Hold(c, IF force THEN "force" ELSE "restore", k, RestoredNode(store[k]),
          store[k].mergedInto)
  /\ UNCHANGED <<now, store, links, passVars, folded, degraded, untouched, restored,
                 searches>>

RestoreRecord(c) ==
  /\ Holds(c, "restore") \/ Holds(c, "force")
  /\ Record(client[c].key, client[c].node)
  /\ Touch(client[c].key, TRUE)
  /\ IF client[c].detached = None THEN Release(c)
     ELSE client' = [client EXCEPT ![c].op = "unlink"]
  /\ UNCHANGED <<now, links, passVars, folded, degraded, ops, searches>>

RestoreUnlink(c) ==
  /\ Holds(c, "unlink")
  /\ links' \in {links, links \ {<<client[c].key, client[c].detached>>}}
  /\ Release(c)
  /\ UNCHANGED <<now, store, passVars, folded, degraded, untouched, restored, ops,
                 searches>>

\* SkillUsed refreshes lastSeen with the time its call began; ApproveSkill changes
\* nothing a lifecycle depends on.  Both write the whole node back.
RewriteRecall(c, k) ==
  /\ CanStart(c, k)
  /\ \E stamp \in {store[k].lastSeen} \cup 1..now :
       Hold(c, "rewrite", k, [store[k] EXCEPT !.lastSeen = stamp], None)
  /\ UNCHANGED <<now, store, links, passVars, folded, degraded, untouched, restored,
                 searches>>

RewriteRecord(c) ==
  /\ Holds(c, "rewrite")
  /\ Record(client[c].key, client[c].node)
  /\ Touch(client[c].key, FALSE)
  /\ Release(c)
  /\ UNCHANGED <<now, links, passVars, folded, degraded, ops, searches>>

\* A call to the memory fails: the operation is given up.
GiveUp(c) ==
  /\ client[c] # None
  /\ Release(c)
  /\ UNCHANGED <<now, store, links, passVars, folded, degraded, untouched, restored,
                 ops, searches>>

\* A fact remembered again, a skill revised, a candidate filed: a node with fresh
\* metadata replaces the old one, stamped (skills) or not (facts).
RecordAfresh(k) ==
  /\ ops < MaxOps /\ ops' = ops + 1
  /\ k \in Keys
  /\ \E stamp \in 0..now : Record(k, Fresh(stamp))
  /\ Touch(k, FALSE)
  /\ UNCHANGED <<now, links, passVars, client, folded, degraded, searches>>

-----------------------------------------------------------------------------

SweepStep == SweepStart \/ SweepEnd \/ \E k \in AllKeys : SweepNode(k)

MergeStep == \/ MergeNothing \/ MergeStart \/ ExistingKeys \/ UmbrellaDone \/ MergeEnd
             \/ \E u \in AllKeys, merged \in SUBSET group, ok \in BOOLEAN :
                  Fold(u, merged, ok)
             \/ \E k \in AllKeys, ok \in BOOLEAN : ArchiveOriginal(k, ok)

ClientStep == \/ \E c \in Clients, k \in AllKeys :
                   \/ \E force \in BOOLEAN : RestoreRecall(c, k, force)
                   \/ RewriteRecall(c, k)
              \/ \E c \in Clients : \/ RestoreRecord(c)
                                   \/ RestoreUnlink(c)
                                   \/ RewriteRecord(c)
                                   \/ GiveUp(c)
              \/ \E k \in Keys : RecordAfresh(k)

Next == Tick \/ Abort \/ SweepStep \/ MergeStep \/ ClientStep

Spec == Init /\ [][Next]_vars

-----------------------------------------------------------------------------
(* Properties. *)

ClientOps == {"restore", "force", "unlink", "rewrite"}

Held == [op : ClientOps, key : AllKeys, node : Node, detached : AllKeys \cup {None}]

TypeOK ==
  /\ now \in 1..MaxClock /\ sweepNow \in 0..MaxClock
  /\ store \in [AllKeys -> Node \cup {Absent}]
  /\ snap \in [AllKeys -> Node \cup {Absent}]
  /\ links \subseteq AllKeys \X AllKeys
  /\ pc \in {"idle", "sweep", "merge", "keys", "fold", "archive"}
  /\ group \subseteq AllKeys /\ existing \subseteq AllKeys /\ todo \subseteq AllKeys
  /\ umbrella \in AllKeys \cup {None}
  /\ client \in [Clients -> Held \cup {None}]
  /\ folded \in [AllKeys -> SUBSET AllKeys]
  /\ degraded \in BOOLEAN
  /\ untouched \subseteq AllKeys /\ restored \subseteq AllKeys
  /\ ops \in 0..MaxOps /\ searches \in 0..MaxSearches

WellMarked(node) == node.mergedInto # None => node.state = "archived"

\* A merged original is archived, through every interleaving of whole-node writes
\* from stale copies, failed writes and aborted passes: nothing brings it back into
\* recall while it still says that an umbrella stands in for it (sweep.go:31-34,
\* merge.go:193-208, restore.go:47-83).
MergedIsArchived == \A k \in AllKeys : WellMarked(store[k])

\* While a merge runs, the nodes it may archive are among those it has read, and they
\* are archived under an umbrella.
GroupWasRead == /\ pc \in {"keys", "fold", "archive"} => group \subseteq Stored(snap)
                /\ pc = "archive" => todo \subseteq group /\ umbrella # None

\* With the types, and the same mark on every copy that may be written back,
\* MergedIsArchived is inductive.
Inv == /\ TypeOK
       /\ GroupWasRead
       /\ MergedIsArchived
       /\ \A k \in AllKeys : WellMarked(snap[k])
       /\ \A c \in Clients : client[c] # None => WellMarked(client[c].node)

\* Merging loses no knowledge: the umbrella a node was merged into exists and was
\* fused from that node, wherever a pass stops (merge.go:162-176).  The exception is
\* a collision set degraded to live nodes, which may let the Merger reuse the key of
\* an archived umbrella (merge.go:102-114).
UmbrellaHoldsOriginals ==
  ~degraded => \A k \in AllKeys : LET u == store[k].mergedInto IN
                 u # None => store[u] # Absent /\ k \in folded[u]

\* Merging builds a forest: no node is merged, directly or through other umbrellas,
\* into itself (merge.go:210-242), with the same exception.
MergeForest == ~degraded => \A cycle \in SUBSET AllKeys :
                 cycle # {} => \E k \in cycle : store[k].mergedInto \notin cycle

\* No merged-into link dangles: whatever Unlink or Links fails, and however a node was
\* restored or recorded afresh since, a link leads from an original to an umbrella that
\* exists and was fused from it (merge.go:203-207, restore.go:74-83), with the same
\* exception.
LinksHold == ~degraded => \A l \in links : store[l[2]] # Absent /\ l[1] \in folded[l[2]]

\* Sweep is complete and best-effort (sweep.go:11-13): when it ends, every stamped
\* and unmerged node it could write, and nobody else wrote, has the state its age
\* at the start of the sweep calls for, whichever other writes failed.
SweepIsComplete ==
  pc = "merge" => \A k \in untouched :
                    SweepSkips(store[k]) \/
                      store[k].state = NextState(store[k].lastSeen, sweepNow)

\* What Restore says (restore.go:43-46): it refuses a merged original unless forced.
\* As a step: an unforced restore never changes a node that is merged.
RestoreRefusesMerged ==
  [][\A c \in Clients : Holds(c, "restore") /\ RestoreRecord(c) =>
       store[client[c].key].mergedInto = None]_vars

\* What Restore says (restore.go:43-46): the refreshed last-seen time keeps a Sweep
\* from ageing the node out again.
RestoredIsNotAgedOut ==
  [][\A k \in restored : pc = "sweep" /\ SweepNode(k) =>
       store'[k].state = store[k].state]_vars
=============================================================================
