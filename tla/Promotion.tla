----------------------------- MODULE Promotion -----------------------------
(* Promotion of private nodes into the project's shared scope, by the passes of *)
(* several agents of one project, with everything that writes the same nodes    *)
(* meanwhile: skills written and revised (recordSkill), approved and revoked     *)
(* (ApproveSkill), used (SkillUsed), swept and restored, candidates filed, and   *)
(* shared nodes recorded directly.  Nodes are written whole, from copies read    *)
(* earlier; only single calls to the memory are atomic, and any may fail.        *)
(*                                                                             *)
(* Promoted keys drop the agent's root (promotedKey), so nodes of two agents     *)
(* with the same name meet at one shared key.                                  *)
EXTENDS Integers

CONSTANTS
  Agents,      \* private roots, one Learner each
  Project,     \* the shared root
  Names,       \* what follows the root in a key
  Clients,     \* goroutines and processes outside the passes
  None,
  MinAge,      \* promoteMinAge, <= 0 disables Promote
  MaxClock,    \* bound: the clock stops here
  MaxTexts,    \* bound: texts ever written
  MaxCalls     \* bound: calls of the clients

ASSUME RootAssumption == Project \notin Agents /\ None \notin Agents \cup Names
ASSUME AgeAssumption == MinAge \in Int
ASSUME PromotionBounds == {MaxClock, MaxTexts, MaxCalls} \subseteq Nat /\ MaxClock > 0

VARIABLES
  now,
  store,     \* the memory's nodes
  links,     \* the memory's promoted-to links, as the keys they leave from
  pass,      \* each Learner's pass
  client,    \* each client's call in progress, with the copy it will write
  texts,     \* texts ever written; a text is its number
  calls,     \* counter for the bound
  approved,  \* history: texts an ApproveSkill has approved
  shared,    \* history: texts a promotion has recorded at a shared key
  revoked,   \* history: private keys whose approval is withdrawn for good
  excused,   \* history: passes whose check of the shared key failed or is outdated
  clean      \* history: names of a pass that nothing failed on and nobody wrote

historyVars == <<approved, shared, revoked, excused, clean>>
vars == <<now, store, links, pass, client, texts, calls, historyVars>>

Keys == (Agents \cup {Project}) \X Names
PrivateKeys == Agents \X Names

\* A stamp of 0 is missing or unreadable; "aside" is every state and mark that keeps
\* a node out of promotion (stale, archived, merged); from is promotedFrom.
Node == [kind : {"skill", "fact"}, text : 1..MaxTexts, approved : BOOLEAN,
         captured : 0..MaxClock, seen : 0..MaxClock, state : {"active", "aside"},
         promoted : BOOLEAN, from : Agents \cup {None}]
Absent == [kind |-> "none", text |-> 0, approved |-> FALSE, captured |-> 0, seen |-> 0,
           state |-> "active", promoted |-> FALSE, from |-> None]

NewNode(kind, captured, seen) ==
  [kind |-> kind, text |-> texts + 1, approved |-> FALSE, captured |-> captured,
   seen |-> seen, state |-> "active", promoted |-> FALSE, from |-> None]

NoSnap == [n \in Names |-> Absent]
IdlePass == [pc |-> "idle", snap |-> NoSnap, todo |-> {}, name |-> None]

Init == /\ now = 1
        /\ store = [k \in Keys |-> Absent] /\ links = {}
        /\ pass = [a \in Agents |-> IdlePass]
        /\ client = [c \in Clients |-> None]
        /\ texts = 0 /\ calls = 0
        /\ approved = {} /\ shared = {} /\ revoked = {} /\ excused = {}
        /\ clean = [a \in Agents |-> {}]

Tick == /\ now < MaxClock
        /\ now' = now + 1
        /\ UNCHANGED <<store, links, pass, client, texts, calls, historyVars>>

-----------------------------------------------------------------------------
(* Promote. *)

IgnoreApproval(node) == TRUE
MayBeShared(node) == node.kind = "skill" => node.approved

Eligible(node) == /\ node # Absent /\ node.state = "active" /\ ~node.promoted
                  /\ MayBeShared(node)
                  /\ node.captured # 0 /\ node.seen # 0
                  /\ node.seen - node.captured >= MinAge

Running(a, pc) == pass[a].pc = pc

\* One Search; what it returned is used for the whole pass.
PromoteStart(a) ==
  /\ Running(a, "idle") /\ MinAge > 0
  /\ LET due == {n \in Names : Eligible(store[<<a, n>>])} IN
       pass' = [pass EXCEPT ![a] =
                     [pc |-> "next", todo |-> due, name |-> None,
                      snap |-> [n \in Names |-> IF n \in due THEN store[<<a, n>>]
                                                             ELSE Absent]]]
  /\ clean' = [clean EXCEPT ![a] = Names]
  /\ UNCHANGED <<now, store, links, client, texts, calls, approved, shared, revoked,
                 excused>>

Unrelated(node) == node # Absent /\ node.from = None
TakenByAPromotion(node) == node.from # None
Taken(node) == Unrelated(node)

\* On to the next node, whatever became of this one.
Proceed(a) == [pass EXCEPT ![a].pc = "next", ![a].name = None,
                           ![a].snap[pass[a].name] = Absent]

\* A node that could not be promoted does not stop the rest.
GiveUpOnError(a) == [Proceed(a) EXCEPT ![a].todo = {}]
AfterError(a) == Proceed(a)

\* The check that the shared key is free: a failed Recall counts as free.
CheckShared(a, n) ==
  /\ Running(a, "next") /\ n \in pass[a].todo
  /\ LET target == store[<<Project, n>>]
         after == [pass[a] EXCEPT !.todo = @ \ {n}]
     IN \/ /\ pass' = [pass EXCEPT ![a] =
                         IF Taken(target) THEN [after EXCEPT !.snap[n] = Absent]
                                          ELSE [after EXCEPT !.pc = "copy", !.name = n]]
           /\ excused' = excused \ {a}
        \/ /\ pass' = [pass EXCEPT ![a] = [after EXCEPT !.pc = "copy", !.name = n]]
           /\ excused' = excused \cup {a}
  /\ clean' = IF Unrelated(store[<<Project, n>>]) THEN [clean EXCEPT ![a] = @ \ {n}]
                                                  ELSE clean
  /\ UNCHANGED <<now, store, links, client, texts, calls, approved, shared, revoked>>

Copy(a) == [pass[a].snap[pass[a].name] EXCEPT !.promoted = FALSE, !.from = a]

\* RecordShared records the copy and links it to the project's root: it may fail
\* before the first or between the two.
CopyShared(a) ==
  /\ Running(a, "copy")
  /\ LET n == pass[a].name
         Recorded == /\ store' = [store EXCEPT ![<<Project, n>>] = Copy(a)]
                     /\ shared' = shared \cup {Copy(a).text}
     IN \/ /\ Recorded
           /\ pass' = [pass EXCEPT ![a].pc = "link"]
           /\ UNCHANGED clean
        \/ /\ Recorded                                   \* its link failed
           /\ pass' = AfterError(a)
           /\ clean' = [clean EXCEPT ![a] = @ \ {n}]
        \/ /\ UNCHANGED <<store, shared>>                \* the Record failed
           /\ pass' = AfterError(a)
           /\ clean' = [clean EXCEPT ![a] = @ \ {n}]
  /\ excused' = excused \ {a}
  /\ UNCHANGED <<now, links, client, texts, calls, approved, revoked>>

LinkPromoted(a) ==
  /\ Running(a, "link")
  /\ \/ /\ links' = links \cup {<<a, pass[a].name>>}
        /\ pass' = [pass EXCEPT ![a].pc = "mark"]
        /\ UNCHANGED clean
     \/ /\ pass' = AfterError(a)
        /\ clean' = [clean EXCEPT ![a] = @ \ {pass[a].name}]
        /\ UNCHANGED links
  /\ UNCHANGED <<now, store, client, texts, calls, approved, shared, revoked, excused>>

\* The copy from the Search is marked and written over the original.
MarkOriginal(a) ==
  /\ Running(a, "mark")
  /\ LET n == pass[a].name IN
       \/ /\ store' = [store EXCEPT ![<<a, n>>] =
                         [pass[a].snap[n] EXCEPT !.promoted = TRUE]]
          /\ pass' = Proceed(a)
          /\ UNCHANGED clean
       \/ /\ pass' = AfterError(a)
          /\ clean' = [clean EXCEPT ![a] = @ \ {n}]
          /\ UNCHANGED store
  /\ UNCHANGED <<now, links, client, texts, calls, approved, shared, revoked, excused>>

PassOver(a) == /\ pass' = [pass EXCEPT ![a] = IdlePass]
               /\ clean' = [clean EXCEPT ![a] = {}]
               /\ excused' = excused \ {a}

PromoteEnd(a) ==
  /\ Running(a, "next") /\ pass[a].todo = {}
  /\ PassOver(a)
  /\ UNCHANGED <<now, store, links, client, texts, calls, approved, shared, revoked>>

\* The process stops: what has been written stays.
Abort(a) ==
  /\ ~Running(a, "idle")
  /\ PassOver(a)
  /\ UNCHANGED <<now, store, links, client, texts, calls, approved, shared, revoked>>

-----------------------------------------------------------------------------
(* The other writers.  Each reads a node, then writes a whole node back. *)

CanCall(c) == client[c] = None /\ calls < MaxCalls

Hold(c, op, k, node) ==
  /\ client' = [client EXCEPT ![c] = [op |-> op, key |-> k, node |-> node]]
  /\ calls' = calls + 1

\* A skill is written for the first time or revised: nothing of the old node but the
\* time of its capture is kept, and that only if it can be read.
RevisionKeepsApproval(old, captured) ==
  [NewNode("skill", captured, now) EXCEPT !.approved = old.approved]
RevisionKeepsMark(old, captured) ==
  [NewNode("skill", captured, now) EXCEPT !.promoted = old.promoted]
Revision(old, captured) == NewNode("skill", captured, now)

RecordSkill(c, a, n) ==
  /\ CanCall(c) /\ texts < MaxTexts
  /\ texts' = texts + 1
  /\ LET old == store[<<a, n>>] IN
       \E captured \in {now} \cup ({old.captured} \ {0}) :
         Hold(c, "skill", <<a, n>>, Revision(old, captured))
  /\ UNCHANGED <<now, store, links, pass, historyVars>>

\* ApproveSkill sets the mark, or deletes it.
Approve(c, k) ==
  /\ CanCall(c) /\ store[k].kind = "skill"
  /\ Hold(c, "approve", k, [store[k] EXCEPT !.approved = TRUE])
  /\ approved' = approved \cup {store[k].text}
  /\ revoked' = revoked \ {k}
  /\ UNCHANGED <<now, store, links, pass, texts, shared, excused, clean>>

Revoke(c, k) ==
  /\ CanCall(c) /\ store[k].kind = "skill"
  /\ Hold(c, "revoke", k, [store[k] EXCEPT !.approved = FALSE])
  /\ UNCHANGED <<now, store, links, pass, texts, historyVars>>

\* SkillUsed, a Sweep or a Restore of another process: a stamp or a state changes.
Touch(c, k) ==
  /\ CanCall(c) /\ store[k] # Absent
  /\ \E seen \in {store[k].seen, now}, state \in {"active", "aside"} :
       Hold(c, "touch", k, [store[k] EXCEPT !.seen = seen, !.state = state])
  /\ UNCHANGED <<now, store, links, pass, texts, historyVars>>

\* History only: nobody has an approved copy of k that could still be written.
NoApprovedCopy(c, k) ==
  /\ \A d \in Clients \ {c} : client[d] # None /\ client[d].key = k => ~client[d].node.approved
  /\ k[1] \in Agents => ~pass[k[1]].snap[k[2]].approved

\* History only: somebody else than its pass writes k.
Written(k, node) ==
  /\ clean' = IF k[1] \in Agents THEN [clean EXCEPT ![k[1]] = @ \ {k[2]}] ELSE clean
  /\ excused' = IF k[1] = Project /\ node.from = None
                THEN excused \cup {a \in Agents : Running(a, "copy") /\ pass[a].name = k[2]}
                ELSE excused

WriteBack(c) ==
  /\ client[c] # None
  /\ LET k == client[c].key IN
       /\ store' = [store EXCEPT ![k] = client[c].node]
       /\ Written(k, client[c].node)
       /\ revoked' = IF client[c].op = "revoke" /\ k \in PrivateKeys /\ NoApprovedCopy(c, k)
                     THEN revoked \cup {k} ELSE revoked
  /\ client' = [client EXCEPT ![c] = None]
  /\ UNCHANGED <<now, links, pass, texts, calls, approved, shared>>

\* A call to the memory fails: the writer gives up.
GiveUp(c) ==
  /\ client[c] # None
  /\ client' = [client EXCEPT ![c] = None]
  /\ UNCHANGED <<now, store, links, pass, texts, calls, historyVars>>

\* A private candidate filed by a pass before its promotion: a skill where learned
\* skills are on, with the stamps the extractor gave it.
FileCandidate(a, n) ==
  /\ Running(a, "idle") /\ texts < MaxTexts
  /\ texts' = texts + 1
  /\ \E kind \in {"skill", "fact"}, captured \in {0, 1} :
       store' = [store EXCEPT ![<<a, n>>] = NewNode(kind, captured, now)]
  /\ UNCHANGED <<now, links, pass, client, calls, historyVars>>

\* A node recorded for the whole project by one of its sessions.
RecordCurated(n) ==
  /\ texts < MaxTexts
  /\ texts' = texts + 1
  /\ store' = [store EXCEPT ![<<Project, n>>] = NewNode("fact", 0, 0)]
  /\ Written(<<Project, n>>, NewNode("fact", 0, 0))
  /\ UNCHANGED <<now, links, pass, client, calls, approved, shared, revoked>>

-----------------------------------------------------------------------------

PassStep(a) == \/ PromoteStart(a) \/ CopyShared(a) \/ LinkPromoted(a) \/ MarkOriginal(a)
               \/ PromoteEnd(a) \/ Abort(a)
               \/ \E n \in Names : CheckShared(a, n)

ClientStep(c) == \/ \E a \in Agents, n \in Names : RecordSkill(c, a, n)
                 \/ \E k \in Keys : Approve(c, k) \/ Revoke(c, k) \/ Touch(c, k)
                 \/ WriteBack(c) \/ GiveUp(c)

RecordStep == \/ \E a \in Agents, n \in Names : FileCandidate(a, n)
              \/ \E n \in Names : RecordCurated(n)

Next == \/ Tick
        \/ \E a \in Agents : PassStep(a)
        \/ \E c \in Clients : ClientStep(c)
        \/ RecordStep

Spec == Init /\ [][Next]_vars

-----------------------------------------------------------------------------
(* Properties. *)

Held == [op : {"skill", "approve", "revoke", "touch"}, key : Keys, node : Node]

TypeOK ==
  /\ now \in 1..MaxClock /\ texts \in 0..MaxTexts /\ calls \in 0..MaxCalls
  /\ store \in [Keys -> Node \cup {Absent}]
  /\ links \subseteq PrivateKeys
  /\ pass \in [Agents -> [pc : {"idle", "next", "copy", "link", "mark"},
                          snap : [Names -> Node \cup {Absent}],
                          todo : SUBSET Names, name : Names \cup {None}]]
  /\ client \in [Clients -> Held \cup {None}]
  /\ approved \subseteq 1..MaxTexts /\ shared \subseteq 1..MaxTexts
  /\ revoked \subseteq PrivateKeys /\ excused \subseteq Agents
  /\ clean \in [Agents -> SUBSET Names]

\* An approval, and a place in the shared scope, belong to a text.
ApprovalFitsText(node) ==
  node.kind = "skill" /\ (node.approved \/ node.from # None) => node.text \in approved

\* A text is marked as promoted only once it has been shared and linked.
MarkFitsText(k, node) == node.promoted => k \in links /\ node.text \in shared

\* No skill reaches the project's other agents unless that very text was approved:
\* revisions, stale copies written back, failing writes and peers promoting the same
\* name never carry the approval of one text over to another (promote.go:37-39,
\* skills.go:46-56 and 203-224; TestReactSkillUpsertsInPlaceKeepingCapturedAt).
SharedTextApproved ==
  \A n \in Names : LET node == store[<<Project, n>>] IN
    node.kind = "skill" /\ node.from # None => node.text \in approved

\* An original that says it has been promoted is linked, and holds a text that was
\* recorded in the shared scope: no failure between the three writes, and no revision,
\* leaves a text marked that its project never saw (promote.go:11-14 and 84-94).
MarkedTextWasShared ==
  \A k \in PrivateKeys : store[k].promoted => k \in links /\ store[k].text \in shared

\* Promotion writes over a shared node that no promotion put there only if the check
\* of its key failed or came before it (promote.go:62-83; TestPromoteSkipsCuratedSharedNode).
CuratedKept ==
  [][\A a \in Agents : CopyShared(a) /\ store' # store /\ a \notin excused =>
       ~Unrelated(store[<<Project, pass[a].name>>])]_vars

\* Revoking stops the next promotion (skills.go:203-205): a skill whose approval was
\* withdrawn is shared again, or approved again, only by an ApproveSkill or through a
\* copy that was read before the revocation was written.
RevocationHolds ==
  /\ \A k \in revoked : ~(store[k].kind = "skill" /\ store[k].approved)
  /\ \A a \in Agents : Running(a, "copy") /\ <<a, pass[a].name>> \in revoked =>
                         Copy(a).kind # "skill"

\* Promote is complete and best-effort (promote.go:97-123): when it ends, every
\* eligible node it could write, and nobody else wrote, is marked as promoted, unless
\* its shared key is held by an unrelated node.
PromoteIsComplete ==
  \A a \in Agents : Running(a, "next") /\ pass[a].todo = {} =>
    \A n \in clean[a] : ~Eligible(store[<<a, n>>])

-----------------------------------------------------------------------------
(* What the properties rest on. *)

Fits(k, node) == ApprovalFitsText(node) /\ MarkFitsText(k, node)

\* The same of every copy that may be written back.
CopiesFit ==
  /\ \A k \in Keys : Fits(k, store[k])
  /\ \A c \in Clients : client[c] # None => Fits(client[c].key, client[c].node)
  /\ \A a \in Agents, n \in Names : ApprovalFitsText(pass[a].snap[n])

\* A pass shares a node only while it holds an eligible copy of it, and in the order
\* copy, link, mark.
PassInOrder ==
  \A a \in Agents :
    /\ \A n \in pass[a].todo : n # pass[a].name /\ Eligible(pass[a].snap[n])
    /\ pass[a].pc = "next" => pass[a].name = None
    /\ pass[a].pc \in {"copy", "link", "mark"} =>
         pass[a].name # None /\ Eligible(pass[a].snap[pass[a].name])
    /\ pass[a].pc \in {"link", "mark"} => pass[a].snap[pass[a].name].text \in shared
    /\ pass[a].pc = "mark" => <<a, pass[a].name>> \in links

\* The node under k, or a copy of it that may be written back, is approved.
ApprovalAround(k) ==
  \/ store[k].approved
  \/ \E c \in Clients : client[c] # None /\ client[c].key = k /\ client[c].node.approved
  \/ pass[k[1]].snap[k[2]].approved

\* Nobody holds an approved copy of what is revoked for good.
NoApprovalLeft ==
  /\ \A k \in revoked : ~ApprovalAround(k)
  /\ \A c \in Clients : client[c] # None /\ client[c].op = "revoke" =>
                        ~client[c].node.approved

\* Between its check and its copy, the shared key is no unrelated node's.
CheckStillHolds ==
  \A a \in Agents : Running(a, "copy") /\ a \notin excused =>
                      ~Unrelated(store[<<Project, pass[a].name>>])

\* What a running pass has dealt with, and nobody else wrote, is not eligible any more.
DealtWith ==
  \A a \in Agents : ~Running(a, "idle") =>
    \A n \in clean[a] : \/ n \in pass[a].todo \/ n = pass[a].name
                        \/ ~Eligible(store[<<a, n>>])

Inv == TypeOK /\ CopiesFit /\ PassInOrder /\ NoApprovalLeft /\ CheckStillHolds /\ DealtWith
=============================================================================
