----------------------------- MODULE StreamTrim -----------------------------
(***************************************************************************)
(* infrastructure/messaging/stream_retention.py: the trimmer that runs in  *)
(* the relay process and cuts a stream below what its slowest consumer     *)
(* group may still need, less a margin; and the MAXLEN backstop of the     *)
(* publisher, which knows nothing about groups.                            *)
(*                                                                         *)
(* A pass is not atomic: one MULTI reads the head, the first entry and the *)
(* groups' cursors, an XPENDING per group follows, then XTRIM MINID ~.     *)
(* Readers keep delivering and acking, and groups come and go, in between. *)
(*                                                                         *)
(* Entries are numbered in stream order; `ms` is the millisecond half of   *)
(* an entry's id.  The sequence half only orders entries of one            *)
(* millisecond, which the numbering already does.                          *)
(***************************************************************************)
EXTENDS Integers, FiniteSets

CONSTANTS
  Group,       \* consumer groups that may exist on the stream
  MaxEntries,  \* bound: entries added in a behaviour
  MaxMs,       \* bound: the server clock
  Margin,      \* stream_trim_margin_s
  MaxLen       \* the backstop, stream_maxlen

ASSUME TrimAssumption ==
  /\ MaxEntries \in Nat /\ MaxMs \in Nat
  /\ Margin \in Nat /\ MaxLen \in Nat \ {0}

Entry == 1..MaxEntries

VARIABLES
  now,       \* Redis's clock
  added,     \* entries-added: the head of the stream
  ms,        \* [Entry -> 0..MaxMs]: when an entry was added
  present,   \* SUBSET Entry: entries still in the stream
  cutByTrim, cutByMaxLen,   \* SUBSET Entry: who removed the others
  groups,    \* SUBSET Group: groups that exist
  cursor,    \* [Group -> 0..MaxEntries]: last-delivered-id
  pending,   \* [Group -> SUBSET Entry]
  pc,        \* "idle", "pending" (the XPENDING calls) or "trim"
  snapHead,  \* last-generated-id of the snapshot
  snapGroups,\* SUBSET Group: the groups of the snapshot
  toAsk,     \* SUBSET Group: pending > 0, XPENDING not yet asked
  needs      \* [Group -> 0..MaxEntries]: needs_from, as far as known

streamVars == <<now, added, ms, present, cutByTrim, cutByMaxLen>>
groupVars == <<groups, cursor, pending>>
passVars == <<pc, snapHead, snapGroups, toAsk, needs>>
vars == <<streamVars, groupVars, passVars>>

Init ==
  /\ now = 0 /\ added = 0
  /\ ms = [e \in Entry |-> 0]
  /\ present = {} /\ cutByTrim = {} /\ cutByMaxLen = {}
  /\ groups = {}
  /\ cursor = [g \in Group |-> 0]
  /\ pending = [g \in Group |-> {}]
  /\ pc = "idle"
  /\ snapHead = 0 /\ snapGroups = {} /\ toAsk = {}
  /\ needs = [g \in Group |-> 0]

MsOf(e) == IF e = 0 THEN 0 ELSE ms[e]

-----------------------------------------------------------------------------
(* The publisher and the readers.                                          *)

Clock ==
  /\ now < MaxMs
  /\ now' = now + 1
  /\ UNCHANGED <<added, ms, present, cutByTrim, cutByMaxLen, groupVars, passVars>>

\* XADD MAXLEN ~ n may drop the oldest entries of a stream longer than n.
Publish(keep) ==
  /\ added < MaxEntries
  /\ LET all == present \cup {added + 1}
         old == {e \in all : e < keep}
     IN
       /\ Cardinality(all \ old) >= MaxLen \/ old = {}
       /\ present' = all \ old
       /\ cutByMaxLen' = cutByMaxLen \cup old
  /\ added' = added + 1
  /\ ms' = [ms EXCEPT ![added + 1] = now]
  /\ UNCHANGED <<now, cutByTrim, groupVars, passVars>>

\* XGROUP CREATE $: the group starts at the head.
EnsureGroup(g) ==
  /\ g \notin groups
  /\ groups' = groups \cup {g}
  /\ cursor' = [cursor EXCEPT ![g] = added]
  /\ pending' = [pending EXCEPT ![g] = {}]
  /\ UNCHANGED <<streamVars, passVars>>

DestroyGroup(g) ==
  /\ g \in groups
  /\ groups' = groups \ {g}
  /\ UNCHANGED <<streamVars, cursor, pending, passVars>>

\* XREADGROUP >: the next entry still present.
Deliver(g, e) ==
  /\ g \in groups
  /\ e \in present /\ e > cursor[g]
  /\ \A f \in present : f > cursor[g] => e <= f
  /\ cursor' = [cursor EXCEPT ![g] = e]
  /\ pending' = [pending EXCEPT ![g] = @ \cup {e}]
  /\ UNCHANGED <<streamVars, groups, passVars>>

\* XACK, a dead letter, or a consumer deleted with its entries.
Ack(g, e) ==
  /\ g \in groups /\ e \in pending[g]
  /\ pending' = [pending EXCEPT ![g] = @ \ {e}]
  /\ UNCHANGED <<streamVars, groups, cursor, passVars>>

-----------------------------------------------------------------------------
(* One pass of the trimmer.                                                *)

\* MULTI: TIME, XINFO STREAM, XINFO GROUPS.
Snapshot ==
  /\ pc = "idle" /\ added > 0
  /\ snapHead' = added
  /\ snapGroups' = groups
  /\ toAsk' = {g \in groups : pending[g] # {}}
  /\ needs' = cursor
  /\ pc' = "pending"
  /\ UNCHANGED <<streamVars, groupVars>>

\* Mutant of NeedsFrom: the cursor alone, whatever is pending.
NeedsFromCursor(g, low) == low = needs[g]

\* GroupPosition.needs_from: the oldest pending entry when there is one, never
\* above the cursor the snapshot read.
NeedsFrom(g, low) ==
  LET known == pending[g] \cup {needs[g]}
  IN low \in known /\ \A e \in known : low <= e

\* XPENDING of one group of the snapshot; NOGROUP fails the pass.
AskPending(g, low) ==
  /\ pc = "pending" /\ g \in toAsk \cap groups
  /\ NeedsFrom(g, low)
  /\ needs' = [needs EXCEPT ![g] = low]
  /\ toAsk' = toAsk \ {g}
  /\ UNCHANGED <<streamVars, groupVars, pc, snapHead, snapGroups>>

\* trim_decision: below the head's and every group's position less the margin.
BelowCut(e) ==
  /\ ms[e] < MsOf(snapHead) - Margin
  /\ \A g \in snapGroups : ms[e] < MsOf(needs[g]) - Margin

Decide ==
  /\ pc = "pending" /\ toAsk = {}
  /\ pc' = "trim"
  /\ UNCHANGED <<streamVars, groupVars, snapHead, snapGroups, toAsk, needs>>

\* XTRIM MINID ~ minid: whole nodes below the cut, so some prefix of it; no
\* call when no entry is below the cut.
Trim(last) ==
  /\ pc = "trim"
  /\ LET cut == {e \in present : BelowCut(e) /\ e <= last} IN
       /\ present' = present \ cut
       /\ cutByTrim' = cutByTrim \cup cut
  /\ pc' = "idle"
  /\ UNCHANGED <<now, added, ms, cutByMaxLen, groupVars, snapHead, snapGroups,
                 toAsk, needs>>

\* Redis fails anywhere in the pass, or the relay restarts: the next pass
\* starts from a new snapshot.
PassFails ==
  /\ pc # "idle"
  /\ pc' = "idle"
  /\ UNCHANGED <<streamVars, groupVars, snapHead, snapGroups, toAsk, needs>>

Next ==
  \/ Clock
  \/ \E keep \in 1..(MaxEntries + 1) : Publish(keep)
  \/ \E g \in Group : EnsureGroup(g) \/ DestroyGroup(g)
  \/ \E g \in Group, low \in 0..MaxEntries : AskPending(g, low)
  \/ \E g \in Group, e \in Entry : Deliver(g, e) \/ Ack(g, e)
  \/ Snapshot \/ Decide \/ PassFails
  \/ \E last \in 0..MaxEntries : Trim(last)

Spec == Init /\ [][Next]_vars

-----------------------------------------------------------------------------
(* Properties.                                                             *)

\* Types, and the entries added are the ones present or cut.
TypeOK ==
  /\ now \in 0..MaxMs /\ added \in 0..MaxEntries
  /\ ms \in [Entry -> 0..MaxMs]
  /\ present \in SUBSET Entry
  /\ cutByTrim \in SUBSET Entry /\ cutByMaxLen \in SUBSET Entry
  /\ groups \in SUBSET Group
  /\ cursor \in [Group -> 0..MaxEntries]
  /\ pending \in [Group -> SUBSET Entry]
  /\ pc \in {"idle", "pending", "trim"}
  /\ snapHead \in 0..MaxEntries
  /\ snapGroups \in SUBSET Group /\ toAsk \in SUBSET Group
  /\ needs \in [Group -> 0..MaxEntries]

\* What a group has not finished: pending entries and the ones ahead of it.
Unfinished(g) == pending[g] \cup {e \in 1..added : e > cursor[g]}

\* The trimmer never removes an entry some group still has to read or to
\* finish, whatever was delivered, acked, created or destroyed while the pass
\* was running; only the MAXLEN backstop may.
TrimSparesUnfinished ==
  \A g \in groups : Unfinished(g) \cap cutByTrim = {}

\* Trimming keeps the margin: what it removes is older, by more than Margin,
\* than everything any group still has to finish.
TrimKeepsMargin ==
  \A g \in groups : \A e \in Unfinished(g), f \in cutByTrim :
    ms[f] + Margin < ms[e]

-----------------------------------------------------------------------------
(* Why: the inductive invariant behind the two properties.                 *)

\* Ids grow with time, and everything known of the stream is below its head.
StreamOrder ==
  /\ \A e \in 1..added : ms[e] <= now
  /\ \A e, f \in 1..added : e <= f => ms[e] <= ms[f]
  /\ present \subseteq 1..added
  /\ \A g \in Group : cursor[g] <= added
  /\ \A g \in groups : pending[g] \subseteq 1..cursor[g]

\* While a pass runs, what it knows of a group never lies above what the group
\* still needs: the cursor only advances, a group whose pending list has been
\* read only gains entries above it, and a group the snapshot missed started
\* at or above the snapshot's head.
SnapshotIsLow ==
  pc # "idle" =>
    /\ snapHead \in 1..added
    /\ toAsk \subseteq snapGroups
    /\ \A g \in Group : needs[g] <= snapHead
    /\ \A g \in groups \cap snapGroups :
         /\ needs[g] <= cursor[g]
         /\ g \notin toAsk => \A e \in pending[g] : needs[g] <= e
    /\ \A g \in groups \ snapGroups :
         /\ snapHead <= cursor[g]
         /\ \A e \in pending[g] : snapHead <= e

\* What was cut lies behind the clock by more than the margin.
CutIsOld ==
  \A f \in cutByTrim : f \in 1..added /\ ms[f] + Margin < now

TrimInv ==
  TypeOK /\ StreamOrder /\ SnapshotIsLow
  /\ (pc = "trim" => toAsk = {}) /\ CutIsOld /\ TrimKeepsMargin
=============================================================================
