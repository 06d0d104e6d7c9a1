---------------------------- MODULE MappingRule ----------------------------
(***************************************************************************)
(* A mapping rule of src/src/metrics/rules/mapping.go: the history of its  *)
(* snapshots, each in effect from its cutover time, edited by               *)
(* newMappingRuleFromFields, markTombstoned and revive; the queries         *)
(* ActiveSnapshot and ActiveRule; and its protobuf form, written by Schema  *)
(* and read back by newMappingRule.  A policy is abstracted to its          *)
(* resolution, so the schema form goes through the resolution table of      *)
(* resolution.go (Resolution.tla).  Filters, the uuid, clone and the JSON   *)
(* form are left out: no query of this file looks at them.                  *)
(***************************************************************************)
EXTENDS Resolution, FiniteSets

CONSTANTS
    Names,          \* rule names
    CutoverTimes,   \* the cutover times callers pass
    QueryTimes,     \* the times ActiveSnapshot and ActiveRule are asked for
    PolicyChoices,  \* the policy lists callers pass, as sets of resolutions
    InitialSchema,  \* the rule's protobuf form in the store, or NoSchema
    NoSchema,
    NoSnapshot,     \* the nil *mappingRuleSnapshot
    MaxSnapshots    \* bound on the length of the history

VARIABLES
    snapshots,          \* mappingRule.snapshots
    stored,             \* the rule's protobuf form in the store
    resolutionToValues  \* the inverse table, as init() built it

vars == <<snapshots, stored, resolutionToValues>>

\* mappingRuleSnapshot (filter and rawFilters left out).
\* The resolutions a policy can have: the table's and the callers'.
Resolutions == Range(ValuesToResolution) \cup UNION PolicyChoices

Snapshot ==
    [name : Names, tombstoned : BOOLEAN, cutoverNanos : CutoverTimes,
     policies : SUBSET Resolutions]

\* newMappingRuleSnapshotFromFields.
NewSnapshot(name, tombstoned, cutover, policies) ==
    [name |-> name, tombstoned |-> tombstoned, cutoverNanos |-> cutover,
     policies |-> policies]

\* mappingRule.Name: the latest snapshot's name, an error without snapshots.
Name(s) ==
    IF s = <<>> THEN [name |-> "", err |-> "errNoRuleSnapshots"]
    ELSE [name |-> s[Len(s)].name, err |-> "nil"]

\* mappingRule.Tombstoned: TRUE without snapshots.
Tombstoned(s) == s = <<>> \/ s[Len(s)].tombstoned

\* mappingRule.addSnapshot: always a live snapshot.
AddSnapshot(s, name, policies, cutover) ==
    Append(s, NewSnapshot(name, FALSE, cutover, policies))

-----------------------------------------------------------------------------
(* The queries.  Indices are 1-based: index 0 is the code's -1.            *)

\* activeIndex: scan back from the latest snapshot while its cutover is
\* after t.
RECURSIVE ActiveIndexFrom(_, _, _)
ActiveIndexFrom(s, t, idx) ==
    IF idx >= 1 /\ s[idx].cutoverNanos > t
    THEN ActiveIndexFrom(s, t, idx - 1) ELSE idx

ActiveIndex(s, t) == ActiveIndexFrom(s, t, Len(s))

\* ActiveSnapshot.
ActiveSnapshot(s, t) ==
    IF ActiveIndex(s, t) = 0 THEN NoSnapshot ELSE s[ActiveIndex(s, t)]

\* Mutant: the active rule starts after the snapshot in effect.
ActiveRuleFromNext(s, t) ==
    IF ActiveIndex(s, t) = 0 THEN s ELSE SubSeq(s, ActiveIndex(s, t) + 1, Len(s))

\* ActiveRule: the rule itself if no snapshot is in effect, else the
\* snapshots from the one in effect on.
ActiveRule(s, t) ==
    IF ActiveIndex(s, t) = 0 THEN s ELSE SubSeq(s, ActiveIndex(s, t), Len(s))

-----------------------------------------------------------------------------
(* The protobuf form.  A schema snapshot holds its policies' resolution    *)
(* values; policy.Schema and NewPoliciesFromSchema convert each policy's    *)
(* resolution with ValueFromResolution and Resolution().                    *)

\* mappingRuleSnapshot.Schema: the first policy that fails fails it.
SnapshotSchemaOK(inverse, x) ==
    \A r \in x.policies : ValueFromResolution(inverse, r).err = "nil"

SnapshotSchema(inverse, x) ==
    [x EXCEPT !.policies = {ValueFromResolution(inverse, r).val : r \in @}]

\* mappingRule.Schema: the first snapshot that fails fails the rule.
Encode(inverse, s) ==
    IF \A i \in DOMAIN s : SnapshotSchemaOK(inverse, s[i])
    THEN [err |-> "nil", schema |-> [i \in DOMAIN s |-> SnapshotSchema(inverse, s[i])]]
    ELSE [err |-> "errUnknownResolution", schema |-> NoSchema]

\* newMappingRuleSnapshot: the policies from their resolution values.
SnapshotFromSchemaOK(x) == \A v \in x.policies : ResolutionOf(v).err = "nil"

SnapshotFromSchema(x) == [x EXCEPT !.policies = {ResolutionOf(v).res : v \in @}]

\* newMappingRule: the first snapshot that fails fails the rule.
Decode(sch) ==
    IF \A i \in DOMAIN sch : SnapshotFromSchemaOK(sch[i])
    THEN [err |-> "nil", rule |-> [i \in DOMAIN sch |-> SnapshotFromSchema(sch[i])]]
    ELSE [err |-> "errUnknownResolutionValue", rule |-> <<>>]

-----------------------------------------------------------------------------
Init ==
    /\ snapshots = <<>>
    /\ stored = InitialSchema
    /\ resolutionToValues \in {InitInverse(o) : o \in RangeOrders}

\* newMappingRuleFromFields: a new rule with one live snapshot.
NewMappingRuleFromFields(name, policies, cutover) ==
    /\ snapshots = <<>>
    /\ snapshots' = AddSnapshot(<<>>, name, policies, cutover)
    /\ UNCHANGED <<stored, resolutionToValues>>

\* Mutant: the tombstone is a fresh snapshot, not a copy of the latest, so
\* its name and policies are Go's zero values.
MarkTombstonedNoCopy(cutover) ==
    /\ Name(snapshots).err = "nil"
    /\ ~Tombstoned(snapshots)
    /\ Len(snapshots) < MaxSnapshots
    /\ snapshots' = Append(snapshots, NewSnapshot("", TRUE, cutover, {}))
    /\ UNCHANGED <<stored, resolutionToValues>>

\* markTombstoned: fails without snapshots or if already tombstoned; else
\* a copy of the latest snapshot, tombstoned from cutover on.
MarkTombstoned(cutover) ==
    /\ Name(snapshots).err = "nil"
    /\ ~Tombstoned(snapshots)
    /\ Len(snapshots) < MaxSnapshots
    /\ snapshots' = Append(snapshots, [snapshots[Len(snapshots)] EXCEPT
                                       !.tombstoned = TRUE, !.cutoverNanos = cutover])
    /\ UNCHANGED <<stored, resolutionToValues>>

\* revive: fails without snapshots or if not tombstoned.
Revive(name, policies, cutover) ==
    /\ Name(snapshots).err = "nil"
    /\ Tombstoned(snapshots)
    /\ Len(snapshots) < MaxSnapshots
    /\ snapshots' = AddSnapshot(snapshots, name, policies, cutover)
    /\ UNCHANGED <<stored, resolutionToValues>>

\* The rule is written to the store in its protobuf form; on an error
\* nothing is written.
Persist ==
    /\ Encode(resolutionToValues, snapshots).err = "nil"
    /\ stored' = Encode(resolutionToValues, snapshots).schema
    /\ UNCHANGED <<snapshots, resolutionToValues>>

\* The rule is read back from the store; on an error it is not replaced.
Load ==
    /\ stored # NoSchema
    /\ Decode(stored).err = "nil"
    /\ snapshots' = Decode(stored).rule
    /\ UNCHANGED <<stored, resolutionToValues>>

Next ==
    \/ \E n \in Names, p \in PolicyChoices, c \in CutoverTimes :
           NewMappingRuleFromFields(n, p, c) \/ Revive(n, p, c)
    \/ \E c \in CutoverTimes : MarkTombstoned(c)
    \/ Persist
    \/ Load

Spec == Init /\ [][Next]_vars

-----------------------------------------------------------------------------
TypeOK ==
    /\ snapshots \in Seq(Snapshot) /\ Len(snapshots) <= MaxSnapshots
    /\ resolutionToValues \in [DOMAIN resolutionToValues -> DOMAIN ValuesToResolution]

(* The rule ActiveRule(t) returns answers every later query as the whole   *)
(* rule does: dropping the snapshots before the one in effect at t changes *)
(* no ActiveSnapshot at t or after.                                         *)
ActiveRuleAgrees ==
    \A t, u \in QueryTimes :
        t <= u => ActiveSnapshot(ActiveRule(snapshots, t), u) = ActiveSnapshot(snapshots, u)

=============================================================================
