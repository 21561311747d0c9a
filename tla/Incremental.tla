----------------------------- MODULE Incremental -----------------------------
(***************************************************************************)
(* An incremental migration of ztoq/migration.py and                       *)
(* ztoq/workflow_orchestrator.py: the entities changed since the saved     *)
(* time are fetched, what they refer to is fetched with them, batches are  *)
(* transformed with the mappings known by then, and the time of the end of *)
(* the run is saved.  Zephyr is edited all the while.                      *)
(*                                                                         *)
(* The methods of the database are external (no manager defines them), as  *)
(* are the clients; the load is modelled by its mappings.                  *)
(***************************************************************************)
EXTENDS Integers, Sequences, FiniteSets

CONSTANTS
    ChangedCases, ChangedCycles, ChangedExecutions, \* entities that may change
    CaseFolders,    \* what they refer to besides
    RefsTo(_),      \* what an entity refers to
    Undated,        \* the entities without a time of their last update
    MaxMoments      \* bound on the clock

ASSUME IncrementalAssumption == MaxMoments \in Nat

VARIABLES
    moment,   \* the clock: every edit and every saved time has its own
    edited,   \* entity -> its last edit in Zephyr
    zone,     \* whether Zephyr's times carry a zone
    stamp,    \* the saved time, 0 for none
    mapped,   \* the entities with a mapping to qTest
    inc,      \* the run under way
    unseen    \* history: edits not fetched yet, and those of them made during a run
incVars == <<moment, edited, zone, stamp, mapped, inc, unseen>>

IncKinds == <<ChangedCases, ChangedCycles, ChangedExecutions>>
Changeable == ChangedCases \cup ChangedCycles \cup ChangedExecutions

NoRun == [pc |-> "idle", kind |-> 1, since |-> 0, extracted |-> {}, needed |-> {},
          todo |-> {}, links |-> {}]

IncInit ==
    /\ moment = 1 /\ stamp = 0 /\ mapped = {}
    /\ edited = [e \in Changeable |-> 1]
    /\ zone \in BOOLEAN
    /\ inc = NoRun
    /\ unseen = [late |-> {}, all |-> Changeable]

---------------------------------------------------------------------------
(* Extraction.                                                             *)

\* Comparing a time that has a zone with one that has none raises.
Comparable(kind) == ~zone \/ kind \subseteq Undated

\* Mutant: a change right after the saved time is left out.
ChangedSince_Later(kind, since) == {e \in kind : e \in Undated \/ edited[e] > since + 1}

ChangedSince(kind, since) == {e \in kind : e \in Undated \/ edited[e] > since}

StartRun ==
    /\ inc.pc = "idle" /\ moment < MaxMoments
    /\ inc' = [NoRun EXCEPT !.pc = "fetch"]
    /\ UNCHANGED <<moment, edited, zone, stamp, mapped, unseen>>

\* The saved time; an error of the database counts as none.
LastMigration == {stamp, 0}

\* The changed entities of the next kind.
FetchChanged ==
    /\ inc.pc = "fetch" /\ inc.kind <= Len(IncKinds) /\ Comparable(IncKinds[inc.kind])
    /\ \E since \in LastMigration :
           LET changed == ChangedSince(IncKinds[inc.kind], since) IN
           /\ inc' = [inc EXCEPT !.extracted = @ \cup changed, !.kind = @ + 1]
           /\ unseen' = [late |-> unseen.late \ changed, all |-> unseen.all \ changed]
    /\ UNCHANGED <<moment, edited, zone, stamp, mapped>>

\* What an entity refers to that has no mapping yet.
Unmapped(e) == RefsTo(e) \ mapped

\* resolve_entity_relationships fetches the changed entities once more; for each kind of
\* which the first fetch had some, what they refer to without a mapping is stored too.
ResolveRelationships ==
    /\ inc.pc = "fetch" /\ inc.kind > Len(IncKinds)
    /\ \E since \in LastMigration :
           LET again(k) == IF inc.extracted \cap IncKinds[k] = {} THEN {}
                           ELSE ChangedSince(IncKinds[k], since)
               needed == UNION {Unmapped(e) : e \in UNION {again(k) : k \in DOMAIN IncKinds}}
           IN inc' = [inc EXCEPT !.pc = "transform", !.needed = needed,
                                 !.todo = inc.extracted \cup needed]
    /\ UNCHANGED <<moment, edited, zone, stamp, mapped, unseen>>

---------------------------------------------------------------------------
(* Transformation and load.                                                *)

\* The links of a transformed entity; a reference without a mapping becomes None.
LinksOf(e) == {<<e, r>> : r \in RefsTo(e) \cap mapped}

\* A batch of one kind, kinds in their order.
TransformBatch ==
    /\ inc.pc = "transform"
    /\ \E k \in DOMAIN IncKinds, batch \in SUBSET Changeable :
           /\ batch # {} /\ batch \subseteq inc.todo \cap IncKinds[k]
           /\ \A j \in 1..(k - 1) : inc.todo \cap IncKinds[j] = {}
           /\ inc' = [inc EXCEPT !.todo = @ \ batch,
                                 !.links = @ \cup UNION {LinksOf(e) : e \in batch}]
    /\ UNCHANGED <<moment, edited, zone, stamp, mapped, unseen>>

\* The load gives what was extracted its mappings (external).
LoadExtracted ==
    /\ inc.pc = "transform" /\ inc.todo \cap Changeable = {}
    /\ mapped' = mapped \cup inc.extracted \cup inc.needed
    /\ inc' = [inc EXCEPT !.pc = "loaded"]
    /\ UNCHANGED <<moment, edited, zone, stamp, unseen>>

\* The run is over: the time is saved, or the error of saving it is logged.
SaveMigrationTimestamp ==
    /\ inc.pc = "loaded"
    /\ inc' = NoRun
    /\ \/ /\ stamp' = moment + 1 /\ moment' = moment + 1
          /\ unseen' = unseen
       \/ UNCHANGED <<stamp, moment, unseen>>
    /\ UNCHANGED <<edited, zone, mapped>>

\* A phase raises, and with it the run; the time is not saved.
RunRaises ==
    /\ inc.pc # "idle"
    /\ inc' = NoRun
    /\ UNCHANGED <<moment, edited, zone, stamp, mapped, unseen>>

EditInZephyr(e) ==
    /\ moment < MaxMoments
    /\ moment' = moment + 1
    /\ edited' = [edited EXCEPT ![e] = moment + 1]
    /\ unseen' = [late |-> IF inc.pc = "idle" THEN unseen.late \ {e} ELSE unseen.late \cup {e},
                  all |-> unseen.all \cup {e}]
    /\ UNCHANGED <<zone, stamp, mapped, inc>>

IncNext ==
    \/ StartRun \/ FetchChanged \/ ResolveRelationships \/ TransformBatch \/ LoadExtracted
    \/ SaveMigrationTimestamp \/ RunRaises
    \/ \E e \in Changeable \ Undated : EditInZephyr(e)

IncSpec == IncInit /\ [][IncNext]_incVars

---------------------------------------------------------------------------
(***************************** Properties *********************************)

\* An edit that no run has fetched yet is found by the next one, over failed and partial
\* runs; what is edited while a run is under way may be lost, since the time of the end is
\* saved, not that of the start (migration.py:1485, 1529; workflow_orchestrator.py:2007).
EditsAreFound ==
    \A e \in unseen.all \ (unseen.late \cup Undated) :
        stamp < edited[e]

\* Once extraction is over, everything an extracted entity refers to has a mapping or was
\* stored along with it, though the relationships are resolved from a second fetch and
\* Zephyr changes in between (migration.py:1558-1597, workflow_orchestrator.py:766-795).
NothingDangles ==
    inc.pc \in {"transform", "loaded"} =>
        \A e \in inc.extracted : RefsTo(e) \subseteq mapped \cup inc.needed

\* What was transformed keeps a reference as soon as the referred entity was loaded by an
\* earlier run: only entities that are new together lose the link (migration.py:1905-1930).
LinksKept ==
    inc.pc = "loaded" =>
        \A e \in (inc.extracted \cup inc.needed) \cap Changeable : \A r \in RefsTo(e) :
            <<e, r>> \in inc.links \/ r \in inc.extracted \cup inc.needed

IncrementalSound == EditsAreFound /\ NothingDangles /\ LinksKept
=============================================================================
