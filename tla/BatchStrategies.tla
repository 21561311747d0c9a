--------------------------- MODULE BatchStrategies ---------------------------
(***************************************************************************)
(* ztoq/batch_strategies.py: five ways of cutting a list of entities into  *)
(* batches, and the batch size that adapts to the time the last batch      *)
(* took.  An entity is its size (or estimated time), its type and one      *)
(* feature; its place in the list is its identity.                         *)
(***************************************************************************)
EXTENDS Integers, Sequences, FiniteSets, SequencesExt

CONSTANTS
    Sizes,         \* sizes of entities, naturals
    EntityKinds,        \* types of entities
    MaxEntities,   \* bound on the length of the list
    MaxSize,       \* max_batch_size: a size, or a number of entities
    Nearness,      \* how far the features of similar entities may be apart
    MinBatch, MaxBatch   \* limits of the adaptive batch size

ASSUME BatchAssumption ==
    /\ Sizes \subseteq Nat \ {0} /\ MaxSize \in Nat \ {0} /\ MaxEntities \in Nat
    /\ Nearness \in Nat /\ MinBatch \in Nat \ {0} /\ MaxBatch \in Nat /\ MinBatch <= MaxBatch

VARIABLES
    entities,  \* the list to cut: [id, size, kind]
    cut,       \* [by, batches, limit]: the last result and its size limit
    batchSize  \* current_batch_size of the adaptive strategy
batchVars == <<entities, cut, batchSize>>

Entity(id, size, kind) == [id |-> id, size |-> size, kind |-> kind]
Empty == [by |-> "none", batches |-> <<>>, limit |-> 0]

\* initial_batch_size is anything within the limits.
BatchInit == entities = <<>> /\ cut = Empty /\ batchSize \in MinBatch .. MaxBatch

---------------------------------------------------------------------------
(* The strategies.                                                         *)

SizeSum(batch) ==
    LET sum[n \in 0 .. Len(batch)] == IF n = 0 THEN 0 ELSE sum[n - 1] + batch[n].size
    IN sum[Len(batch)]

Close(acc) == IF acc.current = <<>> THEN acc
              ELSE [batches |-> Append(acc.batches, acc.current), current |-> <<>>]

\* Mutant: < for <=.
PutBySize_Strict(acc, e) ==
    LET fits == SizeSum(acc.current) + e.size < MaxSize
        open == IF fits THEN acc ELSE Close(acc)
    IN IF e.size > MaxSize
       THEN [open EXCEPT !.batches = Append(@, <<e>>)]
       ELSE [open EXCEPT !.current = Append(@, e)]

\* One round of the loop of SizeBatchStrategy and TimeBatchStrategy.
PutBySize(acc, e) ==
    LET fits == SizeSum(acc.current) + e.size <= MaxSize
        open == IF fits THEN acc ELSE Close(acc)
    IN IF e.size > MaxSize
       THEN [open EXCEPT !.batches = Append(@, <<e>>)]
       ELSE [open EXCEPT !.current = Append(@, e)]
BySize(list) ==
    LET filled[n \in 0 .. Len(list)] ==
            IF n = 0 THEN [batches |-> <<>>, current |-> <<>>]
            ELSE PutBySize(filled[n - 1], list[n])
    IN Close(filled[Len(list)]).batches

\* create_batches(batch_size = n): slices.
SlicesOf(list, n) ==
    [k \in 1 .. (Len(list) + n - 1) \div n |->
        SubSeq(list, (k - 1) * n + 1, IF k * n < Len(list) THEN k * n ELSE Len(list))]

\* The elements at some places of a list, in its order.
Picked(list, places) ==
    LET picked[n \in 0 .. Len(list)] ==
            IF n = 0 THEN <<>>
            ELSE IF n \in places THEN Append(picked[n - 1], list[n]) ELSE picked[n - 1]
    IN picked[Len(list)]

\* EntityTypeBatchStrategy: the types in the order of their first entity.
OfKind(list, k) == Picked(list, {n \in 1 .. Len(list) : list[n].kind = k})
FirstOfKinds(list) ==
    Picked(list, {n \in 1 .. Len(list) : \A m \in 1 .. n - 1 : list[m].kind # list[n].kind})
ByKind(list) ==
    LET firsts == FirstOfKinds(list)
    IN FlattenSeq([n \in 1 .. Len(firsts) |-> SlicesOf(OfKind(list, firsts[n].kind), MaxSize)])

Similar(a, b) == (a.size - b.size) \in (0 - Nearness) .. Nearness

\* SimilarityBatchStrategy: the first of the rest, then those like it, last one first.  The
\* search stops at the one that fills the batch, but not before it has found one: a limit
\* of one gives batches of two.
MostSimilar == IF MaxSize = 1 THEN 2 ELSE MaxSize
Alike(rest) == {n \in 2 .. Len(rest) : Similar(rest[1], rest[n])}
Found(rest) ==
    {n \in Alike(rest) : Cardinality({m \in Alike(rest) : m < n}) < MostSimilar - 1}
TakeSimilar(acc) ==
    IF acc.rest = <<>> THEN acc
    ELSE [batches |-> Append(acc.batches, <<acc.rest[1]>> \o Reverse(Picked(acc.rest, Found(acc.rest)))),
          rest |-> Picked(acc.rest, 2 .. Len(acc.rest) \ Found(acc.rest))]
BySimilarity(list) ==
    LET round[n \in 0 .. Len(list)] ==
            IF n = 0 THEN [batches |-> <<>>, rest |-> list] ELSE TakeSimilar(round[n - 1])
    IN round[Len(list)].batches

---------------------------------------------------------------------------
(* The adaptive size.  The time of a batch gives the adjustment, in        *)
(* tenths: 5 to 9 when it was slow, 11 to 15 when it was fast; int()       *)
(* rounds the new size down.                                               *)

Slow == 5 .. 9
Fast == 11 .. 15
Clamp(n) == IF n < MinBatch THEN MinBatch ELSE IF n > MaxBatch THEN MaxBatch ELSE n

\* Mutant: the inverse of the ratio.
Adapt_Inverse(tenths) ==
    /\ batchSize' = Clamp((batchSize * 10) \div tenths)
    /\ UNCHANGED <<entities, cut>>

Adapt(tenths) ==
    /\ batchSize' = Clamp((batchSize * tenths) \div 10)
    /\ UNCHANGED <<entities, cut>>

AddEntity(size, kind) ==
    /\ Len(entities) < MaxEntities
    /\ entities' = Append(entities, Entity(Len(entities) + 1, size, kind))
    /\ cut' = Empty
    /\ UNCHANGED batchSize

CreateBatches(by) ==
    /\ cut.by = "none"
    /\ cut' = [by |-> by,
               batches |-> CASE by = "size"       -> BySize(entities)
                             [] by = "adaptive"   -> SlicesOf(entities, batchSize)
                             [] by = "kind"       -> ByKind(entities)
                             [] by = "similarity" -> BySimilarity(entities),
               limit |-> IF by = "adaptive" THEN batchSize ELSE MaxSize]
    /\ UNCHANGED <<entities, batchSize>>

BatchNext ==
    \/ \E size \in Sizes, kind \in EntityKinds : AddEntity(size, kind)
    \/ \E by \in {"size", "adaptive", "kind", "similarity"} : CreateBatches(by)
    \/ \E tenths \in Slow \cup Fast \cup {10} : Adapt(tenths)

BatchSpec == BatchInit /\ [][BatchNext]_batchVars

---------------------------------------------------------------------------
(* Properties.                                                             *)

\* The type invariant.
BatchTypeOK ==
    /\ \A n \in 1 .. Len(entities) : entities[n] \in [id : {n}, size : Sizes, kind : EntityKinds]
    /\ cut.by \in {"none", "size", "adaptive", "kind", "similarity"}
    /\ batchSize \in MinBatch .. MaxBatch

CutBatches == cut.batches
Cut == cut.by # "none"

\* No strategy loses, repeats or invents an entity, or makes an empty batch;
\* those by size and by slices also keep the order.
BatchesPartition ==
    Cut =>
        /\ \A n \in 1 .. Len(CutBatches) : CutBatches[n] # <<>>
        /\ Len(FlattenSeq(CutBatches)) = Len(entities)
        /\ ToSet(FlattenSeq(CutBatches)) = ToSet(entities)
        /\ cut.by \in {"size", "adaptive"} => FlattenSeq(CutBatches) = entities

\* CutBatches by size stay within the limit, but for one entity larger than it,
\* and are as full as the order allows: no two neighbours would fit together.
SizesTight ==
    cut.by = "size" =>
        /\ \A n \in 1 .. Len(CutBatches) : SizeSum(CutBatches[n]) <= MaxSize \/ Len(CutBatches[n]) = 1
        /\ \A n \in 1 .. Len(CutBatches) - 1 :
              SizeSum(CutBatches[n]) + Head(CutBatches[n + 1]).size > MaxSize

\* CutBatches by type hold one type, and only the last batch of a type is not
\* full; batches by similarity hold entities like their first one, and an
\* entity like it is left for later only when the batch is full.
GroupsTight ==
    /\ cut.by = "kind" => \A n \in 1 .. Len(CutBatches) :
          /\ Len(CutBatches[n]) <= MaxSize
          /\ \A e \in ToSet(CutBatches[n]) : e.kind = CutBatches[n][1].kind
          /\ Len(CutBatches[n]) < MaxSize =>
                \A m \in n + 1 .. Len(CutBatches) : CutBatches[m][1].kind # CutBatches[n][1].kind
    /\ cut.by = "similarity" => \A n \in 1 .. Len(CutBatches) :
          /\ Len(CutBatches[n]) <= MostSimilar
          /\ \A e \in ToSet(CutBatches[n]) : Similar(CutBatches[n][1], e)
          /\ Len(CutBatches[n]) < MaxSize => \A m \in n + 1 .. Len(CutBatches) :
                \A e \in ToSet(CutBatches[m]) : ~Similar(CutBatches[n][1], e)

\* A slow batch never makes the next one larger and a fast one never makes
\* it smaller, for all that rounding and clamping do.
AdaptsTheRightWay ==
    [][/\ \A t \in Slow : Adapt(t) => batchSize' <= batchSize
       /\ \A t \in Fast : Adapt(t) => batchSize' >= batchSize]_batchVars

\* The batches of every strategy cover the entities, and are as full as they may be.
BatchesSound == BatchTypeOK /\ BatchesPartition /\ SizesTight /\ GroupsTight
=============================================================================
